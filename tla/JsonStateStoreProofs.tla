------------------------ MODULE JsonStateStoreProofs ------------------------
(***************************************************************************)
(* The safety of JsonStateStore for any threads, sessions, values,         *)
(* restarts and failures of the file system.                               *)
(*                                                                         *)
(* The inductive invariant follows a save from the lock to the file.  What *)
(* the holder of the lock has read of the dicts is what they are, but for  *)
(* the entries a thread has assigned to that still waits for the lock: it  *)
(* will save them.  So a save that another thread has disturbed leaves     *)
(* somebody behind who saves for it, and one that the file system refuses  *)
(* leaves its mark.  And a value has one cell, wherever it is held, so     *)
(* that what a claim has removed from the dict is in no copy made later.   *)
(***************************************************************************)
EXTENDS JsonStateStore, FiniteSetTheorems, TLAPS

Work ==
    [pc : {"mutate", "acquire", "open", "items", "replace"}, op : Op,
     cell : Cell, value : Value \cup {None}, table : Table, size : Nat,
     left : SUBSET Cell, copy : Contents]

(* The task x holds the lock and saves. *)
Saves(x) == x.pc \in {"open", "items", "replace"}

(* The task x has assigned to its dict and has yet to save. *)
Changed(x) == x.pc = "acquire" /\ ~Locked(x.op, x.cell)
Touched(c) == \E u \in Thread : Changed(task[u]) /\ task[u].cell = c
Pending == \E u \in Thread : Changed(task[u])

LockInv ==
    /\ \A t \in Thread : Saves(task[t]) <=> lock = t
    /\ ~loaded => memory = Empty /\ \A t \in Thread : task[t].pc = "idle"

PhaseInv ==
    \A t \in Thread :
        /\ task[t].pc \in {"mutate", "acquire"} =>
              task[t].table = "approvals" /\ task[t].copy = Empty
        /\ task[t].pc = "mutate" => ~Locked(task[t].op, task[t].cell)
        /\ task[t].pc = "items" => \A c \in task[t].left : c[1] = task[t].table
        /\ task[t].pc # "idle" /\ task[t].op = "claim" => task[t].cell[1] = "approvals"

(* What the task x has not read yet of the dicts. *)
Unread(x, c) ==
    \/ x.pc = "open" /\ (c[1] = x.table \/ c[1] = "context")
    \/ x.pc = "items" /\ (c \in x.left \/ (c[1] = "context" /\ x.table = "approvals"))

Faithful(x, c) ==
    IF Unread(x, c) THEN x.copy[c] = None
    ELSE Touched(c) \/ x.copy[c] = memory[c]

SnapshotInv ==
    \A t \in Thread : Saves(task[t]) => \A c \in Cell : Faithful(task[t], c)

(* A dict that has changed its size has been changed by somebody who saves. *)
SizeInv == \A t \in Thread : task[t].pc = "items" => SameSize(t) \/ Pending

SavedInv == loaded /\ lock = None /\ ~Pending /\ ~unsaved => disk = memory

(* What an operation has left in a cell is still there, in the dict too.    *)
Kept(c) ==
    c \notin unread =>
        /\ settled[c] \subseteq {disk[c]}
        /\ loaded => settled[c] \subseteq {memory[c]}

SettledInv ==
    /\ \A c \in Cell : Kept(c)
    /\ \A t \in Thread : task[t].pc # "idle" => settled[task[t].cell] = {}

(* The value v is in cell c of a dict, of the file, of a copy, or about to be. *)
Holds(v, c) ==
    \/ memory[c] = v
    \/ disk[c] = v
    \/ \E t \in Thread : Saves(task[t]) /\ task[t].copy[c] = v
    \/ \E t \in Thread : task[t].pc = "mutate" /\ task[t].cell = c /\ task[t].value = v

HomeInv ==
    \A v \in Value : \A c \in Cell : Holds(v, c) =>
        /\ v <= values
        /\ \A d \in Cell : Holds(v, d) => c = d

(* A claim has returned the value v, or is about to. *)
Taken(v) ==
    \/ v \in claimed
    \/ \E t \in Thread : Saves(task[t]) /\ task[t].op = "claim" /\ task[t].value = v

TakenInv ==
    /\ \A v \in Value \cup {None} : Taken(v) => v \in 1 .. values
    /\ \A c \in Cell : ~Taken(memory[c]) /\ disk[c] \notin claimed
    /\ \A t \in Thread : Saves(task[t]) => \A c \in Cell : ~Taken(task[t].copy[c])

(* What a claim is about to return, no claim has returned. *)
OnceInv ==
    \A t \in Thread :
        Saves(task[t]) /\ task[t].op = "claim" => task[t].value \notin claimed

(* A value about to be assigned is nowhere else. *)
FreshInv ==
    \A t \in Thread : task[t].pc = "mutate" /\ task[t].value # None =>
        /\ ~Taken(task[t].value)
        /\ \A c \in Cell : memory[c] # task[t].value
        /\ \A u \in Thread \ {t} :
              task[u].pc = "mutate" => task[u].value # task[t].value

(* A dict has finitely many entries. *)
Finite(contents) == IsFiniteSet({c \in Cell : contents[c] # None})

FiniteInv ==
    /\ Finite(memory) /\ Finite(disk)
    /\ \A t \in Thread : task[t].pc # "idle" => Finite(task[t].copy)

Inv ==
    /\ TypeOK /\ FiniteInv /\ LockInv /\ PhaseInv
    /\ SnapshotInv /\ SizeInv /\ SavedInv /\ SettledInv
    /\ HomeInv /\ TakenInv /\ OnceInv /\ FreshInv

USE Bounds, NoneIsNobody

-----------------------------------------------------------------------------
(* The fields of a task. *)

LEMMA WorkParts ==
    ASSUME TypeOK, NEW t \in Thread, task[t].pc # "idle"
    PROVE  task[t] \in Work
  <1>1. task[t] \in Task
    BY DEF TypeOK
  <1> QED BY <1>1 DEF Task, Work

LEMMA WorkIsTask == Work \subseteq Task /\ Idle \in Task
  BY DEF Work, Task, Idle

(* The task y does the operation of x. *)
SameWork(x, y) ==
    /\ y \in Work
    /\ y.op = x.op /\ y.cell = x.cell

LEMMA Steps ==
    ASSUME NEW x \in Work, NEW pc \in {"mutate", "acquire", "open", "items", "replace"}
    PROVE  /\ SameWork(x, [x EXCEPT !.pc = pc])
           /\ [x EXCEPT !.pc = pc].pc = pc
           /\ [x EXCEPT !.pc = pc].value = x.value
           /\ [x EXCEPT !.pc = pc].table = x.table
           /\ [x EXCEPT !.pc = pc].size = x.size
           /\ [x EXCEPT !.pc = pc].left = x.left
           /\ [x EXCEPT !.pc = pc].copy = x.copy
  BY DEF Work, SameWork

Opened(x, size, left) == [x EXCEPT !.pc = "items", !.size = size, !.left = left]

LEMMA Opens ==
    ASSUME NEW x \in Work, NEW size \in Nat, NEW left \in SUBSET Cell, NEW y,
           y = Opened(x, size, left)
    PROVE  /\ SameWork(x, y)
           /\ y.pc = "items" /\ y.value = x.value /\ y.table = x.table
           /\ y.size = size /\ y.left = left /\ y.copy = x.copy
  <1> DEFINE y1 == [x EXCEPT !.pc = "items"]
             y2 == [y1 EXCEPT !.size = size]
             y3 == [y2 EXCEPT !.left = left]
  <1>1. /\ SameWork(x, y1) /\ y1.pc = "items" /\ y1.value = x.value
        /\ y1.table = x.table /\ y1.left = x.left /\ y1.copy = x.copy
    BY Steps
  <1> HIDE DEF y1
  <1>2. /\ SameWork(x, y2) /\ y2.pc = "items" /\ y2.value = x.value
        /\ y2.table = x.table /\ y2.size = size /\ y2.copy = x.copy
    BY <1>1 DEF Work, SameWork
  <1> HIDE DEF y2
  <1>3. /\ SameWork(x, y3) /\ y3.pc = "items" /\ y3.value = x.value
        /\ y3.table = x.table /\ y3.size = size /\ y3.left = left /\ y3.copy = x.copy
    BY <1>2 DEF Work, SameWork
  <1>4. y = y3
    BY DEF Opened, y1, y2
  <1> HIDE DEF y3
  <1> QED BY <1>3, <1>4

Dumped(x, c, v) == [x EXCEPT !.left = @ \ {c}, !.copy[c] = v]

LEMMA Dumps ==
    ASSUME NEW x \in Work, NEW c \in Cell, NEW v \in Value \cup {None}, NEW y,
           y = Dumped(x, c, v)
    PROVE  /\ SameWork(x, y)
           /\ y.pc = x.pc /\ y.value = x.value /\ y.table = x.table
           /\ y.size = x.size /\ y.left = x.left \ {c}
           /\ y.copy = [x.copy EXCEPT ![c] = v]
  <1> DEFINE left == x.left \ {c}
             copy == [x.copy EXCEPT ![c] = v]
             y1 == [x EXCEPT !.left = left]
             y2 == [y1 EXCEPT !.copy = copy]
  <1>1. left \in SUBSET Cell /\ copy \in Contents
    BY DEF Work, Contents
  <1> HIDE DEF left, copy
  <1>2. /\ SameWork(x, y1) /\ y1.pc = x.pc /\ y1.value = x.value
        /\ y1.table = x.table /\ y1.size = x.size /\ y1.left = left /\ y1.copy = x.copy
    BY <1>1 DEF Work, SameWork
  <1>3. y = [y1 EXCEPT !.copy = [y1.copy EXCEPT ![c] = v]]
    BY DEF Dumped, left
  <1> HIDE DEF y1
  <1>4. y = y2
    BY <1>2, <1>3 DEF copy
  <1>5. /\ SameWork(x, y2) /\ y2.pc = x.pc /\ y2.value = x.value
        /\ y2.table = x.table /\ y2.size = x.size /\ y2.left = left /\ y2.copy = copy
    BY <1>1, <1>2 DEF Work, SameWork
  <1> HIDE DEF y2
  <1> QED BY <1>4, <1>5 DEF left, copy

Removed(x, v) == [x EXCEPT !.pc = "open", !.value = v]

LEMMA Removes ==
    ASSUME NEW x \in Work, NEW v \in Value \cup {None}, NEW y, y = Removed(x, v)
    PROVE  /\ SameWork(x, y)
           /\ y.pc = "open" /\ y.value = v /\ y.table = x.table /\ y.copy = x.copy
  <1> DEFINE y1 == [x EXCEPT !.pc = "open"]
             y2 == [y1 EXCEPT !.value = v]
  <1>1. /\ SameWork(x, y1) /\ y1.pc = "open" /\ y1.table = x.table /\ y1.copy = x.copy
    BY Steps
  <1> HIDE DEF y1
  <1>2. /\ SameWork(x, y2) /\ y2.pc = "open" /\ y2.value = v
        /\ y2.table = x.table /\ y2.copy = x.copy
    BY <1>1 DEF Work, SameWork
  <1>3. y = y2
    BY DEF Removed, y1
  <1> HIDE DEF y2
  <1> QED BY <1>2, <1>3

Turned(x) == [x EXCEPT !.pc = "open", !.table = "context"]

LEMMA Turns ==
    ASSUME NEW x \in Work, NEW y, y = Turned(x)
    PROVE  /\ SameWork(x, y)
           /\ y.pc = "open" /\ y.value = x.value /\ y.table = "context"
           /\ y.copy = x.copy
  <1> DEFINE y1 == [x EXCEPT !.pc = "open"]
             y2 == [y1 EXCEPT !.table = "context"]
  <1>1. /\ SameWork(x, y1) /\ y1.pc = "open" /\ y1.value = x.value /\ y1.copy = x.copy
    BY Steps
  <1> HIDE DEF y1
  <1>2. /\ SameWork(x, y2) /\ y2.pc = "open" /\ y2.value = x.value
        /\ y2.table = "context" /\ y2.copy = x.copy
    BY <1>1 DEF Work, SameWork, Table
  <1>3. y = y2
    BY DEF Turned, y1
  <1> HIDE DEF y2
  <1> QED BY <1>2, <1>3

(* An assignment leaves a dict finite; a finite dict has a size. *)
LEMMA FiniteAssign ==
    ASSUME NEW contents \in Contents, Finite(contents), NEW c \in Cell, NEW v
    PROVE  Finite([contents EXCEPT ![c] = v])
  <1> DEFINE new == [contents EXCEPT ![c] = v]
             S == {d \in Cell : contents[d] # None}
  <1>1. {d \in Cell : new[d] # None} \subseteq S \cup {c}
    BY DEF Contents
  <1>2. IsFiniteSet(S \cup {c})
    BY FS_AddElement DEF Finite
  <1> QED BY <1>1, <1>2, FS_Subset DEF Finite

LEMMA EntriesCount ==
    ASSUME Finite(memory), NEW table
    PROVE  Cardinality(Entries(table)) \in Nat /\ Entries(table) \in SUBSET Cell
  <1>1. Entries(table) \subseteq {c \in Cell : memory[c] # None}
    BY DEF Entries
  <1>2. IsFiniteSet(Entries(table))
    BY <1>1, FS_Subset DEF Finite
  <1> QED BY <1>2, FS_CardinalityType DEF Entries

-----------------------------------------------------------------------------
(* The steps of a save. *)

Same == UNCHANGED <<memory, loaded, disk, lock, values, crashes, claimed, settled, faults>>

(* Between two steps of one thread the others stand still. *)
LEMMA Others ==
    ASSUME TypeOK, NEW t \in Thread, NEW y \in Task, task' = [task EXCEPT ![t] = y]
    PROVE  /\ task' \in [Thread -> Task]
           /\ task'[t] = y
           /\ \A u \in Thread \ {t} : task'[u] = task[u]
  BY DEF TypeOK

LEMMA OneSaver ==
    ASSUME Inv, NEW t \in Thread, NEW u \in Thread, Saves(task[t]), Saves(task[u])
    PROVE  t = u
  BY DEF Inv, LockInv

(* The holder of the lock reads on, and what it reads is there. *)
LEMMA SaveGoesOn ==
    ASSUME Inv, NEW t \in Thread, NEW y, Same, task' = [task EXCEPT ![t] = y],
           Saves(task[t]), Saves(y), SameWork(task[t], y), y.value = task[t].value,
           y.pc = "items" => /\ \A c \in y.left : c[1] = y.table
                             /\ y.size = Cardinality(Entries(y.table)) \/ Pending,
           Finite(y.copy),
           \A c \in Cell : Faithful(y, c),
           \A c \in Cell : y.copy[c] = task[t].copy[c] \/ y.copy[c] = memory[c]
    PROVE  Inv'
  <1>1. /\ task' \in [Thread -> Task] /\ task'[t] = y
        /\ \A u \in Thread \ {t} : task'[u] = task[u]
    BY Others, WorkIsTask DEF Inv, SameWork
  <1>2. /\ memory' = memory /\ loaded' = loaded /\ disk' = disk /\ lock' = lock
        /\ values' = values /\ crashes' = crashes /\ claimed' = claimed
        /\ settled' = settled /\ unread' = unread /\ unsaved' = unsaved
    BY DEF Same, faults
  <1>3. y.pc \notin {"idle", "mutate", "acquire"} /\ task[t].pc \notin {"idle", "mutate", "acquire"}
    BY DEF Saves
  <1>4. y.op = task[t].op /\ y.cell = task[t].cell
    BY DEF SameWork
  <1>5. TypeOK'
    BY <1>1, <1>2 DEF Inv, TypeOK
  <1>6. FiniteInv'
    BY <1>1, <1>2 DEF Inv, FiniteInv, Finite
  <1>7. LockInv'
    BY <1>1, <1>2, <1>3 DEF Inv, LockInv
  <1>8. PhaseInv'
    BY <1>1, <1>3, <1>4 DEF Inv, PhaseInv
  <1>9. \A u \in Thread : Changed(task[u])' <=> Changed(task[u])
    BY <1>1, <1>3 DEF Changed
  <1>10. /\ \A c \in Cell : Touched(c)' <=> Touched(c)
         /\ Pending' <=> Pending
    BY <1>1, <1>4, <1>9 DEF Touched, Pending
  <1>11. SnapshotInv'
    <2>1. ASSUME NEW u \in Thread, Saves(task[u])', NEW c \in Cell
          PROVE  Faithful(task[u], c)'
      <3>1. u = t
        BY <1>1, <2>1, OneSaver
      <3> QED BY <1>1, <1>2, <1>10, <3>1 DEF Faithful, Unread
    <2> QED BY <2>1 DEF SnapshotInv
  <1>12. SizeInv'
    <2>1. ASSUME NEW u \in Thread, task'[u].pc = "items", ~Pending
          PROVE  SameSize(u)'
      <3>1. u = t
        BY <1>1, <2>1, OneSaver DEF Saves
      <3> QED BY <1>1, <1>2, <2>1, <3>1 DEF SameSize, Entries
    <2> QED BY <1>10, <2>1 DEF SizeInv
  <1>13. SavedInv'
    BY <1>2, <1>10 DEF Inv, SavedInv
  <1>14. SettledInv'
    <2>1. \A u \in Thread : (task'[u].pc # "idle" <=> task[u].pc # "idle")
                            /\ (task[u].pc # "idle" => task'[u].cell = task[u].cell)
      BY <1>1, <1>3, <1>4
    <2> QED BY <1>2, <2>1 DEF Inv, SettledInv, Kept
  <1>15. HomeInv'
    <2>1. ASSUME NEW v \in Value, NEW c \in Cell, Holds(v, c)' PROVE Holds(v, c)
      BY <1>1, <1>2, <1>3, <2>1 DEF Holds
    <2> QED BY <1>2, <2>1 DEF Inv, HomeInv
  <1>16. \A v : Taken(v)' <=> Taken(v)
    BY <1>1, <1>2, <1>3, <1>4 DEF Taken
  <1>17. TakenInv'
    BY <1>1, <1>2, <1>16 DEF Inv, TakenInv
  <1>18. FreshInv'
    BY <1>1, <1>2, <1>3, <1>16 DEF Inv, FreshInv
  <1>19. OnceInv'
    BY <1>1, <1>2, <1>4 DEF Inv, OnceInv
  <1> QED
    BY <1>19, <1>5, <1>6, <1>7, <1>8, <1>11, <1>12, <1>13, <1>14, <1>15, <1>17, <1>18 DEF Inv

LEMMA OpenTableKeepsInv ==
    ASSUME Inv, NEW t \in Thread, OpenTable(t)
    PROVE  Inv'
  <1> DEFINE x == task[t]
             size == Cardinality(Entries(x.table))
             left == Entries(x.table)
             y == Opened(x, size, left)
  <1>1. x \in Work /\ x.pc = "open"
    BY WorkParts DEF Inv, OpenTable
  <1>2. size \in Nat /\ left \in SUBSET Cell
    BY EntriesCount DEF Inv, FiniteInv
  <1>3. Same /\ task' = [task EXCEPT ![t] = y]
    BY DEF OpenTable, Same, Opened, Inv, TypeOK
  <1>4. /\ SameWork(x, y) /\ y.pc = "items" /\ y.value = x.value
        /\ y.table = x.table /\ y.size = size /\ y.left = left /\ y.copy = x.copy
    BY <1>1, <1>2, Opens
  <1> HIDE DEF y
  <1>5. ASSUME NEW c \in Cell PROVE Faithful(y, c)
    <2>1. Faithful(x, c) /\ c[1] \in {"approvals", "context"} /\ x.table \in {"approvals", "context"}
      BY <1>1 DEF Inv, SnapshotInv, Saves, Cell, Table, Work
    <2>2. CASE Unread(y, c)
      BY <1>1, <1>4, <2>1, <2>2 DEF Faithful, Unread, Entries
    <2>3. CASE ~Unread(y, c)
      <3>1. CASE Unread(x, c)
        <4>1. c[1] = x.table /\ c \notin left
          BY <1>1, <1>4, <2>1, <2>3, <3>1 DEF Unread
        <4>2. memory[c] = None
          BY <4>1 DEF Entries
        <4> QED BY <1>4, <2>1, <2>3, <3>1, <4>2 DEF Faithful
      <3>2. CASE ~Unread(x, c)
        BY <1>4, <2>1, <2>3, <3>2 DEF Faithful
      <3> QED BY <3>1, <3>2
    <2> QED BY <2>2, <2>3
  <1>6. Finite(y.copy)
    BY <1>1, <1>4 DEF Inv, FiniteInv
  <1>7. (\A c \in y.left : c[1] = y.table) /\ y.size = Cardinality(Entries(y.table))
    BY <1>4 DEF Entries
  <1>8. Saves(x) /\ Saves(y)
    BY <1>1, <1>4 DEF Saves
  <1> QED BY <1>3, <1>4, <1>5, <1>6, <1>7, <1>8, SaveGoesOn

LEMMA DumpItemKeepsInv ==
    ASSUME Inv, NEW t \in Thread, NEW c \in Cell, DumpItem(t, c)
    PROVE  Inv'
  <1> DEFINE x == task[t]
             y == Dumped(x, c, memory[c])
  <1>1. /\ x \in Work /\ x.pc = "items" /\ c[1] = x.table
        /\ \A d \in x.left : d[1] = x.table
    BY WorkParts DEF Inv, DumpItem, PhaseInv, Entries
  <1>2. Same /\ task' = [task EXCEPT ![t] = y]
    <2> DEFINE z == [x EXCEPT !.left = x.left \ {c}]
               read == [task EXCEPT ![t] = z]
    <2>1. task \in [Thread -> Task]
      BY DEF Inv, TypeOK
    <2>2. read[t] = z
      BY <2>1
    <2>3. task' = [read EXCEPT ![t] = [read[t] EXCEPT !.copy[c] = memory[c]]]
      BY DEF DumpItem
    <2>4. \A w : [read EXCEPT ![t] = w] = [task EXCEPT ![t] = w]
      BY <2>1
    <2> HIDE DEF read
    <2>5. task' = [read EXCEPT ![t] = [z EXCEPT !.copy[c] = memory[c]]]
      BY <2>2, <2>3, Zenon
    <2> HIDE DEF z
    <2>6. task' = [task EXCEPT ![t] = [z EXCEPT !.copy[c] = memory[c]]]
      BY <2>4, <2>5, Zenon
    <2>7. y = [z EXCEPT !.copy[c] = memory[c]]
      BY DEF Dumped, z
    <2> QED BY <2>6, <2>7 DEF DumpItem, Same
  <1>3. /\ SameWork(x, y) /\ y.pc = x.pc /\ y.value = x.value
        /\ y.table = x.table /\ y.size = x.size /\ y.left = x.left \ {c}
        /\ y.copy = [x.copy EXCEPT ![c] = memory[c]]
    <2>1. memory[c] \in Value \cup {None}
      BY DEF Inv, TypeOK, Contents
    <2> HIDE DEF y
    <2>2. y = Dumped(x, c, memory[c])
      BY DEF y
    <2> QED BY <1>1, <2>1, <2>2, Dumps
  <1> HIDE DEF y
  <1>4. x.copy \in Contents /\ Finite(x.copy)
    BY <1>1 DEF Work, Inv, FiniteInv
  <1>5. \A d \in Cell : y.copy[d] = IF d = c THEN memory[c] ELSE x.copy[d]
    BY <1>3, <1>4 DEF Contents
  <1>6. ASSUME NEW d \in Cell PROVE Faithful(y, d)
    <2>1. Faithful(x, d)
      BY <1>1 DEF Inv, SnapshotInv, Saves
    <2>2. CASE d = c
      <3>1. ~Unread(y, c)
        BY <1>1, <1>3 DEF Unread, Table
      <3> QED BY <1>5, <2>2, <3>1 DEF Faithful
    <2>3. CASE d # c
      <3>1. Unread(y, d) <=> Unread(x, d)
        BY <1>3, <2>3 DEF Unread
      <3> QED BY <1>5, <2>1, <2>3, <3>1 DEF Faithful
    <2> QED BY <2>2, <2>3
  <1>7. Finite(y.copy)
    BY <1>3, <1>4, FiniteAssign
  <1>8. /\ \A d \in y.left : d[1] = y.table
        /\ y.size = Cardinality(Entries(y.table))
    BY <1>1, <1>3 DEF DumpItem, SameSize
  <1>9. Saves(x) /\ Saves(y)
    BY <1>1, <1>3 DEF Saves
  <1> QED BY <1>2, <1>3, <1>5, <1>6, <1>7, <1>8, <1>9, SaveGoesOn

LEMMA CloseTableKeepsInv ==
    ASSUME Inv, NEW t \in Thread, CloseTable(t)
    PROVE  Inv'
  <1> DEFINE x == task[t]
  <1>1. /\ x \in Work /\ x.pc = "items" /\ x.left = {}
    BY WorkParts DEF Inv, CloseTable
  <1>2. /\ Finite(x.copy) /\ x.table \in {"approvals", "context"}
        /\ \A c \in Cell : c[1] \in {"approvals", "context"} /\ Faithful(x, c)
    BY <1>1 DEF Inv, FiniteInv, SnapshotInv, Saves, Work, Table, Cell
  <1>3. CASE x.table = "approvals"
    <2> DEFINE y == Turned(x)
    <2>1. Same /\ task' = [task EXCEPT ![t] = y]
      BY <1>3 DEF CloseTable, Same, Turned, Inv, TypeOK
    <2>2. /\ SameWork(x, y) /\ y.pc = "open" /\ y.value = x.value
          /\ y.table = "context" /\ y.copy = x.copy
      BY <1>1, Turns
    <2> HIDE DEF y
    <2>3. \A c \in Cell : Unread(y, c) <=> Unread(x, c)
      BY <1>1, <1>2, <1>3, <2>2 DEF Unread
    <2>4. \A c \in Cell : Faithful(y, c)
      BY <1>2, <2>2, <2>3 DEF Faithful
    <2>5. Saves(x) /\ Saves(y)
      BY <1>1, <2>2 DEF Saves
    <2> QED BY <1>2, <2>1, <2>2, <2>4, <2>5, SaveGoesOn
  <1>4. CASE x.table = "context"
    <2> DEFINE y == [x EXCEPT !.pc = "replace"]
    <2>1. Same /\ task' = [task EXCEPT ![t] = y]
      BY <1>4 DEF CloseTable, Same, Inv, TypeOK
    <2>2. /\ SameWork(x, y) /\ y.pc = "replace" /\ y.value = x.value /\ y.copy = x.copy
      BY <1>1, Steps
    <2> HIDE DEF y
    <2>3. \A c \in Cell : ~Unread(y, c) /\ ~Unread(x, c)
      BY <1>1, <1>4, <2>2 DEF Unread
    <2>4. \A c \in Cell : Faithful(y, c)
      BY <1>2, <2>2, <2>3 DEF Faithful
    <2>5. Saves(x) /\ Saves(y)
      BY <1>1, <2>2 DEF Saves
    <2> QED BY <1>2, <2>1, <2>2, <2>4, <2>5, SaveGoesOn
  <1> QED BY <1>2, <1>3, <1>4

(* A task that ends without a save: the claim of nothing, or the operation   *)
(* that raises.  If it was to save, somebody else does, or it is marked.      *)
LEMMA EndKeepsInv ==
    ASSUME Inv, NEW t \in Thread, task' = [task EXCEPT ![t] = Idle],
           UNCHANGED <<memory, loaded, disk, values, crashes, claimed, settled, unread>>,
           ~Changed(task[t]), task[t].pc # "mutate",
           lock' = IF Saves(task[t]) THEN None ELSE lock,
           unsaved' \in BOOLEAN, unsaved => unsaved',
           Saves(task[t]) => Pending \/ unsaved'
    PROVE  Inv'
  <1>1. /\ task' \in [Thread -> Task] /\ task'[t] = Idle
        /\ \A u \in Thread \ {t} : task'[u] = task[u]
    BY Others, WorkIsTask DEF Inv
  <1>2. /\ memory' = memory /\ loaded' = loaded /\ disk' = disk
        /\ values' = values /\ crashes' = crashes /\ claimed' = claimed
        /\ settled' = settled /\ unread' = unread
    OBVIOUS
  <1>3. Idle.pc \notin {"mutate", "acquire", "open", "items", "replace"} /\ Idle.pc = "idle"
    BY DEF Idle
  <1>4. \A u \in Thread : task'[u].pc # "idle" => u # t /\ task'[u] = task[u]
    BY <1>1, <1>3
  <1>5. TypeOK'
    BY <1>1, <1>2 DEF Inv, TypeOK
  <1>6. FiniteInv'
    BY <1>2, <1>4 DEF Inv, FiniteInv, Finite
  <1>7. LockInv'
    <2>1. \A u \in Thread \ {t} : ~(Saves(task[t]) /\ Saves(task[u]))
      BY OneSaver
    <2>2. \A u \in Thread : Saves(task'[u]) <=> lock' = u
      BY <1>1, <1>3, <2>1 DEF Inv, LockInv, Saves
    <2> QED BY <1>1, <1>2, <1>3, <2>2 DEF Inv, LockInv
  <1>8. PhaseInv'
    BY <1>1, <1>3, <1>4 DEF Inv, PhaseInv
  <1>9. \A u \in Thread : Changed(task[u])' <=> Changed(task[u])
    BY <1>1, <1>3 DEF Changed
  <1>10. /\ \A c \in Cell : Touched(c)' <=> Touched(c)
         /\ Pending' <=> Pending
    BY <1>1, <1>3, <1>9 DEF Touched, Pending, Changed
  <1>11. SnapshotInv'
    BY <1>2, <1>4, <1>10 DEF Inv, SnapshotInv, Faithful, Unread, Saves
  <1>12. SizeInv'
    BY <1>2, <1>4, <1>10 DEF Inv, SizeInv, SameSize, Entries
  <1>13. SavedInv'
    <2>1. CASE unsaved'
      BY <2>1 DEF SavedInv
    <2>2. CASE ~unsaved'
      <3>1. ~unsaved /\ (~Pending => lock' = lock)
        BY <2>2
      <3> QED BY <1>2, <1>10, <3>1 DEF Inv, SavedInv
    <2> QED BY <2>1, <2>2
  <1>14. SettledInv'
    <2>1. \A c \in Cell : Kept(c)'
      BY <1>2 DEF Inv, SettledInv, Kept
    <2>2. \A u \in Thread : task'[u].pc # "idle" => settled'[task'[u].cell] = {}
      BY <1>2, <1>4 DEF Inv, SettledInv
    <2> QED BY <2>1, <2>2 DEF SettledInv
  <1>15. HomeInv'
    <2>1. ASSUME NEW v \in Value, NEW c \in Cell, Holds(v, c)' PROVE Holds(v, c)
      BY <1>1, <1>2, <1>3, <2>1 DEF Holds, Saves
    <2> QED BY <1>2, <2>1 DEF Inv, HomeInv
  <1>16. \A v : Taken(v)' => Taken(v)
    BY <1>1, <1>2, <1>3 DEF Taken, Saves
  <1>17. TakenInv'
    BY <1>2, <1>4, <1>16 DEF Inv, TakenInv, Saves
  <1>18. FreshInv'
    BY <1>2, <1>4, <1>16 DEF Inv, FreshInv
  <1>19. OnceInv'
    BY <1>2, <1>4 DEF Inv, OnceInv, Saves
  <1> QED
    BY <1>19, <1>5, <1>6, <1>7, <1>8, <1>11, <1>12, <1>13, <1>14, <1>15, <1>17, <1>18 DEF Inv

LEMMA DumpRaisesKeepsInv ==
    ASSUME Inv, NEW t \in Thread, DumpRaises(t)
    PROVE  Inv'
  <1>1. /\ task[t].pc = "items" /\ ~SameSize(t) /\ lock' = None
        /\ task' = [task EXCEPT ![t] = Idle]
    BY DEF DumpRaises
  <1>2. Pending
    BY <1>1 DEF Inv, SizeInv
  <1>3. unsaved' = unsaved /\ unsaved \in BOOLEAN /\ unread' = unread
    BY DEF DumpRaises, faults, Inv, TypeOK
  <1> QED BY <1>1, <1>2, <1>3, EndKeepsInv DEF DumpRaises, Changed, Saves

LEMMA WriteRaisesKeepsInv ==
    ASSUME Inv, NEW t \in Thread, WriteRaises(t)
    PROVE  Inv'
  <1>1. task[t].pc = "replace" /\ unsaved' = TRUE
    BY DEF WriteRaises
  <1>2. lock' = None
    BY <1>1 DEF WriteRaises, Inv, LockInv, Saves
  <1> QED BY <1>1, <1>2, EndKeepsInv DEF WriteRaises, Changed, Saves

-----------------------------------------------------------------------------
(* The steps before a save. *)

LEMMA StartKeepsInv ==
    ASSUME Inv, NEW t \in Thread, NEW op \in Op, NEW c \in Cell, Start(t, op, c)
    PROVE  Inv'
  <1> DEFINE v == IF op = "set" THEN values + 1 ELSE None
             pc == IF Locked(op, c) THEN "acquire" ELSE "mutate"
             y == [pc |-> pc, op |-> op, cell |-> c, table |-> "approvals", size |-> 0,
                   value |-> v, left |-> {}, copy |-> Empty]
  <1>1. /\ loaded /\ task[t].pc = "idle" /\ OpOn(op, c)
        /\ op = "set" => values < MaxValues
        /\ task' = [task EXCEPT ![t] = y]
        /\ values' = IF op = "set" THEN values + 1 ELSE values
        /\ settled' = [settled EXCEPT ![c] = {}] /\ unread' = unread \ {c}
        /\ memory' = memory /\ loaded' = loaded /\ disk' = disk /\ lock' = lock
        /\ crashes' = crashes /\ claimed' = claimed /\ unsaved' = unsaved
    BY DEF Start
  <1>2. values \in 0 .. MaxValues /\ values' \in 0 .. MaxValues /\ values <= values'
    BY <1>1 DEF Inv, TypeOK
  <1>3. v \in Value \cup {None} /\ (v # None => v = values' /\ v > values)
    BY <1>1, <1>2 DEF Value
  <1>4. Empty \in Contents /\ Finite(Empty)
    <2>1. {d \in Cell : Empty[d] # None} = {}
      BY DEF Empty
    <2> QED BY <2>1, FS_EmptySet DEF Empty, Contents, Finite
  <1> HIDE DEF v
  <1>5. /\ y \in Work /\ y.pc = pc /\ y.op = op /\ y.cell = c /\ y.value = v
        /\ y.table = "approvals" /\ y.copy = Empty
    BY <1>3, <1>4 DEF Work, Table
  <1> HIDE DEF y
  <1>6. /\ task' \in [Thread -> Task] /\ task'[t] = y
        /\ \A u \in Thread \ {t} : task'[u] = task[u]
    BY <1>1, <1>5, Others, WorkIsTask DEF Inv
  <1>7. /\ y.pc \notin {"idle", "open", "items", "replace"}
        /\ y.pc = "mutate" <=> ~Locked(op, c)
        /\ ~Changed(y)
    BY <1>5 DEF Changed
  <1>8. TypeOK'
    BY <1>1, <1>2, <1>6 DEF Inv, TypeOK
  <1>9. FiniteInv'
    BY <1>1, <1>4, <1>5, <1>6 DEF Inv, FiniteInv, Finite
  <1>10. LockInv'
    BY <1>1, <1>6, <1>7 DEF Inv, LockInv, Saves
  <1>11. PhaseInv'
    BY <1>1, <1>5, <1>6, <1>7 DEF Inv, PhaseInv, OpOn
  <1>12. \A u \in Thread : Changed(task[u])' <=> Changed(task[u])
    BY <1>1, <1>6, <1>7 DEF Changed
  <1>13. /\ \A d \in Cell : Touched(d)' <=> Touched(d)
         /\ Pending' <=> Pending
    BY <1>1, <1>6, <1>12 DEF Touched, Pending, Changed
  <1>14. SnapshotInv'
    BY <1>1, <1>6, <1>7, <1>13 DEF Inv, SnapshotInv, Faithful, Unread, Saves
  <1>15. SizeInv'
    BY <1>1, <1>6, <1>7, <1>13 DEF Inv, SizeInv, SameSize, Entries
  <1>16. SavedInv'
    BY <1>1, <1>13 DEF Inv, SavedInv
  <1>17. SettledInv'
    <2>1. settled'[c] = {} /\ \A d \in Cell : settled'[d] \in {settled[d], {}}
      BY <1>1 DEF Inv, TypeOK
    <2>2. \A d \in Cell : Kept(d)'
      BY <1>1, <2>1 DEF Inv, SettledInv, Kept
    <2>3. ASSUME NEW u \in Thread, task'[u].pc # "idle" PROVE settled'[task'[u].cell] = {}
      <3>1. CASE u = t
        BY <1>5, <1>6, <2>1, <3>1
      <3>2. CASE u # t
        <4>1. task[u].cell \in Cell /\ settled[task[u].cell] = {}
          BY <1>6, <2>3, <3>2, WorkParts DEF Inv, SettledInv, Work
        <4> QED BY <1>6, <2>1, <3>2, <4>1
      <3> QED BY <3>1, <3>2
    <2> QED BY <2>2, <2>3 DEF SettledInv
  <1>18. HomeInv'
    <2>1. ASSUME NEW w \in Value, NEW d \in Cell, Holds(w, d)'
          PROVE  Holds(w, d) \/ (w = v /\ d = c)
      BY <1>1, <1>5, <1>6, <1>7, <2>1 DEF Holds, Saves
    <2>2. ASSUME NEW w \in Value, NEW d \in Cell, Holds(w, d)'
          PROVE  w <= values' /\ \A e \in Cell : Holds(w, e)' => d = e
      <3>1. CASE w = v
        <4>1. w = values' /\ w > values /\ w \in Nat
          BY <1>3, <3>1 DEF Value
        <4>2. \A e \in Cell : ~Holds(w, e)
          BY <1>2, <4>1 DEF Inv, HomeInv, Value
        <4> QED BY <1>2, <2>1, <2>2, <4>1, <4>2
      <3>2. CASE w # v
        <4>1. Holds(w, d) /\ \A e \in Cell : Holds(w, e)' => Holds(w, e)
          BY <2>1, <2>2, <3>2
        <4>2. w <= values /\ w \in Nat
          BY <4>1 DEF Inv, HomeInv, Value
        <4> QED BY <1>2, <4>1, <4>2 DEF Inv, HomeInv
      <3> QED BY <3>1, <3>2
    <2> QED BY <2>2 DEF HomeInv
  <1>19. \A w : Taken(w)' <=> Taken(w)
    BY <1>1, <1>6, <1>7 DEF Taken, Saves
  <1>20. TakenInv'
    <2>1. 1 .. values \subseteq 1 .. values'
      BY <1>2
    <2>2. \A u \in Thread : Saves(task'[u]) => u # t
      BY <1>6, <1>7 DEF Saves
    <2> QED BY <1>1, <1>6, <1>19, <2>1, <2>2 DEF Inv, TakenInv
  <1>21. FreshInv'
    <2>1. v # None => v \notin 1 .. values /\ v \in Value
      BY <1>2, <1>3
    <2>2. v # None => /\ ~Taken(v)
                      /\ \A d \in Cell : memory[d] # v
                      /\ \A u \in Thread \ {t} : task[u].pc = "mutate" => task[u].value # v
      <3>1. ASSUME NEW d \in Cell, v # None PROVE ~Holds(v, d)
        BY <1>2, <1>3, <2>1, <3>1 DEF Inv, HomeInv, Value
      <3>2. \A u \in Thread : task[u].pc = "mutate" => task[u].cell \in Cell
        BY WorkParts DEF Inv, Work
      <3> QED BY <2>1, <3>1, <3>2 DEF Inv, TakenInv, Holds
    <2>3. ASSUME NEW u \in Thread, task'[u].pc = "mutate", task'[u].value # None
          PROVE  /\ ~Taken(task'[u].value)
                 /\ \A d \in Cell : memory[d] # task'[u].value
                 /\ \A w \in Thread \ {u} :
                       task'[w].pc = "mutate" => task'[w].value # task'[u].value
      <3>1. CASE u = t
        BY <1>5, <1>6, <2>2, <2>3, <3>1
      <3>2. CASE u # t
        BY <1>5, <1>6, <2>2, <2>3, <3>2 DEF Inv, FreshInv
      <3> QED BY <3>1, <3>2
    <2> QED BY <1>1, <1>19, <2>3 DEF FreshInv
  <1>22. OnceInv'
    BY <1>1, <1>6, <1>7 DEF Inv, OnceInv, Saves
  <1> QED
    BY <1>22, <1>8, <1>9, <1>10, <1>11, <1>14, <1>15, <1>16, <1>17, <1>18, <1>20, <1>21 DEF Inv

(* A thread takes the free lock, perhaps removes its entry, and will save.   *)
LEMMA BeginSaveKeepsInv ==
    ASSUME Inv, NEW t \in Thread, NEW y, task' = [task EXCEPT ![t] = y],
           lock = None, lock' = t, loaded,
           task[t].pc = "acquire", SameWork(task[t], y), y.pc = "open",
           y.table = "approvals", y.copy = Empty,
           UNCHANGED <<loaded, disk, values, crashes, claimed, settled, faults>>,
           memory' \in Contents, Finite(memory'),
           \A d \in Cell : memory'[d] = memory[d]
                           \/ (memory'[d] = None /\ d = task[t].cell /\ ~Changed(task[t])),
           y.op = "claim" =>
              /\ y.value # None /\ y.value = memory[y.cell] /\ memory'[y.cell] = None
    PROVE  Inv'
  <1> DEFINE x == task[t]
  <1>1. /\ task' \in [Thread -> Task] /\ task'[t] = y
        /\ \A u \in Thread \ {t} : task'[u] = task[u]
    BY Others, WorkIsTask DEF Inv, SameWork
  <1>2. /\ loaded' = loaded /\ disk' = disk /\ values' = values
        /\ crashes' = crashes /\ claimed' = claimed /\ settled' = settled
        /\ unread' = unread /\ unsaved' = unsaved
    BY DEF faults
  <1>3. y \in Work /\ y.op = x.op /\ y.cell = x.cell /\ y.cell \in Cell
    BY DEF SameWork, Work
  <1>4. \A u \in Thread : ~Saves(task[u])
    BY DEF Inv, LockInv
  <1>5. Saves(y)
    BY DEF Saves
  <1>6. TypeOK'
    BY <1>1, <1>2 DEF Inv, TypeOK
  <1>7. FiniteInv'
    <2>1. Finite(y.copy)
      BY DEF Inv, FiniteInv, PhaseInv
    <2> QED BY <1>1, <1>2, <2>1 DEF Inv, FiniteInv, Finite
  <1>8. LockInv'
    BY <1>1, <1>2, <1>4, <1>5 DEF LockInv, Saves
  <1>9. PhaseInv'
    BY <1>1, <1>3 DEF Inv, PhaseInv
  <1>10. SnapshotInv'
    <2>1. ASSUME NEW u \in Thread, Saves(task[u])', NEW c \in Cell
          PROVE  Faithful(task[u], c)'
      <3>1. u = t
        BY <1>1, <1>4, <2>1 DEF Saves
      <3>2. Unread(y, c) /\ y.copy[c] = None
        BY DEF Unread, Cell, Table, Empty
      <3> QED BY <1>1, <3>1, <3>2 DEF Faithful, Unread
    <2> QED BY <2>1 DEF SnapshotInv
  <1>11. SizeInv'
    BY <1>1, <1>4 DEF SizeInv, Saves
  <1>12. SavedInv'
    BY DEF SavedInv
  <1>13. SettledInv'
    <2>1. \A u \in Thread : (task'[u].pc # "idle" <=> task[u].pc # "idle")
                            /\ (task[u].pc # "idle" => task'[u].cell = task[u].cell)
      BY <1>1, <1>3
    <2>2. ASSUME NEW c \in Cell PROVE Kept(c)'
      <3>1. Kept(c) /\ (c = x.cell => settled[c] = {})
        BY DEF Inv, SettledInv
      <3>2. c # x.cell => memory'[c] = memory[c]
        OBVIOUS
      <3> QED BY <1>2, <3>1, <3>2 DEF Kept
    <2> QED BY <1>2, <2>1, <2>2 DEF Inv, SettledInv
  <1>14. HomeInv'
    <2>1. ASSUME NEW v \in Value, NEW c \in Cell, Holds(v, c)' PROVE Holds(v, c)
      <3>1. v # None /\ Empty[c] # v
        BY DEF Value, Empty
      <3>2. memory'[c] = v => memory[c] = v
        BY <3>1
      <3> QED BY <1>1, <1>2, <1>4, <2>1, <3>1, <3>2 DEF Holds, Saves
    <2> QED BY <1>2, <2>1 DEF Inv, HomeInv
  <1>15. \A v : Taken(v)' <=> Taken(v) \/ (y.op = "claim" /\ v = y.value)
    BY <1>1, <1>2, <1>4, <1>5 DEF Taken, Saves
  <1>16. y.op = "claim" => /\ y.value \in 1 .. values
                           /\ \A d \in Cell : memory'[d] # y.value
    <2>1. ASSUME y.op = "claim" PROVE y.value \in Value /\ Holds(y.value, y.cell)
      BY <1>3, <2>1 DEF Inv, TypeOK, Contents, Holds
    <2>2. ASSUME y.op = "claim", NEW d \in Cell, memory'[d] = y.value PROVE FALSE
      <3>1. Holds(y.value, d)
        BY <2>2 DEF Holds
      <3>2. d = y.cell
        BY <1>3, <2>1, <2>2, <3>1 DEF Inv, HomeInv
      <3> QED BY <2>2, <3>2
    <2>3. ASSUME y.op = "claim" PROVE y.value \in 1 .. values
      BY <1>3, <2>1, <2>3 DEF Inv, HomeInv, Value, TypeOK
    <2> QED BY <2>2, <2>3
  <1>17. TakenInv'
    <2>1. None \notin 1 .. values /\ claimed \subseteq 1 .. values
      BY DEF Inv, TakenInv, TypeOK, Value, Taken
    <2>2. \A v \in Value \cup {None} : Taken(v)' => v \in 1 .. values'
      BY <1>2, <1>15, <1>16 DEF Inv, TakenInv
    <2>3. \A c \in Cell : ~Taken(memory[c])' /\ disk[c]' \notin claimed'
      BY <1>2, <1>15, <1>16, <2>1 DEF Inv, TakenInv
    <2>4. \A u \in Thread : Saves(task'[u]) => \A c \in Cell : ~Taken(task[u].copy[c])'
      <3>1. ~Taken(None)'
        BY <1>15, <1>16, <2>1 DEF Inv, TakenInv
      <3>2. \A c \in Cell : y.copy[c] = None
        BY DEF Empty
      <3> QED BY <1>1, <1>4, <3>1, <3>2 DEF Saves
    <2> QED BY <2>2, <2>3, <2>4 DEF TakenInv, Saves
  <1>18. FreshInv'
    <2>1. \A u \in Thread : task'[u].pc = "mutate" => u # t /\ task'[u] = task[u]
      BY <1>1
    <2>2. ASSUME NEW u \in Thread, task'[u].pc = "mutate", task'[u].value # None
          PROVE  /\ ~Taken(task[u].value)'
                 /\ \A d \in Cell : memory'[d] # task'[u].value
                 /\ \A w \in Thread \ {u} :
                       task'[w].pc = "mutate" => task'[w].value # task'[u].value
      BY <1>3, <1>15, <2>1, <2>2 DEF Inv, FreshInv
    <2> QED BY <2>2 DEF FreshInv
  <1>19. OnceInv'
    <2>1. y.op = "claim" => y.value \notin claimed
      BY <1>3 DEF Inv, TakenInv, Taken
    <2> QED BY <1>1, <1>2, <1>4, <2>1 DEF OnceInv, Saves
  <1> QED
    BY <1>19, <1>6, <1>7, <1>8, <1>9, <1>10, <1>11, <1>12, <1>13, <1>14, <1>17, <1>18 DEF Inv

LEMMA AcquireKeepsInv ==
    ASSUME Inv, NEW t \in Thread, Acquire(t)
    PROVE  Inv'
  <1> DEFINE x == task[t]
             y == [x EXCEPT !.pc = "open"]
  <1>1. /\ x.pc = "acquire" /\ ~Locked(x.op, x.cell) /\ lock = None /\ lock' = t
        /\ UNCHANGED <<memory, loaded, disk, values, crashes, claimed, settled, faults>>
    BY DEF Acquire
  <1>2. x \in Work /\ loaded /\ memory \in Contents /\ Finite(memory)
    BY <1>1, WorkParts DEF Inv, LockInv, TypeOK, FiniteInv
  <1>3. task' = [task EXCEPT ![t] = y]
    BY DEF Acquire, Step, Inv, TypeOK
  <1>4. SameWork(x, y) /\ y.pc = "open" /\ y.table = x.table /\ y.copy = x.copy
    BY <1>2, Steps
  <1> HIDE DEF y
  <1>5. x.table = "approvals" /\ x.copy = Empty
    BY <1>1 DEF Inv, PhaseInv
  <1>6. y.op # "claim"
    BY <1>1, <1>4 DEF Inv, PhaseInv, Locked, SameWork
  <1> QED BY <1>1, <1>2, <1>3, <1>4, <1>5, <1>6, BeginSaveKeepsInv

LEMMA AcquireAndRemoveKeepsInv ==
    ASSUME Inv, NEW t \in Thread, AcquireAndRemove(t)
    PROVE  Inv'
  <1> DEFINE x == task[t]
             c == x.cell
  <1>1. /\ x.pc = "acquire" /\ Locked(x.op, c) /\ lock = None
        /\ memory' = [memory EXCEPT ![c] = None]
        /\ UNCHANGED <<loaded, disk, values, crashes, claimed, settled, faults>>
    BY DEF AcquireAndRemove
  <1>2. /\ x \in Work /\ c \in Cell /\ loaded /\ memory \in Contents /\ Finite(memory)
    BY <1>1, WorkParts DEF Inv, LockInv, TypeOK, FiniteInv, Work
  <1>3. CASE x.op = "claim" /\ memory[c] = None
    <2>1. task' = [task EXCEPT ![t] = Idle] /\ lock' = lock
      BY <1>3 DEF AcquireAndRemove
    <2>2. memory' = memory
      BY <1>1, <1>2, <1>3 DEF Contents
    <2>3. unsaved' = unsaved /\ unsaved \in BOOLEAN /\ unread' = unread
      BY <1>1 DEF faults, Inv, TypeOK
    <2> QED BY <1>1, <2>1, <2>2, <2>3, EndKeepsInv DEF Changed, Saves
  <1>4. CASE ~(x.op = "claim" /\ memory[c] = None)
    <2> DEFINE y == Removed(x, memory[c])
    <2>1. lock' = t /\ task' = [task EXCEPT ![t] = y]
      BY <1>4 DEF AcquireAndRemove, Removed, Inv, TypeOK
    <2>2. memory[c] \in Value \cup {None}
      BY <1>2 DEF Contents
    <2>3. /\ SameWork(x, y) /\ y.pc = "open" /\ y.value = memory[c]
          /\ y.table = x.table /\ y.copy = x.copy
      BY <1>2, <2>2, Removes
    <2> HIDE DEF y
    <2>4. x.table = "approvals" /\ x.copy = Empty
      BY <1>1 DEF Inv, PhaseInv
    <2>5. memory' \in Contents /\ Finite(memory')
      BY <1>1, <1>2, FiniteAssign DEF Contents
    <2>6. ~Changed(x)
      BY <1>1 DEF Changed
    <2>7. /\ memory'[c] = None
          /\ \A d \in Cell : memory'[d] = memory[d] \/ (memory'[d] = None /\ d = c)
      BY <1>1, <1>2 DEF Contents
    <2>8. y.op = "claim" => /\ y.value # None /\ y.value = memory[y.cell]
                            /\ memory'[y.cell] = None
      BY <1>4, <2>3, <2>7 DEF SameWork
    <2> QED BY <1>1, <1>2, <2>1, <2>3, <2>4, <2>5, <2>6, <2>7, <2>8, BeginSaveKeepsInv
  <1> QED BY <1>3, <1>4

LEMMA MutateUnlockedKeepsInv ==
    ASSUME Inv, NEW t \in Thread, MutateUnlocked(t)
    PROVE  Inv'
  <1> DEFINE x == task[t]
             c == x.cell
             y == [x EXCEPT !.pc = "acquire"]
  <1>1. /\ x.pc = "mutate" /\ memory' = [memory EXCEPT ![c] = x.value]
        /\ loaded' = loaded /\ disk' = disk /\ lock' = lock /\ values' = values
        /\ crashes' = crashes /\ claimed' = claimed /\ settled' = settled
        /\ unread' = unread /\ unsaved' = unsaved
    BY DEF MutateUnlocked, faults
  <1>2. /\ x \in Work /\ c \in Cell /\ x.value \in Value \cup {None} /\ loaded
        /\ memory \in Contents /\ Finite(memory)
    BY <1>1, WorkParts DEF Inv, LockInv, TypeOK, FiniteInv, Work
  <1>3. task' = [task EXCEPT ![t] = y]
    BY DEF MutateUnlocked, Step, Inv, TypeOK
  <1>4. /\ SameWork(x, y) /\ y.pc = "acquire" /\ y.table = x.table /\ y.copy = x.copy
    BY <1>2, Steps
  <1> HIDE DEF y
  <1>5. /\ task' \in [Thread -> Task] /\ task'[t] = y
        /\ \A u \in Thread \ {t} : task'[u] = task[u]
    BY <1>3, <1>4, Others, WorkIsTask DEF Inv, SameWork
  <1>6. y.op = x.op /\ y.cell = c
    BY <1>4 DEF SameWork
  <1>7. Changed(y) /\ ~Changed(x)
    BY <1>1, <1>4, <1>6 DEF Changed, Inv, PhaseInv
  <1>8. /\ memory' \in Contents /\ Finite(memory')
        /\ \A d \in Cell : memory'[d] = IF d = c THEN x.value ELSE memory[d]
    BY <1>1, <1>2, FiniteAssign DEF Contents
  <1>9. (\A d \in Cell : d = c => Touched(d)') /\ Pending'
    BY <1>2, <1>5, <1>6, <1>7 DEF Touched, Pending, Changed
  <1>10. \A d \in Cell : Touched(d) => Touched(d)'
    <2>1. ASSUME NEW d \in Cell, Touched(d) PROVE Touched(d)'
      <3>1. PICK u \in Thread : Changed(task[u]) /\ task[u].cell = d
        BY <2>1 DEF Touched
      <3>2. u # t
        BY <1>7, <3>1
      <3> QED BY <1>5, <3>1, <3>2 DEF Touched, Changed
    <2> QED BY <2>1
  <1>11. \A u \in Thread : Saves(task'[u]) <=> Saves(task[u])
    BY <1>1, <1>4, <1>5 DEF Saves
  <1>12. \A u \in Thread : Saves(task[u]) => u # t
    BY <1>1 DEF Saves
  <1>13. TypeOK'
    BY <1>1, <1>5, <1>8 DEF Inv, TypeOK
  <1>14. FiniteInv'
    BY <1>1, <1>4, <1>5, <1>8 DEF Inv, FiniteInv, Finite
  <1>15. LockInv'
    BY <1>1, <1>2, <1>11 DEF Inv, LockInv, Saves
  <1>16. PhaseInv'
    BY <1>1, <1>4, <1>5, <1>6 DEF Inv, PhaseInv
  <1>17. SnapshotInv'
    <2>1. ASSUME NEW u \in Thread, Saves(task[u])', NEW d \in Cell
          PROVE  Faithful(task[u], d)'
      <3>1. Saves(task[u]) /\ task'[u] = task[u] /\ Faithful(task[u], d)
        BY <1>5, <1>11, <1>12, <2>1 DEF Inv, SnapshotInv, Saves
      <3>2. d = c => Touched(d)'
        BY <1>9
      <3>3. d # c => memory'[d] = memory[d]
        BY <1>8
      <3> QED BY <1>10, <3>1, <3>2, <3>3 DEF Faithful, Unread
    <2> QED BY <2>1 DEF SnapshotInv
  <1>18. SizeInv' /\ SavedInv'
    BY <1>9 DEF SizeInv, SavedInv
  <1>19. SettledInv'
    <2>1. \A u \in Thread : (task'[u].pc # "idle" <=> task[u].pc # "idle")
                            /\ (task[u].pc # "idle" => task'[u].cell = task[u].cell)
      BY <1>1, <1>4, <1>5, <1>6
    <2>2. ASSUME NEW d \in Cell PROVE Kept(d)'
      <3>1. Kept(d) /\ (d = c => settled[d] = {})
        BY <1>1 DEF Inv, SettledInv
      <3>2. d # c => memory'[d] = memory[d]
        BY <1>8
      <3> QED BY <1>1, <3>1, <3>2 DEF Kept
    <2> QED BY <1>1, <2>1, <2>2 DEF Inv, SettledInv
  <1>20. HomeInv'
    <2>1. ASSUME NEW v \in Value, NEW d \in Cell, Holds(v, d)' PROVE Holds(v, d)
      BY <1>1, <1>4, <1>5, <1>8, <1>11, <1>12, <2>1 DEF Holds, Saves
    <2> QED BY <1>1, <2>1 DEF Inv, HomeInv
  <1>21. \A v : Taken(v)' <=> Taken(v)
    BY <1>1, <1>5, <1>11, <1>12 DEF Taken, Saves
  <1>22. TakenInv'
    <2>1. ~Taken(x.value)
      <3>1. CASE x.value = None
        <4>1. None \notin 1 .. values
          BY DEF Inv, TypeOK
        <4> QED BY <3>1, <4>1 DEF Inv, TakenInv
      <3>2. CASE x.value # None
        BY <1>1, <3>2 DEF Inv, FreshInv
      <3> QED BY <3>1, <3>2
    <2>2. \A d \in Cell : ~Taken(memory'[d])
      BY <1>8, <2>1 DEF Inv, TakenInv
    <2>3. \A u \in Thread : Saves(task'[u]) => task'[u] = task[u]
      BY <1>5, <1>11, <1>12
    <2> QED BY <1>1, <1>11, <1>21, <2>2, <2>3 DEF Inv, TakenInv
  <1>23. FreshInv'
    <2>1. ASSUME NEW u \in Thread, task'[u].pc = "mutate", task'[u].value # None
          PROVE  /\ ~Taken(task'[u].value)
                 /\ \A d \in Cell : memory'[d] # task'[u].value
                 /\ \A w \in Thread \ {u} :
                       task'[w].pc = "mutate" => task'[w].value # task'[u].value
      <3>1. u # t /\ task'[u] = task[u]
        BY <1>4, <1>5, <2>1
      <3>2. x.value # task[u].value
        BY <1>1, <2>1, <3>1 DEF Inv, FreshInv
      <3>3. \A d \in Cell : memory'[d] # task[u].value
        BY <1>8, <2>1, <3>1, <3>2 DEF Inv, FreshInv
      <3>4. \A w \in Thread \ {u} :
              task'[w].pc = "mutate" => task'[w].value # task[u].value
        BY <1>4, <1>5, <2>1, <3>1 DEF Inv, FreshInv
      <3> QED BY <2>1, <3>1, <3>3, <3>4 DEF Inv, FreshInv
    <2> QED BY <1>21, <2>1 DEF FreshInv
  <1>24. OnceInv'
    BY <1>1, <1>5, <1>11, <1>12 DEF Inv, OnceInv, Saves
  <1> QED
    BY <1>24, <1>13, <1>14, <1>15, <1>16, <1>17, <1>18, <1>19, <1>20, <1>22, <1>23 DEF Inv

-----------------------------------------------------------------------------
(* The end of a save, a load and a restart. *)

LEMMA ReplaceKeepsInv ==
    ASSUME Inv, NEW t \in Thread, Replace(t)
    PROVE  Inv'
  <1> DEFINE x == task[t]
             c == x.cell
  <1>1. /\ x.pc = "replace" /\ disk' = x.copy
        /\ task' = [task EXCEPT ![t] = Idle]
        /\ claimed' = IF x.op = "claim" THEN claimed \cup {x.value} ELSE claimed
        /\ settled' = [settled EXCEPT ![c] = IF Contended(t) THEN {} ELSE {memory[c]}]
        /\ memory' = memory /\ loaded' = loaded /\ values' = values /\ crashes' = crashes
        /\ unread' = unread /\ unsaved' = FALSE
    BY DEF Replace, Return
  <1>2. /\ x \in Work /\ c \in Cell /\ x.value \in Value \cup {None}
        /\ x.copy \in Contents /\ Finite(x.copy) /\ Saves(x)
    BY <1>1, WorkParts DEF Inv, FiniteInv, Work, Saves
  <1>3. lock' = None
    BY <1>2 DEF Replace, Inv, LockInv
  <1>4. /\ task' \in [Thread -> Task] /\ task'[t] = Idle
        /\ \A u \in Thread \ {t} : task'[u] = task[u]
    BY <1>1, Others, WorkIsTask DEF Inv
  <1>5. Idle.pc \notin {"mutate", "acquire", "open", "items", "replace"} /\ Idle.pc = "idle"
    BY DEF Idle
  <1>6. \A u \in Thread : task'[u].pc # "idle" => u # t /\ task'[u] = task[u]
    BY <1>4, <1>5
  <1>7. \A u \in Thread : ~Saves(task'[u])
    BY <1>2, <1>4, <1>5, OneSaver DEF Saves
  <1>8. /\ \A d \in Cell : Touched(d)' <=> Touched(d)
        /\ Pending' <=> Pending
    <2>1. \A u \in Thread : Changed(task[u])' <=> Changed(task[u])
      BY <1>1, <1>4, <1>5 DEF Changed
    <2> QED BY <1>1, <1>4, <1>5, <2>1 DEF Touched, Pending, Changed
  <1>9. \A d \in Cell : Touched(d) \/ x.copy[d] = memory[d]
    BY <1>1, <1>2 DEF Inv, SnapshotInv, Faithful, Unread
  <1>10. \A v : Taken(v)' <=> v \in claimed'
    BY <1>7 DEF Taken, Saves
  <1>11. \A v \in claimed' : Taken(v)
    BY <1>1, <1>2 DEF Taken
  <1>12. TypeOK'
    <2>1. memory[c] \in Value \cup {None}
      BY <1>2 DEF Inv, TypeOK, Contents
    <2>2. settled' \in [Cell -> SUBSET (Value \cup {None})]
      BY <1>1, <2>1 DEF Inv, TypeOK
    <2>3. claimed' \subseteq Value \cup {None}
      BY <1>1, <1>2 DEF Inv, TypeOK
    <2> QED BY <1>1, <1>2, <1>3, <1>4, <2>2, <2>3 DEF Inv, TypeOK
  <1>13. FiniteInv'
    BY <1>1, <1>2, <1>6 DEF Inv, FiniteInv, Finite
  <1>14. LockInv'
    BY <1>1, <1>2, <1>3, <1>7 DEF Inv, LockInv, Saves
  <1>15. PhaseInv'
    BY <1>1, <1>5, <1>6 DEF Inv, PhaseInv
  <1>16. SnapshotInv' /\ SizeInv'
    BY <1>7 DEF SnapshotInv, SizeInv, Saves
  <1>17. SavedInv'
    <2>1. ASSUME ~Pending PROVE x.copy = memory
      <3>1. \A d \in Cell : x.copy[d] = memory[d]
        BY <1>9, <2>1 DEF Touched, Pending
      <3> QED BY <1>2, <3>1 DEF Inv, TypeOK, Contents
    <2> QED BY <1>1, <1>8, <2>1 DEF SavedInv
  <1>18. SettledInv'
    <2>1. /\ settled'[c] = IF Contended(t) THEN {} ELSE {memory[c]}
          /\ \A d \in Cell \ {c} : settled'[d] = settled[d]
      BY <1>1, <1>2 DEF Inv, TypeOK
    <2>2. \A u \in Thread : task[u].pc # "idle" =>
             task[u].cell \in Cell /\ settled[task[u].cell] = {}
      BY WorkParts DEF Inv, SettledInv, Work
    <2>3. ASSUME NEW d \in Cell PROVE Kept(d)'
      <3>1. loaded /\ Kept(d)
        BY <1>1 DEF Inv, LockInv, SettledInv
      <3>2. CASE d = c
        <4>1. ASSUME ~Contended(t) PROVE ~Touched(d)
          BY <1>1, <3>2, <4>1 DEF Contended, Touched, Changed
        <4> QED BY <1>1, <1>9, <2>1, <3>2, <4>1 DEF Kept
      <3>3. CASE d # c
        <4>1. settled[d] # {} => ~Touched(d)
          BY <2>2 DEF Touched, Changed
        <4> QED BY <1>1, <1>9, <2>1, <3>1, <3>3, <4>1 DEF Kept
      <3> QED BY <3>2, <3>3
    <2>4. ASSUME NEW u \in Thread, task'[u].pc # "idle" PROVE settled'[task'[u].cell] = {}
      <3>1. u # t /\ task'[u] = task[u] /\ task[u].pc # "idle"
        BY <1>6, <2>4
      <3>2. task[u].cell = c => Contended(t)
        BY <3>1 DEF Contended
      <3> QED BY <2>1, <2>2, <3>1, <3>2
    <2> QED BY <2>3, <2>4 DEF SettledInv
  <1>19. HomeInv'
    <2>1. ASSUME NEW v \in Value, NEW d \in Cell, Holds(v, d)' PROVE Holds(v, d)
      <3>1. x.copy[d] = v => Holds(v, d)
        BY <1>2 DEF Holds
      <3>2. disk'[d] # v => Holds(v, d)
        BY <1>1, <1>6, <1>7, <2>1 DEF Holds, Saves
      <3> QED BY <1>1, <3>1, <3>2
    <2> QED BY <1>1, <2>1 DEF Inv, HomeInv
  <1>20. TakenInv'
    <2>1. \A v \in Value \cup {None} : Taken(v)' => v \in 1 .. values'
      BY <1>1, <1>10, <1>11 DEF Inv, TakenInv
    <2>2. \A d \in Cell : ~Taken(memory[d])' /\ disk'[d] \notin claimed'
      BY <1>1, <1>2, <1>10, <1>11 DEF Inv, TakenInv
    <2> QED BY <1>7, <2>1, <2>2 DEF TakenInv, Saves
  <1>21. FreshInv'
    <2>1. \A v : Taken(v)' => Taken(v)
      BY <1>10, <1>11
    <2> QED BY <1>1, <1>6, <2>1 DEF Inv, FreshInv
  <1>22. OnceInv'
    BY <1>7 DEF OnceInv, Saves
  <1> QED
    BY <1>22, <1>12, <1>13, <1>14, <1>15, <1>16, <1>17, <1>18, <1>19, <1>20, <1>21 DEF Inv

(* What a process finds when it starts is what the one before it has saved. *)
LEMMA LoadKeepsInv == Inv /\ Load => Inv'
  <1> SUFFICES ASSUME Inv, Load PROVE Inv'
    OBVIOUS
  <1>1. /\ ~loaded /\ lock = None /\ loaded' = TRUE /\ memory' = disk
        /\ disk' = disk /\ lock' = lock /\ task' = task /\ values' = values
        /\ crashes' = crashes /\ claimed' = claimed /\ settled' = settled
        /\ unread' = unread /\ unsaved' = unsaved
    BY DEF Load, faults
  <1>2. \A t \in Thread : task[t].pc = "idle" /\ ~Saves(task[t])
    BY <1>1 DEF Inv, LockInv, Saves
  <1>3. TypeOK'
    BY <1>1 DEF Inv, TypeOK
  <1>4. FiniteInv'
    BY <1>1 DEF Inv, FiniteInv, Finite
  <1>5. LockInv' /\ PhaseInv'
    BY <1>1 DEF Inv, LockInv, PhaseInv, Saves
  <1>6. SnapshotInv' /\ SizeInv' /\ SavedInv'
    BY <1>1, <1>2 DEF SnapshotInv, SizeInv, SavedInv, Saves
  <1>7. SettledInv'
    BY <1>1, <1>2 DEF Inv, SettledInv, Kept
  <1>8. HomeInv'
    <2>1. ASSUME NEW v \in Value, NEW c \in Cell, Holds(v, c)' PROVE Holds(v, c)
      BY <1>1, <2>1 DEF Holds, Saves
    <2> QED BY <1>1, <2>1 DEF Inv, HomeInv
  <1>9. \A v : (Taken(v)' <=> Taken(v)) /\ (Taken(v) <=> v \in claimed)
    BY <1>1, <1>2 DEF Taken, Saves
  <1>10. TakenInv'
    BY <1>1, <1>2, <1>9 DEF Inv, TakenInv, Saves
  <1>11. FreshInv'
    BY <1>1, <1>2 DEF FreshInv
  <1>12. OnceInv'
    BY <1>1, <1>2 DEF OnceInv, Saves
  <1> QED BY <1>12, <1>3, <1>4, <1>5, <1>6, <1>7, <1>8, <1>10, <1>11 DEF Inv

(* What a process cannot read is marked. *)
LEMMA LoadFailsKeepsInv == Inv /\ LoadFails => Inv'
  <1> SUFFICES ASSUME Inv, LoadFails PROVE Inv'
    OBVIOUS
  <1>1. /\ ~loaded /\ lock = None /\ loaded' = TRUE /\ unsaved' = TRUE
        /\ unread' = unread \cup {c \in Cell : disk[c] # None}
        /\ memory' = memory /\ disk' = disk /\ lock' = lock /\ task' = task
        /\ values' = values /\ crashes' = crashes /\ claimed' = claimed
        /\ settled' = settled
    BY DEF LoadFails
  <1>2. \A t \in Thread : task[t].pc = "idle" /\ ~Saves(task[t])
    BY <1>1 DEF Inv, LockInv, Saves
  <1>3. TypeOK'
    BY <1>1 DEF Inv, TypeOK
  <1>4. FiniteInv'
    BY <1>1 DEF Inv, FiniteInv, Finite
  <1>5. LockInv' /\ PhaseInv'
    BY <1>1 DEF Inv, LockInv, PhaseInv, Saves
  <1>6. SnapshotInv' /\ SizeInv' /\ SavedInv'
    BY <1>1, <1>2 DEF SnapshotInv, SizeInv, SavedInv, Saves
  <1>7. SettledInv'
    <2>1. \A c \in Cell : memory[c] = None
      BY <1>1 DEF Inv, LockInv, Empty
    <2> QED BY <1>1, <1>2, <2>1 DEF Inv, SettledInv, Kept
  <1>8. HomeInv'
    BY <1>1 DEF Inv, HomeInv, Holds, Saves
  <1>9. TakenInv' /\ OnceInv' /\ FreshInv'
    BY <1>1, <1>2 DEF Inv, TakenInv, Taken, OnceInv, FreshInv, Saves
  <1> QED BY <1>3, <1>4, <1>5, <1>6, <1>7, <1>8, <1>9 DEF Inv

LEMMA CrashKeepsInv == Inv /\ Crash => Inv'
  <1> SUFFICES ASSUME Inv, Crash PROVE Inv'
    OBVIOUS
  <1>1. /\ crashes < MaxCrashes /\ crashes' = crashes + 1 /\ memory' = Empty
        /\ loaded' = FALSE /\ lock' = None /\ task' = [t \in Thread |-> Idle]
        /\ disk' = disk /\ values' = values /\ claimed' = claimed /\ settled' = settled
        /\ unread' = unread /\ unsaved' = FALSE
    BY DEF Crash
  <1>2. \A t \in Thread : task'[t].pc = "idle" /\ ~Saves(task'[t])
    BY <1>1 DEF Idle, Saves
  <1>3. Empty \in Contents /\ Finite(Empty)
    <2>1. {d \in Cell : Empty[d] # None} = {}
      BY DEF Empty
    <2> QED BY <2>1, FS_EmptySet DEF Empty, Contents, Finite
  <1>4. TypeOK'
    <2>1. task' \in [Thread -> Task]
      BY <1>1, WorkIsTask
    <2>2. crashes' \in 0 .. MaxCrashes
      BY <1>1 DEF Inv, TypeOK
    <2> QED BY <1>1, <1>3, <2>1, <2>2 DEF Inv, TypeOK
  <1>5. FiniteInv'
    BY <1>1, <1>2, <1>3 DEF Inv, FiniteInv, Finite
  <1>6. LockInv' /\ PhaseInv'
    BY <1>1, <1>2 DEF LockInv, PhaseInv, Saves
  <1>7. SnapshotInv' /\ SizeInv' /\ SavedInv' /\ SettledInv' /\ FreshInv'
    BY <1>1, <1>2 DEF Inv, SnapshotInv, SizeInv, SavedInv, SettledInv, Kept,
                      FreshInv, Saves
  <1>8. HomeInv'
    <2>1. ASSUME NEW v \in Value, NEW c \in Cell, Holds(v, c)' PROVE Holds(v, c)
      <3>1. memory'[c] # v
        BY <1>1 DEF Empty, Value
      <3> QED BY <1>1, <1>2, <2>1, <3>1 DEF Holds, Saves
    <2> QED BY <1>1, <2>1 DEF Inv, HomeInv
  <1>9. \A v : Taken(v)' <=> v \in claimed
    BY <1>1, <1>2 DEF Taken, Saves
  <1>10. TakenInv'
    <2>1. claimed \subseteq 1 .. values /\ None \notin 1 .. values
      BY DEF Inv, TakenInv, Taken, TypeOK, Value
    <2>2. \A c \in Cell : memory'[c] = None
      BY <1>1 DEF Empty
    <2> QED BY <1>1, <1>2, <1>9, <2>1, <2>2 DEF Inv, TakenInv, Saves
  <1>11. OnceInv'
    BY <1>2 DEF OnceInv, Saves
  <1> QED BY <1>11, <1>4, <1>5, <1>6, <1>7, <1>8, <1>10 DEF Inv

-----------------------------------------------------------------------------
(* The theorems. *)

LEMMA InitInv == Init => Inv
  <1> SUFFICES ASSUME Init PROVE Inv
    OBVIOUS
  <1>1. \A t \in Thread : task[t].pc = "idle" /\ ~Saves(task[t])
    BY DEF Init, Idle, Saves
  <1>2. Empty \in Contents /\ Finite(Empty)
    <2>1. {d \in Cell : Empty[d] # None} = {}
      BY DEF Empty
    <2> QED BY <2>1, FS_EmptySet DEF Empty, Contents, Finite
  <1>3. TypeOK
    <2>1. task \in [Thread -> Task]
      BY WorkIsTask DEF Init
    <2>2. values \in 0 .. MaxValues /\ crashes \in 0 .. MaxCrashes
      BY DEF Init
    <2>3. settled \in [Cell -> SUBSET (Value \cup {None})] /\ unread \subseteq Cell
          /\ unsaved \in BOOLEAN
      BY DEF Init
    <2>4. memory \in Contents /\ disk \in Contents
      BY <1>2 DEF Init
    <2>5. loaded \in BOOLEAN /\ lock \in Thread \cup {None} /\ claimed \subseteq Value \cup {None}
      BY DEF Init
    <2> QED BY <2>1, <2>2, <2>3, <2>4, <2>5 DEF TypeOK
  <1>4. FiniteInv
    BY <1>1, <1>2 DEF Init, FiniteInv
  <1>5. LockInv /\ PhaseInv
    BY <1>1 DEF Init, LockInv, PhaseInv
  <1>6. SnapshotInv /\ SizeInv /\ SavedInv /\ SettledInv /\ FreshInv
    BY <1>1 DEF Init, Empty, SnapshotInv, SizeInv, SavedInv, SettledInv, Kept,
                FreshInv, Saves
  <1>7. HomeInv
    <2>1. ASSUME NEW v \in Value, NEW c \in Cell PROVE ~Holds(v, c)
      BY <1>1 DEF Init, Holds, Empty, Value
    <2> QED BY <2>1 DEF HomeInv
  <1>8. TakenInv
    BY <1>1 DEF Init, TakenInv, Taken
  <1>9. OnceInv
    BY <1>1 DEF OnceInv
  <1> QED BY <1>9, <1>3, <1>4, <1>5, <1>6, <1>7, <1>8 DEF Inv

LEMMA NextKeepsInv == Inv /\ [Next]_vars => Inv'
  <1> SUFFICES ASSUME Inv, [Next]_vars PROVE Inv'
    OBVIOUS
  <1>1. CASE Load \/ LoadFails
    BY <1>1, LoadKeepsInv, LoadFailsKeepsInv
  <1>2. ASSUME NEW t \in Thread, NEW op \in Op, NEW c \in Cell, Start(t, op, c)
        PROVE  Inv'
    BY <1>2, StartKeepsInv
  <1>3. ASSUME NEW t \in Thread, ThreadStep(t) PROVE Inv'
    <2>1. CASE MutateUnlocked(t)
      BY <2>1, MutateUnlockedKeepsInv
    <2>2. CASE Acquire(t)
      BY <2>2, AcquireKeepsInv
    <2>3. CASE AcquireAndRemove(t)
      BY <2>3, AcquireAndRemoveKeepsInv
    <2>4. CASE OpenTable(t)
      BY <2>4, OpenTableKeepsInv
    <2>5. ASSUME NEW c \in Cell, DumpItem(t, c) PROVE Inv'
      BY <2>5, DumpItemKeepsInv
    <2>6. CASE CloseTable(t)
      BY <2>6, CloseTableKeepsInv
    <2>7. CASE DumpRaises(t)
      BY <2>7, DumpRaisesKeepsInv
    <2>8. CASE Replace(t)
      BY <2>8, ReplaceKeepsInv
    <2>9. CASE WriteRaises(t)
      BY <2>9, WriteRaisesKeepsInv
    <2> QED
      BY <1>3, <2>1, <2>2, <2>3, <2>4, <2>5, <2>6, <2>7, <2>8, <2>9 DEF ThreadStep
  <1>4. CASE Crash
    BY <1>4, CrashKeepsInv
  <1>5. CASE UNCHANGED vars
    <2>1. /\ memory' = memory /\ loaded' = loaded /\ disk' = disk /\ lock' = lock
          /\ task' = task /\ values' = values /\ crashes' = crashes
          /\ claimed' = claimed /\ settled' = settled
          /\ unread' = unread /\ unsaved' = unsaved
      BY <1>5 DEF vars, faults
    <2> QED
      BY <2>1 DEF Inv, TypeOK, FiniteInv, Finite, LockInv, PhaseInv, SnapshotInv,
                  Faithful, Unread, Touched, Changed, Saves, SizeInv, SameSize, Entries,
                  Pending, SavedInv, SettledInv, Kept, HomeInv, Holds,
                  TakenInv, Taken, OnceInv, FreshInv
  <1> QED BY <1>1, <1>2, <1>3, <1>4, <1>5 DEF Next

LEMMA Invariance == Spec => []Inv
  <1> QED BY InitInv, NextKeepsInv, PTL DEF Spec

(* The state has its type: among the rest, the dict whose size json.dumps    *)
(* compares has one, although the sessions may be infinitely many.           *)
THEOREM JsonTypeCorrect == Spec => []TypeOK
  <1>1. Inv => TypeOK
    BY DEF Inv
  <1> QED BY <1>1, Invariance, PTL

(* An approval that _claim_approval has returned is gone from the dict and   *)
(* from the file for good, whatever other threads save or raise and however  *)
(* often the process dies.                                                   *)
THEOREM ClaimsAreFinal == Spec => []ClaimedIsGone
  <1>1. Inv => ClaimedIsGone
    BY DEF Inv, TakenInv, Taken, ClaimedIsGone
  <1> QED BY <1>1, Invariance, PTL

(* What an operation has left in its cell when it returned is in the file    *)
(* until the next operation on the cell begins, although writes of the file  *)
(* may fail, other threads save and raise, and processes die: no older       *)
(* snapshot lands over it, and only a process that could not read the entry  *)
(* takes it out.                                                             *)
THEOREM SettledSurvives == Spec => []SettledIsDurable
  <1>1. Inv => SettledIsDurable
    BY DEF Inv, SettledInv, Kept, SettledIsDurable
  <1> QED BY <1>1, Invariance, PTL

(* When no operation is under way the file is what the dicts are, unless the *)
(* last read or write of it has failed: who made a save of another thread    *)
(* raise has saved since, and one save that succeeds makes up for all that   *)
(* has failed before.                                                        *)
THEOREM QuiescenceSurvives == Spec => []QuiescentIsDurable
  <1>1. Inv => QuiescentIsDurable
    <2> SUFFICES ASSUME Inv, loaded, ~unsaved, \A t \in Thread : task[t].pc = "idle"
                 PROVE  disk = memory
      BY DEF QuiescentIsDurable
    <2>1. ~Pending /\ \A t \in Thread : ~Saves(task[t])
      BY DEF Pending, Changed, Saves
    <2>2. lock = None
      BY <2>1 DEF Inv, LockInv, TypeOK
    <2> QED BY <2>1, <2>2 DEF Inv, SavedInv
  <1> QED BY <1>1, Invariance, PTL

(* _claim_approval is take-once: no approval is returned by two claims, of   *)
(* two threads or of two processes.                                          *)
THEOREM ClaimsAreOnce == Spec => ClaimedOnce
  <1>1. Inv => \A t \in Thread :
                 Replace(t) /\ task[t].op = "claim" => task[t].value \notin claimed
    BY DEF Inv, OnceInv, Saves, Replace
  <1> QED BY <1>1, Invariance, PTL DEF Spec, ClaimedOnce

=============================================================================

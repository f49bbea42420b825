------------------------- MODULE SessionStoreProofs -------------------------
(***************************************************************************)
(* The safety of SessionStore for any workers, threads, sessions, values   *)
(* and times, with either backend.                                         *)
(*                                                                         *)
(* The inductive invariant has two parts.  A transaction of SQLite holds   *)
(* the write lock from BEGIN IMMEDIATE on, so that the row it has read is  *)
(* still the row when it writes.  And a stored approval has one place: it  *)
(* is the value of one call, or then in the slot of one session, or        *)
(* claimed once, or gone.                                                  *)
(***************************************************************************)
EXTENDS SessionStore, SequenceTheorems, TLAPS

Busy ==
    [pc : {"mark", "sweep", "sweep2", "operate", "select", "write", "send"},
     op : Op, session : Session, at : Time \cup {None}, value : Value \cup {None},
     row : Row \cup Messages \cup {None}]

Recent(s) == IF sessions[s] = None THEN <<>> ELSE sessions[s].messages

(* Who has begun a transaction holds the lock, and nobody has changed what  *)
(* it has read.                                                             *)
LockInv ==
    \A t \in Thread : call[t].pc \in {"select", "write"} =>
        /\ backend = "sqlite"
        /\ writer = t
        /\ call[t].op \in {"claim", "append"}
        /\ call[t].pc = "write" =>
              call[t].row = IF call[t].op = "claim" THEN approvals[call[t].session]
                            ELSE sessions[call[t].session]

(* A sweep compares with a time that has been, and is made only with a TTL; *)
(* a row is stamped with a time.                                            *)
SweepInv ==
    \A t \in Thread :
        /\ call[t].pc \in {"mark", "sweep", "sweep2"} =>
              /\ call[t].at \in Time
              /\ call[t].at <= clock
              /\ Ttl > 0
        /\ call[t].pc = "send" => call[t].at \in Time

(* The value of a call is its own, and new. *)
Carries(t) == call[t].pc # "idle" /\ call[t].op \in {"set", "append"}

ValueInv ==
    /\ \A t \in Thread : Carries(t) => call[t].value \in 1 .. values \ stored
    /\ \A t, u \in Thread :
          Carries(t) /\ Carries(u) /\ call[t].value = call[u].value => t = u
    /\ \A v \in stored : v <= values

(* A stored approval is in one slot, or claimed once, or in none. *)
InSlot(s, v) == approvals[s] # None /\ approvals[s].data = v

SlotInv ==
    /\ \A v \in Value : claimed[v] \in {0, 1}
    /\ \A s \in Session : approvals[s] # None =>
          approvals[s].data \in stored /\ claimed[approvals[s].data] = 0
    /\ \A s, z \in Session : \A v \in Value : InSlot(s, v) /\ InSlot(z, v) => s = z

Inv ==
    /\ TypeOK /\ log \in [Session -> Seq(Value)]
    /\ LockInv /\ SweepInv /\ ValueInv /\ SlotInv /\ HistoryIsRecent

-----------------------------------------------------------------------------
(* What is kept of a history. *)

LEMMA LastProperties ==
    ASSUME NEW S, NEW messages \in Seq(S), NEW n \in Nat
    PROVE  /\ Last(messages, n) \in Seq(S)
           /\ Len(Last(messages, n)) = IF Len(messages) <= n THEN Len(messages) ELSE n
           /\ \A i \in 1 .. Len(Last(messages, n)) :
                Last(messages, n)[i] =
                    messages[Len(messages) - Len(Last(messages, n)) + i]
  <1> DEFINE l == Len(messages)
  <1>1. l \in Nat
    OBVIOUS
  <1>2. CASE l <= n
    BY <1>1, <1>2 DEF Last
  <1>3. CASE l > n
    <2>1. l - n + 1 \in 1 .. l + 1 /\ Last(messages, n) = SubSeq(messages, l - n + 1, l)
      BY <1>1, <1>3 DEF Last
    <2>2. \A i \in l - n + 1 .. l : messages[i] \in S
      BY <1>1, <1>3
    <2>3. /\ SubSeq(messages, l - n + 1, l) \in Seq(S)
          /\ Len(SubSeq(messages, l - n + 1, l)) = n
          /\ \A i \in 1 .. n : SubSeq(messages, l - n + 1, l)[i] = messages[l - n + i]
      <3>1. l - n + 1 \in Int /\ l \in Int /\ l - (l - n + 1) + 1 = n
        BY <1>1
      <3>2. (l - n + 1 <= l) \/ n = 0
        BY <1>1
      <3>3. \A i \in 1 .. n : (l - n + 1) + i - 1 = l - n + i
        BY <1>1
      <3> QED BY <2>2, <3>1, <3>2, <3>3, SubSeqProperties
    <2> QED BY <1>3, <2>1, <2>3
  <1> QED BY <1>1, <1>2, <1>3

(* Two sequences with the same end keep the same. *)
LEMMA SameEnd ==
    ASSUME NEW S, NEW a \in Seq(S), NEW b \in Seq(S), NEW n \in Nat, NEW c \in Nat,
           c = IF Len(a) <= n THEN Len(a) ELSE n,
           c = IF Len(b) <= n THEN Len(b) ELSE n,
           \A i \in 1 .. c : a[Len(a) - c + i] = b[Len(b) - c + i]
    PROVE  Last(a, n) = Last(b, n)
  <1>1. Last(a, n) \in Seq(S) /\ Last(b, n) \in Seq(S)
    BY LastProperties
  <1>2. Len(Last(a, n)) = c /\ Len(Last(b, n)) = c
    BY LastProperties
  <1>3. \A i \in 1 .. Len(Last(a, n)) :
            Last(a, n)[i] = a[Len(a) - Len(Last(a, n)) + i]
    BY LastProperties
  <1>4. \A i \in 1 .. Len(Last(b, n)) :
            Last(b, n)[i] = b[Len(b) - Len(Last(b, n)) + i]
    BY LastProperties
  <1>5. \A i \in 1 .. c : Last(a, n)[i] = Last(b, n)[i]
    BY <1>2, <1>3, <1>4
  <1> QED BY <1>1, <1>2, <1>5, SeqEqual

(* To append to what was kept is to keep of what was appended. *)
LEMMA LastOfAppend ==
    ASSUME NEW S, NEW messages \in Seq(S), NEW v \in S, NEW n \in Nat \ {0}
    PROVE  Last(Append(Last(messages, n), v), n) = Last(Append(messages, v), n)
  <1>1. PICK kept \in Seq(S) : kept = Last(messages, n)
    BY LastProperties
  <1>2. Len(kept) = IF Len(messages) <= n THEN Len(messages) ELSE n
    BY <1>1, LastProperties
  <1>3. \A i \in 1 .. Len(kept) : kept[i] = messages[Len(messages) - Len(kept) + i]
    BY <1>1, LastProperties
  <1>4. PICK a \in Seq(S) : a = Append(kept, v)
    BY AppendProperties
  <1>5. Len(a) = Len(kept) + 1 /\ a[Len(kept) + 1] = v
    BY <1>4, AppendProperties
  <1>6. \A i \in 1 .. Len(kept) : a[i] = kept[i]
    BY <1>4, AppendProperties
  <1>7. PICK b \in Seq(S) : b = Append(messages, v)
    BY AppendProperties
  <1>8. Len(b) = Len(messages) + 1 /\ b[Len(messages) + 1] = v
    BY <1>7, AppendProperties
  <1>9. \A i \in 1 .. Len(messages) : b[i] = messages[i]
    BY <1>7, AppendProperties
  <1>10. Len(kept) \in Nat /\ Len(messages) \in Nat
    BY LenProperties
  <1>11. PICK c \in Nat \ {0} :
           /\ c = IF Len(a) <= n THEN Len(a) ELSE n
           /\ c = IF Len(b) <= n THEN Len(b) ELSE n
    BY <1>2, <1>5, <1>8, <1>10
  <1>12. ASSUME NEW i \in 1 .. c
         PROVE  a[Len(a) - c + i] = b[Len(b) - c + i]
    <2>1. CASE i = c
      BY <1>5, <1>8, <1>10, <2>1
    <2>2. CASE i < c
      <3>0. Len(a) - c + i \in 1 .. Len(kept) /\ Len(b) - c + i \in 1 .. Len(messages)
        <4>1. Len(a) - c + i \in Int /\ Len(a) - c + i >= 1 /\ Len(a) - c + i <= Len(kept)
          BY <1>5, <1>10, <1>11, <2>2
        <4>2. Len(b) - c + i \in Int /\ Len(b) - c + i >= 1 /\ Len(b) - c + i <= Len(messages)
          BY <1>8, <1>10, <1>11, <2>2
        <4> QED BY <1>10, <4>1, <4>2
      <3>1. PICK j \in 1 .. Len(kept) : j = Len(a) - c + i
        BY <3>0
      <3>2. PICK k \in 1 .. Len(messages) : k = Len(b) - c + i
        BY <3>0
      <3>3. k = Len(messages) - Len(kept) + j
        BY <1>5, <1>8, <1>10, <3>1, <3>2
      <3>4. a[j] = messages[k]
        BY <1>3, <1>6, <3>3
      <3>5. b[k] = messages[k]
        BY <1>9
      <3> QED BY <3>1, <3>2, <3>4, <3>5
    <2> QED BY <2>1, <2>2
  <1>13. Last(a, n) = Last(b, n)
    BY <1>11, <1>12, SameEnd
  <1> QED BY <1>1, <1>4, <1>7, <1>13

USE Parameters, NoneIsNoRow

-----------------------------------------------------------------------------
(* What a step of one thread leaves alone. *)

LEMMA BusyCall ==
    ASSUME TypeOK, NEW t \in Thread, call[t].pc # "idle"
    PROVE  call[t] \in Busy
  <1>1. call[t] \in Call
    BY DEF TypeOK
  <1> QED BY <1>1 DEF Call, Busy

LEMMA BusyIsCall == Busy \subseteq Call /\ Idle \in Call
  BY DEF Busy, Call, Idle

(* No other thread has a transaction open. *)
Alone(t) == \A u \in Thread \ {t} : call[u].pc \notin {"select", "write"}

LEMMA LockedOut ==
    ASSUME Inv, NEW t \in Thread,
           writer \in {None, t} \/ backend = "mongodb" \/ call[t].pc \in {"select", "write"}
    PROVE  Alone(t)
  BY DEF Inv, LockInv, Alone

(* The thread goes on with its call, or ends it. *)
GoesOn(t, c) ==
    /\ c \in Call
    /\ call' = [call EXCEPT ![t] = c]
    /\ c.pc # "idle" => /\ call[t].pc # "idle"
                        /\ c.op = call[t].op
                        /\ c.value = call[t].value
    /\ c.pc \in {"mark", "sweep", "sweep2"} => /\ call[t].pc \in {"mark", "sweep", "sweep2"}
                                               /\ c.at = call[t].at
    /\ c.pc = "send" => c.at \in Time
    /\ UNCHANGED <<backend, clock, values>>

(* It stores what it carries when it ends, or nothing. *)
Stores(t, c) ==
    \/ stored' = stored
    \/ Carries(t) /\ c.pc = "idle" /\ stored' = stored \cup {call[t].value}

LEMMA CallKept ==
    ASSUME Inv, NEW t \in Thread, NEW c, GoesOn(t, c), Stores(t, c)
    PROVE  /\ call' \in [Thread -> Call]
           /\ call'[t] = c
           /\ \A u \in Thread \ {t} : call'[u] = call[u]
           /\ SweepInv' /\ ValueInv'
  <1>1. TypeOK
    BY DEF Inv
  <1>2. call' \in [Thread -> Call] /\ call'[t] = c /\ \A u \in Thread \ {t} : call'[u] = call[u]
    BY <1>1 DEF TypeOK, GoesOn
  <1>3. SweepInv'
    BY <1>2 DEF Inv, SweepInv, GoesOn
  <1>4. values' = values
    BY DEF GoesOn
  <1>5. ASSUME NEW u \in Thread, Carries(u)'
        PROVE  /\ Carries(u) /\ call'[u].value = call[u].value
               /\ call[u].value \in 1 .. values \ stored
               /\ stored' # stored => u # t
    BY <1>2, <1>5 DEF Carries, GoesOn, Stores, Inv, ValueInv
  <1>6. ValueInv'
    <2>1. ASSUME NEW u \in Thread, Carries(u)'
          PROVE  call'[u].value \in 1 .. values' \ stored'
      BY <1>4, <1>5, <2>1 DEF Stores, Inv, ValueInv
    <2>2. ASSUME NEW u \in Thread, NEW z \in Thread, Carries(u)', Carries(z)',
                 call'[u].value = call'[z].value
          PROVE  u = z
      BY <1>5, <2>2 DEF Inv, ValueInv
    <2>3. \A v \in stored' : v <= values'
      <3>1. values \in Nat /\ \A v \in stored : v <= values
        BY <1>1 DEF TypeOK, Inv, ValueInv
      <3>2. Carries(t) => call[t].value <= values
        BY <3>1 DEF Inv, ValueInv
      <3> QED BY <1>4, <3>1, <3>2 DEF Stores
    <2> QED BY <2>1, <2>2, <2>3 DEF ValueInv
  <1> QED BY <1>2, <1>3, <1>6

LEMMA LockKept ==
    ASSUME Inv, NEW t \in Thread, NEW c, GoesOn(t, c), Stores(t, c),
           c.pc \notin {"select", "write"},
           Alone(t) \/ UNCHANGED <<approvals, sessions, writer>>
    PROVE  LockInv'
  <1>1. call'[t] = c /\ \A u \in Thread \ {t} : call'[u] = call[u]
    BY CallKept
  <1>2. SUFFICES ASSUME NEW u \in Thread, call'[u].pc \in {"select", "write"}
        PROVE  /\ backend' = "sqlite"
               /\ writer' = u
               /\ call'[u].op \in {"claim", "append"}
               /\ call'[u].pc = "write" =>
                     call'[u].row = IF call'[u].op = "claim"
                                    THEN approvals'[call'[u].session]
                                    ELSE sessions'[call'[u].session]
    BY DEF LockInv
  <1>3. u # t /\ call'[u] = call[u]
    BY <1>1, <1>2
  <1>4. UNCHANGED <<approvals, sessions, writer>>
    BY <1>2, <1>3 DEF Alone
  <1> QED BY <1>2, <1>3, <1>4 DEF Inv, LockInv, GoesOn

LEMMA HistoryKept ==
    ASSUME Inv, UNCHANGED <<sessions, log>>
    PROVE  HistoryIsRecent' /\ (log \in [Session -> Seq(Value)])'
  BY DEF Inv, HistoryIsRecent

(* Approvals go, and nothing is claimed. *)
LEMMA SlotsEmptied ==
    ASSUME Inv, approvals' \in [Session -> Row \cup {None}],
           \A s \in Session : approvals'[s] \in {approvals[s], None},
           UNCHANGED <<stored, claimed>>
    PROVE  SlotInv'
  <1>1. \A s \in Session : \A v \in Value : InSlot(s, v)' => InSlot(s, v)
    BY DEF InSlot
  <1> QED BY <1>1 DEF Inv, SlotInv

LEMMA RestOfType ==
    ASSUME Inv, UNCHANGED <<backend, clock, values>>
    PROVE  backend' \in Backends /\ clock' \in Time /\ values' \in 0 .. MaxValues
  BY DEF Inv, TypeOK

(* A step that ends or moves the call of a thread, and no more. *)
LEMMA OnlyCallInv ==
    ASSUME Inv, NEW t \in Thread, NEW c, GoesOn(t, c), c.pc \notin {"select", "write"},
           lastPurge' \in [Worker -> Time \cup {0}],
           UNCHANGED <<rows, writer, stored, claimed>>
    PROVE  Inv'
  <1> USE DEF rows
  <1>1. Stores(t, c)
    BY DEF Stores
  <1>2. TypeOK'
    BY <1>1, CallKept, RestOfType DEF Inv, TypeOK, GoesOn
  <1>3. SlotInv'
    BY SlotsEmptied DEF Inv, TypeOK
  <1> QED BY <1>1, <1>2, <1>3, CallKept, LockKept, HistoryKept DEF Inv

-----------------------------------------------------------------------------
(* The steps of a call up to its operation. *)

LEMMA BeginInv ==
    ASSUME Inv, NEW t \in Thread, NEW op \in Ops, NEW s \in Session, Begin(t, op, s)
    PROVE  Inv'
  <1> DEFINE value == IF op \in {"set", "append"} THEN values + 1 ELSE None
             c == [pc |-> IF Throttled(t) THEN "operate" ELSE "mark",
                   op |-> op, session |-> s,
                   at |-> IF Throttled(t) THEN None ELSE clock,
                   value |-> value, row |-> None]
  <1>1. TypeOK
    BY DEF Inv
  <1>2. /\ call' = [call EXCEPT ![t] = c]
        /\ values' = IF value = None THEN values ELSE value
        /\ UNCHANGED <<rows, writer, lastPurge, clock, stored, claimed>>
    BY DEF Begin
  <1>3. values \in Nat /\ (op \in {"set", "append"} => values + 1 \in Value)
    BY <1>1 DEF Begin, TypeOK, Value
  <1>4. value \in Value \cup {None} /\ (op \notin {"set", "append"} => values' = values)
        /\ (op \in {"set", "append"} => value = values + 1 /\ values' = values + 1)
    BY <1>2, <1>3
  <1> HIDE DEF value
  <1>5. c \in Call
    BY <1>1, <1>4 DEF TypeOK, Call
  <1>6. call'[t] = c /\ \A u \in Thread \ {t} : call'[u] = call[u]
    BY <1>1, <1>2 DEF TypeOK
  <1>7. /\ c.pc \in {"operate", "mark"} /\ c.op = op /\ c.value = value
        /\ c.pc = "mark" => c.at = clock /\ ~Throttled(t)
    OBVIOUS
  <1> HIDE DEF c
  <1>8. TypeOK'
    <2>1. call' \in [Thread -> Call]
      BY <1>1, <1>2, <1>5 DEF TypeOK
    <2>2. values' \in 0 .. MaxValues
      BY <1>1, <1>3, <1>4 DEF TypeOK, Value
    <2> QED BY <1>1, <1>2, <2>1, <2>2 DEF TypeOK, rows
  <1>9. LockInv'
    BY <1>2, <1>6, <1>7 DEF Inv, LockInv, rows
  <1>10. SweepInv'
    BY <1>1, <1>2, <1>6, <1>7 DEF Inv, SweepInv, Throttled, TypeOK, Time
  <1>11. ValueInv'
    <2>1. values <= values' /\ values' \in Nat /\ \A v \in stored : v \in Nat /\ v <= values
      BY <1>1, <1>3, <1>4 DEF Inv, ValueInv, TypeOK, Value
    <2>2. \A v \in stored' : v <= values'
      BY <1>2, <1>3, <2>1
    <2>3. ASSUME NEW u \in Thread, Carries(u)'
          PROVE  call'[u].value \in 1 .. values' \ stored'
      <3>1. CASE u = t
        BY <1>2, <1>3, <1>4, <1>6, <1>7, <2>1, <2>3, <3>1 DEF Carries
      <3>2. CASE u # t
        <4>1. call[u].value \in 1 .. values \ stored
          BY <1>6, <2>3, <3>2 DEF Carries, Inv, ValueInv
        <4> QED BY <1>2, <1>3, <1>6, <2>1, <3>2, <4>1
      <3> QED BY <3>1, <3>2
    <2>4. ASSUME NEW u \in Thread, NEW z \in Thread, Carries(u)', Carries(z)',
                 call'[u].value = call'[z].value
          PROVE  u = z
      <3>1. \A x \in Thread \ {t} : Carries(x)' =>
                Carries(x) /\ call'[x].value = call[x].value /\ call[x].value \in 1 .. values
        BY <1>6 DEF Carries, Inv, ValueInv
      <3>2. Carries(t)' => call'[t].value = values + 1
        BY <1>4, <1>6, <1>7 DEF Carries
      <3>3. CASE u # t /\ z # t
        BY <2>4, <3>1, <3>3 DEF Inv, ValueInv
      <3>4. CASE u = t \/ z = t
        BY <1>3, <2>4, <3>1, <3>2, <3>4
      <3> QED BY <3>3, <3>4
    <2> QED BY <2>2, <2>3, <2>4 DEF ValueInv
  <1>12. SlotInv'
    BY <1>1, <1>2, SlotsEmptied DEF TypeOK, rows
  <1> QED BY <1>2, <1>8, <1>9, <1>10, <1>11, <1>12, HistoryKept DEF Inv, rows

LEMMA MarkPurgeInv ==
    ASSUME Inv, NEW t \in Thread, MarkPurge(t)
    PROVE  Inv'
  <1> DEFINE c == [call[t] EXCEPT !.pc = "sweep"]
  <1>1. TypeOK /\ call[t] \in Busy /\ call[t].pc = "mark"
    BY BusyCall DEF Inv, MarkPurge, At
  <1>2. c \in Busy /\ c.pc = "sweep" /\ c.op = call[t].op /\ c.value = call[t].value
        /\ c.at = call[t].at
    BY <1>1 DEF Busy
  <1>3. call' = [call EXCEPT ![t] = c]
    BY DEF MarkPurge, Goto
  <1> HIDE DEF c
  <1>4. GoesOn(t, c)
    BY <1>1, <1>2, <1>3, BusyIsCall DEF GoesOn, MarkPurge, rows, history
  <1>5. lastPurge' \in [Worker -> Time \cup {0}]
    BY <1>1 DEF MarkPurge, TypeOK, Inv, SweepInv
  <1> QED BY <1>2, <1>4, <1>5, OnlyCallInv DEF MarkPurge, history

(* A call that ends. *)
LEMMA Returns ==
    ASSUME NEW t \in Thread, Return(t), UNCHANGED <<backend, clock, values>>
    PROVE  GoesOn(t, Idle) /\ Idle.pc = "idle"
  BY BusyIsCall DEF GoesOn, Return, Idle

LEMMA EndsInv ==
    ASSUME Inv, NEW t \in Thread, Return(t),
           UNCHANGED <<rows, writer, lastPurge, clock, history>>
    PROVE  Inv'
  <1>1. GoesOn(t, Idle) /\ Idle.pc = "idle"
    BY Returns DEF rows, history
  <1>2. lastPurge' \in [Worker -> Time \cup {0}]
    BY DEF Inv, TypeOK
  <1> QED BY <1>1, <1>2, OnlyCallInv DEF history

LEMMA BeginImmediateInv ==
    ASSUME Inv, NEW t \in Thread, BeginImmediate(t)
    PROVE  Inv'
  <1> DEFINE c == [call[t] EXCEPT !.pc = "select"]
  <1> USE DEF BeginImmediate, At, rows, history
  <1>1. TypeOK /\ call[t] \in Busy /\ call[t].pc = "operate"
    BY BusyCall DEF Inv
  <1>2. c \in Busy /\ c.pc = "select" /\ c.op = call[t].op /\ c.value = call[t].value
    BY <1>1 DEF Busy
  <1>3. call' = [call EXCEPT ![t] = c]
    BY DEF Goto
  <1> HIDE DEF c
  <1>4. GoesOn(t, c) /\ Stores(t, c)
    BY <1>1, <1>2, <1>3, BusyIsCall DEF GoesOn, Stores
  <1>5. call'[t] = c /\ \A u \in Thread \ {t} : call'[u] = call[u]
    BY <1>4, CallKept
  <1>6. Alone(t)
    BY LockedOut DEF Writable
  <1>7. LockInv'
    BY <1>2, <1>5, <1>6 DEF LockInv, Alone
  <1>8. TypeOK'
    <2>1. call' \in [Thread -> Call]
      BY <1>4, CallKept
    <2>2. backend' = "sqlite" /\ writer' = t
      OBVIOUS
    <2> QED BY <1>1, <2>1, <2>2 DEF TypeOK
  <1>9. SlotInv'
    BY SlotsEmptied DEF Inv, TypeOK
  <1> QED BY <1>4, <1>7, <1>8, <1>9, CallKept, HistoryKept DEF Inv

LEMMA SelectInv ==
    ASSUME Inv, NEW t \in Thread, Select(t)
    PROVE  Inv'
  <1> USE DEF Select, At, rows, history
  <1> DEFINE read == IF call[t].op = "claim" THEN approvals[call[t].session]
                     ELSE sessions[call[t].session]
             c == [call[t] EXCEPT !.pc = "write", !.row = read]
  <1>1. TypeOK /\ call[t] \in Busy /\ call[t].pc = "select" /\ call[t].session \in Session
    BY BusyCall DEF Inv, Busy
  <1>2. read \in Row \cup Messages \cup {None}
    BY <1>1 DEF TypeOK
  <1>3. call' = [call EXCEPT ![t] = c]
    OBVIOUS
  <1>4. /\ c \in Busy /\ c.pc = "write" /\ c.op = call[t].op /\ c.value = call[t].value
        /\ c.session = call[t].session /\ c.row = read
    <2> HIDE DEF read
    <2> QED BY <1>1, <1>2 DEF Busy
  <1> HIDE DEF c
  <1>5. GoesOn(t, c) /\ Stores(t, c)
    BY <1>1, <1>3, <1>4, BusyIsCall DEF GoesOn, Stores
  <1>6. call'[t] = c /\ \A u \in Thread \ {t} : call'[u] = call[u]
    BY <1>5, CallKept
  <1>7. LockInv'
    <2>1. LockInv /\ writer = t /\ backend = "sqlite" /\ call[t].op \in {"claim", "append"}
      BY <1>1 DEF Inv, LockInv
    <2>2. UNCHANGED <<backend, writer, approvals, sessions>>
      OBVIOUS
    <2>3. Alone(t)
      BY <1>1, LockedOut
    <2> HIDE DEF Select
    <2> QED BY <1>4, <1>6, <2>1, <2>2, <2>3 DEF LockInv, Alone
  <1>8. TypeOK'
    BY <1>5, CallKept DEF Inv, TypeOK
  <1>9. SlotInv'
    BY SlotsEmptied DEF Inv, TypeOK
  <1> QED BY <1>5, <1>7, <1>8, <1>9, CallKept, HistoryKept DEF Inv

-----------------------------------------------------------------------------
(* The operations, by what they do to the rows. *)

(* What is left of the type and of the lock when no other thread has a      *)
(* transaction open.                                                        *)
LEMMA AloneInv ==
    ASSUME Inv, NEW t \in Thread, NEW c, GoesOn(t, c), Stores(t, c),
           c.pc \notin {"select", "write"}, Alone(t),
           writer' \in {writer, None}, lastPurge' = lastPurge
    PROVE  /\ LockInv' /\ SweepInv' /\ ValueInv'
           /\ call' \in [Thread -> Call]
           /\ backend' \in Backends /\ clock' \in Time /\ values' \in 0 .. MaxValues
           /\ writer' \in Thread \cup {None} /\ (backend' = "mongodb" => writer' = None)
           /\ lastPurge' \in [Worker -> Time \cup {0}]
  <1>1. LockInv' /\ SweepInv' /\ ValueInv' /\ call' \in [Thread -> Call]
    BY LockKept, CallKept
  <1> QED BY <1>1, RestOfType DEF Inv, TypeOK, GoesOn

(* Approvals are dropped. *)
LEMMA EmptiesInv ==
    ASSUME Inv, NEW t \in Thread, NEW c, GoesOn(t, c), c.pc \notin {"select", "write"},
           Alone(t), writer' \in {writer, None},
           approvals' \in [Session -> Row \cup {None}],
           \A s \in Session : approvals'[s] \in {approvals[s], None},
           UNCHANGED <<sessions, log, lastPurge, stored, claimed>>
    PROVE  Inv'
  <1>1. Stores(t, c)
    BY DEF Stores
  <1>2. TypeOK'
    BY <1>1, AloneInv DEF Inv, TypeOK
  <1> QED BY <1>1, <1>2, AloneInv, SlotsEmptied, HistoryKept DEF Inv

(* The approval of a session is claimed. *)
LEMMA ClaimsInv ==
    ASSUME Inv, NEW t \in Thread, Return(t), Alone(t), writer' \in {writer, None},
           NEW s \in Session, approvals' = [approvals EXCEPT ![s] = None],
           claimed' = Taken(approvals[s]),
           UNCHANGED <<backend, clock, values, sessions, log, lastPurge, stored>>
    PROVE  Inv'
  <1>1. GoesOn(t, Idle) /\ Idle.pc = "idle" /\ Stores(t, Idle)
    BY Returns DEF Stores
  <1>2. TypeOK /\ SlotInv
    BY DEF Inv
  <1>3. /\ approvals'[s] = None /\ \A z \in Session \ {s} : approvals'[z] = approvals[z]
        /\ approvals' \in [Session -> Row \cup {None}]
    BY <1>2 DEF TypeOK
  <1>4. CASE approvals[s] = None
    <2>1. claimed' = claimed
      BY <1>4 DEF Taken
    <2>2. \A z \in Session : approvals'[z] \in {approvals[z], None}
      BY <1>3
    <2> QED BY <1>1, <1>3, <2>1, <2>2, EmptiesInv
  <1>5. CASE approvals[s] # None
    <2>1. PICK v \in Value : v = approvals[s].data /\ v \in stored /\ claimed[v] = 0
      BY <1>2, <1>5 DEF TypeOK, SlotInv, Row
    <2>2. claimed' = [claimed EXCEPT ![v] = 1]
      <3>1. claimed' = [claimed EXCEPT ![v] = claimed[v] + 1]
        BY <1>5, <2>1 DEF Taken
      <3> QED BY <2>1, <3>1
    <2>3. claimed' \in [Value -> Nat] /\ claimed'[v] = 1
          /\ \A u \in Value \ {v} : claimed'[u] = claimed[u]
      BY <1>2, <2>2 DEF TypeOK
    <2>4. {u \in Value : claimed'[u] > 0} \subseteq stored
      BY <1>2, <2>1, <2>3 DEF TypeOK
    <2>5. TypeOK'
      BY <1>1, <1>2, <1>3, <2>3, <2>4, AloneInv DEF TypeOK
    <2>6. ASSUME NEW z \in Session, approvals'[z] # None
          PROVE  approvals'[z].data \in stored' /\ claimed'[approvals'[z].data] = 0
      <3>1. z # s /\ approvals[z] # None /\ approvals'[z] = approvals[z]
        BY <1>3, <2>6
      <3>2. PICK u \in Value : u = approvals[z].data /\ u \in stored /\ claimed[u] = 0
        BY <1>2, <3>1 DEF TypeOK, SlotInv, Row
      <3>3. u # v
        BY <1>2, <1>5, <2>1, <3>1, <3>2 DEF SlotInv, InSlot
      <3> QED BY <2>3, <3>1, <3>2, <3>3
    <2>7. \A x, z \in Session : \A u \in Value : InSlot(x, u)' /\ InSlot(z, u)' => x = z
      BY <1>2, <1>3 DEF SlotInv, InSlot
    <2>8. \A u \in Value : claimed'[u] \in {0, 1}
      BY <1>2, <2>3 DEF SlotInv
    <2>9. SlotInv'
      BY <2>6, <2>7, <2>8 DEF SlotInv
    <2> QED BY <1>1, <2>5, <2>9, AloneInv, HistoryKept DEF Inv
  <1> QED BY <1>4, <1>5

(* A message is appended to what the session has. *)
LEMMA AppendsInv ==
    ASSUME Inv, NEW t \in Thread, Return(t), Alone(t), writer' \in {writer, None},
           call[t].pc # "idle", call[t].op = "append", NEW s \in Session,
           NEW at \in Time,
           sessions' = [sessions EXCEPT ![s] =
                          [messages |-> Last(Append(Recent(s), call[t].value), MaxMessages),
                           updated |-> at]],
           log' = [log EXCEPT ![s] = Append(@, call[t].value)],
           UNCHANGED <<backend, clock, values, approvals, lastPurge, stored, claimed>>
    PROVE  Inv'
  <1>1. GoesOn(t, Idle) /\ Idle.pc = "idle" /\ Stores(t, Idle)
    BY Returns DEF Stores
  <1>2. TypeOK /\ log \in [Session -> Seq(Value)] /\ HistoryIsRecent
    BY DEF Inv
  <1>3. PICK v \in Value : v = call[t].value
    BY <1>2 DEF Inv, ValueInv, Carries, TypeOK, Value
  <1>4. Recent(s) = Last(log[s], MaxMessages) /\ log[s] \in Seq(Value)
    BY <1>2 DEF HistoryIsRecent, Recent
  <1> DEFINE kept == Last(Append(Recent(s), v), MaxMessages)
             row  == [messages |-> kept, updated |-> at]
  <1>5. kept = Last(Append(log[s], v), MaxMessages)
    BY <1>4, LastOfAppend
  <1>6. Append(log[s], v) \in Seq(Value) /\ Len(Append(log[s], v)) \in Nat \ {0}
    BY <1>4
  <1>7. kept \in Seq(Value) /\ Len(kept) \in 1 .. MaxMessages
    <2>1. PICK new \in Seq(Value) : new = Append(log[s], v) /\ Len(new) \in Nat \ {0}
      BY <1>6
    <2>2. kept = Last(new, MaxMessages)
      BY <1>5, <2>1
    <2> HIDE DEF kept
    <2>3. /\ Last(new, MaxMessages) \in Seq(Value)
          /\ Len(Last(new, MaxMessages)) = IF Len(new) <= MaxMessages THEN Len(new)
                                           ELSE MaxMessages
      BY LastProperties
    <2> QED BY <2>1, <2>2, <2>3
  <1>8. log' = [log EXCEPT ![s] = Append(log[s], v)] /\ sessions' = [sessions EXCEPT ![s] = row]
    BY <1>3
  <1> HIDE DEF kept
  <1>9. row \in Messages /\ row # None /\ row.messages = kept
    BY <1>7 DEF Messages
  <1> HIDE DEF row
  <1>10. /\ sessions' \in [Session -> Messages \cup {None}] /\ sessions'[s] = row
         /\ log' \in [Session -> Seq(Value)] /\ log'[s] = Append(log[s], v)
         /\ \A z \in Session \ {s} : sessions'[z] = sessions[z] /\ log'[z] = log[z]
    BY <1>2, <1>6, <1>8, <1>9 DEF TypeOK
  <1>11. TypeOK'
    <2>1. \A z \in Session : sessions'[z] # None => Len(sessions'[z].messages) \in 1 .. MaxMessages
      BY <1>2, <1>7, <1>9, <1>10 DEF TypeOK
    <2> QED BY <1>1, <1>2, <1>10, <2>1, AloneInv DEF TypeOK
  <1>12. HistoryIsRecent'
    <2>1. ASSUME NEW z \in Session
          PROVE  (IF sessions'[z] = None THEN <<>> ELSE sessions'[z].messages)
                   = Last(log'[z], MaxMessages)
      <3>1. CASE z = s
        BY <1>5, <1>9, <1>10, <3>1
      <3>2. CASE z # s
        BY <1>2, <1>10, <3>2 DEF HistoryIsRecent
      <3> QED BY <3>1, <3>2
    <2> QED BY <2>1 DEF HistoryIsRecent
  <1>13. SlotInv'
    BY <1>2, SlotsEmptied DEF TypeOK
  <1> QED BY <1>1, <1>10, <1>11, <1>12, <1>13, AloneInv DEF Inv

-----------------------------------------------------------------------------
(* The operations, one by one. *)

LEMMA SweepStepInv ==
    ASSUME Inv, NEW t \in Thread, Sweep(t)
    PROVE  Inv'
  <1> DEFINE c == [call[t] EXCEPT !.pc = "sweep2"]
  <1>1. TypeOK /\ call[t] \in Busy /\ call[t].pc = "sweep" /\ HistoryIsRecent
    BY BusyCall DEF Inv, Sweep, At
  <1>2. c \in Busy /\ c.pc = "sweep2" /\ c.op = call[t].op /\ c.value = call[t].value
        /\ c.at = call[t].at
    BY <1>1 DEF Busy
  <1>3. call' = [call EXCEPT ![t] = c]
    BY DEF Sweep, Goto
  <1> HIDE DEF c
  <1>4. GoesOn(t, c) /\ Stores(t, c)
    BY <1>1, <1>2, <1>3, BusyIsCall DEF GoesOn, Stores, Sweep, history
  <1>5. Alone(t)
    BY LockedOut DEF Sweep, Writable
  <1>6. \A s \in Session : \/ sessions'[s] = sessions[s] /\ log'[s] = log[s]
                           \/ sessions'[s] = None /\ log'[s] = <<>>
    BY DEF Sweep
  <1>7. sessions' \in [Session -> Messages \cup {None}] /\ log' \in [Session -> Seq(Value)]
    <2>1. <<>> \in Seq(Value) /\ log \in [Session -> Seq(Value)]
      BY DEF Inv
    <2> QED BY <1>1, <2>1 DEF Sweep, TypeOK
  <1>8. TypeOK'
    <2>1. \A s \in Session : sessions'[s] # None => Len(sessions'[s].messages) \in 1 .. MaxMessages
      BY <1>1, <1>6 DEF TypeOK
    <2> QED BY <1>1, <1>2, <1>4, <1>5, <1>7, <2>1, AloneInv DEF Sweep, TypeOK, history
  <1>9. HistoryIsRecent'
    <2>1. Last(<<>>, MaxMessages) = <<>>
      BY DEF Last
    <2>2. ASSUME NEW s \in Session
          PROVE  (IF sessions'[s] = None THEN <<>> ELSE sessions'[s].messages)
                   = Last(log'[s], MaxMessages)
      <3>1. CASE sessions'[s] = sessions[s] /\ log'[s] = log[s]
        BY <1>1, <3>1 DEF HistoryIsRecent
      <3>2. CASE sessions'[s] = None /\ log'[s] = <<>>
        BY <2>1, <3>2
      <3> QED BY <1>6, <3>1, <3>2
    <2> QED BY <2>2 DEF HistoryIsRecent
  <1>10. SlotInv'
    BY <1>1, SlotsEmptied DEF TypeOK, Sweep, history
  <1> QED BY <1>2, <1>4, <1>5, <1>7, <1>8, <1>9, <1>10, AloneInv DEF Inv, Sweep

LEMMA SweepApprovalsInv ==
    ASSUME Inv, NEW t \in Thread, SweepApprovals(t)
    PROVE  Inv'
  <1> DEFINE c == [call[t] EXCEPT !.pc = "operate", !.at = None]
  <1>1. TypeOK /\ call[t] \in Busy /\ call[t].pc = "sweep2"
    BY BusyCall DEF Inv, SweepApprovals, At
  <1>2. c \in Busy /\ c.pc = "operate" /\ c.op = call[t].op /\ c.value = call[t].value
    BY <1>1 DEF Busy
  <1>3. call' = [call EXCEPT ![t] = c]
    BY <1>1 DEF SweepApprovals, TypeOK
  <1> HIDE DEF c
  <1>4. GoesOn(t, c)
    BY <1>1, <1>2, <1>3, BusyIsCall DEF GoesOn, SweepApprovals, history
  <1>5. Alone(t)
    BY LockedOut DEF SweepApprovals, Writable
  <1>6. /\ approvals' \in [Session -> Row \cup {None}]
        /\ \A s \in Session : approvals'[s] \in {approvals[s], None}
    BY <1>1 DEF SweepApprovals, TypeOK
  <1> QED BY <1>2, <1>4, <1>5, <1>6, EmptiesInv DEF SweepApprovals, history

(* set_approval puts a value of its own in the place of the old one. *)
LEMMA StampInv ==
    ASSUME Inv, NEW t \in Thread, Stamp(t)
    PROVE  Inv'
  <1> DEFINE c == [call[t] EXCEPT !.pc = "send", !.at = clock]
  <1>1. TypeOK /\ call[t] \in Busy /\ clock \in Time
    BY BusyCall DEF Inv, TypeOK, Stamp, At
  <1>2. c \in Busy /\ c.pc = "send" /\ c.op = call[t].op /\ c.value = call[t].value
        /\ c.at = clock
    BY <1>1 DEF Busy
  <1>3. call' = [call EXCEPT ![t] = c] /\ call[t].pc = "operate"
    BY DEF Stamp, At
  <1> HIDE DEF c
  <1>4. GoesOn(t, c)
    BY <1>1, <1>2, <1>3, BusyIsCall DEF GoesOn, Stamp, rows, history
  <1>5. lastPurge' \in [Worker -> Time \cup {0}]
    BY <1>1 DEF Stamp, TypeOK
  <1> QED BY <1>2, <1>4, <1>5, OnlyCallInv DEF Stamp, history

LEMMA SetInv ==
    ASSUME Inv, NEW t \in Thread, Set(t)
    PROVE  Inv'
  <1>1. /\ TypeOK /\ call[t] \in Busy /\ call[t].pc = "send" /\ call[t].op = "set"
        /\ call[t].at \in Time
    BY BusyCall DEF Inv, Set, At, SweepInv
  <1>2. PICK s \in Session : s = call[t].session
    BY <1>1 DEF Busy
  <1>3. PICK v \in Value : v = call[t].value /\ v \notin stored
    BY <1>1 DEF Inv, ValueInv, Carries, TypeOK, Value
  <1> DEFINE row == [data |-> v, updated |-> call[t].at]
  <1>4. row \in Row /\ row # None /\ row.data = v
    BY <1>1 DEF Row
  <1>5. approvals' = [approvals EXCEPT ![s] = row] /\ stored' = stored \cup {v}
    BY <1>2, <1>3 DEF Set
  <1> HIDE DEF row
  <1>6. GoesOn(t, Idle) /\ Idle.pc = "idle" /\ Stores(t, Idle)
    BY <1>1, <1>3, <1>5, Returns DEF Stores, Carries, Set
  <1>7. Alone(t)
    BY LockedOut DEF Set, Writable
  <1>8. /\ approvals' \in [Session -> Row \cup {None}] /\ approvals'[s] = row
        /\ \A z \in Session \ {s} : approvals'[z] = approvals[z]
    BY <1>1, <1>4, <1>5 DEF TypeOK
  <1>9. TypeOK'
    BY <1>1, <1>5, <1>6, <1>7, <1>8, AloneInv DEF Set, TypeOK
  <1>10. claimed[v] = 0
    BY <1>1, <1>3 DEF TypeOK
  <1>11. SlotInv'
    <2>1. \A z \in Session : approvals'[z] # None =>
             approvals'[z].data \in stored' /\ claimed'[approvals'[z].data] = 0
      BY <1>4, <1>5, <1>8, <1>10 DEF Set, Inv, SlotInv
    <2>2. \A z \in Session \ {s} : ~InSlot(z, v)'
      BY <1>3, <1>8 DEF InSlot, Inv, SlotInv
    <2>3. \A u \in Value : InSlot(s, u)' => u = v
      BY <1>4, <1>8 DEF InSlot
    <2>4. \A z \in Session \ {s} : \A u \in Value : InSlot(z, u)' => InSlot(z, u)
      BY <1>8 DEF InSlot
    <2>5. \A x, z \in Session : \A u \in Value : InSlot(x, u)' /\ InSlot(z, u)' => x = z
      BY <2>2, <2>3, <2>4 DEF Inv, SlotInv
    <2> QED BY <2>1, <2>5 DEF Set, Inv, SlotInv
  <1> QED BY <1>6, <1>7, <1>9, <1>11, AloneInv, HistoryKept DEF Inv, Set

LEMMA PopInv ==
    ASSUME Inv, NEW t \in Thread, Pop(t)
    PROVE  Inv'
  <1>1. GoesOn(t, Idle) /\ Idle.pc = "idle" /\ Alone(t)
    BY Returns, LockedOut DEF Pop, Writable, history
  <1>2. /\ approvals' \in [Session -> Row \cup {None}]
        /\ \A s \in Session : approvals'[s] \in {approvals[s], None}
    BY DEF Pop, Inv, TypeOK
  <1> QED BY <1>1, <1>2, EmptiesInv DEF Pop, history

LEMMA ClaimReplyLostInv ==
    ASSUME Inv, NEW t \in Thread, ClaimReplyLost(t)
    PROVE  Inv'
  <1>1. GoesOn(t, Idle) /\ Idle.pc = "idle" /\ Alone(t)
    BY Returns, LockedOut DEF ClaimReplyLost, history
  <1>2. /\ approvals' \in [Session -> Row \cup {None}]
        /\ \A s \in Session : approvals'[s] \in {approvals[s], None}
    BY DEF ClaimReplyLost, Inv, TypeOK
  <1> QED BY <1>1, <1>2, EmptiesInv DEF ClaimReplyLost, history

LEMMA ClaimDocumentInv ==
    ASSUME Inv, NEW t \in Thread, ClaimDocument(t)
    PROVE  Inv'
  <1>1. call[t] \in Busy /\ Alone(t)
    BY BusyCall, LockedOut DEF Inv, ClaimDocument, At
  <1>2. PICK s \in Session : s = call[t].session
    BY <1>1 DEF Busy
  <1> QED BY <1>1, <1>2, ClaimsInv DEF ClaimDocument

(* The row that the transaction has read is still there. *)
LEMMA CommitClaimInv ==
    ASSUME Inv, NEW t \in Thread, CommitClaim(t)
    PROVE  Inv'
  <1>1. call[t] \in Busy /\ Alone(t)
    BY BusyCall, LockedOut DEF Inv, CommitClaim, At
  <1>2. PICK s \in Session : s = call[t].session
    BY <1>1 DEF Busy
  <1>3. call[t].row = approvals[s]
    BY <1>2 DEF Inv, LockInv, CommitClaim, At
  <1>4. claimed' = Taken(approvals[s])
    BY <1>3 DEF CommitClaim
  <1> QED BY <1>1, <1>2, <1>4, ClaimsInv DEF CommitClaim, Release

LEMMA PushMessageInv ==
    ASSUME Inv, NEW t \in Thread, PushMessage(t)
    PROVE  Inv'
  <1>1. /\ call[t] \in Busy /\ Alone(t) /\ call[t].pc = "send"
        /\ call[t].at \in Time
    BY BusyCall, LockedOut DEF Inv, PushMessage, At, SweepInv
  <1>2. PICK s \in Session : s = call[t].session
    BY <1>1 DEF Busy
  <1> QED BY <1>1, <1>2, AppendsInv DEF PushMessage, Recent, history

LEMMA CommitAppendInv ==
    ASSUME Inv, NEW t \in Thread, CommitAppend(t)
    PROVE  Inv'
  <1>1. call[t] \in Busy /\ Alone(t) /\ call[t].pc = "write" /\ call[t].op = "append"
    BY BusyCall, LockedOut DEF Inv, CommitAppend, At
  <1>2. PICK s \in Session : s = call[t].session
    BY <1>1 DEF Busy
  <1>3. call[t].row = sessions[s]
    BY <1>1, <1>2 DEF Inv, LockInv
  <1>4. clock \in Time
    BY DEF Inv, TypeOK
  <1> QED BY <1>1, <1>2, <1>3, <1>4, AppendsInv DEF CommitAppend, Release, Recent, history

-----------------------------------------------------------------------------
LEMMA TickInv == Inv /\ Tick => Inv'
  <1> SUFFICES ASSUME Inv, Tick PROVE Inv'
    OBVIOUS
  <1> USE DEF Tick, rows, history
  <1>1. TypeOK'
    BY DEF Inv, TypeOK, Time
  <1>2. LockInv' /\ ValueInv'
    BY DEF Inv, LockInv, ValueInv, Carries
  <1>3. SweepInv'
    BY DEF Inv, SweepInv, TypeOK, Time
  <1>4. SlotInv' /\ HistoryIsRecent'
    BY DEF Inv, SlotInv, InSlot, HistoryIsRecent
  <1> QED BY <1>1, <1>2, <1>3, <1>4 DEF Inv

(* The calls of a dead worker are gone, with the lock one of them had.      *)
LEMMA RestartInv ==
    ASSUME Inv, NEW w \in Worker, Restart(w)
    PROVE  Inv'
  <1> USE DEF Restart, rows, history
  <1>1. TypeOK'
    <2>1. call' \in [Thread -> Call]
      BY BusyIsCall DEF Inv, TypeOK
    <2> QED BY <2>1 DEF Inv, TypeOK
  <1>2. \A t \in Thread : \/ call'[t] = Idle
                          \/ Home[t] # w /\ call'[t] = call[t]
    OBVIOUS
  <1>3. Idle.pc = "idle"
    BY DEF Idle
  <1>4. LockInv'
    BY <1>2, <1>3 DEF Inv, LockInv
  <1>5. SweepInv'
    BY <1>2, <1>3 DEF Inv, SweepInv
  <1>6. ValueInv'
    BY <1>2, <1>3 DEF Inv, ValueInv, Carries
  <1>7. SlotInv' /\ HistoryIsRecent'
    BY DEF Inv, SlotInv, InSlot, HistoryIsRecent
  <1> QED BY <1>1, <1>4, <1>5, <1>6, <1>7 DEF Inv

LEMMA InitInv == Init => Inv
  <1> SUFFICES ASSUME Init PROVE Inv
    OBVIOUS
  <1> USE DEF Init
  <1>1. Earlier \in Seq(Value) /\ Len(Earlier) = Kept
    BY DEF Earlier, Value
  <1>2. Start \in Time
    BY DEF Time
  <1>3. TypeOK
    BY <1>1, <1>2, BusyIsCall DEF TypeOK, Messages
  <1>4. LockInv /\ SweepInv /\ ValueInv
    BY DEF LockInv, SweepInv, ValueInv, Carries, Idle
  <1>5. SlotInv
    BY DEF SlotInv, InSlot
  <1>6. HistoryIsRecent
    BY <1>1, <1>3 DEF HistoryIsRecent, Last, TypeOK, Messages
  <1> QED BY <1>1, <1>3, <1>4, <1>5, <1>6 DEF Inv

LEMMA NextInv == Inv /\ [Next]_vars => Inv'
  <1> SUFFICES ASSUME Inv, [Next]_vars PROVE Inv'
    OBVIOUS
  <1>1. CASE UNCHANGED vars
    <2> USE <1>1 DEF vars
    <2>1. TypeOK' /\ (log \in [Session -> Seq(Value)])'
      BY DEF Inv, TypeOK
    <2>2. LockInv' /\ SweepInv' /\ ValueInv'
      BY DEF Inv, LockInv, SweepInv, ValueInv, Carries
    <2>3. SlotInv' /\ HistoryIsRecent'
      BY DEF Inv, SlotInv, InSlot, HistoryIsRecent
    <2> QED BY <2>1, <2>2, <2>3 DEF Inv
  <1>2. ASSUME NEW t \in Thread, ThreadStep(t)
        PROVE  Inv'
    <2>1. CASE Get(t)
      BY <2>1, EndsInv DEF Get
    <2> QED
      BY <1>2, <2>1, MarkPurgeInv, SweepStepInv, SweepApprovalsInv, StampInv, SetInv, PopInv,
         BeginImmediateInv, SelectInv, CommitClaimInv, CommitAppendInv,
         ClaimDocumentInv, PushMessageInv, ClaimReplyLostInv DEF ThreadStep
  <1>3. ASSUME NEW t \in Thread, BusyTimeout(t) \/ Unreachable(t)
        PROVE  Inv'
    BY <1>3, EndsInv DEF BusyTimeout, Unreachable
  <1> QED BY <1>1, <1>2, <1>3, TickInv, BeginInv, RestartInv DEF Next

(* Rows, transactions and calls have their types: what a session has is     *)
(* never an empty row nor one longer than MAX_MEMORY_MESSAGES.              *)
THEOREM StoreTypeCorrect == Spec => []TypeOK
  <1>1. Inv => TypeOK
    BY DEF Inv
  <1> QED BY <1>1, InitInv, NextInv, PTL DEF Spec

(* append_message loses no message of another worker and keeps none twice:  *)
(* the row of a session is always the end of all that was appended.         *)
THEOREM StoreKeepsHistory == Spec => []HistoryIsRecent
  <1>1. Inv => HistoryIsRecent
    BY DEF Inv
  <1> QED BY <1>1, InitInv, NextInv, PTL DEF Spec

-----------------------------------------------------------------------------
(* Who deletes an approval. *)

LEMMA SweptIsOld ==
    ASSUME Inv, NEW t \in Thread, SweepApprovals(t), NEW s \in Session,
           approvals[s] # None, approvals'[s] = None
    PROVE  Ttl > 0 /\ clock - approvals[s].updated > Ttl
  <1>1. call[t].at \in Time /\ call[t].at <= clock /\ Ttl > 0
    BY DEF Inv, SweepInv, SweepApprovals, At
  <1>2. Expired(approvals[s], call[t].at)
    BY DEF SweepApprovals
  <1>3. approvals[s].updated \in Nat /\ clock \in Nat /\ call[t].at \in Nat /\ Ttl \in Nat
    BY <1>1 DEF Inv, TypeOK, Row, Time
  <1> QED BY <1>1, <1>2, <1>3 DEF Expired

Deleted(s) ==
    \/ Ttl > 0 /\ clock - approvals[s].updated > Ttl
    \/ \E t \in Thread : /\ call[t].pc \in {"operate", "write"}
                          /\ call[t].op \in {"pop", "claim"}
                          /\ call[t].session = s

LEMMA DeletedOnPurpose ==
    ASSUME Inv, [Next]_vars, NEW s \in Session, approvals[s] # None, approvals'[s] = None
    PROVE  Deleted(s)
  <1>1. approvals' # approvals /\ approvals \in [Session -> Row \cup {None}]
    BY DEF Inv, TypeOK
  <1>2. PICK t \in Thread : ThreadStep(t)
    <2>1. ~ UNCHANGED vars /\ ~Tick
      BY <1>1 DEF vars, Tick, rows
    <2>2. \A w \in Worker : ~Restart(w)
      BY <1>1 DEF Restart, rows
    <2>3. \A t \in Thread, op \in Ops, z \in Session : ~Begin(t, op, z)
      BY <1>1 DEF Begin, rows
    <2>4. \A t \in Thread : ~BusyTimeout(t) /\ ~Unreachable(t)
      BY <1>1 DEF BusyTimeout, Unreachable, rows
    <2> QED BY <2>1, <2>2, <2>3, <2>4 DEF Next
  <1>3. CASE SweepApprovals(t)
    BY <1>3, SweptIsOld DEF Deleted
  <1>4. CASE Pop(t) \/ ClaimDocument(t) \/ ClaimReplyLost(t)
    <2>1. /\ call[t].pc = "operate" /\ call[t].op \in {"pop", "claim"}
          /\ approvals' = [approvals EXCEPT ![call[t].session] = None]
      BY <1>4 DEF Pop, ClaimDocument, ClaimReplyLost, At
    <2>2. call[t].session = s
      BY <1>1, <2>1
    <2> QED BY <2>1, <2>2 DEF Deleted
  <1>5. CASE CommitClaim(t)
    <2>1. /\ call[t].pc = "write" /\ call[t].op = "claim"
          /\ approvals' = [approvals EXCEPT ![call[t].session] = None]
      BY <1>5 DEF CommitClaim, At
    <2>2. call[t].session = s
      BY <1>1, <2>1
    <2> QED BY <2>1, <2>2 DEF Deleted
  <1>6. CASE Set(t)
    <2>1. PICK row : /\ row = [data |-> call[t].value, updated |-> call[t].at]
                     /\ approvals' = [approvals EXCEPT ![call[t].session] = row]
      BY <1>6 DEF Set
    <2>2. row = None
      BY <1>1, <2>1
    <2>3. call[t].value \in Value /\ call[t].at \in Time
      BY <1>6 DEF Inv, ValueInv, SweepInv, Carries, TypeOK, Value, Set, At
    <2>4. row \in Row
      BY <2>1, <2>3 DEF Row
    <2> QED BY <2>2, <2>4
  <1>7. CASE \/ MarkPurge(t) \/ Sweep(t) \/ Get(t) \/ Stamp(t) \/ BeginImmediate(t) \/ Select(t)
             \/ CommitAppend(t) \/ PushMessage(t)
    BY <1>1, <1>7 DEF MarkPurge, Sweep, Get, Stamp, BeginImmediate, Select, CommitAppend,
                      PushMessage, rows
  <1> QED BY <1>2, <1>3, <1>4, <1>5, <1>6, <1>7 DEF ThreadStep

(* A worker's sweep is decided with a time it has read before, and booked    *)
(* before it is done; whatever other workers store meanwhile, it deletes     *)
(* only what is older than the TTL at the moment of the deletion.            *)
THEOREM StoreSparesTheFresh == Spec => FreshSurvives
  <1>1. Inv /\ [Next]_vars =>
           [\A s \in Session : approvals[s] # None /\ approvals'[s] = None => Deleted(s)]_vars
    BY DeletedOnPurpose
  <1> QED BY <1>1, InitInv, NextInv, PTL DEF Spec, FreshSurvives, Deleted

-----------------------------------------------------------------------------
(* The refinement.  What a step does to the life of the approvals: some are *)
(* dropped, or one is stored, or one is claimed.                            *)

Drops ==
    /\ UNCHANGED <<stored, claimed>>
    /\ approvals' \in [Session -> Row \cup {None}]
    /\ \A s \in Session : approvals'[s] \in {approvals[s], None}

Puts(s, v) ==
    /\ v \notin stored
    /\ stored' = stored \cup {v}
    /\ claimed' = claimed
    /\ approvals'[s] # None /\ approvals'[s].data = v
    /\ \A z \in Session \ {s} : approvals'[z] = approvals[z]

Takes(s) ==
    /\ approvals[s] # None
    /\ stored' = stored
    /\ claimed' = [claimed EXCEPT ![approvals[s].data] = @ + 1]
    /\ approvals'[s] = None
    /\ \A z \in Session \ {s} : approvals'[z] = approvals[z]

LEMMA ClaimIsTaken ==
    ASSUME Inv, NEW s \in Session, approvals' = [approvals EXCEPT ![s] = None],
           claimed' = Taken(approvals[s]), stored' = stored
    PROVE  Drops \/ Takes(s)
  <1>1. approvals \in [Session -> Row \cup {None}]
    BY DEF Inv, TypeOK
  <1>2. CASE approvals[s] = None
    BY <1>1, <1>2 DEF Taken, Drops
  <1>3. CASE approvals[s] # None
    BY <1>1, <1>3 DEF Taken, Takes
  <1> QED BY <1>2, <1>3

LEMMA NextKind ==
    ASSUME Inv, [Next]_vars
    PROVE  Drops \/ \E s \in Session : Takes(s) \/ \E v \in Value : Puts(s, v)
  <1>1. TypeOK
    BY DEF Inv
  <1>2. CASE UNCHANGED <<approvals, stored, claimed>>
    BY <1>1, <1>2 DEF Drops, TypeOK
  <1>3. ASSUME NEW t \in Thread, ThreadStep(t)
        PROVE  Drops \/ \E s \in Session : Takes(s) \/ \E v \in Value : Puts(s, v)
    <2>1. CASE \/ MarkPurge(t) \/ Sweep(t) \/ Get(t) \/ Stamp(t) \/ BeginImmediate(t) \/ Select(t)
               \/ CommitAppend(t) \/ PushMessage(t)
      BY <1>2, <2>1 DEF MarkPurge, Sweep, Get, Stamp, BeginImmediate, Select, CommitAppend,
                        PushMessage, rows, history
    <2>2. CASE SweepApprovals(t)
      BY <1>1, <2>2 DEF SweepApprovals, Drops, TypeOK, history
    <2>3. CASE Pop(t) \/ ClaimReplyLost(t)
      BY <1>1, <2>3 DEF Pop, ClaimReplyLost, Drops, TypeOK, history
    <2>4. CASE ClaimDocument(t) \/ CommitClaim(t)
      <3>1. call[t] \in Busy /\ (CommitClaim(t) => call[t].pc = "write" /\ call[t].op = "claim")
        BY <1>1, <2>4, BusyCall DEF ClaimDocument, CommitClaim, At
      <3>2. PICK s \in Session : s = call[t].session
        BY <3>1 DEF Busy
      <3>3. CommitClaim(t) => call[t].row = approvals[s]
        BY <3>1, <3>2 DEF Inv, LockInv
      <3>4. /\ approvals' = [approvals EXCEPT ![s] = None]
            /\ claimed' = Taken(approvals[s])
            /\ stored' = stored
        BY <2>4, <3>2, <3>3 DEF ClaimDocument, CommitClaim
      <3> QED BY <3>4, ClaimIsTaken
    <2>5. CASE Set(t)
      <3>1. /\ call[t] \in Busy /\ call[t].pc = "send" /\ call[t].op = "set"
            /\ call[t].at \in Time
        BY <1>1, <2>5, BusyCall DEF Inv, SweepInv, Set, At
      <3>2. PICK s \in Session : s = call[t].session
        BY <3>1 DEF Busy
      <3>3. PICK v \in Value : v = call[t].value /\ v \notin stored
        BY <1>1, <3>1 DEF Inv, ValueInv, Carries, TypeOK, Value
      <3>4. PICK row \in Row : row.data = v /\ approvals' = [approvals EXCEPT ![s] = row]
        BY <3>1, <2>5, <3>2, <3>3 DEF Set, Row
      <3>5. stored' = stored \cup {v} /\ claimed' = claimed
        BY <2>5, <3>3 DEF Set
      <3>6. Puts(s, v)
        BY <1>1, <3>3, <3>4, <3>5 DEF Puts, TypeOK
      <3> QED BY <3>6
    <2> QED BY <1>3, <2>1, <2>2, <2>3, <2>4, <2>5 DEF ThreadStep
  <1>4. CASE UNCHANGED vars \/ Tick \/ \E w \in Worker : Restart(w)
    BY <1>2, <1>4 DEF vars, Tick, Restart, rows, history
  <1>5. CASE \E t \in Thread : BusyTimeout(t) \/ Unreachable(t)
    BY <1>2, <1>5 DEF BusyTimeout, Unreachable, rows, history
  <1>6. CASE \E t \in Thread, op \in Ops, s \in Session : Begin(t, op, s)
    BY <1>2, <1>6 DEF Begin, rows
  <1> QED BY <1>3, <1>4, <1>5, <1>6 DEF Next

(* The life of approval v; ReviewStatus is this, for all approvals. *)
StatusOf(v) ==
    IF claimed[v] > 1 THEN "claimed twice"
    ELSE IF claimed[v] = 1 THEN "claimed"
    ELSE IF \E s \in Session : InSlot(s, v) THEN "pending"
    ELSE IF v \in stored THEN "dropped" ELSE "unsubmitted"

LEMMA StatusFunction == ReviewStatus = [v \in Value |-> StatusOf(v)]
BY DEF ReviewStatus, StatusOf, InSlot

LEMMA SlotStatus ==
    ASSUME Inv, NEW v \in Value
    PROVE  /\ claimed[v] = 0 \/ claimed[v] = 1
           /\ v \notin stored => StatusOf(v) = "unsubmitted"
           /\ \A s \in Session : InSlot(s, v) =>
                 /\ StatusOf(v) = "pending" /\ v \in stored /\ claimed[v] = 0
                 /\ \A z \in Session \ {s} : ~InSlot(z, v)
  <1>1. claimed[v] = 0 \/ claimed[v] = 1
    BY DEF Inv, SlotInv
  <1>2. ASSUME NEW s \in Session, InSlot(s, v)
        PROVE  /\ StatusOf(v) = "pending" /\ v \in stored /\ claimed[v] = 0
               /\ \A z \in Session \ {s} : ~InSlot(z, v)
    <2>1. v \in stored /\ claimed[v] = 0 /\ \A z \in Session \ {s} : ~InSlot(z, v)
      BY <1>2 DEF Inv, SlotInv, InSlot
    <2> QED BY <1>2, <2>1 DEF StatusOf
  <1>3. v \notin stored => claimed[v] = 0 /\ \A s \in Session : ~InSlot(s, v)
    BY <1>1, <1>2 DEF Inv, TypeOK
  <1> QED BY <1>1, <1>2, <1>3 DEF StatusOf

Same(v) == StatusOf(v)' = StatusOf(v)

LEMMA DropsRefines ==
    ASSUME Inv, Drops, NEW v \in Value
    PROVE  Same(v) \/ (StatusOf(v) = "pending" /\ StatusOf(v)' = "dropped")
  <1>1. claimed' = claimed /\ stored' = stored /\ (claimed[v] = 0 \/ claimed[v] = 1)
    BY SlotStatus DEF Drops
  <1>2. \A s \in Session : InSlot(s, v)' => InSlot(s, v)
    BY DEF Drops, InSlot
  <1>3. CASE \E s \in Session : InSlot(s, v)'
    BY <1>1, <1>2, <1>3 DEF Same, StatusOf
  <1>4. CASE ~ \E s \in Session : InSlot(s, v)
    BY <1>1, <1>2, <1>4 DEF Same, StatusOf
  <1>5. CASE (\E s \in Session : InSlot(s, v)) /\ ~ \E s \in Session : InSlot(s, v)'
    <2>1. StatusOf(v) = "pending" /\ v \in stored /\ claimed[v] = 0
      BY <1>5, SlotStatus
    <2> QED BY <1>1, <1>5, <2>1 DEF StatusOf
  <1> QED BY <1>3, <1>4, <1>5

LEMMA TakesRefines ==
    ASSUME Inv, NEW s \in Session, Takes(s)
    PROVE  \E o \in Value : /\ StatusOf(o) = "pending" /\ StatusOf(o)' = "claimed"
                            /\ \A v \in Value \ {o} : Same(v)
  <1>1. PICK o \in Value : o = approvals[s].data
    BY DEF Inv, TypeOK, Row, Takes
  <1>2. InSlot(s, o) /\ StatusOf(o) = "pending" /\ claimed[o] = 0
    BY <1>1, SlotStatus DEF InSlot, Takes
  <1>3. claimed \in [Value -> Nat] /\ claimed' = [claimed EXCEPT ![o] = claimed[o] + 1]
    BY <1>1 DEF Takes, Inv, TypeOK
  <1>4. claimed'[o] = 1 /\ \A v \in Value \ {o} : claimed'[v] = claimed[v]
    BY <1>2, <1>3
  <1>5. StatusOf(o)' = "claimed"
    BY <1>4 DEF StatusOf
  <1>6. ASSUME NEW v \in Value \ {o}
        PROVE  Same(v)
    <2>1. \A z \in Session : InSlot(z, v)' = InSlot(z, v)
      BY <1>1 DEF InSlot, Takes
    <2> QED BY <1>4, <2>1 DEF Same, StatusOf, Takes
  <1> QED BY <1>2, <1>5, <1>6

LEMMA PutsRefines ==
    ASSUME Inv, NEW s \in Session, NEW v \in Value, Puts(s, v)
    PROVE  /\ StatusOf(v) = "unsubmitted" /\ StatusOf(v)' = "pending"
           /\ \/ \A u \in Value \ {v} : Same(u)
              \/ \E o \in Value \ {v} :
                   /\ StatusOf(o) = "pending" /\ StatusOf(o)' = "dropped"
                   /\ \A u \in Value \ {o, v} : Same(u)
  <1>1. StatusOf(v) = "unsubmitted" /\ claimed[v] = 0
    BY SlotStatus DEF Puts, Inv, TypeOK
  <1>2. StatusOf(v)' = "pending"
    <2>1. InSlot(s, v)' /\ claimed'[v] = 0
      BY <1>1 DEF InSlot, Puts
    <2> QED BY <2>1 DEF StatusOf
  <1>3. ASSUME NEW u \in Value \ {v}
        PROVE  /\ claimed'[u] = claimed[u] /\ (u \in stored' <=> u \in stored)
               /\ ~InSlot(s, u)'
               /\ \A z \in Session \ {s} : InSlot(z, u)' = InSlot(z, u)
    BY DEF Puts, InSlot
  <1>4. ASSUME NEW u \in Value \ {v}, ~InSlot(s, u)
        PROVE  Same(u)
    BY <1>3, <1>4 DEF Same, StatusOf
  <1>5. CASE approvals[s] = None
    BY <1>1, <1>2, <1>4, <1>5 DEF InSlot
  <1>6. CASE approvals[s] # None
    <2>1. PICK o \in Value : o = approvals[s].data
      BY <1>6 DEF Inv, TypeOK, Row
    <2>2. InSlot(s, o)
      BY <1>6, <2>1 DEF InSlot
    <2>3. /\ StatusOf(o) = "pending" /\ o \in stored /\ claimed[o] = 0 /\ o # v
          /\ \A z \in Session \ {s} : ~InSlot(z, o)
      BY <1>1, <2>2, SlotStatus
    <2>4. StatusOf(o)' = "dropped"
      BY <1>3, <2>3 DEF StatusOf
    <2>5. \A u \in Value \ {o, v} : Same(u)
      BY <1>4, <2>1 DEF InSlot
    <2> QED BY <1>1, <1>2, <2>3, <2>4, <2>5
  <1> QED BY <1>5, <1>6

LEMMA InitRefines == Init => Contract!Init
  <1> SUFFICES ASSUME Init PROVE Contract!Init
    OBVIOUS
  <1>1. Inv
    BY InitInv
  <1>2. \A v \in Value : StatusOf(v) = "unsubmitted"
    BY <1>1, SlotStatus DEF Init
  <1> QED BY <1>2, StatusFunction DEF Contract!Init

LEMMA NextRefines ==
    ASSUME Inv, [Next]_vars
    PROVE  [Contract!Next]_ReviewStatus
  <1>1. /\ ReviewStatus = [v \in Value |-> StatusOf(v)]
        /\ ReviewStatus' = [v \in Value |-> StatusOf(v)']
    <2>1. (ReviewStatus = [v \in Value |-> StatusOf(v)])'
      BY StatusFunction, PTL
    <2> QED BY <2>1, StatusFunction
  <1>2. CASE Drops
    <2> DEFINE old == {v \in Value : StatusOf(v) = "pending" /\ StatusOf(v)' = "dropped"}
    <2>1. ReviewStatus' = [v \in Value |-> IF v \in old THEN "dropped" ELSE ReviewStatus[v]]
      <3>1. \A v \in Value : StatusOf(v)' = IF v \in old THEN "dropped" ELSE StatusOf(v)
        BY <1>2, DropsRefines DEF Same
      <3> QED BY <1>1, <3>1
    <2>2. \A v \in old : ReviewStatus[v] = "pending"
      BY <1>1
    <2>3. old \in SUBSET Value
      OBVIOUS
    <2> HIDE DEF old
    <2>4. Contract!Drop(old)
      BY <2>1, <2>2 DEF Contract!Drop
    <2> QED BY <2>3, <2>4 DEF Contract!Next
  <1>3. ASSUME NEW s \in Session, Takes(s)
        PROVE  Contract!Next
    <2>1. PICK o \in Value : /\ StatusOf(o) = "pending" /\ StatusOf(o)' = "claimed"
                             /\ \A v \in Value \ {o} : Same(v)
      BY <1>3, TakesRefines
    <2>2. Contract!Claim(o)
      BY <1>1, <2>1 DEF Contract!Claim, Same
    <2> QED BY <2>2 DEF Contract!Next
  <1>4. ASSUME NEW s \in Session, NEW v \in Value, Puts(s, v)
        PROVE  Contract!Next
    <2>1. StatusOf(v) = "unsubmitted" /\ StatusOf(v)' = "pending"
      BY <1>4, PutsRefines
    <2>2. CASE \A u \in Value \ {v} : Same(u)
      <3>1. Contract!Submit(v)
        BY <1>1, <2>1, <2>2 DEF Contract!Submit, Same
      <3> QED BY <3>1 DEF Contract!Next
    <2>3. ASSUME NEW o \in Value \ {v},
                 StatusOf(o) = "pending", StatusOf(o)' = "dropped",
                 \A u \in Value \ {o, v} : Same(u)
          PROVE  Contract!Next
      <3>1. Contract!Supersede(v, o)
        BY <1>1, <2>1, <2>3 DEF Contract!Supersede, Same
      <3> QED BY <3>1 DEF Contract!Next
    <2> QED BY <1>4, <2>2, <2>3, PutsRefines
  <1> QED BY <1>2, <1>3, <1>4, NextKind

(* claim_approval of any number of workers, over SQLite transactions or      *)
(* MongoDB operations, with sweeps, decisions, crashes and lost replies in   *)
(* between, implements the take-once contract: an approval leaves the slot   *)
(* once, and is returned by a claim at most once.                            *)
THEOREM StoreTakesOnce == Spec => TakeOnce
  <1>1. Inv /\ [Next]_vars => [Contract!Next]_ReviewStatus
    BY NextRefines
  <1> QED
    BY <1>1, InitRefines, InitInv, NextInv, PTL DEF Spec, TakeOnce, Contract!Spec
=============================================================================

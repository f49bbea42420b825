--------------------------- MODULE ToolLoopProofs ---------------------------
(***************************************************************************)
(* The safety of ToolLoop for any databases, calls, replies and bounds: an *)
(* inductive invariant, kept by every action.                              *)
(*                                                                         *)
(* Its core is where a call may be that has not run: among those still to  *)
(* be acted on, or in the ticket, never in both, and under an id that no   *)
(* executed query has.  A query in flight is that of the call at the head  *)
(* of the batch, and it is executed, if at all, by the step that answers   *)
(* the call and takes it off the batch.                                    *)
(***************************************************************************)
EXTENDS ToolLoop, TLAPS

(* Where the query of a call may run. *)
Target(call) == IF call.args = None THEN {Default} ELSE Within[call.args]

ToolTypeOK ==
    /\ http \in [Run -> Request \cup {None}]
    /\ executed \in [Run -> Seq(Program)]
    /\ tool \in [Run -> Dispatch(Call) \cup {None}]
    /\ (tool[Self] # None) <=> (http[Self] # None)

(* The dispatch under way is that of the call at the head, reviewed if it   *)
(* has to be, and what it sends is the query of that call.                  *)
Awaits(call) ==
    /\ tool[Self].call = call
    /\ tool[Self].database # None => tool[Self].database \in Target(call)
    /\ http[Self].path \in {"schema", "metadata", "fields"} => tool[Self].database # None
    /\ http[Self].path \in Queries =>
          /\ http[Self].program \in Program
          /\ http[Self].program.call = call
          /\ http[Self].program.database \in Target(call)

WaitInv == tool[Self] # None => Awaits(Head(batch))

ReviewInv ==
    /\ ticket # None => ticket.call \in reviewed
    /\ pc = "resume" => Head(batch) \in reviewed
    /\ pc = "dispatch" => (Head(batch).tool = "run_sql" => Head(batch) \in reviewed)

(* Calls that have been made, but whose query has not run. *)
Unrun(call) ==
    /\ call.id <= calls
    /\ \A k \in DOMAIN executed[Self] : executed[Self][k].call.id # call.id

FreshInv ==
    /\ \A i \in DOMAIN batch : Unrun(batch[i])
    /\ \A i, j \in DOMAIN batch : batch[i].id = batch[j].id => i = j
    /\ ticket # None => Unrun(ticket.call)
    /\ ticket # None => \A i \in DOMAIN batch : batch[i].id # ticket.call.id
    /\ \A k \in DOMAIN executed[Self] : executed[Self][k].call.id \in 1 .. calls

RoundInv == Completing => round < MaxIterations

SeenInv == \A c \in dispatched : Signature(c) \in seen

RunsInv == ReviewedFirst /\ QueriedOnce /\ RunsWhereAsked

Inv ==
    /\ TypeOK /\ WaitInv /\ ReviewInv /\ FreshInv /\ RoundInv /\ SeenInv
    /\ RunsInv /\ DispatchedOnce

-----------------------------------------------------------------------------
(* The conversation.  A reply is followed by the answers to its calls; in   *)
(* the one place where some are missing, the last reply, just the calls     *)
(* still to be acted on have none, or just the one that waits for approval. *)
(* The order of the answers is not that of the calls: those behind run_sql  *)
(* are deferred, and it is answered after them, when the loop is resumed.   *)

Ids(open) == {open[k].id : k \in DOMAIN open}

Made(reply) == {reply[k] : k \in DOMAIN reply}

(* The answers at the n positions behind position i. *)
Given(conversation, i, n) ==
    {conversation[j].id :
        j \in {k \in i + 1 .. Len(conversation) :
                  k <= i + n /\ conversation[k].role = "tool"}}

Whole(conversation, i) ==
    /\ i + Len(conversation[i].calls) <= Len(conversation)
    /\ AnswersFollow(conversation, i)

Lacks(conversation, i, open) ==
    LET reply == conversation[i].calls IN
    /\ i + Len(reply) = Len(conversation) + Len(open)
    /\ Given(conversation, i, Len(reply)) \cup Ids(open) = Made(reply)

AnsweredUpTo(conversation, open) ==
    \A i \in DOMAIN conversation :
        conversation[i].role = "assistant" =>
            Whole(conversation, i) \/ Lacks(conversation, i, open)

ConversationInv ==
    /\ AnsweredUpTo(messages, batch)
    /\ ticket # None => AnsweredUpTo(ticket.messages, <<ticket.call>>)

LEMMA RepliesHaveCalls ==
    ASSUME NEW m \in Message, m.role = "assistant"
    PROVE  m.calls \in Seq(CallId) /\ Len(m.calls) \in Nat
  BY DEF Message, Text

LEMMA FollowMeans ==
    ASSUME NEW c, NEW i
    PROVE  AnswersFollow(c, i) <=> Given(c, i, Len(c[i].calls)) = Made(c[i].calls)
  BY DEF AnswersFollow, Given, Made

(* What comes behind the answers to a reply does not disturb them. *)
LEMMA WholeStays ==
    ASSUME NEW c \in Seq(Message), NEW d \in Seq(Message), Len(c) <= Len(d),
           \A j \in 1 .. Len(c) : d[j] = c[j],
           NEW i \in DOMAIN c, c[i].role = "assistant", Whole(c, i)
    PROVE  Whole(d, i)
  <1>1. /\ DOMAIN c = 1 .. Len(c) /\ Len(c) \in Nat
        /\ DOMAIN d = 1 .. Len(d) /\ Len(d) \in Nat
        /\ i \in 1 .. Len(c) /\ c[i] \in Message /\ d[i] = c[i]
    OBVIOUS
  <1> DEFINE n == Len(c[i].calls)
  <1>2. n \in Nat /\ i + n <= Len(c)
    BY <1>1, RepliesHaveCalls DEF Whole
  <1>3. Given(c, i, n) = Made(c[i].calls)
    BY FollowMeans DEF Whole
  <1> HIDE DEF n
  <1>4. Given(d, i, n) = Given(c, i, n)
    <2>1. \A j : j \in i + 1 .. Len(c) /\ j <= i + n <=> j \in i + 1 .. Len(d) /\ j <= i + n
      BY <1>1, <1>2
    <2>2. \A j \in i + 1 .. Len(c) : d[j] = c[j]
      BY <1>1
    <2> QED BY <2>1, <2>2 DEF Given
  <1>5. AnswersFollow(d, i)
    BY <1>1, <1>3, <1>4, FollowMeans DEF n
  <1> QED BY <1>1, <1>2, <1>5 DEF Whole, n

(* A reply that lacks nothing is whole. *)
LEMMA LacksNothing ==
    ASSUME NEW c \in Seq(Message), NEW i \in DOMAIN c, c[i].role = "assistant",
           Lacks(c, i, <<>>)
    PROVE  Whole(c, i)
  <1>1. Ids(<<>>) = {} /\ Len(<<>>) = 0
    BY DEF Ids
  <1>2. Len(c[i].calls) \in Nat /\ Len(c) \in Nat /\ i \in Nat
    <2>1. c[i] \in Message
      OBVIOUS
    <2> QED BY <2>1, RepliesHaveCalls
  <1>3. i + Len(c[i].calls) = Len(c)
    BY <1>1, <1>2 DEF Lacks
  <1>4. Given(c, i, Len(c[i].calls)) = Made(c[i].calls)
    <2> DEFINE given == Given(c, i, Len(c[i].calls))
    <2>1. given \cup {} = Made(c[i].calls)
      BY <1>1 DEF Lacks
    <2> HIDE DEF given
    <2>2. given = given \cup {}
      OBVIOUS
    <2> QED BY <2>1, <2>2 DEF given
  <1> QED BY <1>2, <1>3, <1>4, FollowMeans DEF Whole

(* The answers are to all of the open calls but those left. *)
Closes(answers, open, left) ==
    /\ \A k \in DOMAIN answers : answers[k].role = "tool"
    /\ Len(answers) + Len(left) = Len(open)
    /\ {answers[k].id : k \in DOMAIN answers} \cup Ids(left) = Ids(open)

LEMMA AnswersClose ==
    ASSUME NEW c \in Seq(Message), NEW answers \in Seq(Message),
           NEW open \in Seq(Call), NEW left \in Seq(Call),
           Closes(answers, open, left), AnsweredUpTo(c, open)
    PROVE  AnsweredUpTo(c \o answers, left)
  <1> DEFINE d == c \o answers
  <1>1. /\ d \in Seq(Message) /\ Len(d) = Len(c) + Len(answers)
        /\ Len(c) \in Nat /\ Len(answers) \in Nat /\ Len(d) \in Nat
        /\ Len(open) \in Nat /\ Len(left) \in Nat
        /\ DOMAIN c = 1 .. Len(c) /\ DOMAIN d = 1 .. Len(d)
        /\ DOMAIN answers = 1 .. Len(answers)
    OBVIOUS
  <1>2. /\ \A j \in 1 .. Len(c) : d[j] = c[j]
        /\ \A k \in 1 .. Len(answers) : d[Len(c) + k] = answers[k]
    OBVIOUS
  <1> HIDE DEF d
  <1>3. ASSUME NEW j \in Len(c) + 1 .. Len(d)
        PROVE  \E k \in 1 .. Len(answers) : d[j] = answers[k]
    <2>1. j - Len(c) \in 1 .. Len(answers) /\ Len(c) + (j - Len(c)) = j
      BY <1>1
    <2>2. d[Len(c) + (j - Len(c))] = answers[j - Len(c)]
      BY <1>2, <2>1
    <2> QED BY <2>1, <2>2
  <1> SUFFICES ASSUME NEW i \in DOMAIN d, d[i].role = "assistant"
               PROVE  Whole(d, i) \/ Lacks(d, i, left)
    BY DEF AnsweredUpTo, d
  <1>4. i \in 1 .. Len(c) /\ d[i] = c[i]
    <2>1. CASE i <= Len(c)
      BY <1>1, <1>2, <2>1
    <2>2. CASE i > Len(c)
      <3>1. PICK k \in 1 .. Len(answers) : d[i] = answers[k]
        BY <1>1, <1>3, <2>2
      <3> QED BY <1>1, <3>1 DEF Closes
    <2> QED BY <1>1, <2>1, <2>2
  <1>5. CASE Whole(c, i)
    <2>1. i \in DOMAIN c /\ c[i].role = "assistant" /\ Len(c) <= Len(d)
      BY <1>1, <1>4
    <2> QED BY <1>1, <1>2, <1>5, <2>1, WholeStays
  <1>6. CASE Lacks(c, i, open)
    <2> DEFINE n == Len(c[i].calls)
    <2>1. n \in Nat
      <3>1. c[i] \in Message
        BY <1>1, <1>4
      <3> QED BY <1>4, <3>1, RepliesHaveCalls
    <2>2. i + n = Len(c) + Len(open)
      BY <1>6 DEF Lacks
    <2>5. Given(c, i, n) \cup Ids(open) = Made(c[i].calls)
      BY <1>6 DEF Lacks
    <2> HIDE DEF n
    <2>6. Len(d) + Len(left) = Len(c) + Len(open)
      <3>1. Len(answers) + Len(left) = Len(open)
        BY DEF Closes
      <3>2. Len(d) + Len(left) = Len(c) + (Len(answers) + Len(left))
        BY <1>1
      <3> QED BY <3>1, <3>2, Zenon
    <2>3. i + n = Len(d) + Len(left)
      BY <2>2, <2>6, Zenon
    <2>4. Given(d, i, n) = Given(c, i, n) \cup {answers[k].id : k \in DOMAIN answers}
      <3>1. \A j \in i + 1 .. Len(d) : j <= i + n
        BY <1>1, <1>4, <2>1, <2>3
      <3>2. ASSUME NEW j \in i + 1 .. Len(d), d[j].role = "tool"
            PROVE  d[j].id \in Given(c, i, n) \cup {answers[k].id : k \in DOMAIN answers}
        <4>1. CASE j <= Len(c)
          <5>1. j \in i + 1 .. Len(c) /\ j <= i + n /\ d[j] = c[j]
            BY <1>1, <1>2, <1>4, <3>1, <4>1
          <5> QED BY <3>2, <5>1 DEF Given
        <4>2. CASE j > Len(c)
          <5>0. j \in Len(c) + 1 .. Len(d)
            BY <1>1, <1>4, <4>2
          <5>1. PICK k \in 1 .. Len(answers) : d[j] = answers[k]
            BY <1>3, <5>0
          <5> QED BY <1>1, <5>1
        <4> QED BY <1>1, <1>4, <4>1, <4>2
      <3>3. ASSUME NEW j \in i + 1 .. Len(c), c[j].role = "tool"
            PROVE  c[j].id \in Given(d, i, n)
        <4>1. j \in i + 1 .. Len(d) /\ j <= i + n /\ d[j] = c[j]
          BY <1>1, <1>2, <1>4, <3>1
        <4> QED BY <3>3, <4>1 DEF Given
      <3>4. ASSUME NEW k \in DOMAIN answers PROVE answers[k].id \in Given(d, i, n)
        <4>1. Len(c) + k \in i + 1 .. Len(d) /\ d[Len(c) + k] = answers[k]
          BY <1>1, <1>2, <1>4
        <4>2. Len(c) + k <= i + n
          BY <3>1, <4>1
        <4>3. d[Len(c) + k].role = "tool"
          BY <4>1 DEF Closes
        <4> QED BY <4>1, <4>2, <4>3 DEF Given
      <3>5. Given(d, i, n) \subseteq Given(c, i, n) \cup {answers[k].id : k \in DOMAIN answers}
        BY <3>2 DEF Given
      <3>6. Given(c, i, n) \subseteq Given(d, i, n)
        BY <3>3 DEF Given
      <3>7. {answers[k].id : k \in DOMAIN answers} \subseteq Given(d, i, n)
        BY <3>4
      <3> QED BY <3>5, <3>6, <3>7
    <2>7. Given(d, i, n) \cup Ids(left) = Made(d[i].calls)
      BY <1>4, <2>4, <2>5, Zenon DEF Closes
    <2> QED BY <1>4, <2>3, <2>7 DEF Lacks, n
  <1> QED BY <1>1, <1>4, <1>5, <1>6 DEF AnsweredUpTo

-----------------------------------------------------------------------------
USE DatabaseNames, ClientParameters, LlmParameters, Bounds, QueriesArePrograms,
    NoneIsNothing

-----------------------------------------------------------------------------
(* The dispatches. *)

LEMMA DispatchBegins ==
    ASSUME TypeOK, tool[Self] = None, NEW call \in Call, Dispatches(Self, call)
    PROVE  /\ ToolTypeOK'
           /\ executed' = executed
           /\ tool'[Self] # None => Awaits(call)'
  <1>1. http[Self] = None
    BY DEF TypeOK
  <1>2. CASE DispatchesAtOnce(call)
    BY <1>1, <1>2 DEF DispatchesAtOnce, toolVars, TypeOK, ClientTypeOK, ToolTypeOK
  <1>3. CASE DispatchesSql(Self, call)
    <2>1. Query("dataset", Ran(call, Default)) \in Request
      BY DEF Query, Request, Path, Queries
    <2>2. [call |-> call, schema |-> FALSE, database |-> None] \in Dispatch(Call)
      BY DEF Dispatch
    <2>3. ToolTypeOK'
      BY <1>3, <2>1, <2>2 DEF DispatchesSql, TypeOK, ClientTypeOK, ToolTypeOK
    <2>4. Awaits(call)'
      BY <1>3 DEF DispatchesSql, TypeOK, ClientTypeOK, Awaits, Query, Ran, Target, Queries
    <2> QED BY <1>3, <2>3, <2>4 DEF DispatchesSql
  <1>4. CASE DispatchesLookup(Self, call)
    <2>1. PICK schema \in BOOLEAN :
             tool' = [tool EXCEPT ![Self] = [call |-> call, schema |-> schema,
                                             database |-> None]]
      BY <1>4 DEF DispatchesLookup
    <2>2. [call |-> call, schema |-> schema, database |-> None] \in Dispatch(Call)
      BY DEF Dispatch
    <2>3. Read("databases") \in Request
      BY DEF Read, Request, Path, Reads
    <2>4. ToolTypeOK'
      BY <1>4, <2>1, <2>2, <2>3 DEF DispatchesLookup, TypeOK, ClientTypeOK, ToolTypeOK
    <2>5. Awaits(call)'
      BY <1>4, <2>1 DEF DispatchesLookup, TypeOK, ClientTypeOK, Awaits, Read, Queries
    <2> QED BY <1>4, <2>4, <2>5 DEF DispatchesLookup
  <1> QED BY <1>2, <1>3, <1>4 DEF Dispatches

(* What Metabase has executed by the time it answers: at most the query in  *)
(* flight.                                                                  *)
Executes ==
    /\ executed' \in [Run -> Seq(Program)]
    /\ \/ executed' = executed
       \/ /\ http[Self].path \in Queries
          /\ executed'[Self] = Append(executed[Self], http[Self].program)

LEMMA AtMostInFlight ==
    ASSUME TypeOK, WaitInv, tool[Self] # None, NEW reply, MetabaseActs(Self, reply)
    PROVE  Executes
  <1>1. http[Self].path \in Queries => http[Self].program \in Program
    BY DEF WaitInv, Awaits
  <1> DEFINE ran == [executed EXCEPT ![Self] = Append(@, http[Self].program)]
  <1>2. executed' = executed \/ (http[Self].path \in Queries /\ executed' = ran)
    BY DEF MetabaseActs
  <1>3. CASE executed' = executed
    BY <1>3 DEF Executes, TypeOK, ClientTypeOK
  <1>4. CASE http[Self].path \in Queries /\ executed' = ran
    <2>1. Append(executed[Self], http[Self].program) \in Seq(Program)
      BY <1>1, <1>4 DEF TypeOK, ClientTypeOK
    <2> QED BY <1>4, <2>1 DEF Executes, TypeOK, ClientTypeOK
  <1> QED BY <1>2, <1>3, <1>4

(* The dispatch waits for the reply to its next request, or has returned.   *)
GoesOn ==
    /\ ToolTypeOK'
    /\ executed' = executed
    /\ tool'[Self] # None
    /\ tool'[Self].call = tool[Self].call
    /\ Awaits(tool[Self].call)'

IsBack ==
    /\ ToolTypeOK'
    /\ Executes
    /\ tool'[Self] = None

LEMMA GoesOnWith ==
    ASSUME TypeOK, executed' = executed,
           NEW request \in Request, http' = [http EXCEPT ![Self] = request],
           tool' \in [Run -> Dispatch(Call) \cup {None}], tool'[Self] # None,
           tool'[Self].call = tool[Self].call,
           tool'[Self].database # None => tool'[Self].database \in Target(tool[Self].call),
           request.path \in {"schema", "metadata", "fields"} => tool'[Self].database # None,
           request.path \in Queries =>
               /\ request.program \in Program
               /\ request.program.call = tool[Self].call
               /\ request.program.database \in Target(tool[Self].call)
    PROVE  GoesOn
  <1>1. /\ http' \in [Run -> Request \cup {None}]
        /\ http'[Self] = request
        /\ http'[Self] # None
    BY DEF TypeOK, ClientTypeOK
  <1>2. ToolTypeOK'
    BY <1>1 DEF ToolTypeOK, TypeOK, ClientTypeOK
  <1>3. Awaits(tool[Self].call)'
    BY <1>1 DEF Awaits, Target
  <1> QED BY <1>2, <1>3 DEF GoesOn

LEMMA IsBackWhenReturned ==
    ASSUME TypeOK, Executes, Returns(Self)
    PROVE  IsBack
  BY DEF TypeOK, ClientTypeOK, Executes, Returns, IsBack, ToolTypeOK

(* The next request of the same dispatch, whose database stays. *)
LEMMA SendsNext ==
    ASSUME TypeOK, WaitInv, tool[Self] # None, executed' = executed,
           NEW request \in Request, Sends(Self, request),
           request.path \in {"schema", "metadata", "fields"} => tool[Self].database # None,
           request.path \in Queries =>
               /\ request.program \in Program
               /\ request.program.call = tool[Self].call
               /\ request.program.database \in Target(tool[Self].call)
    PROVE  GoesOn
  <1>1. Awaits(tool[Self].call)
    BY DEF WaitInv, Awaits
  <1> QED BY <1>1, GoesOnWith DEF Sends, Awaits, TypeOK

LEMMA ReadsAreRequests ==
    ASSUME NEW path \in Reads
    PROVE  Read(path) \in Request /\ Read(path).path = path
  BY DEF Read, Request, Path

LEMMA QueriesAreRequests ==
    ASSUME NEW path \in Queries, NEW p \in Program
    PROVE  Query(path, p) \in Request /\ Query(path, p).path = path /\ Query(path, p).program = p
  BY DEF Query, Request, Path

LEMMA FoundIsTarget ==
    ASSUME NEW listed \in SUBSET Database, NEW name \in Name \cup {None},
           NEW found \in FindDatabase(listed, name), found # None
    PROVE  name # None /\ found \in Within[name] /\ found \in Database
  BY DEF FindDatabase

(* A reply that is not that of a query leaves what has run as it is. *)
LEMMA ReadsExecuteNothing ==
    ASSUME NEW reply, MetabaseActs(Self, reply), http[Self].path \notin Queries
    PROVE  executed' = executed
  BY DEF MetabaseActs

LEMMA GotDatabasesStep ==
    ASSUME TypeOK, WaitInv, tool[Self] # None, NEW reply \in HttpReply,
           GotDatabases(Self, reply)
    PROVE  GoesOn \/ IsBack
  <1> DEFINE call == tool[Self].call
  <1>1. MetabaseActs(Self, reply) /\ http[Self].path = "databases"
    BY DEF GotDatabases, Answers, Waits
  <1>2. executed' = executed
    BY <1>1, ReadsExecuteNothing DEF Queries
  <1>3. Executes
    BY <1>1, AtMostInFlight
  <1>4. tool[Self] \in Dispatch(Call) /\ call \in Call /\ call.args \in Name \cup {None}
    BY DEF TypeOK, Dispatch, Call
  <1>5. CASE Returns(Self)
    BY <1>3, <1>5, IsBackWhenReturned
  <1>6. ASSUME NEW listed \in SUBSET Database, NEW found \in FindDatabase(listed, call.args),
               found # None, call.tool = "run_sql",
               Sends(Self, Query("dataset", Ran(call, found)))
        PROVE  GoesOn
    <2>1. found \in Database /\ found \in Target(call)
      BY <1>4, <1>6, FoundIsTarget DEF Target
    <2>2. Ran(call, found) \in Program
      BY <1>4, <2>1
    <2>3. /\ Query("dataset", Ran(call, found)) \in Request
          /\ Query("dataset", Ran(call, found)).path = "dataset"
          /\ Query("dataset", Ran(call, found)).program = Ran(call, found)
      BY <2>2, QueriesAreRequests DEF Queries
    <2>4. Ran(call, found).call = call /\ Ran(call, found).database = found
      BY DEF Ran
    <2> HIDE DEF call
    <2> QED BY <1>2, <1>6, <2>1, <2>2, <2>3, <2>4, SendsNext DEF call
  <1>7. ASSUME NEW listed \in SUBSET Database, NEW found \in FindDatabase(listed, call.args),
               found # None,
               tool' = [tool EXCEPT ![Self].database = found],
               http' = [http EXCEPT ![Self] =
                          Read(IF tool[Self].schema THEN "schema" ELSE "metadata")]
        PROVE  GoesOn
    <2>1. found \in Database /\ found \in Target(call)
      BY <1>4, <1>7, FoundIsTarget DEF Target
    <2> DEFINE path == IF tool[Self].schema THEN "schema" ELSE "metadata"
    <2>2. path \in Reads /\ path \notin Queries
      BY DEF Reads, Queries
    <2>3. Read(path) \in Request /\ Read(path).path = path
      BY <2>2, ReadsAreRequests
    <2>4. /\ tool'[Self] \in Dispatch(Call)
          /\ tool'[Self].call = call
          /\ tool'[Self].database = found
      BY <1>4, <1>7, <2>1 DEF Dispatch, TypeOK
    <2>5. tool' \in [Run -> Dispatch(Call) \cup {None}] /\ tool'[Self] # None
      BY <1>7, <2>4 DEF TypeOK
    <2>6. http' = [http EXCEPT ![Self] = Read(path)]
      BY <1>7
    <2> HIDE DEF path
    <2> QED BY <1>2, <1>7, <2>1, <2>2, <2>3, <2>4, <2>5, <2>6, GoesOnWith
  <1> QED BY <1>5, <1>6, <1>7 DEF GotDatabases

(* A read of the metadata is followed by another, or by nothing. *)
LEMMA ReadsNext ==
    ASSUME TypeOK, WaitInv, tool[Self] # None, executed' = executed,
           http[Self].path \in {"schema", "metadata", "fields"},
           NEW path \in {"metadata", "fields"}, Sends(Self, Read(path))
    PROVE  GoesOn
  <1>1. Read(path) \in Request /\ Read(path).path = path /\ path \notin Queries
    BY ReadsAreRequests DEF Reads, Queries
  <1>2. tool[Self].database # None
    BY DEF WaitInv, Awaits
  <1> QED BY <1>1, <1>2, SendsNext

LEMMA MetadataStep ==
    ASSUME TypeOK, WaitInv, tool[Self] # None, NEW reply \in HttpReply,
           GotSchema(Self, reply) \/ GotMetadata(Self, reply)
    PROVE  GoesOn \/ IsBack
  <1>1. MetabaseActs(Self, reply) /\ http[Self].path \in {"schema", "metadata"}
    BY DEF GotSchema, GotMetadata, Answers, Waits
  <1>2. executed' = executed
    BY <1>1, ReadsExecuteNothing DEF Queries
  <1>3. Returns(Self) \/ \E path \in {"metadata", "fields"} : Sends(Self, Read(path))
    BY DEF GotSchema, GotMetadata, GotTables
  <1>4. CASE Returns(Self)
    BY <1>1, <1>4, AtMostInFlight, IsBackWhenReturned
  <1>5. CASE \E path \in {"metadata", "fields"} : Sends(Self, Read(path))
    BY <1>1, <1>2, <1>5, ReadsNext
  <1> QED BY <1>3, <1>4, <1>5

LEMMA GotFieldsStep ==
    ASSUME TypeOK, WaitInv, tool[Self] # None, NEW reply \in HttpReply,
           GotFields(Self, reply)
    PROVE  GoesOn \/ IsBack
  <1> DEFINE call == tool[Self].call
             program == Ran(call, tool[Self].database)
  <1>1. MetabaseActs(Self, reply) /\ http[Self].path = "fields"
    BY DEF GotFields, Answers, Waits
  <1>2. executed' = executed
    BY <1>1, ReadsExecuteNothing DEF Queries
  <1>3. CASE Returns(Self)
    BY <1>1, <1>3, AtMostInFlight, IsBackWhenReturned
  <1>4. CASE Sends(Self, Query("query", program))
    <2>1. /\ tool[Self].database \in Database \cap Target(call)
          /\ tool[Self].database # None
          /\ call \in Call
      BY <1>1 DEF WaitInv, Awaits, TypeOK, Dispatch
    <2>2. program \in Program
      BY <2>1
    <2>3. /\ Query("query", program) \in Request
          /\ Query("query", program).path = "query"
          /\ Query("query", program).program = program
      BY <2>2, QueriesAreRequests DEF Queries
    <2>4. program.call = call /\ program.database = tool[Self].database
      BY DEF Ran
    <2> HIDE DEF program
    <2> QED BY <1>2, <1>4, <2>1, <2>2, <2>3, <2>4, SendsNext
  <1> QED BY <1>3, <1>4 DEF GotFields

(* A refused query has not run, and is sent once more. *)
LEMMA GotResultStep ==
    ASSUME TypeOK, WaitInv, tool[Self] # None, NEW reply \in HttpReply,
           GotResult(Self, reply)
    PROVE  GoesOn \/ IsBack
  <1> DEFINE program == http[Self].program
  <1>1. MetabaseActs(Self, reply) /\ http[Self].path = "query"
    BY DEF GotResult, Answers, Waits
  <1>2. CASE Returns(Self)
    BY <1>1, <1>2, AtMostInFlight, IsBackWhenReturned
  <1>3. CASE FallsBack(reply) /\ Sends(Self, Query("dataset", program))
    <2>1. executed' = executed
      BY <1>1, <1>3 DEF MetabaseActs, FallsBack
    <2>2. /\ program \in Program
          /\ program.call = tool[Self].call
          /\ program.database \in Target(tool[Self].call)
      BY <1>1 DEF WaitInv, Awaits, Queries
    <2>3. /\ Query("dataset", program) \in Request
          /\ Query("dataset", program).path = "dataset"
          /\ Query("dataset", program).program = program
      BY <2>2, QueriesAreRequests DEF Queries
    <2> HIDE DEF program
    <2> QED BY <1>3, <2>1, <2>2, <2>3, SendsNext
  <1> QED BY <1>2, <1>3 DEF GotResult

LEMMA GotRowsStep ==
    ASSUME TypeOK, WaitInv, tool[Self] # None, NEW reply \in HttpReply,
           GotRows(Self, reply)
    PROVE  IsBack
  BY AtMostInFlight, IsBackWhenReturned DEF GotRows, Answers

LEMMA RetryStep ==
    ASSUME TypeOK, WaitInv, tool[Self] # None, Retry(Self), UNCHANGED tool
    PROVE  GoesOn
  <1> DEFINE request == [http[Self] EXCEPT !.attempt = @ + 1]
  <1>1. /\ http[Self] \in Request
        /\ http[Self].path \in Reads
        /\ http[Self].attempt < MaxRetries
    BY DEF Retry, Retries, Retryable, TypeOK, ClientTypeOK
  <1>2. executed' = executed
    BY <1>1, ReadsExecuteNothing DEF Retry, Reads, Queries
  <1>3. request \in Request /\ request.path = http[Self].path
    BY <1>1 DEF Request
  <1>4. http' = [http EXCEPT ![Self] = request]
    BY DEF Retry
  <1>5. request.path \notin Queries
    BY <1>1, <1>3 DEF Reads, Queries
  <1> HIDE DEF request
  <1> QED BY <1>2, <1>3, <1>4, <1>5, SendsNext DEF Sends, WaitInv, Awaits

LEMMA ToolSteps ==
    ASSUME TypeOK, WaitInv, tool[Self] # None, ToolStep(Self)
    PROVE  GoesOn \/ IsBack
  BY GotDatabasesStep, MetadataStep, GotFieldsStep, GotResultStep, GotRowsStep,
     RetryStep DEF ToolStep

-----------------------------------------------------------------------------
(* What the steps of the loop do to the calls that have not run. *)

LEMMA AnswersHead ==
    ASSUME TypeOK, batch # <<>>, Answered
    PROVE  /\ messages' \in Seq(Message)
           /\ batch' \in Seq(Call) /\ Len(batch') <= MaxBatch
           /\ pc' \in {"act", "complete"}
           /\ pc' = "act" <=> batch' # <<>>
           /\ \A i \in DOMAIN batch' : i + 1 \in DOMAIN batch /\ batch'[i] = batch[i + 1]
  <1>1. Head(batch) \in Call /\ Tail(batch) \in Seq(Call) /\ Len(Tail(batch)) = Len(batch) - 1
    BY DEF TypeOK
  <1>2. Answer(Head(batch).id) \in Message
    BY <1>1 DEF Answer, Message, Call
  <1>3. Append(messages, Answer(Head(batch).id)) \in Seq(Message)
    BY <1>2 DEF TypeOK
  <1>4. \A i \in DOMAIN Tail(batch) : i + 1 \in DOMAIN batch /\ Tail(batch)[i] = batch[i + 1]
    BY DEF TypeOK
  <1> QED BY <1>1, <1>3, <1>4 DEF Answered, TypeOK

LEMMA RepliesAreCalls ==
    ASSUME TypeOK, NEW reply \in Replies, calls + Len(reply) <= MaxCalls
    PROVE  /\ reply \in Seq(Call)
           /\ Len(reply) \in 1 .. MaxBatch
           /\ \A i \in DOMAIN reply : reply[i].id = calls + i
  <1> DEFINE numbered(n, made) ==
        [i \in 1 .. n |-> [id |-> calls + i, tool |-> made[i][1], args |-> made[i][2]]]
  <1> DEFINE OfLength(n) == {numbered(n, made) : made \in [1 .. n -> Offers]}
  <1>a. Replies = UNION {OfLength(n) : n \in 1 .. MaxBatch}
    BY DEF Replies
  <1>b. PICK n \in 1 .. MaxBatch : reply \in OfLength(n)
    <2> HIDE DEF OfLength
    <2> QED BY <1>a
  <1>0. \E made \in [1 .. n -> Offers] : reply = numbered(n, made)
    <2> HIDE DEF numbered
    <2> QED BY <1>b
  <1>1. PICK made \in [1 .. n -> Offers] : reply = numbered(n, made)
    BY <1>0
  <1>2. Len(reply) = n /\ DOMAIN reply = 1 .. n
    BY <1>1
  <1>3. ASSUME NEW i \in 1 .. n
        PROVE  reply[i] \in Call /\ reply[i].id = calls + i
    <2>1. made[i] \in Tool \X (Name \cup {None})
      BY <1>3
    <2>2. calls + i \in CallId
      BY <1>2, <1>3 DEF TypeOK, CallId
    <2> QED BY <1>1, <1>3, <2>1, <2>2 DEF Call
  <1> QED BY <1>1, <1>2, <1>3

(* The properties of what has run speak only of what has run. *)
LEMMA RunsKept ==
    ASSUME RunsInv, executed' = executed, reviewed \subseteq reviewed'
    PROVE  RunsInv'
  BY DEF RunsInv, ReviewedFirst, QueriedOnce, RunsWhereAsked, ExecutedQueries

(* The query in flight is the first one of its call, which was reviewed.    *)
LEMMA RunsOnce ==
    ASSUME Inv, tool[Self] # None, Executes, reviewed' = reviewed
    PROVE  RunsInv'
  <1>1. CASE executed' = executed
    BY <1>1, RunsKept DEF Inv
  <1>2. CASE /\ http[Self].path \in Queries
             /\ executed'[Self] = Append(executed[Self], http[Self].program)
    <2> DEFINE p == http[Self].program
               before == executed[Self]
    <2>1. p \in Program /\ p.call = Head(batch) /\ p.database \in Target(p.call)
      BY <1>2 DEF Inv, WaitInv, Awaits, TypeOK
    <2>2. pc = "dispatch" /\ batch # <<>> /\ batch \in Seq(Call)
      BY DEF Inv, TypeOK
    <2>3. 1 \in DOMAIN batch /\ Head(batch) = batch[1]
      BY <2>2
    <2>4. Unrun(p.call)
      BY <2>1, <2>3 DEF Inv, FreshInv
    <2>5. p.call.tool = "run_sql" => p.call \in reviewed
      BY <2>1, <2>2 DEF Inv, ReviewInv
    <2>6. /\ before \in Seq(Program)
          /\ DOMAIN executed'[Self] = DOMAIN before \cup {Len(before) + 1}
          /\ executed'[Self][Len(before) + 1] = p
          /\ \A k \in DOMAIN before : executed'[Self][k] = before[k]
      BY <1>2, <2>1 DEF Inv, TypeOK, ClientTypeOK
    <2> HIDE DEF p, before
    <2>7. ReviewedFirst'
      BY <2>5, <2>6 DEF Inv, RunsInv, ReviewedFirst, ExecutedQueries, before
    <2>8. RunsWhereAsked'
      BY <2>1, <2>6 DEF Inv, RunsInv, RunsWhereAsked, ExecutedQueries, Target, before
    <2>9. QueriedOnce'
      BY <2>4, <2>6 DEF Inv, RunsInv, QueriedOnce, Unrun, before
    <2> QED BY <2>7, <2>8, <2>9 DEF RunsInv
  <1> QED BY <1>1, <1>2 DEF Executes

LEMMA OthersStayUnrun ==
    ASSUME Inv, tool[Self] # None, Executes, calls' = calls
    PROVE  /\ \A call : Unrun(call) /\ call.id # Head(batch).id => Unrun(call)'
           /\ \A k \in DOMAIN executed'[Self] : executed'[Self][k].call.id \in 1 .. calls
  <1>1. CASE executed' = executed
    BY <1>1 DEF Inv, FreshInv, Unrun
  <1>2. CASE /\ http[Self].path \in Queries
             /\ executed'[Self] = Append(executed[Self], http[Self].program)
    <2> DEFINE p == http[Self].program
               before == executed[Self]
    <2>1. p \in Program /\ p.call = Head(batch)
      BY <1>2 DEF Inv, WaitInv, Awaits
    <2>2. pc = "dispatch" /\ batch # <<>> /\ batch \in Seq(Call)
      BY DEF Inv, TypeOK
    <2>3. 1 \in DOMAIN batch /\ Head(batch) = batch[1]
      BY <2>2
    <2>4. p.call.id \in 1 .. calls
      <3>0. batch[1] \in Call /\ p.call = batch[1]
        BY <2>1, <2>2, <2>3
      <3> HIDE DEF p
      <3>1. p.call.id \in CallId /\ calls \in Nat
        BY <3>0 DEF Call, Inv, TypeOK
      <3>2. p.call.id <= calls
        BY <2>1, <2>3 DEF Inv, FreshInv, Unrun
      <3> QED BY <3>1, <3>2 DEF CallId
    <2>5. /\ before \in Seq(Program)
          /\ DOMAIN executed'[Self] = DOMAIN before \cup {Len(before) + 1}
          /\ executed'[Self][Len(before) + 1] = p
          /\ \A k \in DOMAIN before : executed'[Self][k] = before[k]
      BY <1>2, <2>1 DEF Inv, TypeOK, ClientTypeOK
    <2> HIDE DEF p
    <2> QED BY <2>1, <2>4, <2>5 DEF Inv, FreshInv, Unrun
  <1> QED BY <1>1, <1>2 DEF Executes

-----------------------------------------------------------------------------
(* Every action keeps the invariant.  First the requests. *)

LEMMA AskKeepsInv ==
    ASSUME Inv, Ask
    PROVE  Inv'
  <1> USE DEF Ask, StartRun, history, toolVars, llmVars
  <1>1. pc = "idle" /\ tool[Self] = None /\ tool' = tool
    BY DEF Inv, TypeOK
  <1>2. <<Text>> \in Seq(Message)
    BY DEF Message
  <1>3. TypeOK'
    BY <1>1, <1>2 DEF Inv, TypeOK, ClientTypeOK, LlmTypeOK, Completing
  <1>4. WaitInv' /\ ReviewInv'
    BY <1>1 DEF Inv, WaitInv, ReviewInv
  <1>5. FreshInv'
    BY DEF Inv, FreshInv, Unrun
  <1>6. RoundInv' /\ SeenInv' /\ DispatchedOnce'
    BY <1>1 DEF Inv, TypeOK, RoundInv, Completing, SeenInv, DispatchedOnce
  <1>7. RunsInv'
    BY RunsKept DEF Inv
  <1> QED BY <1>3, <1>4, <1>5, <1>6, <1>7 DEF Inv

LEMMA ApproveKeepsInv ==
    ASSUME Inv, Approve
    PROVE  Inv'
  <1> USE DEF Approve, StartRun, history, toolVars, llmVars
  <1>1. pc = "idle" /\ tool[Self] = None /\ tool' = tool
    BY DEF Inv, TypeOK
  <1>2. ticket # None /\ ticket.call \in Call /\ ticket.messages \in Seq(Message)
    BY DEF Inv, TypeOK, Ticket
  <1>3. /\ batch' = <<ticket.call>> /\ batch' \in Seq(Call)
        /\ Len(batch') = 1 /\ Head(batch') = ticket.call
    BY <1>2
  <1>4. TypeOK'
    BY <1>1, <1>2, <1>3 DEF Inv, TypeOK, ClientTypeOK, LlmTypeOK, Completing
  <1>5. WaitInv' /\ ReviewInv'
    BY <1>1, <1>2, <1>3 DEF Inv, WaitInv, ReviewInv
  <1>6. FreshInv'
    BY <1>2, <1>3 DEF Inv, FreshInv, Unrun
  <1>7. RoundInv' /\ SeenInv' /\ DispatchedOnce'
    BY <1>1 DEF Inv, TypeOK, RoundInv, Completing, SeenInv, DispatchedOnce
  <1>8. RunsInv'
    BY RunsKept DEF Inv
  <1> QED BY <1>4, <1>5, <1>6, <1>7, <1>8 DEF Inv

LEMMA RejectKeepsInv ==
    ASSUME Inv, Reject
    PROVE  Inv'
  <1> USE DEF Reject, history, toolVars, llmVars
  <1>1. pc = "idle" /\ tool[Self] = None /\ tool' = tool
    BY DEF Inv, TypeOK
  <1>2. TypeOK'
    BY <1>1 DEF Inv, TypeOK, ClientTypeOK, LlmTypeOK, Completing
  <1>3. WaitInv' /\ ReviewInv' /\ FreshInv'
    BY <1>1 DEF Inv, WaitInv, ReviewInv, FreshInv, Unrun
  <1>4. RoundInv' /\ SeenInv' /\ DispatchedOnce'
    BY DEF Inv, RoundInv, Completing, SeenInv, DispatchedOnce
  <1>5. RunsInv'
    BY RunsKept DEF Inv
  <1> QED BY <1>2, <1>3, <1>4, <1>5 DEF Inv

-----------------------------------------------------------------------------
(* The completions. *)

LEMMA LlmKeepsInv ==
    ASSUME Inv, AskLlm \/ LlmTries
    PROVE  Inv'
  <1> USE DEF history, toolVars
  <1>1. /\ UNCHANGED <<pc, messages, batch, round, seen, ticket, dispatched, calls,
                       reviewed, http, executed, tool, wire>>
        /\ pc = "complete"
        /\ Completing => round < MaxIterations
        /\ ~Completing => round < MaxIterations
    BY DEF AskLlm, LlmTries, Complete, RetryTransport, FallBack, Inv, TypeOK, RoundInv
  <1>2. llm' \in LlmRequest
    <2>1. CASE AskLlm
      BY <2>1 DEF AskLlm, Complete, LlmRequest, Body
    <2>2. CASE FallBack
      BY <2>2 DEF FallBack, LlmRequest, Body
    <2>3. CASE RetryTransport
      <3>1. llm \in LlmRequest
        BY DEF Inv, TypeOK, LlmTypeOK
      <3> QED BY <2>3, <3>1 DEF RetryTransport, LlmRequest
    <2> QED BY <2>1, <2>2, <2>3 DEF LlmTries
  <1>3. TypeOK'
    BY <1>1, <1>2 DEF Inv, TypeOK, ClientTypeOK, LlmTypeOK
  <1>4. WaitInv' /\ ReviewInv' /\ FreshInv'
    BY <1>1 DEF Inv, WaitInv, Awaits, Target, ReviewInv, FreshInv, Unrun
  <1>5. RoundInv' /\ SeenInv' /\ DispatchedOnce'
    BY <1>1 DEF Inv, RoundInv, SeenInv, DispatchedOnce
  <1>6. RunsInv'
    BY <1>1, RunsKept DEF Inv
  <1> QED BY <1>3, <1>4, <1>5, <1>6 DEF Inv

(* A run that ends: its conversation is dropped, and so is the ticket. *)
LEMMA EndKeepsInv ==
    ASSUME Inv, pc # "dispatch", EndRun, LlmTypeOK', ~Completing',
           UNCHANGED <<history, toolVars>>
    PROVE  Inv'
  <1> USE DEF EndRun, StopRun, history, toolVars
  <1>1. tool[Self] = None /\ tool' = tool
    BY DEF Inv, TypeOK
  <1>2. TypeOK'
    BY <1>1 DEF Inv, TypeOK, ClientTypeOK
  <1>3. WaitInv' /\ ReviewInv' /\ FreshInv'
    BY <1>1 DEF Inv, WaitInv, ReviewInv, FreshInv, Unrun
  <1>4. RoundInv' /\ SeenInv' /\ DispatchedOnce'
    BY DEF Inv, RoundInv, SeenInv, DispatchedOnce
  <1>5. RunsInv'
    BY RunsKept DEF Inv
  <1> QED BY <1>2, <1>3, <1>4, <1>5 DEF Inv

LEMMA NoCompletionTypes ==
    ASSUME Inv, llm' = NoCompletion, wire' = wire
    PROVE  LlmTypeOK' /\ ~Completing'
  BY DEF Inv, TypeOK, LlmTypeOK, NoCompletion, LlmRequest, Body, Completing

LEMMA ReplyTextKeepsInv ==
    ASSUME Inv, ReplyText
    PROVE  Inv'
  <1>1. Completing /\ llm' = NoCompletion /\ wire' = wire
    BY DEF ReplyText, Completes
  <1>2. pc = "complete"
    BY <1>1 DEF Inv, TypeOK
  <1> QED BY <1>1, <1>2, NoCompletionTypes, EndKeepsInv DEF ReplyText

LEMMA ExhaustedKeepsInv ==
    ASSUME Inv, Exhausted
    PROVE  Inv'
  <1>1. ~Completing
    BY DEF Exhausted, Inv, RoundInv, TypeOK
  <1>2. LlmTypeOK' /\ ~Completing'
    BY <1>1 DEF Exhausted, Inv, TypeOK, LlmTypeOK, Completing, llmVars
  <1> QED BY <1>2, EndKeepsInv DEF Exhausted

LEMMA ReplyCallsKeepsInv ==
    ASSUME Inv, NEW reply \in Replies, ReplyCalls(reply)
    PROVE  Inv'
  <1> USE DEF ReplyCalls, toolVars
  <1>1. Completing /\ llm' = NoCompletion /\ wire' = wire
    BY DEF Completes
  <1>2. pc = "complete" /\ round < MaxIterations /\ tool[Self] = None /\ tool' = tool
    BY <1>1 DEF Inv, TypeOK, RoundInv
  <1>3. /\ reply \in Seq(Call) /\ Len(reply) \in 1 .. MaxBatch
        /\ \A i \in DOMAIN reply : reply[i].id = calls + i
    BY RepliesAreCalls DEF Inv
  <1>4. ToolCalls(reply) \in Message
    <2> DEFINE ids == [i \in DOMAIN reply |-> reply[i].id]
    <2>1. DOMAIN reply = 1 .. Len(reply) /\ Len(reply) \in Nat
      BY <1>3
    <2>2. \A i \in 1 .. Len(reply) : reply[i] \in Call
      BY <1>3, <2>1
    <2>3. \A i \in 1 .. Len(reply) : reply[i].id \in CallId
      BY <2>2 DEF Call
    <2>4. ids \in [1 .. Len(reply) -> CallId]
      BY <2>1, <2>3
    <2>5. ids \in Seq(CallId)
      BY <2>1, <2>4
    <2>6. ToolCalls(reply) = [role |-> "assistant", calls |-> ids]
      BY DEF ToolCalls
    <2> HIDE DEF ids
    <2> QED BY <2>5, <2>6 DEF Message
  <1>5. LlmTypeOK' /\ ~Completing'
    BY <1>1, NoCompletionTypes
  <1>6. TypeOK'
    <2>1. Append(messages, ToolCalls(reply)) \in Seq(Message)
      BY <1>4 DEF Inv, TypeOK
    <2>2. round + 1 \in 0 .. MaxIterations /\ calls + Len(reply) \in 0 .. MaxCalls
      BY <1>2, <1>3 DEF Inv, TypeOK
    <2>3. batch' = reply /\ batch' \in Seq(Call) /\ Len(batch') <= MaxBatch /\ batch' # <<>>
      BY <1>3
    <2> QED BY <1>2, <1>5, <2>1, <2>2, <2>3 DEF Inv, TypeOK, ClientTypeOK
  <1>7. WaitInv' /\ ReviewInv'
    BY <1>2 DEF Inv, WaitInv, ReviewInv
  <1>8. FreshInv'
    <2>1. /\ batch' = reply
          /\ \A i \in DOMAIN reply : i \in 1 .. Len(reply)
          /\ calls \in Nat /\ calls' \in Nat /\ calls' = calls + Len(reply)
          /\ ticket' = ticket /\ executed' = executed
      BY <1>3 DEF Inv, TypeOK
    <2>2. \A k \in DOMAIN executed[Self] : executed[Self][k].call.id \in 1 .. calls
      BY DEF Inv, FreshInv
    <2>3. ticket # None => ticket.call.id \in Nat /\ Unrun(ticket.call)
      BY DEF Inv, FreshInv, TypeOK, Ticket, Call, CallId
    <2>4. \A i \in DOMAIN reply : Unrun(reply[i])'
      BY <1>3, <2>1, <2>2 DEF Unrun
    <2>5. \A i, j \in DOMAIN reply : reply[i].id = reply[j].id => i = j
      BY <1>3, <2>1
    <2>6. ticket # None => Unrun(ticket.call)'
      BY <1>3, <2>1, <2>3 DEF Unrun
    <2>7. ticket # None => \A i \in DOMAIN reply : reply[i].id # ticket.call.id
      BY <1>3, <2>1, <2>3 DEF Unrun
    <2>8. \A k \in DOMAIN executed[Self] : executed[Self][k].call.id \in 1 .. calls'
      BY <1>3, <2>1, <2>2
    <2> QED BY <2>1, <2>4, <2>5, <2>6, <2>7, <2>8 DEF FreshInv
  <1>9. RoundInv' /\ SeenInv' /\ DispatchedOnce'
    BY <1>5 DEF Inv, RoundInv, SeenInv, DispatchedOnce
  <1>10. RunsInv'
    BY RunsKept DEF Inv
  <1> QED BY <1>6, <1>7, <1>8, <1>9, <1>10 DEF Inv

-----------------------------------------------------------------------------
(* The calls of a batch.  A call that is answered has its query, if it has  *)
(* run, executed by this very step.                                         *)

LEMMA AnsweredKeepsFresh ==
    ASSUME Inv, batch # <<>>, Answered, calls' = calls, ticket' = ticket,
           executed' = executed \/ (tool[Self] # None /\ Executes)
    PROVE  FreshInv'
  <1>1. /\ \A i \in DOMAIN batch' : i + 1 \in DOMAIN batch /\ batch'[i] = batch[i + 1]
        /\ batch' \in Seq(Call)
    BY AnswersHead DEF Inv
  <1>2. 1 \in DOMAIN batch /\ Head(batch) = batch[1] /\ DOMAIN batch = 1 .. Len(batch)
    BY DEF Inv, TypeOK
  <1>3. /\ \A call : Unrun(call) /\ call.id # Head(batch).id => Unrun(call)'
        /\ \A k \in DOMAIN executed'[Self] : executed'[Self][k].call.id \in 1 .. calls
    BY OthersStayUnrun DEF Inv, FreshInv, Unrun
  <1>4. DOMAIN batch' = 1 .. Len(batch') /\ Len(batch') \in Nat
    BY <1>1
  <1>5. ASSUME NEW i \in DOMAIN batch'
        PROVE  /\ i \in Nat /\ i + 1 \in DOMAIN batch /\ i + 1 # 1
               /\ batch'[i] = batch[i + 1]
    BY <1>1, <1>4
  <1>6. \A i \in DOMAIN batch : i # 1 => Unrun(batch[i]) /\ batch[i].id # Head(batch).id
    BY <1>2 DEF Inv, FreshInv
  <1>7. (\A i \in DOMAIN batch : Unrun(batch[i]))'
    <2> SUFFICES ASSUME NEW i \in DOMAIN batch'
                 PROVE  Unrun(batch[i])'
      OBVIOUS
    <2>1. batch'[i] = batch[i + 1] /\ Unrun(batch[i + 1]) /\ batch[i + 1].id # Head(batch).id
      BY <1>5, <1>6
    <2> QED BY <1>3, <2>1
  <1>8. \A i, j \in DOMAIN batch' : batch'[i].id = batch'[j].id => i = j
    <2> TAKE i, j \in DOMAIN batch'
    <2>1. batch[i + 1].id = batch[j + 1].id => i + 1 = j + 1
      BY <1>5 DEF Inv, FreshInv
    <2> QED BY <1>5, <2>1
  <1>9. ticket # None => Unrun(ticket.call)'
    BY <1>2, <1>3 DEF Inv, FreshInv
  <1>10. ticket # None => \A i \in DOMAIN batch' : batch'[i].id # ticket.call.id
    BY <1>5 DEF Inv, FreshInv
  <1> QED BY <1>3, <1>7, <1>8, <1>9, <1>10 DEF FreshInv

(* The common end of the steps that answer the head of the batch. *)
LEMMA AnsweredKeepsInv ==
    ASSUME Inv, batch # <<>>, Answered, ~Completing,
           UNCHANGED <<round, ticket, history, llmVars>>,
           ToolTypeOK', tool'[Self] = None,
           executed' = executed \/ (tool[Self] # None /\ Executes),
           seen' \subseteq Tool \X (Name \cup {None}), dispatched' \subseteq Call,
           SeenInv', DispatchedOnce'
    PROVE  Inv'
  <1> USE DEF history, llmVars
  <1>1. pc' \in {"act", "complete"} /\ (pc' = "act" <=> batch' # <<>>)
    BY AnswersHead DEF Inv
  <1>2. ~Completing' /\ LlmTypeOK'
    BY DEF Completing, Inv, TypeOK, LlmTypeOK
  <1>3. TypeOK'
    BY <1>1, <1>2, AnswersHead DEF Inv, TypeOK, ToolTypeOK, ClientTypeOK
  <1>4. WaitInv' /\ ReviewInv'
    BY <1>1 DEF Inv, WaitInv, ReviewInv
  <1>5. FreshInv'
    BY AnsweredKeepsFresh
  <1>6. RoundInv'
    BY <1>2 DEF RoundInv
  <1>7. RunsInv'
    BY RunsKept, RunsOnce DEF Inv
  <1> QED BY <1>3, <1>4, <1>5, <1>6, <1>7 DEF Inv

(* ... and of those that leave it waiting for Metabase. *)
LEMMA WaitingKeepsInv ==
    ASSUME Inv, batch # <<>>, ~Completing, pc' = "dispatch",
           UNCHANGED <<messages, batch, round, ticket, history, llmVars>>,
           ToolTypeOK', tool'[Self] # None, executed' = executed, WaitInv',
           Head(batch).tool = "run_sql" => Head(batch) \in reviewed,
           seen' \subseteq Tool \X (Name \cup {None}), dispatched' \subseteq Call,
           SeenInv', DispatchedOnce'
    PROVE  Inv'
  <1> USE DEF history, llmVars
  <1>1. ~Completing' /\ LlmTypeOK'
    BY DEF Completing, Inv, TypeOK, LlmTypeOK
  <1>2. TypeOK'
    <2>1. /\ messages' \in Seq(Message) /\ batch' \in Seq(Call) /\ Len(batch') <= MaxBatch
          /\ round' \in 0 .. MaxIterations /\ ticket' \in Ticket \cup {None}
          /\ calls' \in 0 .. MaxCalls /\ reviewed' \subseteq Call
      BY DEF Inv, TypeOK
    <2>2. (pc \in {"idle", "resume", "complete", "act", "dispatch"})'
      OBVIOUS
    <2>3. (pc \in {"resume", "act", "dispatch"})' /\ batch' # <<>>
      OBVIOUS
    <2>4. (pc = "dispatch")' /\ tool'[Self] # None /\ http'[Self] # None
      BY DEF ToolTypeOK
    <2>5. ClientTypeOK' /\ tool' \in [Run -> Dispatch(Call) \cup {None}]
      BY DEF ToolTypeOK, ClientTypeOK
    <2> HIDE DEF history, llmVars
    <2> QED BY <1>1, <2>1, <2>2, <2>3, <2>4, <2>5 DEF TypeOK
  <1>3. ReviewInv'
    BY DEF Inv, ReviewInv
  <1>4. FreshInv'
    BY DEF Inv, FreshInv, Unrun
  <1>5. RoundInv'
    BY <1>1 DEF RoundInv
  <1>6. RunsInv'
    BY RunsKept DEF Inv
  <1> QED BY <1>2, <1>3, <1>4, <1>5, <1>6 DEF Inv

(* The start of a dispatch, of an approved call or of a new probe.          *)
LEMMA DispatchKeepsInv ==
    ASSUME Inv, pc \in {"resume", "act"}, Dispatches(Self, Head(batch)), Dispatched,
           UNCHANGED <<round, ticket, history, llmVars>>,
           Head(batch).tool = "run_sql" => Head(batch) \in reviewed,
           seen' \subseteq Tool \X (Name \cup {None}), dispatched' \subseteq Call,
           SeenInv', DispatchedOnce'
    PROVE  Inv'
  <1>1. batch # <<>> /\ tool[Self] = None /\ ~Completing /\ Head(batch) \in Call
    BY DEF Inv, TypeOK
  <1>2. PICK call \in Call : call = Head(batch)
    BY <1>1
  <1>3. /\ ToolTypeOK'
        /\ executed' = executed
        /\ tool'[Self] # None => Awaits(call)'
    BY <1>1, <1>2, DispatchBegins DEF Inv
  <1>4. CASE tool'[Self] = None
    BY <1>1, <1>3, <1>4, AnsweredKeepsInv DEF Dispatched
  <1>5. CASE tool'[Self] # None
    <2>1. pc' = "dispatch" /\ UNCHANGED <<messages, batch>>
      BY <1>5 DEF Dispatched
    <2>2. Awaits(call)' /\ call = Head(batch')
      BY <1>2, <1>3, <1>5, <2>1
    <2>3. WaitInv'
      BY <2>2 DEF WaitInv, Awaits, Target
    <2> QED BY <1>1, <1>3, <1>5, <2>1, <2>3, WaitingKeepsInv
  <1> QED BY <1>4, <1>5

LEMMA ApprovedKeepsInv ==
    ASSUME Inv, DispatchApproved
    PROVE  Inv'
  <1>1. pc = "resume" /\ Dispatches(Self, Head(batch)) /\ Dispatched
    BY DEF DispatchApproved
  <1>2. UNCHANGED <<round, seen, ticket, dispatched, history, llmVars>>
    BY DEF DispatchApproved
  <1>3. Head(batch) \in reviewed
    BY <1>1 DEF Inv, ReviewInv
  <1>4. SeenInv' /\ DispatchedOnce'
    BY <1>2 DEF Inv, SeenInv, DispatchedOnce
  <1>5. seen' \subseteq Tool \X (Name \cup {None}) /\ dispatched' \subseteq Call
    BY <1>2 DEF Inv, TypeOK
  <1> QED BY <1>1, <1>2, <1>3, <1>4, <1>5, DispatchKeepsInv

LEMMA ProbeKeepsInv ==
    ASSUME Inv, DispatchProbe
    PROVE  Inv'
  <1> DEFINE call == Head(batch)
  <1>1. /\ pc = "act" /\ Dispatches(Self, call) /\ Dispatched
        /\ call.tool # "run_sql" /\ Signature(call) \notin seen
        /\ seen' = seen \cup {Signature(call)}
        /\ dispatched' = dispatched \cup {call}
        /\ UNCHANGED <<round, ticket, history, llmVars>>
    BY DEF DispatchProbe
  <1>2. call \in Call
    BY <1>1 DEF Inv, TypeOK
  <1>3. Signature(call) \in Tool \X (Name \cup {None})
    BY <1>2 DEF Signature, Call
  <1>4. seen' \subseteq Tool \X (Name \cup {None}) /\ dispatched' \subseteq Call
    BY <1>1, <1>2, <1>3 DEF Inv, TypeOK
  <1> HIDE DEF call
  <1>5. SeenInv' /\ DispatchedOnce'
    BY <1>1 DEF Inv, SeenInv, DispatchedOnce
  <1> QED BY <1>1, <1>4, <1>5, DispatchKeepsInv DEF call

LEMMA AwaitKeepsInv ==
    ASSUME Inv, AwaitTool
    PROVE  Inv'
  <1>1. /\ pc = "dispatch" /\ ToolStep(Self) /\ Dispatched
        /\ UNCHANGED <<round, seen, ticket, dispatched, history, llmVars>>
    BY DEF AwaitTool
  <1>2. batch # <<>> /\ tool[Self] # None /\ ~Completing
    BY <1>1 DEF Inv, TypeOK
  <1>3. GoesOn \/ IsBack
    BY <1>1, <1>2, ToolSteps DEF Inv
  <1>4. SeenInv' /\ DispatchedOnce'
    BY <1>1 DEF Inv, SeenInv, DispatchedOnce
  <1>5. seen' \subseteq Tool \X (Name \cup {None}) /\ dispatched' \subseteq Call
    BY <1>1 DEF Inv, TypeOK
  <1>6. CASE IsBack
    BY <1>1, <1>2, <1>4, <1>5, <1>6, AnsweredKeepsInv DEF IsBack, Dispatched
  <1>7. CASE GoesOn
    <2>1. pc' = "dispatch" /\ UNCHANGED <<messages, batch>>
      BY <1>1, <1>7 DEF Dispatched, GoesOn
    <2>2. tool[Self].call = Head(batch)
      BY <1>2 DEF Inv, WaitInv, Awaits
    <2>3. WaitInv'
      <3>1. Awaits(tool[Self].call)'
        BY <1>7 DEF GoesOn
      <3>2. tool'[Self].call = Head(batch')
        BY <1>7, <2>1, <2>2 DEF GoesOn
      <3> QED BY <2>1, <3>1, <3>2 DEF WaitInv, Awaits, Target
    <2>4. Head(batch).tool = "run_sql" => Head(batch) \in reviewed
      BY <1>1 DEF Inv, ReviewInv
    <2> QED BY <1>1, <1>2, <1>4, <1>5, <1>7, <2>1, <2>3, <2>4, WaitingKeepsInv DEF GoesOn
  <1> QED BY <1>3, <1>6, <1>7

LEMMA RepeatKeepsInv ==
    ASSUME Inv, RefuseRepeat
    PROVE  Inv'
  <1>1. /\ pc = "act" /\ Answered
        /\ UNCHANGED <<round, seen, ticket, dispatched, history, toolVars, llmVars>>
    BY DEF RefuseRepeat
  <1>2. batch # <<>> /\ tool[Self] = None /\ ~Completing
    BY <1>1 DEF Inv, TypeOK
  <1>3. ToolTypeOK' /\ tool'[Self] = None /\ executed' = executed
    BY <1>1, <1>2 DEF Inv, TypeOK, ToolTypeOK, ClientTypeOK, toolVars
  <1>4. SeenInv' /\ DispatchedOnce'
    BY <1>1 DEF Inv, SeenInv, DispatchedOnce
  <1>5. seen' \subseteq Tool \X (Name \cup {None}) /\ dispatched' \subseteq Call
    BY <1>1 DEF Inv, TypeOK
  <1> QED BY <1>1, <1>2, <1>3, <1>4, <1>5, AnsweredKeepsInv

(* A suspended loop keeps the call under review, and drops the calls behind *)
(* it, whose answers it has stored.                                         *)
LEMMA SuspendKeepsInv ==
    ASSUME Inv, Suspend
    PROVE  Inv'
  <1> DEFINE deferred == [i \in 1 .. Len(batch) - 1 |-> Answer(batch[i + 1].id)]
  <1>1. /\ pc = "act"
        /\ ticket' = [call |-> Head(batch), messages |-> messages \o deferred]
        /\ reviewed' = reviewed \cup {Head(batch)}
        /\ pc' = "idle" /\ messages' = <<>> /\ batch' = <<>>
        /\ UNCHANGED <<round, seen, dispatched, calls, http, executed, tool, llm, wire>>
    BY DEF Suspend, StopRun, toolVars, llmVars
  <1>2. /\ batch \in Seq(Call) /\ batch # <<>> /\ messages \in Seq(Message)
        /\ tool[Self] = None /\ ~Completing
    BY <1>1 DEF Inv, TypeOK
  <1>3. /\ Head(batch) = batch[1] /\ batch[1] \in Call
        /\ DOMAIN batch = 1 .. Len(batch) /\ Len(batch) \in Nat \ {0}
    BY <1>2
  <1>4. deferred \in Seq(Message)
    <2>1. ASSUME NEW i \in 1 .. Len(batch) - 1
          PROVE  Answer(batch[i + 1].id) \in Message
      <3>1. batch[i + 1] \in Call
        BY <1>2, <1>3
      <3> QED BY <3>1 DEF Answer, Message, Call
    <2>2. Len(batch) - 1 \in Nat
      BY <1>3
    <2>3. deferred \in [1 .. Len(batch) - 1 -> Message]
      BY <2>1
    <2> HIDE DEF deferred
    <2> QED BY <2>2, <2>3
  <1>5. ticket' \in Ticket
    <2> HIDE DEF deferred
    <2>1. messages \o deferred \in Seq(Message)
      BY <1>2, <1>4
    <2> QED BY <1>1, <1>3, <2>1 DEF Ticket
  <1>6. ticket'.call = batch[1] /\ ticket'.call \in reviewed'
    BY <1>1, <1>3
  <1> HIDE DEF deferred
  <1>7. TypeOK'
    <2>1. messages' \in Seq(Message) /\ batch' \in Seq(Call) /\ Len(batch') = 0
      BY <1>1
    <2>2. reviewed' \subseteq Call
      BY <1>1, <1>3 DEF Inv, TypeOK
    <2> QED BY <1>1, <1>2, <1>5, <2>1, <2>2
            DEF Inv, TypeOK, ClientTypeOK, LlmTypeOK, Completing
  <1>8. WaitInv' /\ ReviewInv'
    BY <1>1, <1>2, <1>6 DEF WaitInv, ReviewInv
  <1>9. FreshInv'
    BY <1>1, <1>3, <1>6 DEF Inv, FreshInv, Unrun
  <1>10. RoundInv' /\ SeenInv' /\ DispatchedOnce'
    BY <1>1 DEF Inv, RoundInv, Completing, SeenInv, DispatchedOnce
  <1>11. RunsInv'
    BY <1>1, RunsKept DEF Inv
  <1> QED BY <1>7, <1>8, <1>9, <1>10, <1>11 DEF Inv

(* An interrupted dispatch may have run its query, once. *)
LEMMA InterruptKeepsInv ==
    ASSUME Inv, Interrupt
    PROVE  Inv'
  <1>1. /\ pc' = "idle" /\ messages' = <<>> /\ batch' = <<>>
        /\ UNCHANGED <<round, seen, dispatched, ticket, calls, reviewed, wire>>
        /\ llm' = NoCompletion
        /\ Returns(Self)
    BY DEF Interrupt, StopRun, history
  <1>2. executed' = executed \/ (tool[Self] # None /\ Executes)
    BY AtMostInFlight DEF Interrupt, Inv, TypeOK
  <1>3. /\ http' \in [Run -> Request \cup {None}] /\ http'[Self] = None
        /\ tool' \in [Run -> Dispatch(Call) \cup {None}] /\ tool'[Self] = None
    BY <1>1 DEF Returns, Inv, TypeOK, ClientTypeOK
  <1>4. LlmTypeOK' /\ ~Completing'
    BY <1>1, NoCompletionTypes
  <1>5. TypeOK'
    <2>1. executed' \in [Run -> Seq(Program)]
      BY <1>2 DEF Executes, Inv, TypeOK, ClientTypeOK
    <2> QED BY <1>1, <1>3, <1>4, <2>1 DEF Inv, TypeOK, ClientTypeOK
  <1>6. WaitInv' /\ ReviewInv'
    BY <1>1, <1>3 DEF Inv, WaitInv, ReviewInv
  <1>7. FreshInv'
    <2>1. CASE executed' = executed
      BY <1>1, <2>1 DEF Inv, FreshInv, Unrun
    <2>2. CASE tool[Self] # None /\ Executes
      <3>1. /\ \A call : Unrun(call) /\ call.id # Head(batch).id => Unrun(call)'
            /\ \A k \in DOMAIN executed'[Self] : executed'[Self][k].call.id \in 1 .. calls
        BY <1>1, <2>2, OthersStayUnrun
      <3>2. batch # <<>> /\ batch \in Seq(Call)
        BY <2>2 DEF Inv, TypeOK
      <3>3. ticket # None => ticket.call.id # Head(batch).id
        BY <3>2 DEF Inv, FreshInv
      <3> QED BY <1>1, <3>1, <3>3 DEF Inv, FreshInv
    <2> QED BY <1>2, <2>1, <2>2
  <1>8. RoundInv' /\ SeenInv' /\ DispatchedOnce'
    BY <1>1, <1>4 DEF Inv, RoundInv, SeenInv, DispatchedOnce
  <1>9. RunsInv'
    BY <1>1, <1>2, RunsKept, RunsOnce DEF Inv
  <1> QED BY <1>5, <1>6, <1>7, <1>8, <1>9 DEF Inv

-----------------------------------------------------------------------------
(* The theorems. *)

LEMMA InitInv == Init => Inv
  <1> SUFFICES ASSUME Init PROVE Inv
    OBVIOUS
  <1> USE DEF Init, ToolsInit, LlmInit
  <1>1. tool[Self] = None /\ http[Self] = None /\ executed[Self] = <<>>
    OBVIOUS
  <1>2. TypeOK
    BY <1>1 DEF TypeOK, ClientTypeOK, LlmTypeOK, LlmRequest, NoCompletion,
               Completing, Body
  <1>3. WaitInv /\ ReviewInv /\ FreshInv
    BY <1>1 DEF WaitInv, ReviewInv, FreshInv
  <1>4. RoundInv /\ SeenInv /\ DispatchedOnce
    BY <1>2 DEF TypeOK, RoundInv, SeenInv, DispatchedOnce
  <1>5. RunsInv
    BY <1>1 DEF RunsInv, ReviewedFirst, QueriedOnce, RunsWhereAsked, ExecutedQueries
  <1> QED BY <1>2, <1>3, <1>4, <1>5 DEF Inv

LEMMA NextKeepsInv == Inv /\ [Next]_vars => Inv'
  <1> SUFFICES ASSUME Inv, [Next]_vars PROVE Inv'
    OBVIOUS
  <1>1. CASE Visit
    BY <1>1, AskKeepsInv, ApproveKeepsInv, RejectKeepsInv DEF Visit
  <1>2. CASE AskLlm \/ LlmTries
    BY <1>2, LlmKeepsInv
  <1>3. CASE ReplyText \/ Exhausted
    BY <1>3, ReplyTextKeepsInv, ExhaustedKeepsInv
  <1>4. CASE \E reply \in Replies : ReplyCalls(reply)
    BY <1>4, ReplyCallsKeepsInv
  <1>5. CASE DispatchApproved \/ DispatchProbe \/ AwaitTool \/ RefuseRepeat
    BY <1>5, ApprovedKeepsInv, ProbeKeepsInv, AwaitKeepsInv, RepeatKeepsInv
  <1>6. CASE Suspend \/ Interrupt
    BY <1>6, SuspendKeepsInv, InterruptKeepsInv
  <1>7. CASE UNCHANGED vars
    <2> USE <1>7 DEF vars, history, toolVars, llmVars
    <2>1. TypeOK'
      BY DEF Inv, TypeOK, ClientTypeOK, LlmTypeOK, Completing
    <2>2. WaitInv' /\ ReviewInv' /\ FreshInv'
      BY DEF Inv, WaitInv, Awaits, Target, ReviewInv, FreshInv, Unrun
    <2>3. RoundInv' /\ SeenInv' /\ DispatchedOnce'
      BY DEF Inv, RoundInv, Completing, SeenInv, DispatchedOnce
    <2>4. RunsInv'
      BY RunsKept DEF Inv
    <2> QED BY <2>1, <2>2, <2>3, <2>4 DEF Inv
  <1> QED BY <1>1, <1>2, <1>3, <1>4, <1>5, <1>6, <1>7 DEF Next, Loop

THEOREM LoopInvariant == Spec => []Inv
  BY InitInv, NextKeepsInv, PTL DEF Spec

(* The parts of the state of a session of tool_loop.py have their types,    *)
(* whatever the LLM, its transport and Metabase answer.                     *)
THEOREM LoopTypeCorrect == Spec => []TypeOK
  <1>1. Inv => TypeOK
    BY DEF Inv
  <1> QED BY <1>1, LoopInvariant, PTL

(* run_sql suspends the loop: no SQL text of the LLM reaches Metabase       *)
(* before its call was put up for review.                                   *)
THEOREM RunsOnlyReviewed == Spec => []ReviewedFirst
  <1>1. Inv => ReviewedFirst
    BY DEF Inv, RunsInv
  <1> QED BY <1>1, LoopInvariant, PTL

(* Retries, the fallback to the older endpoint, interruptions and           *)
(* resumptions never make Metabase execute the query of a call twice.       *)
THEOREM QueriesRunOnce == Spec => []QueriedOnce
  <1>1. Inv => QueriedOnce
    BY DEF Inv, RunsInv
  <1> QED BY <1>1, LoopInvariant, PTL

(* A query runs in a database that _resolve_database_id or find_database    *)
(* resolved from the name it asks for.                                      *)
THEOREM QueriesRunInTheirTarget == Spec => []RunsWhereAsked
  <1>1. Inv => RunsWhereAsked
    BY DEF Inv, RunsInv
  <1> QED BY <1>1, LoopInvariant, PTL

(* seen_calls keeps a run from dispatching the same call twice. *)
THEOREM DispatchesAreDistinct == Spec => []DispatchedOnce
  <1>1. Inv => DispatchedOnce
    BY DEF Inv
  <1> QED BY <1>1, LoopInvariant, PTL

-----------------------------------------------------------------------------
(* What the steps do to the conversation. *)

LEMMA AnsweredKeepsConversation ==
    ASSUME TypeOK, batch # <<>>, Answered, AnsweredUpTo(messages, batch)
    PROVE  AnsweredUpTo(messages, batch)'
  <1>1. /\ messages \in Seq(Message) /\ batch \in Seq(Call)
        /\ Head(batch) \in Call /\ Tail(batch) \in Seq(Call)
        /\ Len(Tail(batch)) = Len(batch) - 1 /\ Len(batch) \in Nat \ {0}
        /\ Head(batch) = batch[1]
        /\ DOMAIN batch = 1 .. Len(batch) /\ DOMAIN Tail(batch) = 1 .. Len(batch) - 1
        /\ \A k \in 1 .. Len(batch) - 1 : Tail(batch)[k] = batch[k + 1]
    BY DEF TypeOK
  <1> DEFINE answer == Answer(Head(batch).id)
  <1>2. answer \in Message /\ answer.role = "tool" /\ answer.id = batch[1].id
    BY <1>1 DEF Answer, Message, Call
  <1>3. Ids(batch) = {batch[1].id} \cup Ids(Tail(batch))
    <2>1. \A k \in DOMAIN batch : k # 1 =>
             k - 1 \in DOMAIN Tail(batch) /\ Tail(batch)[k - 1] = batch[k]
      BY <1>1
    <2>2. \A k \in DOMAIN Tail(batch) :
             k + 1 \in DOMAIN batch /\ Tail(batch)[k] = batch[k + 1]
      BY <1>1
    <2>3. 1 \in DOMAIN batch
      BY <1>1
    <2>4. ASSUME NEW k \in DOMAIN batch
          PROVE  batch[k].id \in {batch[1].id} \cup Ids(Tail(batch))
      BY <2>1 DEF Ids
    <2>5. ASSUME NEW k \in DOMAIN Tail(batch) PROVE Tail(batch)[k].id \in Ids(batch)
      BY <2>2 DEF Ids
    <2>6. batch[1].id \in Ids(batch)
      BY <2>3 DEF Ids
    <2>7. Ids(batch) \subseteq {batch[1].id} \cup Ids(Tail(batch))
      BY <2>4 DEF Ids
    <2>8. Ids(Tail(batch)) \subseteq Ids(batch)
      BY <2>5 DEF Ids
    <2> QED BY <2>6, <2>7, <2>8
  <1> HIDE DEF answer
  <1>4. /\ <<answer>> \in Seq(Message) /\ Len(<<answer>>) = 1
        /\ DOMAIN <<answer>> = {1} /\ <<answer>>[1] = answer
    BY <1>2
  <1>5. Closes(<<answer>>, batch, Tail(batch))
    <2>1. {<<answer>>[k].id : k \in DOMAIN <<answer>>} = {batch[1].id}
      BY <1>2, <1>4
    <2>2. Len(<<answer>>) + Len(Tail(batch)) = Len(batch)
      BY <1>1, <1>4
    <2> QED BY <1>2, <1>3, <1>4, <2>1, <2>2 DEF Closes
  <1>6. AnsweredUpTo(messages \o <<answer>>, Tail(batch))
    BY <1>1, <1>4, <1>5, AnswersClose
  <1>7. Append(messages, answer) = messages \o <<answer>>
    BY <1>1, <1>2
  <1> QED BY <1>6, <1>7 DEF Answered, answer

LEMMA ReplyCallsKeepsConversation ==
    ASSUME Inv, ConversationInv, NEW reply \in Replies, ReplyCalls(reply)
    PROVE  AnsweredUpTo(messages, batch)'
  <1> DEFINE d == Append(messages, ToolCalls(reply))
             n == Len(messages) + 1
  <1>1. messages' = d /\ batch' = reply
    BY DEF ReplyCalls
  <1>2. batch = <<>> /\ messages \in Seq(Message)
    BY DEF ReplyCalls, Completes, Inv, TypeOK
  <1>3. /\ reply \in Seq(Call) /\ DOMAIN reply = 1 .. Len(reply) /\ Len(reply) \in Nat
    BY RepliesAreCalls DEF Inv, ReplyCalls
  <1>4. /\ ToolCalls(reply).role = "assistant"
        /\ DOMAIN ToolCalls(reply).calls = DOMAIN reply
        /\ \A k \in DOMAIN reply : ToolCalls(reply).calls[k] = reply[k].id
    BY DEF ToolCalls
  <1>5. d \in Seq(Message)
    BY <1>1, ReplyCallsKeepsInv DEF Inv, TypeOK
  <1>6. /\ Len(d) = n /\ d[n] = ToolCalls(reply) /\ Len(messages) \in Nat
        /\ DOMAIN messages = 1 .. Len(messages) /\ DOMAIN d = 1 .. n
        /\ \A j \in 1 .. Len(messages) : d[j] = messages[j]
    BY <1>2, <1>3
  <1>7. Len(ToolCalls(reply).calls) = Len(reply)
    <2>1. d[n] \in Message /\ d[n].role = "assistant"
      BY <1>4, <1>5, <1>6
    <2>2. d[n].calls \in Seq(CallId)
      BY <2>1, RepliesHaveCalls
    <2>3. DOMAIN d[n].calls = 1 .. Len(reply)
      BY <1>3, <1>4, <1>6
    <2> QED BY <1>3, <1>6, <2>2, <2>3
  <1> HIDE DEF d
  <1>8. ASSUME NEW i \in DOMAIN d, d[i].role = "assistant", i # n PROVE Whole(d, i)
    <2>1. i \in DOMAIN messages /\ messages[i].role = "assistant"
      BY <1>6, <1>8
    <2>2. Whole(messages, i)
      BY <1>2, <2>1, LacksNothing DEF ConversationInv, AnsweredUpTo
    <2> QED BY <1>2, <1>5, <1>6, <2>1, <2>2, WholeStays
  <1>9. Lacks(d, n, reply)
    <2>1. Given(d, n, Len(reply)) = {}
      BY <1>6 DEF Given
    <2>2. Made(ToolCalls(reply).calls) = Ids(reply)
      BY <1>4 DEF Made, Ids
    <2> QED BY <1>3, <1>6, <1>7, <2>1, <2>2 DEF Lacks
  <1> QED BY <1>1, <1>8, <1>9 DEF AnsweredUpTo

(* run_sql stays open, and so the ticket has a conversation that lacks just  *)
(* the answer to it.                                                         *)
LEMMA SuspendKeepsConversation ==
    ASSUME Inv, ConversationInv, Suspend
    PROVE  AnsweredUpTo(ticket.messages, <<ticket.call>>)'
  <1> DEFINE deferred == [i \in 1 .. Len(batch) - 1 |-> Answer(batch[i + 1].id)]
             call == Head(batch)
  <1>1. ticket' = [call |-> call, messages |-> messages \o deferred]
    BY DEF Suspend
  <1>2. /\ batch \in Seq(Call) /\ batch # <<>> /\ messages \in Seq(Message)
    BY DEF Suspend, Inv, TypeOK
  <1>3. /\ call = batch[1] /\ call \in Call
        /\ DOMAIN batch = 1 .. Len(batch) /\ Len(batch) \in Nat \ {0}
    BY <1>2
  <1>4. \A k \in 1 .. Len(batch) - 1 :
           /\ k + 1 \in DOMAIN batch
           /\ deferred[k] = Answer(batch[k + 1].id)
           /\ deferred[k].role = "tool" /\ deferred[k].id = batch[k + 1].id
    BY <1>3 DEF Answer
  <1>5. /\ deferred \in Seq(Message) /\ Len(deferred) = Len(batch) - 1
        /\ DOMAIN deferred = 1 .. Len(batch) - 1
    <2>1. \A k \in 1 .. Len(batch) - 1 : Answer(batch[k + 1].id) \in Message
      <3>1. \A k \in 1 .. Len(batch) - 1 : batch[k + 1] \in Call
        BY <1>2, <1>4
      <3> QED BY <3>1 DEF Answer, Message, Call
    <2>2. Len(batch) - 1 \in Nat
      BY <1>3
    <2>3. deferred \in [1 .. Len(batch) - 1 -> Message]
      BY <2>1
    <2> HIDE DEF deferred
    <2> QED BY <2>2, <2>3
  <1> HIDE DEF deferred
  <1>6. /\ <<call>> \in Seq(Call) /\ Len(<<call>>) = 1
        /\ DOMAIN <<call>> = {1} /\ <<call>>[1] = call
    BY <1>3
  <1>7. Ids(<<call>>) = {batch[1].id}
    BY <1>3, <1>6 DEF Ids
  <1>8. Closes(deferred, batch, <<call>>)
    <2>1. \A k \in DOMAIN batch : k # 1 => k - 1 \in DOMAIN deferred
      BY <1>3, <1>5
    <2>2. \A k \in DOMAIN batch : k # 1 => deferred[k - 1].id = batch[k].id
      BY <1>3, <1>4
    <2>3. \A k \in DOMAIN deferred : k + 1 \in DOMAIN batch /\ deferred[k].id = batch[k + 1].id
      BY <1>4, <1>5
    <2>4. 1 \in DOMAIN batch
      BY <1>3
    <2>5. {deferred[k].id : k \in DOMAIN deferred} \cup Ids(<<call>>) = Ids(batch)
      BY <1>7, <2>1, <2>2, <2>3, <2>4 DEF Ids
    <2>6. Len(deferred) + Len(<<call>>) = Len(batch)
      BY <1>3, <1>5, <1>6
    <2> QED BY <1>4, <1>5, <2>5, <2>6 DEF Closes
  <1> HIDE DEF call
  <1>9. AnsweredUpTo(messages \o deferred, <<call>>)
    BY <1>2, <1>5, <1>6, <1>8, AnswersClose DEF ConversationInv
  <1>10. ticket'.messages = messages \o deferred /\ ticket'.call = call
    BY <1>1
  <1> QED BY <1>9, <1>10

LEMMA EmptyConversation ==
    /\ AnsweredUpTo(<<>>, <<>>)
    /\ AnsweredUpTo(<<Text>>, <<>>)
  BY DEF AnsweredUpTo, Text

LEMMA NextConversationInv ==
    ASSUME Inv, ConversationInv, [Next]_vars
    PROVE  ConversationInv'
  <1>1. ASSUME AnsweredUpTo(messages, batch)', ticket' = ticket
        PROVE  ConversationInv'
    BY <1>1 DEF ConversationInv
  <1>2. ASSUME AnsweredUpTo(messages, batch)', ticket' = None
        PROVE  ConversationInv'
    BY <1>2 DEF ConversationInv
  <1>3. ASSUME StopRun PROVE AnsweredUpTo(messages, batch)'
    BY <1>3, EmptyConversation DEF StopRun
  <1>4. ASSUME UNCHANGED <<messages, batch>> PROVE AnsweredUpTo(messages, batch)'
    BY <1>4 DEF ConversationInv
  <1>5. CASE Ask
    BY <1>1, <1>5, EmptyConversation DEF Ask, StartRun
  <1>6. CASE Approve
    <2>1. AnsweredUpTo(ticket.messages, <<ticket.call>>)
      BY <1>6 DEF Approve, ConversationInv
    <2> QED BY <1>2, <1>6, <2>1 DEF Approve, StartRun
  <1>7. CASE Reject
    BY <1>2, <1>4, <1>7 DEF Reject
  <1>8. CASE AskLlm \/ LlmTries
    BY <1>1, <1>4, <1>8 DEF AskLlm, LlmTries
  <1>9. CASE ReplyText \/ Exhausted
    BY <1>2, <1>3, <1>9 DEF ReplyText, Exhausted, EndRun
  <1>10. ASSUME NEW reply \in Replies, ReplyCalls(reply) PROVE ConversationInv'
    BY <1>1, <1>10, ReplyCallsKeepsConversation DEF ReplyCalls
  <1>11. CASE DispatchApproved \/ DispatchProbe \/ AwaitTool \/ RefuseRepeat
    <2>1. batch # <<>> /\ TypeOK /\ AnsweredUpTo(messages, batch)
      BY <1>11
      DEF Inv, TypeOK, ConversationInv, DispatchApproved, DispatchProbe, AwaitTool,
          RefuseRepeat
    <2>2. Answered \/ UNCHANGED <<messages, batch>>
      BY <1>11 DEF DispatchApproved, DispatchProbe, AwaitTool, RefuseRepeat, Dispatched
    <2>3. ticket' = ticket
      BY <1>11 DEF DispatchApproved, DispatchProbe, AwaitTool, RefuseRepeat
    <2> QED BY <1>1, <1>4, <2>1, <2>2, <2>3, AnsweredKeepsConversation
  <1>12. CASE Suspend
    BY <1>3, <1>12, SuspendKeepsConversation DEF Suspend, ConversationInv
  <1>13. CASE Interrupt
    BY <1>1, <1>3, <1>13 DEF Interrupt
  <1>14. CASE UNCHANGED vars
    BY <1>1, <1>4, <1>14 DEF vars
  <1> QED
    BY <1>5, <1>6, <1>7, <1>8, <1>9, <1>10, <1>11, <1>12, <1>13, <1>14
    DEF Next, Visit, Loop

(* Every conversation that the LLM is asked to complete is one the API      *)
(* accepts: repeats, deferred calls, failed dispatches and the approved     *)
(* call of a resumed loop each have their answer behind the reply that made *)
(* them, before the next completion.                                        *)
THEOREM LlmSeesEveryAnswer == Spec => []EveryCallAnswered
  <1>1. Init => ConversationInv
    BY EmptyConversation DEF Init, ConversationInv
  <1>2. Inv /\ ConversationInv /\ [Next]_vars => ConversationInv'
    BY NextConversationInv
  <1>3. Inv /\ ConversationInv => EveryCallAnswered
    <2> SUFFICES ASSUME Inv, ConversationInv, pc = "complete", NEW i \in DOMAIN messages,
                        messages[i].role = "assistant"
                 PROVE  AnswersFollow(messages, i)
      BY DEF EveryCallAnswered
    <2>1. batch = <<>> /\ messages \in Seq(Message)
      BY DEF Inv, TypeOK
    <2> QED BY <2>1, LacksNothing DEF ConversationInv, AnsweredUpTo, Whole
  <1> QED BY <1>1, <1>2, <1>3, LoopInvariant, PTL DEF Spec
=============================================================================

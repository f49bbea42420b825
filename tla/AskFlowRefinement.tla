------------------------- MODULE AskFlowRefinement -------------------------
(***************************************************************************)
(* Proof that the handlers of AskFlow implement the take-once life cycle   *)
(* of ReviewContract: every step of theirs submits, supersedes, claims,    *)
(* executes or drops one review, or leaves the life of every review alone. *)
(***************************************************************************)
EXTENDS AskFlowProofs

Pending(v) == \E s \in Session : approval[s] # NoTicket /\ approval[s].by = v

WasExecuted(v) == \E e \in executed : e.review.by = v

(* The life of review v; ReviewStatus is this, for all reviews. *)
StatusOf(v) ==
    IF WasExecuted(v) THEN "executed"
    ELSE IF v \in claimed THEN "claimed"
    ELSE IF Pending(v) THEN "pending"
    ELSE IF v \in submitted THEN "dropped" ELSE "unsubmitted"

LEMMA StatusFunction == ReviewStatus = [v \in Request |-> StatusOf(v)]
BY DEF ReviewStatus, StatusOf, WasExecuted, Pending

(* Two facts that tell where a review is in its life. *)
LEMMA PendingStatus ==
    ASSUME Inv, NEW s \in Session, approval[s] # NoTicket
    PROVE  /\ approval[s].by \in Request
           /\ StatusOf(approval[s].by) = "pending"
           /\ \A t \in Session \ {s} :
                approval[t] # NoTicket => approval[t].by # approval[s].by
<1>1. approval[s].by \in Request
  BY DEF Inv, TypeInv, TypeOK, Ticket
<1>2. ~WasExecuted(approval[s].by) /\ approval[s].by \notin claimed
  BY DEF Inv, ReviewInv, SlotInv, SpentInv, WasExecuted
<1>3. Pending(approval[s].by)
  BY DEF Pending
<1> QED BY <1>1, <1>2, <1>3 DEF StatusOf, Inv, ReviewInv, SlotInv

LEMMA UnsubmittedStatus ==
    ASSUME Inv, NEW v \in Request, v \notin submitted
    PROVE  StatusOf(v) = "unsubmitted"
BY DEF Inv, ReviewInv, SlotInv, SpentInv, SubmittedInv, StatusOf, WasExecuted, Pending

-----------------------------------------------------------------------------
(* Each kind of step, on the life of the reviews. *)

LEMMA QuietRefines ==
    ASSUME Inv, Inv', Quiet
    PROVE  \/ \A v \in Request : StatusOf(v)' = StatusOf(v)
           \/ \E o \in Request :
                /\ StatusOf(o) = "pending" /\ StatusOf(o)' = "dropped"
                /\ \A v \in Request \ {o} : StatusOf(v)' = StatusOf(v)
<1>1. UNCHANGED <<submitted, claimed, executed>>
  BY DEF Quiet
<1>2. CASE UNCHANGED approval
  BY <1>1, <1>2 DEF StatusOf, WasExecuted, Pending
<1>3. ASSUME NEW s \in Session, approval' = [approval EXCEPT ![s] = NoTicket],
             approval[s] # NoTicket
      PROVE  \E o \in Request :
                /\ StatusOf(o) = "pending" /\ StatusOf(o)' = "dropped"
                /\ \A v \in Request \ {o} : StatusOf(v)' = StatusOf(v)
  <2>1. PICK o \in Request : o = approval[s].by /\ StatusOf(o) = "pending"
    BY <1>3, PendingStatus
  <2>2. /\ approval'[s] = NoTicket
        /\ \A t \in Session \ {s} : approval'[t] = approval[t]
    BY <1>3 DEF Inv, TypeInv, TypeOK
  <2>3. ~Pending(o)'
    BY <1>3, <2>1, <2>2, PendingStatus DEF Pending
  <2>4. o \in submitted /\ o \notin claimed /\ ~WasExecuted(o)
    BY <1>3, <2>1 DEF Inv, ReviewInv, SlotInv, SpentInv, WasExecuted
  <2>5. StatusOf(o)' = "dropped"
    BY <1>1, <2>3, <2>4 DEF StatusOf, WasExecuted
  <2>6. ASSUME NEW v \in Request \ {o} PROVE StatusOf(v)' = StatusOf(v)
    <3>1. Pending(v)' = Pending(v)
      BY <2>1, <2>2 DEF Pending
    <3> QED BY <1>1, <3>1 DEF StatusOf, WasExecuted
  <2> QED BY <2>1, <2>5, <2>6
<1>4. ASSUME NEW s \in Session, approval' = [approval EXCEPT ![s] = NoTicket],
             approval[s] = NoTicket
      PROVE  UNCHANGED approval
  BY <1>4 DEF Inv, TypeInv, TypeOK
<1> QED BY <1>2, <1>3, <1>4 DEF Quiet

LEMMA ClaimRefines ==
    ASSUME Inv, Inv', NEW r \in Request, ClaimApproval(r)
    PROVE  \E o \in Request :
                /\ StatusOf(o) = "pending" /\ StatusOf(o)' = "claimed"
                /\ \A v \in Request \ {o} : StatusOf(v)' = StatusOf(v)
<1>1. PICK s \in Session : s = session[r]
  BY DEF ClaimApproval, Inv, TypeInv, TypeOK
<1>2. /\ approval[s] # NoTicket
      /\ approval' = [approval EXCEPT ![s] = NoTicket]
      /\ claimed' = claimed \cup {approval[s].by}
      /\ UNCHANGED <<submitted, executed>>
  BY <1>1 DEF ClaimApproval
<1>3. PICK o \in Request : o = approval[s].by /\ StatusOf(o) = "pending"
  BY <1>2, PendingStatus
<1>4. StatusOf(o)' = "claimed"
  BY <1>2, <1>3 DEF Inv, ReviewInv, SlotInv, SpentInv, StatusOf, WasExecuted
<1>5. ASSUME NEW v \in Request \ {o} PROVE StatusOf(v)' = StatusOf(v)
  <2>1. /\ approval'[s] = NoTicket
        /\ \A t \in Session \ {s} : approval'[t] = approval[t]
    BY <1>2 DEF Inv, TypeInv, TypeOK
  <2>2. Pending(v)' = Pending(v)
    BY <1>3, <2>1 DEF Pending
  <2> QED BY <1>2, <1>3, <2>2 DEF StatusOf, WasExecuted
<1> QED BY <1>3, <1>4, <1>5

LEMMA RunsRefines ==
    ASSUME Inv, Inv', NEW r \in Request, Runs(r)
    PROVE  \E o \in Request :
                /\ StatusOf(o) = "claimed" /\ StatusOf(o)' = "executed"
                /\ \A v \in Request \ {o} : StatusOf(v)' = StatusOf(v)
<1>1. PICK o \in Request :
         /\ o = frame[r].approved.by /\ o \in claimed
         /\ frame[r].approved # NoTicket /\ pc[r] = "loaded"
  BY DEF Runs, Inv, TypeInv, TypeOK, Frame, Ticket, ReviewInv, HeldInv
<1>2. /\ UNCHANGED <<approval, submitted, claimed>>
      /\ \E e : e.review.by = o /\ executed' = executed \cup {e}
  BY <1>1 DEF Runs, Executed
<1>3. ~WasExecuted(o)
  BY <1>1 DEF Inv, ReviewInv, SpentInv, PastRun, WasExecuted
<1>4. StatusOf(o) = "claimed" /\ StatusOf(o)' = "executed"
  BY <1>1, <1>2, <1>3 DEF StatusOf, WasExecuted
<1>5. ASSUME NEW v \in Request \ {o} PROVE StatusOf(v)' = StatusOf(v)
  BY <1>2 DEF StatusOf, WasExecuted, Pending
<1> QED BY <1>1, <1>4, <1>5

LEMMA StoresRefines ==
    ASSUME Inv, Inv', NEW r \in Request, Stores(r),
           frame[r].result.program \in Program
    PROVE  /\ StatusOf(r) = "unsubmitted" /\ StatusOf(r)' = "pending"
           /\ \/ \A v \in Request \ {r} : StatusOf(v)' = StatusOf(v)
              \/ \E o \in Request \ {r} :
                   /\ StatusOf(o) = "pending" /\ StatusOf(o)' = "dropped"
                   /\ \A v \in Request \ {o, r} : StatusOf(v)' = StatusOf(v)
<1>0. PICK s \in Session : s = session[r]
  BY DEF Stores, Inv, TypeInv, TypeOK
<1>1. PICK ticket \in Ticket :
         /\ ticket.by = r
         /\ approval' = [approval EXCEPT ![s] = ticket]
         /\ submitted' = submitted \cup {r}
  BY <1>0 DEF Stores, StoreReview, TicketOf, Ticket
<1>2. /\ approval' = [approval EXCEPT ![s] = ticket]
      /\ submitted' = submitted \cup {r}
      /\ UNCHANGED <<claimed, executed>>
      /\ r \notin submitted
  BY <1>1
  DEF Stores, Inv, TypeInv, TypeOK, ReviewInv, SubmittedInv, Finalized
<1>3. StatusOf(r) = "unsubmitted"
  BY <1>2, UnsubmittedStatus
<1>4. ticket.by = r /\ ticket # NoTicket
  BY <1>1, Constants
<1>5. /\ approval'[s] = ticket
      /\ \A t \in Session \ {s} : approval'[t] = approval[t]
  BY <1>2 DEF Inv, TypeInv, TypeOK
<1>6. StatusOf(r)' = "pending"
  <2>2. Pending(r)'
    BY <1>4, <1>5 DEF Pending
  <2>3. ~WasExecuted(r)' /\ r \notin claimed'
    BY <1>2 DEF Inv, ReviewInv, SpentInv, SubmittedInv, WasExecuted
  <2> QED BY <2>2, <2>3 DEF StatusOf
<1>7. ASSUME NEW v \in Request \ {r}, approval[s] # NoTicket => approval[s].by # v
      PROVE  StatusOf(v)' = StatusOf(v)
  <2>1. Pending(v)' = Pending(v)
    BY <1>4, <1>5, <1>7 DEF Pending
  <2> QED BY <1>2, <2>1 DEF StatusOf, WasExecuted
<1>8. CASE approval[s] = NoTicket
  BY <1>3, <1>6, <1>7, <1>8
<1>9. CASE approval[s] # NoTicket
  <2>1. PICK o \in Request :
           o = approval[s].by /\ StatusOf(o) = "pending" /\ o # r
    BY <1>3, <1>9, PendingStatus
  <2>2. ~Pending(o)'
    BY <1>2, <1>4, <1>5, <1>9, <2>1, PendingStatus DEF Pending
  <2>3. StatusOf(o)' = "dropped"
    BY <1>2, <1>9, <2>1, <2>2
    DEF Inv, ReviewInv, SlotInv, SpentInv, StatusOf, WasExecuted
  <2> QED BY <1>3, <1>6, <1>7, <2>1, <2>3
<1> QED BY <1>8, <1>9

-----------------------------------------------------------------------------
LEMMA InitRefines == Init => Contract!Init
<1> SUFFICES ASSUME Init PROVE Contract!Init
  OBVIOUS
<1>1. Inv
  BY InitInv
<1>2. \A v \in Request : StatusOf(v) = "unsubmitted"
  BY <1>1, UnsubmittedStatus DEF Init
<1> QED BY <1>2, StatusFunction DEF Contract!Init

LEMMA NextRefines ==
    ASSUME Inv, Inv', [Next]_vars
    PROVE  [Contract!Next]_ReviewStatus
<1>1. /\ ReviewStatus = [v \in Request |-> StatusOf(v)]
      /\ ReviewStatus' = [v \in Request |-> StatusOf(v)']
  <2>1. (ReviewStatus = [v \in Request |-> StatusOf(v)])'
    BY StatusFunction, PTL
  <2> QED BY <2>1, StatusFunction
<1>2. CASE Quiet
  <2>1. CASE \A v \in Request : StatusOf(v)' = StatusOf(v)
    BY <1>1, <2>1
  <2>2. ASSUME NEW o \in Request,
               StatusOf(o) = "pending", StatusOf(o)' = "dropped",
               \A v \in Request \ {o} : StatusOf(v)' = StatusOf(v)
        PROVE  Contract!Drop({o})
    BY <1>1, <2>2 DEF Contract!Drop
  <2> QED BY <1>2, <2>1, <2>2, QuietRefines DEF Contract!Next
<1>3. ASSUME NEW r \in Request, ClaimApproval(r) PROVE Contract!Next
  <2>1. PICK o \in Request :
           /\ StatusOf(o) = "pending" /\ StatusOf(o)' = "claimed"
           /\ \A v \in Request \ {o} : StatusOf(v)' = StatusOf(v)
    BY <1>3, ClaimRefines
  <2>2. Contract!Claim(o)
    BY <1>1, <2>1 DEF Contract!Claim
  <2> QED BY <2>2 DEF Contract!Next
<1>4. ASSUME NEW r \in Request, Runs(r) PROVE Contract!Next
  <2>1. PICK o \in Request :
           /\ StatusOf(o) = "claimed" /\ StatusOf(o)' = "executed"
           /\ \A v \in Request \ {o} : StatusOf(v)' = StatusOf(v)
    BY <1>4, RunsRefines
  <2>2. Contract!Execute(o)
    BY <1>1, <2>1 DEF Contract!Execute
  <2> QED BY <2>2 DEF Contract!Next
<1>5. ASSUME NEW r \in Request, Stores(r), frame[r].result.program \in Program
      PROVE  Contract!Next
  <2>1. StatusOf(r) = "unsubmitted" /\ StatusOf(r)' = "pending"
    BY <1>5, StoresRefines
  <2>2. CASE \A v \in Request \ {r} : StatusOf(v)' = StatusOf(v)
    <3>1. Contract!Submit(r)
      BY <1>1, <2>1, <2>2 DEF Contract!Submit
    <3> QED BY <3>1 DEF Contract!Next
  <2>3. ASSUME NEW o \in Request \ {r},
               StatusOf(o) = "pending", StatusOf(o)' = "dropped",
               \A v \in Request \ {o, r} : StatusOf(v)' = StatusOf(v)
        PROVE  Contract!Next
    <3>1. Contract!Supersede(r, o)
      BY <1>1, <2>1, <2>3 DEF Contract!Supersede
    <3> QED BY <3>1 DEF Contract!Next
  <2> QED BY <1>5, <2>2, <2>3, StoresRefines
<1> QED BY <1>2, <1>3, <1>4, <1>5, NextKind

(* The handlers of app.py, with whatever the two kernels return, implement    *)
(* the take-once contract: a review leaves the pending state once, and runs   *)
(* only if what took it out was a claim.                                      *)
THEOREM HandlersTakeOnce == Spec => TakeOnce
<1>1. Inv /\ Inv' /\ [Next]_vars => [Contract!Next]_ReviewStatus
  BY NextRefines
<1> QED
  BY <1>1, InitRefines, Invariance, PTL DEF Spec, TakeOnce, Contract!Spec
=============================================================================

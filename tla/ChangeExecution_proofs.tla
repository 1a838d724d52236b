----------------------- MODULE ChangeExecution_proofs -----------------------
(***************************************************************************)
(* Proofs about ChangeExecution, for any users, requests, executions, keys *)
(* and clock, any number of emergency stops and any set of production      *)
(* requests.                                                               *)
(***************************************************************************)
EXTENDS ChangeExecution, FiniteSetTheorems, SequenceTheorems, TLAPS

Executed == {"RUNNING", "COMPLETED", "FAILED"}

(* A row of executions is absent, or it belongs to a request; while it is RUNNING
   nobody has raised its fence. *)
RowsAreWhole ==
    \A e \in ExecIds :
        /\ exec[e].status = "NONE" => exec[e] = NoExec
        /\ exec[e].status # "NONE" => exec[e].req \in Requests
        /\ exec[e].status = "RUNNING" => exec[e].fence = 1

(* A request is executed once, and its status is that of its execution. *)
OneExecution ==
    \A e, f \in ExecIds :
        exec[e].status # "NONE" /\ exec[f].req = exec[e].req => e = f

StatusesAgree ==
    \A e \in ExecIds :
        exec[e].status # "NONE" => Agrees(req[exec[e].req].status, exec[e].status)

ExecutedHasRow ==
    \A r \in Requests : req[r].status \in Executed => \E e \in ExecIds : exec[e].req = r

(* UNIQUE(idempotency_key), and what was answered to a key is its execution. *)
KeysAreUnique ==
    \A e, f \in ExecIds : exec[e].key # NoKey /\ exec[f].key = exec[e].key => e = f

RepliesAreBound == \A k \in Keys : \A e \in replies[k] : exec[e].key = k

(* A worker has run its adapter when it is past its start, and once. *)
WorkersRunOnce ==
    \A e \in ExecIds :
        /\ worker[e] = "none" <=> exec[e].status = "NONE"
        /\ worker[e] \in {"none", "started"} => runs[e] = 0
        /\ runs[e] <= 1

(* Review: nobody decides twice or about his own request, nothing is decided
   before the submission, and a request that is past its review has its quorum. *)
DecisionsAreOfOthers ==
    \A a \in approvals : a.by # req[a.req].by /\ req[a.req].status \notin {"NONE", "DRAFT"}

OneDecisionEach ==
    \A a, b \in approvals : a.req = b.req /\ a.by = b.by => a = b

DeniedIsDenied ==
    \A a \in approvals : a.decision = "DENIED" => req[a.req].status = "DENIED"

FiniteApprovers == \A r \in Requests : IsFiniteSet(Approvers(r))

QuorumBeforeApproved ==
    \A r \in Requests : req[r].status \in Executed \cup {"APPROVED"} =>
        /\ req[r].bound
        /\ Cardinality(Approvers(r)) >= RequiredApprovals(r)

Governed ==
    /\ DecisionsAreOfOthers
    /\ OneDecisionEach
    /\ DeniedIsDenied
    /\ FiniteApprovers
    /\ QuorumBeforeApproved

Executions ==
    /\ RowsAreWhole
    /\ OneExecution
    /\ StatusesAgree
    /\ ExecutedHasRow
    /\ KeysAreUnique
    /\ RepliesAreBound
    /\ WorkersRunOnce

IInv ==
    /\ TypeOK
    /\ Governed
    /\ Executions
    /\ OneReceiptPerOutcome
    /\ TrailTellsStatus
-----------------------------------------------------------------------------
(* The places of an action in a trail, and of an execution in the receipts. *)
Entries(s, x) == {i \in DOMAIN s : s[i] = x}
Mine(s, e) == {i \in DOMAIN s : s[i].exec = e}

(* What an appended element changes of a sequence. *)
LEMMA Appended ==
    ASSUME NEW S, NEW s \in Seq(S), NEW x \in S
    PROVE  /\ Append(s, x) \in Seq(S)
           /\ Len(s) \in Nat
           /\ DOMAIN s = 1..Len(s)
           /\ DOMAIN Append(s, x) = 1..(Len(s) + 1)
           /\ \A i \in 1..Len(s) : Append(s, x)[i] = s[i]
           /\ Append(s, x)[Len(s) + 1] = x
  OBVIOUS

(* A trail of one entry becomes a pair. *)
LEMMA AppendedPair ==
    ASSUME NEW S, NEW a \in S, NEW b \in S
    PROVE  Append(<<a>>, b) = <<a, b>>
<1>1. <<a>> \in Seq(S) /\ <<a, b>> \in Seq(S) /\ Append(<<a>>, b) \in Seq(S)
  OBVIOUS
<1>2. Len(<<a, b>>) = Len(Append(<<a>>, b))
  OBVIOUS
<1>3. \A i \in 1..2 : <<a, b>>[i] = Append(<<a>>, b)[i]
  OBVIOUS
<1> QED
  BY <1>1, <1>2, <1>3, SeqEqual

(* A trail has one more place of the action that is appended to it, and as many
   of every other. *)
LEMMA AppendedEntries ==
    ASSUME NEW S, NEW s \in Seq(S), NEW x \in S, NEW y
    PROVE  /\ IsFiniteSet(Entries(s, y))
           /\ Cardinality(Entries(s, y)) \in Nat
           /\ x # y => Entries(Append(s, x), y) = Entries(s, y)
           /\ x = y => /\ Entries(Append(s, x), y) # {}
                       /\ Cardinality(Entries(Append(s, x), y)) = Cardinality(Entries(s, y)) + 1
<1>1. /\ Len(s) \in Nat
      /\ DOMAIN s = 1..Len(s)
      /\ DOMAIN Append(s, x) = 1..(Len(s) + 1)
      /\ \A i \in 1..Len(s) : Append(s, x)[i] = s[i]
      /\ Append(s, x)[Len(s) + 1] = x
  BY Appended
<1>2. IsFiniteSet(1..Len(s))
  BY <1>1, 1 \in Int, Len(s) \in Int, FS_Interval
<1>3. IsFiniteSet(Entries(s, y)) /\ Entries(s, y) \subseteq 1..Len(s)
  BY <1>1, <1>2, FS_Subset DEF Entries
<1>4. Cardinality(Entries(s, y)) \in Nat
  BY <1>3, FS_CardinalityType
<1>5. x # y => Entries(Append(s, x), y) = Entries(s, y)
  BY <1>1 DEF Entries
<1>6. x = y => Entries(Append(s, x), y) = Entries(s, y) \cup {Len(s) + 1}
  BY <1>1 DEF Entries
<1>7. Len(s) + 1 \notin Entries(s, y)
  BY <1>1, <1>3
<1>8. Cardinality(Entries(s, y) \cup {Len(s) + 1}) = Cardinality(Entries(s, y)) + 1
  BY <1>3, <1>7, FS_AddElement
<1> QED
  BY <1>3, <1>4, <1>5, <1>6, <1>8

(* A set whose elements are all the same has at most one. *)
LEMMA AtMostOne ==
    ASSUME NEW S, \A x, y \in S : x = y
    PROVE  Cardinality(S) <= 1
<1>1. CASE S = {}
  BY <1>1, FS_EmptySet
<1>2. CASE S # {}
  <2>1. PICK x \in S : S = {x}
    BY <1>2
  <2> QED
    BY <2>1, FS_Singleton
<1> QED
  BY <1>1, <1>2

(* A receipt that is appended is one of its own execution, and of no other. *)
LEMMA ReceiptOfAnother ==
    ASSUME NEW S, NEW s \in Seq(S), NEW x \in S, NEW e, x.exec # e
    PROVE  /\ Mine(Append(s, x), e) = Mine(s, e)
           /\ \A i \in Mine(s, e) : Append(s, x)[i] = s[i]
<1>1. /\ Len(s) \in Nat
      /\ DOMAIN s = 1..Len(s)
      /\ DOMAIN Append(s, x) = 1..(Len(s) + 1)
      /\ \A i \in 1..Len(s) : Append(s, x)[i] = s[i]
      /\ Append(s, x)[Len(s) + 1] = x
  BY Appended
<1> QED
  BY <1>1 DEF Mine
-----------------------------------------------------------------------------
(* The trails of the executions, and of the requests, apart. *)
ExecTrail(e) ==
    trail[e] = CASE exec[e].status = "NONE" -> <<>>
                 [] exec[e].status = "RUNNING" -> <<"start">>
                 [] OTHER -> <<"start", exec[e].status>>

RequestTrail(r) ==
    /\ Cardinality(Entries(trail[r], "approved")) = Cardinality(Approvers(r))
    /\ Entries(trail[r], "denied") # {} <=> req[r].status = "DENIED"

(* TrailTellsStatus is about executions and about requests, one by one. *)
LEMMA TrailParts ==
    TrailTellsStatus <=> /\ \A e \in ExecIds : ExecTrail(e)
                         /\ \A r \in Requests : RequestTrail(r)
BY DEF TrailTellsStatus, ExecTrail, RequestTrail, Entries

(* OneReceiptPerOutcome in terms of the receipts of one execution. *)
LEMMA ReceiptParts ==
    OneReceiptPerOutcome <=>
        \A e \in ExecIds :
            IF exec[e].status \in Terminal
            THEN /\ Cardinality(Mine(receipts, e)) = 1
                 /\ \A i \in Mine(receipts, e) : receipts[i].status = exec[e].status
            ELSE Mine(receipts, e) = {}
BY DEF OneReceiptPerOutcome, Mine

(* The initial states satisfy the inductive invariant. *)
LEMMA InitIInv == Init => IInv
<1> SUFFICES ASSUME Init PROVE IInv
  OBVIOUS
<1> USE ConstantsAssumption
<1>1. TypeOK
  <2>1. receipts \in Seq(Receipt)
    BY DEF Init
  <2>2. trail \in [Requests \cup ExecIds -> Seq(AuditAction)]
    BY DEF Init
  <2>3. req \in [Requests -> RequestRow] /\ exec \in [ExecIds -> ExecRow]
    BY DEF Init, NoExec, RequestRow, ExecRow, RequestStatus, ExecStatus
  <2>4. clock \in Nat /\ stops \in 0..MaxStops
    <3>1. clock \in Times /\ stops = 0
      BY DEF Init
    <3> QED
      BY <3>1
  <2>5. stop \in BOOLEAN
    BY DEF Init
  <2> QED
    BY <2>1, <2>2, <2>3, <2>4, <2>5 DEF Init, TypeOK, WorkerPhase
<1>2. \A r \in Requests : Approvers(r) = {}
  BY DEF Init, Approvers
<1>3. Governed
  BY <1>2, FS_EmptySet DEF Init, Governed, DecisionsAreOfOthers, OneDecisionEach, DeniedIsDenied,
        FiniteApprovers, QuorumBeforeApproved, Executed
<1>4. Executions
  BY DEF Init, Executions, RowsAreWhole, OneExecution, StatusesAgree, ExecutedHasRow,
         KeysAreUnique, RepliesAreBound, WorkersRunOnce, Executed, NoExec
<1>5. OneReceiptPerOutcome
  <2>1. \A e \in ExecIds : exec[e].status \notin Terminal
    BY DEF Init, NoExec, Terminal
  <2>2. \A e \in ExecIds : Mine(receipts, e) = {}
    BY DEF Init, Mine
  <2> QED
    BY <2>1, <2>2, ReceiptParts
<1>6. TrailTellsStatus
  <2>1. \A e \in ExecIds : ExecTrail(e)
    BY DEF Init, ExecTrail, NoExec
  <2>2. \A r \in Requests, x \in AuditAction : Entries(trail[r], x) = {}
    BY DEF Init, Entries
  <2>3. \A r \in Requests : RequestTrail(r)
    BY <1>2, <2>2, FS_EmptySet DEF Init, RequestTrail, AuditAction
  <2> QED
    BY <2>1, <2>3, TrailParts
<1> QED
  BY <1>1, <1>3, <1>4, <1>5, <1>6 DEF IInv
-----------------------------------------------------------------------------
(* The rows of the requests after a new one. *)
LEMMA CreatedRow ==
    ASSUME NEW R \in [Requests -> RequestRow], NEW r \in Requests, NEW u \in Users
    PROVE  LET S == [R EXCEPT ![r] = [status |-> "DRAFT", by |-> u, bound |-> FALSE]]
           IN  /\ S \in [Requests -> RequestRow]
               /\ S[r].status = "DRAFT"
               /\ \A s \in Requests : s # r => S[s] = R[s]
BY DEF RequestRow, RequestStatus

(* ... and after one was submitted. *)
LEMMA SubmittedRow ==
    ASSUME NEW r \in Requests, req \in [Requests -> RequestRow],
           req' = [req EXCEPT ![r].status = "REVIEW_REQUIRED", ![r].bound = TRUE]
    PROVE  /\ req' \in [Requests -> RequestRow]
           /\ req'[r].status = "REVIEW_REQUIRED"
           /\ \A s \in Requests : s # r => req'[s] = req[s]
BY DEF RequestRow, RequestStatus

(* A step of the review changes one request that is not executed, before or
   after it, and nothing of the executions. *)
ReviewOf(r) ==
    /\ \A s \in Requests : s # r => req'[s] = req[s]
    /\ req[r].status \notin Executed /\ req'[r].status \notin Executed
    /\ \A s \in ExecIds : trail'[s] = trail[s]
    /\ UNCHANGED <<exec, worker, runs, receipts, replies>>

(* The executions, their receipts and their trails stay as they are. *)
LEMMA ReviewKeepsExecutions ==
    ASSUME IInv, NEW r \in Requests, ReviewOf(r)
    PROVE  /\ Executions'
           /\ OneReceiptPerOutcome'
           /\ \A e \in ExecIds : ExecTrail(e)'
<1> USE DEF IInv, Executions
<1>1. \A e \in ExecIds : exec[e].status # "NONE" => exec[e].req # r
  BY DEF StatusesAgree, ReviewOf, Agrees, Executed
<1>2. RowsAreWhole' /\ OneExecution' /\ KeysAreUnique' /\ RepliesAreBound' /\ WorkersRunOnce'
  BY DEF ReviewOf, RowsAreWhole, OneExecution, KeysAreUnique, RepliesAreBound, WorkersRunOnce
<1>4. StatusesAgree'
  BY <1>1 DEF ReviewOf, RowsAreWhole, StatusesAgree
<1>5. ExecutedHasRow'
  BY DEF ReviewOf, ExecutedHasRow
<1>6. OneReceiptPerOutcome'
  BY DEF ReviewOf, OneReceiptPerOutcome
<1>7. \A e \in ExecIds : ExecTrail(e)'
  BY TrailParts DEF ReviewOf, ExecTrail
<1> QED
  BY <1>2, <1>4, <1>5, <1>6, <1>7

(* Creation and submission leave the decisions alone: there are none yet. *)
LEMMA DraftStep ==
    ASSUME IInv, NEW r \in Requests,
           SubmitChangeRequest(r) \/ \E u \in Users : CreateChangeRequest(u, r)
    PROVE  IInv'
<1> USE DEF IInv
<1> USE ConstantsAssumption
<1>1. PICK x \in {"create", "submit"} :
         /\ trail' = [trail EXCEPT ![r] = Append(@, x)]
         /\ req[r].status \in {"NONE", "DRAFT"}
         /\ req'[r].status \in {"DRAFT", "REVIEW_REQUIRED"}
         /\ req' \in [Requests -> RequestRow]
         /\ \A s \in Requests : s # r => req'[s] = req[s]
         /\ UNCHANGED <<clock, stop, stops, approvals, exec, worker, runs, receipts, replies>>
  <2>1. CASE SubmitChangeRequest(r)
    <3>1. /\ req[r].status = "DRAFT"
          /\ req' = [req EXCEPT ![r].status = "REVIEW_REQUIRED", ![r].bound = TRUE]
          /\ trail' = [trail EXCEPT ![r] = Append(@, "submit")]
          /\ UNCHANGED <<clock, stop, stops, approvals, exec, worker, runs, receipts, replies>>
      BY <2>1, Zenon DEF SubmitChangeRequest, Audited
    <3>2. req \in [Requests -> RequestRow]
      BY DEF TypeOK
    <3>3. /\ req' \in [Requests -> RequestRow]
          /\ req'[r].status = "REVIEW_REQUIRED"
          /\ \A s \in Requests : s # r => req'[s] = req[s]
      BY <3>1, <3>2, SubmittedRow, Zenon
    <3> QED
      BY <3>1, <3>3
  <2>2. CASE \E u \in Users : CreateChangeRequest(u, r)
    BY <2>2, CreatedRow DEF CreateChangeRequest, Audited, TypeOK
  <2> QED
    BY <2>1, <2>2
<1>2. trail[r] \in Seq(AuditAction) /\ x \in AuditAction
  BY DEF TypeOK, AuditAction
<1>3. trail'[r] = Append(trail[r], x) /\ \A s \in Requests \cup ExecIds : s # r => trail'[s] = trail[s]
  BY <1>1 DEF TypeOK
<1>5. ReviewOf(r)
  BY <1>1, <1>3 DEF ReviewOf, Executed
<1>6. TypeOK'
  <2>1. trail' \in [Requests \cup ExecIds -> Seq(AuditAction)]
    BY <1>1, <1>2, Appended DEF TypeOK
  <2> QED
    BY <1>1, <2>1 DEF TypeOK
<1>7. \A a \in approvals : a.req # r
  BY <1>1 DEF Governed, DecisionsAreOfOthers
<1>8. \A s \in Requests : Approvers(s)' = Approvers(s)
  BY <1>1 DEF Approvers
<1>9. Governed'
  <2>1. \A a \in approvals : a.req \in Requests
    BY DEF TypeOK
  <2>2. DecisionsAreOfOthers' /\ OneDecisionEach' /\ DeniedIsDenied'
    BY <1>1, <1>7, <2>1 DEF Governed, DecisionsAreOfOthers, OneDecisionEach, DeniedIsDenied
  <2>3. FiniteApprovers' /\ QuorumBeforeApproved'
    BY <1>1, <1>8 DEF Governed, FiniteApprovers, QuorumBeforeApproved, Executed,
                            RequiredApprovals
  <2> QED
    BY <2>2, <2>3 DEF Governed
<1>10. \A s \in Requests : RequestTrail(s)'
  <2> SUFFICES ASSUME NEW s \in Requests PROVE RequestTrail(s)'
    OBVIOUS
  <2>1. RequestTrail(s)
    BY TrailParts
  <2>2. CASE s # r
    BY <2>1, <2>2, <1>3, <1>1, <1>8 DEF RequestTrail
  <2>3. CASE s = r
    <3>1. Entries(trail'[r], "approved") = Entries(trail[r], "approved")
      BY <1>2, <1>3, AppendedEntries
    <3>2. Entries(trail'[r], "denied") = Entries(trail[r], "denied")
      BY <1>2, <1>3, AppendedEntries
    <3> QED
      BY <2>1, <2>3, <3>1, <3>2, <1>1, <1>8 DEF RequestTrail
  <2> QED
    BY <2>2, <2>3
<1>11. TrailTellsStatus'
  <2>1. \A e \in ExecIds : ExecTrail(e)'
    BY <1>5, ReviewKeepsExecutions
  <2> QED
    BY <1>10, <2>1 DEF TrailTellsStatus, ExecTrail, RequestTrail, Entries
<1> QED
  BY <1>5, <1>6, <1>9, <1>11, ReviewKeepsExecutions

(* A decision: the decider is a new one of this request, and not its requester;
   an approval raises the count of approvers by one. *)
DecisionOf(u, r, d, st) ==
    /\ MayDecide(u, r)
    /\ approvals' = approvals \cup {[req |-> r, by |-> u, decision |-> d]}
    /\ req' = [req EXCEPT ![r].status = st]
    /\ UNCHANGED <<clock, stop, stops, exec, worker, runs, receipts, replies>>

(* What a decision does to the review, whichever way it goes. *)
LEMMA DecisionFacts ==
    ASSUME IInv, NEW u \in Users, NEW r \in Requests, NEW d \in {"APPROVED", "DENIED"},
           NEW st \in {"REVIEW_REQUIRED", "APPROVED", "DENIED"}, NEW x \in AuditAction,
           DecisionOf(u, r, d, st), Audited(r, x)
    PROVE  /\ TypeOK'
           /\ req[r].status = "REVIEW_REQUIRED"
           /\ req'[r].status = st
           /\ req'[r].bound
           /\ \A s \in Requests : s # r => req'[s] = req[s]
           /\ DecisionsAreOfOthers'
           /\ OneDecisionEach'
           /\ \A s \in Requests : s # r => Approvers(s)' = Approvers(s)
           /\ Approvers(r)' = Approvers(r) \cup (IF d = "APPROVED" THEN {u} ELSE {})
           /\ u \notin Approvers(r)
           /\ trail[r] \in Seq(AuditAction)
           /\ trail'[r] = Append(trail[r], x)
           /\ \A s \in Requests \cup ExecIds : s # r => trail'[s] = trail[s]
           /\ ReviewOf(r)
<1> USE DEF IInv
<1> DEFINE new == [req |-> r, by |-> u, decision |-> d]
<1>1. /\ req[r].status = "REVIEW_REQUIRED"
      /\ req[r].by # u
      /\ u \notin Deciders(r)
      /\ approvals' = approvals \cup {new}
      /\ req' = [req EXCEPT ![r].status = st]
      /\ UNCHANGED <<clock, stop, stops, exec, worker, runs, receipts, replies>>
  BY DEF DecisionOf, MayDecide
<1>2. /\ req' \in [Requests -> RequestRow]
      /\ req'[r].status = st
      /\ req'[r].by = req[r].by
      /\ req'[r].bound = req[r].bound
      /\ \A s \in Requests : s # r => req'[s] = req[s]
  <2>1. req \in [Requests -> RequestRow] /\ st \in RequestStatus
    BY DEF TypeOK, RequestStatus
  <2> QED
    BY <1>1, <2>1 DEF RequestRow
<1>3. req'[r].bound
  BY <1>2 DEF DecisionOf, MayDecide
<1>4. /\ trail[r] \in Seq(AuditAction)
      /\ trail'[r] = Append(trail[r], x)
      /\ \A s \in Requests \cup ExecIds : s # r => trail'[s] = trail[s]
      /\ trail' \in [Requests \cup ExecIds -> Seq(AuditAction)]
  <2>1. trail \in [Requests \cup ExecIds -> Seq(AuditAction)]
    BY DEF TypeOK
  <2>2. trail[r] \in Seq(AuditAction)
    BY <2>1
  <2>3. Append(trail[r], x) \in Seq(AuditAction)
    BY <2>2, Appended
  <2> QED
    BY <2>1, <2>2, <2>3 DEF Audited
<1>5. TypeOK'
  BY <1>1, <1>2, <1>4 DEF TypeOK
<1>6. \A a \in approvals : a.req = r => a.by # u
  BY <1>1 DEF Deciders
<1>7. \A a \in approvals : a.req \in Requests
  BY DEF TypeOK
<1>8. DecisionsAreOfOthers'
  <2>1. ASSUME NEW a \in approvals
        PROVE  a.by # req'[a.req].by /\ req'[a.req].status \notin {"NONE", "DRAFT"}
    BY <1>2, <1>7, <2>1 DEF Governed, DecisionsAreOfOthers
  <2>2. new.by # req'[new.req].by /\ req'[new.req].status \notin {"NONE", "DRAFT"}
    BY <1>1, <1>2
  <2> QED
    BY <1>1, <2>1, <2>2 DEF DecisionsAreOfOthers
<1>9. OneDecisionEach'
  BY <1>1, <1>6 DEF Governed, OneDecisionEach
<1>10. \A s \in Requests : s # r => Approvers(s)' = Approvers(s)
  BY <1>1 DEF Approvers
<1>11. Approvers(r)' = Approvers(r) \cup (IF d = "APPROVED" THEN {u} ELSE {})
  <2>1. CASE d = "APPROVED"
    <3> DEFINE old == {b \in approvals : b.req = r /\ b.decision = "APPROVED"}
    <3>1. {b \in approvals' : b.req = r /\ b.decision = "APPROVED"} = old \cup {new}
      BY <1>1, <2>1
    <3>2. new.by = u
      OBVIOUS
    <3> HIDE DEF old, new
    <3>3. {a.by : a \in old \cup {new}} = {a.by : a \in old} \cup {u}
      BY <3>2
    <3>4. Approvers(r)' = {a.by : a \in old \cup {new}} /\ Approvers(r) = {a.by : a \in old}
      BY <3>1 DEF Approvers, old
    <3> QED
      BY <2>1, <3>3, <3>4
  <2>2. CASE d = "DENIED"
    <3>1. {b \in approvals' : b.req = r /\ b.decision = "APPROVED"}
             = {b \in approvals : b.req = r /\ b.decision = "APPROVED"}
      BY <1>1, <2>2
    <3> QED
      BY <2>2, <3>1 DEF Approvers
  <2> QED
    BY <2>1, <2>2
<1>12. u \notin Approvers(r)
  BY <1>6 DEF Approvers
<1>13. ReviewOf(r)
  BY <1>1, <1>2, <1>4, ConstantsAssumption DEF ReviewOf, Executed
<1> QED
  BY <1>1, <1>2, <1>3, <1>4, <1>5, <1>8, <1>9, <1>10, <1>11, <1>12, <1>13

(* An approval: the count the code compares with the quorum is that of the
   approvers with the new one, because nobody is counted twice. *)
LEMMA ApproveStep ==
    ASSUME IInv, NEW u \in Users, NEW r \in Requests, ApproveChangeRequest(u, r)
    PROVE  IInv'
<1> USE DEF IInv
<1> DEFINE st == StatusAfterApproval(r, Cardinality(Approvers(r)) + 1)
<1>1. st \in {"REVIEW_REQUIRED", "APPROVED", "DENIED"} /\ st # "DENIED"
  BY DEF StatusAfterApproval
<1>2. DecisionOf(u, r, "APPROVED", st) /\ Audited(r, "approved")
  BY DEF ApproveChangeRequest, DecisionOf
<1> HIDE DEF st
<1>3. "approved" \in AuditAction
  BY DEF AuditAction
<1>4. /\ TypeOK'
      /\ req[r].status = "REVIEW_REQUIRED"
      /\ req'[r].status = st
      /\ req'[r].bound
      /\ \A s \in Requests : s # r => req'[s] = req[s]
      /\ DecisionsAreOfOthers'
      /\ OneDecisionEach'
      /\ \A s \in Requests : s # r => Approvers(s)' = Approvers(s)
      /\ Approvers(r)' = Approvers(r) \cup {u}
      /\ u \notin Approvers(r)
      /\ trail[r] \in Seq(AuditAction)
      /\ trail'[r] = Append(trail[r], "approved")
      /\ \A s \in Requests \cup ExecIds : s # r => trail'[s] = trail[s]
      /\ ReviewOf(r)
  BY <1>1, <1>2, <1>3, DecisionFacts
<1>5. IsFiniteSet(Approvers(r)) /\ Cardinality(Approvers(r)) \in Nat
  BY FS_CardinalityType DEF Governed, FiniteApprovers
<1>6. IsFiniteSet(Approvers(r)') /\ Cardinality(Approvers(r)') = Cardinality(Approvers(r)) + 1
  BY <1>4, <1>5, FS_AddElement
<1>7. st = "APPROVED" => Cardinality(Approvers(r)') >= RequiredApprovals(r)
  BY <1>6 DEF st, StatusAfterApproval
<1>8. DeniedIsDenied'
  <2>1. approvals' = approvals \cup {[req |-> r, by |-> u, decision |-> "APPROVED"]}
    BY <1>2 DEF DecisionOf
  <2>2. \A a \in approvals : a.req \in Requests
    BY DEF TypeOK
  <2>3. \A a \in approvals : a.decision = "DENIED" => a.req # r
    BY <1>4 DEF Governed, DeniedIsDenied
  <2> QED
    BY <1>4, <2>1, <2>2, <2>3 DEF Governed, DeniedIsDenied
<1>9. FiniteApprovers'
  BY <1>4, <1>6 DEF Governed, FiniteApprovers
<1>10. QuorumBeforeApproved'
  <2> SUFFICES ASSUME NEW s \in Requests, req'[s].status \in Executed \cup {"APPROVED"}
               PROVE  req'[s].bound /\ Cardinality(Approvers(s)') >= RequiredApprovals(s)
    BY DEF QuorumBeforeApproved, RequiredApprovals
  <2>1. CASE s # r
    BY <1>4, <2>1 DEF Governed, QuorumBeforeApproved
  <2>2. CASE s = r
    BY <1>1, <1>4, <1>7, <2>2 DEF Executed
  <2> QED
    BY <2>1, <2>2
<1>11. \A s \in Requests : RequestTrail(s)'
  <2> SUFFICES ASSUME NEW s \in Requests PROVE RequestTrail(s)'
    OBVIOUS
  <2>1. RequestTrail(s)
    BY TrailParts
  <2>2. CASE s # r
    BY <1>4, <2>1, <2>2 DEF RequestTrail
  <2>3. CASE s = r
    <3>1. Cardinality(Entries(trail'[r], "approved")) = Cardinality(Entries(trail[r], "approved")) + 1
      BY <1>3, <1>4, AppendedEntries
    <3>2. Entries(trail'[r], "denied") = Entries(trail[r], "denied")
      BY <1>3, <1>4, AppendedEntries
    <3> QED
      BY <1>1, <1>4, <1>6, <2>1, <2>3, <3>1, <3>2 DEF RequestTrail
  <2> QED
    BY <2>2, <2>3
<1>12. TrailTellsStatus'
  <2>1. \A e \in ExecIds : ExecTrail(e)'
    BY <1>4, ReviewKeepsExecutions
  <2> QED
    BY <1>11, <2>1 DEF TrailTellsStatus, ExecTrail, RequestTrail, Entries
<1> QED
  BY <1>4, <1>8, <1>9, <1>10, <1>12, ReviewKeepsExecutions DEF Governed

(* A denial ends the review: there was none before, and there is no quorum. *)
LEMMA DenyStep ==
    ASSUME IInv, NEW u \in Users, NEW r \in Requests, DenyChangeRequest(u, r)
    PROVE  IInv'
<1> USE DEF IInv
<1>1. DecisionOf(u, r, "DENIED", "DENIED") /\ Audited(r, "denied")
  BY DEF DenyChangeRequest, DecisionOf
<1>2. "denied" \in AuditAction
  BY DEF AuditAction
<1>3. /\ TypeOK'
      /\ req[r].status = "REVIEW_REQUIRED"
      /\ req'[r].status = "DENIED"
      /\ \A s \in Requests : s # r => req'[s] = req[s]
      /\ DecisionsAreOfOthers'
      /\ OneDecisionEach'
      /\ \A s \in Requests : Approvers(s)' = Approvers(s)
      /\ trail[r] \in Seq(AuditAction)
      /\ trail'[r] = Append(trail[r], "denied")
      /\ \A s \in Requests \cup ExecIds : s # r => trail'[s] = trail[s]
      /\ ReviewOf(r)
  BY <1>1, <1>2, DecisionFacts
<1>4. DeniedIsDenied'
  <2>1. approvals' = approvals \cup {[req |-> r, by |-> u, decision |-> "DENIED"]}
    BY <1>1 DEF DecisionOf
  <2>2. \A a \in approvals : a.req \in Requests
    BY DEF TypeOK
  <2> QED
    BY <1>3, <2>1, <2>2 DEF Governed, DeniedIsDenied
<1>5. FiniteApprovers'
  BY <1>3 DEF Governed, FiniteApprovers
<1>6. QuorumBeforeApproved'
  BY <1>3 DEF Governed, QuorumBeforeApproved, RequiredApprovals, Executed
<1>7. \A s \in Requests : RequestTrail(s)'
  <2> SUFFICES ASSUME NEW s \in Requests PROVE RequestTrail(s)'
    OBVIOUS
  <2>1. RequestTrail(s)
    BY TrailParts
  <2>2. CASE s # r
    BY <1>3, <2>1, <2>2 DEF RequestTrail
  <2>3. CASE s = r
    <3>1. Entries(trail'[r], "approved") = Entries(trail[r], "approved")
      BY <1>2, <1>3, AppendedEntries
    <3>2. Entries(trail'[r], "denied") # {}
      BY <1>2, <1>3, AppendedEntries
    <3> QED
      BY <1>3, <2>1, <2>3, <3>1, <3>2 DEF RequestTrail
  <2> QED
    BY <2>2, <2>3
<1>8. TrailTellsStatus'
  <2>1. \A e \in ExecIds : ExecTrail(e)'
    BY <1>3, ReviewKeepsExecutions
  <2> QED
    BY <1>7, <2>1 DEF TrailTellsStatus, ExecTrail, RequestTrail, Entries
<1> QED
  BY <1>3, <1>4, <1>5, <1>6, <1>8, ReviewKeepsExecutions DEF Governed
-----------------------------------------------------------------------------
(* A step of an execution takes its request, which has its quorum, to another
   status of an executed request; nobody decides anything in it. *)
ExecutionOf(r, st) ==
    /\ req[r].status \in Executed \cup {"APPROVED"}
    /\ st \in Executed
    /\ req' = [req EXCEPT ![r].status = st]
    /\ \A s \in Requests : trail'[s] = trail[s]
    /\ approvals' = approvals

(* So the review, and the trails of the requests, stay as they are. *)
LEMMA ExecutionKeepsReview ==
    ASSUME IInv, NEW r \in Requests, NEW st, ExecutionOf(r, st)
    PROVE  /\ Governed'
           /\ \A s \in Requests : RequestTrail(s)'
           /\ req' \in [Requests -> RequestRow]
           /\ req'[r].status = st
           /\ \A s \in Requests : s # r => req'[s] = req[s]
<1> USE DEF IInv
<1>1. /\ req[r].status \in Executed \cup {"APPROVED"}
      /\ st \in Executed
      /\ req' = [req EXCEPT ![r].status = st]
      /\ approvals' = approvals
  BY DEF ExecutionOf
<1>2. /\ req' \in [Requests -> RequestRow]
      /\ req'[r].status = st
      /\ req'[r].by = req[r].by
      /\ req'[r].bound = req[r].bound
      /\ \A s \in Requests : s # r => req'[s] = req[s]
  <2>1. req \in [Requests -> RequestRow] /\ st \in RequestStatus
    BY <1>1 DEF TypeOK, RequestStatus, Executed
  <2> QED
    BY <1>1, <2>1 DEF RequestRow
<1>3. \A s \in Requests : Approvers(s)' = Approvers(s)
  BY <1>1 DEF Approvers
<1>4. Governed'
  <2>1. \A a \in approvals : a.req \in Requests
    BY DEF TypeOK
  <2>2. \A a \in approvals : req'[a.req].by = req[a.req].by
    BY <1>2, <2>1
  <2>3. \A a \in approvals : req'[a.req].status = req[a.req].status
                             \/ a.req = r
    BY <1>2, <2>1
  <2>4. st \notin {"NONE", "DRAFT"} /\ req[r].status # "DENIED"
    BY <1>1 DEF Executed
  <2>5. DecisionsAreOfOthers' /\ OneDecisionEach' /\ DeniedIsDenied'
    BY <1>1, <1>2, <2>2, <2>3, <2>4
       DEF Governed, DecisionsAreOfOthers, OneDecisionEach, DeniedIsDenied
  <2>6. FiniteApprovers'
    BY <1>3 DEF Governed, FiniteApprovers
  <2>7. QuorumBeforeApproved'
    <3> SUFFICES ASSUME NEW s \in Requests, req'[s].status \in Executed \cup {"APPROVED"}
                 PROVE  req'[s].bound /\ Cardinality(Approvers(s)') >= RequiredApprovals(s)
      BY DEF QuorumBeforeApproved, RequiredApprovals
    <3>1. req[s].status \in Executed \cup {"APPROVED"}
      BY <1>1, <1>2
    <3>2. req'[s].bound = req[s].bound
      BY <1>2
    <3> QED
      BY <1>3, <3>1, <3>2 DEF Governed, QuorumBeforeApproved
  <2> QED
    BY <2>5, <2>6, <2>7 DEF Governed
<1>5. \A s \in Requests : RequestTrail(s)'
  <2>1. \A s \in Requests : req'[s].status = "DENIED" <=> req[s].status = "DENIED"
    BY <1>1, <1>2 DEF Executed
  <2> QED
    BY <1>3, <2>1, TrailParts DEF RequestTrail, ExecutionOf
<1> QED
  BY <1>2, <1>4, <1>5

(* The start: an approved request has no execution yet, the identifier and the
   key are new, and the trail of the execution is empty. *)
LEMMA StartStep ==
    ASSUME IInv, NEW r \in Requests, NEW k \in Keys \cup {NoKey}, NEW e \in ExecIds,
           StartExecution(r, k, e)
    PROVE  IInv'
<1> USE DEF IInv
<1> USE ConstantsAssumption
<1> DEFINE row == [status |-> "RUNNING", req |-> r, key |-> k, fence |-> 1,
                   lease |-> clock + LeaseSeconds]
<1>1. /\ Bound(k) = {}
      /\ req[r].status = "APPROVED"
      /\ exec[e] = NoExec
      /\ exec' = [exec EXCEPT ![e] = row]
      /\ req' = [req EXCEPT ![r].status = "RUNNING"]
      /\ worker' = [worker EXCEPT ![e] = "started"]
      /\ trail' = [trail EXCEPT ![e] = Append(@, "start")]
      /\ UNCHANGED <<clock, stop, stops, approvals, runs, receipts, replies>>
  BY DEF StartExecution, MayStart, Audited
<1>2. /\ row \in ExecRow
      /\ row.status = "RUNNING" /\ row.req = r /\ row.key = k /\ row.fence = 1
  BY DEF TypeOK, ExecRow, ExecStatus
<1> HIDE DEF row
<1>3. /\ exec' \in [ExecIds -> ExecRow]
      /\ exec'[e] = row
      /\ \A f \in ExecIds : f # e => exec'[f] = exec[f]
  BY <1>1, <1>2 DEF TypeOK
<1>4. /\ exec[e].status = "NONE"
      /\ exec[e].key = NoKey
  BY <1>1 DEF NoExec
<1>5. /\ trail' \in [Requests \cup ExecIds -> Seq(AuditAction)]
      /\ trail'[e] = Append(trail[e], "start")
      /\ \A s \in Requests \cup ExecIds : s # e => trail'[s] = trail[s]
  <2>1. trail \in [Requests \cup ExecIds -> Seq(AuditAction)] /\ "start" \in AuditAction
    BY DEF TypeOK, AuditAction
  <2>2. Append(trail[e], "start") \in Seq(AuditAction)
    BY <2>1, Appended
  <2> QED
    BY <1>1, <2>1, <2>2
<1>6. ExecutionOf(r, "RUNNING")
  BY <1>1, <1>5 DEF ExecutionOf, Executed
<1>7. /\ Governed'
      /\ \A s \in Requests : RequestTrail(s)'
      /\ req' \in [Requests -> RequestRow]
      /\ req'[r].status = "RUNNING"
      /\ \A s \in Requests : s # r => req'[s] = req[s]
  BY <1>6, ExecutionKeepsReview
<1>8. TypeOK'
  BY <1>1, <1>3, <1>5, <1>7 DEF TypeOK, WorkerPhase
<1>9. \A f \in ExecIds : exec[f].req # r
  <2>1. \A f \in ExecIds : exec[f].status # "NONE" => exec[f].req # r
    BY <1>1 DEF Executions, StatusesAgree, Agrees
  <2>2. \A f \in ExecIds : exec[f].status = "NONE" => exec[f].req # r
    BY DEF Executions, RowsAreWhole, NoExec
  <2> QED
    BY <2>1, <2>2
<1>10. \A f \in ExecIds : k # NoKey => exec[f].key # k
  BY <1>1 DEF Bound
<1>11. Executions'
  <2>1. RowsAreWhole'
    BY <1>2, <1>3 DEF Executions, RowsAreWhole
  <2>2. OneExecution'
    BY <1>2, <1>3, <1>9 DEF Executions, OneExecution
  <2>3. StatusesAgree'
    <3> SUFFICES ASSUME NEW f \in ExecIds, exec'[f].status # "NONE"
                 PROVE  Agrees(req'[exec'[f].req].status, exec'[f].status)
      BY DEF StatusesAgree, Agrees
    <3>1. CASE f = e
      BY <1>2, <1>3, <1>7, <3>1 DEF Agrees
    <3>2. CASE f # e
      <4>1. exec[f].req \in Requests
        BY <1>3, <3>2 DEF Executions, RowsAreWhole
      <4> QED
        BY <1>3, <1>7, <1>9, <3>2, <4>1 DEF Executions, StatusesAgree
    <3> QED
      BY <3>1, <3>2
  <2>4. ExecutedHasRow'
    <3> SUFFICES ASSUME NEW s \in Requests, req'[s].status \in Executed
                 PROVE  \E f \in ExecIds : exec'[f].req = s
      BY DEF ExecutedHasRow
    <3>1. CASE s = r
      BY <1>2, <1>3, <3>1
    <3>2. CASE s # r
      <4>1. PICK f \in ExecIds : exec[f].req = s
        BY <1>7, <3>2 DEF Executions, ExecutedHasRow
      <4>2. f # e
        BY <1>1, <4>1 DEF NoExec
      <4> QED
        BY <1>3, <4>1, <4>2
    <3> QED
      BY <3>1, <3>2
  <2>5. KeysAreUnique'
    BY <1>2, <1>3, <1>10 DEF Executions, KeysAreUnique
  <2>6. RepliesAreBound'
    <3>1. \A j \in Keys : replies[j] \subseteq ExecIds /\ j # NoKey
      BY DEF TypeOK
    <3> QED
      BY <1>1, <1>3, <1>4, <3>1 DEF Executions, RepliesAreBound
  <2>7. WorkersRunOnce'
    BY <1>1, <1>2, <1>3, <1>4 DEF Executions, WorkersRunOnce, TypeOK
  <2> QED
    BY <2>1, <2>2, <2>3, <2>4, <2>5, <2>6, <2>7 DEF Executions
<1>12. OneReceiptPerOutcome'
  <2>1. receipts' = receipts
    BY <1>1
  <2>2. \A f \in ExecIds : \/ exec'[f].status = exec[f].status
                           \/ exec[f].status \notin Terminal /\ exec'[f].status \notin Terminal
    BY <1>2, <1>3, <1>4 DEF Terminal
  <2> QED
    BY <2>1, <2>2 DEF OneReceiptPerOutcome
<1>13. \A f \in ExecIds : ExecTrail(f)'
  <2> SUFFICES ASSUME NEW f \in ExecIds PROVE ExecTrail(f)'
    OBVIOUS
  <2>1. ExecTrail(f)
    BY TrailParts
  <2>2. CASE f # e
    BY <1>3, <1>5, <2>1, <2>2 DEF ExecTrail
  <2>3. CASE f = e
    <3>1. trail[e] = <<>>
      BY <1>4, <2>1, <2>3 DEF ExecTrail
    <3>2. trail'[e] = <<"start">>
      BY <1>5, <3>1
    <3> QED
      BY <1>2, <1>3, <2>3, <3>2 DEF ExecTrail
  <2> QED
    BY <2>2, <2>3
<1>14. TrailTellsStatus'
  <2>1. \A s \in Requests : RequestTrail(s)'
    BY <1>7
  <2> QED
    BY <1>13, <2>1 DEF TrailTellsStatus, ExecTrail, RequestTrail, Entries
<1> QED
  BY <1>7, <1>8, <1>11, <1>12, <1>14

(* The same, of the receipts of this specification. *)
LEMMA OthersKeepReceipts ==
    ASSUME NEW e, NEW f \in ExecIds, f # e, NEW c \in Receipt, c.exec = e,
           receipts \in Seq(Receipt), receipts' = Append(receipts, c)
    PROVE  /\ Mine(receipts', f) = Mine(receipts, f)
           /\ \A i \in Mine(receipts, f) : receipts'[i] = receipts[i]
BY c.exec # f, ReceiptOfAnother

(* The first receipt of an execution is its only one. *)
LEMMA OneHasReceipt ==
    ASSUME NEW e \in ExecIds, NEW c \in Receipt, c.exec = e, Mine(receipts, e) = {},
           receipts \in Seq(Receipt), receipts' = Append(receipts, c)
    PROVE  /\ Cardinality(Mine(receipts', e)) = 1
           /\ \A i \in Mine(receipts', e) : receipts'[i] = c
<1>1. /\ Len(receipts) \in Nat
      /\ DOMAIN receipts = 1..Len(receipts)
      /\ DOMAIN receipts' = 1..(Len(receipts) + 1)
      /\ \A i \in 1..Len(receipts) : receipts'[i] = receipts[i]
      /\ receipts'[Len(receipts) + 1] = c
  BY Appended
<1>2. Mine(receipts', e) = {Len(receipts) + 1}
  BY <1>1 DEF Mine
<1> QED
  BY <1>1, <1>2, FS_Singleton

(* The receipt of an execution that ends is its first. *)
LEMMA ReceiptOfEnd ==
    ASSUME receipts \in Seq(Receipt), OneReceiptPerOutcome,
           NEW e \in ExecIds, NEW c \in Receipt, c.exec = e,
           receipts' = Append(receipts, c),
           exec[e].status \notin Terminal,
           exec'[e].status = c.status, c.status \in Terminal,
           \A f \in ExecIds : f # e => exec'[f].status = exec[f].status
    PROVE  OneReceiptPerOutcome'
<1> SUFFICES ASSUME NEW f \in ExecIds
             PROVE  IF exec'[f].status \in Terminal
                    THEN /\ Cardinality(Mine(receipts', f)) = 1
                         /\ \A i \in Mine(receipts', f) : receipts'[i].status = exec'[f].status
                    ELSE Mine(receipts', f) = {}
  BY DEF OneReceiptPerOutcome, Mine
<1>1. IF exec[f].status \in Terminal
      THEN /\ Cardinality(Mine(receipts, f)) = 1
           /\ \A i \in Mine(receipts, f) : receipts[i].status = exec[f].status
      ELSE Mine(receipts, f) = {}
  BY ReceiptParts
<1>2. CASE f # e
  <2>1. /\ Mine(receipts', f) = Mine(receipts, f)
        /\ \A i \in Mine(receipts, f) : receipts'[i] = receipts[i]
    BY <1>2, OthersKeepReceipts
  <2> QED
    BY <1>1, <1>2, <2>1
<1>3. CASE f = e
  <2>1. Mine(receipts, e) = {}
    BY <1>1, <1>3
  <2>2. /\ Cardinality(Mine(receipts', e)) = 1
        /\ \A i \in Mine(receipts', e) : receipts'[i] = c
    BY <2>1, OneHasReceipt
  <2> QED
    BY <1>3, <2>2
<1> QED
  BY <1>2, <1>3

(* An execution ends: the row keeps its request and its key, the request takes the
   status that agrees, one receipt and one entry of the trail say so. *)
EndOf(e, t, st) ==
    /\ exec[e].status = "RUNNING"
    /\ t \in Terminal
    /\ exec' \in [ExecIds -> ExecRow]
    /\ exec'[e].status = t /\ exec'[e].req = exec[e].req /\ exec'[e].key = exec[e].key
    /\ \A f \in ExecIds : f # e => exec'[f] = exec[f]
    /\ req' = [req EXCEPT ![exec[e].req].status = st]
    /\ Agrees(st, t)
    /\ receipts' = Append(receipts, [exec |-> e, status |-> t])
    /\ Audited(e, t)
    /\ approvals' = approvals

(* The end of an execution keeps everything but the workers and the replies. *)
LEMMA EndKeeps ==
    ASSUME IInv, NEW e \in ExecIds, NEW t, NEW st, EndOf(e, t, st)
    PROVE  /\ Governed'
           /\ RowsAreWhole' /\ OneExecution' /\ StatusesAgree' /\ ExecutedHasRow'
           /\ KeysAreUnique'
           /\ OneReceiptPerOutcome'
           /\ TrailTellsStatus'
           /\ req' \in [Requests -> RequestRow]
           /\ trail' \in [Requests \cup ExecIds -> Seq(AuditAction)]
           /\ receipts' \in Seq(Receipt)
<1> USE DEF IInv
<1> USE ConstantsAssumption
<1> DEFINE r == exec[e].req
<1>1. /\ exec[e].status = "RUNNING"
      /\ t \in Terminal
      /\ exec'[e].status = t /\ exec'[e].req = r /\ exec'[e].key = exec[e].key
      /\ \A f \in ExecIds : f # e => exec'[f] = exec[f]
      /\ req' = [req EXCEPT ![r].status = st]
      /\ receipts' = Append(receipts, [exec |-> e, status |-> t])
      /\ trail' = [trail EXCEPT ![e] = Append(@, t)]
      /\ approvals' = approvals
  BY DEF EndOf, Audited
<1>2. t # "NONE" /\ t # "RUNNING"
  BY <1>1 DEF Terminal
<1>3. r \in Requests /\ Agrees(req[r].status, "RUNNING")
  BY <1>1 DEF Executions, RowsAreWhole, StatusesAgree
<1>4. Agrees(st, t)
  BY DEF EndOf
<1>5. PICK c \in Receipt : c.exec = e /\ c.status = t /\ receipts' = Append(receipts, c)
  <2>1. [exec |-> e, status |-> t] \in Receipt
    BY <1>1 DEF Receipt
  <2> QED
    BY <1>1, <2>1
<1> HIDE DEF r
<1>6. /\ trail' \in [Requests \cup ExecIds -> Seq(AuditAction)]
      /\ trail'[e] = Append(trail[e], t)
      /\ \A s \in Requests \cup ExecIds : s # e => trail'[s] = trail[s]
  <2>1. trail \in [Requests \cup ExecIds -> Seq(AuditAction)] /\ t \in AuditAction
    BY <1>1 DEF TypeOK, AuditAction
  <2>2. Append(trail[e], t) \in Seq(AuditAction)
    BY <2>1, Appended
  <2> QED
    BY <1>1, <2>1, <2>2
<1>7. ExecutionOf(r, st)
  <2>1. req[r].status \in Executed /\ st \in Executed
    BY <1>3, <1>4 DEF Agrees, Executed
  <2>2. \A s \in Requests : trail'[s] = trail[s]
    BY <1>6
  <2> QED
    BY <1>1, <2>1, <2>2 DEF ExecutionOf
<1>8. /\ Governed'
      /\ req' \in [Requests -> RequestRow]
      /\ req'[r].status = st
      /\ \A s \in Requests : s # r => req'[s] = req[s]
  BY <1>3, <1>7, ExecutionKeepsReview
<1>9. \A s \in Requests : RequestTrail(s)'
  BY <1>3, <1>7, ExecutionKeepsReview
<1>10. \A f \in ExecIds : exec'[f].req = exec[f].req /\ exec'[f].key = exec[f].key
  BY <1>1 DEF r
<1>11. \A f \in ExecIds : exec'[f].status = "NONE" <=> exec[f].status = "NONE"
  BY <1>1, <1>2
<1>12. RowsAreWhole'
  BY <1>1, <1>2, <1>3 DEF Executions, RowsAreWhole
<1>13. OneExecution'
  BY <1>10, <1>11 DEF Executions, OneExecution
<1>14. StatusesAgree'
  <2> SUFFICES ASSUME NEW f \in ExecIds, exec'[f].status # "NONE"
               PROVE  Agrees(req'[exec'[f].req].status, exec'[f].status)
    BY DEF StatusesAgree, Agrees
  <2>1. CASE f = e
    BY <1>1, <1>4, <1>8, <2>1
  <2>2. CASE f # e
    <3>1. exec[f].status # "NONE" /\ exec'[f] = exec[f]
      BY <1>1, <2>2
    <3>2. exec[f].req \in Requests /\ exec[f].req # r
      BY <2>2, <3>1 DEF Executions, RowsAreWhole, OneExecution, r
    <3> QED
      BY <1>8, <3>1, <3>2 DEF Executions, StatusesAgree
  <2> QED
    BY <2>1, <2>2
<1>15. ExecutedHasRow'
  <2>1. req[r].status \in Executed
    BY <1>3 DEF Agrees, Executed
  <2>2. \A s \in Requests : req'[s].status \in Executed => req[s].status \in Executed
    BY <1>8, <2>1
  <2> QED
    BY <1>10, <2>2 DEF Executions, ExecutedHasRow
<1>16. KeysAreUnique'
  BY <1>10 DEF Executions, KeysAreUnique
<1>17. receipts \in Seq(Receipt)
  BY DEF TypeOK
<1>18. receipts' \in Seq(Receipt)
  BY <1>5, <1>17, Appended
<1>19. OneReceiptPerOutcome'
  <2>1. exec[e].status \notin Terminal
    BY <1>1 DEF Terminal
  <2>2. \A f \in ExecIds : f # e => exec'[f].status = exec[f].status
    BY <1>1
  <2> QED
    BY <1>1, <1>5, <1>17, <2>1, <2>2, ReceiptOfEnd
<1>20. \A f \in ExecIds : ExecTrail(f)'
  <2> SUFFICES ASSUME NEW f \in ExecIds PROVE ExecTrail(f)'
    OBVIOUS
  <2>1. ExecTrail(f)
    BY TrailParts
  <2>2. CASE f # e
    BY <1>1, <1>6, <2>1, <2>2 DEF ExecTrail
  <2>3. CASE f = e
    <3>1. trail[e] = <<"start">>
      BY <1>1, <2>1, <2>3 DEF ExecTrail
    <3>2. trail'[e] = <<"start", t>>
      <4>1. "start" \in AuditAction /\ t \in AuditAction
        BY <1>1 DEF AuditAction
      <4> QED
        BY <1>6, <3>1, <4>1, AppendedPair
    <3> QED
      BY <1>1, <1>2, <2>3, <3>2 DEF ExecTrail
  <2> QED
    BY <2>2, <2>3
<1>21. TrailTellsStatus'
  BY <1>9, <1>20 DEF TrailTellsStatus, ExecTrail, RequestTrail, Entries
<1> QED
  BY <1>6, <1>8, <1>12, <1>13, <1>14, <1>15, <1>16, <1>18, <1>19, <1>21

(* An answer to the caller names an execution that has the key. *)
LEMMA AnswerIsBound ==
    ASSUME IInv, NEW e \in ExecIds, Answered(e),
           \A f \in ExecIds : exec'[f].key = exec[f].key
    PROVE  replies' \in [Keys -> SUBSET ExecIds] /\ RepliesAreBound'
<1> USE DEF IInv
<1>1. replies \in [Keys -> SUBSET ExecIds] /\ exec[e].key \in Keys \cup {NoKey}
  BY DEF TypeOK, ExecRow
<1>2. replies' \in [Keys -> SUBSET ExecIds]
  BY <1>1 DEF Answered
<1>3. \A k \in Keys : \A f \in replies'[k] : f \in replies[k] \/ (f = e /\ k = exec[e].key)
  BY <1>1 DEF Answered
<1> QED
  BY <1>1, <1>2, <1>3 DEF Executions, RepliesAreBound

(* The completion under the fence of the start. *)
LEMMA CompleteStep ==
    ASSUME IInv, NEW e \in ExecIds, CompleteExecution(e)
    PROVE  IInv'
<1> USE DEF IInv
<1> DEFINE t == worker[e]
<1>1. /\ t \in {"SUCCEEDED", "FAILED"}
      /\ exec[e].status = "RUNNING"
      /\ exec' = [exec EXCEPT ![e].status = t, ![e].lease = NoLease]
      /\ req' = [req EXCEPT ![exec[e].req].status = RequestOutcome(t)]
      /\ receipts' = Append(receipts, [exec |-> e, status |-> t])
      /\ Audited(e, t)
      /\ worker' = [worker EXCEPT ![e] = "returned"]
      /\ Answered(e)
      /\ UNCHANGED <<clock, stop, stops, approvals, runs>>
  BY DEF CompleteExecution, CompletionMatches
<1> HIDE DEF t
<1>2. /\ exec' \in [ExecIds -> ExecRow]
      /\ exec'[e].status = t /\ exec'[e].req = exec[e].req /\ exec'[e].key = exec[e].key
      /\ \A f \in ExecIds : f # e => exec'[f] = exec[f]
  <2>1. exec \in [ExecIds -> ExecRow] /\ t \in ExecStatus
    BY <1>1 DEF TypeOK, ExecStatus
  <2> QED
    BY <1>1, <2>1 DEF ExecRow
<1>3. EndOf(e, t, RequestOutcome(t))
  BY <1>1, <1>2 DEF EndOf, Terminal, RequestOutcome, Agrees
<1>4. /\ Governed'
      /\ RowsAreWhole' /\ OneExecution' /\ StatusesAgree' /\ ExecutedHasRow'
      /\ KeysAreUnique'
      /\ OneReceiptPerOutcome'
      /\ TrailTellsStatus'
      /\ req' \in [Requests -> RequestRow]
      /\ trail' \in [Requests \cup ExecIds -> Seq(AuditAction)]
      /\ receipts' \in Seq(Receipt)
  BY <1>3, EndKeeps
<1>5. \A f \in ExecIds : exec'[f].key = exec[f].key
  BY <1>2
<1>6. replies' \in [Keys -> SUBSET ExecIds] /\ RepliesAreBound'
  BY <1>1, <1>5, AnswerIsBound
<1>7. WorkersRunOnce'
  BY <1>1, <1>2 DEF Executions, WorkersRunOnce, TypeOK
<1>8. TypeOK'
  <2>1. worker' \in [ExecIds -> WorkerPhase]
    BY <1>1 DEF TypeOK, WorkerPhase
  <2> QED
    BY <1>1, <1>2, <1>4, <1>6, <2>1 DEF TypeOK
<1> QED
  BY <1>4, <1>6, <1>7, <1>8 DEF Executions

(* The recovery of an execution whose lease expired, under a stop. *)
LEMMA RecoverStep ==
    ASSUME IInv, NEW e \in ExecIds, RecoverExecution(e)
    PROVE  IInv'
<1> USE DEF IInv
<1>1. /\ exec[e].status = "RUNNING"
      /\ exec' = [exec EXCEPT ![e].status = "INTERRUPTED", ![e].lease = NoLease,
                              ![e].fence = @ + 1]
      /\ req' = [req EXCEPT ![exec[e].req].status = "FAILED"]
      /\ receipts' = Append(receipts, [exec |-> e, status |-> "INTERRUPTED"])
      /\ Audited(e, "INTERRUPTED")
      /\ UNCHANGED <<clock, stop, stops, approvals, worker, runs, replies>>
  BY DEF RecoverExecution, MayRecover
<1>2. /\ exec' \in [ExecIds -> ExecRow]
      /\ exec'[e].status = "INTERRUPTED" /\ exec'[e].req = exec[e].req
      /\ exec'[e].key = exec[e].key
      /\ \A f \in ExecIds : f # e => exec'[f] = exec[f]
  <2>1. exec \in [ExecIds -> ExecRow] /\ "INTERRUPTED" \in ExecStatus
    BY DEF TypeOK, ExecStatus
  <2> QED
    BY <1>1, <2>1 DEF ExecRow
<1>3. EndOf(e, "INTERRUPTED", "FAILED")
  BY <1>1, <1>2 DEF EndOf, Terminal, Agrees
<1>4. /\ Governed'
      /\ RowsAreWhole' /\ OneExecution' /\ StatusesAgree' /\ ExecutedHasRow'
      /\ KeysAreUnique'
      /\ OneReceiptPerOutcome'
      /\ TrailTellsStatus'
      /\ req' \in [Requests -> RequestRow]
      /\ trail' \in [Requests \cup ExecIds -> Seq(AuditAction)]
      /\ receipts' \in Seq(Receipt)
  BY <1>3, EndKeeps
<1>5. RepliesAreBound'
  <2>1. \A k \in Keys : replies[k] \subseteq ExecIds
    BY DEF TypeOK
  <2> QED
    BY <1>1, <1>2, <2>1 DEF Executions, RepliesAreBound
<1>6. WorkersRunOnce'
  BY <1>1, <1>2 DEF Executions, WorkersRunOnce
<1>7. TypeOK'
  BY <1>1, <1>2, <1>4 DEF TypeOK
<1> QED
  BY <1>4, <1>5, <1>6, <1>7 DEF Executions

(* The steps that write no row of a request, an execution, a receipt or the
   trail keep what is said of those. *)
LEMMA RowsUntouched ==
    ASSUME IInv, UNCHANGED <<req, approvals, exec, receipts, trail>>
    PROVE  /\ Governed'
           /\ RowsAreWhole' /\ OneExecution' /\ StatusesAgree' /\ ExecutedHasRow'
           /\ KeysAreUnique'
           /\ OneReceiptPerOutcome'
           /\ TrailTellsStatus'
<1> USE DEF IInv
<1>1. \A r \in Requests : Approvers(r)' = Approvers(r)
  BY DEF Approvers
<1>2. Governed'
  BY <1>1 DEF Governed, DecisionsAreOfOthers, OneDecisionEach, DeniedIsDenied,
              FiniteApprovers, QuorumBeforeApproved, RequiredApprovals
<1>3. RowsAreWhole' /\ OneExecution' /\ StatusesAgree' /\ ExecutedHasRow' /\ KeysAreUnique'
  BY DEF Executions, RowsAreWhole, OneExecution, StatusesAgree, ExecutedHasRow, KeysAreUnique,
         Agrees
<1>4. OneReceiptPerOutcome'
  BY DEF OneReceiptPerOutcome
<1>5. TrailTellsStatus'
  <2>1. \A e \in ExecIds : ExecTrail(e)'
    BY TrailParts DEF ExecTrail
  <2>2. \A r \in Requests : RequestTrail(r)'
    BY <1>1, TrailParts DEF RequestTrail
  <2> QED
    BY <2>1, <2>2 DEF TrailTellsStatus, ExecTrail, RequestTrail, Entries
<1> QED
  BY <1>2, <1>3, <1>4, <1>5

(* The worker on its own: the adapter, the completion that finds its execution
   ended, the death of the process. *)
LEMMA WorkerAloneStep ==
    ASSUME IInv, NEW e \in ExecIds,
           \/ \E outcome \in {"SUCCEEDED", "FAILED"} : RunAdapter(e, outcome)
           \/ CompletionFenced(e)
           \/ LoseWorker(e)
    PROVE  IInv'
<1> USE DEF IInv
<1>1. UNCHANGED <<req, approvals, exec, receipts, trail>>
  BY DEF RunAdapter, CompletionFenced, LoseWorker
<1>2. /\ Governed'
      /\ RowsAreWhole' /\ OneExecution' /\ StatusesAgree' /\ ExecutedHasRow'
      /\ KeysAreUnique'
      /\ OneReceiptPerOutcome'
      /\ TrailTellsStatus'
  BY <1>1, RowsUntouched
<1>3. replies' \in [Keys -> SUBSET ExecIds] /\ RepliesAreBound'
  <2>1. CASE CompletionFenced(e)
    BY <1>1, <2>1, AnswerIsBound DEF CompletionFenced
  <2>2. CASE replies' = replies
    BY <1>1, <2>2 DEF Executions, RepliesAreBound, TypeOK
  <2> QED
    BY <2>1, <2>2 DEF RunAdapter, LoseWorker
<1>4. /\ worker' \in [ExecIds -> WorkerPhase]
      /\ runs' \in [ExecIds -> Nat]
      /\ WorkersRunOnce'
  <2>1. /\ worker \in [ExecIds -> WorkerPhase] /\ runs \in [ExecIds -> Nat]
        /\ WorkersRunOnce
    BY DEF TypeOK, Executions
  <2>2. ASSUME NEW outcome \in {"SUCCEEDED", "FAILED"}, RunAdapter(e, outcome)
        PROVE  <1>4!1 /\ <1>4!2 /\ <1>4!3
    BY <2>1, <2>2 DEF RunAdapter, WorkersRunOnce, WorkerPhase
  <2>3. CASE CompletionFenced(e)
    BY <2>1, <2>3 DEF CompletionFenced, WorkersRunOnce, WorkerPhase
  <2>4. CASE LoseWorker(e)
    BY <2>1, <2>4 DEF LoseWorker, WorkersRunOnce, WorkerPhase
  <2> QED
    BY <2>2, <2>3, <2>4
<1>5. TypeOK'
  <2>1. UNCHANGED <<clock, stop, stops>>
    BY DEF RunAdapter, CompletionFenced, LoseWorker
  <2> QED
    BY <1>1, <1>3, <1>4, <2>1 DEF TypeOK
<1> QED
  BY <1>2, <1>3, <1>4, <1>5 DEF Executions

(* A replay answers with the execution the key is bound to. *)
LEMMA ReplayStep ==
    ASSUME IInv, NEW r \in Requests, NEW k \in Keys \cup {NoKey}, ReplayExecution(r, k)
    PROVE  IInv'
<1> USE DEF IInv
<1>1. PICK e \in Bound(k) : replies' = [replies EXCEPT ![k] = @ \cup {e}]
  BY DEF ReplayExecution
<1>2. UNCHANGED <<clock, stop, stops, req, approvals, exec, worker, runs, receipts, trail>>
  BY DEF ReplayExecution
<1>3. e \in ExecIds /\ k \in Keys /\ exec[e].key = k
  BY DEF Bound
<1>4. /\ Governed'
      /\ RowsAreWhole' /\ OneExecution' /\ StatusesAgree' /\ ExecutedHasRow'
      /\ KeysAreUnique'
      /\ OneReceiptPerOutcome'
      /\ TrailTellsStatus'
  BY <1>2, RowsUntouched
<1>5. TypeOK'
  BY <1>1, <1>2, <1>3 DEF TypeOK
<1>6. RepliesAreBound' /\ WorkersRunOnce'
  BY <1>1, <1>2, <1>3 DEF Executions, RepliesAreBound, WorkersRunOnce, TypeOK
<1> QED
  BY <1>4, <1>5, <1>6 DEF Executions

(* The switch, the clock, and a step that changes nothing. *)
LEMMA SurroundingsStep ==
    ASSUME IInv,
           \/ \E active \in BOOLEAN : SetEmergencyStop(active)
           \/ ClockMoves
           \/ UNCHANGED vars
    PROVE  IInv'
<1> USE DEF IInv
<1>1. UNCHANGED <<req, approvals, exec, worker, runs, receipts, trail, replies>>
  BY DEF SetEmergencyStop, ClockMoves, vars
<1>2. /\ Governed'
      /\ RowsAreWhole' /\ OneExecution' /\ StatusesAgree' /\ ExecutedHasRow'
      /\ KeysAreUnique'
      /\ OneReceiptPerOutcome'
      /\ TrailTellsStatus'
  BY <1>1, RowsUntouched
<1>3. clock' \in Nat
  BY ConstantsAssumption DEF SetEmergencyStop, ClockMoves, vars, TypeOK
<1>4. stops' \in 0..MaxStops
  <2>1. MaxStops \in Nat /\ stops \in 0..MaxStops
    BY ConstantsAssumption DEF TypeOK
  <2>2. stops' = stops \/ (stops < MaxStops /\ stops' = stops + 1)
    BY DEF SetEmergencyStop, ClockMoves, vars
  <2> QED
    BY <2>1, <2>2
<1>5. stop' \in BOOLEAN
  <2>1. stop \in BOOLEAN
    BY DEF TypeOK
  <2>2. CASE \E active \in BOOLEAN : SetEmergencyStop(active)
    BY <2>2, Zenon DEF SetEmergencyStop
  <2>3. CASE ClockMoves \/ UNCHANGED vars
    BY <2>1, <2>3, Zenon DEF ClockMoves, vars
  <2> QED
    BY <2>2, <2>3
<1>6. TypeOK'
  BY <1>1, <1>3, <1>4, <1>5 DEF TypeOK
<1>7. RepliesAreBound' /\ WorkersRunOnce'
  BY <1>1 DEF Executions, RepliesAreBound, WorkersRunOnce
<1> QED
  BY <1>2, <1>6, <1>7 DEF Executions

(* Every step preserves the inductive invariant. *)
LEMMA NextIInv == IInv /\ [Next]_vars => IInv'
<1> SUFFICES ASSUME IInv, [Next]_vars PROVE IInv'
  OBVIOUS
<1>1. CASE Review
  BY <1>1, DraftStep, ApproveStep, DenyStep DEF Review
<1>2. CASE Execution
  <2>1. CASE \E r \in Requests, k \in Keys \cup {NoKey} :
                \/ ReplayExecution(r, k)
                \/ \E e \in ExecIds : StartExecution(r, k, e)
    BY <2>1, ReplayStep, StartStep
  <2>2. CASE \E e \in ExecIds : WorkerStep(e) \/ RecoverExecution(e) \/ LoseWorker(e)
    BY <2>2, WorkerAloneStep, CompleteStep, RecoverStep DEF WorkerStep
  <2> QED
    BY <1>2, <2>1, <2>2 DEF Execution
<1>3. CASE \/ \E active \in BOOLEAN : SetEmergencyStop(active)
           \/ ClockMoves
           \/ UNCHANGED vars
  BY <1>3, SurroundingsStep
<1> QED
  BY <1>1, <1>2, <1>3 DEF Next

(* The inductive invariant holds in every reachable state. *)
THEOREM Invariance == Spec => []IInv
BY InitIInv, NextIInv, PTL DEF Spec

(* Every variable of the lifecycle keeps its type: change_requests, approvals,
   executions, receipts and audit_events hold the rows their tables declare. *)
THEOREM TypeCorrect == Spec => []TypeOK
<1>1. IInv => TypeOK
  BY DEF IInv
<1> QED
  BY Invariance, <1>1, PTL

(* No order of drafts, submissions, decisions and starts executes a request
   without as many approvers as its environment asks for, other than the
   requester, and without a denial, for any number of people and requests. *)
THEOREM QuorumIsKept == Spec => []QuorumBeforeExecution
<1>1. ASSUME IInv PROVE QuorumBeforeExecution
  <2> USE <1>1 DEF IInv
  <2> SUFFICES ASSUME NEW e \in ExecIds, exec[e].status # "NONE"
               PROVE  /\ req[exec[e].req].bound
                      /\ Cardinality(Approvers(exec[e].req) \ {req[exec[e].req].by})
                            >= RequiredApprovals(exec[e].req)
                      /\ \A a \in approvals :
                            a.req = exec[e].req => a.decision = "APPROVED"
    BY DEF QuorumBeforeExecution
  <2> DEFINE r == exec[e].req
  <2>1. r \in Requests /\ req[r].status \in Executed
    BY DEF Executions, RowsAreWhole, StatusesAgree, Agrees, Executed
  <2> HIDE DEF r
  <2>2. req[r].bound /\ Cardinality(Approvers(r)) >= RequiredApprovals(r)
    BY <2>1 DEF Governed, QuorumBeforeApproved
  <2>3. req[r].by \notin Approvers(r)
    BY DEF Governed, DecisionsAreOfOthers, Approvers
  <2>4. Approvers(r) \ {req[r].by} = Approvers(r)
    BY <2>3
  <2>5. \A a \in approvals : a.req = r => a.decision = "APPROVED"
    <3>1. \A a \in approvals : a.decision \in {"APPROVED", "DENIED"}
      BY DEF TypeOK
    <3> QED
      BY <2>1, <3>1 DEF Governed, DeniedIsDenied, Executed
  <2> QED
    BY <2>2, <2>4, <2>5 DEF r
<1> QED
  BY Invariance, <1>1, PTL

(* A request and its execution never disagree, and a request is executed at most
   once, however starts, completions, recoveries and lost workers interleave. *)
THEOREM RequestsTrackExecutions == Spec => []RequestTracksExecution
<1>1. ASSUME IInv PROVE RequestTracksExecution
  <2> USE <1>1 DEF IInv
  <2> SUFFICES ASSUME NEW r \in Requests
               PROVE  /\ Cardinality(ExecutionsOf(r)) <= 1
                      /\ req[r].status \in {"RUNNING", "COMPLETED", "FAILED"}
                            <=> ExecutionsOf(r) # {}
                      /\ \A e \in ExecutionsOf(r) : Agrees(req[r].status, exec[e].status)
    BY DEF RequestTracksExecution
  <2>1. \A e \in ExecutionsOf(r) : e \in ExecIds /\ exec[e].req = r /\ exec[e].status # "NONE"
    BY ConstantsAssumption DEF ExecutionsOf, Executions, RowsAreWhole, NoExec
  <2>2. \A e, f \in ExecutionsOf(r) : e = f
    BY <2>1 DEF Executions, OneExecution
  <2>3. Cardinality(ExecutionsOf(r)) <= 1
    BY <2>2, AtMostOne
  <2>4. \A e \in ExecutionsOf(r) : Agrees(req[r].status, exec[e].status)
    BY <2>1 DEF Executions, StatusesAgree
  <2>5. req[r].status \in {"RUNNING", "COMPLETED", "FAILED"} <=> ExecutionsOf(r) # {}
    BY <2>4 DEF Executions, ExecutedHasRow, ExecutionsOf, Executed, Agrees
  <2> QED
    BY <2>3, <2>4, <2>5
<1> QED
  BY Invariance, <1>1, PTL

(* Every execution that ended has exactly one receipt, with the status it ended
   in, and no other has one: a late worker and a recovery never both write. *)
THEOREM ReceiptsAreExact == Spec => []OneReceiptPerOutcome
<1>1. IInv => OneReceiptPerOutcome
  BY DEF IInv
<1> QED
  BY Invariance, <1>1, PTL

(* The audit trail of every execution and every request tells its status. *)
THEOREM TrailIsTrue == Spec => []TrailTellsStatus
<1>1. IInv => TrailTellsStatus
  BY DEF IInv
<1> QED
  BY Invariance, <1>1, PTL

(* The adapter of a request runs at most once, across every retry and recovery. *)
THEOREM EffectsAreSingle == Spec => []AdapterRunsOnce
<1>1. ASSUME IInv PROVE AdapterRunsOnce
  <2> USE <1>1 DEF IInv
  <2> SUFFICES ASSUME NEW r \in Requests
               PROVE  /\ \A e \in ExecutionsOf(r) : runs[e] <= 1
                      /\ Cardinality({e \in ExecutionsOf(r) : runs[e] > 0}) <= 1
    BY DEF AdapterRunsOnce
  <2>1. \A e \in ExecutionsOf(r) : e \in ExecIds /\ exec[e].req = r /\ exec[e].status # "NONE"
    BY ConstantsAssumption DEF ExecutionsOf, Executions, RowsAreWhole, NoExec
  <2>2. \A e, f \in {d \in ExecutionsOf(r) : runs[d] > 0} : e = f
    BY <2>1 DEF Executions, OneExecution
  <2>3. Cardinality({e \in ExecutionsOf(r) : runs[e] > 0}) <= 1
    BY <2>2, AtMostOne
  <2> QED
    BY <2>1, <2>3 DEF Executions, WorkersRunOnce
<1> QED
  BY Invariance, <1>1, PTL

(* One idempotency key is answered with one execution, its own, for ever. *)
THEOREM KeysNameOne == Spec => []KeyNamesOneExecution
<1>1. ASSUME IInv PROVE KeyNamesOneExecution
  <2>1. \A k \in Keys : replies[k] \subseteq ExecIds /\ k # NoKey
    BY <1>1, ConstantsAssumption DEF IInv, TypeOK
  <2> QED
    BY <1>1, <2>1 DEF IInv, Executions, RepliesAreBound, KeysAreUnique, KeyNamesOneExecution
<1> QED
  BY Invariance, <1>1, PTL

(* An execution that ended is final: no later worker, recovery or retry changes
   its row. *)
THEOREM EndIsFinal == Spec => EndedStaysEnded
<1> DEFINE Final ==
      \A e \in ExecIds : exec[e].status \in Terminal => exec'[e] = exec[e]
<1>1. ASSUME IInv, [Next]_vars PROVE [Final]_vars
  <2>1. TypeOK
    BY <1>1 DEF IInv
  <2>2. CASE exec' = exec
    BY <2>2
  <2>3. ASSUME NEW d \in ExecIds, exec[d].status \notin Terminal,
               \A e \in ExecIds : e # d => exec'[e] = exec[e]
        PROVE  Final
    BY <2>3
  <2>4. ASSUME NEW r \in Requests, NEW k \in Keys \cup {NoKey}, NEW e \in ExecIds,
               StartExecution(r, k, e)
        PROVE  Final
    BY <2>1, <2>3, <2>4 DEF StartExecution, NoExec, Terminal, TypeOK
  <2>5. ASSUME NEW e \in ExecIds, CompleteExecution(e) PROVE Final
    BY <2>1, <2>3, <2>5 DEF CompleteExecution, CompletionMatches, Terminal, TypeOK
  <2>6. ASSUME NEW e \in ExecIds, RecoverExecution(e) PROVE Final
    BY <2>1, <2>3, <2>6 DEF RecoverExecution, MayRecover, Terminal, TypeOK
  <2>7. \/ exec' = exec
        \/ \E r \in Requests, k \in Keys \cup {NoKey}, e \in ExecIds : StartExecution(r, k, e)
        \/ \E e \in ExecIds : CompleteExecution(e) \/ RecoverExecution(e)
    BY <1>1 DEF Next, Review, Execution, WorkerStep, SubmitChangeRequest, CreateChangeRequest,
                ApproveChangeRequest, DenyChangeRequest, ReplayExecution, RunAdapter,
                CompletionFenced, LoseWorker, SetEmergencyStop, ClockMoves, vars
  <2> QED
    BY <2>2, <2>4, <2>5, <2>6, <2>7
<1> QED
  BY <1>1, Invariance, PTL DEF Spec, EndedStaysEnded
=============================================================================

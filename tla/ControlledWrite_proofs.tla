------------------------ MODULE ControlledWrite_proofs ------------------------
(***************************************************************************)
(* Proofs about ControlledWrite, for any number of creates and deletes of  *)
(* one ref, any commits, clocks, lease lengths and credential lifetimes.   *)
(***************************************************************************)
EXTENDS ControlledWrite, TLAPS

BeforeSend == {"idle", "leased", "delivered", "checked", "cleared"}
Succeeded == {"answered", "recorded", "receipted", "proved"}

(* A request is under way, or was carried out, at most once; only a success
   that the provider reported is acted upon, and only for the own lease. *)
Outcome ==
    \A p \in Ops :
        /\ phase[p] \in BeforeSend =>
              wire[p] = 0 /\ applied[p] = 0 /\ answer[p] = "none"
        /\ applied[p] + wire[p] <= 1
        /\ answer[p] = "success" => applied[p] = 1
        /\ phase[p] \in Succeeded => applied[p] = 1
        /\ state[p].status = "COMPLETED" => applied[p] = 1
        /\ held[p] # NoLease => held[p].adm = p

(* What a rollback saw is what the ref is while its version is the same, and
   its request is only sent when that is the expected commit. *)
Sighted ==
    \A p \in Deletes :
        /\ seen[p] # NoRead =>
              /\ seen[p].version <= version
              /\ seen[p].version = version => ref = seen[p].sha
        /\ phase[p] # "checked"
        /\ phase[p] = "delivered" => seen[p] # NoRead
        /\ (phase[p] \in {"cleared", "sent"} \/ wire[p] > 0) =>
              seen[p] # NoRead /\ seen[p].sha = CommitOf[p]
        /\ applied[p] = 0 => removed[p] = NoRead
        /\ removed[p] # NoRead => seen[p] # NoRead

(* A readback from before the effect is not dated after the receipt, as long as
   the clock was never moved back. *)
Dated ==
    \A p \in Deletes :
        /\ verifierObs[p] # NoRead /\ ~back => verifierObs[p].at <= clock
        /\ phase[p] \in {"receipted", "proved"} /\ verifierObs[p] # NoRead
           /\ ~back /\ ~verifierObs[p].afterEffect =>
              verifierObs[p].at <= recorded[p]
        /\ phase[p] = "proved" =>
              verifierObs[p] # NoRead /\ verifierObs[p].at >= recorded[p]

IInv == TypeOK /\ Outcome /\ Sighted /\ DeletesWhatItSaw /\ Dated
-----------------------------------------------------------------------------
(* The initial states satisfy the inductive invariant. *)
LEMMA InitIInv == Init => IInv
<1> SUFFICES ASSUME Init PROVE IInv
  OBVIOUS
<1> USE OpsAssumption DEF Init, Table!Init, Table!NoState, Ops
<1>1. TypeOK
  <2>1. Table!NoState \in [status : {"NONE", "ACTIVE", "COMPLETED"},
                           epoch : Nat, acquired : Nat, expires : Nat,
                           digest : Commits \cup {NoDigest}, completed : Nat]
    OBVIOUS
  <2>2. state \in [Admissions -> [status : {"NONE", "ACTIVE", "COMPLETED"},
                                 epoch : Nat, acquired : Nat, expires : Nat,
                                 digest : Commits \cup {NoDigest},
                                 completed : Nat]]
    BY <2>1
  <2>3. clock \in Nat /\ leases \subseteq Lease
    BY TimesAssumption
  <2>4. back \in BOOLEAN
    OBVIOUS
  <2>5. /\ ref \in Commits \cup {Absent} /\ version \in Nat
        /\ wire \in [Ops -> 0..1] /\ answer \in [Ops -> Answers]
        /\ phase \in [Ops -> Phases] /\ held \in [Ops -> Lease \cup {NoLease}]
    BY DEF Phases, Answers
  <2>6. /\ delivered \in [Ops -> Nat] /\ recorded \in [Ops -> Nat]
        /\ applied \in [Ops -> Nat]
    OBVIOUS
  <2>7. /\ seen \in [Deletes -> Seen \cup {NoRead}]
        /\ runnerObs \in [Deletes -> AbsenceRead \cup {NoRead}]
        /\ verifierObs \in [Deletes -> AbsenceRead \cup {NoRead}]
        /\ removed \in [Deletes -> Seen \cup {NoRead}]
    OBVIOUS
  <2> QED
    BY <2>2, <2>3, <2>4, <2>5, <2>6, <2>7 DEF TypeOK
<1>2. Outcome /\ Sighted
  BY DEF Outcome, Sighted, BeforeSend, Succeeded
<1>3. DeletesWhatItSaw /\ Dated
  BY DEF DeletesWhatItSaw, Dated
<1> QED
  BY <1>1, <1>2, <1>3 DEF IInv

(* Every step keeps the types. *)
LEMMA TypeStep == IInv /\ [Next]_vars => TypeOK'
<1> SUFFICES ASSUME IInv, [Next]_vars PROVE TypeOK'
  OBVIOUS
<1> USE OpsAssumption DEF IInv, provider, evidence, storeVars, Ops
<1>1. ASSUME NEW p \in Ops, AcquireLease(p) PROVE TypeOK'
  BY <1>1, LeaseSecondsAssumption DEF AcquireLease, Goto, Acquire, CandidateLease, NextEpoch, Lease, TypeOK, Phases
<1>2. ASSUME NEW p \in Ops, DeliverWrite(p) PROVE TypeOK'
  BY <1>2, CommitOfAssumption DEF DeliverWrite, Deliver, Goto, TypeOK, Phases, Answers
<1>3. ASSUME NEW p \in Ops, DeliverRollback(p) PROVE TypeOK'
  BY <1>3, CommitOfAssumption DEF DeliverRollback, Deliver, Goto, TypeOK, Phases, Answers
<1>4. ASSUME NEW p \in Ops, CheckCredential(p) PROVE TypeOK'
  BY <1>4, CommitOfAssumption DEF CheckCredential, Goto, TypeOK, Phases, Answers
<1>5. ASSUME NEW p \in Ops, ClearCreate(p) PROVE TypeOK'
  BY <1>5, CommitOfAssumption DEF ClearCreate, Goto, TypeOK, Phases, Answers
<1>6. ASSUME NEW p \in Ops, ClearDelete(p) PROVE TypeOK'
  BY <1>6, CommitOfAssumption DEF ClearDelete, Goto, SawExpected, TypeOK, Phases, Answers
<1>7. ASSUME NEW p \in Ops, Send(p) PROVE TypeOK'
  BY <1>7 DEF Send, Unused, TypeOK, Phases, Outcome, BeforeSend
<1>8. ASSUME NEW p \in Ops, Receive(p) PROVE TypeOK'
  BY <1>8, CommitOfAssumption DEF Receive, IsSuccess, TypeOK, Phases, Answers
<1>9. ASSUME NEW p \in Ops, TimeOut(p) PROVE TypeOK'
  BY <1>9, CommitOfAssumption DEF TimeOut, Goto, TypeOK, Phases, Answers
<1>10. ASSUME NEW p \in Ops, Record(p) PROVE TypeOK'
  <2>1. held[p] \in Lease /\ held[p].adm \in Admissions /\ CommitOf[p] \in Commits
    BY <1>10, CommitOfAssumption DEF Record, Complete, MayComplete, Lease, TypeOK
  <2>2. state' \in [Admissions -> [status : {"NONE", "ACTIVE", "COMPLETED"},
                                  epoch : Nat, acquired : Nat, expires : Nat,
                                  digest : Commits \cup {NoDigest},
                                  completed : Nat]]
    BY <1>10, <2>1 DEF Record, Complete, TypeOK
  <2> QED
    BY <1>10, <2>2 DEF Record, Goto, Complete, TypeOK, Phases
<1>11. ASSUME NEW p \in Ops, ComposeReceipt(p) PROVE TypeOK'
  BY <1>11, CommitOfAssumption DEF ComposeReceipt, Goto, TypeOK, Phases, Answers
<1>12. ASSUME NEW p \in Ops, Die(p) PROVE TypeOK'
  BY <1>12 DEF Die, TypeOK, Phases, Answers
<1>13. ASSUME NEW p \in Deletes, ReadBeforeDelete(p) PROVE TypeOK'
  BY <1>13 DEF ReadBeforeDelete, TypeOK, Seen
<1>14. ASSUME NEW p \in Deletes, RunnerSeesAbsence(p) PROVE TypeOK'
  BY <1>14 DEF RunnerSeesAbsence, ReadAbsence, TypeOK, AbsenceRead
<1>15. ASSUME NEW p \in Deletes, VerifierSeesAbsence(p) PROVE TypeOK'
  BY <1>15 DEF VerifierSeesAbsence, ReadAbsence, TypeOK, AbsenceRead
<1>16. ASSUME NEW p \in Deletes, Prove(p) PROVE TypeOK'
  BY <1>16, CommitOfAssumption DEF Prove, Goto, AbsenceVerified, TypeOK, Phases, Answers
<1>17. ASSUME NEW p \in Ops, Apply(p) PROVE TypeOK'
  <2>1. ref' \in Commits \cup {Absent} /\ version' \in Nat
    BY <1>17, CommitOfAssumption DEF Apply, TypeOK
  <2>2. removed' \in [Deletes -> Seen \cup {NoRead}]
    BY <1>17 DEF Apply, TypeOK, Seen
  <2>3. wire' \in [Ops -> 0..1] /\ applied' \in [Ops -> Nat]
    BY <1>17 DEF Apply, Serve, TypeOK
  <2>4. answer' \in [Ops -> Answers]
    BY <1>17 DEF Apply, Serve, TypeOK, Answers
  <2> QED
    BY <1>17, <2>1, <2>2, <2>3, <2>4 DEF Apply, Serve, TypeOK
<1>18. ASSUME NEW p \in Ops, Refuse(p) PROVE TypeOK'
  BY <1>18, CommitOfAssumption DEF Refuse, Serve, TypeOK, Phases, Answers
<1>19. CASE Outsider
  BY <1>19, CommitOfAssumption DEF Outsider, TypeOK, Phases, Answers
<1>20. CASE MoveClock
  BY <1>20, TimesAssumption DEF MoveClock, ClockMoves, TypeOK
<1>21. CASE UNCHANGED vars
  BY <1>21 DEF vars, TypeOK, Phases, Answers
<1> QED
  BY <1>1, <1>2, <1>3, <1>4, <1>5, <1>6, <1>7, <1>8, <1>9, <1>10, <1>11, <1>12, <1>13, <1>14, <1>15, <1>16, <1>17, <1>18, <1>19, <1>20, <1>21 DEF Next, OpStep, RollbackStep, Await

(* Every step keeps Outcome. *)
LEMMA OutcomeStep == IInv /\ [Next]_vars => Outcome'
<1> SUFFICES ASSUME IInv, [Next]_vars PROVE Outcome'
  OBVIOUS
<1> USE OpsAssumption DEF IInv, provider, evidence, storeVars, Ops
<1>1. ASSUME NEW p \in Ops, AcquireLease(p) PROVE Outcome'
  BY <1>1 DEF AcquireLease, Goto, Acquire, CandidateLease, Outcome, BeforeSend, Succeeded, TypeOK
<1>2. ASSUME NEW p \in Ops, DeliverWrite(p) PROVE Outcome'
  BY <1>2 DEF DeliverWrite, Deliver, Goto, Outcome, BeforeSend, Succeeded, TypeOK
<1>3. ASSUME NEW p \in Ops, DeliverRollback(p) PROVE Outcome'
  BY <1>3 DEF DeliverRollback, Deliver, Goto, Outcome, BeforeSend, Succeeded, TypeOK
<1>4. ASSUME NEW p \in Ops, CheckCredential(p) PROVE Outcome'
  BY <1>4 DEF CheckCredential, Goto, Outcome, BeforeSend, Succeeded, TypeOK
<1>5. ASSUME NEW p \in Ops, ClearCreate(p) PROVE Outcome'
  BY <1>5 DEF ClearCreate, Goto, Outcome, BeforeSend, Succeeded, TypeOK
<1>6. ASSUME NEW p \in Ops, ClearDelete(p) PROVE Outcome'
  BY <1>6 DEF ClearDelete, Goto, SawExpected, Outcome, BeforeSend, Succeeded, TypeOK
<1>7. ASSUME NEW p \in Ops, Send(p) PROVE Outcome'
  BY <1>7 DEF Send, Unused, Outcome, BeforeSend, Succeeded, TypeOK
<1>8. ASSUME NEW p \in Ops, Receive(p) PROVE Outcome'
  BY <1>8 DEF Receive, IsSuccess, Outcome, BeforeSend, Succeeded, TypeOK
<1>9. ASSUME NEW p \in Ops, TimeOut(p) PROVE Outcome'
  BY <1>9 DEF TimeOut, Goto, Outcome, BeforeSend, Succeeded, TypeOK
<1>10. ASSUME NEW p \in Ops, Record(p) PROVE Outcome'
  BY <1>10, NoLeaseReadAssumption DEF Record, Goto, Complete, MayComplete, Outcome, BeforeSend, Succeeded, TypeOK
<1>11. ASSUME NEW p \in Ops, ComposeReceipt(p) PROVE Outcome'
  BY <1>11 DEF ComposeReceipt, Goto, Outcome, BeforeSend, Succeeded, TypeOK
<1>12. ASSUME NEW p \in Ops, Die(p) PROVE Outcome'
  BY <1>12 DEF Die, Outcome, BeforeSend, Succeeded, TypeOK
<1>13. ASSUME NEW p \in Deletes, ReadBeforeDelete(p) PROVE Outcome'
  BY <1>13 DEF ReadBeforeDelete, Outcome, BeforeSend, Succeeded, TypeOK
<1>14. ASSUME NEW p \in Deletes, RunnerSeesAbsence(p) PROVE Outcome'
  BY <1>14 DEF RunnerSeesAbsence, ReadAbsence, HasBoundary, Outcome, BeforeSend, Succeeded, TypeOK
<1>15. ASSUME NEW p \in Deletes, VerifierSeesAbsence(p) PROVE Outcome'
  BY <1>15 DEF VerifierSeesAbsence, ReadAbsence, HasBoundary, Outcome, BeforeSend, Succeeded, TypeOK
<1>16. ASSUME NEW p \in Deletes, Prove(p) PROVE Outcome'
  BY <1>16 DEF Prove, Goto, AbsenceVerified, Outcome, BeforeSend, Succeeded, TypeOK
<1>17. ASSUME NEW p \in Ops, Apply(p) PROVE Outcome'
  BY <1>17 DEF Apply, Serve, Outcome, BeforeSend, Succeeded, TypeOK
<1>18. ASSUME NEW p \in Ops, Refuse(p) PROVE Outcome'
  BY <1>18 DEF Refuse, Serve, Outcome, BeforeSend, Succeeded, TypeOK
<1>19. CASE Outsider
  BY <1>19 DEF Outsider, Outcome, BeforeSend, Succeeded, TypeOK
<1>20. CASE MoveClock
  BY <1>20 DEF MoveClock, ClockMoves, Outcome, BeforeSend, Succeeded, TypeOK
<1>21. CASE UNCHANGED vars
  BY <1>21 DEF vars, Outcome, BeforeSend, Succeeded, TypeOK
<1> QED
  BY <1>1, <1>2, <1>3, <1>4, <1>5, <1>6, <1>7, <1>8, <1>9, <1>10, <1>11, <1>12, <1>13, <1>14, <1>15, <1>16, <1>17, <1>18, <1>19, <1>20, <1>21 DEF Next, OpStep, RollbackStep, Await

(* Every step keeps Sighted. *)
LEMMA SightedStep == IInv /\ [Next]_vars => Sighted'
<1> SUFFICES ASSUME IInv, [Next]_vars PROVE Sighted'
  OBVIOUS
<1> USE OpsAssumption DEF IInv, provider, evidence, storeVars, Ops
<1>1. ASSUME NEW p \in Ops, AcquireLease(p) PROVE Sighted'
  BY <1>1 DEF AcquireLease, Goto, Acquire, Sighted, TypeOK
<1>2. ASSUME NEW p \in Ops, DeliverWrite(p) PROVE Sighted'
  BY <1>2 DEF DeliverWrite, Deliver, Goto, Sighted, TypeOK
<1>3. ASSUME NEW p \in Ops, DeliverRollback(p) PROVE Sighted'
  BY <1>3 DEF DeliverRollback, Deliver, Goto, Sighted, TypeOK
<1>4. ASSUME NEW p \in Ops, CheckCredential(p) PROVE Sighted'
  BY <1>4 DEF CheckCredential, Goto, Sighted, TypeOK
<1>5. ASSUME NEW p \in Ops, ClearCreate(p) PROVE Sighted'
  BY <1>5 DEF ClearCreate, Goto, Sighted, TypeOK
<1>6. ASSUME NEW p \in Ops, ClearDelete(p) PROVE Sighted'
  BY <1>6 DEF ClearDelete, Goto, SawExpected, Sighted, TypeOK
<1>7. ASSUME NEW p \in Ops, Send(p) PROVE Sighted'
  BY <1>7 DEF Send, Unused, Sighted, TypeOK
<1>8. ASSUME NEW p \in Ops, Receive(p) PROVE Sighted'
  BY <1>8 DEF Receive, IsSuccess, Sighted, TypeOK
<1>9. ASSUME NEW p \in Ops, TimeOut(p) PROVE Sighted'
  BY <1>9 DEF TimeOut, Goto, Sighted, TypeOK
<1>10. ASSUME NEW p \in Ops, Record(p) PROVE Sighted'
  BY <1>10 DEF Record, Goto, Complete, MayComplete, Sighted, TypeOK
<1>11. ASSUME NEW p \in Ops, ComposeReceipt(p) PROVE Sighted'
  BY <1>11 DEF ComposeReceipt, Goto, Sighted, TypeOK
<1>12. ASSUME NEW p \in Ops, Die(p) PROVE Sighted'
  BY <1>12 DEF Die, Sighted, TypeOK
<1>13. ASSUME NEW p \in Deletes, ReadBeforeDelete(p) PROVE Sighted'
  BY <1>13 DEF ReadBeforeDelete, Sighted, Outcome, BeforeSend, TypeOK, Seen
<1>14. ASSUME NEW p \in Deletes, RunnerSeesAbsence(p) PROVE Sighted'
  BY <1>14 DEF RunnerSeesAbsence, ReadAbsence, HasBoundary, Sighted, TypeOK
<1>15. ASSUME NEW p \in Deletes, VerifierSeesAbsence(p) PROVE Sighted'
  BY <1>15 DEF VerifierSeesAbsence, ReadAbsence, HasBoundary, Sighted, TypeOK
<1>16. ASSUME NEW p \in Deletes, Prove(p) PROVE Sighted'
  BY <1>16 DEF Prove, Goto, AbsenceVerified, Sighted, TypeOK
<1>17. ASSUME NEW p \in Ops, Apply(p) PROVE Sighted'
  <2>1. version' = version + 1 /\ version \in Nat /\ wire[p] = 1 /\ applied'[p] = 1
    BY <1>17 DEF Apply, Serve, TypeOK, Outcome
  <2>2. ASSUME NEW q \in Deletes, seen[q] # NoRead PROVE seen[q].version < version'
    BY <2>1, <2>2 DEF Sighted, TypeOK, Seen
  <2>3. ASSUME NEW q \in Deletes, removed'[q] # NoRead PROVE seen[q] # NoRead /\ applied'[q] # 0
    BY <1>17, <2>1, <2>3 DEF Apply, Serve, Sighted, TypeOK
  <2>4. ASSUME NEW q \in Deletes, wire'[q] > 0 PROVE wire[q] > 0
    BY <1>17, <2>4 DEF Apply, Serve, TypeOK
  <2>5. seen' = seen /\ phase' = phase
    BY <1>17 DEF Apply, Serve
  <2>6. ASSUME NEW q \in Deletes, seen[q] # NoRead PROVE seen[q].version \in Nat
    BY <2>6 DEF TypeOK, Seen
  <2> QED
    BY <2>1, <2>2, <2>3, <2>4, <2>5, <2>6 DEF Sighted
<1>18. ASSUME NEW p \in Ops, Refuse(p) PROVE Sighted'
  BY <1>18 DEF Refuse, Serve, Sighted, TypeOK
<1>19. CASE Outsider
  BY <1>19 DEF Outsider, Sighted, TypeOK, Seen
<1>20. CASE MoveClock
  BY <1>20 DEF MoveClock, ClockMoves, Sighted, TypeOK
<1>21. CASE UNCHANGED vars
  BY <1>21 DEF vars, Sighted, TypeOK
<1> QED
  BY <1>1, <1>2, <1>3, <1>4, <1>5, <1>6, <1>7, <1>8, <1>9, <1>10, <1>11, <1>12, <1>13, <1>14, <1>15, <1>16, <1>17, <1>18, <1>19, <1>20, <1>21 DEF Next, OpStep, RollbackStep, Await

(* Every step keeps DeletesWhatItSaw. *)
LEMMA DeletesStep == IInv /\ [Next]_vars => DeletesWhatItSaw'
<1> SUFFICES ASSUME IInv, [Next]_vars PROVE DeletesWhatItSaw'
  OBVIOUS
<1> USE OpsAssumption DEF IInv, provider, evidence, storeVars, Ops
<1>1. ASSUME NEW p \in Ops, AcquireLease(p) PROVE DeletesWhatItSaw'
  BY <1>1 DEF AcquireLease, Goto, Acquire, DeletesWhatItSaw, TypeOK
<1>2. ASSUME NEW p \in Ops, DeliverWrite(p) PROVE DeletesWhatItSaw'
  BY <1>2 DEF DeliverWrite, Deliver, Goto, DeletesWhatItSaw, TypeOK
<1>3. ASSUME NEW p \in Ops, DeliverRollback(p) PROVE DeletesWhatItSaw'
  BY <1>3 DEF DeliverRollback, Deliver, Goto, DeletesWhatItSaw, TypeOK
<1>4. ASSUME NEW p \in Ops, CheckCredential(p) PROVE DeletesWhatItSaw'
  BY <1>4 DEF CheckCredential, Goto, DeletesWhatItSaw, TypeOK
<1>5. ASSUME NEW p \in Ops, ClearCreate(p) PROVE DeletesWhatItSaw'
  BY <1>5 DEF ClearCreate, Goto, DeletesWhatItSaw, TypeOK
<1>6. ASSUME NEW p \in Ops, ClearDelete(p) PROVE DeletesWhatItSaw'
  BY <1>6 DEF ClearDelete, Goto, SawExpected, DeletesWhatItSaw, TypeOK
<1>7. ASSUME NEW p \in Ops, Send(p) PROVE DeletesWhatItSaw'
  BY <1>7 DEF Send, Unused, DeletesWhatItSaw, TypeOK
<1>8. ASSUME NEW p \in Ops, Receive(p) PROVE DeletesWhatItSaw'
  BY <1>8 DEF Receive, IsSuccess, DeletesWhatItSaw, TypeOK
<1>9. ASSUME NEW p \in Ops, TimeOut(p) PROVE DeletesWhatItSaw'
  BY <1>9 DEF TimeOut, Goto, DeletesWhatItSaw, TypeOK
<1>10. ASSUME NEW p \in Ops, Record(p) PROVE DeletesWhatItSaw'
  BY <1>10 DEF Record, Goto, Complete, MayComplete, DeletesWhatItSaw, TypeOK
<1>11. ASSUME NEW p \in Ops, ComposeReceipt(p) PROVE DeletesWhatItSaw'
  BY <1>11 DEF ComposeReceipt, Goto, DeletesWhatItSaw, TypeOK
<1>12. ASSUME NEW p \in Ops, Die(p) PROVE DeletesWhatItSaw'
  BY <1>12 DEF Die, DeletesWhatItSaw, TypeOK
<1>13. ASSUME NEW p \in Deletes, ReadBeforeDelete(p) PROVE DeletesWhatItSaw'
  BY <1>13 DEF ReadBeforeDelete, DeletesWhatItSaw, Sighted, Outcome, BeforeSend, TypeOK
<1>14. ASSUME NEW p \in Deletes, RunnerSeesAbsence(p) PROVE DeletesWhatItSaw'
  BY <1>14 DEF RunnerSeesAbsence, ReadAbsence, HasBoundary, DeletesWhatItSaw, TypeOK
<1>15. ASSUME NEW p \in Deletes, VerifierSeesAbsence(p) PROVE DeletesWhatItSaw'
  BY <1>15 DEF VerifierSeesAbsence, ReadAbsence, HasBoundary, DeletesWhatItSaw, TypeOK
<1>16. ASSUME NEW p \in Deletes, Prove(p) PROVE DeletesWhatItSaw'
  BY <1>16 DEF Prove, Goto, AbsenceVerified, DeletesWhatItSaw, TypeOK
<1>17. ASSUME NEW p \in Ops, Apply(p) PROVE DeletesWhatItSaw'
  <2> SUFFICES ASSUME NEW q \in Deletes, removed'[q] # NoRead,
                      removed'[q].version = seen[q].version
               PROVE  removed'[q].sha = CommitOf[q]
    BY <1>17 DEF Apply, Serve, DeletesWhatItSaw
  <2>1. CASE removed'[q] = removed[q]
    BY <2>1 DEF DeletesWhatItSaw
  <2>2. CASE removed'[q] # removed[q]
    <3>1. q = p /\ removed'[q] = [sha |-> ref, version |-> version] /\ wire[q] > 0
      BY <1>17, <2>2 DEF Apply, Serve, TypeOK
    <3> QED
      BY <3>1 DEF Sighted
  <2> QED
    BY <2>1, <2>2
<1>18. ASSUME NEW p \in Ops, Refuse(p) PROVE DeletesWhatItSaw'
  BY <1>18 DEF Refuse, Serve, DeletesWhatItSaw, TypeOK
<1>19. CASE Outsider
  BY <1>19 DEF Outsider, DeletesWhatItSaw, TypeOK
<1>20. CASE MoveClock
  BY <1>20 DEF MoveClock, ClockMoves, DeletesWhatItSaw, TypeOK
<1>21. CASE UNCHANGED vars
  BY <1>21 DEF vars, DeletesWhatItSaw, TypeOK
<1> QED
  BY <1>1, <1>2, <1>3, <1>4, <1>5, <1>6, <1>7, <1>8, <1>9, <1>10, <1>11, <1>12, <1>13, <1>14, <1>15, <1>16, <1>17, <1>18, <1>19, <1>20, <1>21 DEF Next, OpStep, RollbackStep, Await

(* Every step keeps Dated. *)
LEMMA DatedStep == IInv /\ [Next]_vars => Dated'
<1> SUFFICES ASSUME IInv, [Next]_vars PROVE Dated'
  OBVIOUS
<1> USE OpsAssumption DEF IInv, provider, evidence, storeVars, Ops
<1>1. ASSUME NEW p \in Ops, AcquireLease(p) PROVE Dated'
  BY <1>1 DEF AcquireLease, Goto, Acquire, Dated, TypeOK
<1>2. ASSUME NEW p \in Ops, DeliverWrite(p) PROVE Dated'
  BY <1>2 DEF DeliverWrite, Deliver, Goto, Dated, TypeOK
<1>3. ASSUME NEW p \in Ops, DeliverRollback(p) PROVE Dated'
  BY <1>3 DEF DeliverRollback, Deliver, Goto, Dated, TypeOK
<1>4. ASSUME NEW p \in Ops, CheckCredential(p) PROVE Dated'
  BY <1>4 DEF CheckCredential, Goto, Dated, TypeOK
<1>5. ASSUME NEW p \in Ops, ClearCreate(p) PROVE Dated'
  BY <1>5 DEF ClearCreate, Goto, Dated, TypeOK
<1>6. ASSUME NEW p \in Ops, ClearDelete(p) PROVE Dated'
  BY <1>6 DEF ClearDelete, Goto, SawExpected, Dated, TypeOK
<1>7. ASSUME NEW p \in Ops, Send(p) PROVE Dated'
  BY <1>7 DEF Send, Unused, Dated, TypeOK
<1>8. ASSUME NEW p \in Ops, Receive(p) PROVE Dated'
  BY <1>8 DEF Receive, IsSuccess, Dated, TypeOK
<1>9. ASSUME NEW p \in Ops, TimeOut(p) PROVE Dated'
  BY <1>9 DEF TimeOut, Goto, Dated, TypeOK
<1>10. ASSUME NEW p \in Ops, Record(p) PROVE Dated'
  BY <1>10 DEF Record, Goto, Complete, MayComplete, Dated, TypeOK
<1>11. ASSUME NEW p \in Ops, ComposeReceipt(p) PROVE Dated'
  BY <1>11 DEF ComposeReceipt, Goto, Dated, TypeOK
<1>12. ASSUME NEW p \in Ops, Die(p) PROVE Dated'
  BY <1>12 DEF Die, Dated, TypeOK
<1>13. ASSUME NEW p \in Deletes, ReadBeforeDelete(p) PROVE Dated'
  BY <1>13 DEF ReadBeforeDelete, Dated, TypeOK
<1>14. ASSUME NEW p \in Deletes, RunnerSeesAbsence(p) PROVE Dated'
  BY <1>14 DEF RunnerSeesAbsence, ReadAbsence, HasBoundary, Dated, TypeOK
<1>15. ASSUME NEW p \in Deletes, VerifierSeesAbsence(p) PROVE Dated'
  <2>1. verifierObs' = [verifierObs EXCEPT ![p] = [at |-> clock, afterEffect |-> applied[p] > 0]]
    BY <1>15 DEF VerifierSeesAbsence, ReadAbsence
  <2>2. phase[p] # "proved" /\ (phase[p] = "receipted" => applied[p] > 0)
    BY <1>15 DEF VerifierSeesAbsence, HasBoundary, Outcome, Succeeded
  <2>3. /\ verifierObs'[p].at = clock /\ clock \in Nat
        /\ applied[p] > 0 => verifierObs'[p].afterEffect
        /\ \A q \in Deletes : q # p => verifierObs'[q] = verifierObs[q]
    BY <2>1 DEF TypeOK
  <2>4. UNCHANGED <<clock, phase, recorded, back>>
    BY <1>15 DEF VerifierSeesAbsence
  <2> QED
    BY <2>2, <2>3, <2>4 DEF Dated
<1>16. ASSUME NEW p \in Deletes, Prove(p) PROVE Dated'
  BY <1>16 DEF Prove, Goto, AbsenceVerified, Dated, TypeOK
<1>17. ASSUME NEW p \in Ops, Apply(p) PROVE Dated'
  BY <1>17 DEF Apply, Serve, Dated, TypeOK
<1>18. ASSUME NEW p \in Ops, Refuse(p) PROVE Dated'
  BY <1>18 DEF Refuse, Serve, Dated, TypeOK
<1>19. CASE Outsider
  BY <1>19 DEF Outsider, Dated, TypeOK
<1>20. CASE MoveClock
  <2>1. clock \in Nat /\ clock' \in Nat /\ UNCHANGED <<phase, verifierObs, recorded>>
    BY <1>20, TimesAssumption DEF MoveClock, ClockMoves, TypeOK
  <2>2. ~back' => ~back /\ ~(clock' < clock)
    BY <1>20 DEF MoveClock
  <2>3. ASSUME NEW q \in Deletes, verifierObs[q] # NoRead PROVE verifierObs[q].at \in Nat
    BY <2>3 DEF TypeOK, AbsenceRead
  <2> QED
    BY <2>1, <2>2, <2>3 DEF Dated
<1>21. CASE UNCHANGED vars
  BY <1>21 DEF vars, Dated, TypeOK
<1> QED
  BY <1>1, <1>2, <1>3, <1>4, <1>5, <1>6, <1>7, <1>8, <1>9, <1>10, <1>11, <1>12, <1>13, <1>14, <1>15, <1>16, <1>17, <1>18, <1>19, <1>20, <1>21 DEF Next, OpStep, RollbackStep, Await

-----------------------------------------------------------------------------
(* The inductive invariant of ControlledWrite. *)
THEOREM Invariance == Spec => []IInv
<1>1. IInv /\ [Next]_vars => IInv'
  BY TypeStep, OutcomeStep, SightedStep, DeletesStep, DatedStep DEF IInv
<1> QED
  BY InitIInv, <1>1, PTL DEF Spec

(* Every variable keeps its type, for any number of operations. *)
THEOREM TypeCorrect == Spec => []TypeOK
<1>1. IInv => TypeOK
  BY DEF IInv
<1> QED
  BY Invariance, <1>1, PTL

(* The one-shot transports: no operation is ever carried out twice. *)
THEOREM NoSecondEffect == Spec => []AtMostOneEffect
<1>1. IInv => AtMostOneEffect
  BY OpsAssumption DEF IInv, Outcome, TypeOK, AtMostOneEffect, Ops
<1> QED
  BY Invariance, <1>1, PTL

(* coordinator.complete: what is recorded as completed was carried out for this
   operation's own request. *)
THEOREM CompletedWasApplied == Spec => []RecordedIsOurs
<1>1. IInv => RecordedIsOurs
  BY DEF IInv, Outcome, RecordedIsOurs
<1> QED
  BY Invariance, <1>1, PTL

(* The read-then-delete rollback: it removes another commit than the expected
   one only if the ref has moved since it was read. *)
THEOREM RollbackDeletesWhatItSaw == Spec => []DeletesWhatItSaw
<1>1. IInv => DeletesWhatItSaw
  BY DEF IInv
<1> QED
  BY Invariance, <1>1, PTL

(* create_operation_proof_v2_from_absence: the time stamps order the readback
   after the effect. *)
THEOREM ProofRestsOnReadback == Spec => []ProofFollowsEffect
<1>1. ASSUME IInv, NEW p \in Deletes, phase[p] = "proved"
      PROVE  /\ applied[p] = 1
             /\ \/ back
                \/ verifierObs[p].at = recorded[p]
                \/ verifierObs[p].afterEffect
  <2>1. p \in Ops /\ applied[p] = 1
    BY <1>1 DEF IInv, Outcome, Succeeded, Ops
  <2>2. verifierObs[p] \in AbsenceRead /\ recorded[p] \in Nat
    BY <1>1, <2>1 DEF IInv, Dated, TypeOK
  <2>3. verifierObs[p].at \in Nat /\ verifierObs[p].at >= recorded[p]
    BY <1>1, <2>2 DEF IInv, Dated, AbsenceRead
  <2>4. ~back /\ ~verifierObs[p].afterEffect => verifierObs[p].at <= recorded[p]
    BY <1>1 DEF IInv, Dated
  <2> QED
    BY <2>1, <2>2, <2>3, <2>4
<1>2. IInv => ProofFollowsEffect
  BY <1>1 DEF ProofFollowsEffect
<1> QED
  BY Invariance, <1>2, PTL
=============================================================================

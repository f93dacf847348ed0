--------------------------- MODULE DocStoreProofs ---------------------------
(***************************************************************************)
(* Proofs about DocStore, for any number of clients, ids, kills and I/O    *)
(* errors.                                                                 *)
(***************************************************************************)
EXTENDS DocStore, TLAPS

USE DEF NoDoc, Nobody

-----------------------------------------------------------------------------
(* Type correctness *)

(* Every variable starts with its type. *)
LEMMA TypeInit == Init => TypeOK
BY BoundsAssumption DEF Init, TypeOK, Versions, Command, Ops, Steps, Answers

(* Every step of the engine, the agent or a kill keeps the types. *)
LEMMA TypeStep == TypeOK /\ [Next]_vars => TypeOK'
<1> SUFFICES ASSUME TypeOK, [Next]_vars PROVE TypeOK'
  OBVIOUS
<1> USE BoundsAssumption
<1> USE DEF TypeOK, Versions, Command, Ops, Steps, Answers, Goto, Answer, Fail,
            Result, fileVars, histVars
<1>1. ASSUME NEW c \in Clients, NEW op \in Ops, NEW e \in 0..MaxIds, Send(c, op, e)
      PROVE  TypeOK'
  BY <1>1 DEF Send
<1>2. ASSUME NEW c \in Clients, RefuseInvalid(c) PROVE TypeOK'
  BY <1>2 DEF RefuseInvalid
<1>3. ASSUME NEW c \in Clients, LockAndRefuse(c) PROVE TypeOK'
  BY <1>3 DEF LockAndRefuse
<1>4. ASSUME NEW c \in Clients, LockAndAdmit(c) PROVE TypeOK'
  <2>1. req[c].op \in {"create", "patch", "delete"}
    OBVIOUS
  <2>2. FirstStep(req[c].op) \in {"write", "preserve", "remove"}
    BY <2>1 DEF FirstStep
  <2>3. pc' \in [Clients -> Steps]
    BY <1>4, <2>2 DEF LockAndAdmit
  <2> QED BY <1>4, <2>3 DEF LockAndAdmit
<1>5. ASSUME NEW c \in Clients, PreservePreviousIfAbsent(c) PROVE TypeOK'
  <2>1. mu' \in SUBSET Clients
    BY <1>5 DEF PreservePreviousIfAbsent
  <2>2. pc' \in [Clients -> Steps]
    BY <1>5 DEF PreservePreviousIfAbsent
  <2>3. resp' \in [Clients -> [status : Answers, ver : Versions]]
    BY <1>5 DEF PreservePreviousIfAbsent
  <2>4. live' \in Versions /\ prev' \in Versions
    BY <1>5 DEF PreservePreviousIfAbsent
  <2> QED BY <1>5, <2>1, <2>2, <2>3, <2>4 DEF PreservePreviousIfAbsent
<1>6. ASSUME NEW c \in Clients, WriteDocument(c) PROVE TypeOK'
  BY <1>6 DEF WriteDocument, Commit
<1>7. ASSUME NEW c \in Clients, VerifyVersion(c) PROVE TypeOK'
  <2>1. mu' \in SUBSET Clients
    BY <1>7 DEF VerifyVersion
  <2>2. pc' \in [Clients -> Steps]
    BY <1>7 DEF VerifyVersion
  <2>3. resp' \in [Clients -> [status : Answers, ver : Versions]]
    BY <1>7 DEF VerifyVersion
  <2>4. live' \in Versions /\ prev' \in Versions
    BY <1>7 DEF VerifyVersion
  <2> QED BY <1>7, <2>1, <2>2, <2>3, <2>4 DEF VerifyVersion
<1>8. ASSUME NEW c \in Clients, SoftDeleteDocument(c) PROVE TypeOK'
  BY <1>8 DEF SoftDeleteDocument, Commit
<1>9. ASSUME NEW c \in Clients, CascadeDelete(c) PROVE TypeOK'
  BY <1>9 DEF CascadeDelete
<1>10. ASSUME NEW c \in Clients, EnqueueChange(c) PROVE TypeOK'
  BY <1>10 DEF EnqueueChange
<1>11. ASSUME NEW c \in Clients, Unlock(c) PROVE TypeOK'
  BY <1>11 DEF Unlock
<1>12. ASSUME NEW c \in Clients, Deliver(c) PROVE TypeOK'
  BY <1>12 DEF Deliver
<1>13. ASSUME NEW c \in Clients, Read(c) PROVE TypeOK'
  BY <1>13 DEF Read
<1>14. ASSUME NEW c \in Clients, IOError(c) PROVE TypeOK'
  BY <1>14 DEF IOError
<1>15. CASE Crash
  BY <1>15 DEF Crash
<1>16. CASE DistributeChange
  BY <1>16 DEF DistributeChange
<1>17. CASE UNCHANGED vars
  BY <1>17 DEF vars
<1> QED
  BY <1>1, <1>2, <1>3, <1>4, <1>5, <1>6, <1>7, <1>8, <1>9, <1>10, <1>11,
     <1>12, <1>13, <1>14, <1>15, <1>16, <1>17 DEF Next, EngineStep

(* Every variable of the write path keeps its type. *)
THEOREM TypeCorrect == Spec => []TypeOK
BY TypeInit, TypeStep, PTL DEF Spec

-----------------------------------------------------------------------------
(* The inductive invariant.  An action that commits nothing and moves no   *)
(* file is shown to keep it by what it does to pc, req, resp and mu; the   *)
(* two committing actions and the rename get a step per conjunct.          *)

(* The inductive invariant holds in an empty, idle store. *)
LEMMA InvInit == Init => IInv
BY TypeInit, BoundsAssumption
   DEF Init, IInv, MutexInv, IdInv, StepInv, Unclaimed, NoDoubleClaim,
       LastCommitIsLive, AnswerMatchesEffect, CommittedIds, LockedSteps, Steps

(* A new command draws an id that nobody holds yet. *)
LEMMA SendInv ==
  ASSUME IInv, TypeOK', NEW c \in Clients, NEW op \in Ops, NEW e \in 0..MaxIds,
         Send(c, op, e)
  PROVE  IInv'
<1> USE DEF IInv, TypeOK, Goto, fileVars, histVars, Versions, Command
<1>1. /\ req'[c] = [op |-> op, expect |-> e, id |-> nextId]
      /\ \A d \in Clients \ {c} : req'[d] = req[d]
      /\ pc'[c] = "lock" /\ pc[c] = "idle"
      /\ \A d \in Clients \ {c} : pc'[d] = pc[d] /\ resp'[d] = resp[d]
      /\ UNCHANGED <<live, mu, doc, commits, crashes, faults>>
      /\ nextId' = nextId + 1 /\ nextId \in Nat /\ nextId # 0
  BY DEF Send
<1>2. MutexInv'
  BY <1>1 DEF MutexInv, LockedSteps, Steps
<1>3. \A w \in commits : w.id # nextId /\ w.id < nextId
  BY DEF IdInv
<1>4. IdInv'
  <2>1. \A d \in Clients : req[d].id < nextId /\ req[d].id \in Nat
    BY DEF IdInv
  <2>2. \A d \in Clients : req'[d].id < nextId'
    BY <1>1, <2>1
  <2>3. \A a, b \in Clients :
          req'[a].id # NoDoc /\ req'[a].id = req'[b].id => a = b
    BY <1>1, <2>1 DEF IdInv
  <2>4. \A w \in commits, d \in Clients : w.id = req'[d].id => w = req'[d]
    BY <1>1, <1>3 DEF IdInv
  <2>5. \A w \in commits : w.id # NoDoc /\ w.id < nextId'
    BY <1>1, <1>3 DEF IdInv
  <2> QED BY <1>1, <2>2, <2>3, <2>4, <2>5 DEF IdInv, CommittedIds
<1>5. StepInv'
  BY <1>1, <1>3 DEF StepInv, Unclaimed, Result
<1>6. AnswerMatchesEffect'
  BY <1>1 DEF AnswerMatchesEffect
<1>7. LastCommitIsLive'
  BY <1>1 DEF LastCommitIsLive, InRenameWindow
<1> QED
  BY <1>1, <1>2, <1>4, <1>5, <1>6, <1>7 DEF NoDoubleClaim, Unclaimed

(* Steps that move no document file and commit nothing: either no request  *)
(* leaves the rename window, or the step is a mishap.                      *)
LEMMA QuietInv ==
  ASSUME IInv, UNCHANGED <<live, req, nextId, doc, commits>>,
         \/ /\ UNCHANGED <<crashes, faults>>
            /\ \A c \in Clients : pc[c] = "write" => pc'[c] = "write"
         \/ crashes' + faults' > 0
  PROVE  /\ IdInv'
         /\ NoDoubleClaim'
         /\ LastCommitIsLive'
         /\ (live # NoDoc => Unclaimed(live))'
BY DEF IInv, IdInv, NoDoubleClaim, LastCommitIsLive, InRenameWindow, Unclaimed,
       CommittedIds

(* A refusal by validation disturbs nothing. *)
LEMMA RefuseInvalidInv ==
  ASSUME IInv, TypeOK', NEW c \in Clients, RefuseInvalid(c)
  PROVE  IInv'
<1> USE DEF IInv, TypeOK, Goto, Answer, Fail, fileVars, histVars
<1>1. /\ UNCHANGED <<live, req, nextId, doc, commits, crashes, faults>>
      /\ \A d \in Clients : pc[d] = "write" => pc'[d] = "write"
  BY DEF RefuseInvalid
<1>2. MutexInv'
  BY DEF RefuseInvalid, MutexInv, LockedSteps, Steps
<1>3. StepInv'
  BY <1>1 DEF RefuseInvalid, StepInv, Unclaimed
<1>4. AnswerMatchesEffect'
  BY <1>1 DEF RefuseInvalid, AnswerMatchesEffect, StepInv
<1> QED
  BY <1>1, <1>2, <1>3, <1>4, QuietInv

(* A refusal by the version check disturbs nothing. *)
LEMMA LockAndRefuseInv ==
  ASSUME IInv, TypeOK', NEW c \in Clients, LockAndRefuse(c)
  PROVE  IInv'
<1> USE DEF IInv, TypeOK, Goto, Answer, Fail, fileVars, histVars
<1>1. /\ UNCHANGED <<live, req, nextId, doc, commits, crashes, faults>>
      /\ \A d \in Clients : pc[d] = "write" => pc'[d] = "write"
  BY DEF LockAndRefuse
<1>2. MutexInv'
  BY DEF LockAndRefuse, MutexInv, LockedSteps, Steps
<1>3. StepInv'
  BY <1>1 DEF LockAndRefuse, StepInv, Unclaimed
<1>4. AnswerMatchesEffect'
  BY <1>1 DEF LockAndRefuse, AnswerMatchesEffect, StepInv
<1> QED
  BY <1>1, <1>2, <1>3, <1>4, QuietInv

(* Admission establishes what the first file operation relies on. *)
LEMMA LockAndAdmitInv ==
  ASSUME IInv, TypeOK', NEW c \in Clients, LockAndAdmit(c)
  PROVE  IInv'
<1> USE DEF IInv, TypeOK, Goto, fileVars, histVars
<1>1. UNCHANGED <<live, req, resp, nextId, doc, commits, crashes, faults>>
  BY DEF LockAndAdmit
<1>2. req[c].op \in {"create", "patch", "delete"}
  BY DEF Command, Ops
<1>3. /\ pc[c] = "lock" /\ mu = {} /\ mu' = {c}
      /\ \A d \in Clients \ {c} : pc'[d] = pc[d]
      /\ \/ pc'[c] = "write" /\ req[c].op = "create" /\ live = NoDoc
         \/ /\ pc'[c] = "preserve" /\ req[c].op = "patch"
            /\ live # NoDoc /\ live = req[c].expect
         \/ /\ pc'[c] = "remove" /\ req[c].op = "delete"
            /\ live # NoDoc /\ live = req[c].expect
  BY <1>2 DEF LockAndAdmit, FirstStep, Admitted
<1>4. MutexInv'
  BY <1>3 DEF MutexInv, LockedSteps, Steps
<1>5. StepInv'
  BY <1>1, <1>3 DEF StepInv, Unclaimed, Result
<1>6. AnswerMatchesEffect'
  BY <1>1, <1>3 DEF AnswerMatchesEffect
<1>7. \A d \in Clients : pc[d] = "write" => pc'[d] = "write"
  BY <1>3
<1> QED
  BY <1>1, <1>7, <1>4, <1>5, <1>6, QuietInv

(* The re-read under the mutex disturbs nothing. *)
LEMMA VerifyVersionInv ==
  ASSUME IInv, TypeOK', NEW c \in Clients, VerifyVersion(c)
  PROVE  IInv'
<1> USE DEF IInv, TypeOK, Goto, Answer, Fail, fileVars, histVars
<1>1. /\ UNCHANGED <<live, req, nextId, doc, commits, crashes, faults>>
      /\ \A d \in Clients : pc[d] = "write" => pc'[d] = "write"
  BY DEF VerifyVersion
<1>2. MutexInv'
  BY DEF VerifyVersion, MutexInv, LockedSteps, Steps
<1>3. StepInv'
  BY <1>1 DEF VerifyVersion, StepInv, Unclaimed
<1>4. AnswerMatchesEffect'
  BY <1>1 DEF VerifyVersion, AnswerMatchesEffect, StepInv
<1> QED
  BY <1>1, <1>2, <1>3, <1>4, QuietInv

(* The attachment cascade disturbs nothing of the document. *)
LEMMA CascadeDeleteInv ==
  ASSUME IInv, TypeOK', NEW c \in Clients, CascadeDelete(c)
  PROVE  IInv'
<1> USE DEF IInv, TypeOK, Goto, Answer, Fail, fileVars, histVars
<1>1. /\ UNCHANGED <<live, req, nextId, doc, commits, crashes, faults>>
      /\ \A d \in Clients : pc[d] = "write" => pc'[d] = "write"
  BY DEF CascadeDelete
<1>2. MutexInv'
  BY DEF CascadeDelete, MutexInv, LockedSteps, Steps
<1>3. StepInv'
  BY <1>1 DEF CascadeDelete, StepInv, Unclaimed
<1>4. AnswerMatchesEffect'
  BY <1>1 DEF CascadeDelete, AnswerMatchesEffect, StepInv
<1> QED
  BY <1>1, <1>2, <1>3, <1>4, QuietInv

(* The queue marker disturbs nothing of the document. *)
LEMMA EnqueueChangeInv ==
  ASSUME IInv, TypeOK', NEW c \in Clients, EnqueueChange(c)
  PROVE  IInv'
<1> USE DEF IInv, TypeOK, Goto, Answer, Fail, fileVars, histVars
<1>1. /\ UNCHANGED <<live, req, nextId, doc, commits, crashes, faults>>
      /\ \A d \in Clients : pc[d] = "write" => pc'[d] = "write"
  BY DEF EnqueueChange
<1>2. MutexInv'
  BY DEF EnqueueChange, MutexInv, LockedSteps, Steps
<1>3. StepInv'
  BY <1>1 DEF EnqueueChange, StepInv, Unclaimed
<1>4. AnswerMatchesEffect'
  BY <1>1 DEF EnqueueChange, AnswerMatchesEffect, StepInv
<1> QED
  BY <1>1, <1>2, <1>3, <1>4, QuietInv

(* Leaving the locked section keeps holder and section in step. *)
LEMMA UnlockInv ==
  ASSUME IInv, TypeOK', NEW c \in Clients, Unlock(c)
  PROVE  IInv'
<1> USE DEF IInv, TypeOK, Goto, Answer, Fail, fileVars, histVars
<1>1. /\ UNCHANGED <<live, req, nextId, doc, commits, crashes, faults>>
      /\ \A d \in Clients : pc[d] = "write" => pc'[d] = "write"
  BY DEF Unlock
<1>2. MutexInv'
  BY DEF Unlock, MutexInv, LockedSteps, Steps
<1>3. StepInv'
  BY <1>1 DEF Unlock, StepInv, Unclaimed
<1>4. AnswerMatchesEffect'
  BY <1>1 DEF Unlock, AnswerMatchesEffect, StepInv
<1> QED
  BY <1>1, <1>2, <1>3, <1>4, QuietInv

(* ok:true is only answered to a committed write. *)
LEMMA DeliverInv ==
  ASSUME IInv, TypeOK', NEW c \in Clients, Deliver(c)
  PROVE  IInv'
<1> USE DEF IInv, TypeOK, Goto, Answer, Fail, fileVars, histVars
<1>1. /\ UNCHANGED <<live, req, nextId, doc, commits, crashes, faults>>
      /\ \A d \in Clients : pc[d] = "write" => pc'[d] = "write"
  BY DEF Deliver
<1>2. MutexInv'
  BY DEF Deliver, MutexInv, LockedSteps, Steps
<1>3. StepInv'
  BY <1>1 DEF Deliver, StepInv, Unclaimed
<1>4. AnswerMatchesEffect'
  BY <1>1 DEF Deliver, AnswerMatchesEffect, StepInv
<1> QED
  BY <1>1, <1>2, <1>3, <1>4, QuietInv

(* A read disturbs nothing. *)
LEMMA ReadInv ==
  ASSUME IInv, TypeOK', NEW c \in Clients, Read(c)
  PROVE  IInv'
<1> USE DEF IInv, TypeOK, Goto, Answer, Fail, fileVars, histVars
<1>1. /\ UNCHANGED <<live, req, nextId, doc, commits, crashes, faults>>
      /\ \A d \in Clients : pc[d] = "write" => pc'[d] = "write"
  BY DEF Read
<1>2. MutexInv'
  BY DEF Read, MutexInv, LockedSteps, Steps
<1>3. StepInv'
  BY <1>1 DEF Read, StepInv, Unclaimed
<1>4. AnswerMatchesEffect'
  BY <1>1 DEF Read, AnswerMatchesEffect, StepInv
<1> QED
  BY <1>1, <1>2, <1>3, <1>4, QuietInv

(* An I/O error leaves the files where they are and frees the mutex. *)
LEMMA IOErrorInv ==
  ASSUME IInv, TypeOK', NEW c \in Clients, IOError(c)
  PROVE  IInv'
<1> USE DEF IInv, TypeOK, Goto, Answer, Fail, fileVars, histVars
<1>1. /\ UNCHANGED <<live, req, nextId, doc, commits>>
      /\ crashes' + faults' > 0
  BY DEF IOError
<1>2. MutexInv'
  BY DEF IOError, MutexInv, LockedSteps, Steps
<1>3. StepInv'
  BY <1>1 DEF IOError, StepInv, Unclaimed
<1>4. AnswerMatchesEffect'
  BY <1>1 DEF IOError, AnswerMatchesEffect, StepInv
<1> QED
  BY <1>1, <1>2, <1>3, <1>4, QuietInv

(* The change agent's clean-up disturbs nothing a writer relies on. *)
LEMMA DistributeChangeInv ==
  ASSUME IInv, TypeOK', DistributeChange
  PROVE  IInv'
<1> USE DEF IInv, TypeOK, histVars
<1>1. UNCHANGED <<live, mu, pc, req, resp, nextId, doc, commits, crashes, faults>>
  BY DEF DistributeChange
<1>2. MutexInv' /\ StepInv' /\ AnswerMatchesEffect'
  BY <1>1 DEF MutexInv, StepInv, Unclaimed, AnswerMatchesEffect
<1> QED
  BY <1>1, <1>2, QuietInv

(* A kill ends every request and frees the mutex. *)
LEMMA CrashInv ==
  ASSUME IInv, TypeOK', Crash
  PROVE  IInv'
<1> USE DEF IInv, TypeOK, Goto, Answer, Fail, fileVars, histVars
<1>1. /\ UNCHANGED <<live, req, nextId, doc, commits>>
      /\ crashes' + faults' > 0
  BY DEF Crash
<1>2. MutexInv'
  BY DEF Crash, MutexInv, LockedSteps, Steps
<1>3. StepInv'
  BY <1>1 DEF Crash, StepInv, Unclaimed
<1>4. AnswerMatchesEffect'
  BY <1>1 DEF Crash, AnswerMatchesEffect, StepInv
<1> QED
  BY <1>1, <1>2, <1>3, <1>4, QuietInv

(* The rename of a patch: the document leaves the live path, and only the  *)
(* request holding the mutex can be at a step that looks at it.            *)
LEMMA PreserveInv ==
  ASSUME IInv, TypeOK', NEW c \in Clients, PreservePreviousIfAbsent(c)
  PROVE  IInv'
<1> USE DEF IInv, TypeOK, Goto, fileVars, histVars
<1>1. /\ req[c].op = "patch" /\ live # NoDoc /\ live = req[c].expect
      /\ pc[c] = "preserve" /\ c \in mu /\ live = doc
  BY DEF PreservePreviousIfAbsent, StepInv, MutexInv, LockedSteps, Steps,
         LastCommitIsLive
<1>2. /\ pc'[c] = "write"
      /\ \A d \in Clients \ {c} : pc'[d] = pc[d]
      /\ UNCHANGED <<mu, req, resp, nextId, doc, commits, faults>>
      /\ live' \in {live, NoDoc}
  BY <1>1 DEF PreservePreviousIfAbsent
<1>3. \A d \in Clients \ {c} : pc[d] \notin LockedSteps
  BY <1>1 DEF MutexInv
<1>4. MutexInv'
  BY <1>1, <1>2 DEF MutexInv, LockedSteps, Steps
<1>5. IdInv'
  BY <1>1, <1>2 DEF IdInv, CommittedIds
<1>6. StepInv'
  BY <1>1, <1>2, <1>3 DEF StepInv, Unclaimed, LockedSteps, Steps
<1>7. AnswerMatchesEffect'
  BY <1>2 DEF AnswerMatchesEffect
<1>8. LastCommitIsLive'
  BY <1>1, <1>2 DEF LastCommitIsLive, InRenameWindow
<1> QED
  BY <1>2, <1>4, <1>5, <1>6, <1>7, <1>8 DEF NoDoubleClaim, Unclaimed

(* The two steps that commit. *)
LEMMA CommitInv ==
  ASSUME IInv, TypeOK', NEW c \in Clients,
         \/ WriteDocument(c)
         \/ SoftDeleteDocument(c)
  PROVE  IInv'
<1> USE DEF IInv, TypeOK, Goto, fileVars, histVars
<1>1. /\ c \in mu /\ req[c] \notin commits /\ req[c].id # NoDoc
      /\ \A d \in Clients \ {c} : pc[d] \notin LockedSteps
  BY DEF WriteDocument, SoftDeleteDocument, MutexInv, StepInv, LockedSteps, Steps
<1>2. /\ pc'[c] \in {"verify", "cascade"}
      /\ pc'[c] = "verify" => live' = Result(req[c])
      /\ \A d \in Clients \ {c} : pc'[d] = pc[d]
      /\ UNCHANGED <<mu, req, resp, nextId, faults>>
      /\ commits' = commits \cup {req[c]}
      /\ doc' = Result(req[c])
  BY DEF WriteDocument, SoftDeleteDocument, Commit
<1>3. live' = Result(req[c])
  BY DEF WriteDocument, SoftDeleteDocument, StepInv, Result
<1>4. \/ req[c].op = "create"
      \/ /\ req[c].op # "create"
         /\ req[c].expect # NoDoc
         /\ Unclaimed(req[c].expect)
         /\ req[c].expect \in CommittedIds
  BY DEF WriteDocument, SoftDeleteDocument, StepInv, IdInv
<1>5. \A w \in commits : w.id # req[c].id
  BY <1>1 DEF IdInv
<1>6. CommittedIds' = CommittedIds \cup {req[c].id}
  BY <1>2 DEF CommittedIds
<1>7. MutexInv'
  BY <1>1, <1>2 DEF MutexInv, LockedSteps, Steps
<1>8. IdInv'
  <2>1. \A w \in commits' : w.id # NoDoc /\ w.id < nextId'
    BY <1>1, <1>2 DEF IdInv
  <2>2. \A w \in commits', d \in Clients : w.id = req'[d].id => w = req'[d]
    BY <1>1, <1>2 DEF IdInv
  <2>3. /\ live' # NoDoc => live' \in CommittedIds'
        /\ doc' # NoDoc => doc' \in CommittedIds'
    BY <1>2, <1>3, <1>6 DEF IdInv, Result
  <2>4. \A w \in commits' : w.op # "create" => w.expect \in CommittedIds'
    BY <1>2, <1>4, <1>6 DEF IdInv
  <2> QED BY <1>2, <2>1, <2>2, <2>3, <2>4 DEF IdInv
<1>9. StepInv'
  BY <1>1, <1>2, <1>5 DEF StepInv, IdInv, LockedSteps, Steps, Result
<1>10. (live # NoDoc => Unclaimed(live))'
  <2>1. ASSUME live' # NoDoc, NEW w \in commits', w.op # "create"
        PROVE  w.expect # live'
    <3>1. live' = req[c].id
      BY <1>3, <2>1 DEF Result
    <3>2. w.expect \in CommittedIds
      BY <1>2, <1>4, <2>1 DEF IdInv
    <3> QED BY <1>5, <3>1, <3>2 DEF CommittedIds
  <2> QED BY <2>1 DEF Unclaimed
<1>11. NoDoubleClaim'
  BY <1>2, <1>4 DEF NoDoubleClaim, Unclaimed
<1>12. LastCommitIsLive'
  BY <1>2, <1>3 DEF LastCommitIsLive
<1>13. AnswerMatchesEffect'
  BY <1>1, <1>2, <1>5 DEF AnswerMatchesEffect, IdInv
<1> QED
  BY <1>7, <1>8, <1>9, <1>10, <1>11, <1>12, <1>13


(* Every step keeps the inductive invariant. *)
LEMMA InvStep == IInv /\ [Next]_vars => IInv'
<1> SUFFICES ASSUME IInv, [Next]_vars PROVE IInv'
  OBVIOUS
<1>1. TypeOK'
  BY TypeStep DEF IInv
<1>2. CASE UNCHANGED vars
  <2>1. UNCHANGED <<live, pc, req, nextId, doc, commits, crashes, faults>>
    BY <1>2 DEF vars
  <2>2. MutexInv' /\ StepInv' /\ AnswerMatchesEffect'
    BY <1>2 DEF vars, IInv, MutexInv, StepInv, AnswerMatchesEffect, Unclaimed
  <2> QED BY <1>1, <2>1, <2>2, QuietInv DEF IInv
<1>3. CASE Crash
  BY <1>1, <1>3, CrashInv
<1>4. ASSUME NEW c \in Clients, EngineStep(c) PROVE IInv'
  BY <1>1, <1>4, SendInv, RefuseInvalidInv, LockAndRefuseInv, LockAndAdmitInv,
     PreserveInv, CommitInv, VerifyVersionInv, CascadeDeleteInv,
     EnqueueChangeInv, UnlockInv, ReadInv, IOErrorInv DEF EngineStep
<1>5. ASSUME NEW c \in Clients, Deliver(c) PROVE IInv'
  BY <1>1, <1>5, DeliverInv
<1>6. CASE DistributeChange
  BY <1>1, <1>6, DistributeChangeInv
<1> QED
  BY <1>2, <1>3, <1>4, <1>5, <1>6 DEF Next

(* The inductive invariant holds throughout. *)
LEMMA InductiveInvariant == Spec => []IInv
BY InvInit, InvStep, PTL DEF Spec

(* Of the commands that name the same version at most one commits, for any *)
(* number of concurrent requests, kills and I/O errors: the version check  *)
(* of patch and delete under Engine.mu is enough.                          *)
THEOREM ClaimsAreExclusive == Spec => []NoDoubleClaim
<1>1. IInv => NoDoubleClaim
  BY DEF IInv
<1> QED BY <1>1, InductiveInvariant, PTL

(* The live path holds the last committed version, or nothing in the       *)
(* middle of a patch and after a kill or an I/O error: no order of steps   *)
(* brings back a version that was overwritten.                             *)
THEOREM CommitsAreNotUndone == Spec => []LastCommitIsLive
<1>1. IInv => LastCommitIsLive
  BY DEF IInv
<1> QED BY <1>1, InductiveInvariant, PTL

(* An ok:true answer means the write committed, and while no file          *)
(* operation failed an ok:false answer means that it did not.              *)
THEOREM AnswersAreTruthful == Spec => []AnswerMatchesEffect
<1>1. IInv => AnswerMatchesEffect
  BY DEF IInv
<1> QED BY <1>1, InductiveInvariant, PTL

-----------------------------------------------------------------------------
(* Refinement of AtomicDoc                                                 *)

(* Steps after which every request that was inside the rename window still *)
(* is, and no other entered it, leave the document as it was.              *)
LEMMA CurrentUnchanged ==
  ASSUME UNCHANGED <<live, doc>>,
         \A c \in Clients : (pc[c] = "write" /\ req[c].op = "patch")
                              <=> (pc'[c] = "write" /\ req'[c].op = "patch")
  PROVE  Current' = Current
BY DEF Current, InRenameWindow

(* An admission brings a request to "write" only for a create, and an      *)
(* early return only leaves it through IOError, which is a mishap.         *)
LEMMA SilentSteps ==
  ASSUME IInv, NEW c \in Clients,
         \/ \E op \in Ops, e \in 0..MaxIds : Send(c, op, e)
         \/ RefuseInvalid(c)
         \/ LockAndRefuse(c)
         \/ LockAndAdmit(c)
         \/ VerifyVersion(c)
         \/ CascadeDelete(c)
         \/ EnqueueChange(c)
         \/ Unlock(c)
         \/ Deliver(c)
         \/ Read(c)
  PROVE  UNCHANGED <<Current, commits, crashes + faults>>
<1>1. UNCHANGED <<live, doc, commits, crashes, faults>>
  BY DEF Send, RefuseInvalid, LockAndRefuse, LockAndAdmit, VerifyVersion,
         CascadeDelete, EnqueueChange, Unlock, Deliver, Read, fileVars, histVars
<1>2. /\ \A d \in Clients \ {c} : pc'[d] = pc[d] /\ req'[d] = req[d]
      /\ pc[c] # "write"
  BY DEF IInv, TypeOK, Send, RefuseInvalid, LockAndRefuse, LockAndAdmit,
         VerifyVersion, CascadeDelete, EnqueueChange, Unlock, Deliver, Read,
         Goto, Answer, Fail, Steps
<1>3. ~(pc'[c] = "write" /\ req'[c].op = "patch")
  <2>1. CASE LockAndAdmit(c)
    BY <2>1 DEF IInv, TypeOK, LockAndAdmit, Goto, FirstStep
  <2>2. CASE ~LockAndAdmit(c)
    BY <2>2 DEF IInv, TypeOK, Send, RefuseInvalid, LockAndRefuse,
         VerifyVersion, CascadeDelete, EnqueueChange, Unlock, Deliver, Read,
         Goto, Answer, Fail, Steps
  <2> QED BY <2>1, <2>2
<1>4. Current' = Current
  BY <1>1, <1>2, <1>3, CurrentUnchanged
<1> QED BY <1>1, <1>4

(* The rename itself does not change the document. *)
LEMMA RenameIsSilent ==
  ASSUME IInv, NEW c \in Clients, PreservePreviousIfAbsent(c)
  PROVE  UNCHANGED <<Current, commits, crashes + faults>>
<1> USE DEF IInv, TypeOK
<1>1. /\ req[c].op = "patch" /\ live # NoDoc
      /\ pc[c] = "preserve" /\ live = doc
  BY DEF PreservePreviousIfAbsent, StepInv, LastCommitIsLive
<1>2. /\ pc'[c] = "write" /\ req' = req
      /\ live' \in {live, NoDoc}
      /\ UNCHANGED <<doc, commits, crashes, faults>>
  BY <1>1 DEF PreservePreviousIfAbsent, Goto, histVars
<1>3. Current = live
  BY <1>1 DEF Current, InRenameWindow
<1>4. Current' = live
  BY <1>1, <1>2 DEF Current, InRenameWindow
<1> QED BY <1>2, <1>3, <1>4

(* A committing step takes effect at once, on the version it names. *)
LEMMA CommitIsTake ==
  ASSUME IInv, NEW c \in Clients,
         \/ WriteDocument(c)
         \/ SoftDeleteDocument(c)
  PROVE  Abs!Next
<1> USE DEF IInv, TypeOK
<1>1. /\ c \in mu /\ req[c] \notin commits /\ req[c].id # NoDoc
      /\ \A d \in Clients \ {c} : pc[d] \notin LockedSteps
  BY DEF WriteDocument, SoftDeleteDocument, MutexInv, StepInv, LockedSteps, Steps
<1>2. /\ pc'[c] \in {"verify", "cascade"}
      /\ \A d \in Clients \ {c} : pc'[d] = pc[d]
      /\ UNCHANGED <<req, crashes, faults>>
      /\ commits' = commits \cup {req[c]}
  BY DEF WriteDocument, SoftDeleteDocument, Commit, Goto
<1>3. live' = Result(req[c])
  BY DEF WriteDocument, SoftDeleteDocument, StepInv, Result
<1>4. Current' = Result(req[c])
  BY <1>1, <1>2, <1>3 DEF Current, InRenameWindow, LockedSteps, Steps
<1>5. \/ req[c].op = "create" /\ Current = NoDoc
      \/ /\ req[c].op # "create"
         /\ Current # NoDoc /\ Current = req[c].expect
  <2>1. CASE WriteDocument(c)
    <3>1. pc[c] = "write"
      BY <2>1 DEF WriteDocument
    <3>2. CASE req[c].op = "create"
      <4>1. \A d \in Clients : ~(pc[d] = "write" /\ req[d].op = "patch")
        BY <1>1, <3>2 DEF LockedSteps, Steps
      <4> QED BY <3>1, <3>2, <4>1 DEF Current, InRenameWindow, StepInv
    <3>3. CASE req[c].op = "patch"
      BY <3>1, <3>3 DEF Current, InRenameWindow, StepInv
    <3> QED BY <3>1, <3>2, <3>3 DEF StepInv
  <2>2. CASE SoftDeleteDocument(c)
    BY <2>2 DEF SoftDeleteDocument, StepInv, Current, InRenameWindow
  <2> QED BY <2>1, <2>2
<1>6. \A w \in commits : w.id # req[c].id
  BY <1>1 DEF IdInv
<1>7. req[c] \in Abs!Command
  BY <1>1, BoundsAssumption DEF Abs!Command, Abs!Ops, Command, Ops, Versions
<1>8. Abs!Take(req[c])
  BY <1>2, <1>4, <1>5, <1>6 DEF Abs!Take, Abs!Result, Abs!NoDoc, Result
<1> QED BY <1>7, <1>8 DEF Abs!Next

(* A kill or an I/O error makes the document unreachable at worst. *)
LEMMA MishapStep ==
  ASSUME IInv,
         Crash \/ \E c \in Clients : IOError(c)
  PROVE  Abs!Next
<1> USE DEF IInv, TypeOK
<1>1. /\ (crashes + faults)' = crashes + faults + 1
      /\ UNCHANGED <<live, doc, commits>>
  BY DEF Crash, IOError, fileVars, histVars
<1>2. Current' \in {Current, NoDoc}
  <2>1. CASE Crash
    BY <1>1, <2>1 DEF Crash, Current, InRenameWindow
  <2>2. CASE \E c \in Clients : IOError(c)
    <3>1. PICK c \in Clients : IOError(c)
      BY <2>2
    <3>2. /\ req' = req /\ pc'[c] = "idle"
          /\ \A d \in Clients \ {c} : pc'[d] = pc[d]
      BY <3>1 DEF IOError, Fail, Answer, Goto
    <3> QED BY <1>1, <3>2 DEF Current, InRenameWindow
  <2> QED BY <2>1, <2>2
<1> QED BY <1>1, <1>2 DEF Abs!Next, Abs!Mishap, Abs!NoDoc

(* Every step of the write path is a step of AtomicDoc, or a stutter. *)
LEMMA RefinementStep == IInv /\ [Next]_vars => [Abs!Next]_(Abs!vars)
<1> SUFFICES ASSUME IInv, [Next]_vars PROVE [Abs!Next]_(Abs!vars)
  OBVIOUS
<1>1. CASE UNCHANGED vars
  BY <1>1 DEF vars, Abs!vars, Current, InRenameWindow
<1>2. CASE Crash
  BY <1>2, MishapStep
<1>3. ASSUME NEW c \in Clients, EngineStep(c) \/ Deliver(c)
      PROVE  [Abs!Next]_(Abs!vars)
  <2>1. \/ UNCHANGED <<Current, commits, crashes + faults>>
        \/ Abs!Next
    BY <1>3, SilentSteps, RenameIsSilent, CommitIsTake, MishapStep DEF EngineStep
  <2> QED BY <2>1 DEF Abs!vars
<1>4. CASE DistributeChange
  BY <1>4 DEF DistributeChange, Abs!vars, Current, InRenameWindow, histVars
<1> QED BY <1>1, <1>2, <1>3, <1>4 DEF Next

(* The write path of create, patch and delete, with its mutex, its renames *)
(* and its early returns, implements the atomic compare-and-swap register. *)
THEOREM WritePathIsAtomic == Spec => RefinesAtomicDoc
<1>1. Init => Abs!Init
  BY DEF Init, Abs!Init, Abs!NoDoc, Current, InRenameWindow
<1>2. QED
  BY <1>1, RefinementStep, InductiveInvariant, PTL DEF Spec, RefinesAtomicDoc, Abs!Spec

=============================================================================

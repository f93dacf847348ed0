--------------------------- MODULE FileOpsProofs ----------------------------
(***************************************************************************)
(* Proofs about FileOps, for any number of requests, file names,           *)
(* operations, kills and I/O errors.                                       *)
(***************************************************************************)
EXTENDS FileOps, TLAPS

USE DEF NoFile

(* The records that requests and downloads keep. *)
Request == [op : Ops, name : Names, ifMatch : Versions, key : Versions, id : Versions]
Download == [entry : Versions, bytes : Versions]

-----------------------------------------------------------------------------
(* Type correctness *)

(* The constants the variables start from have their types. *)
LEMMA ConstantTypes ==
  /\ 0 \in Versions /\ Versions \subseteq Nat
  /\ NoRequest \in Request
  /\ NoRequest.name \in Names /\ NoRequest.id = 0
  /\ NoDownload \in Download
  /\ Nothing \in [Names -> Versions] /\ \A n \in Names : Nothing[n] = 0
<1>1. 0 \in Versions /\ Versions \subseteq Nat
  BY FileOpsAssumption DEF Versions
<1>2. (CHOOSE n \in Names : TRUE) \in Names
  BY FileOpsAssumption
<1>3. NoRequest \in Request /\ NoRequest.name \in Names /\ NoRequest.id = 0
  BY <1>1, <1>2 DEF NoRequest, Request, Ops
<1>4. NoDownload \in Download
  BY <1>1 DEF NoDownload, Download
<1>5. Nothing \in [Names -> Versions] /\ \A n \in Names : Nothing[n] = 0
  BY <1>1 DEF Nothing
<1> QED BY <1>1, <1>3, <1>4, <1>5

(* Versions and the next id are numbers, the id a positive one. *)
LEMMA NumberFacts ==
  ASSUME TypeOK
  PROVE  /\ nextId \in Nat /\ 0 < nextId
         /\ \A n \in Names : blob[n] \in Nat
<1>1. nextId \in Nat /\ 0 < nextId
  BY FileOpsAssumption DEF TypeOK
<1>2. \A n \in Names : blob[n] \in Versions
  BY DEF TypeOK
<1> QED BY <1>1, <1>2, ConstantTypes

(* Every variable starts with its type. *)
LEMMA TypeInit == Init => TypeOK
BY ConstantTypes, FileOpsAssumption DEF Init, TypeOK, Steps, Request, Download

(* A handler that returns keeps the types of what it touches. *)
LEMMA ReturnTypes ==
  ASSUME TypeOK, NEW c \in Clients, Return(c)
  PROVE  /\ pc' \in [Clients -> Steps]
         /\ req' \in [Clients -> Request]
         /\ mu' \in SUBSET Clients
BY ConstantTypes DEF TypeOK, Return, Goto, Steps, Request

(* A journal written by a commit is a journal. *)
LEMMA JournalTypes ==
  ASSUME TypeOK, NEW c \in Clients, req[c].op # "delete", NEW phase \in Phases
  PROVE  JournalOf(c, phase) \in Journal
BY DEF TypeOK, JournalOf, Journal, Ops

(* Every step keeps the types, and every request at a step of its kind. *)
LEMMA TypeStep == TypeOK /\ KindInv /\ [Next]_vars => (TypeOK /\ KindInv)'
<1> SUFFICES ASSUME TypeOK, KindInv, [Next]_vars PROVE TypeOK' /\ KindInv'
  OBVIOUS
<1> USE ConstantTypes, FileOpsAssumption
<1> USE DEF TypeOK, Goto, fileVars, histVars
<1>0. req \in [Clients -> Request]
  BY DEF Request
<1>1. ASSUME NEW c \in Clients, NEW op \in Ops, NEW n \in Names, NEW v \in Versions,
             Send(c, op, n, v)
      PROVE  TypeOK' /\ KindInv'
  <2>1. req' \in [Clients -> Request] /\ pc' \in [Clients -> Steps]
    BY <1>0, <1>1 DEF Send, Request, Steps
  <2>2. got' \in [Clients -> Download]
    BY <1>1 DEF Send, Download
  <2>3. KindInv'
    BY <1>0, <1>1 DEF Send, KindInv, CommitSteps, CascadeSteps
  <2> QED BY <1>1, <2>1, <2>2, <2>3 DEF Send, Request, Download
<1>2. ASSUME NEW c \in Clients, StageWriteBinary(c) PROVE TypeOK' /\ KindInv'
  <2>1. CASE staged' = staged \cup {c} /\ Goto(c, "lock") /\ UNCHANGED <<mu, req>>
    BY <1>2, <2>1 DEF StageWriteBinary, Steps, KindInv, CommitSteps, CascadeSteps
  <2>2. CASE staged' = staged /\ Return(c)
    <3>1. KindInv'
      BY <1>0, <2>2 DEF Return, KindInv, CommitSteps, CascadeSteps
    <3> QED BY <1>2, <2>2, <3>1, ReturnTypes DEF StageWriteBinary, Request
  <2> QED BY <1>2, <2>1, <2>2 DEF StageWriteBinary
<1>3. ASSUME NEW c \in Clients, StageNameLost(c) PROVE TypeOK' /\ KindInv'
  BY <1>3 DEF StageNameLost, Steps, KindInv, CommitSteps, CascadeSteps
<1>4. ASSUME NEW c \in Clients, NEW k \in Versions, LockAndAdmit(c, k) PROVE TypeOK' /\ KindInv'
  <2>1. req' \in [Clients -> Request]
    <3>1. nextId \in Versions /\ req[c] \in Request
      BY <1>0, <1>4 DEF LockAndAdmit, Versions
    <3>2. [req[c] EXCEPT !.id = nextId, !.key = k] \in Request
      BY <3>1 DEF Request
    <3>3. req' = [req EXCEPT ![c] = [req[c] EXCEPT !.id = nextId, !.key = k]]
      BY <1>4 DEF LockAndAdmit
    <3> QED BY <1>0, <3>2, <3>3
  <2>0. nextId' \in 1..(MaxOps + 1)
    BY <1>4 DEF LockAndAdmit
  <2>2. pc' \in [Clients -> Steps]
    BY <1>4 DEF LockAndAdmit, FirstStep, Steps
  <2>3. KindInv'
    BY <1>0, <1>4 DEF LockAndAdmit, FirstStep, KindInv, CommitSteps, CascadeSteps, Request
  <2>4. doc' \in BOOLEAN
    BY <1>4 DEF LockAndAdmit
  <2> QED BY <1>4, <2>0, <2>1, <2>2, <2>3, <2>4 DEF LockAndAdmit, Request
<1>5. ASSUME NEW c \in Clients, LockAndRefuse(c) PROVE TypeOK' /\ KindInv'
  <2>1. KindInv'
    BY <1>0, <1>5 DEF LockAndRefuse, Return, KindInv, CommitSteps, CascadeSteps
  <2> QED BY <1>5, <2>1, ReturnTypes DEF LockAndRefuse, Request
<1>6. ASSUME NEW c \in Clients, Commit(c) PROVE TypeOK' /\ KindInv'
  <2>1. CASE JournalStaged(c)
    <3>1. JournalOf(c, "staged") \in Journal
      BY <2>1, JournalTypes DEF JournalStaged, KindInv, CommitSteps, Phases
    <3> QED BY <2>1, <3>1 DEF JournalStaged, WriteFileOpJournal, Steps, KindInv,
                              CommitSteps, CascadeSteps
  <2>2. CASE CommitBlob(c)
    <3>1. blob' \in [Names -> Versions]
      BY <2>2 DEF CommitBlob
    <3> QED BY <2>2, <3>1 DEF CommitBlob, Steps, KindInv, CommitSteps, CascadeSteps
  <2>3. CASE CommitBlobFails(c)
    <3>1. KindInv'
      BY <1>0, <2>3 DEF CommitBlobFails, Return, KindInv, CommitSteps, CascadeSteps
    <3> QED BY <2>3, <3>1, ReturnTypes DEF CommitBlobFails, Request
  <2>4. CASE JournalCommitted(c)
    <3>1. JournalOf(c, "blobCommitted") \in Journal
      BY <2>4, JournalTypes DEF JournalCommitted, KindInv, CommitSteps, Phases
    <3>2. latest' \in [Names -> Versions]
      BY <2>4 DEF JournalCommitted
    <3>3. journal' \subseteq Journal
      BY <2>4, <3>1 DEF JournalCommitted, WriteFileOpJournal
    <3> QED BY <2>4, <3>2, <3>3 DEF JournalCommitted, Steps, KindInv, CommitSteps,
                                   CascadeSteps
  <2>5. CASE UpdateManifest(c)
    <3>1. manifest' \in [Names -> Versions]
      BY <2>5 DEF UpdateManifest
    <3> QED BY <2>5, <3>1 DEF UpdateManifest, Steps, KindInv, CommitSteps, CascadeSteps
  <2>6. CASE JournalDone(c)
    <3>1. JournalOf(c, "done") \in Journal
      BY <2>6, JournalTypes DEF JournalDone, KindInv, CommitSteps, Phases
    <3>2. journal' \subseteq Journal
      BY <2>6, <3>1 DEF JournalDone, WriteFileOpJournal
    <3>3. faults' \in Nat
      BY <2>6 DEF JournalDone
    <3> QED BY <2>6, <3>2, <3>3 DEF JournalDone, Steps, KindInv, CommitSteps, CascadeSteps
  <2>7. CASE ClearFileOpJournal(c)
    <3>1. KindInv'
      BY <1>0, <2>7 DEF ClearFileOpJournal, Return, KindInv, CommitSteps, CascadeSteps
    <3>2. journal' \subseteq Journal
      BY <2>7 DEF ClearFileOpJournal
    <3> QED BY <2>7, <3>1, <3>2, ReturnTypes DEF ClearFileOpJournal, Request
  <2> QED BY <1>6, <2>1, <2>2, <2>3, <2>4, <2>5, <2>6, <2>7 DEF Commit
<1>7. ASSUME NEW c \in Clients, Cascade(c) PROVE TypeOK' /\ KindInv'
  <2>1. CASE pc[c] = "rmManifest"
    BY <1>7, <2>1 DEF Cascade, Steps, KindInv, CommitSteps, CascadeSteps
  <2>2. CASE pc[c] = "rmLfs"
    BY <1>7, <2>2 DEF Cascade, Steps, KindInv, CommitSteps, CascadeSteps
  <2>3. CASE pc[c] = "rmOps"
    <3>1. /\ staged' = {} /\ journal' = {} /\ latest' = Nothing /\ harmed' = {}
          /\ Return(c)
          /\ UNCHANGED <<doc, blob, manifest, listed, up, got, nextId, crashes, faults>>
      BY <1>7, <2>3 DEF Cascade
    <3>2. KindInv'
      BY <1>0, <3>1 DEF Return, KindInv, CommitSteps, CascadeSteps
    <3> QED BY <3>1, <3>2, ReturnTypes DEF Request
  <2> QED BY <1>7, <2>1, <2>2, <2>3 DEF Cascade
<1>8. ASSUME NEW c \in Clients, IOError(c) PROVE TypeOK' /\ KindInv'
  <2>1. KindInv'
    BY <1>0, <1>8 DEF IOError, Return, KindInv, CommitSteps, CascadeSteps
  <2>2. HarmOfError(c) \subseteq Names
    BY DEF HarmOfError, HarmOfKill, CascadeSteps
  <2>3. faults' \in Nat
    BY <1>8 DEF IOError
  <2> QED BY <1>8, <2>1, <2>2, <2>3, ReturnTypes DEF IOError, Request
<1>9. ASSUME NEW c \in Clients, NEW n \in Names, OpenFileForDownload(c, n)
      PROVE  TypeOK' /\ KindInv'
  <2>1. req' \in [Clients -> Request] /\ pc' \in [Clients -> Steps]
    BY <1>0, <1>9 DEF OpenFileForDownload, Request, Steps
  <2>2. got' \in [Clients -> Download]
    BY <1>9 DEF OpenFileForDownload, Download, Entry
  <2>3. KindInv'
    BY <1>0, <1>9 DEF OpenFileForDownload, KindInv, CommitSteps, CascadeSteps
  <2> QED BY <1>9, <2>1, <2>2, <2>3 DEF OpenFileForDownload, Request, Download
<1>10. ASSUME NEW c \in Clients, OpenBinary(c) PROVE TypeOK' /\ KindInv'
  <2>1. got' \in [Clients -> Download]
    BY <1>10 DEF OpenBinary, Download
  <2>2. KindInv'
    BY <1>0, <1>10 DEF OpenBinary, Return, KindInv, CommitSteps, CascadeSteps
  <2> QED BY <1>10, <2>1, <2>2, ReturnTypes DEF OpenBinary, Request, Download
<1>11. CASE CreateDocument
  BY <1>11 DEF CreateDocument, KindInv
<1>12. CASE Crash
  <2>1. \A c \in mu : HarmOfKill(c) \subseteq Names
    BY DEF HarmOfKill, CascadeSteps
  <2>2. pc' \in [Clients -> Steps] /\ req' \in [Clients -> Request] /\ crashes' \in Nat
    BY <1>12 DEF Crash, Steps
  <2>3. KindInv'
    BY <1>12 DEF Crash, KindInv, CommitSteps, CascadeSteps
  <2>4. harmed' \subseteq Names
    BY <1>12, <2>1 DEF Crash
  <2> QED BY <1>12, <2>2, <2>3, <2>4 DEF Crash, Request
<1>13. ASSUME NEW j \in journal, RecoverFileOps(j) PROVE TypeOK' /\ KindInv'
  <2>1. j.name \in Names /\ j.id \in Versions
    BY DEF Journal
  <2>2. manifest' \in [Names -> Versions]
    BY <1>13, <2>1 DEF RecoverFileOps
  <2>3. journal' \subseteq Journal /\ listed' \subseteq Journal /\ faults' \in Nat
    BY <1>13 DEF RecoverFileOps
  <2> QED BY <1>13, <2>2, <2>3 DEF RecoverFileOps, KindInv
<1>14. ASSUME Listen, faults' \in Nat PROVE TypeOK' /\ KindInv'
  <2>1. LeftBehind \subseteq Names
    BY DEF LeftBehind, Journal
  <2> QED BY <1>14, <2>1 DEF Listen, KindInv
<1>15. CASE Serve \/ RecoveryFails
  BY <1>14, <1>15 DEF Serve, RecoveryFails
<1>16. CASE UNCHANGED vars
  BY <1>16 DEF vars, KindInv
<1> QED
  BY <1>1, <1>2, <1>3, <1>4, <1>5, <1>6, <1>7, <1>8, <1>9, <1>10, <1>11, <1>12,
     <1>13, <1>14, <1>15, <1>16 DEF Next, ClientStep

(* Every variable of the attachment store keeps its type. *)
THEOREM TypeCorrect == Spec => []TypeOK
<1>1. Init => TypeOK /\ KindInv
  BY TypeInit DEF Init, KindInv, CommitSteps, CascadeSteps
<1> QED BY <1>1, TypeStep, PTL DEF Spec

-----------------------------------------------------------------------------
(* The inductive invariant *)

(* The invariant holds of an idle server and a document without files. *)
LEMMA InvInit == Init => IInv
<1> SUFFICES ASSUME Init PROVE IInv
  OBVIOUS
<1> USE ConstantTypes DEF Init
<1>1. TypeOK
  BY TypeInit
<1>2. KindInv /\ MutexInv /\ HolderInv /\ JournalInv
  BY DEF KindInv, MutexInv, HolderInv, JournalInv, LockedSteps, CommitSteps, CascadeSteps
<1>3. AgreeInv /\ AgeInv /\ DownloadNotOlder
  BY DEF AgreeInv, AgeInv, DownloadNotOlder, NoDownload
<1> QED BY <1>1, <1>2, <1>3 DEF IInv

\* The invariant without what TypeStep shows.
Rest == MutexInv /\ HolderInv /\ JournalInv /\ AgreeInv /\ AgeInv /\ DownloadNotOlder

(* A step that touches no file, no history and no request of the holder's, *)
(* and that nobody enters or leaves the locked section by.                 *)
Outside ==
    /\ UNCHANGED <<blob, manifest, journal, listed, up, mu, nextId, latest, harmed>>
    /\ doc => doc'
    /\ mu # {} => doc' = doc
    /\ \A c \in mu : pc'[c] = pc[c] /\ req'[c] = req[c]
    /\ \A c \in Clients \ mu : pc'[c] \notin LockedSteps

(* Such a step keeps what the locked section knows. *)
LEMMA OutsideInv ==
  ASSUME IInv, Outside, up
  PROVE  MutexInv' /\ HolderInv' /\ JournalInv' /\ AgreeInv'
<1> USE DEF Outside, IInv
<1>0. mu \in SUBSET Clients
  BY DEF TypeOK
<1>1. MutexInv'
  BY <1>0 DEF MutexInv
<1>2. HolderInv'
  BY <1>0 DEF HolderInv, JournalOf, Target
<1>3. JournalInv'
  BY <1>0 DEF JournalInv, JournalOf, Target
<1>4. AgreeInv'
  BY <1>0 DEF AgreeInv
<1> QED BY <1>1, <1>2, <1>3, <1>4

(* The steps of a request before it is admitted, and of a download. *)
LEMMA RequestInv ==
  ASSUME IInv, TypeOK', NEW c \in Clients,
         \/ \E op \in Ops, n \in Names, v \in Versions : Send(c, op, n, v)
         \/ StageWriteBinary(c)
         \/ StageNameLost(c)
         \/ LockAndRefuse(c)
         \/ \E n \in Names : OpenFileForDownload(c, n)
         \/ OpenBinary(c)
         \/ CreateDocument
  PROVE  Rest'
<1> USE ConstantTypes
<1> USE DEF Goto, fileVars, histVars, Rest
<1>0. TypeOK /\ MutexInv /\ AgeInv /\ DownloadNotOlder
  BY DEF IInv
<1>a. c \in mu <=> pc[c] \in LockedSteps
  BY DEF IInv, MutexInv
<1>b. \A d \in Clients \ mu : pc[d] \notin LockedSteps
  BY DEF IInv, MutexInv
<1>c. pc[c] # "idle" => up
  BY DEF IInv, MutexInv, TypeOK
<1> USE DEF LockedSteps, CommitSteps, CascadeSteps
<1>1. ASSUME NEW op \in Ops, NEW n \in Names, NEW v \in Versions, Send(c, op, n, v)
      PROVE  Rest'
  <2>0. c \notin mu
    BY <1>1, <1>a DEF Send
  <2>1. Outside /\ up
    <3>1. \A d \in Clients \ {c} : pc'[d] = pc[d] /\ req'[d] = req[d]
      BY <1>0, <1>1 DEF Send, TypeOK
    <3>2. pc'[c] \in {"upload", "lock"}
      BY <1>0, <1>1 DEF Send, TypeOK
    <3>3. mu \subseteq Clients
      BY <1>0 DEF TypeOK
    <3> QED BY <1>1, <1>b, <2>0, <3>1, <3>2, <3>3 DEF Send, Outside
  <2>2. AgeInv'
    <3>1. \A d \in Clients : pc'[d] = "open" => pc[d] = "open" /\ req'[d] = req[d]
      BY <1>0, <1>1 DEF Send, TypeOK
    <3>2. \A d \in Clients : got'[d] = got[d] \/ (d = c /\ got'[d].entry = 0)
      BY <1>0, <1>1 DEF Send, TypeOK, NoDownload
    <3>3. pc'[c] # "open" /\ nextId \in Nat /\ 0 < nextId
      BY <1>0, <1>1, NumberFacts DEF Send, TypeOK
    <3> QED BY <1>0, <1>1, <3>1, <3>2, <3>3 DEF Send, AgeInv
  <2>3. DownloadNotOlder'
    BY <1>0, <1>1 DEF Send, DownloadNotOlder, NoDownload, TypeOK
  <2> QED BY <2>1, <2>2, <2>3, OutsideInv
<1>2. ASSUME StageWriteBinary(c) PROVE Rest'
  <2>1. Outside /\ up
    <3>1. c \notin mu /\ up
      BY <1>2, <1>a, <1>c DEF StageWriteBinary
    <3>2. mu' = mu /\ \A d \in Clients \ {c} : pc'[d] = pc[d] /\ req'[d] = req[d]
      <4>1. CASE Goto(c, "lock") /\ UNCHANGED <<mu, req>>
        BY <1>0, <4>1 DEF TypeOK
      <4>2. CASE Return(c)
        BY <1>0, <3>1, <4>2 DEF Return, TypeOK
      <4> QED BY <1>2, <4>1, <4>2 DEF StageWriteBinary
    <3>3. pc'[c] \notin LockedSteps
      BY <1>0, <1>2 DEF StageWriteBinary, Return, TypeOK
    <3>4. UNCHANGED <<listed, doc, blob, manifest, journal, up, nextId, latest, harmed>>
      BY <1>2 DEF StageWriteBinary
    <3>5. mu \in SUBSET Clients
      BY <1>0 DEF TypeOK
    <3> QED BY <1>b, <3>1, <3>2, <3>3, <3>4, <3>5 DEF Outside
  <2>2. AgeInv'
    BY <1>0, <1>2 DEF StageWriteBinary, Return, AgeInv, TypeOK
  <2>3. DownloadNotOlder'
    BY <1>0, <1>2 DEF StageWriteBinary, DownloadNotOlder
  <2> QED BY <2>1, <2>2, <2>3, OutsideInv
<1>3. ASSUME StageNameLost(c) PROVE Rest'
  <2>1. Outside /\ up
    BY <1>0, <1>3, <1>a, <1>b, <1>c DEF StageNameLost, Outside, TypeOK
  <2>2. AgeInv'
    BY <1>0, <1>3 DEF StageNameLost, AgeInv, TypeOK
  <2>3. DownloadNotOlder'
    BY <1>0, <1>3 DEF StageNameLost, DownloadNotOlder
  <2> QED BY <2>1, <2>2, <2>3, OutsideInv
<1>4. ASSUME LockAndRefuse(c) PROVE Rest'
  <2>1. Outside /\ up
    BY <1>0, <1>4, <1>a, <1>b, <1>c DEF LockAndRefuse, Return, Outside, TypeOK
  <2>2. AgeInv'
    BY <1>0, <1>4 DEF LockAndRefuse, Return, AgeInv, TypeOK
  <2>3. DownloadNotOlder'
    BY <1>0, <1>4 DEF LockAndRefuse, DownloadNotOlder
  <2> QED BY <2>1, <2>2, <2>3, OutsideInv
<1>5. ASSUME NEW n \in Names, OpenFileForDownload(c, n) PROVE Rest'
  <2>1. Outside /\ up
    BY <1>0, <1>5, <1>a, <1>b DEF OpenFileForDownload, Outside, TypeOK
  <2>2. got'[c].entry = manifest[n] /\ req'[c].name = n /\ got'[c].bytes = 0
    <3>1. Entry(n) = manifest[n]
      BY <1>5 DEF OpenFileForDownload, Entry
    <3>2. NoRequest \in Request
      OBVIOUS
    <3> QED BY <1>0, <1>5, <3>1, <3>2 DEF OpenFileForDownload, TypeOK, Request
  <2>3. AgeInv'
    BY <1>0, <1>5, <2>2 DEF OpenFileForDownload, AgeInv, TypeOK
  <2>4. DownloadNotOlder'
    BY <1>0, <1>5, <2>2 DEF OpenFileForDownload, DownloadNotOlder, TypeOK
  <2> QED BY <2>1, <2>3, <2>4, OutsideInv
<1>6. ASSUME OpenBinary(c) PROVE Rest'
  <2>1. Outside /\ up
    BY <1>0, <1>6, <1>a, <1>b, <1>c DEF OpenBinary, Return, Outside, TypeOK
  <2>2. got'[c].entry = got[c].entry /\ got'[c].bytes = blob[req[c].name]
    BY <1>0, <1>6 DEF OpenBinary, TypeOK
  <2>3. AgeInv'
    BY <1>0, <1>6, <2>2 DEF OpenBinary, Return, AgeInv, TypeOK
  <2>4. DownloadNotOlder'
    BY <1>0, <1>6, <2>2 DEF OpenBinary, DownloadNotOlder, AgeInv, TypeOK
  <2> QED BY <2>1, <2>3, <2>4, OutsideInv
<1>7. ASSUME CreateDocument PROVE Rest'
  <2>1. Outside /\ up
    BY <1>0, <1>7, <1>b DEF CreateDocument, Outside, TypeOK
  <2>2. AgeInv' /\ DownloadNotOlder'
    BY <1>0, <1>7 DEF CreateDocument, AgeInv, DownloadNotOlder
  <2> QED BY <2>1, <2>2, OutsideInv
<1> QED BY <1>1, <1>2, <1>3, <1>4, <1>5, <1>6, <1>7

(* Whoever is in the locked section is there alone, on a server that is up.*)
LEMMA HolderFacts ==
  ASSUME IInv, NEW c \in Clients, pc[c] \in LockedSteps
  PROVE  /\ mu = {c} /\ up
         /\ \A d \in Clients \ {c} : pc[d] \notin LockedSteps
BY DEF IInv, MutexInv, TypeOK, LockedSteps, CommitSteps, CascadeSteps

(* A server that serves has no journal left to look at. *)
LEMMA NothingListed == IInv /\ up => listed = {}
BY DEF IInv, JournalInv

(* A request is admitted against the last commit: nobody holds the mutex,  *)
(* so the manifest it is compared with is that of the last commit.         *)
LEMMA AdmitInv ==
  ASSUME IInv, TypeOK', NEW c \in Clients, NEW k \in Versions, LockAndAdmit(c, k)
  PROVE  Rest'
<1> USE ConstantTypes
<1> USE DEF Goto, histVars
<1>0. TypeOK /\ TypeOK' /\ pc[c] = "lock" /\ mu = {} /\ up
  BY DEF IInv, LockAndAdmit, MutexInv
<1>1. /\ mu' = {c} /\ nextId' = nextId + 1
      /\ req'[c].id = nextId /\ req'[c].op = req[c].op /\ req'[c].name = req[c].name
      /\ req'[c].ifMatch = req[c].ifMatch
      /\ pc'[c] = FirstStep(req[c])
      /\ \A d \in Clients \ {c} : pc'[d] = pc[d] /\ req'[d] = req[d]
      /\ UNCHANGED <<listed, blob, manifest, journal, up, got, latest, harmed>>
  BY <1>0 DEF LockAndAdmit, TypeOK
<1>2. pc'[c] \in {"rmManifest", "journal"} /\ (pc'[c] = "journal" <=> req[c].op # "delete")
  BY <1>1 DEF FirstStep
<1>3. MutexInv'
  BY <1>0, <1>1, <1>2 DEF IInv, MutexInv, LockedSteps, CommitSteps, CascadeSteps
<1>4. HolderInv'
  <2>1. req'[c].id + 1 = nextId'
    BY <1>0, <1>1 DEF TypeOK
  <2>2. pc'[c] \in CommitSteps => doc'
    BY <1>1, <1>2 DEF LockAndAdmit, Admitted, CommitSteps
  <2>3. pc'[c] = "journal" /\ req[c].name \notin harmed => req[c].ifMatch = latest[req[c].name]
    <3>1. SUFFICES ASSUME req[c].op # "delete", req[c].name \notin harmed
                   PROVE  req[c].ifMatch = latest[req[c].name]
      BY <1>2
    <3>2. manifest[req[c].name] = req[c].ifMatch
      BY <3>1 DEF LockAndAdmit, Admitted
    <3>3. manifest[req[c].name] = latest[req[c].name]
      BY <1>0, <3>1 DEF IInv, AgreeInv, TypeOK
    <3> QED BY <3>2, <3>3
  <2> QED BY <1>1, <1>2, <2>1, <2>2, <2>3 DEF HolderInv
<1>5. JournalInv'
  BY <1>0, <1>1 DEF IInv, JournalInv, Target
<1>6. AgreeInv'
  <2>1. doc /\ (doc' \/ pc'[c] \in CascadeSteps)
    BY <1>1 DEF LockAndAdmit, Admitted, FirstStep, CascadeSteps
  <2> QED BY <1>0, <1>1, <2>1 DEF IInv, AgreeInv
<1>7. AgeInv'
  <2>1. \A d \in Clients : pc'[d] = "open" => pc[d] = "open" /\ req'[d] = req[d]
    BY <1>1, <1>2
  <2>2. \A n \in Names : blob[n] < nextId' /\ manifest[n] < nextId'
    BY <1>0, <1>1 DEF IInv, AgeInv, TypeOK, Versions
  <2>3. \A j \in journal : j.id < nextId'
    BY <1>0, <1>1 DEF IInv, AgeInv, TypeOK, Versions, Journal
  <2>4. \A d \in Clients : got[d].entry < nextId'
    BY <1>0, <1>1 DEF IInv, AgeInv, TypeOK, Versions
  <2> QED BY <1>1, <2>1, <2>2, <2>3, <2>4 DEF IInv, AgeInv
<1>8. DownloadNotOlder'
  BY <1>1 DEF IInv, DownloadNotOlder
<1> QED BY <1>3, <1>4, <1>5, <1>6, <1>7, <1>8 DEF Rest

(* The holder goes on to another step of the locked section. *)
LEMMA StayInv ==
  ASSUME IInv, NEW c \in Clients, NEW step \in LockedSteps, pc[c] \in LockedSteps,
         Goto(c, step), mu' = mu, up' = up
  PROVE  /\ MutexInv' /\ mu' = {c} /\ pc'[c] = step
         /\ \A d \in Clients \ {c} : pc'[d] = pc[d]
         /\ \A d \in Clients : pc'[d] # "open" \/ pc[d] = "open"
<1>1. mu = {c} /\ up /\ \A d \in Clients \ {c} : pc[d] \notin LockedSteps
  BY HolderFacts
<1>2. pc'[c] = step /\ \A d \in Clients \ {c} : pc'[d] = pc[d]
  BY DEF Goto, IInv, TypeOK
<1> QED BY <1>1, <1>2 DEF MutexInv, LockedSteps, CommitSteps, CascadeSteps

(* The holder returns and lets go of the mutex. *)
LEMMA LeaveInv ==
  ASSUME IInv, NEW c \in Clients, pc[c] \in LockedSteps, Return(c), up' = up
  PROVE  /\ MutexInv' /\ HolderInv' /\ mu' = {}
         /\ \A d \in Clients : pc'[d] # "open" \/ (pc[d] = "open" /\ req'[d] = req[d])
<1>1. mu = {c} /\ up /\ \A d \in Clients \ {c} : pc[d] \notin LockedSteps
  BY HolderFacts
<1>2. /\ pc'[c] = "idle" /\ mu' = {}
      /\ \A d \in Clients \ {c} : pc'[d] = pc[d] /\ req'[d] = req[d]
  BY <1>1 DEF Return, Goto, IInv, TypeOK
<1> QED BY <1>1, <1>2 DEF MutexInv, HolderInv, LockedSteps, CommitSteps, CascadeSteps

(* The first journal of a commit says nothing that recovery acts upon. *)
LEMMA JournalStagedInv ==
  ASSUME IInv, NEW c \in Clients, JournalStaged(c)
  PROVE  Rest'
<1> USE DEF histVars
<1>0. TypeOK /\ pc[c] = "journal" /\ pc[c] \in LockedSteps /\ "blob" \in LockedSteps
  BY DEF IInv, JournalStaged, LockedSteps, CommitSteps
<1>1. /\ MutexInv' /\ mu' = {c} /\ pc'[c] = "blob"
      /\ \A d \in Clients \ {c} : pc'[d] = pc[d]
      /\ \A d \in Clients : pc'[d] # "open" \/ pc[d] = "open"
  BY <1>0, StayInv DEF JournalStaged
<1>2. mu = {c} /\ up
  BY <1>0, HolderFacts
<1>3. UNCHANGED <<listed, doc, blob, manifest, up, mu, req, got, nextId, latest, harmed>>
  BY DEF JournalStaged
<1>4. HolderInv'
  BY <1>0, <1>1, <1>2, <1>3 DEF IInv, HolderInv, CommitSteps, Target
<1>5. JournalInv'
  BY <1>0, <1>2, <1>3 DEF IInv, JournalInv, JournalStaged, WriteFileOpJournal, JournalOf
<1>6. AgreeInv'
  BY <1>0, <1>1, <1>2, <1>3 DEF IInv, AgreeInv, CascadeSteps
<1>7. AgeInv'
  <2>1. JournalOf(c, "staged").id < nextId /\ JournalOf(c, "staged").phase = "staged"
    BY <1>0, <1>2 DEF IInv, HolderInv, JournalOf, TypeOK, Versions
  <2> QED BY <1>0, <1>1, <1>3, <2>1 DEF IInv, AgeInv, JournalStaged, WriteFileOpJournal
<1>8. DownloadNotOlder'
  BY <1>3 DEF IInv, DownloadNotOlder
<1> QED BY <1>1, <1>4, <1>5, <1>6, <1>7, <1>8 DEF Rest

(* The bytes are replaced by those of the youngest version there is. *)
LEMMA CommitBlobInv ==
  ASSUME IInv, NEW c \in Clients, CommitBlob(c)
  PROVE  Rest'
<1> USE DEF histVars
<1>0. TypeOK /\ pc[c] = "blob" /\ pc[c] \in LockedSteps /\ "committed" \in LockedSteps
  BY DEF IInv, CommitBlob, LockedSteps, CommitSteps
<1>1. /\ MutexInv' /\ mu' = {c} /\ pc'[c] = "committed"
      /\ \A d \in Clients \ {c} : pc'[d] = pc[d]
      /\ \A d \in Clients : pc'[d] # "open" \/ pc[d] = "open"
  BY <1>0, StayInv DEF CommitBlob
<1>2. mu = {c} /\ up
  BY <1>0, HolderFacts
<1>3. UNCHANGED <<listed, doc, manifest, journal, up, mu, req, got, nextId, latest, harmed>>
  BY DEF CommitBlob
<1>4. /\ blob'[req[c].name] = Target(req[c])
      /\ \A n \in Names \ {req[c].name} : blob'[n] = blob[n]
  BY <1>0 DEF CommitBlob, TypeOK, Target
<1>5. HolderInv'
  BY <1>0, <1>1, <1>2, <1>3, <1>4 DEF IInv, HolderInv, CommitSteps, Target
<1>6. JournalInv'
  BY <1>0, <1>2, <1>3 DEF IInv, JournalInv
<1>7. AgreeInv'
  BY <1>0, <1>1, <1>2, <1>3, <1>4 DEF IInv, AgreeInv, CascadeSteps
<1>8. AgeInv'
  <2>1. req[c].id + 1 = nextId /\ req[c].id \in Nat /\ nextId \in Nat
    BY <1>0, <1>2 DEF IInv, HolderInv, TypeOK, Versions
  <2>2. \A n \in Names : /\ blob'[n] < nextId
                         /\ blob'[n] = blob[n] \/ blob'[n] = 0 \/ blob'[n] + 1 = nextId
    BY <1>4, <2>1 DEF IInv, AgeInv, Target
  <2>3. \A n \in Names : blob'[n] \in Nat /\ blob[n] \in Nat /\ manifest[n] \in Nat
    <3>1. blob'[req[c].name] \in Nat
      BY <1>4, <2>1 DEF Target
    <3> QED BY <1>0, <1>4, <3>1, ConstantTypes DEF TypeOK
  <2>4. \A n \in Names : blob'[n] # 0 => blob'[n] >= manifest[n]
    BY <2>1, <2>2, <2>3 DEF IInv, AgeInv
  <2>5. \A j \in journal : /\ j.id < nextId /\ j.id \in Nat /\ j.name \in Names
    BY <1>0, ConstantTypes DEF IInv, AgeInv, TypeOK, Journal
  <2>6. \A j \in journal :
          j.phase = "blobCommitted" /\ j.op = "put" /\ blob'[j.name] # 0 =>
            blob'[j.name] >= j.id
    BY <2>1, <2>2, <2>3, <2>5 DEF IInv, AgeInv
  <2>7. \A d \in Clients : got[d].entry < nextId /\ got[d].entry \in Nat
                           /\ req[d].name \in Names
    BY <1>0, ConstantTypes DEF IInv, AgeInv, TypeOK
  <2>8. \A d \in Clients : pc'[d] = "open" /\ blob'[req[d].name] # 0 =>
                             blob'[req[d].name] >= got[d].entry
    BY <1>1, <2>1, <2>2, <2>3, <2>7 DEF IInv, AgeInv
  <2> QED BY <1>3, <2>2, <2>4, <2>5, <2>6, <2>7, <2>8 DEF IInv, AgeInv
<1>9. DownloadNotOlder'
  BY <1>3 DEF IInv, DownloadNotOlder
<1> QED BY <1>1, <1>5, <1>6, <1>7, <1>8, <1>9 DEF Rest

(* An operation whose stage file is gone ends before it replaced anything. *)
LEMMA CommitBlobFailsInv ==
  ASSUME IInv, NEW c \in Clients, CommitBlobFails(c)
  PROVE  Rest'
<1> USE DEF fileVars, histVars
<1>0. TypeOK /\ pc[c] = "blob" /\ pc[c] \in LockedSteps
  BY DEF IInv, CommitBlobFails, LockedSteps, CommitSteps
<1>1. /\ MutexInv' /\ HolderInv' /\ mu' = {}
      /\ \A d \in Clients : pc'[d] # "open" \/ (pc[d] = "open" /\ req'[d] = req[d])
  BY <1>0, LeaveInv DEF CommitBlobFails
<1>2. mu = {c} /\ up
  BY <1>0, HolderFacts
<1>3. UNCHANGED <<listed, doc, blob, manifest, journal, up, got, nextId, latest, harmed>>
  BY DEF CommitBlobFails
<1>4. JournalInv' /\ AgreeInv'
  BY <1>0, <1>2, <1>3 DEF IInv, JournalInv, AgreeInv, CascadeSteps
<1>5. AgeInv' /\ DownloadNotOlder'
  BY <1>1, <1>3 DEF IInv, AgeInv, DownloadNotOlder
<1> QED BY <1>1, <1>4, <1>5 DEF Rest

(* The commit point: the only journal recovery will complete is this one,  *)
(* and it says what the bytes in place are.                                *)
LEMMA JournalCommittedInv ==
  ASSUME IInv, NEW c \in Clients, JournalCommitted(c)
  PROVE  Rest'
<1>0. TypeOK /\ pc[c] = "committed" /\ pc[c] \in LockedSteps /\ "manifest" \in LockedSteps
  BY DEF IInv, JournalCommitted, LockedSteps, CommitSteps
<1>1. /\ MutexInv' /\ mu' = {c} /\ pc'[c] = "manifest"
      /\ \A d \in Clients \ {c} : pc'[d] = pc[d]
      /\ \A d \in Clients : pc'[d] # "open" \/ pc[d] = "open"
  BY <1>0, StayInv DEF JournalCommitted
<1>2. mu = {c} /\ up /\ doc /\ req[c].name \in Names
  BY <1>0, HolderFacts DEF IInv, HolderInv, CommitSteps, TypeOK
<1>3. UNCHANGED <<listed, doc, blob, manifest, up, mu, req, got, nextId, harmed>>
  BY DEF JournalCommitted
<1>4. /\ blob[req[c].name] = Target(req[c])
      /\ latest'[req[c].name] = Target(req[c])
      /\ \A n \in Names \ {req[c].name} : latest'[n] = latest[n]
  BY <1>0, <1>2 DEF IInv, HolderInv, JournalCommitted, TypeOK
<1> DEFINE J == JournalOf(c, "blobCommitted")
<1>5. /\ J.name = req[c].name /\ J.op = req[c].op /\ J.id = req[c].id
      /\ J.phase = "blobCommitted" /\ Target(J) = Target(req[c])
  BY DEF JournalOf, Target
<1>6. /\ J \in journal' /\ J = JournalOf(c, "blobCommitted")'
      /\ \A j \in journal' : j \in journal \/ j = J
  BY <1>3 DEF JournalCommitted, WriteFileOpJournal, JournalOf
<1> HIDE DEF J
<1>7. HolderInv'
  BY <1>0, <1>1, <1>2, <1>3, <1>4, <1>6 DEF IInv, HolderInv, CommitSteps, Target
<1>8. JournalInv'
  <2>1. ASSUME NEW j \in journal', j.phase = "blobCommitted", j.name \notin harmed
        PROVE  j = J
    BY <1>0, <1>2, <1>6, <2>1 DEF IInv, JournalInv
  <2>2. Target(J) = latest'[J.name]
    BY <1>4, <1>5
  <2> QED BY <1>1, <1>2, <1>3, <1>6, <2>1, <2>2, NothingListed DEF JournalInv, Target
<1>9. AgreeInv'
  BY <1>0, <1>1, <1>2, <1>3, <1>4 DEF IInv, AgreeInv, CascadeSteps
<1>10. AgeInv'
  <2>1. J.id < nextId /\ (J.op = "put" /\ blob[J.name] # 0 => blob[J.name] >= J.id)
    BY <1>0, <1>2, <1>4, <1>5 DEF IInv, HolderInv, TypeOK, Target, Versions
  <2> QED BY <1>1, <1>3, <1>6, <2>1 DEF IInv, AgeInv
<1>11. DownloadNotOlder'
  BY <1>3 DEF IInv, DownloadNotOlder
<1> QED BY <1>1, <1>7, <1>8, <1>9, <1>10, <1>11 DEF Rest

(* The manifest follows the bytes that are in place. *)
LEMMA UpdateManifestInv ==
  ASSUME IInv, NEW c \in Clients, UpdateManifest(c)
  PROVE  Rest'
<1> USE DEF histVars
<1>0. TypeOK /\ pc[c] = "manifest" /\ pc[c] \in LockedSteps
  BY DEF IInv, UpdateManifest, LockedSteps, CommitSteps
<1>s. PICK step \in {"done", "clear"} : Goto(c, step)
  BY DEF UpdateManifest
<1>t. step \in LockedSteps
  BY DEF LockedSteps, CommitSteps
<1>1. /\ MutexInv' /\ mu' = {c} /\ pc'[c] = step
      /\ \A d \in Clients \ {c} : pc'[d] = pc[d]
      /\ \A d \in Clients : pc'[d] # "open" \/ pc[d] = "open"
  BY <1>0, <1>s, <1>t, StayInv DEF UpdateManifest
<1>2. mu = {c} /\ up /\ doc /\ req[c].name \in Names
  BY <1>0, HolderFacts DEF IInv, HolderInv, CommitSteps, TypeOK
<1>3. UNCHANGED <<listed, doc, blob, journal, up, mu, req, got, nextId, latest, harmed>>
  BY DEF UpdateManifest
<1>4. /\ blob[req[c].name] = Target(req[c])
      /\ manifest'[req[c].name] = Target(req[c])
      /\ \A n \in Names \ {req[c].name} : manifest'[n] = manifest[n]
  BY <1>0, <1>2 DEF IInv, HolderInv, UpdateManifest, TypeOK, Target
<1>5. HolderInv'
  BY <1>0, <1>1, <1>2, <1>3, <1>4 DEF IInv, HolderInv, CommitSteps, Target
<1>6. JournalInv'
  BY <1>1, <1>2, <1>3 DEF IInv, JournalInv, JournalOf, Target
<1>7. AgreeInv'
  BY <1>0, <1>1, <1>2, <1>3, <1>4 DEF IInv, AgreeInv, CascadeSteps
<1>8. AgeInv'
  <2>1. \A n \in Names : /\ manifest'[n] < nextId
                         /\ blob[n] # 0 => blob[n] >= manifest'[n]
    <3>1. blob[req[c].name] \in Nat
      BY <1>0, <1>2, ConstantTypes DEF TypeOK
    <3> QED BY <1>4, <3>1 DEF IInv, AgeInv
  <2> QED BY <1>1, <1>3, <2>1 DEF IInv, AgeInv
<1>9. DownloadNotOlder'
  BY <1>3 DEF IInv, DownloadNotOlder
<1> QED BY <1>1, <1>5, <1>6, <1>7, <1>8, <1>9 DEF Rest

(* Whether the journal says done or still committed, files and history     *)
(* agree by now.                                                           *)
LEMMA JournalDoneInv ==
  ASSUME IInv, NEW c \in Clients, JournalDone(c)
  PROVE  Rest'
<1> USE DEF histVars
<1>0. TypeOK /\ pc[c] = "done" /\ pc[c] \in LockedSteps /\ "clear" \in LockedSteps
  BY DEF IInv, JournalDone, LockedSteps, CommitSteps
<1>1. /\ MutexInv' /\ mu' = {c} /\ pc'[c] = "clear"
      /\ \A d \in Clients \ {c} : pc'[d] = pc[d]
      /\ \A d \in Clients : pc'[d] # "open" \/ pc[d] = "open"
  BY <1>0, StayInv DEF JournalDone
<1>2. mu = {c} /\ up
  BY <1>0, HolderFacts
<1>3. UNCHANGED <<listed, doc, blob, manifest, up, mu, req, got, nextId, latest, harmed>>
  BY DEF JournalDone
<1>4. HolderInv'
  BY <1>0, <1>1, <1>2, <1>3 DEF IInv, HolderInv, CommitSteps, Target
<1>5. \A j \in journal' : j \in journal \/ (j.id = req[c].id /\ j.phase = "done")
  BY DEF JournalDone, WriteFileOpJournal, JournalOf
<1>6. JournalInv'
  <2>1. ASSUME NEW j \in journal', j.phase = "blobCommitted", j.name \notin harmed
        PROVE  Target(j) = latest[j.name] /\ j = JournalOf(c, "blobCommitted")
    BY <1>2, <1>5, <2>1 DEF IInv, JournalInv
  <2>2. JournalOf(c, "blobCommitted")' = JournalOf(c, "blobCommitted")
    BY <1>3 DEF JournalOf
  <2> QED BY <1>1, <1>2, <1>3, <2>1, <2>2, NothingListed DEF JournalInv, Target
<1>7. AgreeInv'
  BY <1>0, <1>1, <1>2, <1>3 DEF IInv, AgreeInv, CascadeSteps
<1>8. AgeInv'
  <2>1. req[c].id < nextId
    BY <1>0, <1>2 DEF IInv, HolderInv, TypeOK, Versions
  <2> QED BY <1>1, <1>3, <1>5, <2>1 DEF IInv, AgeInv
<1>9. DownloadNotOlder'
  BY <1>3 DEF IInv, DownloadNotOlder
<1> QED BY <1>1, <1>4, <1>6, <1>7, <1>8, <1>9 DEF Rest

(* A commit that ends takes its journal with it. *)
LEMMA ClearInv ==
  ASSUME IInv, NEW c \in Clients, ClearFileOpJournal(c)
  PROVE  Rest'
<1> USE DEF histVars
<1>0. TypeOK /\ pc[c] = "clear" /\ pc[c] \in LockedSteps
  BY DEF IInv, ClearFileOpJournal, LockedSteps, CommitSteps
<1>1. /\ MutexInv' /\ HolderInv' /\ mu' = {}
      /\ \A d \in Clients : pc'[d] # "open" \/ (pc[d] = "open" /\ req'[d] = req[d])
  BY <1>0, LeaveInv DEF ClearFileOpJournal
<1>2. mu = {c} /\ up
  BY <1>0, HolderFacts
<1>3. UNCHANGED <<listed, doc, blob, manifest, up, got, nextId, latest, harmed>>
  BY DEF ClearFileOpJournal
<1>4. \A j \in journal' : j \in journal /\ j.key # req[c].key
  BY DEF ClearFileOpJournal
<1>5. JournalInv'
  BY <1>2, <1>3, <1>4 DEF IInv, JournalInv, JournalOf
<1>6. AgreeInv'
  BY <1>0, <1>2, <1>3 DEF IInv, AgreeInv, CascadeSteps
<1>7. AgeInv' /\ DownloadNotOlder'
  BY <1>1, <1>3, <1>4 DEF IInv, AgeInv, DownloadNotOlder
<1> QED BY <1>1, <1>5, <1>6, <1>7 DEF Rest

(* The cascade leaves no file, no journal and no harm behind. *)
LEMMA CascadeInv ==
  ASSUME IInv, NEW c \in Clients, Cascade(c)
  PROVE  Rest'
<1> USE ConstantTypes DEF histVars
<1>0. /\ TypeOK /\ pc[c] \in LockedSteps /\ "rmLfs" \in LockedSteps
      /\ "rmOps" \in LockedSteps
  BY DEF IInv, Cascade, LockedSteps, CascadeSteps
<1>2. mu = {c} /\ up
  BY <1>0, HolderFacts
<1>3. 0 < nextId /\ \A n \in Names : blob[n] \in Nat
  BY <1>0, NumberFacts
<1>4. CASE pc[c] = "rmManifest"
  <2>1. /\ manifest' = Nothing /\ Goto(c, "rmLfs")
        /\ UNCHANGED <<listed, doc, blob, journal, up, mu, req, got, nextId, latest, harmed>>
    BY <1>4 DEF Cascade
  <2>2. /\ MutexInv' /\ mu' = {c} /\ pc'[c] = "rmLfs"
        /\ \A d \in Clients : pc'[d] # "open" \/ pc[d] = "open"
    BY <1>0, <2>1, StayInv
  <2>3. HolderInv' /\ JournalInv' /\ AgreeInv'
    BY <1>2, <1>4, <2>1, <2>2
       DEF IInv, HolderInv, JournalInv, AgreeInv, CommitSteps, CascadeSteps
  <2>4. AgeInv' /\ DownloadNotOlder'
    BY <1>3, <2>1, <2>2 DEF IInv, AgeInv, DownloadNotOlder
  <2> QED BY <2>2, <2>3, <2>4 DEF Rest
<1>5. CASE pc[c] = "rmLfs"
  <2>1. /\ blob' = Nothing /\ Goto(c, "rmOps")
        /\ UNCHANGED <<listed, doc, manifest, journal, up, mu, req, got, nextId, latest, harmed>>
    BY <1>5 DEF Cascade
  <2>2. /\ MutexInv' /\ mu' = {c} /\ pc'[c] = "rmOps"
        /\ \A d \in Clients : pc'[d] # "open" \/ pc[d] = "open"
    BY <1>0, <2>1, StayInv
  <2>3. HolderInv' /\ JournalInv' /\ AgreeInv'
    BY <1>2, <1>5, <2>1, <2>2
       DEF IInv, HolderInv, JournalInv, AgreeInv, CommitSteps, CascadeSteps
  <2>4. AgeInv' /\ DownloadNotOlder'
    <3>1. \A j \in journal : j.name \in Names
      BY <1>0 DEF TypeOK, Journal
    <3>2. \A d \in Clients : req[d].name \in Names
      BY <1>0 DEF TypeOK
    <3> QED BY <1>3, <2>1, <2>2, <3>1, <3>2 DEF IInv, AgeInv, DownloadNotOlder
  <2> QED BY <2>2, <2>3, <2>4 DEF Rest
<1>6. CASE pc[c] = "rmOps"
  <2>1. /\ journal' = {} /\ latest' = Nothing /\ harmed' = {} /\ Return(c)
        /\ UNCHANGED <<listed, doc, blob, manifest, up, got, nextId>>
    BY <1>6 DEF Cascade
  <2>2. /\ MutexInv' /\ HolderInv' /\ mu' = {}
        /\ \A d \in Clients : pc'[d] # "open" \/ (pc[d] = "open" /\ req'[d] = req[d])
    BY <1>0, <2>1, LeaveInv
  <2>3. manifest = Nothing /\ blob = Nothing
    BY <1>2, <1>6 DEF IInv, HolderInv
  <2>4. JournalInv' /\ AgreeInv'
    BY <1>2, <2>1, <2>3, NothingListed DEF JournalInv, AgreeInv
  <2>5. AgeInv' /\ DownloadNotOlder'
    BY <2>1, <2>2 DEF IInv, AgeInv, DownloadNotOlder
  <2> QED BY <2>2, <2>4, <2>5 DEF Rest
<1> QED BY <1>4, <1>5, <1>6 DEF Cascade

(* An operation that fails harms exactly the names whose journal or files  *)
(* it leaves behind its commit.                                            *)
LEMMA IOErrorInv ==
  ASSUME IInv, NEW c \in Clients, IOError(c)
  PROVE  Rest'
<1>0. TypeOK /\ pc[c] \in LockedSteps /\ pc[c] # "done"
  BY DEF IInv, IOError, LockedSteps, CommitSteps, CascadeSteps
<1>1. /\ MutexInv' /\ HolderInv' /\ mu' = {}
      /\ \A d \in Clients : pc'[d] # "open" \/ (pc[d] = "open" /\ req'[d] = req[d])
  BY <1>0, LeaveInv DEF IOError
<1>2. mu = {c} /\ up
  BY <1>0, HolderFacts
<1>3. UNCHANGED <<listed, doc, blob, manifest, journal, up, got, nextId, latest>>
  BY DEF IOError
<1>4. /\ harmed \subseteq harmed'
      /\ pc[c] \in CascadeSteps => Names \subseteq harmed'
      /\ pc[c] = "committed" => req[c].name \in harmed'
      /\ pc[c] \in {"manifest", "clear"} /\ JournalOf(c, "blobCommitted") \in journal =>
           req[c].name \in harmed'
  BY DEF IOError, HarmOfError, HarmOfKill, CascadeSteps
<1>5. JournalInv'
  <2>1. ASSUME NEW j \in journal, j.phase = "blobCommitted", j.name \notin harmed'
        PROVE  FALSE
    <3>1. pc[c] \in {"manifest", "done", "clear"} /\ j = JournalOf(c, "blobCommitted")
      BY <1>2, <1>4, <2>1 DEF IInv, JournalInv
    <3> QED BY <1>0, <1>4, <2>1, <3>1 DEF JournalOf
  <2> QED BY <1>2, <1>3, <2>1, NothingListed DEF JournalInv
<1>6. AgreeInv'
  <2>1. ASSUME NEW n \in Names \ harmed'
        PROVE  blob[n] = latest[n] /\ manifest[n] = latest[n] /\ (doc \/ latest[n] = 0)
    <3>1. pc[c] \notin CascadeSteps /\ ~(pc[c] = "committed" /\ req[c].name = n)
      BY <1>4, <2>1
    <3>2. ~(pc[c] = "manifest" /\ req[c].name = n)
      BY <1>2, <1>4, <2>1 DEF IInv, HolderInv
    <3> QED BY <1>2, <1>4, <2>1, <3>1, <3>2 DEF IInv, AgreeInv, CascadeSteps
  <2> QED BY <1>3, <2>1 DEF AgreeInv
<1>7. AgeInv' /\ DownloadNotOlder'
  BY <1>1, <1>3 DEF IInv, AgeInv, DownloadNotOlder
<1> QED BY <1>1, <1>5, <1>6, <1>7 DEF Rest

(* A kill harms the names of the operation under way unless its journal    *)
(* says what its files say.                                                *)
LEMMA CrashInv ==
  ASSUME IInv, Crash
  PROVE  Rest'
<1>1. listed' = journal /\ UNCHANGED <<doc, blob, manifest, journal, got, nextId, latest>>
  BY DEF Crash
<1>2. ~up' /\ mu' = {} /\ \A c \in Clients : pc'[c] = "idle"
  BY DEF Crash
<1>3. /\ harmed \subseteq harmed'
      /\ \A c \in mu : /\ pc[c] \in CascadeSteps => Names \subseteq harmed'
                       /\ pc[c] = "committed" => req[c].name \in harmed'
  <2>1. \A c \in mu : HarmOfKill(c) \subseteq harmed'
    BY DEF Crash
  <2>2. harmed \subseteq harmed'
    BY DEF Crash
  <2> QED BY <2>1, <2>2 DEF HarmOfKill, CascadeSteps
<1>4. MutexInv' /\ HolderInv'
  BY <1>2 DEF MutexInv, HolderInv, LockedSteps, CommitSteps, CascadeSteps
<1>5. JournalInv'
  BY <1>1, <1>2, <1>3 DEF IInv, JournalInv, Target
<1>6. AgreeInv'
  <2>1. ASSUME NEW n \in Names \ harmed'
        PROVE  /\ blob[n] = latest[n] /\ (doc \/ latest[n] = 0)
               /\ \/ manifest[n] = latest[n]
                  \/ \E j \in journal : j.phase = "blobCommitted" /\ j.name = n
    <3>1. n \notin harmed
      BY <1>3, <2>1
    <3>2. \A c \in mu : pc[c] \notin CascadeSteps /\ ~(pc[c] = "committed" /\ req[c].name = n)
      BY <1>3, <2>1
    <3>3. \A c \in mu : pc[c] = "manifest" /\ req[c].name = n =>
            \E j \in journal : j.phase = "blobCommitted" /\ j.name = n
      BY DEF IInv, HolderInv, JournalOf
    <3> QED BY <2>1, <3>1, <3>2, <3>3 DEF IInv, AgreeInv, CascadeSteps
  <2> QED BY <1>1, <1>2, <2>1 DEF AgreeInv
<1>7. AgeInv' /\ DownloadNotOlder'
  BY <1>1, <1>2 DEF IInv, AgeInv, DownloadNotOlder
<1> QED BY <1>4, <1>5, <1>6, <1>7 DEF Rest

(* Recovery of one journal: a true one brings its entry up to the last     *)
(* commit; a stale one, whose name is harmed, still names no bytes younger *)
(* than those in place.                                                    *)
LEMMA RecoverInv ==
  ASSUME IInv, NEW j \in journal, RecoverFileOps(j)
  PROVE  Rest'
<1>0. TypeOK /\ ~up /\ j \in Journal
  BY DEF IInv, RecoverFileOps, TypeOK
<1>1. UNCHANGED <<doc, blob, up, mu, pc, req, got, nextId, latest, harmed>>
  BY DEF RecoverFileOps, histVars
<1>2. mu = {} /\ \A c \in Clients : pc[c] = "idle"
  BY <1>0 DEF IInv, MutexInv, TypeOK, LockedSteps, CommitSteps, CascadeSteps
<1>3. journal' \in {journal, journal \ {j}} /\ listed' = listed \ {j}
  BY DEF RecoverFileOps
<1>4. j.name \in Names /\ j.id \in Nat
  BY <1>0, ConstantTypes DEF Journal
<1>5. /\ \A n \in Names \ {j.name} : manifest'[n] = manifest[n]
      /\ j.phase = "blobCommitted" => manifest'[j.name] = Target(j)
      /\ j.phase # "blobCommitted" => manifest' = manifest
  BY <1>0, <1>4 DEF RecoverFileOps, TypeOK, Target
<1>6. MutexInv' /\ HolderInv'
  BY <1>1, <1>2 DEF IInv, MutexInv, HolderInv
<1>7. JournalInv'
  BY <1>0, <1>1, <1>3 DEF IInv, JournalInv, Target
<1>8. AgreeInv'
  <2>1. ASSUME NEW n \in Names \ harmed
        PROVE  \/ manifest'[n] = latest[n]
               \/ \E k \in journal' : k.phase = "blobCommitted" /\ k.name = n
    <3>1. CASE n = j.name /\ j.phase = "blobCommitted"
      BY <1>5, <2>1, <3>1 DEF IInv, JournalInv
    <3>2. CASE ~(n = j.name /\ j.phase = "blobCommitted")
      <4>1. manifest'[n] = manifest[n]
        BY <1>5, <3>2
      <4>2. \/ manifest[n] = latest[n]
            \/ \E k \in journal : k.phase = "blobCommitted" /\ k.name = n
        BY <1>2, <2>1 DEF IInv, AgreeInv
      <4> QED BY <1>3, <3>2, <4>1, <4>2
    <3> QED BY <3>1, <3>2
  <2> QED BY <1>0, <1>1, <1>2, <2>1 DEF IInv, AgreeInv
<1>9. AgeInv'
  <2>1. \A n \in Names : manifest'[n] < nextId /\ (blob[n] # 0 => blob[n] >= manifest'[n])
    <3>1. CASE j.phase = "blobCommitted"
      <4>1. /\ Target(j) < nextId
            /\ blob[j.name] # 0 => blob[j.name] >= Target(j)
        <5>1. blob[j.name] \in Nat /\ nextId \in Nat /\ 0 < nextId
          BY <1>0, <1>4, NumberFacts
        <5> QED BY <1>4, <3>1, <5>1 DEF IInv, AgeInv, Target
      <4> QED BY <1>5, <3>1, <4>1 DEF IInv, AgeInv
    <3>2. CASE j.phase # "blobCommitted"
      BY <1>5, <3>2 DEF IInv, AgeInv
    <3> QED BY <3>1, <3>2
  <2> QED BY <1>1, <1>3, <2>1 DEF IInv, AgeInv
<1>10. DownloadNotOlder'
  BY <1>1 DEF IInv, DownloadNotOlder
<1> QED BY <1>6, <1>7, <1>8, <1>9, <1>10 DEF Rest

(* The server serves again, whether recovery went through all journals or  *)
(* gave up at one: the names of those that are left are harmed.            *)
LEMMA ServeInv ==
  ASSUME IInv, ~up, Listen
  PROVE  Rest'
<1>1. /\ UNCHANGED <<doc, blob, manifest, journal, mu, pc, req, got, nextId, latest>>
      /\ up' /\ listed' = {} /\ harmed \subseteq harmed'
  BY DEF Listen
<1>2. mu = {} /\ \A c \in Clients : pc[c] = "idle"
  BY DEF IInv, MutexInv, TypeOK, LockedSteps, CommitSteps, CascadeSteps
<1>3. \A j \in journal : j.phase = "blobCommitted" => j.name \in harmed'
  BY DEF Listen, LeftBehind
<1>4. MutexInv' /\ HolderInv'
  BY <1>1, <1>2 DEF IInv, MutexInv, HolderInv
<1>5. JournalInv'
  BY <1>1, <1>3 DEF JournalInv
<1>6. AgreeInv'
  <2>1. ASSUME NEW n \in Names \ harmed'
        PROVE  blob[n] = latest[n] /\ manifest[n] = latest[n] /\ (doc \/ latest[n] = 0)
    <3>1. n \in Names \ harmed /\ ~\E j \in journal : j.phase = "blobCommitted" /\ j.name = n
      BY <1>1, <1>3, <2>1
    <3> QED BY <1>2, <3>1 DEF IInv, AgreeInv
  <2> QED BY <1>1, <2>1 DEF AgreeInv
<1>7. AgeInv' /\ DownloadNotOlder'
  BY <1>1 DEF IInv, AgeInv, DownloadNotOlder
<1> QED BY <1>4, <1>5, <1>6, <1>7 DEF Rest

(* The invariant is inductive. *)
LEMMA InvStep == IInv /\ [Next]_vars => IInv'
<1> SUFFICES ASSUME IInv, [Next]_vars PROVE IInv'
  OBVIOUS
<1>1. TypeOK' /\ KindInv'
  BY TypeStep DEF IInv
<1>2. Rest'
  <2>1. ASSUME NEW c \in Clients, ClientStep(c) PROVE Rest'
    <3>1. ASSUME Commit(c) PROVE Rest'
      BY <3>1, JournalStagedInv, CommitBlobInv, CommitBlobFailsInv, JournalCommittedInv,
         UpdateManifestInv, JournalDoneInv, ClearInv DEF Commit
    <3> QED BY <1>1, <2>1, <3>1, RequestInv, AdmitInv, CascadeInv, IOErrorInv DEF ClientStep
  <2>2. ASSUME CreateDocument PROVE Rest'
    <3>1. CASE Clients = {}
      BY <2>2, <3>1
         DEF IInv, Rest, CreateDocument, MutexInv, HolderInv, JournalInv, AgreeInv, AgeInv,
             DownloadNotOlder, TypeOK, histVars, Target
    <3>2. CASE Clients # {}
      BY <1>1, <2>2, <3>2, RequestInv
    <3> QED BY <3>1, <3>2
  <2>3. CASE UNCHANGED vars
    BY <2>3 DEF IInv, Rest, MutexInv, HolderInv, JournalInv, AgreeInv, AgeInv,
                DownloadNotOlder, JournalOf, Target, vars
  <2> QED BY <2>1, <2>2, <2>3, CrashInv, RecoverInv, ServeInv DEF Next, Serve, RecoveryFails
<1> QED BY <1>1, <1>2 DEF IInv, Rest

-----------------------------------------------------------------------------
(* What the invariant shows *)

(* Once nothing is under way, manifest and bytes of every name not harmed  *)
(* are those of its last commit, whatever was killed, failed or raced.     *)
THEOREM ManifestAndBytesAgree == Spec => []FilesAgree
<1>1. IInv => FilesAgree
  BY DEF IInv, AgreeInv, FilesAgree, Quiet
<1> QED BY <1>1, InvInit, InvStep, PTL DEF Spec

(* A deleted document keeps no attachment under a name not harmed. *)
THEOREM DeletedDocumentHasNoFiles == Spec => []NoFilesWithoutDocument
<1>1. IInv => NoFilesWithoutDocument
  BY DEF IInv, AgreeInv, NoFilesWithoutDocument, Quiet
<1> QED BY <1>1, InvInit, InvStep, PTL DEF Spec

(* A download, which takes no lock, never gets bytes older than its entry. *)
THEOREM DownloadsAreNotStale == Spec => []DownloadNotOlder
<1>1. IInv => DownloadNotOlder
  BY DEF IInv
<1> QED BY <1>1, InvInit, InvStep, PTL DEF Spec

(* A commit replaces exactly the version its request named, although the   *)
(* bytes were uploaded without a lock.                                     *)
THEOREM FileUpdatesAreNotLost == Spec => NoLostFileUpdate
<1>1. IInv /\ [Next]_vars =>
        [\A n \in Names \ harmed :
           latest'[n] # latest[n] =>
             \E c \in mu : \/ req[c].op = "delete"
                           \/ req[c].name = n /\ req[c].ifMatch = latest[n]]_vars
  <2> SUFFICES ASSUME IInv, Next, NEW n \in Names \ harmed, latest'[n] # latest[n]
               PROVE  \E c \in mu : \/ req[c].op = "delete"
                                    \/ req[c].name = n /\ req[c].ifMatch = latest[n]
    BY DEF vars
  <2>1. PICK c \in Clients : JournalCommitted(c) \/ (Cascade(c) /\ pc[c] = "rmOps")
    BY DEF Next, ClientStep, Commit, Send, StageWriteBinary, StageNameLost, LockAndAdmit,
           LockAndRefuse, JournalStaged, CommitBlob, CommitBlobFails, UpdateManifest,
           JournalDone, ClearFileOpJournal, Cascade, IOError, OpenFileForDownload,
           OpenBinary, CreateDocument, Crash, RecoverFileOps, Serve, RecoveryFails,
           Listen, histVars
  <2>2. c \in mu
    BY <2>1 DEF IInv, MutexInv, JournalCommitted, LockedSteps, CommitSteps, CascadeSteps
  <2>3. CASE JournalCommitted(c)
    <3>1. req[c].name = n
      BY <2>3 DEF JournalCommitted, IInv, TypeOK
    <3>2. req[c].ifMatch = latest[n]
      BY <2>2, <2>3, <3>1 DEF IInv, HolderInv, JournalCommitted
    <3> QED BY <2>2, <3>1, <3>2
  <2>4. CASE pc[c] = "rmOps"
    BY <2>2, <2>4 DEF IInv, KindInv, CascadeSteps
  <2> QED BY <2>1, <2>3, <2>4
<1> QED BY <1>1, InvInit, InvStep, PTL DEF Spec, NoLostFileUpdate

=============================================================================

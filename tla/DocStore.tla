------------------------------ MODULE DocStore ------------------------------
(***************************************************************************)
(* The source-of-truth (SOT) engine's write path for one document:         *)
(* Engine.create, Engine.patch, Engine.delete and Engine.read, down to the *)
(* single file operations of internal/fsstore they are made of.            *)
(*                                                                         *)
(* The files of two documents never share a path (DocumentPath,            *)
(* PreviousDocumentPath and the queue marker's name all hold the id), so   *)
(* one document shows everything two would, except contention on Engine.mu.*)
(*                                                                         *)
(* A document file is abstracted to its "#" version.  The id generator     *)
(* hands out a version once, so versions are numbered in the order they    *)
(* are drawn and 0 stands for "no such file".  A document's schema is the  *)
(* collection's current one: migration is not part of this module.         *)
(***************************************************************************)
EXTENDS Naturals, FiniteSets

CONSTANTS
    Clients,     \* concurrent requests the HTTP server runs Execute for
    MaxIds,      \* bound: how many ids are drawn, one per command
    MaxCrashes,  \* bound: how often the process is killed
    MaxFaults    \* bound: how many file operations fail with an I/O error

ASSUME BoundsAssumption ==
    /\ MaxIds \in Nat
    /\ MaxCrashes \in Nat
    /\ MaxFaults \in Nat

VARIABLES
    live,         \* "#" of {id}.json, or NoDoc
    prev,         \* "#" of the preserved .{id}.json, or NoDoc
    queue,        \* changes with a marker in .changeQueue
    mu,           \* who holds Engine.mu, or Nobody
    pc,           \* where each request is in its command
    req,          \* the command each client has sent
    resp,         \* the last answer each client got
    nextId,       \* the next id the generator hands out
    crashes,      \* kills so far
    faults,       \* I/O errors so far
    doc,          \* history: the version the last committed write left
    commits,      \* history: every committed write
    acked         \* history: the writes answered with ok:true

fileVars == <<live, prev, queue>>
histVars == <<doc, commits, acked>>
vars == <<live, prev, queue, mu, pc, req, resp, nextId, crashes, faults,
          doc, commits, acked>>

NoDoc == 0
Nobody == {}               \* mu is {} or {c}
Ops == {"create", "patch", "delete"}
Steps == {"idle", "lock", "preserve", "write", "verify", "remove", "cascade",
          "enqueue", "unlock", "deliver"}
\* The steps a request takes between e.mu.Lock() and e.mu.Unlock().
LockedSteps == Steps \ {"idle", "lock", "deliver"}
Answers == {"none", "ok", "refused", "error", "read"}

\* id is what the id generator drew for the command: the new version of a
\* create or patch, the operation id of a delete.
Versions == 0..MaxIds
Command == [op : Ops, expect : Versions, id : Versions]
Result(r) == IF r.op = "delete" THEN NoDoc ELSE r.id

(* Type correctness. *)
TypeOK ==
    /\ live \in Versions
    /\ prev \in Versions
    /\ queue \subseteq Ops
    /\ mu \in SUBSET Clients
    /\ pc \in [Clients -> Steps]
    /\ req \in [Clients -> Command]
    /\ resp \in [Clients -> [status : Answers, ver : Versions]]
    /\ nextId \in 1..(MaxIds + 1)
    /\ crashes \in Nat
    /\ faults \in Nat
    /\ doc \in Versions
    /\ commits \subseteq Command
    /\ acked \subseteq Command

Init ==
    /\ live = NoDoc
    /\ prev = NoDoc
    /\ queue = {}
    /\ mu = Nobody
    /\ pc = [c \in Clients |-> "idle"]
    /\ req = [c \in Clients |-> [op |-> "create", expect |-> NoDoc, id |-> NoDoc]]
    /\ resp = [c \in Clients |-> [status |-> "none", ver |-> NoDoc]]
    /\ nextId = 1
    /\ crashes = 0
    /\ faults = 0
    /\ doc = NoDoc
    /\ commits = {}
    /\ acked = {}

-----------------------------------------------------------------------------
(* Answering a request.  Every early return of the handlers releases the   *)
(* mutex (the explicit Unlock in create, the deferred one in patch and     *)
(* delete) and leaves the files as they are at that point.                 *)

Goto(c, step) == pc' = [pc EXCEPT ![c] = step]

Answer(c, status, ver) ==
    /\ Goto(c, "idle")
    /\ resp' = [resp EXCEPT ![c] = [status |-> status, ver |-> ver]]

Fail(c, status) ==
    /\ Answer(c, status, NoDoc)
    /\ mu' = mu \ {c}

(* A client sends a command.  create names no version; patch and delete    *)
(* name any version some client can have seen, stale ones included.        *)
Send(c, op, e) ==
    /\ pc[c] = "idle"
    /\ nextId <= MaxIds
    /\ op = "create" <=> e = NoDoc
    /\ e < nextId
    /\ req' = [req EXCEPT ![c] = [op |-> op, expect |-> e, id |-> nextId]]
    /\ nextId' = nextId + 1
    /\ resp' = [resp EXCEPT ![c] = [status |-> "none", ver |-> NoDoc]]
    /\ Goto(c, "lock")
    /\ UNCHANGED <<fileVars, histVars, mu, crashes, faults>>

(* A command that routing, schema, metadata or patch validation rejects is *)
(* answered without touching a file.                                       *)
RefuseInvalid(c) ==
    /\ pc[c] = "lock"
    /\ Fail(c, "refused")
    /\ UNCHANGED <<fileVars, histVars, req, nextId, crashes, faults>>

(* e.mu.Lock() and the check made right after it: the document must be     *)
(* absent for create (documentExists), and present at exactly the expected *)
(* version for patch and delete (documentNotFound, versionMismatch).       *)

(* Mutant: patch and delete do not compare the version. *)
AdmittedAnyVersion(r) ==
    IF r.op = "create" THEN live = NoDoc ELSE live # NoDoc

Admitted(r) == IF r.op = "create" THEN live = NoDoc
                                  ELSE live # NoDoc /\ r.expect = live

LockAndRefuse(c) ==
    /\ pc[c] = "lock"
    /\ mu = Nobody
    /\ ~Admitted(req[c])
    /\ Fail(c, "refused")
    /\ UNCHANGED <<fileVars, histVars, req, nextId, crashes, faults>>

FirstStep(op) == CASE op = "create" -> "write"
                   [] op = "patch"  -> "preserve"
                   [] op = "delete" -> "remove"

(* Mutant: the mutex does not exclude. *)
LockAndAdmitNoMutex(c) ==
    /\ pc[c] = "lock"
    /\ Admitted(req[c])
    /\ mu' = {c}
    /\ Goto(c, FirstStep(req[c].op))
    /\ UNCHANGED <<fileVars, histVars, req, resp, nextId, crashes, faults>>

LockAndAdmit(c) ==
    /\ pc[c] = "lock"
    /\ mu = Nobody
    /\ Admitted(req[c])
    /\ mu' = {c}
    /\ Goto(c, FirstStep(req[c].op))
    /\ UNCHANGED <<fileVars, histVars, req, resp, nextId, crashes, faults>>

-----------------------------------------------------------------------------
(* The file operations, one per step.                                      *)

(* Record that a write took effect. *)
Commit(r) ==
    /\ doc' = Result(r)
    /\ commits' = commits \cup {r}
    /\ UNCHANGED acked

(* PreservePreviousIfAbsent: the oldest undistributed previous wins.  The  *)
(* rename takes the document off its live path until the next step.        *)
PreservePreviousIfAbsent(c) ==
    /\ pc[c] = "preserve"
    /\ \/ /\ prev = NoDoc /\ live = NoDoc
          /\ Fail(c, "error")
          /\ UNCHANGED <<live, prev>>
       \/ /\ prev # NoDoc \/ live # NoDoc
          /\ Goto(c, "write")
          /\ prev' = IF prev = NoDoc THEN live ELSE prev
          /\ live' = IF prev = NoDoc THEN NoDoc ELSE live
          /\ UNCHANGED <<mu, resp>>
    /\ UNCHANGED <<queue, histVars, req, nextId, crashes, faults>>

(* WriteFileAtomic: temp file, fsync, rename over the live path. *)
WriteDocument(c) ==
    /\ pc[c] = "write"
    /\ live' = Result(req[c])
    /\ Commit(req[c])
    /\ Goto(c, "verify")
    /\ UNCHANGED <<prev, queue, mu, req, resp, nextId, crashes, faults>>

(* Mutant: the re-read is compared with the version before the write. *)
VerifyOldVersion(c) ==
    /\ pc[c] = "verify"
    /\ \/ live = req[c].expect /\ Goto(c, "enqueue") /\ UNCHANGED <<mu, resp>>
       \/ live # req[c].expect /\ Fail(c, "error")
    /\ UNCHANGED <<fileVars, histVars, req, nextId, crashes, faults>>

(* WriteDocumentJSONVerified re-reads "#"; a foreign version is an error. *)
VerifyVersion(c) ==
    /\ pc[c] = "verify"
    /\ \/ live = Result(req[c]) /\ Goto(c, "enqueue") /\ UNCHANGED <<mu, resp>>
       \/ live # Result(req[c]) /\ Fail(c, "error")
    /\ UNCHANGED <<fileVars, histVars, req, nextId, crashes, faults>>

(* Mutant: the live file is not removed when a previous one is kept. *)
SoftDeleteKeepsLive(c) ==
    /\ pc[c] = "remove"
    /\ prev' = IF prev = NoDoc THEN live ELSE prev
    /\ live' = IF prev = NoDoc THEN NoDoc ELSE live
    /\ Commit(req[c])
    /\ Goto(c, "cascade")
    /\ UNCHANGED <<queue, mu, req, resp, nextId, crashes, faults>>

(* SoftDeleteDocument: an existing previous file is kept and the live file *)
(* removed, otherwise the live file becomes the previous one.              *)
SoftDeleteDocument(c) ==
    /\ pc[c] = "remove"
    /\ prev' = IF prev = NoDoc THEN live ELSE prev
    /\ live' = NoDoc
    /\ Commit(req[c])
    /\ Goto(c, "cascade")
    /\ UNCHANGED <<queue, mu, req, resp, nextId, crashes, faults>>

(* CascadeDeleteDocumentFiles, whose failure fails the command although    *)
(* the document is already gone.                                           *)
CascadeDelete(c) ==
    /\ pc[c] = "cascade"
    /\ Goto(c, "enqueue")
    /\ UNCHANGED <<fileVars, histVars, mu, req, resp, nextId, crashes, faults>>

(* Mutant: the marker is named after no command of the engine. *)
EnqueueWrongMarker(c) ==
    /\ pc[c] = "enqueue"
    /\ queue' = queue \cup {"update"}
    /\ Goto(c, "unlock")
    /\ UNCHANGED <<live, prev, histVars, mu, req, resp, nextId, crashes, faults>>

(* The empty {change}__{collection}__{id}.queue marker for the change      *)
(* agent: one per kind of change, however many writes it stands for.       *)
EnqueueChange(c) ==
    /\ pc[c] = "enqueue"
    /\ queue' = queue \cup {req[c].op}
    /\ Goto(c, "unlock")
    /\ UNCHANGED <<live, prev, histVars, mu, req, resp, nextId, crashes, faults>>

Unlock(c) ==
    /\ pc[c] = "unlock"
    /\ mu' = mu \ {c}
    /\ Goto(c, "deliver")
    /\ UNCHANGED <<fileVars, histVars, req, resp, nextId, crashes, faults>>

(* deliverOnce never turns a committed write into ok:false, so seen from   *)
(* the document it only ends the request with ok:true.                     *)
Deliver(c) ==
    /\ pc[c] = "deliver"
    /\ Answer(c, "ok", Result(req[c]))
    /\ acked' = acked \cup {req[c]}
    /\ UNCHANGED <<fileVars, doc, commits, mu, req, nextId, crashes, faults>>

(* Engine.read on the SOT takes no lock: one read of the live path. *)
Read(c) ==
    /\ pc[c] = "idle"
    /\ resp' = [resp EXCEPT ![c] = [status |-> "read", ver |-> live]]
    /\ UNCHANGED <<fileVars, histVars, mu, pc, req, nextId, crashes, faults>>

-----------------------------------------------------------------------------
(* What else happens to the files.                                         *)

(* The change agent, which does not take Engine.mu: after processing a     *)
(* change it removes the previous document, and then the change's marker   *)
(* unless the engine has put a new one there (module ChangeAgent).         *)
DistributeChange ==
    /\ prev # NoDoc \/ queue # {}
    /\ prev' = NoDoc
    /\ queue' \in SUBSET queue
    /\ UNCHANGED <<live, histVars, mu, pc, req, resp, nextId, crashes, faults>>

(* Mutant: the early return forgets to release the mutex. *)
IOErrorKeepsLock(c) ==
    /\ pc[c] \in {"preserve", "write", "remove", "cascade", "enqueue"}
    /\ faults < MaxFaults
    /\ faults' = faults + 1
    /\ Answer(c, "error", NoDoc)
    /\ UNCHANGED <<fileVars, histVars, mu, req, nextId, crashes>>

(* A file operation of the locked section fails: the handler answers with  *)
(* an error (filesystemError, queueWriteFailed) and undoes nothing.        *)
IOError(c) ==
    /\ pc[c] \in {"preserve", "write", "remove", "cascade", "enqueue"}
    /\ faults < MaxFaults
    /\ faults' = faults + 1
    /\ Fail(c, "error")
    /\ UNCHANGED <<fileVars, histVars, req, nextId, crashes>>

(* The process is killed and restarted.  Startup runs no recovery for      *)
(* documents; the files are what the kill left.                            *)
Crash ==
    /\ crashes < MaxCrashes
    /\ crashes' = crashes + 1
    /\ mu' = Nobody
    /\ pc' = [c \in Clients |-> "idle"]
    /\ resp' = [c \in Clients |-> [status |-> "none", ver |-> NoDoc]]
    /\ UNCHANGED <<fileVars, histVars, req, nextId, faults>>

EngineStep(c) ==
    \/ \E op \in Ops, e \in 0..MaxIds : Send(c, op, e)
    \/ RefuseInvalid(c)
    \/ LockAndRefuse(c)
    \/ LockAndAdmit(c)
    \/ PreservePreviousIfAbsent(c)
    \/ WriteDocument(c)
    \/ VerifyVersion(c)
    \/ SoftDeleteDocument(c)
    \/ CascadeDelete(c)
    \/ EnqueueChange(c)
    \/ Unlock(c)
    \/ Read(c)
    \/ IOError(c)

Next ==
    \/ \E c \in Clients : EngineStep(c) \/ Deliver(c)
    \/ DistributeChange
    \/ Crash

(* The HTTP server runs every request in a goroutine of its own, so each   *)
(* enabled step is eventually taken.  sync.Mutex hands the lock to a       *)
(* waiter that has starved, so waiting for it is strongly fair.            *)
Fairness ==
    \A c \in Clients :
        /\ SF_vars(LockAndRefuse(c) \/ LockAndAdmit(c))
        /\ WF_vars(\/ PreservePreviousIfAbsent(c) \/ WriteDocument(c)
                   \/ VerifyVersion(c) \/ SoftDeleteDocument(c)
                   \/ CascadeDelete(c) \/ EnqueueChange(c) \/ Unlock(c)
                   \/ Deliver(c))

Spec == Init /\ [][Next]_vars

FairSpec == Spec /\ Fairness

-----------------------------------------------------------------------------
(* Properties *)

(* Two writes never both succeed against the same version: of the clients  *)
(* that read version v and patch or delete it (engine.go's "#" check under *)
(* the mutex), at most one commits.  This is what makes the claim pattern  *)
(* of docs/consistency.md safe; it must survive kills and I/O errors.      *)
NoDoubleClaim ==
    \A a, b \in commits :
        a.op # "create" /\ b.op # "create" /\ a.expect = b.expect => a = b

(* A patch has moved the live file away and not yet written its successor. *)
InRenameWindow ==
    live = NoDoc /\ \E c \in Clients : pc[c] = "write" /\ req[c].op = "patch"

(* The live path holds what the last committed write left there, never an  *)
(* older or an uncommitted version.  It is empty without a delete only in  *)
(* the middle of a patch, or after a kill or an I/O error.                 *)
LastCommitIsLive ==
    live = doc \/ (live = NoDoc /\ (InRenameWindow \/ crashes + faults > 0))

(* While no file operation fails, the answer tells the truth about the     *)
(* write: ok:true exactly when it was committed, and a refused or failed   *)
(* command has left no trace.                                              *)
AnswerMatchesEffect ==
    \A c \in Clients :
        pc[c] = "idle" =>
            /\ resp[c].status = "ok" => req[c] \in commits
            /\ faults = 0 /\ resp[c].status \in {"refused", "error"}
                  => req[c] \notin commits

CommittedIds == {w.id : w \in commits}

(* The inductive invariant behind the safety properties above.             *)
(* Engine.mu is held by exactly the request inside the locked section.     *)
MutexInv ==
    /\ \A c \in Clients : c \in mu <=> pc[c] \in LockedSteps
    /\ \A c, d \in mu : c = d

(* Ids are drawn once, and the live file only holds a committed version.   *)
IdInv ==
    /\ \A c \in Clients : req[c].id < nextId
    /\ \A w \in commits : w.id # NoDoc /\ w.id < nextId
    /\ \A c, d \in Clients : req[c].id # NoDoc /\ req[c].id = req[d].id => c = d
    /\ \A w \in commits, c \in Clients : w.id = req[c].id => w = req[c]
    /\ live # NoDoc => live \in CommittedIds
    /\ doc # NoDoc => doc \in CommittedIds
    /\ \A w \in commits : w.op # "create" => w.expect \in CommittedIds

(* No committed write has already consumed the version v. *)
Unclaimed(v) == \A w \in commits : w.op # "create" => w.expect # v

(* What a request knows at each step. *)
StepInv ==
    \A c \in Clients :
        /\ pc[c] # "idle" => req[c].id # NoDoc
        /\ pc[c] \in {"lock", "preserve", "write", "remove"} => req[c] \notin commits
        /\ pc[c] \in {"verify", "cascade", "enqueue", "unlock", "deliver"}
              => req[c] \in commits
        /\ pc[c] = "preserve" => /\ req[c].op = "patch"
                                 /\ live # NoDoc /\ live = req[c].expect
        /\ pc[c] = "remove" => /\ req[c].op = "delete"
                               /\ live # NoDoc /\ live = req[c].expect
        /\ pc[c] = "write" =>
              \/ req[c].op = "create" /\ live = NoDoc
              \/ /\ req[c].op = "patch"
                 /\ req[c].expect # NoDoc
                 /\ Unclaimed(req[c].expect)
                 /\ doc = req[c].expect
                 /\ live \in {doc, NoDoc}
        /\ pc[c] = "verify" => live = Result(req[c])

IInv ==
    /\ TypeOK
    /\ MutexInv
    /\ IdInv
    /\ StepInv
    /\ live # NoDoc => Unclaimed(live)
    /\ NoDoubleClaim
    /\ LastCommitIsLive
    /\ AnswerMatchesEffect

(* The document as the writers see it: in the middle of a patch it is the  *)
(* version that the patch was checked against, the last committed one.     *)
Current == IF InRenameWindow THEN doc ELSE live

Abs == INSTANCE AtomicDoc WITH doc <- Current, commits <- commits,
                               mishaps <- crashes + faults

(* The locked, many-step write path implements the atomic compare-and-swap *)
(* register: each write takes effect in one step, against the version it   *)
(* names, and only a kill or an I/O error ever makes a document disappear. *)
RefinesAtomicDoc == Abs!Spec

(* Every command is answered: no path through create, patch and delete     *)
(* returns with the mutex held (the localDone flag and deferred Unlock).   *)
EveryCommandAnswered == \A c \in Clients : pc[c] = "lock" ~> pc[c] = "idle"

(* docs/atomic-updates.md: "confirmed writes survive a server kill".  With *)
(* no write in progress, a confirmed version that nothing has replaced is  *)
(* what the live path holds.                                               *)
ConfirmedWriteSurvives ==
    \A w \in acked : mu = Nobody /\ doc # NoDoc /\ doc = Result(w) => live = doc

=============================================================================

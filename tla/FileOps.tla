------------------------------ MODULE FileOps -------------------------------
(***************************************************************************)
(* Attachments of one document on its source-of-truth server: PutFile,     *)
(* DeleteFile and OpenFileForDownload, the journalled commit of            *)
(* internal/fsstore they are made of, the cascade of a document delete,    *)
(* and RecoverFileOps after a kill.                                        *)
(*                                                                         *)
(* An upload is streamed to a stage file before Engine.mu is taken; every  *)
(* file operation after that is a step of its own, so that a kill or an    *)
(* I/O error can fall between any two.  Bytes are named by the version     *)
(* they become; 0 is "no such file".  Versions are drawn under the mutex.  *)
(* An operation id names the journal of the operation; the client may      *)
(* choose it, also one that was used before.                               *)
(***************************************************************************)
EXTENDS Naturals, FiniteSets

CONSTANTS
    Clients,     \* concurrent requests
    Names,       \* file names
    MaxOps,      \* bound: operations admitted
    MaxCrashes,  \* bound: kills of the process
    MaxFaults    \* bound: file operations that fail with an I/O error

ASSUME FileOpsAssumption ==
    /\ Names # {}
    /\ MaxOps \in Nat
    /\ MaxCrashes \in Nat
    /\ MaxFaults \in Nat

VARIABLES
    doc,       \* the parent document is live
    blob,      \* per name: the version whose bytes are at lfs/{docId}/{name}
    manifest,  \* per name: the version in {docId}__files.jsonl
    staged,    \* clients whose request has its stage file under .fileOps
    journal,   \* the journal files under .fileOps
    listed,    \* the journals RecoverFileOps has listed and not yet handled
    up,        \* the server serves; if not, it runs RecoverAllFileOps
    mu,        \* who holds Engine.mu: {} or {c}
    pc,        \* where each request is
    req,       \* what each client asked for
    got,       \* what each client's last download returned
    nextId,    \* the next id the generator hands out
    crashes,
    faults,
    latest,    \* history, per name: the version the last commit left
    harmed     \* history: names of an operation cut off where the journal
               \* does not tell recovery the truth, or whose journal is left
               \* at blobCommitted by an error

fileVars == <<doc, blob, manifest, staged, journal, listed>>
histVars == <<latest, harmed>>
vars == <<doc, blob, manifest, staged, journal, listed, up, mu, pc, req, got, nextId,
          crashes, faults, latest, harmed>>

NoFile == 0
Versions == 0..MaxOps
Ops == {"put", "fileDelete", "delete"}
Phases == {"staged", "blobCommitted", "done"}
Journal == [key : Versions, id : Versions, op : {"put", "fileDelete"}, name : Names, phase : Phases]

\* Steps of a commit, in order; "rmManifest", "rmLfs" and "rmOps" are the
\* cascade of a document delete, "open" is the second half of a download.
Steps == {"idle", "upload", "lock", "journal", "blob", "committed",
          "manifest", "done", "clear", "rmManifest", "rmLfs", "rmOps", "open"}
CascadeSteps == {"rmManifest", "rmLfs", "rmOps"}

(* Type correctness. *)
TypeOK ==
    /\ doc \in BOOLEAN
    /\ blob \in [Names -> Versions]
    /\ manifest \in [Names -> Versions]
    /\ staged \subseteq Clients
    /\ journal \subseteq Journal
    /\ listed \subseteq Journal
    /\ up \in BOOLEAN
    /\ mu \in SUBSET Clients
    /\ pc \in [Clients -> Steps]
    /\ req \in [Clients -> [op : Ops, name : Names, ifMatch : Versions,
                             key : Versions, id : Versions]]
    /\ got \in [Clients -> [entry : Versions, bytes : Versions]]
    /\ nextId \in 1..(MaxOps + 1)
    /\ crashes \in Nat
    /\ faults \in Nat
    /\ latest \in [Names -> Versions]
    /\ harmed \subseteq Names

NoRequest == [op |-> "delete", name |-> CHOOSE n \in Names : TRUE,
              ifMatch |-> NoFile, key |-> NoFile, id |-> NoFile]
NoDownload == [entry |-> NoFile, bytes |-> NoFile]
Nothing == [n \in Names |-> NoFile]

Init ==
    /\ doc = TRUE
    /\ blob = Nothing
    /\ manifest = Nothing
    /\ staged = {}
    /\ journal = {}
    /\ listed = {}
    /\ up = TRUE
    /\ mu = {}
    /\ pc = [c \in Clients |-> "idle"]
    /\ req = [c \in Clients |-> NoRequest]
    /\ got = [c \in Clients |-> NoDownload]
    /\ nextId = 1
    /\ crashes = 0
    /\ faults = 0
    /\ latest = Nothing
    /\ harmed = {}

-----------------------------------------------------------------------------
(* Requests.                                                               *)

Goto(c, step) == pc' = [pc EXCEPT ![c] = step]

\* The handler returns: the deferred calls unlock the mutex and remove the
\* stage file, if it is still there.
Return(c) ==
    /\ Goto(c, "idle")
    /\ req' = [req EXCEPT ![c] = NoRequest]
    /\ mu' = mu \ {c}

(* fileCreate (ifMatch = NoFile), fileUpdate, fileDelete or the document's *)
(* own delete; ifMatch is any version a client can have seen.              *)
Send(c, op, n, v) ==
    /\ up /\ pc[c] = "idle"
    /\ v < nextId
    /\ op = "fileDelete" => v # NoFile
    /\ op = "delete" => v = NoFile /\ n = NoRequest.name
    /\ req' = [req EXCEPT ![c] = [NoRequest EXCEPT !.op = op, !.name = n, !.ifMatch = v]]
    /\ got' = [got EXCEPT ![c] = NoDownload]
    /\ Goto(c, IF op = "put" THEN "upload" ELSE "lock")
    /\ UNCHANGED <<fileVars, up, mu, nextId, crashes, faults, histVars>>

(* StageWriteBinary ends: the bytes are complete, or the upload was too    *)
(* large, broke off or could not be written and its temp file is removed.  *)
StageWriteBinary(c) ==
    /\ pc[c] = "upload"
    /\ \/ staged' = staged \cup {c} /\ Goto(c, "lock") /\ UNCHANGED <<mu, req>>
       \/ staged' = staged /\ Return(c)
    /\ UNCHANGED <<doc, blob, manifest, journal, listed, up, got, nextId, crashes,
                   faults, histVars>>

(* The cascade can remove .fileOps while an upload is being streamed into  *)
(* it: the open stage file goes on, its name is gone.                      *)
StageNameLost(c) ==
    /\ pc[c] = "upload"
    /\ \E d \in Clients : d # c /\ pc[d] = "rmOps"
    /\ Goto(c, "lock")
    /\ UNCHANGED <<fileVars, up, mu, req, got, nextId, crashes, faults, histVars>>

\* The checks PutFile and DeleteFile make once they hold the mutex.

(* Mutant: the parent document is not looked up again. *)
AdmittedWithoutParent(r) ==
    CASE r.op = "delete" -> doc
      [] r.op = "put" -> manifest[r.name] = r.ifMatch
      [] r.op = "fileDelete" -> manifest[r.name] = r.ifMatch

(* Mutant: fileUpdate does not compare the version it was given. *)
AdmittedWithoutIfMatch(r) ==
    doc /\ (r.op = "put" /\ r.ifMatch = NoFile => manifest[r.name] = NoFile)

Admitted(r) ==
    doc /\ (r.op # "delete" => manifest[r.name] = r.ifMatch)

FirstStep(r) == IF r.op = "delete" THEN "rmManifest" ELSE "journal"

\* k is the operation id: fresh, or one a client has used before.
\* SoftDeleteDocument first takes the document itself away.
LockAndAdmit(c, k) ==
    /\ pc[c] = "lock" /\ mu = {}
    /\ Admitted(req[c])
    /\ nextId <= MaxOps /\ k \in 1..nextId
    /\ mu' = {c}
    /\ req' = [req EXCEPT ![c].id = nextId, ![c].key = k]
    /\ nextId' = nextId + 1
    /\ doc' = (doc /\ req[c].op # "delete")
    /\ Goto(c, FirstStep(req[c]))
    /\ UNCHANGED <<blob, manifest, staged, journal, listed, up, got, crashes, faults, histVars>>

LockAndRefuse(c) ==
    /\ pc[c] = "lock" /\ mu = {}
    /\ ~Admitted(req[c])
    /\ Return(c)
    /\ staged' = staged \ {c}
    /\ UNCHANGED <<doc, blob, manifest, journal, listed, up, got, nextId, crashes,
                   faults, histVars>>

(* create of the parent document, which DocStore looks into. *)
CreateDocument ==
    /\ up /\ mu = {} /\ ~doc
    /\ doc' = TRUE
    /\ UNCHANGED <<blob, manifest, staged, journal, listed, up, mu, pc, req, got,
                   nextId, crashes, faults, histVars>>

-----------------------------------------------------------------------------
(* CommitStagedBinary and CommitFileDelete, one file operation at a time.  *)

(* Mutant: the journal names a phase that recovery does not know. *)
JournalOfMisspelt(c, phase) ==
    [key |-> req[c].key, id |-> req[c].id, op |-> req[c].op, name |-> req[c].name,
     phase |-> IF phase = "blobCommitted" THEN "committed" ELSE phase]

JournalOf(c, phase) ==
    [key |-> req[c].key, id |-> req[c].id, op |-> req[c].op, name |-> req[c].name, phase |-> phase]

\* WriteFileAtomic of {operationId}.json.
WriteFileOpJournal(c, phase) ==
    journal' = {j \in journal : j.key # req[c].key} \cup {JournalOf(c, phase)}

JournalStaged(c) ==
    /\ pc[c] = "journal"
    /\ WriteFileOpJournal(c, "staged")
    /\ Goto(c, "blob")
    /\ UNCHANGED <<doc, blob, manifest, staged, listed, up, mu, req, got, nextId,
                   crashes, faults, histVars>>

(* The rename of the stage file to its final path, or RemoveBinary. *)
CommitBlob(c) ==
    /\ pc[c] = "blob"
    /\ req[c].op = "put" => c \in staged
    /\ blob' = [blob EXCEPT ![req[c].name] = IF req[c].op = "put" THEN req[c].id ELSE NoFile]
    /\ staged' = staged \ {c}
    /\ Goto(c, "committed")
    /\ UNCHANGED <<doc, manifest, journal, listed, up, mu, req, got, nextId, crashes,
                   faults, histVars>>

(* The rename fails: a cascade has removed the stage file. *)
CommitBlobFails(c) ==
    /\ pc[c] = "blob"
    /\ req[c].op = "put" /\ c \notin staged
    /\ Return(c)
    /\ UNCHANGED <<fileVars, up, got, nextId, crashes, faults, histVars>>

(* From here on recovery completes the operation: this is its commit. *)
JournalCommitted(c) ==
    /\ pc[c] = "committed"
    /\ WriteFileOpJournal(c, "blobCommitted")
    /\ latest' = [latest EXCEPT ![req[c].name] = blob[req[c].name]]
    /\ Goto(c, "manifest")
    /\ UNCHANGED <<doc, blob, manifest, staged, listed, up, mu, req, got, nextId,
                   crashes, faults, harmed>>

(* UpsertManifestEntry or RemoveManifestEntry. *)
UpdateManifest(c) ==
    /\ pc[c] = "manifest"
    /\ manifest' = [manifest EXCEPT ![req[c].name] =
                        IF req[c].op = "put" THEN req[c].id ELSE NoFile]
    /\ Goto(c, IF req[c].op = "put" THEN "done" ELSE "clear")
    /\ UNCHANGED <<doc, blob, staged, journal, listed, up, mu, req, got, nextId,
                   crashes, faults, histVars>>

(* Phase "done"; an error of this write is ignored. *)
JournalDone(c) ==
    /\ pc[c] = "done"
    /\ \/ WriteFileOpJournal(c, "done") /\ UNCHANGED faults
       \/ faults < MaxFaults /\ faults' = faults + 1 /\ UNCHANGED journal
    /\ Goto(c, "clear")
    /\ UNCHANGED <<doc, blob, manifest, staged, listed, up, mu, req, got, nextId,
                   crashes, histVars>>

(* ClearFileOpJournal, and the answer; delivery to the members follows. *)
ClearFileOpJournal(c) ==
    /\ pc[c] = "clear"
    /\ journal' = {j \in journal : j.key # req[c].key}
    /\ Return(c)
    /\ UNCHANGED <<doc, blob, manifest, staged, listed, up, got, nextId, crashes,
                   faults, histVars>>

(* CascadeDeleteDocumentFiles. *)
Cascade(c) ==
    \/ /\ pc[c] = "rmManifest"
       /\ manifest' = Nothing
       /\ Goto(c, "rmLfs")
       /\ UNCHANGED <<doc, blob, staged, journal, listed, up, mu, req, got, nextId,
                      crashes, faults, histVars>>
    \/ /\ pc[c] = "rmLfs"
       /\ blob' = Nothing
       /\ Goto(c, "rmOps")
       /\ UNCHANGED <<doc, manifest, staged, journal, listed, up, mu, req, got, nextId,
                      crashes, faults, histVars>>
    \/ /\ pc[c] = "rmOps"
       /\ staged' = {}
       /\ journal' = {}
       /\ latest' = Nothing
       /\ harmed' = {}
       /\ Return(c)
       /\ UNCHANGED <<doc, blob, manifest, listed, up, got, nextId, crashes, faults>>

-----------------------------------------------------------------------------
(* Faults and recovery.                                                    *)

\* What an operation cut off at its present step leaves that no recovery
\* puts right: the blob replaced and the journal still at "staged"; or a
\* document gone and its files not.  An operation that fails at a later
\* step leaves a journal behind that recovery will replay, whatever was
\* committed in between.
HarmOfKill(c) ==
    CASE pc[c] = "committed" -> {req[c].name}
      [] pc[c] \in CascadeSteps -> Names
      [] OTHER -> {}

HarmOfError(c) ==
    IF pc[c] \in {"manifest", "clear"} /\ JournalOf(c, "blobCommitted") \in journal
    THEN {req[c].name}
    ELSE HarmOfKill(c)

(* An I/O error: the handler answers filesystemError and cleans nothing up *)
(* but the stage file.                                                     *)
IOError(c) ==
    /\ faults < MaxFaults
    /\ pc[c] \in {"journal", "blob", "committed", "manifest", "clear"} \cup CascadeSteps
    /\ faults' = faults + 1
    /\ harmed' = harmed \cup HarmOfError(c)
    /\ staged' = staged \ {c}
    /\ Return(c)
    /\ UNCHANGED <<doc, blob, manifest, journal, listed, up, got, nextId, crashes, latest>>

(* A kill.  Stage files that are left belong to no request any more, and   *)
(* no path leads to them, whether recovery manages to remove them or not.  *)
Crash ==
    /\ crashes < MaxCrashes
    /\ crashes' = crashes + 1
    /\ up' = FALSE
    /\ listed' = journal
    /\ staged' = {}
    /\ mu' = {}
    /\ pc' = [c \in Clients |-> "idle"]
    /\ req' = [c \in Clients |-> NoRequest]
    /\ harmed' = harmed \cup UNION {HarmOfKill(c) : c \in mu}
    /\ UNCHANGED <<doc, blob, manifest, journal, got, nextId, faults, latest>>

(* RecoverFileOps on one journal file: complete a committed operation, and *)
(* take back (all but the rename) one that is only staged.  An error of    *)
(* ClearFileOpJournal is ignored and leaves the journal.                   *)

(* Mutant: a committed operation is dropped instead of completed. *)
RecoverFileOpsDrops(j) ==
    /\ ~up /\ j \in listed
    /\ listed' = listed \ {j}
    /\ journal' = journal \ {j}
    /\ UNCHANGED <<doc, blob, manifest, staged, up, mu, pc, req, got, nextId,
                   crashes, faults, histVars>>

RecoverFileOps(j) ==
    /\ ~up /\ j \in listed
    /\ listed' = listed \ {j}
    /\ manifest' = IF j.phase = "blobCommitted"
                   THEN [manifest EXCEPT ![j.name] = IF j.op = "put" THEN j.id ELSE NoFile]
                   ELSE manifest
    /\ \/ journal' = journal \ {j} /\ UNCHANGED faults
       \/ faults < MaxFaults /\ faults' = faults + 1 /\ UNCHANGED journal
    /\ UNCHANGED <<doc, blob, staged, up, mu, pc, req, got, nextId, crashes, histVars>>

\* Names whose journal is still there, to be replayed at a later start.
LeftBehind == {j.name : j \in {k \in journal : k.phase = "blobCommitted"}}

\* The listener opens, whatever RecoverAllFileOps returned.
Listen ==
    /\ up' = TRUE
    /\ listed' = {}
    /\ harmed' = harmed \cup LeftBehind
    /\ UNCHANGED <<doc, blob, manifest, staged, journal, mu, pc, req, got, nextId,
                   crashes, latest>>

Serve ==
    /\ ~up /\ listed = {}
    /\ Listen
    /\ UNCHANGED faults

(* A journal cannot be read or its manifest not be written, here or in a   *)
(* document handled earlier: recovery returns, and main logs a warning.    *)
RecoveryFails ==
    /\ ~up /\ listed # {}
    /\ faults < MaxFaults
    /\ faults' = faults + 1
    /\ Listen

-----------------------------------------------------------------------------
(* Downloads take no lock.                                                 *)

\* What ListFiles shows, and OpenFileForDownload looks up.
Entry(n) == IF doc THEN manifest[n] ELSE NoFile

OpenFileForDownload(c, n) ==
    /\ up /\ pc[c] = "idle"
    /\ Entry(n) # NoFile
    /\ req' = [req EXCEPT ![c] = [NoRequest EXCEPT !.name = n]]
    /\ got' = [got EXCEPT ![c] = [entry |-> Entry(n), bytes |-> NoFile]]
    /\ Goto(c, "open")
    /\ UNCHANGED <<fileVars, up, mu, nextId, crashes, faults, histVars>>

(* OpenBinary: fileNotFound, or headers from the entry and these bytes. *)
OpenBinary(c) ==
    /\ pc[c] = "open"
    /\ got' = [got EXCEPT ![c].bytes = blob[req[c].name]]
    /\ Return(c)
    /\ UNCHANGED <<fileVars, up, nextId, crashes, faults, histVars>>

-----------------------------------------------------------------------------
(* Mutant: the manifest is rewritten before the bytes are in place. *)
CommitManifestFirst(c) ==
    \/ JournalStaged(c)
    \/ /\ pc[c] = "blob"
       /\ manifest' = [manifest EXCEPT ![req[c].name] =
                           IF req[c].op = "put" THEN req[c].id ELSE NoFile]
       /\ Goto(c, "committed")
       /\ UNCHANGED <<doc, blob, staged, journal, listed, up, mu, req, got, nextId,
                      crashes, faults, histVars>>
    \/ /\ pc[c] = "committed"
       /\ blob' = [blob EXCEPT ![req[c].name] = IF req[c].op = "put" THEN req[c].id ELSE NoFile]
       /\ staged' = staged \ {c}
       /\ latest' = [latest EXCEPT ![req[c].name] = manifest[req[c].name]]
       /\ Goto(c, "clear")
       /\ UNCHANGED <<doc, manifest, journal, listed, up, mu, req, got, nextId, crashes,
                      faults, harmed>>
    \/ ClearFileOpJournal(c)

Commit(c) ==
    \/ JournalStaged(c)
    \/ CommitBlob(c)
    \/ CommitBlobFails(c)
    \/ JournalCommitted(c)
    \/ UpdateManifest(c)
    \/ JournalDone(c)
    \/ ClearFileOpJournal(c)

ClientStep(c) ==
    \/ \E op \in Ops, n \in Names, v \in Versions : Send(c, op, n, v)
    \/ StageWriteBinary(c)
    \/ StageNameLost(c)
    \/ \E k \in Versions : LockAndAdmit(c, k)
    \/ LockAndRefuse(c)
    \/ Commit(c)
    \/ Cascade(c)
    \/ IOError(c)
    \/ \E n \in Names : OpenFileForDownload(c, n)
    \/ OpenBinary(c)

Next ==
    \/ \E c \in Clients : ClientStep(c)
    \/ CreateDocument
    \/ Crash
    \/ \E j \in journal : RecoverFileOps(j)
    \/ Serve
    \/ RecoveryFails

Spec == Init /\ [][Next]_vars

-----------------------------------------------------------------------------
(* Properties *)

(* Nothing is between the first and the last file operation of a commit,   *)
(* a cascade or a recovery.                                                *)
Quiet == up /\ mu = {}

(* Whatever was killed, failed or raced: once nothing is under way, the    *)
(* manifest names exactly the version whose bytes are in place, and that   *)
(* is the version of the last commit.  Exempt are only the names of        *)
(* operations cut off where the journal lags behind the files, and those   *)
(* an error, of the operation or of recovery, has left a journal of that   *)
(* is still to be replayed (harmed).                                       *)
FilesAgree ==
    Quiet => \A n \in Names \ harmed : manifest[n] = latest[n] /\ blob[n] = latest[n]

(* A deleted document keeps no attachment: an upload that raced the delete *)
(* is refused, or its bytes go with the cascade.                           *)
NoFilesWithoutDocument ==
    Quiet /\ ~doc => \A n \in Names \ harmed : manifest[n] = NoFile /\ blob[n] = NoFile

(* No lost update: a commit replaces exactly the version its request named *)
(* (none for fileCreate), although the bytes were uploaded without a lock. *)
NoLostFileUpdate ==
    [][\A n \in Names \ harmed :
          latest'[n] # latest[n] =>
              \E c \in mu : \/ req[c].op = "delete"
                            \/ req[c].name = n /\ req[c].ifMatch = latest[n]]_vars

(* A download never gets bytes older than the entry its headers come from, *)
(* although it reads the manifest and opens the file without a lock, also  *)
(* on a harmed name.                                                       *)
DownloadNotOlder ==
    \A c \in Clients : got[c].bytes # NoFile => got[c].bytes >= got[c].entry

-----------------------------------------------------------------------------
(* The inductive invariant behind the properties; FileOpsProofs shows it   *)
(* for any number of requests, names, operations, kills and I/O errors.    *)

CommitSteps == {"journal", "blob", "committed", "manifest", "done", "clear"}
LockedSteps == CommitSteps \cup CascadeSteps

\* The version that request or journal r leaves under its name.
Target(r) == IF r.op = "put" THEN r.id ELSE NoFile

(* A request is at a step of its own kind. *)
KindInv ==
    \A c \in Clients :
        /\ pc[c] \in CommitSteps => req[c].op # "delete"
        /\ pc[c] \in CascadeSteps => req[c].op = "delete"

(* The holder of the mutex is alone in the locked section, and a server    *)
(* that is down has no requests.                                           *)
MutexInv ==
    /\ \A c \in Clients : pc[c] \in LockedSteps <=> c \in mu
    /\ \A c, d \in mu : c = d
    /\ ~up => \A c \in Clients : pc[c] = "idle"

(* What the holder knows at each step: its id is the last one drawn, what  *)
(* it was admitted against is still the last commit, and the files it has  *)
(* replaced are as it left them.                                           *)
HolderInv ==
    \A c \in mu :
        /\ req[c].id + 1 = nextId
        /\ pc[c] \in CommitSteps => doc
        /\ pc[c] \in {"journal", "blob", "committed"} /\ req[c].name \notin harmed =>
              req[c].ifMatch = latest[req[c].name]
        /\ pc[c] \in {"committed", "manifest", "done", "clear"} =>
              blob[req[c].name] = Target(req[c])
        /\ pc[c] = "manifest" => JournalOf(c, "blobCommitted") \in journal
        /\ pc[c] \in {"rmLfs", "rmOps"} => manifest = Nothing
        /\ pc[c] = "rmOps" => blob = Nothing

(* A journal at "blobCommitted" tells the truth about an unharmed name,    *)
(* and while the server serves it belongs to the operation under way.      *)
JournalInv ==
    /\ listed \subseteq journal /\ (up => listed = {})
    /\ \A j \in journal :
          j.phase = "blobCommitted" /\ j.name \notin harmed =>
              /\ Target(j) = latest[j.name]
              /\ up => \E c \in mu : /\ pc[c] \in {"manifest", "done", "clear"}
                                     /\ j = JournalOf(c, "blobCommitted")

(* The bytes and the entry of an unharmed name are those of the last       *)
(* commit, but for the file operations that the holder of the mutex, or    *)
(* recovery, has still to make.                                            *)
AgreeInv ==
    \A n \in Names \ harmed :
        /\ \/ blob[n] = latest[n]
           \/ \E c \in mu : pc[c] = "committed" /\ req[c].name = n
           \/ \E c \in mu : pc[c] = "rmOps"
        /\ \/ manifest[n] = latest[n]
           \/ \E c \in mu : pc[c] = "manifest" /\ req[c].name = n
           \/ \E c \in mu : pc[c] \in {"rmLfs", "rmOps"}
           \/ ~up /\ \E j \in journal : j.phase = "blobCommitted" /\ j.name = n
        /\ \/ doc
           \/ latest[n] = NoFile
           \/ \E c \in mu : pc[c] \in CascadeSteps

(* Bytes only get younger, so those in place are no older than any entry   *)
(* that names them: in the manifest, in a journal that recovery may        *)
(* replay, or in the hands of a download.                                  *)
AgeInv ==
    /\ \A n \in Names :
          /\ blob[n] < nextId /\ manifest[n] < nextId
          /\ blob[n] # NoFile => blob[n] >= manifest[n]
    /\ \A j \in journal :
          /\ j.id < nextId
          /\ j.phase = "blobCommitted" /\ j.op = "put" /\ blob[j.name] # NoFile =>
                blob[j.name] >= j.id
    /\ \A c \in Clients :
          /\ got[c].entry < nextId
          /\ pc[c] = "open" /\ blob[req[c].name] # NoFile =>
                blob[req[c].name] >= got[c].entry

IInv ==
    /\ TypeOK
    /\ KindInv
    /\ MutexInv
    /\ HolderInv
    /\ JournalInv
    /\ AgreeInv
    /\ AgeInv
    /\ DownloadNotOlder

=============================================================================

-------------------------- MODULE FileReplication ---------------------------
(***************************************************************************)
(* How the attachments of one document travel from the SOT to its read     *)
(* members: DeliverFileOnce, the member's FileApplier, and the file        *)
(* catch-up agent.                                                         *)
(*                                                                         *)
(* The SOT's own commit is one step (FileOps looks into it).  On a member  *)
(* nothing is locked: the applier runs once per push and once per caught-up*)
(* item, and its update of the manifest, which holds the entries of all    *)
(* files of the document, is a read and a later write.  The rename of a    *)
(* blob and the journal's "blobCommitted" are one step here, and so are the*)
(* write of the manifest and the removal of the journal: what a kill or an *)
(* error between the two leaves is FileOps's subject.                      *)
(***************************************************************************)
EXTENDS Naturals, FiniteSets, FiniteSetsExt

CONSTANTS
    Members,    \* read and proxy members of the document's shard slot
    Files,      \* how many file names there are
    MaxWrites,  \* bound: file operations and document deletes on the SOT
    MaxMishaps  \* bound: kills and I/O errors together

ASSUME FileReplicationAssumption ==
    /\ Files \in Nat \ {0}
    /\ MaxWrites \in Nat
    /\ MaxMishaps \in Nat

VARIABLES
    doc,        \* the parent document is live on the SOT
    sot,        \* per name: the version on the SOT
    writes,     \* operations so far; also numbers them
    pushes,     \* deliveries: what, to whom, how far, is the SOT waiting
    pending,    \* per member and name: the .pendingFileWrites entry
    mdoc,       \* per member: the parent document is live there
    mblob,      \* per member and name: the bytes in place
    mmanifest,  \* per member and name: the manifest entry
    mjournal,   \* per member: journals in phase blobCommitted
    catchup,    \* per member: the catch-up agent's list, item and step
    flagged,    \* per member: names whose reads are refused (pendingFiles)
    mishaps,
    isolated    \* history: each operation began after the last was settled and
                \* no journal was left of it, was staged, and no refusal was
                \* taken for an acknowledgement

sotVars == <<doc, sot, writes>>
storeVars == <<mdoc, mblob, mmanifest, mjournal>>
vars == <<doc, sot, writes, pushes, pending, mdoc, mblob, mmanifest, mjournal,
          catchup, flagged, mishaps, isolated>>

Names == 1..Files        \* in the order in which names sort
NoFile == 0
Versions == 0..MaxWrites
Entry == [ver : Versions, sha : Versions]      \* of a manifest
EntryFor(v) == [ver |-> v, sha |-> v]
NoEntry == EntryFor(NoFile)

\* A FileWorkItem.  ver is the version it creates or deletes, op the
\* operation id; sha is what its bytes must hash to.
Ops == {"put", "delete"}
Item == [cmd : Ops, name : Names, op : Versions, ver : Versions, sha : Versions]
Journal == [cmd : Ops, name : Names, op : Versions, entry : Entry]
NoItem == [cmd |-> "none", name |-> 0, op |-> 0, ver |-> 0, sha |-> 0]
Files0 == [n \in Names |-> NoFile]
NoEntries == [n \in Names |-> NoEntry]

\* Where an applier is: at "read" it has not yet looked at the manifest;
\* "blob" is the rename or removal of the bytes; "load" and "store" are the
\* two halves of the manifest's update.
ApplySteps == {"read", "blob", "load", "store"}
Outcomes == {"yes", "no"}

\* What an applier works on: the item, the bytes it received, and the
\* manifest as it loaded it.
Work == [item : Item \cup {NoItem}, bytes : Versions, loaded : [Names -> Entry]]
NoWork == [item |-> NoItem, bytes |-> NoFile, loaded |-> NoEntries]
PushSteps == {"stage", "open"} \cup ApplySteps \cup Outcomes
Push == [work : Work, to : Members, at : PushSteps, waiting : BOOLEAN]
CatchupSteps == {"idle", "fetch", "content"} \cup ApplySteps \cup Outcomes
Catchup == [todo : SUBSET Names, work : Work, at : CatchupSteps]
Idle == [todo |-> {}, work |-> NoWork, at |-> "idle"]

(* Type correctness. *)
TypeOK ==
    /\ doc \in BOOLEAN
    /\ sot \in [Names -> Versions]
    /\ writes \in Versions
    /\ pushes \subseteq Push
    /\ pending \in [Members -> [Names -> Item \cup {NoItem}]]
    /\ mdoc \in [Members -> BOOLEAN]
    /\ mblob \in [Members -> [Names -> Versions]]
    /\ mmanifest \in [Members -> [Names -> Entry]]
    /\ mjournal \in [Members -> SUBSET Journal]
    /\ catchup \in [Members -> Catchup]
    /\ flagged \in [Members -> SUBSET Names]
    /\ mishaps \in Nat
    /\ isolated \in BOOLEAN

Init ==
    /\ doc = TRUE
    /\ sot = Files0
    /\ writes = 0
    /\ pushes = {}
    /\ pending = [m \in Members |-> [n \in Names |-> NoItem]]
    /\ mdoc = [m \in Members |-> TRUE]
    /\ mblob = [m \in Members |-> Files0]
    /\ mmanifest = [m \in Members |-> NoEntries]
    /\ mjournal = [m \in Members |-> {}]
    /\ catchup = [m \in Members |-> Idle]
    /\ flagged = [m \in Members |-> {}]
    /\ mishaps = 0
    /\ isolated = TRUE

(* Nothing is on its way to m or staged for it. *)
Settled(m) ==
    /\ \A p \in pushes : p.to # m
    /\ pending[m] = [n \in Names |-> NoItem]
    /\ catchup[m] = Idle
    /\ mdoc[m] = doc

(* ... and no journal of an applier that failed is left there: the next    *)
(* start would replay it over what came later.                             *)
Clean(m) == Settled(m) /\ mjournal[m] = {}

-----------------------------------------------------------------------------
(* The SOT.                                                                *)

NewItem(cmd, n) ==
    IF cmd = "put"
    THEN [cmd |-> cmd, name |-> n, op |-> writes + 1, ver |-> writes + 1, sha |-> writes + 1]
    ELSE [cmd |-> cmd, name |-> n, op |-> writes + 1, ver |-> sot[n], sha |-> sot[n]]

(* PutFile or DeleteFile has committed; DeliverFileOnce starts a goroutine *)
(* per target.  The mutex is free: deliveries of later operations, on this *)
(* or another file, run beside these.                                      *)
Write(cmd, n) ==
    /\ doc /\ writes < MaxWrites
    /\ cmd = "delete" => sot[n] # NoFile
    /\ sot' = [sot EXCEPT ![n] = IF cmd = "put" THEN writes + 1 ELSE NoFile]
    /\ pushes' = pushes \cup
         {[work |-> [NoWork EXCEPT !.item = NewItem(cmd, n)], to |-> m,
           at |-> "stage", waiting |-> TRUE] : m \in Members}
    /\ writes' = writes + 1
    /\ isolated' = (isolated /\ \A m \in Members : Clean(m))
    /\ UNCHANGED <<doc, pending, storeVars, catchup, flagged, mishaps>>

(* The document is deleted: its attachments go with it, the entries in     *)
(* .pendingFileWrites stay.                                                *)
DeleteDocument ==
    /\ doc /\ writes < MaxWrites
    /\ doc' = FALSE
    /\ sot' = Files0
    /\ writes' = writes + 1
    /\ isolated' = (isolated /\ \A m \in Members : Clean(m))
    /\ UNCHANGED <<pushes, pending, storeVars, catchup, flagged, mishaps>>

\* A push that ended is forgotten unless the SOT waits for it.
Ended(p, at) == IF at \in Outcomes /\ ~p.waiting THEN {} ELSE {[p EXCEPT !.at = at]}

(* The desired state is staged before the push; an error is ignored. *)

(* Mutant: the whole request, not the item in it, is staged. *)
WritePendingFileWriteWhole(p) ==
    /\ p.at = "stage"
    /\ pending' = [pending EXCEPT ![p.to][p.work.item.name] = p.work]
    /\ pushes' = (pushes \ {p}) \cup {[p EXCEPT !.at = "open"]}
    /\ UNCHANGED <<sotVars, storeVars, catchup, flagged, mishaps, isolated>>

(* Mutant: nothing is staged before the push. *)
WritePendingFileWriteNot(p) ==
    /\ p.at = "stage"
    /\ pushes' = (pushes \ {p}) \cup {[p EXCEPT !.at = "open"]}
    /\ UNCHANGED <<sotVars, pending, storeVars, catchup, flagged, mishaps, isolated>>

WritePendingFileWrite(p) ==
    /\ p.at = "stage"
    /\ pending' = [pending EXCEPT ![p.to][p.work.item.name] = p.work.item]
    /\ pushes' = (pushes \ {p}) \cup {[p EXCEPT !.at = "open"]}
    /\ UNCHANGED <<sotVars, storeVars, catchup, flagged, mishaps, isolated>>

StagingFails(p) ==
    /\ p.at = "stage"
    /\ mishaps < MaxMishaps
    /\ mishaps' = mishaps + 1
    /\ pushes' = (pushes \ {p}) \cup {[p EXCEPT !.at = "open"]}
    /\ isolated' = FALSE
    /\ UNCHANGED <<sotVars, pending, storeVars, catchup, flagged>>

(* pushFileOne opens whatever bytes are at the path by now, and sends them *)
(* under the item's headers.                                               *)
OpenAndSend(p) ==
    /\ p.at = "open"
    /\ p.work.item.cmd = "put" => sot[p.work.item.name] # NoFile
    /\ LET bytes == IF p.work.item.cmd = "put" THEN sot[p.work.item.name] ELSE NoFile
       IN  pushes' = (pushes \ {p}) \cup {[p EXCEPT !.at = "read", !.work.bytes = bytes]}
    /\ UNCHANGED <<sotVars, pending, storeVars, catchup, flagged, mishaps, isolated>>

(* No base URL, no token, no local file, no connection, or the timeout,    *)
(* which does not recall the request: the entry stays.                     *)
Unacknowledged(p) ==
    /\ p.waiting /\ p.at # "stage"
    /\ pushes' = (pushes \ {p}) \cup
           (IF p.at \in {"open"} \cup Outcomes THEN {} ELSE {[p EXCEPT !.waiting = FALSE]})
    /\ UNCHANGED <<sotVars, pending, storeVars, catchup, flagged, mishaps, isolated>>

(* The network loses the request. *)
Lose(p) ==
    /\ p.at = "read" /\ ~p.waiting
    /\ pushes' = pushes \ {p}
    /\ UNCHANGED <<sotVars, pending, storeVars, catchup, flagged, mishaps, isolated>>

(* A 2xx answer is an acknowledgement: the entry is removed, whichever     *)
(* operation it belongs to by now.  A refusal is an answer of that kind.   *)
Acknowledged(p) ==
    /\ p.waiting /\ p.at \in Outcomes
    /\ pending' = [pending EXCEPT ![p.to][p.work.item.name] = NoItem]
    /\ pushes' = pushes \ {p}
    /\ isolated' = (isolated /\ p.at = "yes")
    /\ UNCHANGED <<sotVars, storeVars, catchup, flagged, mishaps>>

(* Killed, the SOT has staged what it was pushing; only what was about to  *)
(* be staged is lost.                                                      *)
SOTCrash ==
    /\ mishaps < MaxMishaps
    /\ mishaps' = mishaps + 1
    /\ pushes' = {[p EXCEPT !.waiting = FALSE] : p \in
                     {q \in pushes : q.at \in ApplySteps}}
    /\ isolated' = (isolated /\ \A p \in pushes : p.at # "stage")
    /\ UNCHANGED <<sotVars, pending, storeVars, catchup, flagged>>

-----------------------------------------------------------------------------
(* A member: FileApplier, shared by pushes and catch-up.                   *)

EntryOf(w) == [ver |-> w.item.ver, sha |-> w.bytes]

\* ApplyMetadataOnly and ApplyStream, up to their first write.
Decide(m, w) ==
    LET e == mmanifest[m][w.item.name] IN
    IF w.item.cmd = "delete"
    THEN IF e = NoEntry THEN "yes" ELSE "blob"
    ELSE CASE e # NoEntry /\ e.ver = w.item.ver /\ e.sha = w.item.sha -> "yes"
           [] w.bytes # w.item.sha -> "no"
           [] OTHER -> "blob"

JournalOf(w) ==
    [cmd |-> w.item.cmd, name |-> w.item.name, op |-> w.item.op,
     entry |-> IF w.item.cmd = "put" THEN EntryOf(w) ELSE NoEntry]

\* The manifest with the entry upserted or removed.
Updated(entries, j) == [entries EXCEPT ![j.name] = j.entry]

\* Where an applier at step at with work w goes, and what it carries there.
After(m, at, w) ==
    CASE at = "read" -> Decide(m, w)
      [] at = "blob" -> "load"
      [] at = "load" -> "store"
      [] at = "store" -> "yes"

Carried(m, at, w) == [w EXCEPT !.loaded = IF at = "load" THEN mmanifest[m] ELSE NoEntries]

(* What the step does to the member's files. *)
ApplyStep(m, at, w) ==
    /\ at \in ApplySteps
    /\ mblob' = IF at # "blob" THEN mblob ELSE
                   [mblob EXCEPT ![m][w.item.name] =
                       IF w.item.cmd = "put" THEN w.bytes ELSE NoFile]
    /\ mmanifest' = IF at # "store" THEN mmanifest ELSE
                       [mmanifest EXCEPT ![m] = Updated(w.loaded, JournalOf(w))]
    /\ mjournal' = CASE at = "blob" -> [mjournal EXCEPT ![m] =
                              {j \in @ : j.op # w.item.op} \cup {JournalOf(w)}]
                      [] at = "store" -> [mjournal EXCEPT ![m] =
                              {j \in @ : j.op # w.item.op}]
                      [] OTHER -> mjournal
    /\ UNCHANGED <<mdoc, mishaps>>

(* An I/O error ends it where it is. *)
ApplyError(at) ==
    /\ at \in ApplySteps \ {"read"}
    /\ mishaps < MaxMishaps
    /\ mishaps' = mishaps + 1
    /\ UNCHANGED storeVars

(* handleApplyFileWrite. *)
PushApply(p) ==
    /\ \/ /\ ApplyStep(p.to, p.at, p.work)
          /\ pushes' = (pushes \ {p}) \cup
                 Ended([p EXCEPT !.work = Carried(p.to, p.at, p.work)], After(p.to, p.at, p.work))
       \/ /\ ApplyError(p.at)
          /\ pushes' = (pushes \ {p}) \cup Ended([p EXCEPT !.work.loaded = NoEntries], "no")
    /\ UNCHANGED <<sotVars, pending, catchup, flagged, isolated>>

(* The document's delete reaches the member by the document lane.          *)
MemberCascade(m) ==
    /\ ~doc /\ mdoc[m]
    /\ mdoc' = [mdoc EXCEPT ![m] = FALSE]
    /\ mblob' = [mblob EXCEPT ![m] = Files0]
    /\ mmanifest' = [mmanifest EXCEPT ![m] = NoEntries]
    /\ mjournal' = [mjournal EXCEPT ![m] = {}]
    /\ UNCHANGED <<sotVars, pushes, pending, catchup, flagged, mishaps, isolated>>

-----------------------------------------------------------------------------
(* A member: CheckInFile.                                                  *)

\* CheckInFile returns; what it has not reached waits for the next check-in.
Abandon(m) == catchup' = [catchup EXCEPT ![m] = Idle]

(* listWorkItems, sorted by file name. *)
CheckInFile(m) ==
    /\ catchup[m].at = "idle"
    /\ LET listed == {n \in Names : pending[m][n] # NoItem} IN
       /\ listed # {}
       /\ catchup' = [catchup EXCEPT ![m].todo = listed, ![m].at = "fetch"]
    /\ UNCHANGED <<sotVars, pushes, pending, storeVars, flagged, mishaps, isolated>>

\* The item being worked on: the first of those left.
Current(m) == Min(catchup[m].todo)

(* fetchWorkItem: the entry as it is by now. *)
FetchItem(m) ==
    /\ catchup[m].at = "fetch"
    /\ pending[m][Current(m)] # NoItem
    /\ LET item == pending[m][Current(m)] IN
       catchup' = [catchup EXCEPT ![m].work = [NoWork EXCEPT !.item = item],
                                  ![m].at = IF item.cmd = "put" THEN "content" ELSE "read"]
    /\ flagged' = [flagged EXCEPT ![m] = @ \cup {Current(m)}]
    /\ UNCHANGED <<sotVars, pushes, pending, storeVars, mishaps, isolated>>

(* fetchContent: the SOT looks the entry up again and sends the bytes now  *)
(* at the path; the entry's SHA-256 replaces the item's, its version does  *)
(* not.  Without an entry or bytes the answer is a JSON body, whose hash is*)
(* never the item's: ApplyStream refuses it.                               *)
FetchContent(m) ==
    /\ catchup[m].at = "content"
    /\ LET again == pending[m][Current(m)]
           found == again.cmd = "put" /\ sot[Current(m)] # NoFile
       IN  catchup' = [catchup EXCEPT
               ![m].work.bytes = IF found THEN sot[Current(m)] ELSE NoFile,
               ![m].work.item.sha = IF found THEN again.sha ELSE @,
               ![m].at = "read"]
    /\ UNCHANGED <<sotVars, pushes, pending, storeVars, flagged, mishaps, isolated>>

CatchupApply(m) ==
    LET at == catchup[m].at
        w == catchup[m].work
    IN  /\ \/ /\ ApplyStep(m, at, w)
              /\ catchup' = [catchup EXCEPT ![m].at = After(m, at, w),
                                            ![m].work = Carried(m, at, w)]
           \/ /\ ApplyError(at)
              /\ catchup' = [catchup EXCEPT ![m].at = "no", ![m].work.loaded = NoEntries]
        /\ UNCHANGED <<sotVars, pushes, pending, flagged, isolated>>

(* Mutant: the applied entry is not removed. *)
CompleteKeeps(m) ==
    /\ catchup[m].at = "yes"
    /\ LET left == catchup[m].todo \ {Current(m)} IN
       catchup' = [catchup EXCEPT ![m] =
           IF left = {} THEN Idle ELSE [todo |-> left, work |-> NoWork, at |-> "fetch"]]
    /\ flagged' = [flagged EXCEPT ![m] = @ \ {Current(m)}]
    /\ UNCHANGED <<sotVars, pushes, pending, storeVars, mishaps, isolated>>

(* Mutant: the entry is removed although the applier refused it. *)
CompleteRefused(m) ==
    /\ catchup[m].at \in Outcomes
    /\ pending' = [pending EXCEPT ![m][Current(m)] = NoItem]
    /\ Abandon(m)
    /\ UNCHANGED <<sotVars, pushes, storeVars, flagged, mishaps, isolated>>

(* completeWorkItem removes the entry, whichever operation it is of, and   *)
(* the next item's turn has come.                                          *)
Complete(m) ==
    /\ catchup[m].at = "yes"
    /\ pending' = [pending EXCEPT ![m][Current(m)] = NoItem]
    /\ LET left == catchup[m].todo \ {Current(m)} IN
       catchup' = [catchup EXCEPT ![m] =
           IF left = {} THEN Idle ELSE [todo |-> left, work |-> NoWork, at |-> "fetch"]]
    /\ flagged' = [flagged EXCEPT ![m] = @ \ {Current(m)}]
    /\ UNCHANGED <<sotVars, pushes, storeVars, mishaps, isolated>>

(* A request of the agent fails, the entry is gone, or the applier refused *)
(* it: CheckInFile returns with the error, the flag stays.                 *)
GiveUp(m) ==
    /\ catchup[m].at \in {"fetch", "content"} \cup Outcomes
    /\ Abandon(m)
    /\ UNCHANGED <<sotVars, pushes, pending, storeVars, flagged, mishaps, isolated>>

(* A member is killed; it restarts with RecoverAllFileOps, which takes the *)
(* journals in the order of their operation ids, and with no flags.        *)
MemberCrash(m) ==
    /\ mishaps < MaxMishaps
    /\ mishaps' = mishaps + 1
    /\ mmanifest' = [mmanifest EXCEPT ![m] =
           [n \in Names |-> LET of == {j \in mjournal[m] : j.name = n} IN
               IF of = {} THEN @[n]
               ELSE (CHOOSE j \in of : \A k \in of : j.op >= k.op).entry]]
    /\ mjournal' = [mjournal EXCEPT ![m] = {}]
    /\ pushes' = {p \in pushes : p.to = m => p.at \notin ApplySteps \ {"read"}}
    /\ Abandon(m)
    /\ flagged' = [flagged EXCEPT ![m] = {}]
    /\ UNCHANGED <<sotVars, pending, mdoc, mblob, isolated>>

-----------------------------------------------------------------------------
PushStep(p) ==
    \/ WritePendingFileWrite(p)
    \/ StagingFails(p)
    \/ OpenAndSend(p)
    \/ Unacknowledged(p)
    \/ Lose(p)
    \/ Acknowledged(p)
    \/ PushApply(p)

MemberStep(m) ==
    \/ MemberCascade(m)
    \/ CheckInFile(m)
    \/ FetchItem(m)
    \/ FetchContent(m)
    \/ CatchupApply(m)
    \/ Complete(m)
    \/ GiveUp(m)
    \/ MemberCrash(m)

Next ==
    \/ \E cmd \in Ops, n \in Names : Write(cmd, n)
    \/ DeleteDocument
    \/ \E p \in pushes : PushStep(p)
    \/ \E m \in Members : MemberStep(m)
    \/ SOTCrash

Spec == Init /\ [][Next]_vars

(* The loop of runCatchUpLoop never ends, and a network that is not cut for *)
(* good lets each of its requests through again and again.                 *)
Fairness ==
    \A m \in Members :
        /\ WF_vars(CheckInFile(m))
        /\ SF_vars(FetchItem(m))
        /\ SF_vars(FetchContent(m))
        /\ WF_vars(CatchupApply(m))
        /\ WF_vars(GiveUp(m))
        /\ SF_vars(Complete(m))

FairSpec == Spec /\ Fairness

-----------------------------------------------------------------------------
(* Properties *)

\* The member has every file as the SOT has it.
Agrees(m) ==
    \A n \in Names : mblob[m][n] = sot[n] /\ mmanifest[m][n] = EntryFor(sot[n])

(* One operation at a time, the lane delivers: whatever is lost, late, sent*)
(* twice or applied by push and catch-up at once, and wherever the SOT or  *)
(* the member is killed, a settled member has the SOT's files.  What it    *)
(* takes: an operation does not begin while the member still has a journal *)
(* of the last, left by one of two appliers that failed after the other had*)
(* finished.                                                               *)
IsolatedFilesConverge ==
    isolated => \A m \in Members : Settled(m) => Agrees(m)

(* A member's bytes and its manifest entry of a file as followers of the   *)
(* SOT's file.                                                             *)
F == INSTANCE Followers WITH
        Copies <- Members \X Names \X {"bytes", "entry"}, Values <- Entry, Between <- {},
        source <- [c \in Members \X Names \X {"bytes", "entry"} |-> EntryFor(sot[c[2]])],
        copy <- [c \in Members \X Names \X {"bytes", "entry"} |->
                    IF c[3] = "bytes" THEN EntryFor(mblob[c[1]][c[2]]) ELSE mmanifest[c[1]][c[2]]],
        calm <- isolated

(* FileReplication implements Followers: one operation at a time, bytes    *)
(* and entries go from the old version straight to the new one and stay,   *)
(* whoever applies the item, however often, and whatever manifest an       *)
(* applier loaded earlier and writes back; nothing happens to the other    *)
(* files, and a replayed journal undoes nothing.                           *)
RefinesFollowers == F!Spec

(* The entry the next check-in starts with, if it can never be applied: the*)
(* bytes it names are no longer those the SOT would send.                  *)
Poisoned(m) ==
    LET waiting == {n \in Names : pending[m][n] # NoItem} IN
    waiting # {} /\ LET first == pending[m][Min(waiting)] IN
                    first.cmd = "put" /\ sot[first.name] # first.sha

(* The backlog drains, again and again, unless it is headed by an entry    *)
(* that can never be applied: that one holds up all that sort after it.    *)
FileBacklogDrains ==
    \A m \in Members :
        []<>((\A n \in Names : pending[m][n] = NoItem) \/ Poisoned(m))

(* An operation staged for a member is not forgotten: when the staged      *)
(* record of a file goes, the member's manifest says what the record said, *)
(* while operations do not overlap and no answer is misread (isolated).    *)
(* That the bytes are those of the manifest is IsolatedFilesConverge's.    *)
StagedNotForgotten ==
    [][\A m \in Members, n \in Names :
          isolated' /\ pending[m][n] # NoItem /\ pending'[m][n] = NoItem =>
              mmanifest[m][n] = (IF pending[m][n].cmd = "put"
                                 THEN [ver |-> pending[m][n].ver, sha |-> pending[m][n].sha]
                                 ELSE NoEntry)]_vars

-----------------------------------------------------------------------------
(* The inductive invariant the proofs are about.                           *)

(* Who applies has something to apply; who is at work has a list.          *)
WorkInv ==
    /\ \A p \in pushes : p.work.item \in Item
    /\ \A m \in Members :
          /\ catchup[m].at # "idle" => catchup[m].todo # {}
          /\ catchup[m].at \notin {"idle", "fetch"} => catchup[m].work.item \in Item

\* The applier of x with work w at step at on member m: what it has checked,
\* and what it has done.
ApplierInv(x, m, at, w) ==
    /\ at \in {"blob", "load", "store"} /\ x.cmd = "put" => w.bytes = x.sha
    /\ at \in {"load", "store"} => mblob[m][x.name] = sot[x.name]
    /\ at = "store" => \A n \in Names \ {x.name} : w.loaded[n] = EntryFor(sot[n])
    /\ at = "yes" => mmanifest[m][x.name] = EntryFor(sot[x.name])

\* Member m while x is delivered: other files agree, and the bytes come before
\* the entry.
MemberInv(x, m) ==
    /\ \A n \in Names \ {x.name} : mblob[m][n] = sot[n] /\ mmanifest[m][n] = EntryFor(sot[n])
    /\ \A j \in mjournal[m] : j.name = x.name /\ j.entry = EntryFor(sot[x.name])
    /\ mmanifest[m][x.name] = EntryFor(sot[x.name]) \/ mjournal[m] # {} =>
          mblob[m][x.name] = sot[x.name]

\* The entry is there, staged, or about to be staged.
Underway(x, m) ==
    \/ mmanifest[m][x.name] = EntryFor(sot[x.name])
    \/ pending[m][x.name] = x
    \/ \E p \in pushes : p.to = m /\ p.at = "stage"

\* All that is on its way or staged is operation x, the last one.
Delivering(x) ==
    /\ sot[x.name] = IF x.cmd = "put" THEN x.ver ELSE NoFile
    /\ x.cmd = "put" => x.sha = x.ver
    /\ \A p \in pushes : p.work.item = x /\ ApplierInv(x, p.to, p.at, p.work)
    /\ \A m \in Members :
          /\ \A n \in Names : pending[m][n] # NoItem => n = x.name /\ pending[m][n] = x
          /\ catchup[m].todo \subseteq {x.name}
          /\ catchup[m].at \notin {"idle", "fetch"} => catchup[m].work.item = x
          /\ ApplierInv(x, m, catchup[m].at, catchup[m].work)
          /\ MemberInv(x, m)
          /\ Underway(x, m)

\* The document is deleted: nothing is under way, and where the delete has
\* arrived there are no files.
AllGone ==
    /\ sot = Files0
    /\ pushes = {}
    /\ \A m \in Members :
          /\ pending[m] = [n \in Names |-> NoItem]
          /\ catchup[m] = Idle
          /\ mjournal[m] = {}
          /\ ~mdoc[m] => Agrees(m)

IsolatedInv ==
    isolated => IF doc THEN \E x \in Item : Delivering(x) ELSE AllGone

IInv == TypeOK /\ WorkInv /\ IsolatedInv

=============================================================================

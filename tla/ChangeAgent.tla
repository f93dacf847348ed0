---------------------------- MODULE ChangeAgent -----------------------------
(***************************************************************************)
(* The change agent: how a committed write of one document reaches the     *)
(* result files of one search.  ProcessNow (called by the write path) and  *)
(* RunOnce (the background worker) share claim, process and clean-up; the  *)
(* ExclusionSet lets one of them work on a document at a time, but the     *)
(* engine, which holds Engine.mu and not the exclusion key, goes on        *)
(* writing underneath.                                                     *)
(*                                                                         *)
(* A document file is its version; bucketOf is the bucket the search puts  *)
(* the version in, chosen once and for all.  A bucket's result file is     *)
(* abstracted to what it says of this document: the version whose sort     *)
(* values it lists, or 0.                                                  *)
(***************************************************************************)
EXTENDS Naturals, FiniteSets

CONSTANTS
    Buckets,     \* result files of the search
    NoBucket,    \* the search's filter does not match
    MaxWrites,   \* bound: writes the engine begins
    MaxMishaps   \* bound: process kills, I/O errors and failed deliveries together

ASSUME ChangeAgentAssumption ==
    /\ NoBucket \notin Buckets
    /\ MaxWrites \in Nat
    /\ MaxMishaps \in Nat

VARIABLES
    bucketOf,    \* what the search definition evaluates to, per version
    live,        \* version of {id}.json, or NoDoc
    prev,        \* version of .{id}.json, or NoDoc
    queue,       \* changes with a .queue marker
    taken,       \* changes with a .taken marker
    writer,      \* the write in the engine's locked section
    run,         \* the agent's run holding the exclusion key
    listed,      \* .taken markers a background worker has listed, not tried
    index,       \* per bucket: the listed version of the document, or NoDoc
    writes,      \* writes begun; also numbers them
    mishaps,     \* kills, I/O errors and failed deliveries so far
    cut,         \* history: a write was cut short by a kill or an I/O error
    overlapped   \* history: a write began before the last was distributed

engineVars == <<live, queue, writer, writes>>
histVars == <<cut, overlapped>>
vars == <<bucketOf, live, prev, queue, taken, writer, run, listed, index,
          writes, mishaps, cut, overlapped>>

NoDoc == 0
Versions == 0..MaxWrites
Ops == {"create", "patch", "delete"}
WriterSteps == {"idle", "preserve", "write", "remove", "enqueue"}
RunSteps == {"idle", "current", "previous", "unlist", "list", "drop", "finish"}

(* Type correctness. *)
TypeOK ==
    /\ bucketOf \in [1..MaxWrites -> Buckets \cup {NoBucket}]
    /\ live \in Versions
    /\ prev \in Versions
    /\ queue \subseteq Ops
    /\ taken \subseteq Ops
    /\ writer \in [op : Ops, at : WriterSteps]
    /\ run \in [change : Ops, at : RunSteps, new : Versions, old : Versions]
    /\ listed \subseteq Ops
    /\ index \in [Buckets -> Versions]
    /\ writes \in Versions
    /\ mishaps \in Nat
    /\ cut \in BOOLEAN
    /\ overlapped \in BOOLEAN

NoWrite == [op |-> "create", at |-> "idle"]
NoRun == [change |-> "create", at |-> "idle", new |-> NoDoc, old |-> NoDoc]

Init ==
    /\ bucketOf \in [1..MaxWrites -> Buckets \cup {NoBucket}]
    /\ live = NoDoc
    /\ prev = NoDoc
    /\ queue = {}
    /\ taken = {}
    /\ writer = NoWrite
    /\ run = NoRun
    /\ listed = {}
    /\ index = [b \in Buckets |-> NoDoc]
    /\ writes = 0
    /\ mishaps = 0
    /\ cut = FALSE
    /\ overlapped = FALSE

(* Everything written has been distributed and nobody is at work. *)
Settled ==
    /\ queue = {} /\ taken = {} /\ listed = {}
    /\ writer = NoWrite
    /\ run = NoRun

BucketFor(v) == IF v = NoDoc THEN NoBucket ELSE bucketOf[v]

-----------------------------------------------------------------------------
(* The engine's locked section, one write at a time (module DocStore).     *)

BeginWrite(op) ==
    /\ writer.at = "idle"
    /\ writes < MaxWrites
    /\ op = "create" <=> live = NoDoc
    /\ writes' = writes + 1
    /\ writer' = [op |-> op, at |-> CASE op = "create" -> "write"
                                      [] op = "patch"  -> "preserve"
                                      [] op = "delete" -> "remove"]
    /\ overlapped' = (overlapped \/ ~Settled)
    /\ UNCHANGED <<bucketOf, live, prev, queue, taken, run, listed, index, mishaps, cut>>

(* PreservePreviousIfAbsent, the atomic write, SoftDeleteDocument. *)
MoveFiles ==
    /\ \/ /\ writer.at = "preserve"
          /\ writer' = [writer EXCEPT !.at = "write"]
          /\ prev' = IF prev = NoDoc THEN live ELSE prev
          /\ live' = IF prev = NoDoc THEN NoDoc ELSE live
       \/ /\ writer.at = "write"
          /\ writer' = [writer EXCEPT !.at = "enqueue"]
          /\ live' = writes
          /\ UNCHANGED prev
       \/ /\ writer.at = "remove"
          /\ writer' = [writer EXCEPT !.at = "enqueue"]
          /\ prev' = IF prev = NoDoc THEN live ELSE prev
          /\ live' = NoDoc
    /\ UNCHANGED <<bucketOf, queue, taken, run, listed, index, writes, mishaps, histVars>>

(* Mutant: the marker is named after no command of the engine. *)
EnqueueWrongMarker ==
    /\ writer.at = "enqueue"
    /\ queue' = queue \cup {"update"}
    /\ writer' = NoWrite
    /\ UNCHANGED <<bucketOf, live, prev, taken, run, listed, index, writes, mishaps,
                   histVars>>

(* The marker for the agent: one per kind of change, whatever it stands    *)
(* for by the time it is claimed.                                          *)
EnqueueChange ==
    /\ writer.at = "enqueue"
    /\ queue' = queue \cup {writer.op}
    /\ writer' = NoWrite
    /\ UNCHANGED <<bucketOf, live, prev, taken, run, listed, index, writes, mishaps,
                   histVars>>

(* A file operation of the write fails; the handler returns as it stands. *)
WriteFails ==
    /\ writer.at # "idle"
    /\ mishaps < MaxMishaps
    /\ mishaps' = mishaps + 1
    /\ writer' = NoWrite
    /\ cut' = TRUE
    /\ UNCHANGED <<bucketOf, live, prev, queue, taken, run, listed, index, writes,
                   overlapped>>

-----------------------------------------------------------------------------
(* The agent: claim, process, clean up.                                    *)

Begin(change) == [change |-> change, at |-> "current", new |-> NoDoc, old |-> NoDoc]

(* TryAcquire succeeds and the .queue marker is renamed to .taken.         *)
Claim(change) ==
    /\ run.at = "idle"
    /\ change \in queue
    /\ queue' = queue \ {change}
    /\ taken' = taken \cup {change}
    /\ run' = Begin(change)
    /\ UNCHANGED <<bucketOf, live, prev, writer, listed, index, writes, mishaps, histVars>>

(* RunOnce, in any worker, lists the directory before it tries any key. *)
ListTaken ==
    /\ listed' = listed \cup taken
    /\ UNCHANGED <<engineVars, bucketOf, prev, taken, run, index, mishaps, histVars>>

(* Mutant: entries left .taken by a kill or a failed run are not resumed. *)
ResumeNever(change) ==
    /\ run.at = "idle"
    /\ change \in listed \ taken
    /\ run' = Begin(change)
    /\ listed' = listed \ {change}
    /\ UNCHANGED <<engineVars, bucketOf, prev, taken, index, mishaps, histVars>>

(* A .taken entry, left by a kill or a failed run, is processed without a  *)
(* rename: by ProcessNow, which looks for it, or by a worker that has it   *)
(* in its listing, by then perhaps without a file to it.                   *)
Resume(change) ==
    /\ run.at = "idle"
    /\ change \in taken \cup listed
    /\ run' = Begin(change)
    /\ listed' = listed \ {change}
    /\ UNCHANGED <<engineVars, bucketOf, prev, taken, index, mishaps, histVars>>

(* TryAcquire fails: the worker leaves the listed entry for later. *)
SkipListed(change) ==
    /\ run.at # "idle"
    /\ change \in listed
    /\ listed' = listed \ {change}
    /\ UNCHANGED <<engineVars, bucketOf, prev, taken, run, index, mishaps, histVars>>

(* process reads the live document and then the previous one. *)
ReadDocuments ==
    /\ \/ run.at = "current" /\ run' = [run EXCEPT !.at = "previous", !.new = live]
       \/ run.at = "previous" /\ run' = [run EXCEPT !.at = "unlist", !.old = prev]
    /\ UNCHANGED <<engineVars, bucketOf, prev, taken, listed, index, mishaps, histVars>>

(* Mutant: the document is not removed from the bucket it has left. *)
KeepOld ==
    /\ run.at = "unlist"
    /\ run' = [run EXCEPT !.at = "list"]
    /\ UNCHANGED <<engineVars, bucketOf, prev, taken, listed, index, mishaps, histVars>>

(* distributeSearch, removals first: the previous document's bucket, when  *)
(* the current document is not in it.                                      *)
RemoveOld ==
    /\ run.at = "unlist"
    /\ run' = [run EXCEPT !.at = "list"]
    /\ index' = [b \in Buckets |->
                   IF b = BucketFor(run.old) /\ b # BucketFor(run.new)
                     THEN NoDoc ELSE index[b]]
    /\ UNCHANGED <<engineVars, bucketOf, prev, taken, listed, mishaps, histVars>>

(* ... then the current document's bucket. *)
UpsertNew ==
    /\ run.at = "list"
    /\ run' = [run EXCEPT !.at = "drop"]
    /\ index' = [b \in Buckets |-> IF b = BucketFor(run.new) THEN run.new ELSE index[b]]
    /\ UNCHANGED <<engineVars, bucketOf, prev, taken, listed, mishaps, histVars>>

(* A delivery to a member of the search shard fails, or a file operation   *)
(* does: .taken stays for a later run.                                     *)
RunFails ==
    /\ run.at # "idle"
    /\ mishaps < MaxMishaps
    /\ mishaps' = mishaps + 1
    /\ run' = NoRun
    /\ UNCHANGED <<engineVars, bucketOf, prev, taken, listed, index, histVars>>

(* runEntryResult's clean-up removes the previous document, whichever it   *)
(* is by now, and then the .taken marker.                                  *)
DropPrevious ==
    /\ run.at = "drop"
    /\ prev' = NoDoc
    /\ run' = [run EXCEPT !.at = "finish"]
    /\ UNCHANGED <<engineVars, bucketOf, taken, listed, index, mishaps, histVars>>

(* Mutant: the clean-up removes every marker of the change. *)
FinishDropsQueue ==
    /\ run.at = "finish"
    /\ taken' = taken \ {run.change}
    /\ queue' = queue \ {run.change}
    /\ run' = NoRun
    /\ UNCHANGED <<live, writer, writes, bucketOf, prev, listed, index, mishaps, histVars>>

Finish ==
    /\ run.at = "finish"
    /\ taken' = taken \ {run.change}
    /\ run' = NoRun
    /\ UNCHANGED <<engineVars, bucketOf, prev, listed, index, mishaps, histVars>>

(* The process is killed and restarted; the markers and files remain. *)
Crash ==
    /\ mishaps < MaxMishaps
    /\ mishaps' = mishaps + 1
    /\ writer' = NoWrite
    /\ run' = NoRun
    /\ listed' = {}
    /\ cut' = (cut \/ writer.at # "idle")
    /\ UNCHANGED <<bucketOf, live, prev, queue, taken, index, writes, overlapped>>

-----------------------------------------------------------------------------
RunStep ==
    \/ ReadDocuments
    \/ RemoveOld
    \/ UpsertNew
    \/ DropPrevious
    \/ Finish

WriterStep == MoveFiles \/ EnqueueChange

Next ==
    \/ \E op \in Ops : BeginWrite(op)
    \/ MoveFiles
    \/ EnqueueChange
    \/ WriteFails
    \/ \E change \in Ops : Claim(change) \/ Resume(change) \/ SkipListed(change)
    \/ ListTaken
    \/ ReadDocuments
    \/ RemoveOld
    \/ UpsertNew
    \/ DropPrevious
    \/ Finish
    \/ RunFails
    \/ Crash

Spec == Init /\ [][Next]_vars

(* The scheduler runs RunOnce again and again while there is work, so an   *)
(* entry is eventually picked up and a run that was begun is carried on.   *)
Fairness ==
    /\ WF_vars(WriterStep)
    /\ WF_vars(\E change \in Ops : Claim(change) \/ Resume(change))
    /\ WF_vars(RunStep)

FairSpec == Spec /\ Fairness

-----------------------------------------------------------------------------
(* Properties *)

(* A live document is listed: however writes, runs, retries and kills of   *)
(* the agent interleave, once everything is distributed the document is in *)
(* its bucket with its present sort values, unless a write itself was cut  *)
(* short before its marker.                                                *)
LiveDocumentIsListed ==
    Settled /\ ~cut /\ BucketFor(live) # NoBucket => index[BucketFor(live)] = live

(* ... and when no write began before the last was distributed, it is      *)
(* listed nowhere else: a run that a kill or a failed delivery stopped at  *)
(* any point is completed by the run that resumes it.                      *)
ListedOnlyThere ==
    Settled /\ ~cut /\ ~overlapped =>
        \A b \in Buckets : index[b] # NoDoc => b = BucketFor(live)

(* The queue drains: what was enqueued is eventually distributed. *)
QueueDrains == []<>(queue \cup taken = {})

-----------------------------------------------------------------------------
(* The inductive invariant behind the two properties; ChangeAgentProofs    *)
(* shows it for any number of buckets, writes and mishaps.                 *)

\* The document is where the search puts it, with its present sort values.
Listed == BucketFor(live) # NoBucket => index[BucketFor(live)] = live

\* The document is listed in no bucket outside B.
OnlyIn(B) == \A b \in Buckets : index[b] # NoDoc => b \in B

HasRead == {"previous", "unlist", "list", "drop", "finish"}

(* When no write is at work and no marker waits, a run knows the live      *)
(* document, and the document is listed unless a .taken marker is left for *)
(* a run that has not got there yet.                                       *)
ListedInv ==
    ~cut /\ writer.at = "idle" /\ queue = {} =>
        /\ run.at \in HasRead => run.new = live
        /\ run.at \in {"drop", "finish"} => Listed
        /\ taken = {} => Listed

(* When no writes overlap, a writer is alone, and the previous document    *)
(* tells where else the document may still be listed: it is preserved      *)
(* before the change and dropped only when that bucket is clean.           *)
CalmInv ==
    ~cut /\ ~overlapped =>
        /\ writer.at # "idle" =>
              queue = {} /\ taken = {} /\ listed = {} /\ run = NoRun
        /\ writer.at \in {"preserve", "remove"} => prev = NoDoc
        /\ writer.at = "write" => live = NoDoc
        /\ OnlyIn({BucketFor(prev), BucketFor(live)})
        /\ run.at \in HasRead => run.new = live
        /\ run.at \in {"unlist", "list", "drop"} => run.old = prev
        /\ run.at \in {"list", "drop"} => OnlyIn({BucketFor(live)})
        /\ run.at = "finish" => prev = NoDoc
        /\ writer.at = "idle" /\ queue = {} /\ taken = {} => prev = NoDoc

IInv == TypeOK /\ ListedInv /\ CalmInv

=============================================================================

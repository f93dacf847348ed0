--------------------------- MODULE CacheUpdates -----------------------------
(***************************************************************************)
(* Cached summaries of one source document: the change agent on the        *)
(* document's SOT stages an update for every read server, applies its own  *)
(* and pushes the others; a server that did not acknowledge fetches its    *)
(* update later; reads with cacheSummaries create the cache file that      *)
(* updates need to find.                                                   *)
(*                                                                         *)
(* A cache file is the version of the source it holds, Null for the record *)
(* with a null revision (lost reference or deleted), or NoFile.  Pending   *)
(* updates are likewise their AfterVersion, Null for a delete.             *)
(***************************************************************************)
EXTENDS Integers, FiniteSets, Sequences, SequencesExt

CONSTANTS
    Self,        \* the SOT of the source document
    Order,       \* the read servers in the order of their names
    Readers,     \* reads with cacheSummaries in progress at a time
    MaxChanges,  \* bound: committed writes of the source document
    MaxMishaps   \* bound: failed or lost calls, I/O errors and kills together

ASSUME CacheUpdatesAssumption ==
    /\ Order \in Seq(ToSet(Order)) /\ IsInjective(Order)
    /\ MaxChanges \in Nat
    /\ MaxMishaps \in Nat

VARIABLES
    live,       \* version of the source document, or Null when there is none
    queue,      \* changes with a .queue marker
    taken,      \* changes with a .taken marker
    run,        \* the change agent's run for the document
    pending,    \* per read server: the staged update, or NoFile
    cache,      \* per read server: the cache file
    push,       \* the handler of the run's present push, or a local Apply
    orphan,     \* a push handler whose client has gone
    agent,      \* per member: the cache agent's work on one listed item
    reader,     \* per reader: the server, and where EnsureStub is
    changes,    \* writes so far; also numbers versions
    mishaps,
    overlapped, \* history: a write came before the last was distributed
    stubbed,    \* history: servers where a stub replaced a cache file
    had         \* history: servers with a cache file at the last write

vars == <<live, queue, taken, run, pending, cache, push, orphan, agent, reader,
          changes, mishaps, overlapped, stubbed, had>>

NoFile == -1
Null == 0
Versions == 1..MaxChanges
Targets == ToSet(Order)   \* AllReadMembers
Members == Targets \ {Self}
Ops == {"create", "patch", "delete"}

NoRun == [at |-> "idle", change |-> "create", ver |-> Null, next |-> 1]
NoCall == [at |-> "idle", ver |-> Null, server |-> Self]
NoWork == [at |-> "idle", ver |-> Null]
NoRead == [at |-> "idle", server |-> Self]

ApplySteps == {"idle", "load", "write", "done"}
Call == [at : ApplySteps, ver : Versions \cup {Null}, server : Targets \cup {Self}]

(* Type correctness. *)
TypeOK ==
    /\ live \in Versions \cup {Null}
    /\ queue \subseteq Ops
    /\ taken \subseteq Ops
    /\ run \in [at : {"idle", "claimed", "stage", "wait", "finish"}, change : Ops,
                ver : Versions \cup {Null}, next : 1..Len(Order) + 1]
    /\ pending \in [Targets -> Versions \cup {Null, NoFile}]
    /\ cache \in [Targets -> Versions \cup {Null, NoFile}]
    /\ push \in Call
    /\ orphan \in Call
    /\ agent \in [Members -> [at : ApplySteps \cup {"fetch"}, ver : Versions \cup {Null}]]
    /\ reader \in [Readers -> [at : {"idle", "write"}, server : Targets \cup {Self}]]
    /\ changes \in 0..MaxChanges
    /\ mishaps \in 0..MaxMishaps
    /\ overlapped \in BOOLEAN
    /\ stubbed \subseteq Targets
    /\ had \subseteq Targets

Init ==
    /\ live = Null
    /\ queue = {}
    /\ taken = {}
    /\ run = NoRun
    /\ pending = [m \in Targets |-> NoFile]
    /\ cache = [m \in Targets |-> NoFile]
    /\ push = NoCall
    /\ orphan = NoCall
    /\ agent = [m \in Members |-> NoWork]
    /\ reader = [r \in Readers |-> NoRead]
    /\ changes = 0
    /\ mishaps = 0
    /\ overlapped = FALSE
    /\ stubbed = {}
    /\ had = {}

(* Every change has been distributed and nobody is at work on one. *)
Settled ==
    /\ queue \cup taken = {}
    /\ run = NoRun
    /\ \A m \in Targets : pending[m] = NoFile
    /\ orphan = NoCall
    /\ \A m \in Members : agent[m] = NoWork

Mishap == mishaps < MaxMishaps /\ mishaps' = mishaps + 1

-----------------------------------------------------------------------------
(* cache.Apply, shared by the local case, the push handler and the agent:  *)
(* load the cache file, then write it.                                     *)

(* Mutant: an update for a server that has no cache file creates one. *)
ApplyLoadSweeping(m, ver) ==
    IF ver # Null /\ cache[m] = ver THEN "done" ELSE "write"

(* Mutant: a delete leaves the cached record as it is. *)
ApplyLoadIgnoresDelete(m, ver) ==
    IF cache[m] = NoFile \/ ver = Null \/ cache[m] = ver THEN "done" ELSE "write"

(* What the load of the cache file decides: nothing to do when there is no *)
(* file or it has this version already; a delete has no version to have.   *)
ApplyLoad(m, ver) ==
    IF cache[m] = NoFile \/ (ver # Null /\ cache[m] = ver) THEN "done" ELSE "write"

Applied(c, m) ==
    [c EXCEPT !.at = IF c.at = "load" THEN ApplyLoad(m, c.ver) ELSE "done"]

ApplyStep(c, m) ==
    /\ c.at \in {"load", "write"}
    /\ cache' = IF c.at = "write" THEN [cache EXCEPT ![m] = c.ver] ELSE cache

-----------------------------------------------------------------------------
(* The source document and the change agent.                               *)

(* A committed write with its marker. *)
Change(op) ==
    /\ changes < MaxChanges
    /\ op = "create" <=> live = Null
    /\ changes' = changes + 1
    /\ live' = IF op = "delete" THEN Null ELSE changes + 1
    /\ queue' = queue \cup {op}
    /\ overlapped' = (overlapped \/ ~Settled)
    /\ had' = {m \in Targets : cache[m] # NoFile}
    /\ UNCHANGED <<taken, run, pending, cache, push, orphan, agent, reader, mishaps,
                   stubbed>>

(* ProcessNow or RunOnce claims the entry, or resumes one left .taken. *)
Claim(op) ==
    /\ run = NoRun
    /\ op \in queue \cup taken
    /\ queue' = queue \ {op}
    /\ taken' = taken \cup {op}
    /\ run' = [NoRun EXCEPT !.at = "claimed", !.change = op]
    /\ UNCHANGED <<live, pending, cache, push, orphan, agent, reader, changes, mishaps,
                   overlapped, stubbed, had>>

(* distributeCache builds the work item from the document as it is now; a  *)
(* delete is one whatever is there, and without a read server or without a *)
(* document there is nothing else to distribute.                           *)
BuildItem ==
    /\ run.at = "claimed"
    /\ run' = IF Order = <<>> \/ (run.change # "delete" /\ live = Null)
                THEN [run EXCEPT !.at = "finish"]
                ELSE [run EXCEPT !.at = "stage",
                                 !.ver = IF run.change = "delete" THEN Null ELSE live]
    /\ UNCHANGED <<live, queue, taken, pending, cache, push, orphan, agent, reader, changes,
                   mishaps, overlapped, stubbed, had>>

Target == Order[run.next]
NextTarget == [run EXCEPT !.next = @ + 1,
                          !.at = IF run.next = Len(Order) THEN "finish" ELSE "stage"]

(* Mutant: the update is pushed and only staged for a server that failed. *)
StageNothing ==
    /\ run.at = "stage"
    /\ push' = [at |-> "load", ver |-> run.ver, server |-> Target]
    /\ run' = [run EXCEPT !.at = "wait"]
    /\ UNCHANGED <<live, queue, taken, pending, cache, orphan, agent, reader, changes,
                   mishaps, overlapped, stubbed, had>>

(* The next target: WriteWorkItem, then Apply here or a push there.        *)
Stage ==
    /\ run.at = "stage"
    /\ pending' = [pending EXCEPT ![Target] = run.ver]
    /\ push' = [at |-> "load", ver |-> run.ver, server |-> Target]
    /\ run' = [run EXCEPT !.at = "wait"]
    /\ UNCHANGED <<live, queue, taken, cache, orphan, agent, reader, changes, mishaps,
                   overlapped, stubbed, had>>

PushStep ==
    /\ ApplyStep(push, push.server)
    /\ push' = Applied(push, push.server)
    /\ UNCHANGED <<live, queue, taken, run, pending, orphan, agent, reader, changes,
                   mishaps, overlapped, stubbed, had>>

(* Acknowledged: the pending file goes, whichever update it holds. *)
Acknowledged ==
    /\ run.at = "wait"
    /\ push.at = "done"
    /\ pending' = [pending EXCEPT ![Target] = NoFile]
    /\ push' = NoCall
    /\ run' = NextTarget
    /\ UNCHANGED <<live, queue, taken, cache, orphan, agent, reader, changes, mishaps,
                   overlapped, stubbed, had>>

(* The request is lost or Apply fails: the pending file stays, and the run *)
(* goes on with the next target.                                           *)
PushFails ==
    /\ run.at = "wait"
    /\ Mishap
    /\ push' = NoCall
    /\ run' = NextTarget
    /\ UNCHANGED <<live, queue, taken, pending, cache, orphan, agent, reader, changes,
                   overlapped, stubbed, had>>

(* The connection breaks while the handler is at work, which goes on. *)
ReplyLost ==
    /\ run.at = "wait"
    /\ Target # Self
    /\ push.at \in {"load", "write"}
    /\ orphan = NoCall
    /\ Mishap
    /\ orphan' = push
    /\ push' = NoCall
    /\ run' = NextTarget
    /\ UNCHANGED <<live, queue, taken, pending, cache, agent, reader, changes, overlapped,
                   stubbed, had>>

OrphanStep ==
    /\ ApplyStep(orphan, orphan.server)
    /\ LET c == Applied(orphan, orphan.server)
       IN  orphan' = IF c.at = "done" THEN NoCall ELSE c
    /\ UNCHANGED <<live, queue, taken, run, pending, push, agent, reader, changes, mishaps,
                   overlapped, stubbed, had>>

(* Pending files count as handed over: the entry is done. *)
Finish ==
    /\ run.at = "finish"
    /\ taken' = taken \ {run.change}
    /\ run' = NoRun
    /\ UNCHANGED <<live, queue, pending, cache, push, orphan, agent, reader, changes,
                   mishaps, overlapped, stubbed, had>>

(* The SOT is killed and restarted; a remote handler does not notice. *)
Crash ==
    /\ Mishap
    /\ run # NoRun
    /\ orphan' = IF push.at \in {"load", "write"} /\ push.server # Self /\ orphan = NoCall
                   THEN push ELSE orphan
    /\ push' = NoCall
    /\ run' = NoRun
    /\ reader' = [r \in Readers |-> IF reader[r].server = Self THEN NoRead ELSE reader[r]]
    /\ UNCHANGED <<live, queue, taken, pending, cache, agent, changes, overlapped, stubbed, had>>

-----------------------------------------------------------------------------
(* The cache agent of a member.                                            *)

(* A check-in lists the item (handleListPendingCacheUpdates). *)
CheckIn(m) ==
    /\ agent[m] = NoWork
    /\ pending[m] # NoFile
    /\ agent' = [agent EXCEPT ![m].at = "fetch"]
    /\ UNCHANGED <<live, queue, taken, run, pending, cache, push, orphan, reader, changes,
                   mishaps, overlapped, stubbed, had>>

(* Mutant: an item that is gone is applied like any other. *)
FetchWorkItemBlind(m) ==
    /\ agent[m].at = "fetch"
    /\ agent' = [agent EXCEPT ![m] = [at |-> "load", ver |-> pending[m]]]
    /\ UNCHANGED <<live, queue, taken, run, pending, cache, push, orphan, reader, changes,
                   mishaps, overlapped, stubbed, had>>

(* It fetches what is staged by now, perhaps nothing. *)
FetchWorkItem(m) ==
    /\ agent[m].at = "fetch"
    /\ agent' = [agent EXCEPT ![m] = IF pending[m] = NoFile THEN NoWork
                                     ELSE [at |-> "load", ver |-> pending[m]]]
    /\ UNCHANGED <<live, queue, taken, run, pending, cache, push, orphan, reader, changes,
                   mishaps, overlapped, stubbed, had>>

AgentApply(m) ==
    /\ ApplyStep(agent[m], m)
    /\ agent' = [agent EXCEPT ![m] = Applied(@, m)]
    /\ UNCHANGED <<live, queue, taken, run, pending, push, orphan, reader, changes,
                   mishaps, overlapped, stubbed, had>>

(* Mutant: completing answers and deletes nothing. *)
CompleteKeeps(m) ==
    /\ agent[m].at = "done"
    /\ agent' = [agent EXCEPT ![m] = NoWork]
    /\ UNCHANGED <<live, queue, taken, run, pending, cache, push, orphan, reader, changes,
                   mishaps, overlapped, stubbed, had>>

(* handleCompletePendingCacheUpdate deletes whatever is staged. *)
Complete(m) ==
    /\ agent[m].at = "done"
    /\ pending' = [pending EXCEPT ![m] = NoFile]
    /\ agent' = [agent EXCEPT ![m] = NoWork]
    /\ UNCHANGED <<live, queue, taken, run, cache, push, orphan, reader, changes, mishaps,
                   overlapped, stubbed, had>>

(* A call of the check-in fails, or the member is killed: the item is      *)
(* listed again by a later check-in.                                       *)
AgentFails(m) ==
    /\ agent[m] # NoWork
    /\ Mishap
    /\ agent' = [agent EXCEPT ![m] = NoWork]
    /\ UNCHANGED <<live, queue, taken, run, pending, cache, push, orphan, reader, changes,
                   overlapped, stubbed, had>>

-----------------------------------------------------------------------------
(* Reads with cacheSummaries.                                              *)

(* buildCacheSummaries and then EnsureStub find no cache file ... *)
ReadAbsent(r, m) ==
    /\ reader[r] = NoRead
    /\ cache[m] = NoFile
    /\ reader' = [reader EXCEPT ![r] = [at |-> "write", server |-> m]]
    /\ UNCHANGED <<live, queue, taken, run, pending, cache, push, orphan, agent, changes,
                   mishaps, overlapped, stubbed, had>>

(* ... and the stub is written, whatever is there by now.                  *)
EnsureStub(r) ==
    LET m == reader[r].server
    IN  /\ reader[r].at = "write"
        /\ reader' = [reader EXCEPT ![r] = NoRead]
        /\ cache' = [cache EXCEPT ![m] = Null]
        /\ stubbed' = IF cache[m] \in Versions THEN stubbed \cup {m} ELSE stubbed
        /\ UNCHANGED <<live, queue, taken, run, pending, push, orphan, agent, changes,
                       mishaps, overlapped, had>>

-----------------------------------------------------------------------------
Next ==
    \/ \E op \in Ops : Change(op) \/ Claim(op)
    \/ BuildItem
    \/ Stage
    \/ PushStep
    \/ Acknowledged
    \/ PushFails
    \/ ReplyLost
    \/ OrphanStep
    \/ Finish
    \/ Crash
    \/ \E m \in Members : CheckIn(m) \/ FetchWorkItem(m) \/ AgentApply(m)
    \/ \E m \in Members : Complete(m) \/ AgentFails(m)
    \/ \E r \in Readers : EnsureStub(r) \/ \E m \in Targets : ReadAbsent(r, m)

Spec == Init /\ [][Next]_vars

(* The scheduler runs the change agent and every member's cache agent      *)
(* again and again; handlers that were entered go on.                      *)
Fairness ==
    /\ \A op \in Ops : WF_vars(Claim(op))
    /\ WF_vars(BuildItem \/ Stage \/ PushStep \/ Acknowledged \/ Finish)
    /\ WF_vars(OrphanStep)
    /\ \A m \in Members :
          WF_vars(CheckIn(m) \/ FetchWorkItem(m) \/ AgentApply(m) \/ Complete(m))

FairSpec == Spec /\ Fairness

-----------------------------------------------------------------------------
(* Properties *)

(* A lost, repeated or late update leaves no cache behind: when all has    *)
(* been distributed, every server that had a cache file when the source    *)
(* was written holds its version, or a null revision if it is gone,        *)
(* however calls failed and runs were killed; as long as changes did not   *)
(* overlap and no late stub was put over the file.  (A local update whose  *)
(* Apply failed stays staged, and so it is not distributed.)               *)
IsolatedCachesCatchUp ==
    Settled /\ ~overlapped => \A m \in had \ stubbed : cache[m] = live

(* A staged update is given up only when its server has applied it, or has *)
(* no cache file, or holds the null stub that a read of the reference      *)
(* (EnsureStub) put there meanwhile; while changes do not overlap.         *)
PendingUntilApplied ==
    [][\A m \in Targets :
          pending[m] # NoFile /\ pending'[m] = NoFile /\ ~overlapped =>
             cache[m] \in {NoFile, Null, pending[m]}]_vars

(* Updates make no cache files: only reads of a reference do, so a member  *)
(* keeps summaries of nothing it was never asked for.                      *)
OnlyReadsCreate ==
    [][\A m \in Targets : cache[m] = NoFile /\ cache'[m] # NoFile =>
          \E r \in Readers : reader[r] = [at |-> "write", server |-> m]]_vars

(* What is staged for another server is eventually taken over. *)
CacheBacklogDrains == []<>(queue \cup taken = {} /\ \A m \in Members : pending[m] = NoFile)

-----------------------------------------------------------------------------
(* The inductive invariant behind the safety properties;                   *)
(* CacheUpdatesProofs shows it for any list of read servers and any number *)
(* of readers, changes and mishaps.                                        *)

(* A run is on behalf of a marker and at one of the read servers; the call *)
(* it waits for is for that server.                                        *)
RunInv ==
    /\ run.at = "idle" => run = NoRun
    /\ run.at # "idle" => run.change \in taken
    /\ run.at \in {"idle", "claimed"} => run.next = 1
    /\ run.at \in {"stage", "wait"} => run.next \in DOMAIN Order
    /\ run.at = "wait" => push.at # "idle" /\ push.server = Target /\ push.ver = run.ver
    /\ run.at # "wait" => push = NoCall
    /\ orphan.at # "idle" => orphan.server \in Targets
    /\ orphan.at # "done"
    /\ \A r \in Readers : reader[r].at = "write" => reader[r].server \in Targets

(* Nobody is about to write a cache file that is not there. *)
WriteInv ==
    /\ push.at = "write" => cache[push.server] # NoFile
    /\ orphan.at = "write" => cache[orphan.server] # NoFile
    /\ \A m \in Members : agent[m].at = "write" => cache[m] # NoFile
    /\ \A m \in had : cache[m] # NoFile

\* The run has staged the update for m.
Passed(m) ==
    \E i \in DOMAIN Order :
        Order[i] = m /\ (i < run.next \/ (i = run.next /\ run.at = "wait"))

\* Nothing more is owed to m.
UpToDate(m) == cache[m] = live \/ m \notin had \/ m \in stubbed

\* What an update leaves, and a stub may have replaced since.
Done(m) == UpToDate(m) /\ cache[m] \in {NoFile, Null, live}

(* While changes do not overlap, all that is in flight or staged is the    *)
(* live version; a call that is done has been heeded; and an update that a *)
(* server lacks is staged for it or will be.                               *)
Calm ==
    /\ \A op \in queue \cup taken : op = "delete" <=> live = Null
    /\ run.at \in {"stage", "wait"} => run.ver = live
    /\ run.at = "finish" => run.next = Len(Order) + 1
    /\ orphan.at # "idle" => orphan.ver = live
    /\ push.at = "done" => Done(push.server)
    /\ \A m \in Members :
          /\ agent[m].at \in {"load", "write", "done"} => agent[m].ver = live
          /\ agent[m].at = "done" => Done(m)
    /\ \A m \in Targets :
          /\ pending[m] \in {NoFile, live}
          /\ \/ UpToDate(m)
             \/ pending[m] # NoFile
             \/ queue \cup taken # {} /\ ~Passed(m)

CalmInv == ~overlapped => Calm

IInv == TypeOK /\ RunInv /\ WriteInv /\ CalmInv

=============================================================================

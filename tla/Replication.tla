---------------------------- MODULE Replication -----------------------------
(***************************************************************************)
(* How one document travels from its source-of-truth server (SOT) to its   *)
(* read and proxy members: the one-time push of every committed write, the *)
(* .pendingWrites entry staged when a member does not acknowledge, the     *)
(* member's Applier, and the catch-up agent that lists, fetches, applies   *)
(* and completes staged entries.                                           *)
(*                                                                         *)
(* The SOT's own write is one step here (DocStore shows that it may be     *)
(* seen that way); a document is its "#" version, 0 for absent, and a work *)
(* item is its command and the version (for a delete: the operation id) it *)
(* carries.  A member runs Apply once per push request and once per        *)
(* catch-up item, concurrently and without a lock.                         *)
(***************************************************************************)
EXTENDS Naturals, FiniteSets

CONSTANTS
    Members,     \* read and proxy members the shard map assigns to the slot
    StaleAfter,  \* readMemberFailedCheckinsBeforeStale
    MaxWrites,   \* bound: writes the SOT commits
    MaxMishaps   \* bound: process kills and I/O errors together

ASSUME ReplicationAssumption ==
    /\ StaleAfter \in Nat \ {0}
    /\ MaxWrites \in Nat
    /\ MaxMishaps \in Nat

VARIABLES
    sot,      \* version of the document on the SOT
    writes,   \* how many writes the SOT has committed; also numbers them
    pushes,   \* push requests: what, to whom, how far, and is the SOT waiting
    pending,  \* per member: the item in its .pendingWrites file, or NoItem
    mdoc,     \* per member: version at the live path
    mprev,    \* per member: version at the preserved path
    catchup,  \* per member: the catch-up agent's item and how far it is
    failed,   \* per member: consecutive failed check-ins (failedCheckins)
    stale,    \* per member: refuses every read of this SOT's slots (staleSOT)
    flagged,  \* per member: refuses reads of this document (pendingDocs)
    mishaps,  \* kills and I/O errors so far
    isolated  \* history: no write began before the last was settled everywhere,
              \* and the SOT never forgot to stage an unacknowledged one

sotVars == <<sot, writes>>
storeVars == <<mdoc, mprev>>
readStateVars == <<failed, stale, flagged>>
vars == <<sot, writes, pushes, pending, mdoc, mprev, catchup, failed, stale,
          flagged, mishaps, isolated>>

NoDoc == 0
Versions == 0..MaxWrites
Ops == {"create", "patch", "delete"}
Item == [op : Ops, id : Versions]
NoItem == [op |-> "none", id |-> 0]
Result(i) == IF i.op = "delete" THEN NoDoc ELSE i.id

\* Where an Apply call is: "read" until its first read of the document, which
\* for a push includes the way there.  Its outcome is applied or an error.
ApplySteps == {"read", "preserve", "write", "verify", "remove"}
Outcomes == {"yes", "no"}
PushSteps == ApplySteps \cup Outcomes
CatchupSteps == {"idle", "listed"} \cup ApplySteps \cup Outcomes
Push == [item : Item, to : Members, at : PushSteps, waiting : BOOLEAN]

(* Type correctness. *)
TypeOK ==
    /\ sot \in Versions
    /\ writes \in Versions
    /\ pushes \subseteq Push
    /\ pending \in [Members -> Item \cup {NoItem}]
    /\ mdoc \in [Members -> Versions]
    /\ mprev \in [Members -> Versions]
    /\ catchup \in [Members -> [item : Item \cup {NoItem}, at : CatchupSteps]]
    /\ failed \in [Members -> 0..StaleAfter]
    /\ stale \in [Members -> BOOLEAN]
    /\ flagged \in [Members -> BOOLEAN]
    /\ mishaps \in Nat
    /\ isolated \in BOOLEAN

Idle == [item |-> NoItem, at |-> "idle"]

Init ==
    /\ sot = NoDoc
    /\ writes = 0
    /\ pushes = {}
    /\ pending = [m \in Members |-> NoItem]
    /\ mdoc = [m \in Members |-> NoDoc]
    /\ mprev = [m \in Members |-> NoDoc]
    /\ catchup = [m \in Members |-> Idle]
    /\ failed = [m \in Members |-> 0]
    /\ stale = [m \in Members |-> FALSE]
    /\ flagged = [m \in Members |-> FALSE]
    /\ mishaps = 0
    /\ isolated = TRUE

(* Nothing about the document is on its way to m or staged for it. *)
Settled(m) ==
    /\ \A p \in pushes : p.to # m
    /\ pending[m] = NoItem
    /\ catchup[m] = Idle

-----------------------------------------------------------------------------
(* The SOT: commit, push, stage.                                           *)

(* A write the engine admitted and committed; deliverOnce then starts one  *)
(* push goroutine per target (ReplicateDocumentWrite).  The engine's mutex *)
(* is free again by then, so a later write may overtake the pushes.        *)
Write(op) ==
    /\ writes < MaxWrites
    /\ op = "create" <=> sot = NoDoc
    /\ LET item == [op |-> op, id |-> writes + 1] IN
       /\ sot' = Result(item)
       /\ pushes' = pushes \cup
            {[item |-> item, to |-> m, at |-> "read", waiting |-> TRUE] : m \in Members}
    /\ writes' = writes + 1
    /\ isolated' = (isolated /\ \A m \in Members : Settled(m))
    /\ UNCHANGED <<pending, storeVars, catchup, readStateVars, mishaps>>

\* The push p is done with, or goes on without the SOT waiting for it.
Released(p) == IF p.at \in Outcomes THEN {} ELSE {[p EXCEPT !.waiting = FALSE]}

\* The push p is at another step; nobody remembers how it ended unless the
\* SOT waits for it.
Moved(p, at) == IF at \in Outcomes /\ ~p.waiting THEN {} ELSE {[p EXCEPT !.at = at]}

(* pushOne saw {"ok":true,"applied":true} in time. *)
PushAcknowledged(p) ==
    /\ p.waiting /\ p.at = "yes"
    /\ pushes' = pushes \ {p}
    /\ UNCHANGED <<sotVars, pending, storeVars, catchup, readStateVars, mishaps, isolated>>

(* pushOne failed: no token, no connection, a refusal, an unreadable reply *)
(* or the 10 s timeout, which does not recall the request.  The target's   *)
(* one .pendingWrites file for the document is replaced.                   *)

(* Mutant: the request body, not the item in it, is staged. *)
PushFailedStagesRequest(p) ==
    /\ p.waiting
    /\ pending' = [pending EXCEPT ![p.to] = p]
    /\ pushes' = (pushes \ {p}) \cup Released(p)
    /\ UNCHANGED <<sotVars, storeVars, catchup, readStateVars, mishaps, isolated>>

PushFailed(p) ==
    /\ p.waiting
    /\ pending' = [pending EXCEPT ![p.to] = p.item]
    /\ pushes' = (pushes \ {p}) \cup Released(p)
    /\ UNCHANGED <<sotVars, storeVars, catchup, readStateVars, mishaps, isolated>>

(* As PushFailed, but writing the entry fails and the error is ignored. *)
StagingFailed(p) ==
    /\ p.waiting
    /\ mishaps < MaxMishaps
    /\ mishaps' = mishaps + 1
    /\ pushes' = (pushes \ {p}) \cup Released(p)
    /\ isolated' = FALSE
    /\ UNCHANGED <<sotVars, pending, storeVars, catchup, readStateVars>>

(* The network loses a request or a reply; to the SOT, no good reply. *)
Lose(p) ==
    /\ p.at \in {"read", "yes"}
    /\ pushes' = (pushes \ {p}) \cup Moved(p, "no")
    /\ UNCHANGED <<sotVars, pending, storeVars, catchup, readStateVars, mishaps, isolated>>

(* The SOT is killed: requests in progress are forgotten by it, their      *)
(* entries never staged.  Nothing records them (Begin is never called, so  *)
(* ResumeIncomplete finds no operation at startup).                        *)
SOTCrash ==
    /\ mishaps < MaxMishaps
    /\ mishaps' = mishaps + 1
    /\ pushes' = UNION {Released(p) : p \in pushes}
    /\ isolated' = (isolated /\ \A p \in pushes : ~p.waiting)
    /\ UNCHANGED <<sotVars, pending, storeVars, catchup, readStateVars>>

-----------------------------------------------------------------------------
(* A member: Applier.Apply, shared by pushes and catch-up.                 *)

(* What Apply decides from its first read of the live document. *)
Decide(m, i) ==
    CASE i.op = "create" /\ mdoc[m] = NoDoc -> "write"
      [] i.op = "patch" /\ mdoc[m] \notin {NoDoc, i.id} -> "preserve"
      [] i.op = "delete" /\ mdoc[m] # NoDoc -> "remove"
      [] i.op # "delete" /\ mdoc[m] = i.id -> "yes"
      [] i.op = "delete" /\ mdoc[m] = NoDoc -> "yes"
      [] OTHER -> "no"        \* create conflict; patch of a missing document

SetDoc(m, v) == mdoc' = [mdoc EXCEPT ![m] = v]
KeepOldest(m) == mprev' = [mprev EXCEPT ![m] = IF @ = NoDoc THEN mdoc[m] ELSE @]

(* One step of Apply for item i on member m, from step at to step next:    *)
(* the read; PreservePreviousIfAbsent; the rename of WriteFileAtomic;      *)
(* the re-read of WriteDocumentJSONVerified; SoftDeleteDocument.           *)
ApplyStep(m, i, at, next) ==
    \/ /\ at = "read"
       /\ next = Decide(m, i)
       /\ UNCHANGED <<storeVars, mishaps>>
    \/ /\ at = "preserve"
       /\ mprev[m] # NoDoc \/ mdoc[m] # NoDoc
       /\ next = "write"
       /\ KeepOldest(m)
       /\ SetDoc(m, IF mprev[m] = NoDoc THEN NoDoc ELSE mdoc[m])
       /\ UNCHANGED mishaps
    \/ /\ at = "preserve"
       /\ mprev[m] = NoDoc /\ mdoc[m] = NoDoc
       /\ next = "no"
       /\ UNCHANGED <<storeVars, mishaps>>
    \/ /\ at = "write"
       /\ next = "verify"
       /\ SetDoc(m, i.id)
       /\ UNCHANGED <<mprev, mishaps>>
    \/ /\ at = "verify"
       /\ next = IF mdoc[m] = i.id THEN "yes" ELSE "no"
       /\ UNCHANGED <<storeVars, mishaps>>
    \/ /\ at = "remove"
       /\ next = IF mdoc[m] = NoDoc THEN "no" ELSE "yes"
       /\ KeepOldest(m)
       /\ SetDoc(m, NoDoc)
       /\ UNCHANGED mishaps
    \/ /\ at \in {"preserve", "write", "remove"}      \* an I/O error
       /\ mishaps < MaxMishaps
       /\ mishaps' = mishaps + 1
       /\ next = "no"
       /\ UNCHANGED storeVars

(* handleApplyDocumentWrite runs Apply, whether or not the SOT still waits.*)
PushApply(p) ==
    \E next \in ApplySteps \cup Outcomes :
        /\ ApplyStep(p.to, p.item, p.at, next)
        /\ pushes' = (pushes \ {p}) \cup Moved(p, next)
        /\ UNCHANGED <<sotVars, pending, catchup, readStateVars, isolated>>

-----------------------------------------------------------------------------
(* A member: the catch-up loop's CheckIn.                                  *)

(* The listing fails: one more failed check-in, and too old to read from   *)
(* once there were StaleAfter in a row.  (The count stops at StaleAfter.)  *)
CheckInFails(m) ==
    /\ catchup[m].at = "idle"
    /\ failed' = [failed EXCEPT ![m] = IF @ < StaleAfter THEN @ + 1 ELSE @]
    /\ stale' = [stale EXCEPT ![m] = @ \/ failed'[m] >= StaleAfter]
    /\ UNCHANGED <<sotVars, pushes, pending, storeVars, catchup, flagged, mishaps, isolated>>

(* The listing succeeds, which already makes the member fresh again. *)
CheckIn(m) ==
    /\ catchup[m].at = "idle"
    /\ failed' = [failed EXCEPT ![m] = 0]
    /\ stale' = [stale EXCEPT ![m] = FALSE]
    /\ catchup' = IF pending[m] = NoItem THEN catchup
                                         ELSE [catchup EXCEPT ![m].at = "listed"]
    /\ UNCHANGED <<sotVars, pushes, pending, storeVars, flagged, mishaps, isolated>>

(* fetchWorkItem returns whatever the entry holds by now. *)
Fetch(m) ==
    /\ catchup[m].at = "listed"
    /\ pending[m] # NoItem
    /\ catchup' = [catchup EXCEPT ![m] = [item |-> pending[m], at |-> "read"]]
    /\ flagged' = [flagged EXCEPT ![m] = TRUE]
    /\ UNCHANGED <<sotVars, pushes, pending, storeVars, failed, stale, mishaps, isolated>>

(* The fetch fails, or finds that the entry is gone. *)
FetchFails(m) ==
    /\ catchup[m].at = "listed"
    /\ catchup' = [catchup EXCEPT ![m] = Idle]
    /\ UNCHANGED <<sotVars, pushes, pending, storeVars, readStateVars, mishaps, isolated>>

CatchupApply(m) ==
    \E next \in ApplySteps \cup Outcomes :
        /\ ApplyStep(m, catchup[m].item, catchup[m].at, next)
        /\ catchup' = [catchup EXCEPT ![m].at = next]
        /\ UNCHANGED <<sotVars, pushes, pending, readStateVars, isolated>>

\* applyOne returns; its deferred ClearPending runs whatever the outcome.
EndItem(m) ==
    /\ catchup' = [catchup EXCEPT ![m] = Idle]
    /\ flagged' = [flagged EXCEPT ![m] = FALSE]

(* Mutant: the entry is removed although Apply returned an error. *)
CompleteAlways(m) ==
    /\ catchup[m].at \in Outcomes
    /\ pending' = [pending EXCEPT ![m] = NoItem]
    /\ EndItem(m)
    /\ UNCHANGED <<sotVars, pushes, storeVars, failed, stale, mishaps, isolated>>

(* Mutant: the member applies the entry but never has it removed. *)
CompleteKeepsEntry(m) ==
    /\ catchup[m].at = "yes"
    /\ EndItem(m)
    /\ UNCHANGED <<sotVars, pushes, pending, storeVars, failed, stale, mishaps, isolated>>

(* completeWorkItem: the SOT removes the entry, whichever item it holds.   *)
Complete(m) ==
    /\ catchup[m].at = "yes"
    /\ pending' = [pending EXCEPT ![m] = NoItem]
    /\ EndItem(m)
    /\ UNCHANGED <<sotVars, pushes, storeVars, failed, stale, mishaps, isolated>>

(* Apply returned an error, or the completion did not reach the SOT: the   *)
(* entry stays for the next check-in.                                      *)
GiveUp(m) ==
    /\ catchup[m].at \in Outcomes
    /\ EndItem(m)
    /\ UNCHANGED <<sotVars, pushes, pending, storeVars, failed, stale, mishaps, isolated>>

(* A member is killed and restarted: Apply calls end where they are, the   *)
(* read state (memory only) starts afresh.                                 *)
MemberCrash(m) ==
    /\ mishaps < MaxMishaps
    /\ mishaps' = mishaps + 1
    /\ LET dead == {p \in pushes : p.to = m /\ p.at \in ApplySteps \ {"read"}}
       IN  pushes' = (pushes \ dead) \cup UNION {Moved(p, "no") : p \in dead}
    /\ catchup' = [catchup EXCEPT ![m] = Idle]
    /\ failed' = [failed EXCEPT ![m] = 0]
    /\ stale' = [stale EXCEPT ![m] = FALSE]
    /\ flagged' = [flagged EXCEPT ![m] = FALSE]
    /\ UNCHANGED <<sotVars, pending, storeVars, isolated>>

-----------------------------------------------------------------------------
PushStep(p) ==
    \/ PushAcknowledged(p)
    \/ PushFailed(p)
    \/ StagingFailed(p)
    \/ Lose(p)
    \/ PushApply(p)

CatchupStep(m) ==
    \/ CheckInFails(m)
    \/ CheckIn(m)
    \/ Fetch(m)
    \/ FetchFails(m)
    \/ CatchupApply(m)
    \/ Complete(m)
    \/ GiveUp(m)

Next ==
    \/ \E op \in Ops : Write(op)
    \/ \E p \in pushes : PushStep(p)
    \/ \E m \in Members : CatchupStep(m) \/ MemberCrash(m)
    \/ SOTCrash

Spec == Init /\ [][Next]_vars

(* The catch-up loop runs on a ticker for as long as the process lives, so *)
(* it keeps checking in; a network that is not cut for good lets a listing,*)
(* a fetch and a completion through again and again.  Writers owe nothing. *)
Fairness ==
    \A m \in Members :
        /\ WF_vars(CheckIn(m))
        /\ SF_vars(Fetch(m))
        /\ WF_vars(CatchupApply(m))
        /\ WF_vars(GiveUp(m))
        /\ SF_vars(Complete(m))

FairSpec == Spec /\ Fairness

-----------------------------------------------------------------------------
(* Properties *)

(* When every write is settled on every member before the next begins, a   *)
(* settled member holds what the SOT holds: lost requests and replies,     *)
(* timeouts whose request lands later, an entry applied twice and both at  *)
(* once, member kills and I/O errors do not lose or corrupt the write.     *)
IsolatedWritesConverge ==
    isolated => \A m \in Members : Settled(m) => mdoc[m] = sot

(* An entry the member can never apply in its present state. *)
Refused(m) == pending[m] # NoItem /\ Decide(m, pending[m]) = "no"

(* The backlog drains: again and again a member has no staged entry, or    *)
(* one that its Applier refuses (REPLICATION-FAILURE-HANDLING.md gives the *)
(* member, not the SOT, the duty to catch up).                             *)
BacklogDrains == \A m \in Members : []<>(pending[m] = NoItem \/ Refused(m))

(* The members as followers of the SOT: a patch leaves a moment in which a *)
(* member has no document.                                                 *)
F == INSTANCE Followers WITH
        Copies <- Members, Values <- Versions, Between <- {NoDoc},
        source <- [m \in Members |-> sot], copy <- mdoc, calm <- isolated

(* Replication implements Followers: while writes do not overlap, a push   *)
(* and a catch-up item applied at once, an item applied again, a request   *)
(* that lands late, a member's kill and its retry never bring a document   *)
(* back that was replaced, nor take away the one the member already has.   *)
RefinesFollowers == F!Spec

(* docs/consistency.md: "unread members catch up asynchronously".  With no *)
(* kill and no I/O error, a member for which nothing is on its way and     *)
(* nothing is staged holds the SOT's version.                              *)
MembersCatchUp ==
    mishaps = 0 =>
        \A m \in Members : Settled(m) => mdoc[m] = sot

-----------------------------------------------------------------------------
(* The inductive invariant behind IsolatedWritesConverge;                  *)
(* ReplicationProofs shows it for any number of members, writes and        *)
(* mishaps.                                                                *)

\* Steps at which the catch-up agent has an item in hand.
InHand == ApplySteps \cup Outcomes

(* What is known of an Apply call for item i on member m that is at a      *)
(* given step: its command led it there, a patch that goes on to write has *)
(* a previous document to fall back on, and one that says yes is right.    *)
ApplyInv(m, i, at) ==
    /\ at = "preserve" => i.op = "patch"
    /\ at \in {"write", "verify"} => i.op # "delete"
    /\ at = "remove" => i.op = "delete"
    /\ at = "write" /\ i.op = "patch" => mprev[m] # NoDoc
    /\ at = "yes" => mdoc[m] = sot

(* Somebody is still responsible for bringing the last write to m. *)
Owed(m) == pending[m] # NoItem \/ \E p \in pushes : p.to = m /\ p.waiting

(* Everything about the document that is on its way or staged is cur, the  *)
(* last write; a member without it is owed it; and a member that has a     *)
(* patch has also preserved what the patch replaced, so that a second      *)
(* Apply of the same patch does not take the new document for the old.     *)
OnlyWriteIs(cur) ==
    /\ cur.id = writes
    /\ Result(cur) = sot
    /\ \A p \in pushes : p.item = cur /\ ApplyInv(p.to, cur, p.at)
    /\ \A m \in Members :
          /\ pending[m] \in {NoItem, cur}
          /\ catchup[m].at \in InHand =>
                /\ cur # NoItem
                /\ catchup[m].item = cur
                /\ ApplyInv(m, cur, catchup[m].at)
          /\ mdoc[m] # sot => Owed(m)
          /\ cur.op = "patch" /\ mdoc[m] = cur.id => mprev[m] # NoDoc

IInv ==
    /\ TypeOK
    /\ sot <= writes
    /\ isolated => \E cur \in Item \cup {NoItem} : OnlyWriteIs(cur)

=============================================================================

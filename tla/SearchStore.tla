---------------------------- MODULE SearchStore -----------------------------
(***************************************************************************)
(* The stored result file of one search bucket, on the bucket's SOT and on *)
(* its read members, and the runs of the change agent that keep it.  A run *)
(* applies a document's mutation on this server and then sends it to every *)
(* other target; each of them calls ApplyMutation, an unlocked read-modify-*)
(* write that re-reads the file to verify its own version.                 *)
(*                                                                         *)
(* The agent lets one run at a time work on a document, but runs for       *)
(* different documents (ProcessNow in each request, RunOnce in the         *)
(* background) share the file, and a handler whose client has gone away    *)
(* goes on.  Which bucket a document is in is the matter of ChangeAgent;   *)
(* here a document has sort values in the one bucket, or is not in it.     *)
(***************************************************************************)
EXTENDS Integers, FiniteSets, Sequences, SequencesExt

CONSTANTS
    Docs,         \* documents of the collection
    Elsewhere,    \* those that are there from the start, outside the bucket
    Self,         \* the server the agent runs on, itself a target
    Remotes,      \* the other targets of the search shard
    Known,        \* known sort values, integers
    Gone,         \* of a document: not in the bucket, or no document
    Missing,      \* of a document: the sort field is absent
    Null,         \* of a document: the sort field is null
    Descending,   \* the sort's direction
    MaxAttempts,  \* maxAttempts of ApplyMutation
    MaxChanges,   \* bound: changes of documents
    MaxMishaps    \* bound: failed calls and lost replies together

ASSUME SearchStoreAssumption ==
    /\ IsFiniteSet(Docs) /\ Elsewhere \subseteq Docs
    /\ Known \subseteq Int
    /\ Known \cap {Gone, Missing, Null} = {}
    /\ Gone # Missing /\ Gone # Null /\ Missing # Null
    /\ Self \notin Remotes
    /\ Descending \in BOOLEAN
    /\ MaxAttempts \in Nat \ {0}
    /\ MaxChanges \in Nat
    /\ MaxMishaps \in Nat

VARIABLES
    doc,       \* per document: the sort value of its committed state, or Gone
    outside,   \* documents that exist and are not in the bucket
    prev,      \* per document: the preserved previous document: none, one that is
               \* in the bucket, or one that is not
    queued,    \* documents with a queue entry (.queue or .taken)
    run,       \* per document: the agent's run
    file,      \* per server: the result file
    calls,     \* per document and server: the ApplyMutation of the present run
    orphan,    \* an ApplyMutation whose client no longer waits, or none
    changes,   \* changes so far
    mishaps,   \* failures so far
    lost,      \* history: documents out of the bucket whose listed state no run
               \* has found preserved
    harmed     \* history: servers where a finished mutation was undone unseen, or
               \* a handler without a client wrote values the document has not any more

vars == <<doc, outside, prev, queued, run, file, calls, orphan, changes, mishaps, lost, harmed>>

Servers == Remotes \cup {Self}
SortValues == Known \cup {Missing, Null}
Idle == "idle"

(* matches.json.  Its "#" is the call that wrote it: versions are only     *)
(* ever compared by the call that made them.                               *)
Item == [id : Docs, sort : Known \cup {Null}]
Items == UNION {[1..n -> Item] : n \in 0..Cardinality(Docs)}
Tokens == {"live", "orphan"}
ResultFile == [ver : {<<>>} \cup (Docs \X Tokens), items : Items]
NoFile == [ver |-> <<>>, items |-> <<>>]

(* One ApplyMutation: what it is to do and how far it is. *)
Call(d, s, v) == [at |-> "load", id |-> d, server |-> s, sort |-> v,
                  copy |-> NoFile, tries |-> 0, token |-> "live"]
NoCall == [at |-> Idle]
CallState == [at : {"load", "write", "verify", "ok", "error"}, id : Docs, server : Servers,
              sort : SortValues \cup {Gone}, copy : ResultFile, tries : 0..MaxAttempts,
              token : Tokens]
NoRun == [at |-> Idle]
RunState == [at : {"local", "remote", "skip"}, sort : SortValues \cup {Gone}]
IsRunning(c) == c.at \in {"load", "write", "verify"}

(* Type correctness: in particular a result file lists a document at most  *)
(* as often as there are documents and no missing value is ever stored.    *)
TypeOK ==
    /\ doc \in [Docs -> SortValues \cup {Gone}]
    /\ outside \subseteq Docs
    /\ prev \in [Docs -> {"none", "in", "out"}]
    /\ queued \subseteq Docs
    /\ run \in [Docs -> RunState \cup {NoRun}]
    /\ file \in [Servers -> ResultFile]
    /\ calls \in [Docs -> [Servers -> CallState \cup {NoCall}]]
    /\ orphan \in CallState \cup {NoCall}
    /\ changes \in 0..MaxChanges
    /\ mishaps \in 0..MaxMishaps
    /\ lost \subseteq Docs
    /\ harmed \subseteq Servers

Init ==
    /\ doc = [d \in Docs |-> Gone]
    /\ outside = Elsewhere
    /\ prev = [d \in Docs |-> "none"]
    /\ queued = {}
    /\ run = [d \in Docs |-> NoRun]
    /\ file = [s \in Servers |-> NoFile]
    /\ calls = [d \in Docs |-> [s \in Servers |-> NoCall]]
    /\ orphan = NoCall
    /\ changes = 0
    /\ mishaps = 0
    /\ lost = {}
    /\ harmed = {}

-----------------------------------------------------------------------------
(* Sort values.                                                            *)

(* Mutant: missing is stored as such. *)
SortValuesToJSONRaw(v) == v

(* SortValuesToJSON: null and missing are both stored as null. *)
SortValuesToJSON(v) == IF v \in Known THEN v ELSE Null

(* What another server makes of the values it is sent: never missing. *)
SortValuesFromJSON(v) == IF v \in Known THEN v ELSE Null

(* What it therefore is to make of a document with value v. *)
Sent(v) == IF v = Gone THEN Gone ELSE SortValuesFromJSON(SortValuesToJSON(v))

Rank(v) == CASE v = Missing -> 2 [] v = Null -> 1 [] OTHER -> 0

(* Mutant: the direction also turns null around. *)
CompareStoredSortNulls(v, stored) ==
    LET cmp == IF Rank(v) # Rank(stored) THEN Rank(v) - Rank(stored)
               ELSE IF Rank(v) # 0 THEN 0 ELSE v - stored
    IN  IF Descending THEN -cmp ELSE cmp

(* A candidate against a stored value; a stored null ranks as null.        *)
CompareStoredSort(v, stored) ==
    IF Rank(v) # Rank(stored) THEN Rank(v) - Rank(stored)
    ELSE IF Rank(v) # 0 THEN 0
    ELSE IF Descending THEN stored - v ELSE v - stored

Listed(items, d) == {i \in DOMAIN items : items[i].id = d}

(* ResultFile.Remove takes the first entry with the id out. *)
RemoveItem(items, d) ==
    IF Listed(items, d) = {} THEN items
    ELSE RemoveAt(items, CHOOSE i \in Listed(items, d) :
                            \A j \in Listed(items, d) : i <= j)

(* Upsert: no change when the entry has these values; otherwise before the *)
(* first entry that sorts after it.                                        *)
Upsert(items, d, v) ==
    IF \E i \in Listed(items, d) : items[i].sort = SortValuesToJSON(v) THEN items
    ELSE LET rest  == RemoveItem(items, d)
             after == {i \in DOMAIN rest : CompareStoredSort(v, rest[i].sort) < 0}
             at    == IF after = {} THEN Len(rest) + 1
                      ELSE CHOOSE i \in after : \A j \in after : i <= j
         IN  InsertAt(rest, at, [id |-> d, sort |-> SortValuesToJSON(v)])

Mutate(items, c) ==
    IF c.sort = Gone THEN RemoveItem(items, c.id) ELSE Upsert(items, c.id, c.sort)

-----------------------------------------------------------------------------
(* ApplyMutation, one file operation of call c at a time.                  *)

Token(c) == <<c.id, c.token>>

(* Mutant: the entry is written again when it is there already. *)
LoadStepAlways(c) == [c EXCEPT !.at = "write", !.copy = file[c.server]]

(* LoadResultFile and the mutation: nothing to change ends the call. *)
LoadStep(c) ==
    IF Mutate(file[c.server].items, c) = file[c.server].items
      THEN [c EXCEPT !.at = "ok", !.copy = NoFile]
      ELSE [c EXCEPT !.at = "write", !.copy = file[c.server]]

(* Mutant: what was written is taken to be there. *)
VerifyStepBlind(c) == [c EXCEPT !.at = "ok", !.copy = NoFile]

(* The re-read: another version there means the race was lost. *)
VerifyStep(c) ==
    IF file[c.server].ver = Token(c) THEN [c EXCEPT !.at = "ok", !.copy = NoFile]
    ELSE IF c.tries + 1 < MaxAttempts
      THEN [c EXCEPT !.at = "load", !.copy = NoFile, !.tries = @ + 1]
      ELSE [c EXCEPT !.at = "error", !.copy = NoFile]

(* The write of call c undoes another document's mutation that it has not  *)
(* seen, and no run for that document is about to verify and repeat it.    *)
Sorts(items, d) == {items[i].sort : i \in Listed(items, d)}
Undoes(c) ==
    \E d \in Docs \ {c.id} :
        /\ Sorts(file[c.server].items, d) # Sorts(c.copy.items, d)
        /\ calls[d][c.server].at # "verify"

(* WriteResultFile: the whole file as loaded, mutated, with a new version. *)
WriteFile(c) ==
    LET s == c.server
    IN  /\ file' = [file EXCEPT ![s] = [ver   |-> Token(c),
                                        items |-> Mutate(c.copy.items, c)]]
        /\ harmed' = IF \/ Undoes(c)
                        \/ c.token = "orphan" /\ Sent(doc[c.id]) # c.sort
                       THEN harmed \cup {s} ELSE harmed

Advanced(c) ==
    CASE c.at = "load"   -> LoadStep(c)
      [] c.at = "write"  -> [c EXCEPT !.at = "verify"]
      [] c.at = "verify" -> VerifyStep(c)

ApplyMutation(c) ==
    /\ IsRunning(c)
    /\ IF c.at = "write" THEN WriteFile(c) ELSE UNCHANGED <<file, harmed>>

-----------------------------------------------------------------------------
(* The agent.                                                              *)

\* What a write preserves of the document it replaces; create replaces none.
Replaced(d) == IF doc[d] # Gone THEN "in" ELSE IF d \in outside THEN "out" ELSE "none"

(* A write of the document is committed and enqueued.  One that takes the  *)
(* document out of the bucket moves or deletes it.  What it replaces is    *)
(* preserved if nothing is preserved yet.                                  *)
Change(d) ==
    /\ changes < MaxChanges
    /\ changes' = changes + 1
    /\ \E v \in (SortValues \cup {Gone}) \ {doc[d]} :
          /\ doc' = [doc EXCEPT ![d] = v]
          /\ \/ outside' = outside \ {d}
             \/ v = Gone /\ outside' = outside \cup {d}
          /\ lost' = IF v = Gone /\ prev[d] = "out" THEN lost \cup {d} ELSE lost
    /\ prev' = [prev EXCEPT ![d] = IF @ = "none" THEN Replaced(d) ELSE @]
    /\ queued' = queued \cup {d}
    /\ UNCHANGED <<run, file, calls, orphan, mishaps, harmed>>

(* distributeSearch and the local part of ShardRouter.deliver: this server's *)
(* own file first.  A document is put into the bucket it is in, and taken    *)
(* out of the bucket that the preserved previous document was in.            *)
Begin(d) ==
    /\ d \in queued
    /\ run[d] = NoRun
    /\ doc[d] # Gone \/ prev[d] = "in"
    /\ queued' = queued \ {d}
    /\ run' = [run EXCEPT ![d] = [at |-> "local", sort |-> doc[d]]]
    /\ calls' = [calls EXCEPT ![d][Self] = Call(d, Self, doc[d])]
    /\ lost' = lost \ {d}
    /\ UNCHANGED <<doc, outside, prev, file, orphan, changes, mishaps, harmed>>

(* Neither document is in the bucket: the run has nothing to do for it. *)
BeginNothing(d) ==
    /\ d \in queued
    /\ run[d] = NoRun
    /\ doc[d] = Gone /\ prev[d] # "in"
    /\ queued' = queued \ {d}
    /\ run' = [run EXCEPT ![d] = [at |-> "skip", sort |-> Gone]]
    /\ UNCHANGED <<doc, outside, prev, file, calls, orphan, changes, mishaps, lost, harmed>>

(* ... then every other target at once, each over HTTP. *)
FanOut(d) ==
    /\ run[d].at = "local"
    /\ calls[d][Self].at = "ok"
    /\ run' = [run EXCEPT ![d].at = "remote"]
    /\ calls' = [calls EXCEPT ![d] = [s \in Servers |->
                   IF s = Self THEN NoCall ELSE Call(d, s, Sent(run[d].sort))]]
    /\ UNCHANGED <<doc, outside, prev, lost, queued, file, orphan, changes, mishaps, harmed>>

Step(d, s) ==
    /\ ApplyMutation(calls[d][s])
    /\ calls' = [calls EXCEPT ![d][s] = Advanced(@)]
    /\ UNCHANGED <<doc, outside, prev, lost, queued, run, orphan, changes, mishaps>>

(* A file operation fails, or the request never reaches its target. *)
CallFails(d, s) ==
    /\ IsRunning(calls[d][s])
    /\ mishaps < MaxMishaps
    /\ mishaps' = mishaps + 1
    /\ calls' = [calls EXCEPT ![d][s] = [@ EXCEPT !.at = "error", !.copy = NoFile]]
    /\ UNCHANGED <<doc, outside, prev, lost, queued, run, file, orphan, changes, harmed>>

(* The connection breaks: an error for the client, while the handler goes on. *)
ReplyLost(d, s) ==
    /\ s \in Remotes
    /\ IsRunning(calls[d][s])
    /\ orphan = NoCall
    /\ mishaps < MaxMishaps
    /\ mishaps' = mishaps + 1
    /\ orphan' = [calls[d][s] EXCEPT !.token = "orphan"]
    /\ file' = IF calls[d][s].at = "verify" /\ file[s].ver = Token(calls[d][s])
                 THEN [file EXCEPT ![s].ver = <<d, "orphan">>] ELSE file
    /\ calls' = [calls EXCEPT ![d][s] = [@ EXCEPT !.at = "error", !.copy = NoFile]]
    /\ UNCHANGED <<doc, outside, prev, lost, queued, run, changes, harmed>>

OrphanStep ==
    /\ orphan # NoCall
    /\ \/ ApplyMutation(orphan) /\ orphan' = Advanced(orphan)
       \/ ~IsRunning(orphan) /\ orphan' = NoCall /\ UNCHANGED <<file, harmed>>
    /\ UNCHANGED <<doc, outside, prev, lost, queued, run, calls, changes, mishaps>>

RunCalls(d) == {s \in Servers : calls[d][s] # NoCall}

(* The run ends when the local call failed or all the others have answered. *)
(* Any error leaves the entry .taken, and the previous document, for        *)
(* another run; otherwise the previous document is removed, also one that   *)
(* was preserved after the run had read them.                               *)
End(d) ==
    /\ run[d] # NoRun
    /\ \A s \in RunCalls(d) : ~IsRunning(calls[d][s])
    /\ run[d].at \in {"remote", "skip"} \/ calls[d][Self].at = "error"
    /\ run' = [run EXCEPT ![d] = NoRun]
    /\ calls' = [calls EXCEPT ![d] = [s \in Servers |-> NoCall]]
    /\ IF \E s \in RunCalls(d) : calls[d][s].at = "error"
         THEN queued' = queued \cup {d} /\ UNCHANGED <<prev, lost>>
         ELSE /\ prev' = [prev EXCEPT ![d] = "none"]
              /\ lost' = IF d \in queued /\ doc[d] = Gone /\ prev[d] = "in"
                         THEN lost \cup {d} ELSE lost
              /\ UNCHANGED queued
    /\ UNCHANGED <<doc, outside, file, orphan, changes, mishaps, harmed>>

Next ==
    \/ \E d \in Docs :
          \/ Change(d)
          \/ Begin(d)
          \/ BeginNothing(d)
          \/ FanOut(d)
          \/ End(d)
          \/ \E s \in Servers : Step(d, s) \/ CallFails(d, s) \/ ReplyLost(d, s)
    \/ OrphanStep

Spec == Init /\ [][Next]_vars

(* The scheduler retries entries that were left; requests are served.      *)
Fairness ==
    /\ \A d \in Docs :
          /\ WF_vars(Begin(d) \/ BeginNothing(d))
          /\ WF_vars(FanOut(d))
          /\ WF_vars(End(d))
          /\ \A s \in Servers : WF_vars(Step(d, s))
    /\ WF_vars(OrphanStep)

FairSpec == Spec /\ Fairness

-----------------------------------------------------------------------------
(* Properties *)

Settled == queued = {} /\ orphan = NoCall /\ \A d \in Docs : run[d] = NoRun

(* Engine.search: the ids of the stored file, in its order. *)
Matches(s) == [i \in DOMAIN file[s].items |-> file[s].items[i].id]

\* Known values in the sort's direction, then null.
InOrder(a, b) ==
    /\ a = Null => b = Null
    /\ a \in Known /\ b \in Known => IF Descending THEN a >= b ELSE a <= b

Ordered(items) ==
    \A i, j \in DOMAIN items : i < j =>
        items[i].id # items[j].id /\ InOrder(items[i].sort, items[j].sort)

(* Search results are in order: known values in the sort's direction, then *)
(* the documents without one, on every server, whatever races were run; no *)
(* document is listed twice.  The documents without a value are not in     *)
(* order: sort.go stores a missing value as null, and a null that comes    *)
(* later is put behind it, though docs/search.md has null before missing.  *)
ResultsSorted == \A s \in Servers : Ordered(file[s].items)

(* The re-read and the retry repair a race whose loser is still at work:   *)
(* when all is distributed, every server lists the documents of the bucket *)
(* with their present values and no other, unless a mutation already       *)
(* finished was undone by a write that had not seen it, or a handler left  *)
(* behind by its client wrote out-dated values (harmed).  A document that  *)
(* has left the bucket may still be listed only if the state that was      *)
(* listed was not preserved, or was cleaned up by a run that the change    *)
(* overlapped (lost).                                                      *)
VerifiedResultsAgree ==
    Settled => \A s \in Servers \ harmed :
        /\ {d \in Docs : doc[d] # Gone} \subseteq ToSet(Matches(s))
        /\ \A i \in DOMAIN file[s].items :
              LET d == file[s].items[i].id
              IN  IF doc[d] = Gone THEN d \in lost
                  ELSE file[s].items[i].sort = SortValuesToJSON(doc[d])

(* Racing writers do not keep each other from finishing. *)
SearchDrains == []<>Settled

-----------------------------------------------------------------------------
(* The inductive invariant the proofs are about.                           *)

\* What a file is to list for a document with sort value v.
Want(v) == IF v = Gone THEN {} ELSE {SortValuesToJSON(v)}

\* Nothing more is to be done for the document on server s.
Served(d, s) ==
    \/ run[d] = NoRun
    \/ run[d].at = "remote" /\ s = Self
    \/ calls[d][s].at = "ok"

Right(s, d) == Sorts(file[s].items, d) = Want(doc[d])

(* A call at work belongs to a run, and says what the run says.            *)
CallInv ==
    /\ \A d \in Docs, s \in Servers :
          calls[d][s] # NoCall =>
              /\ run[d].at \in {"local", "remote"}
              /\ (run[d].at = "local") <=> (s = Self)
              /\ calls[d][s].id = d /\ calls[d][s].server = s
              /\ calls[d][s].token = "live"
              /\ calls[d][s].sort = IF s = Self THEN run[d].sort ELSE Sent(run[d].sort)
    /\ \A d \in Docs, s \in Servers :
          run[d].at \in {"local", "remote"} /\ ((run[d].at = "local") <=> (s = Self)) =>
              calls[d][s] # NoCall
    /\ \A d \in Docs : run[d] # NoRun /\ run[d].sort # doc[d] => d \in queued
    /\ orphan # NoCall => orphan.token = "orphan"

(* What was loaded is in order, too. *)
CopyInv ==
    /\ \A d \in Docs, s \in Servers :
          calls[d][s] # NoCall => Ordered(calls[d][s].copy.items)
    /\ orphan # NoCall => Ordered(orphan.copy.items)

(* While its own version is there, the file lists what the call wrote.     *)
VersionInv ==
    \A d \in Docs, s \in Servers :
        calls[d][s].at = "verify" /\ file[s].ver = Token(calls[d][s]) =>
            Sorts(file[s].items, d) = Want(calls[d][s].sort)

(* A document that was served, and has not changed since, is right where no *)
(* harm was done.                                                           *)
RightInv ==
    \A d \in Docs \ (queued \cup lost), s \in Servers \ harmed :
        Served(d, s) => Right(s, d)

(* A document outside the bucket, of which no state in the bucket is        *)
(* preserved, is at rest and not listed.  One that was lost and is back has *)
(* a run to come.  A run with nothing to do still has nothing to do unless  *)
(* the document is queued again.                                            *)
AbsentInv ==
    /\ \A d \in Docs \ lost :
          doc[d] = Gone /\ prev[d] # "in" =>
              /\ run[d] = NoRun \/ run[d].at = "skip"
              /\ \A s \in Servers \ harmed : Right(s, d)
    /\ \A d \in lost : doc[d] = Gone \/ d \in queued
    /\ \A d \in Docs \ queued : run[d].at = "skip" => doc[d] = Gone /\ prev[d] # "in"

IInv == TypeOK /\ ResultsSorted /\ CallInv /\ CopyInv /\ VersionInv /\ RightInv /\ AbsentInv

=============================================================================

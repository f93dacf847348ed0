------------------------- MODULE ChangeAgentProofs --------------------------
(***************************************************************************)
(* Proofs about the change agent.  First about ChangeAgent: that the index *)
(* follows the document, for any search (any set of buckets and any choice *)
(* of a bucket per version) and any number of writes and mishaps.  Then    *)
(* about Algorithms: that where the agent files a document is where a      *)
(* query looks for it, and the same of the other computations that two     *)
(* parts of the program make separately, for every input.                  *)
(***************************************************************************)
EXTENDS ChangeAgent, Algorithms, FiniteSetTheorems, SequenceTheorems,
        WellFoundedInduction, TLAPS

USE DEF NoDoc

-----------------------------------------------------------------------------
(* Type correctness *)

(* Every variable starts with its type. *)
LEMMA TypeInit == Init => TypeOK
<1> SUFFICES ASSUME Init PROVE TypeOK
  OBVIOUS
<1> USE DEF Init
<1>1. 0 \in Versions
  BY ChangeAgentAssumption DEF Versions
<1>2. writer \in [op : Ops, at : WriterSteps]
  BY DEF NoWrite, Ops, WriterSteps
<1>3. run \in [change : Ops, at : RunSteps, new : Versions, old : Versions]
  BY <1>1 DEF NoRun, Ops, RunSteps
<1> QED BY <1>1, <1>2, <1>3 DEF TypeOK

(* Every step of the engine, the agent or a kill keeps the types. *)
LEMMA TypeStep == TypeOK /\ [Next]_vars => TypeOK'
<1> SUFFICES ASSUME TypeOK, [Next]_vars PROVE TypeOK'
  OBVIOUS
<1> USE ChangeAgentAssumption
<1> USE DEF TypeOK, Versions, Ops, WriterSteps, RunSteps, NoWrite, NoRun, Begin,
            engineVars, histVars
<1>1. ASSUME NEW op \in Ops, BeginWrite(op) PROVE TypeOK'
  <2>1. writer' \in [op : Ops, at : WriterSteps]
    BY <1>1 DEF BeginWrite
  <2>2. writes' \in Versions
    BY <1>1 DEF BeginWrite
  <2>3. overlapped' \in BOOLEAN
    BY <1>1 DEF BeginWrite, Settled
  <2> QED BY <1>1, <2>1, <2>2, <2>3 DEF BeginWrite
<1>2. CASE MoveFiles
  BY <1>2 DEF MoveFiles
<1>3. CASE EnqueueChange
  BY <1>3 DEF EnqueueChange
<1>4. CASE WriteFails
  BY <1>4 DEF WriteFails
<1>5. ASSUME NEW change \in Ops, Claim(change) PROVE TypeOK'
  BY <1>5 DEF Claim
<1>6. ASSUME NEW change \in Ops, Resume(change) PROVE TypeOK'
  BY <1>6 DEF Resume
<1>7. ASSUME NEW change \in Ops, SkipListed(change) PROVE TypeOK'
  BY <1>7 DEF SkipListed
<1>8. CASE ListTaken
  BY <1>8 DEF ListTaken
<1>9. CASE ReadDocuments
  BY <1>9 DEF ReadDocuments
<1>10. CASE RemoveOld
  <2>1. index' \in [Buckets -> Versions]
    BY <1>10 DEF RemoveOld
  <2>2. run' \in [change : Ops, at : RunSteps, new : Versions, old : Versions]
    BY <1>10 DEF RemoveOld
  <2> QED BY <1>10, <2>1, <2>2 DEF RemoveOld
<1>11. CASE UpsertNew
  BY <1>11 DEF UpsertNew
<1>12. CASE DropPrevious
  <2>1. run' \in [change : Ops, at : RunSteps, new : Versions, old : Versions]
    BY <1>12 DEF DropPrevious
  <2> QED BY <1>12, <2>1 DEF DropPrevious
<1>13. CASE Finish
  <2>1. run' \in [change : Ops, at : RunSteps, new : Versions, old : Versions]
    BY <1>13 DEF Finish
  <2>2. taken' \subseteq Ops
    BY <1>13 DEF Finish
  <2> QED BY <1>13, <2>1, <2>2 DEF Finish
<1>14. CASE RunFails
  BY <1>14 DEF RunFails
<1>15. CASE Crash
  BY <1>15 DEF Crash
<1>16. CASE UNCHANGED vars
  BY <1>16 DEF vars
<1> QED
  BY <1>1, <1>2, <1>3, <1>4, <1>5, <1>6, <1>7, <1>8, <1>9, <1>10, <1>11,
     <1>12, <1>13, <1>14, <1>15, <1>16 DEF Next

(* Every variable of the agent keeps its type. *)
THEOREM TypeCorrect == Spec => []TypeOK
BY TypeInit, TypeStep, PTL DEF Spec

-----------------------------------------------------------------------------
(* The inductive invariant *)

(* No document lists anywhere in an empty store. *)
LEMMA InvInit == Init => IInv
BY TypeInit, ChangeAgentAssumption
   DEF Init, IInv, ListedInv, CalmInv, Listed, OnlyIn, BucketFor, HasRead,
       NoWrite, NoRun

(* A version's bucket is a bucket or none. *)
LEMMA BucketType ==
  ASSUME TypeOK, NEW v \in Versions
  PROVE  BucketFor(v) \in Buckets \cup {NoBucket}
BY ChangeAgentAssumption DEF TypeOK, BucketFor, Versions

(* Every step keeps what the agent owes to a live document. *)
LEMMA ListedStep ==
  ASSUME IInv, TypeOK', [Next]_vars
  PROVE  ListedInv'
<1> USE DEF IInv, ListedInv, Listed, BucketFor, HasRead, engineVars, histVars,
            NoRun, NoWrite, Begin
<1>0. TypeOK
  OBVIOUS
<1>1. ASSUME NEW op \in Ops, BeginWrite(op) PROVE ListedInv'
  BY <1>1 DEF BeginWrite, Ops
<1>2. CASE MoveFiles
  BY <1>2 DEF MoveFiles, TypeOK
<1>3. CASE EnqueueChange
  BY <1>3 DEF EnqueueChange
<1>4. CASE WriteFails
  BY <1>4 DEF WriteFails
<1>5. ASSUME NEW change \in Ops, Claim(change) PROVE ListedInv'
  BY <1>5 DEF Claim
<1>6. ASSUME NEW change \in Ops, Resume(change) PROVE ListedInv'
  BY <1>6 DEF Resume
<1>7. ASSUME NEW change \in Ops, SkipListed(change) PROVE ListedInv'
  BY <1>7 DEF SkipListed
<1>8. CASE ListTaken
  BY <1>8 DEF ListTaken
<1>9. CASE ReadDocuments
  BY <1>9 DEF ReadDocuments, TypeOK
<1>10. CASE RemoveOld
  BY <1>0, <1>10, BucketType DEF RemoveOld, TypeOK
<1>11. CASE UpsertNew
  BY <1>0, <1>11, BucketType DEF UpsertNew, TypeOK
<1>12. CASE DropPrevious
  BY <1>12 DEF DropPrevious, TypeOK
<1>13. CASE Finish
  BY <1>13 DEF Finish
<1>14. CASE RunFails
  BY <1>14 DEF RunFails
<1>15. CASE Crash
  BY <1>15 DEF Crash
<1>16. CASE UNCHANGED vars
  BY <1>16 DEF vars
<1> QED
  BY <1>1, <1>2, <1>3, <1>4, <1>5, <1>6, <1>7, <1>8, <1>9, <1>10, <1>11,
     <1>12, <1>13, <1>14, <1>15, <1>16 DEF Next

(* Every step keeps what holds of a document whose writes do not overlap. *)
LEMMA CalmStep ==
  ASSUME IInv, TypeOK', [Next]_vars
  PROVE  CalmInv'
<1> USE DEF IInv, CalmInv, OnlyIn, BucketFor, HasRead, engineVars, histVars,
            NoRun, NoWrite, Begin
<1>0. TypeOK
  OBVIOUS
<1>1. ASSUME NEW op \in Ops, BeginWrite(op) PROVE CalmInv'
  BY <1>1 DEF BeginWrite, Ops, Settled
<1>2. CASE MoveFiles
  <2>1. CASE writer.at = "preserve"
    <3>1. /\ writer'.at = "write" /\ writer'.op = writer.op
          /\ UNCHANGED <<bucketOf, queue, taken, run, listed, index, cut, overlapped>>
      BY <1>2, <2>1 DEF MoveFiles, TypeOK
    <3>2. ASSUME ~cut, ~overlapped
          PROVE  prev = 0 /\ prev' = live /\ live' = 0 /\ run.at = "idle"
      BY <1>2, <2>1, <3>2 DEF MoveFiles
    <3>3. ASSUME ~cut, ~overlapped
          PROVE  \A b \in Buckets :
                   index'[b] # 0 => b \in {BucketFor(prev)', BucketFor(live)'}
      BY <3>1, <3>2, <3>3, ChangeAgentAssumption
    <3>4. ASSUME ~cut, ~overlapped
          PROVE  queue' = {} /\ taken' = {} /\ listed' = {} /\ run' = NoRun
      BY <2>1, <3>1, <3>4
    <3> QED BY <2>1, <3>1, <3>2, <3>3, <3>4
  <2>2. CASE writer.at = "write"
    <3>1. /\ writer'.at = "enqueue" /\ writer'.op = writer.op
          /\ UNCHANGED <<bucketOf, prev, queue, taken, run, listed, index, cut,
                         overlapped>>
      BY <1>2, <2>2 DEF MoveFiles, TypeOK
    <3>2. ASSUME ~cut, ~overlapped
          PROVE  live = 0 /\ run.at = "idle" /\ run = NoRun /\ queue = {}
                 /\ taken = {} /\ listed = {}
      BY <2>2, <3>2
    <3>3. ASSUME ~cut, ~overlapped
          PROVE  \A b \in Buckets :
                   index'[b] # 0 => b \in {BucketFor(prev)', BucketFor(live)'}
      BY <3>1, <3>2, <3>3, ChangeAgentAssumption
    <3> QED BY <2>2, <3>1, <3>2, <3>3
  <2>3. CASE writer.at = "remove"
    BY <1>2, <2>3 DEF MoveFiles, TypeOK
  <2> QED BY <1>2, <2>1, <2>2, <2>3 DEF MoveFiles
<1>3. CASE EnqueueChange
  BY <1>3 DEF EnqueueChange
<1>4. CASE WriteFails
  BY <1>4 DEF WriteFails
<1>5. ASSUME NEW change \in Ops, Claim(change) PROVE CalmInv'
  BY <1>5 DEF Claim
<1>6. ASSUME NEW change \in Ops, Resume(change) PROVE CalmInv'
  BY <1>6 DEF Resume
<1>7. ASSUME NEW change \in Ops, SkipListed(change) PROVE CalmInv'
  BY <1>7 DEF SkipListed
<1>8. CASE ListTaken
  BY <1>8 DEF ListTaken
<1>9. CASE ReadDocuments
  <2>0. UNCHANGED <<bucketOf, live, prev, queue, taken, writer, listed, index,
                     cut, overlapped>>
    BY <1>9 DEF ReadDocuments
  <2>1. CASE run.at = "current"
    <3>1. run'.at = "previous" /\ run'.new = live
      BY <1>9, <2>1 DEF ReadDocuments, TypeOK
    <3> QED BY <2>0, <2>1, <3>1
  <2>2. CASE run.at = "previous"
    <3>1. run'.at = "unlist" /\ run'.new = run.new /\ run'.old = prev
      BY <1>9, <2>2 DEF ReadDocuments, TypeOK
    <3> QED BY <2>0, <2>2, <3>1
  <2> QED BY <1>9, <2>1, <2>2 DEF ReadDocuments
<1>10. CASE RemoveOld
  BY <1>0, <1>10, BucketType DEF RemoveOld, TypeOK
<1>11. CASE UpsertNew
  BY <1>0, <1>11, BucketType DEF UpsertNew, TypeOK
<1>12. CASE DropPrevious
  BY <1>12 DEF DropPrevious, TypeOK
<1>13. CASE Finish
  BY <1>13 DEF Finish
<1>14. CASE RunFails
  BY <1>14 DEF RunFails
<1>15. CASE Crash
  BY <1>15 DEF Crash
<1>16. CASE UNCHANGED vars
  BY <1>16 DEF vars
<1> QED
  BY <1>1, <1>2, <1>3, <1>4, <1>5, <1>6, <1>7, <1>8, <1>9, <1>10, <1>11,
     <1>12, <1>13, <1>14, <1>15, <1>16 DEF Next

(* The invariant is inductive. *)
LEMMA InvStep == IInv /\ [Next]_vars => IInv'
BY TypeStep, ListedStep, CalmStep DEF IInv

(* Once everything is distributed a live document is in its bucket with    *)
(* its present sort values, unless a write was cut short: for any number   *)
(* of writes, overlapping or not, and any kills and failed deliveries.     *)
THEOREM DistributedDocumentIsListed == Spec => []LiveDocumentIsListed
<1>1. IInv => LiveDocumentIsListed
  BY DEF IInv, ListedInv, Listed, LiveDocumentIsListed, Settled, NoWrite
<1> QED BY <1>1, InvInit, InvStep, PTL DEF Spec

(* ... and, when writes do not overlap, in no other bucket. *)
THEOREM DistributedDocumentIsListedOnce == Spec => []ListedOnlyThere
<1>1. IInv => ListedOnlyThere
  BY ChangeAgentAssumption
     DEF IInv, CalmInv, OnlyIn, BucketFor, ListedOnlyThere, Settled, NoWrite
<1> QED BY <1>1, InvInit, InvStep, PTL DEF Spec

-----------------------------------------------------------------------------
(* Routing: who serves a slot and who is sent its writes *)

(* A finite set that has one member by count is the singleton of a       *)
(* member of it.                                                         *)
LEMMA OnlyOne ==
  ASSUME NEW S, Cardinality(S) = 1, IsFiniteSet(S)
  PROVE  \E x \in S : S = {x}
<1>1. S # {}
  BY FS_EmptySet
<1>2. PICK x \in S : TRUE
  BY <1>1
<1>3. IsFiniteSet(S \ {x}) /\ Cardinality(S \ {x}) = Cardinality(S) - 1
  BY <1>2, FS_RemoveElement
<1>4. S \ {x} = {}
  BY <1>3, FS_EmptySet
<1> QED BY <1>2, <1>4

(* A shard map has finitely many slot ranges, so the count that          *)
(* FullCoverage makes of the ranges around a slot is a count.            *)
LEMMA RangesFinite ==
  ASSUME NEW R, R \subseteq Slots \X Slots
  PROVE  IsFiniteSet(R)
<1>1. IsFiniteSet(Slots)
  BY RoutingAssumption, FS_Interval DEF Slots
<1>2. IsFiniteSet(Slots \X Slots)
  BY <1>1, FS_Product
<1> QED BY <1>2, FS_Subset

(* In a map that passes validation (full coverage without overlap, and a *)
(* known source for every range) every slot lies in exactly one range,   *)
(* whose assignment is the one every reader of the map finds, and the    *)
(* source it names is a server.                                          *)
LEMMA MapRouted ==
  ASSUME NEW map \in ShardMaps, ValidShardMap(map), NEW slot \in Slots
  PROVE  \E r \in DOMAIN map :
            /\ SlotAssignment(map, slot) = {map[r]}
            /\ map[r].sot \in KnownServers \ {""}
<1>1. PICK R \in SUBSET (Slots \X Slots) : map \in [R -> Assignments]
  BY DEF ShardMaps
<1>2. DOMAIN map \subseteq Slots \X Slots
  BY <1>1
<1> DEFINE Q == {q \in DOMAIN map : InRange(q, slot)}
<1>3. Cardinality(Q) = 1
  BY DEF ValidShardMap, FullCoverage
<1>4. IsFiniteSet(Q)
  BY <1>2, RangesFinite
<1>5. PICK r \in Q : Q = {r}
  <2> HIDE DEF Q
  <2> QED BY <1>3, <1>4, OnlyOne
<1>6. r \in DOMAIN map
  OBVIOUS
<1>7. SlotAssignment(map, slot) = {map[q] : q \in Q}
  BY DEF SlotAssignment
<1>8. SlotAssignment(map, slot) = {map[r]}
  <2> HIDE DEF Q
  <2> QED BY <1>5, <1>7
<1>9. map[r].sot \in KnownServers \ {""}
  BY <1>6 DEF ValidShardMap
<1> QED BY <1>6, <1>8, <1>9

(* With a map that passes validation a server that answers for a slot    *)
(* without being its source is among the targets the source replicates   *)
(* to and has the source among the servers it catches up from.           *)
LEMMA MapFollowed ==
  ASSUME NEW map \in ShardMaps, ValidShardMap(map), NEW slot \in Slots
  PROVE  \E a \in SlotAssignment(map, slot) :
                /\ SlotAssignment(map, slot) = {a}
                /\ \A server \in RunningServers \ {a.sot} :
                     ServesSlot(map, server, slot) =>
                        /\ server \in TargetsForAssignment(a, a.sot)
                        /\ a.sot \in RelevantSOTServers(map, server)
<1>1. PICK r \in DOMAIN map : /\ SlotAssignment(map, slot) = {map[r]}
                              /\ map[r].sot \in KnownServers \ {""}
  BY MapRouted
<1>2. PICK a : a = map[r]
  OBVIOUS
<1>3. ASSUME NEW server \in RunningServers \ {a.sot}, ServesSlot(map, server, slot)
      PROVE  /\ server \in TargetsForAssignment(a, a.sot)
             /\ a.sot \in RelevantSOTServers(map, server)
  <2>1. server \in a.read \cup a.proxy
    BY <1>1, <1>2, <1>3 DEF ServesSlot
  <2>2. server # "" /\ server # a.sot
    BY <1>3 DEF RunningServers
  <2>3. server \in TargetsForAssignment(a, a.sot)
    BY <2>1, <2>2 DEF TargetsForAssignment
  <2>4. a.sot \in RelevantSOTServers(map, server)
    BY <1>1, <1>2, <2>1, <2>2 DEF RelevantSOTServers
  <2> QED BY <2>3, <2>4
<1> QED BY <1>1, <1>2, <1>3

(* ServersFollowTheirSources for every shard map: any slots, any servers   *)
(* and any number of ranges.  With a map that the loader accepts every     *)
(* slot has one source, and a server that answers for the slot without     *)
(* being its source is a target of that source and catches up from it.     *)
THEOREM ServersFollow == InputSpec => []ServersFollowTheirSources
<1>1. InitInput => ServersFollowTheirSources
  BY DEF InitInput, ServersFollowTheirSources
<1>2. ServersFollowTheirSources /\ [PickInput]_input => ServersFollowTheirSources'
  <2> SUFFICES ASSUME ServersFollowTheirSources, [PickInput]_input
               PROVE  ServersFollowTheirSources'
    OBVIOUS
  <2>1. CASE PickShardMap
    <3>1. PICK m \in ShardMaps : input' = [of |-> "shardMap", map |-> m]
      BY <2>1 DEF PickShardMap
    <3>2. input'.map = m
      BY <3>1
    <3>3. ASSUME ValidShardMap(m), NEW slot \in Slots
          PROVE  \E a \in SlotAssignment(m, slot) :
                    /\ SlotAssignment(m, slot) = {a}
                    /\ \A server \in RunningServers \ {a.sot} :
                         ServesSlot(m, server, slot) =>
                            /\ server \in TargetsForAssignment(a, a.sot)
                            /\ a.sot \in RelevantSOTServers(m, server)
      BY <3>3, MapFollowed
    <3> QED BY <3>2, <3>3 DEF ServersFollowTheirSources
  <2>2. CASE PickSearch \/ PickAttachment \/ PickUpgrade
    <3>1. input'.of # "shardMap"
      BY <2>2 DEF PickSearch, PickAttachment, PickUpgrade
    <3> QED BY <3>1 DEF ServersFollowTheirSources
  <2>3. CASE UNCHANGED input
    BY <2>3 DEF ServersFollowTheirSources
  <2> QED BY <2>1, <2>2, <2>3 DEF PickInput
<1> QED BY <1>1, <1>2, PTL DEF InputSpec

-----------------------------------------------------------------------------
(* WorkItemIds: what a pending attachment is listed as *)

(* A nonempty set of positions of a text has a greatest one, and that is *)
(* what Max chooses: the loops that look for the last separator stop at  *)
(* it.                                                                   *)
LEMMA MaxFacts ==
  ASSUME NEW N \in Nat, NEW S, S \subseteq 0..N, S # {}
  PROVE  Max(S) \in S /\ \A n \in S : n <= Max(S)
<1> DEFINE T == {N - n : n \in S}
           R == {ss \in Nat \X Nat : ss[1] < ss[2]}
<1>1. T \subseteq Nat /\ T # {}
  <2>1. \A n \in S : N - n \in Nat
    OBVIOUS
  <2> QED BY <2>1
<1>2. IsWellFoundedOn(R, Nat)
  BY NatLessThanWellFounded, Zenon DEF OpToRel
<1>3. PICK x \in T : \A y \in T : ~(<<y, x>> \in R)
  <2> HIDE DEF R, T
  <2> QED BY <1>1, <1>2, WFMin
<1>4. \A y \in T : ~(y < x)
  BY <1>1, <1>3
<1>5. PICK m \in S : x = N - m
  OBVIOUS
<1>6. ASSUME NEW n \in S PROVE n <= m
  <2>1. N - n \in T
    OBVIOUS
  <2>2. ~(N - n < N - m)
    BY <1>4, <1>5, <2>1
  <2>3. n \in Nat /\ m \in Nat
    OBVIOUS
  <2> QED BY <2>2, <2>3
<1>7. \A n \in S : n <= m /\ n \in Int
  BY <1>6
<1>8. \E k \in S : \A n \in S : k >= n
  BY <1>7
<1>9. Max(S) \in S /\ \A n \in S : Max(S) >= n
  BY <1>8 DEF Max
<1> QED BY <1>9

(* The texts that ids and names are taken from are nonempty sequences. *)
LEMMA TextFacts ==
  ASSUME NEW chars, NEW n \in Nat, NEW s \in Texts(chars, n)
  PROVE  s \in Seq(chars) /\ Len(s) \in Nat /\ Len(s) >= 1
<1>1. PICK k \in 1..n : s \in [1..k -> chars]
  BY DEF Texts
<1>2. k \in Nat /\ k >= 1
  OBVIOUS
<1>3. s \in Seq(chars) /\ Len(s) = k
  BY <1>1, <1>2
<1> QED BY <1>2, <1>3

(* What doc sep file consists of, place by place. *)
Joined(u, doc, sep, file) ==
    /\ Len(u) = Len(doc) + 1 + Len(file)
    /\ \A i \in 1..Len(doc) : u[i] = doc[i]
    /\ u[Len(doc) + 1] = sep
    /\ \A k \in 1..Len(file) : u[Len(doc) + 1 + k] = file[k]

(* PendingFileWritePath and FileWorkItemID put two texts around a        *)
(* separator and change neither.                                         *)
LEMMA JoinFacts ==
  ASSUME NEW C, NEW doc \in Seq(C), NEW file \in Seq(C), NEW sep \in C,
         NEW u, u = doc \o <<sep>> \o file
  PROVE  u \in Seq(C) /\ Joined(u, doc, sep, file)
<1>1. PICK w : w = doc \o <<sep>>
  OBVIOUS
<1>2. w \in Seq(C) /\ Len(w) = Len(doc) + 1
  BY <1>1
<1>3. (\A i \in 1..Len(doc) : w[i] = doc[i]) /\ w[Len(doc) + 1] = sep
  BY <1>1
<1>4. Len(doc) \in Nat /\ Len(file) \in Nat /\ u = w \o file
  BY <1>1
<1>5. u \in Seq(C) /\ Len(u) = Len(doc) + 1 + Len(file)
  BY <1>2, <1>4
<1>6. \A i \in 1..(Len(doc) + 1) : u[i] = w[i]
  BY <1>2, <1>4
<1>7. \A k \in 1..Len(file) : u[Len(doc) + 1 + k] = file[k]
  BY <1>2, <1>4
<1> QED BY <1>3, <1>4, <1>5, <1>6, <1>7 DEF Joined

(* A text cut at a position and joined again with another character. *)
Rejoined(s, i, sep) == SubSeq(s, 1, i - 1) \o <<sep>> \o SubSeq(s, i + 1, Len(s))

(* Cutting a text at a position and joining the parts with a character   *)
(* puts that character there and changes nothing else.                   *)
LEMMA CutAndJoin ==
  ASSUME NEW C, NEW s \in Seq(C), NEW i \in 1..Len(s), NEW sep \in C
  PROVE  Rejoined(s, i, sep) = [s EXCEPT ![i] = sep]
<1>1. PICK a : a = SubSeq(s, 1, i - 1)
  OBVIOUS
<1>2. PICK b : b = SubSeq(s, i + 1, Len(s))
  OBVIOUS
<1>3. Len(s) \in Nat /\ i \in Nat /\ i >= 1 /\ i <= Len(s)
  OBVIOUS
<1>4. a \in Seq(C) /\ Len(a) = i - 1 /\ \A k \in 1..(i - 1) : a[k] = s[k]
  BY <1>1, <1>3
<1>5. b \in Seq(C) /\ Len(b) = Len(s) - i /\ \A k \in 1..(Len(s) - i) : b[k] = s[i + k]
  BY <1>2, <1>3
<1>6. PICK u : u = a \o <<sep>> \o b
  OBVIOUS
<1>7. /\ u \in Seq(C) /\ Len(u) = Len(s)
      /\ \A k \in 1..(i - 1) : u[k] = a[k]
      /\ u[i] = sep
      /\ \A k \in 1..(Len(s) - i) : u[i + k] = b[k]
  <2>1. u \in Seq(C) /\ Joined(u, a, sep, b)
    <3>1. a \in Seq(C) /\ b \in Seq(C)
      BY <1>4, <1>5
    <3> QED BY <1>6, <3>1, JoinFacts
  <2>2. Len(a) + 1 = i /\ Len(a) + 1 + Len(b) = Len(s)
    BY <1>3, <1>4, <1>5
  <2> QED BY <1>4, <1>5, <2>1, <2>2 DEF Joined
<1>8. PICK t : t = [s EXCEPT ![i] = sep]
  OBVIOUS
<1>9. t \in Seq(C) /\ Len(t) = Len(s)
  BY <1>8
<1>10. ASSUME NEW k \in 1..Len(s) PROVE u[k] = t[k]
  <2>1. CASE k < i
    BY <1>3, <1>4, <1>7, <1>8, <2>1
  <2>2. CASE k = i
    BY <1>3, <1>7, <1>8, <2>2
  <2>3. CASE k > i
    <3>1. k - i \in 1..(Len(s) - i) /\ i + (k - i) = k
      BY <1>3, <2>3
    <3>2. u[k] = s[k]
      BY <1>5, <1>7, <3>1
    <3> QED BY <1>3, <1>8, <2>3, <3>2
  <2> QED BY <1>3, <2>1, <2>2, <2>3
<1>11. u = t
  BY <1>7, <1>9, <1>10, SeqEqual
<1> QED BY <1>1, <1>2, <1>6, <1>8, <1>11 DEF Rejoined

(* Where a text splits, told from its characters alone: behind a first   *)
(* part of id characters that does not start with a dot and is not null, *)
(* and before something else than a dot.                                 *)
SplitsHere(s, sep, i) ==
    /\ s[i] = sep
    /\ 1 < i /\ i < Len(s)
    /\ s[1] # Dot
    /\ SubSeq(s, 1, i - 1) # NullText
    /\ \A k \in 1..(i - 1) : s[k] \in IdChars
    /\ s[i + 1] # Dot

(* The positions at which the two parsers accept the parts on either     *)
(* side are those.                                                       *)
LEMMA SplitMeaning ==
  ASSUME NEW s \in Seq(NameChars), NEW sep, NEW i \in 1..Len(s)
  PROVE  i \in Splits(s, sep) <=> SplitsHere(s, sep, i)
<1>1. PICK a : a = SubSeq(s, 1, i - 1)
  OBVIOUS
<1>2. PICK b : b = SubSeq(s, i + 1, Len(s))
  OBVIOUS
<1>3. Len(s) \in Nat /\ i \in Nat /\ i >= 1 /\ i <= Len(s)
  OBVIOUS
<1>4. a \in Seq(NameChars) /\ Len(a) = i - 1 /\ \A k \in 1..(i - 1) : a[k] = s[k]
  BY <1>1, <1>3
<1>5. b \in Seq(NameChars) /\ Len(b) = Len(s) - i /\ \A k \in 1..(Len(s) - i) : b[k] = s[i + k]
  BY <1>2, <1>3
<1>6. a # <<>> <=> 1 < i
  BY <1>3, <1>4
<1>7. b # <<>> <=> i < Len(s)
  BY <1>3, <1>5
<1>8. 1 < i => Head(a) = s[1]
  BY <1>3, <1>4
<1>9. i < Len(s) => Head(b) = s[i + 1]
  BY <1>3, <1>5
<1>10. Range(a) = {s[k] : k \in 1..(i - 1)}
  <2>1. DOMAIN a = 1..(i - 1)
    BY <1>4
  <2> QED BY <1>4, <2>1 DEF Range
<1>11. SafeID(a) <=> /\ 1 < i /\ s[1] # Dot /\ a # NullText
                     /\ \A k \in 1..(i - 1) : s[k] \in IdChars
  BY <1>6, <1>8, <1>10 DEF SafeID
<1>12. SafeFileName(b) <=> (i < Len(s) /\ s[i + 1] # Dot)
  BY <1>7, <1>9 DEF SafeFileName
<1>13. i \in Splits(s, sep) <=> (s[i] = sep /\ SafeID(a) /\ SafeFileName(b))
  BY <1>1, <1>2 DEF Splits
<1> QED BY <1>1, <1>11, <1>12, <1>13 DEF SplitsHere

(* Two texts that agree before a position have the same part before it. *)
LEMMA SamePrefix ==
  ASSUME NEW C, NEW s \in Seq(C), NEW u \in Seq(C), NEW n \in Nat, n <= Len(s), n <= Len(u),
         \A k \in 1..n : s[k] = u[k]
  PROVE  SubSeq(s, 1, n) = SubSeq(u, 1, n)
<1>1. PICK a : a = SubSeq(s, 1, n)
  OBVIOUS
<1>2. PICK b : b = SubSeq(u, 1, n)
  OBVIOUS
<1>3. Len(s) \in Nat /\ Len(u) \in Nat
  OBVIOUS
<1>4. a \in Seq(C) /\ Len(a) = n /\ \A k \in 1..n : a[k] = s[k]
  BY <1>1, <1>3
<1>5. b \in Seq(C) /\ Len(b) = n /\ \A k \in 1..n : b[k] = u[k]
  BY <1>2, <1>3
<1>6. a = b
  BY <1>4, <1>5, SeqEqual
<1> QED BY <1>1, <1>2, <1>6

(* A text with a dot before a position is not null before it. *)
LEMMA DottedPrefix ==
  ASSUME NEW C, NEW s \in Seq(C), NEW n \in Nat, n <= Len(s), NEW k \in 1..n, s[k] = Dot
  PROVE  SubSeq(s, 1, n) # NullText
<1>1. PICK a : a = SubSeq(s, 1, n)
  OBVIOUS
<1>2. Len(s) \in Nat
  OBVIOUS
<1>3. a \in Seq(C) /\ Len(a) = n /\ a[k] = Dot
  BY <1>1, <1>2
<1>4. NullText \in Seq(Letters) /\ Dot \notin Letters
  BY WorkItemIdsAssumption DEF Dot
<1>5. a # NullText
  BY <1>3, <1>4
<1> QED BY <1>1, <1>5

(* A text that splits somewhere is parsed at the last place where it     *)
(* does.                                                                 *)
LEMMA LastSplit ==
  ASSUME NEW s \in Seq(NameChars), NEW sep \in NameChars, NEW i \in Splits(s, sep)
  PROVE  \E m \in 1..Len(s) :
            /\ m = Max(Splits(s, sep))
            /\ i <= m
            /\ SplitsHere(s, sep, m)
            /\ \A k \in 1..Len(s) : m < k => ~SplitsHere(s, sep, k)
<1>1. PICK S : S = Splits(s, sep)
  OBVIOUS
<1>2. Len(s) \in Nat /\ S \subseteq 1..Len(s)
  BY <1>1 DEF Splits
<1>3. S # {} /\ S \subseteq 0..Len(s)
  BY <1>1, <1>2
<1>4. Max(S) \in S /\ \A n \in S : n <= Max(S)
  BY <1>2, <1>3, MaxFacts
<1>5. PICK m \in 1..Len(s) : m = Max(S)
  BY <1>2, <1>4
<1>6. SplitsHere(s, sep, m)
  BY <1>1, <1>4, <1>5, SplitMeaning
<1>7. ASSUME NEW k \in 1..Len(s), m < k PROVE ~SplitsHere(s, sep, k)
  <2>1. k \notin S
    BY <1>2, <1>4, <1>5, <1>7
  <2> QED BY <1>1, <2>1, SplitMeaning
<1> QED BY <1>1, <1>4, <1>5, <1>6, <1>7

(* The name of a pending attachment is its document's id, a dot and its  *)
(* file name; neither starts with a dot, and the id has only id          *)
(* characters.                                                           *)
LEMMA NameFacts ==
  ASSUME NEW doc \in DocumentIds, NEW file \in FileNames, NEW name,
         name = PendingFileWritePath(doc, file)
  PROVE  /\ doc \in Seq(NameChars) /\ file \in Seq(NameChars) /\ name \in Seq(NameChars)
         /\ Joined(name, doc, Dot, file)
         /\ Len(doc) \in Nat /\ Len(doc) >= 1
         /\ Len(file) \in Nat /\ Len(file) >= 1
         /\ doc[1] # Dot /\ file[1] # Dot
         /\ \A k \in 1..Len(doc) : doc[k] \in IdChars
         /\ SubSeq(name, 1, Len(doc)) # NullText
<1>1. doc \in Seq(IdChars) /\ Len(doc) \in Nat /\ Len(doc) >= 1
  BY WorkItemIdsAssumption, TextFacts DEF DocumentIds
<1>2. file \in Seq(NameChars) /\ Len(file) \in Nat /\ Len(file) >= 1
  BY WorkItemIdsAssumption, TextFacts DEF FileNames, NameChars
<1>3. IdChars \subseteq NameChars /\ Dot \in NameChars
  BY DEF NameChars, IdChars
<1>4. doc \in Seq(NameChars)
  BY <1>1, <1>3
<1>5. name \in Seq(NameChars) /\ Joined(name, doc, Dot, file)
  BY <1>2, <1>3, <1>4, JoinFacts DEF PendingFileWritePath
<1>6. doc[1] # Dot
  BY <1>1 DEF DocumentIds, SafeID
<1>7. file[1] # Dot
  BY <1>2 DEF FileNames, SafeFileName
<1>8. SubSeq(name, 1, Len(doc)) # NullText
  <2>1. /\ Len(doc) <= Len(name) /\ Len(doc) <= Len(doc)
        /\ \A k \in 1..Len(doc) : name[k] = doc[k]
    BY <1>1, <1>2, <1>5 DEF Joined
  <2>2. SubSeq(name, 1, Len(doc)) = SubSeq(doc, 1, Len(doc))
    BY <1>1, <1>4, <1>5, <2>1, SamePrefix
  <2>3. SubSeq(doc, 1, Len(doc)) = doc
    BY <1>1
  <2> QED BY <2>2, <2>3 DEF DocumentIds, SafeID
<1> QED BY <1>1, <1>2, <1>4, <1>5, <1>6, <1>7, <1>8

(* The dot between document and file is a place where the name splits,   *)
(* and so is a dot in a file name that only id characters precede and no *)
(* dot follows.                                                          *)
LEMMA DotSplits ==
  ASSUME NEW doc \in DocumentIds, NEW file \in FileNames, NEW name,
         name = PendingFileWritePath(doc, file)
  PROVE  /\ SplitsHere(name, Dot, Len(doc) + 1)
         /\ \A m \in 1..(Len(file) - 1) :
              /\ file[m] = Dot /\ file[m + 1] # Dot
              /\ \A k \in 1..m : file[k] \in IdChars
              => SplitsHere(name, Dot, Len(doc) + 1 + m)
<1>1. /\ Joined(name, doc, Dot, file)
      /\ name \in Seq(NameChars)
      /\ SubSeq(name, 1, Len(doc)) # NullText
      /\ Len(doc) \in Nat /\ Len(doc) >= 1
      /\ Len(file) \in Nat /\ Len(file) >= 1
      /\ doc[1] # Dot /\ file[1] # Dot
      /\ \A k \in 1..Len(doc) : doc[k] \in IdChars
  BY NameFacts
<1>2. PICK L \in Nat : L = Len(doc)
  BY <1>1
<1>3. /\ Len(name) = L + 1 + Len(file)
      /\ \A k \in 1..L : name[k] = doc[k]
      /\ name[L + 1] = Dot
      /\ \A k \in 1..Len(file) : name[L + 1 + k] = file[k]
  BY <1>1, <1>2 DEF Joined
<1>4. name[1] # Dot /\ \A k \in 1..L : name[k] \in IdChars
  BY <1>1, <1>2, <1>3
<1>5. name[L + 2] = file[1]
  BY <1>1, <1>3
<1>6. SplitsHere(name, Dot, L + 1)
  <2>1. SubSeq(name, 1, (L + 1) - 1) # NullText
    BY <1>1, <1>2
  <2> QED BY <1>1, <1>2, <1>3, <1>4, <1>5, <2>1 DEF SplitsHere
<1>7. ASSUME NEW m \in 1..(Len(file) - 1), file[m] = Dot, file[m + 1] # Dot,
             \A k \in 1..m : file[k] \in IdChars
      PROVE  SplitsHere(name, Dot, L + 1 + m)
  <2>1. m \in Nat /\ m \in 1..Len(file) /\ m + 1 \in 1..Len(file)
    BY <1>1
  <2>2. name[L + 1 + m] = Dot
    BY <1>3, <1>7, <2>1
  <2>3. name[(L + 1 + m) + 1] # Dot
    <3>1. name[L + 1 + (m + 1)] = file[m + 1]
      BY <1>3, <2>1
    <3>2. L + 1 + (m + 1) = (L + 1 + m) + 1
      BY <1>2, <2>1
    <3> QED BY <1>7, <3>1, <3>2
  <2>4. ASSUME NEW k \in 1..((L + 1 + m) - 1) PROVE name[k] \in IdChars
    <3>1. CASE k <= L
      BY <1>2, <1>4, <3>1
    <3>2. CASE k = L + 1
      BY <1>3, <3>2 DEF IdChars
    <3>3. CASE k > L + 1
      <4>1. k - L - 1 \in 1..m /\ k - L - 1 \in 1..Len(file) /\ L + 1 + (k - L - 1) = k
        BY <1>2, <2>1, <3>3
      <4>2. name[k] = file[k - L - 1]
        BY <1>3, <4>1
      <4> QED BY <1>7, <4>1, <4>2
    <3> QED BY <1>2, <3>1, <3>2, <3>3
  <2>5. 1 < L + 1 + m /\ L + 1 + m < Len(name)
    BY <1>1, <1>2, <1>3, <2>1
  <2>6. SubSeq(name, 1, (L + 1 + m) - 1) # NullText
    <3>1. PICK n \in Nat : n = (L + 1 + m) - 1
      BY <1>2, <2>1
    <3>2. n <= Len(name) /\ L + 1 \in 1..n
      BY <1>2, <2>1, <2>5, <3>1
    <3> QED BY <1>1, <1>3, <3>1, <3>2, DottedPrefix
  <2> QED BY <1>4, <2>2, <2>3, <2>4, <2>5, <2>6 DEF SplitsHere
<1> QED BY <1>2, <1>6, <1>7

(* A character behind every dot that something follows is in the part of *)
(* the file name that LastPart returns.                                  *)
LEMMA LastPartFacts ==
  ASSUME NEW file \in Seq(NameChars), NEW k \in 1..Len(file),
         \A m \in 1..(Len(file) - 1) : file[m] = Dot /\ file[m + 1] # Dot => m < k
  PROVE  file[k] \in Range(LastPart(file))
<1>1. PICK dots : dots = {i \in 1..(Len(file) - 1) : file[i] = Dot /\ file[i + 1] # Dot}
  OBVIOUS
<1>2. LastPart(file) = IF dots = {} THEN file ELSE SubSeq(file, Max(dots) + 1, Len(file))
  BY <1>1 DEF LastPart
<1>3. CASE dots = {}
  <2>1. k \in DOMAIN file
    OBVIOUS
  <2> QED BY <1>2, <1>3, <2>1 DEF Range
<1>4. CASE dots # {}
  <2>1. Len(file) \in Nat /\ dots \subseteq 0..Len(file)
    BY <1>1
  <2>2. Max(dots) \in dots
    BY <1>4, <2>1, MaxFacts
  <2>3. PICK M : M = Max(dots)
    OBVIOUS
  <2>4. M \in Nat /\ 1 <= M /\ M < Len(file) /\ M < k /\ k <= Len(file) /\ k \in Nat
    BY <1>1, <2>1, <2>2, <2>3
  <2>5. PICK t : t = SubSeq(file, M + 1, Len(file))
    OBVIOUS
  <2>6. t \in Seq(NameChars) /\ Len(t) = Len(file) - M /\ \A n \in 1..(Len(file) - M) : t[n] = file[M + n]
    BY <2>1, <2>4, <2>5
  <2>7. k - M \in 1..(Len(file) - M) /\ M + (k - M) = k
    BY <2>1, <2>4
  <2>8. t[k - M] = file[k] /\ k - M \in DOMAIN t
    BY <2>6, <2>7
  <2> QED BY <1>2, <1>4, <2>3, <2>5, <2>8 DEF Range
<1> QED BY <1>3, <1>4

(* ParsePendingFileWriteName takes a name apart at its last split, and   *)
(* the id made of the parts is the name with a hyphen in that place.     *)
LEMMA ParseNameAgain ==
  ASSUME NEW s \in Seq(NameChars), NEW i \in Splits(s, Dot)
  PROVE  \E m \in 1..Len(s) :
            /\ i <= m
            /\ SplitsHere(s, Dot, m)
            /\ \A k \in 1..Len(s) : m < k => ~SplitsHere(s, Dot, k)
            /\ ParsePendingFileWriteName(s) = {SplitAt(s, m)}
            /\ FileWorkItemID(SplitAt(s, m).id, SplitAt(s, m).file) = [s EXCEPT ![m] = Hyphen]
<1>1. Dot \in NameChars /\ Hyphen \in NameChars
  BY DEF NameChars, IdChars
<1>2. PICK m \in 1..Len(s) : /\ m = Max(Splits(s, Dot))
                             /\ i <= m
                             /\ SplitsHere(s, Dot, m)
                             /\ \A k \in 1..Len(s) : m < k => ~SplitsHere(s, Dot, k)
  BY <1>1, LastSplit
<1>3. ParsePendingFileWriteName(s) = {SplitAt(s, m)}
  BY <1>2 DEF ParsePendingFileWriteName
<1>4. FileWorkItemID(SplitAt(s, m).id, SplitAt(s, m).file) = [s EXCEPT ![m] = Hyphen]
  <2>1. SplitAt(s, m).id = SubSeq(s, 1, m - 1) /\ SplitAt(s, m).file = SubSeq(s, m + 1, Len(s))
    BY DEF SplitAt
  <2>2. Rejoined(s, m, Hyphen) = [s EXCEPT ![m] = Hyphen]
    BY <1>1, CutAndJoin
  <2> QED BY <2>1, <2>2 DEF FileWorkItemID, Rejoined
<1> QED BY <1>2, <1>3, <1>4

(* ParseFileWorkItemID takes an id apart at its last split, and the name *)
(* made of the parts is the id with a dot in that place.                 *)
LEMMA ParseItemAgain ==
  ASSUME NEW s \in Seq(NameChars), NEW i \in Splits(s, Hyphen)
  PROVE  \E m \in 1..Len(s) :
            /\ i <= m
            /\ SplitsHere(s, Hyphen, m)
            /\ ParseFileWorkItemID(s) = {SplitAt(s, m)}
            /\ PendingFileWritePath(SplitAt(s, m).id, SplitAt(s, m).file) = [s EXCEPT ![m] = Dot]
<1>1. Dot \in NameChars /\ Hyphen \in NameChars
  BY DEF NameChars, IdChars
<1>2. PICK m \in 1..Len(s) : /\ m = Max(Splits(s, Hyphen))
                             /\ i <= m
                             /\ SplitsHere(s, Hyphen, m)
                             /\ \A k \in 1..Len(s) : m < k => ~SplitsHere(s, Hyphen, k)
  BY <1>1, LastSplit
<1>3. ParseFileWorkItemID(s) = {SplitAt(s, m)}
  BY <1>2 DEF ParseFileWorkItemID
<1>4. PendingFileWritePath(SplitAt(s, m).id, SplitAt(s, m).file) = [s EXCEPT ![m] = Dot]
  <2>1. SplitAt(s, m).id = SubSeq(s, 1, m - 1) /\ SplitAt(s, m).file = SubSeq(s, m + 1, Len(s))
    BY DEF SplitAt
  <2>2. Rejoined(s, m, Dot) = [s EXCEPT ![m] = Dot]
    BY <1>1, CutAndJoin
  <2> QED BY <2>1, <2>2 DEF PendingFileWritePath, Rejoined
<1> QED BY <1>2, <1>3, <1>4

(* A pending attachment is found under the id it is listed as. The id is *)
(* the name with a hyphen in the place of its last split; it splits      *)
(* there too, and the only way the parser may prefer a later place is a  *)
(* hyphen of the file name behind the last dot at which the name splits. *)
LEMMA ItemResolves ==
  ASSUME NEW doc \in DocumentIds, NEW file \in FileNames
  PROVE  \/ ResolvedPaths(doc, file) = {PendingFileWritePath(doc, file)}
         \/ Hyphen \in Range(LastPart(file))
         \/ Hyphen \in Range(file) /\ ~(Range(file) \subseteq IdChars)
         \/ Range(file) \cap UrlChars # {}
<1>0. SUFFICES ASSUME Range(file) \cap UrlChars = {}
               PROVE  \/ ResolvedPaths(doc, file) = {PendingFileWritePath(doc, file)}
                      \/ Hyphen \in Range(LastPart(file))
                      \/ Hyphen \in Range(file) /\ ~(Range(file) \subseteq IdChars)
  OBVIOUS
<1>1. PICK name : name = PendingFileWritePath(doc, file)
  OBVIOUS
<1>2. /\ file \in Seq(NameChars) /\ name \in Seq(NameChars)
      /\ Joined(name, doc, Dot, file)
      /\ Len(doc) \in Nat /\ Len(doc) >= 1
      /\ Len(file) \in Nat /\ Len(file) >= 1
  BY <1>1, NameFacts
<1>3. PICK L \in Nat : L = Len(doc) + 1
  BY <1>2
<1>4. Len(name) = L + Len(file) /\ L \in 1..Len(name) /\ L >= 2
  BY <1>2, <1>3 DEF Joined
<1>5. \A k \in 1..Len(file) : name[L + k] = file[k]
  BY <1>2, <1>3 DEF Joined
<1>6. L \in Splits(name, Dot)
  BY <1>1, <1>2, <1>3, <1>4, DotSplits, SplitMeaning
<1>7. PICK i \in 1..Len(name) :
          /\ L <= i
          /\ SplitsHere(name, Dot, i)
          /\ \A k \in 1..Len(name) : i < k => ~SplitsHere(name, Dot, k)
          /\ ParsePendingFileWriteName(name) = {SplitAt(name, i)}
          /\ FileWorkItemID(SplitAt(name, i).id, SplitAt(name, i).file) = [name EXCEPT ![i] = Hyphen]
  BY <1>2, <1>6, ParseNameAgain
<1>8. PICK item : item = [name EXCEPT ![i] = Hyphen]
  OBVIOUS
<1>9. Len(name) \in Nat /\ i \in Nat /\ 2 <= i
  BY <1>2, <1>3, <1>4, <1>7
<1>10. item \in Seq(NameChars) /\ Len(item) = Len(name)
  <2>1. Hyphen \in NameChars
    BY DEF NameChars, IdChars
  <2> QED BY <1>2, <1>8, <2>1
<1>11. item[i] = Hyphen /\ \A k \in 1..Len(name) : k # i => item[k] = name[k]
  BY <1>2, <1>8
<1>12. i \in Splits(item, Hyphen)
  <2>1. SplitsHere(item, Hyphen, i)
    <3>1. /\ 1 < i /\ i < Len(name) /\ name[1] # Dot /\ name[i + 1] # Dot
          /\ \A k \in 1..(i - 1) : name[k] \in IdChars
          /\ SubSeq(name, 1, i - 1) # NullText
      BY <1>7 DEF SplitsHere
    <3>2. item[1] # Dot /\ item[i + 1] # Dot
      BY <1>9, <1>11, <3>1
    <3>3. \A k \in 1..(i - 1) : item[k] \in IdChars
      BY <1>9, <1>11, <3>1
    <3>4. SubSeq(item, 1, i - 1) # NullText
      <4>1. /\ i - 1 \in Nat /\ i - 1 <= Len(name) /\ i - 1 <= Len(item)
            /\ \A k \in 1..(i - 1) : item[k] = name[k]
        BY <1>9, <1>10, <1>11, <3>1
      <4>2. SubSeq(item, 1, i - 1) = SubSeq(name, 1, i - 1)
        BY <1>2, <1>10, <4>1, SamePrefix
      <4> QED BY <3>1, <4>2
    <3> QED BY <1>10, <1>11, <3>1, <3>2, <3>3, <3>4 DEF SplitsHere
  <2> QED BY <1>10, <2>1, SplitMeaning
<1>13. PICK j \in 1..Len(item) :
          /\ i <= j
          /\ SplitsHere(item, Hyphen, j)
          /\ ParseFileWorkItemID(item) = {SplitAt(item, j)}
          /\ PendingFileWritePath(SplitAt(item, j).id, SplitAt(item, j).file) = [item EXCEPT ![j] = Dot]
  BY <1>10, <1>12, ParseItemAgain
<1>14. ResolvedPaths(doc, file) = {[item EXCEPT ![j] = Dot]}
  <2>1. PICK p : p = SplitAt(name, i)
    OBVIOUS
  <2>2. PICK q : q = SplitAt(item, j)
    OBVIOUS
  <2>3. ParsePendingFileWriteName(name) = {p} /\ FileWorkItemID(p.id, p.file) = item
    BY <1>7, <1>8, <2>1
  <2>4. ParseFileWorkItemID(item) = {q} /\ PendingFileWritePath(q.id, q.file) = [item EXCEPT ![j] = Dot]
    BY <1>13, <2>2
  <2>5. PathValue(item) = {item}
    <3>1. ASSUME NEW k \in 1..Len(item) PROVE item[k] \notin UrlChars
      <4>1. CASE k = i
        BY <1>11, <4>1 DEF Hyphen, UrlChars, Percent
      <4>2. CASE k # i /\ k < L
        <5>1. k \in 1..Len(doc) /\ name[k] = doc[k]
          BY <1>2, <1>3, <4>2 DEF Joined
        <5>2. doc[k] \in IdChars
          BY <1>1, <5>1, NameFacts
        <5>3. item[k] \in IdChars
          BY <1>10, <1>11, <4>2, <5>1, <5>2
        <5> QED BY <5>3, WorkItemIdsAssumption DEF IdChars, UrlChars, Percent, Dot, Hyphen
      <4>3. CASE k # i /\ k = L
        <5>1. name[L] = Dot
          BY <1>2, <1>3 DEF Joined
        <5> QED BY <1>10, <1>11, <4>3, <5>1 DEF UrlChars, Percent, Dot
      <4>4. CASE k # i /\ k > L
        <5>1. k - L \in 1..Len(file) /\ L + (k - L) = k
          BY <1>3, <1>4, <1>10, <4>4
        <5>2. item[k] = file[k - L]
          BY <1>5, <1>10, <1>11, <4>4, <5>1
        <5>3. file[k - L] \in Range(file)
          <6>1. k - L \in DOMAIN file
            BY <1>2, <5>1
          <6> QED BY <6>1 DEF Range
        <5> QED BY <1>0, <5>2, <5>3
      <4> QED BY <1>3, <4>1, <4>2, <4>3, <4>4
    <3>2. {k \in 1..Len(item) : item[k] \in {"?", "#"}} = {}
      BY <3>1 DEF UrlChars
    <3>3. UrlPath(item) = item
      BY <3>2 DEF UrlPath
    <3>4. Percent \notin Range(item)
      <4>1. DOMAIN item = 1..Len(item)
        BY <1>10
      <4> QED BY <3>1, <4>1 DEF Range, UrlChars
    <3> QED BY <3>3, <3>4 DEF PathValue
  <2>6. ResolvedPaths(doc, file) =
           {PendingFileWritePath(r.id, r.file) :
              r \in UNION {ParseFileWorkItemID(n) : n \in
                UNION {PathValue(l) : l \in {FileWorkItemID(n.id, n.file) : n \in {p}}}}}
    BY <1>1, <2>3 DEF ResolvedPaths
  <2>7. {FileWorkItemID(n.id, n.file) : n \in {p}} = {item}
    BY <2>3
  <2>8. UNION {PathValue(l) : l \in {item}} = {item}
    BY <2>5
  <2>9. UNION {ParseFileWorkItemID(n) : n \in {item}} = {q}
    BY <2>4
  <2>10. ResolvedPaths(doc, file) = {PendingFileWritePath(r.id, r.file) : r \in {q}}
    BY <2>6, <2>7, <2>8, <2>9
  <2> QED BY <2>4, <2>10
<1>15. CASE j = i
  <2>1. name[i] = Dot
    BY <1>7 DEF SplitsHere
  <2>2. [item EXCEPT ![j] = Dot] = name
    <3>1. PICK t : t = [item EXCEPT ![j] = Dot]
      OBVIOUS
    <3>2. Dot \in NameChars
      BY DEF NameChars, IdChars
    <3>3. t \in Seq(NameChars) /\ Len(t) = Len(name)
      BY <1>10, <3>1, <3>2
    <3>4. t[i] = Dot /\ \A k \in 1..Len(name) : k # i => t[k] = item[k]
      BY <1>10, <1>15, <3>1
    <3>5. \A k \in 1..Len(t) : t[k] = name[k]
      BY <1>11, <2>1, <3>3, <3>4
    <3>6. t = name
      BY <1>2, <3>3, <3>5, SeqEqual
    <3> QED BY <3>1, <3>6
  <2> QED BY <1>1, <1>14, <2>2
<1>16. CASE i < j
  <2>1. PICK k : k = j - L
    OBVIOUS
  <2>2. k \in 1..Len(file) /\ L + k = j /\ j \in 1..Len(name)
    BY <1>3, <1>4, <1>7, <1>10, <1>13, <1>16, <2>1
  <2>3. file[k] = Hyphen
    <3>1. item[j] = Hyphen /\ item[j] = name[j]
      <4>1. item[j] = Hyphen
        BY <1>13 DEF SplitsHere
      <4>2. j # i
        BY <1>9, <1>16
      <4> QED BY <1>11, <2>2, <4>1, <4>2
    <3> QED BY <1>5, <2>2, <3>1
  <2>4. Hyphen \in Range(file)
    <3>1. k \in DOMAIN file
      BY <1>2, <2>2
    <3> QED BY <2>3, <3>1 DEF Range
  <2>5. ASSUME Range(file) \subseteq IdChars PROVE Hyphen \in Range(LastPart(file))
    <3>1. \A n \in 1..Len(file) : file[n] \in IdChars
      <4>1. \A n \in 1..Len(file) : n \in DOMAIN file
        BY <1>2
      <4> QED BY <2>5, <4>1 DEF Range
    <3>2. ASSUME NEW m \in 1..(Len(file) - 1), file[m] = Dot, file[m + 1] # Dot PROVE m < k
      <4>1. \A n \in 1..m : file[n] \in IdChars
        BY <1>2, <3>1
      <4>2. SplitsHere(name, Dot, L + m)
        BY <1>1, <1>3, <3>2, <4>1, DotSplits
      <4>3. L + m \in 1..Len(name)
        BY <1>2, <1>3, <1>4
      <4>4. ~(i < L + m)
        BY <1>7, <4>2, <4>3
      <4> QED BY <1>3, <1>9, <1>16, <2>2, <4>3, <4>4
    <3> QED BY <1>2, <2>2, <2>3, <3>2, LastPartFacts
  <2> QED BY <2>4, <2>5
<1>17. j \in Nat
  BY <1>10, <1>13
<1> QED BY <1>9, <1>13, <1>15, <1>16, <1>17

(* FileItemsResolve for every id and every file name of any length: a      *)
(* pending attachment is found again under the id it is listed as, but for *)
(* names with a hyphen that the parser prefers and names with a character  *)
(* that the URL of the request reads in its own way.                       *)
THEOREM PendingFilesResolve == InputSpec => []FileItemsResolve
<1>1. InitInput => FileItemsResolve
  BY DEF InitInput, FileItemsResolve
<1>2. FileItemsResolve /\ [PickInput]_input => FileItemsResolve'
  <2> SUFFICES ASSUME FileItemsResolve, [PickInput]_input PROVE FileItemsResolve'
    OBVIOUS
  <2>1. CASE PickAttachment
    <3>1. PICK id \in DocumentIds, f \in FileNames :
              input' = [of |-> "attachment", id |-> id, file |-> f]
      BY <2>1 DEF PickAttachment
    <3>2. input'.id = id /\ input'.file = f
      BY <3>1
    <3>3. \/ ResolvedPaths(id, f) = {PendingFileWritePath(id, f)}
          \/ Hyphen \in Range(LastPart(f))
          \/ Hyphen \in Range(f) /\ ~(Range(f) \subseteq IdChars)
          \/ Range(f) \cap UrlChars # {}
      BY ItemResolves
    <3> QED BY <3>2, <3>3 DEF FileItemsResolve
  <2>2. CASE PickSearch \/ PickShardMap \/ PickUpgrade
    <3>1. input'.of # "attachment"
      BY <2>2 DEF PickSearch, PickShardMap, PickUpgrade
    <3> QED BY <3>1 DEF FileItemsResolve
  <2>3. CASE UNCHANGED input
    BY <2>3 DEF FileItemsResolve
  <2> QED BY <2>1, <2>2, <2>3 DEF PickInput
<1> QED BY <1>1, <1>2, PTL DEF InputSpec

-----------------------------------------------------------------------------
(* SchemaPatch: what an update makes of a schema and of a document *)

(* Taking a field out leaves the others as they are. *)
LEMMA WithoutFacts ==
  ASSUME NEW f, NEW k
  PROVE  /\ DOMAIN Without(f, k) = DOMAIN f \ {k}
         /\ \A x \in DOMAIN f : x # k => Without(f, k)[x] = f[x]
BY DEF Without, Restrict

(* The document conforms to the schema but perhaps at one field. *)
Elsewhere(schema, doc, k) ==
    \A f \in DOMAIN schema \ {k} :
        IF f \in DOMAIN doc THEN Admits(schema[f], doc[f]) ELSE ~schema[f].required

(* The document agrees with a schema entry at one field. *)
Here(entry, doc, k) == IF k \in DOMAIN doc THEN Admits(entry, doc[k]) ELSE ~entry.required

(* When an entry is put into the schema and a value it admits into the   *)
(* document at the same field, the document conforms if it did           *)
(* elsewhere.                                                            *)
LEMMA SetConforms ==
  ASSUME NEW schema, NEW doc, NEW k, NEW e, NEW v, Elsewhere(schema, doc, k), Admits(e, v)
  PROVE  ConformsTo(With(schema, k, e), With(doc, k, v))
<1>1. PICK s : s = With(schema, k, e)
  OBVIOUS
<1>2. PICK d : d = With(doc, k, v)
  OBVIOUS
<1>3. DOMAIN s = DOMAIN schema \cup {k} /\ s[k] = e /\ \A x \in DOMAIN schema : x # k => s[x] = schema[x]
  BY <1>1 DEF With
<1>4. DOMAIN d = DOMAIN doc \cup {k} /\ d[k] = v /\ \A x \in DOMAIN doc : x # k => d[x] = doc[x]
  BY <1>2 DEF With
<1>5. ASSUME NEW f \in DOMAIN s
      PROVE  IF f \in DOMAIN d THEN Admits(s[f], d[f]) ELSE ~s[f].required
  <2>1. CASE f = k
    BY <1>3, <1>4, <2>1
  <2>2. CASE f # k
    <3>1. f \in DOMAIN schema \ {k} /\ s[f] = schema[f]
      BY <1>3, <2>2
    <3>2. f \in DOMAIN d <=> f \in DOMAIN doc
      BY <1>4, <2>2
    <3>3. f \in DOMAIN doc => d[f] = doc[f]
      BY <1>4, <2>2
    <3> QED BY <3>1, <3>2, <3>3 DEF Elsewhere
  <2> QED BY <2>1, <2>2
<1> QED BY <1>1, <1>2, <1>5 DEF ConformsTo

(* When an entry is put into the schema and the document, left alone,    *)
(* agrees with it, the document conforms if it did elsewhere.            *)
LEMMA KeepConforms ==
  ASSUME NEW schema, NEW doc, NEW k, NEW e, Elsewhere(schema, doc, k), Here(e, doc, k)
  PROVE  ConformsTo(With(schema, k, e), doc)
<1>1. PICK s : s = With(schema, k, e)
  OBVIOUS
<1>3. DOMAIN s = DOMAIN schema \cup {k} /\ s[k] = e /\ \A x \in DOMAIN schema : x # k => s[x] = schema[x]
  BY <1>1 DEF With
<1>5. ASSUME NEW f \in DOMAIN s
      PROVE  IF f \in DOMAIN doc THEN Admits(s[f], doc[f]) ELSE ~s[f].required
  <2>1. CASE f = k
    BY <1>3, <2>1 DEF Here
  <2>2. CASE f # k
    <3>1. f \in DOMAIN schema \ {k} /\ s[f] = schema[f]
      BY <1>3, <2>2
    <3> QED BY <3>1 DEF Elsewhere
  <2> QED BY <2>1, <2>2
<1> QED BY <1>1, <1>5 DEF ConformsTo

(* When an entry that is not required is put into the schema and the     *)
(* field is taken out of the document, the document conforms if it did   *)
(* elsewhere.                                                            *)
LEMMA DropConforms ==
  ASSUME NEW schema, NEW doc, NEW k, NEW e, Elsewhere(schema, doc, k), ~e.required
  PROVE  ConformsTo(With(schema, k, e), Without(doc, k))
<1>1. PICK d : d = Without(doc, k)
  OBVIOUS
<1>2. DOMAIN d = DOMAIN doc \ {k} /\ \A x \in DOMAIN doc : x # k => d[x] = doc[x]
  BY <1>1, WithoutFacts
<1>3. Elsewhere(schema, d, k)
  BY <1>2 DEF Elsewhere
<1>4. Here(e, d, k)
  BY <1>2 DEF Here
<1> QED BY <1>1, <1>3, <1>4, KeepConforms

(* A document that conforms does so at one field and at the others. *)
LEMMA ConformsElsewhere ==
  ASSUME NEW schema, NEW doc, ConformsTo(schema, doc), NEW k
  PROVE  /\ Elsewhere(schema, doc, k)
         /\ k \in DOMAIN schema => Here(schema[k], doc, k)
BY DEF ConformsTo, Elsewhere, Here

(* When a field is taken out of the schema the document conforms if it   *)
(* did elsewhere, whether it keeps the field (abandon) or not (remove).  *)
LEMMA RemoveConforms ==
  ASSUME NEW schema, NEW doc, NEW k, Elsewhere(schema, doc, k)
  PROVE  /\ ConformsTo(Without(schema, k), doc)
         /\ ConformsTo(Without(schema, k), Without(doc, k))
<1>1. PICK s : s = Without(schema, k)
  OBVIOUS
<1>2. PICK d : d = Without(doc, k)
  OBVIOUS
<1>3. DOMAIN s = DOMAIN schema \ {k} /\ \A x \in DOMAIN schema : x # k => s[x] = schema[x]
  BY <1>1, WithoutFacts
<1>4. DOMAIN d = DOMAIN doc \ {k} /\ \A x \in DOMAIN doc : x # k => d[x] = doc[x]
  BY <1>2, WithoutFacts
<1>5. ConformsTo(s, doc)
  BY <1>3 DEF ConformsTo, Elsewhere
<1>6. ConformsTo(s, d)
  BY <1>3, <1>4 DEF ConformsTo, Elsewhere
<1> QED BY <1>1, <1>2, <1>5, <1>6

(* A schema without a field does not look at it: the document that        *)
(* conforms elsewhere may be given any value there.                      *)
LEMMA RestConforms ==
  ASSUME NEW schema, NEW doc, NEW k, NEW v, Elsewhere(schema, doc, k)
  PROVE  ConformsTo(Without(schema, k), With(doc, k, v))
<1>1. PICK s : s = Without(schema, k)
  OBVIOUS
<1>2. PICK d : d = With(doc, k, v)
  OBVIOUS
<1>3. DOMAIN s = DOMAIN schema \ {k} /\ \A x \in DOMAIN schema : x # k => s[x] = schema[x]
  BY <1>1, WithoutFacts
<1>4. DOMAIN d = DOMAIN doc \cup {k} /\ \A x \in DOMAIN doc : x # k => d[x] = doc[x]
  BY <1>2 DEF With
<1>5. ConformsTo(s, d)
  BY <1>3, <1>4 DEF ConformsTo, Elsewhere
<1> QED BY <1>1, <1>2, <1>5

(* No entry is of the kind of null. *)
LEMMA EntryFacts ==
  ASSUME NEW e \in Entries
  PROVE  e.kind \in JsonKinds /\ e.kind # "null"
BY DEF Entries, JsonKinds

(* A value of the entry's kind that meets what the entry asks is         *)
(* admitted.                                                             *)
LEMMA KindAdmitted ==
  ASSUME NEW e \in Entries, NEW v, v[1] = e.kind, e.asks \subseteq Has(v)
  PROVE  Admits(e, v)
<1>1. v # Null
  BY EntryFacts DEF Null
<1> QED BY <1>1 DEF Admits

(* An operation whose value fits the entry it brings carries a value the *)
(* entry admits.                                                         *)
LEMMA FittingAdmitted ==
  ASSUME NEW e \in Entries, NEW v \in Fitting(e)
  PROVE  Admits(e, v)
<1>1. CASE v \in FittingValues(e)
  <2>1. v[1] = e.kind /\ e.asks \subseteq Has(v)
    BY <1>1 DEF FittingValues, Values
  <2> QED BY <2>1, KindAdmitted
<1>2. CASE e.nullable /\ v = Null
  BY <1>2 DEF Admits
<1> QED BY <1>1, <1>2 DEF Fitting

(* convertKind returns a value of the kind asked for, whatever it is     *)
(* given.                                                                *)
LEMMA ConvertKindFacts ==
  ASSUME NEW v, NEW kind \in JsonKinds
  PROVE  ConvertKind(v, kind)[1] = kind
BY DEF ConvertKind, JsonKinds

(* The empty value of a kind is of that kind. *)
LEMMA EmptyValueFacts ==
  ASSUME NEW kind \in JsonKinds
  PROVE  EmptyValueForKind(kind)[1] = kind
BY DEF EmptyValueForKind, JsonKinds

(* selectFillValue finds nothing only for a field that is not required,  *)
(* and what it finds (the operation's value, its default, its failover,  *)
(* null or the empty value of the kind) is admitted by the entry, the    *)
(* empty value unless the entry asks more of it than its kind.           *)
LEMMA FillFacts ==
  ASSUME NEW o, NEW p, NEW q, NEW e \in Entries,
         NEW d \in Optional(Fitting(e)), NEW v \in Optional(Fitting(e)),
         NEW f \in Optional(FittingValues(e)),
         NEW op, op = Op(o, p, q, e, d, v, f)
  PROVE  /\ SelectFillValue(op) = None => ~e.required
         /\ SelectFillValue(op) # None =>
                \/ Admits(e, The(SelectFillValue(op)))
                \/ /\ v = {} /\ d = {} /\ f = {}
                   /\ ~(e.asks \subseteq Has(EmptyValueForKind(e.kind)))
         /\ v # None => Admits(e, The(v))
<1>1. op.value = v /\ op.default = d /\ op.failover = f /\ op.schema = e
  BY DEF Op
<1>2. \A w : The({w}) = w
  BY DEF The
<1>3. ASSUME NEW S \in Optional(Fitting(e)), S # None PROVE Admits(e, The(S))
  <2>1. PICK w \in Fitting(e) : S = {w}
    BY <1>3 DEF Optional
  <2> QED BY <1>2, <2>1, FittingAdmitted
<1>4. f \in Optional(Fitting(e))
  BY DEF Optional, Fitting
<1>5. e.nullable => Admits(e, The({Null}))
  BY <1>2 DEF Admits
<1>6. PICK w : w = EmptyValueForKind(e.kind)
  OBVIOUS
<1>7. e.asks \subseteq Has(w) => Admits(e, The({w}))
  <2>1. w[1] = e.kind
    BY <1>6, EntryFacts, EmptyValueFacts
  <2> QED BY <1>2, <2>1, KindAdmitted
<1>8. None = {} /\ None # {Null} /\ None # {w}
  BY DEF None
<1> QED BY <1>1, <1>3, <1>4, <1>5, <1>6, <1>7, <1>8 DEF SelectFillValue

(* The document conforms after the operation, or it does apart from the  *)
(* field the operation is about, whose value is of the new kind only.    *)
MigratedButFor(schema, doc, op) ==
    \/ ConformsTo(ApplyOp(schema, op), ApplyDocOp(doc, op))
    \/ /\ MeetsKindOnly(doc, op)
       /\ ConformsTo(Without(schema, op.path), ApplyDocOp(doc, op))

(* add and import put their entry into the schema and keep, fill or drop *)
(* the document's field.                                                 *)
LEMMA AddMigrates ==
  ASSUME NEW schema, NEW doc, ConformsTo(schema, doc),
         NEW o \in {"add", "import"}, NEW p, NEW e \in Entries,
         NEW d \in Optional(Fitting(e)), NEW v \in Optional(Fitting(e)),
         NEW f \in Optional(FittingValues(e)),
         NEW op, op = Op(o, p, p, e, d, v, f)
  PROVE  MigratedButFor(schema, doc, op)
<1>1. /\ op.op = o /\ op.path = p /\ op.schema = e
      /\ op.value = v /\ op.default = d /\ op.failover = f
  BY DEF Op
<1>2. PICK fill : fill = SelectFillValue(op)
  OBVIOUS
<1>3. /\ fill = None => ~e.required
      /\ fill # None => \/ Admits(e, The(fill))
                        \/ /\ v = {} /\ d = {} /\ f = {}
                           /\ ~(e.asks \subseteq Has(EmptyValueForKind(e.kind)))
  BY <1>2, FillFacts
<1>4. Elsewhere(schema, doc, p)
  BY ConformsElsewhere
<1>5. ApplyOp(schema, op) = With(schema, p, e)
  BY <1>1 DEF ApplyOp
<1>6. ApplyDocOp(doc, op) = ApplyDocAdd(doc, op)
  BY <1>1 DEF ApplyDocOp
<1>7. CASE o = "import" /\ p \in DOMAIN doc /\ doc[p][1] = e.kind
  <2>1. ApplyDocAdd(doc, op) = doc
    BY <1>1, <1>7 DEF ApplyDocAdd
  <2>2. CASE e.asks \subseteq Has(doc[p])
    <3>1. Here(e, doc, p)
      BY <1>7, <2>2, KindAdmitted DEF Here
    <3>2. ConformsTo(With(schema, p, e), doc)
      BY <1>4, <3>1, KeepConforms
    <3> QED BY <1>5, <1>6, <2>1, <3>2 DEF MigratedButFor
  <2>3. CASE ~(e.asks \subseteq Has(doc[p]))
    <3>1. doc[p] \in Unchecked(doc, op)
      BY <1>1, <1>7 DEF Unchecked
    <3>2. MeetsKindOnly(doc, op)
      BY <1>1, <1>7, <2>3, <3>1 DEF MeetsKindOnly
    <3>3. ConformsTo(Without(schema, p), doc)
      BY <1>4, RemoveConforms
    <3> QED BY <1>1, <1>6, <2>1, <3>2, <3>3 DEF MigratedButFor
  <2> QED BY <2>2, <2>3
<1>8. CASE ~(o = "import" /\ p \in DOMAIN doc /\ doc[p][1] = e.kind)
  <2>1. ApplyDocAdd(doc, op) = IF fill = None THEN Without(doc, p) ELSE With(doc, p, The(fill))
    BY <1>1, <1>2, <1>8 DEF ApplyDocAdd
  <2>2. CASE fill = None
    <3>1. ConformsTo(With(schema, p, e), Without(doc, p))
      BY <1>3, <1>4, <2>2, DropConforms
    <3> QED BY <1>5, <1>6, <2>1, <2>2, <3>1 DEF MigratedButFor
  <2>3. CASE fill # None /\ Admits(e, The(fill))
    <3>1. ConformsTo(With(schema, p, e), With(doc, p, The(fill)))
      BY <1>4, <2>3, SetConforms
    <3> QED BY <1>5, <1>6, <2>1, <2>3, <3>1 DEF MigratedButFor
  <2>4. CASE fill # None /\ ~Admits(e, The(fill))
    <3>1. /\ v = {} /\ d = {} /\ f = {}
          /\ ~(e.asks \subseteq Has(EmptyValueForKind(e.kind)))
      BY <1>3, <2>4
    <3>2. EmptyValueForKind(e.kind) \in Unchecked(doc, op)
      BY <1>1, <1>8, <3>1 DEF Unchecked
    <3>3. MeetsKindOnly(doc, op)
      BY <1>1, <3>1, <3>2, EntryFacts, EmptyValueFacts DEF MeetsKindOnly
    <3>4. ConformsTo(Without(schema, p), With(doc, p, The(fill)))
      BY <1>4, RestConforms
    <3> QED BY <1>1, <1>6, <2>1, <2>4, <3>3, <3>4 DEF MigratedButFor
  <2> QED BY <2>2, <2>3, <2>4
<1> QED BY <1>7, <1>8

(* convert puts its entry into the schema and replaces, converts or      *)
(* fills the document's field.                                           *)
LEMMA ConvertMigrates ==
  ASSUME NEW schema, NEW doc, ConformsTo(schema, doc), NEW p, NEW e \in Entries,
         NEW d \in Optional(Fitting(e)), NEW v \in Optional(Fitting(e)),
         NEW f \in Optional(FittingValues(e)),
         NEW op, op = Op("convert", p, p, e, d, v, f)
  PROVE  MigratedButFor(schema, doc, op)
<1>1. /\ op.op = "convert" /\ op.path = p /\ op.schema = e
      /\ op.value = v /\ op.default = d /\ op.failover = f
  BY DEF Op
<1>2. PICK fill : fill = SelectFillValue(op)
  OBVIOUS
<1>3. /\ fill = None => ~e.required
      /\ fill # None => \/ Admits(e, The(fill))
                        \/ /\ v = {} /\ d = {} /\ f = {}
                           /\ ~(e.asks \subseteq Has(EmptyValueForKind(e.kind)))
      /\ v # None => Admits(e, The(v))
  BY <1>2, FillFacts
<1>4. Elsewhere(schema, doc, p)
  BY ConformsElsewhere
<1>5. ApplyOp(schema, op) = With(schema, p, e)
  BY <1>1 DEF ApplyOp
<1>6. ApplyDocOp(doc, op) = ApplyDocConvert(doc, op)
  BY <1>1 DEF ApplyDocOp
<1>7. CASE v # None
  <2>1. ApplyDocConvert(doc, op) = With(doc, p, The(v))
    BY <1>1, <1>7 DEF ApplyDocConvert
  <2>2. ConformsTo(With(schema, p, e), With(doc, p, The(v)))
    BY <1>3, <1>4, <1>7, SetConforms
  <2> QED BY <1>5, <1>6, <2>1, <2>2 DEF MigratedButFor
<1>8. CASE v = None /\ p \in DOMAIN doc
  <2>1. PICK w : w = ConvertKind(doc[p], e.kind)
    OBVIOUS
  <2>2. ApplyDocConvert(doc, op) = With(doc, p, w)
    BY <1>1, <1>8, <2>1 DEF ApplyDocConvert
  <2>3. w[1] = e.kind
    BY <2>1, EntryFacts, ConvertKindFacts
  <2>4. CASE e.asks \subseteq Has(w)
    <3>1. ConformsTo(With(schema, p, e), With(doc, p, w))
      BY <1>4, <2>3, <2>4, KindAdmitted, SetConforms
    <3> QED BY <1>5, <1>6, <2>2, <3>1 DEF MigratedButFor
  <2>5. CASE ~(e.asks \subseteq Has(w))
    <3>1. w \in Unchecked(doc, op)
      BY <1>1, <1>8, <2>1 DEF Unchecked
    <3>2. MeetsKindOnly(doc, op)
      BY <1>1, <2>3, <2>5, <3>1 DEF MeetsKindOnly
    <3>3. ConformsTo(Without(schema, p), With(doc, p, w))
      BY <1>4, RestConforms
    <3> QED BY <1>1, <1>6, <2>2, <3>2, <3>3 DEF MigratedButFor
  <2> QED BY <2>4, <2>5
<1>9. CASE v = None /\ p \notin DOMAIN doc
  <2>1. ApplyDocConvert(doc, op) = IF fill = None THEN doc ELSE With(doc, p, The(fill))
    BY <1>1, <1>2, <1>9 DEF ApplyDocConvert
  <2>2. CASE fill = None
    <3>1. Here(e, doc, p)
      BY <1>3, <1>9, <2>2 DEF Here
    <3>2. ConformsTo(With(schema, p, e), doc)
      BY <1>4, <3>1, KeepConforms
    <3> QED BY <1>5, <1>6, <2>1, <2>2, <3>2 DEF MigratedButFor
  <2>3. CASE fill # None /\ Admits(e, The(fill))
    <3>1. ConformsTo(With(schema, p, e), With(doc, p, The(fill)))
      BY <1>4, <2>3, SetConforms
    <3> QED BY <1>5, <1>6, <2>1, <2>3, <3>1 DEF MigratedButFor
  <2>4. CASE fill # None /\ ~Admits(e, The(fill))
    <3>1. /\ v = {} /\ d = {} /\ f = {}
          /\ ~(e.asks \subseteq Has(EmptyValueForKind(e.kind)))
      BY <1>3, <2>4
    <3>2. EmptyValueForKind(e.kind) \in Unchecked(doc, op)
      BY <1>1, <1>9, <3>1 DEF Unchecked
    <3>3. MeetsKindOnly(doc, op)
      BY <1>1, <3>1, <3>2, EntryFacts, EmptyValueFacts DEF MeetsKindOnly
    <3>4. ConformsTo(Without(schema, p), With(doc, p, The(fill)))
      BY <1>4, RestConforms
    <3> QED BY <1>1, <1>6, <2>1, <2>4, <3>3, <3>4 DEF MigratedButFor
  <2> QED BY <2>2, <2>3, <2>4
<1> QED BY <1>7, <1>8, <1>9

(* move and copy carry entry and value to the same field; a document     *)
(* without the value has none of it afterwards either, unless an extra   *)
(* of that name was in the way.                                          *)
LEMMA MoveMigrates ==
  ASSUME NEW schema, NEW doc, ConformsTo(schema, doc),
         NEW o \in {"move", "copy"}, NEW p, NEW q,
         NEW op, op = Op(o, p, q, NoEntry, None, None, None), Applies(schema, op)
  PROVE  \/ ConformsTo(ApplyOp(schema, op), ApplyDocOp(doc, op))
         \/ ExtraCaptured(doc, op)
<1>1. op.op = o /\ op.path = p /\ op.from = q
  BY DEF Op
<1>2. q \in DOMAIN schema /\ p \notin DOMAIN schema /\ p # q
  BY <1>1 DEF Applies
<1>3. PICK e : e = schema[q]
  OBVIOUS
<1>4. Here(e, doc, q)
  BY <1>2, <1>3, ConformsElsewhere
<1>5. CASE q \notin DOMAIN doc
  <2>1. ApplyDocOp(doc, op) = doc
    BY <1>1, <1>5 DEF ApplyDocOp
  <2>2. ~e.required
    BY <1>4, <1>5 DEF Here
  <2>3. CASE p \in DOMAIN doc
    BY <1>1, <1>5, <2>3 DEF ExtraCaptured
  <2>4. CASE p \notin DOMAIN doc
    <3>1. Here(e, doc, p)
      BY <2>2, <2>4 DEF Here
    <3>2. CASE o = "copy"
      <4>1. ApplyOp(schema, op) = With(schema, p, e)
        BY <1>1, <1>3, <3>2 DEF ApplyOp
      <4>2. Elsewhere(schema, doc, p)
        BY ConformsElsewhere
      <4> QED BY <2>1, <3>1, <4>1, <4>2, KeepConforms
    <3>3. CASE o = "move"
      <4>1. ApplyOp(schema, op) = With(Without(schema, q), p, e)
        BY <1>1, <1>3, <3>3 DEF ApplyOp
      <4>2. ConformsTo(Without(schema, q), doc)
        BY ConformsElsewhere, RemoveConforms
      <4>3. Elsewhere(Without(schema, q), doc, p)
        BY <4>2, ConformsElsewhere
      <4> QED BY <2>1, <3>1, <4>1, <4>3, KeepConforms
    <3> QED BY <3>2, <3>3
  <2> QED BY <2>3, <2>4
<1>6. CASE q \in DOMAIN doc
  <2>1. Admits(e, doc[q])
    BY <1>4, <1>6 DEF Here
  <2>2. CASE o = "copy"
    <3>1. ApplyOp(schema, op) = With(schema, p, e)
      BY <1>1, <1>3, <2>2 DEF ApplyOp
    <3>2. ApplyDocOp(doc, op) = With(doc, p, doc[q])
      BY <1>1, <1>6, <2>2 DEF ApplyDocOp
    <3>3. Elsewhere(schema, doc, p)
      BY ConformsElsewhere
    <3> QED BY <2>1, <3>1, <3>2, <3>3, SetConforms
  <2>3. CASE o = "move"
    <3>1. ApplyOp(schema, op) = With(Without(schema, q), p, e)
      BY <1>1, <1>3, <2>3 DEF ApplyOp
    <3>2. ApplyDocOp(doc, op) = With(Without(doc, q), p, doc[q])
      BY <1>1, <1>6, <2>3 DEF ApplyDocOp
    <3>3. ConformsTo(Without(schema, q), Without(doc, q))
      BY ConformsElsewhere, RemoveConforms
    <3>4. Elsewhere(Without(schema, q), Without(doc, q), p)
      BY <3>3, ConformsElsewhere
    <3> QED BY <2>1, <3>1, <3>2, <3>4, SetConforms
  <2> QED BY <2>2, <2>3
<1> QED BY <1>5, <1>6

(* remove and abandon take the entry away and the document conforms to   *)
(* what remains.                                                         *)
LEMMA RemoveMigrates ==
  ASSUME NEW schema, NEW doc, ConformsTo(schema, doc), NEW o \in {"remove", "abandon"}, NEW p,
         NEW op, op = Op(o, p, p, NoEntry, None, None, None)
  PROVE  ConformsTo(ApplyOp(schema, op), ApplyDocOp(doc, op))
<1>1. op.op = o /\ op.path = p
  BY DEF Op
<1>2. ApplyOp(schema, op) = Without(schema, p)
  BY <1>1 DEF ApplyOp
<1>3. ApplyDocOp(doc, op) \in {doc, Without(doc, p)}
  BY <1>1 DEF ApplyDocOp
<1>4. Elsewhere(schema, doc, p)
  BY ConformsElsewhere
<1> QED BY <1>2, <1>3, <1>4, RemoveConforms

(* replace with a value that fits the entry leaves the schema as it is   *)
(* and the document conforming to it.                                    *)
LEMMA ReplaceMigrates ==
  ASSUME NEW schema, NEW doc, ConformsTo(schema, doc), NEW p \in DOMAIN schema,
         schema[p] \in Entries, NEW v \in Fitting(schema[p]),
         NEW op, op = Op("replace", p, p, schema[p], None, {v}, None)
  PROVE  ConformsTo(ApplyOp(schema, op), ApplyDocOp(doc, op))
<1>1. op.op = "replace" /\ op.path = p /\ op.value = {v}
  BY DEF Op
<1>2. ApplyOp(schema, op) = schema
  BY <1>1 DEF ApplyOp
<1>3. ApplyDocOp(doc, op) = With(doc, p, v)
  BY <1>1 DEF ApplyDocOp, The
<1>4. Admits(schema[p], v)
  BY FittingAdmitted
<1>5. PICK d : d = With(doc, p, v)
  OBVIOUS
<1>6. DOMAIN d = DOMAIN doc \cup {p} /\ d[p] = v /\ \A x \in DOMAIN doc : x # p => d[x] = doc[x]
  BY <1>5 DEF With
<1>7. ConformsTo(schema, d)
  BY <1>4, <1>6 DEF ConformsTo
<1> QED BY <1>2, <1>3, <1>5, <1>7

(* Every update that the schema's side accepts and the document's side   *)
(* carries out leaves a conforming document conforming, but where an     *)
(* extra was captured or only the kind of a value was looked at.         *)
LEMMA Migrates ==
  ASSUME NEW schema \in PatchSchemas, NEW doc \in Documents(schema)
  PROVE  MigratesWell(schema, doc)
<1>1. ConformsTo(schema, doc)
  BY DEF Documents
<1>2. \A p \in DOMAIN schema : schema[p] \in Entries
  BY DEF PatchSchemas
<1>3. ASSUME NEW op \in Updates(schema), Applies(schema, op), ~DocOpFails(op)
      PROVE  MigratedButFor(schema, doc, op) \/ ExtraCaptured(doc, op)
  <2>1. ASSUME NEW e \in Entries, NEW o \in {"add", "import", "convert"}, NEW p \in Fields,
               NEW d \in Optional(Fitting(e)), NEW v \in Optional(Fitting(e)),
               NEW f \in Optional(FittingValues(e)), op = Op(o, p, p, e, d, v, f)
        PROVE  MigratedButFor(schema, doc, op)
    <3>1. CASE o \in {"add", "import"}
      BY <1>1, <2>1, <3>1, AddMigrates
    <3>2. CASE o = "convert"
      BY <1>1, <2>1, <3>2, ConvertMigrates
    <3> QED BY <3>1, <3>2
  <2>2. ASSUME NEW o \in {"move", "copy"}, NEW p \in Fields, NEW q \in Fields,
               op = Op(o, p, q, NoEntry, None, None, None)
        PROVE  \/ ConformsTo(ApplyOp(schema, op), ApplyDocOp(doc, op))
               \/ ExtraCaptured(doc, op)
    BY <1>1, <1>3, <2>2, MoveMigrates
  <2>3. ASSUME NEW o \in {"remove", "abandon", "replace"}, NEW p \in Fields,
               op = Op(o, p, p, NoEntry, None, None, None)
        PROVE  ConformsTo(ApplyOp(schema, op), ApplyDocOp(doc, op))
    <3>1. o # "replace"
      BY <1>3, <2>3 DEF DocOpFails, Op
    <3> QED BY <1>1, <2>3, <3>1, RemoveMigrates
  <2>4. ASSUME NEW p \in DOMAIN schema, NEW v \in Fitting(schema[p]),
               op = Op("replace", p, p, schema[p], None, {v}, None)
        PROVE  ConformsTo(ApplyOp(schema, op), ApplyDocOp(doc, op))
    BY <1>1, <1>2, <2>4, ReplaceMigrates
  <2>5. \/ \E e \in Entries : op \in EntryUpdates(e)
        \/ op \in MoveUpdates
        \/ op \in BareUpdates
        \/ \E p \in DOMAIN schema : op \in ReplaceUpdates(schema, p)
    BY DEF Updates, AnyUpdates
  <2>6. ASSUME NEW e \in Entries, op \in EntryUpdates(e)
        PROVE  MigratedButFor(schema, doc, op)
    BY <2>1, <2>6 DEF EntryUpdates
  <2>7. ASSUME op \in MoveUpdates
        PROVE  \/ ConformsTo(ApplyOp(schema, op), ApplyDocOp(doc, op))
               \/ ExtraCaptured(doc, op)
    BY <2>2, <2>7 DEF MoveUpdates
  <2>8. ASSUME op \in BareUpdates
        PROVE  ConformsTo(ApplyOp(schema, op), ApplyDocOp(doc, op))
    BY <2>3, <2>8 DEF BareUpdates
  <2>9. ASSUME NEW p \in DOMAIN schema, op \in ReplaceUpdates(schema, p)
        PROVE  ConformsTo(ApplyOp(schema, op), ApplyDocOp(doc, op))
    BY <2>4, <2>9 DEF ReplaceUpdates
  <2> QED BY <2>5, <2>6, <2>7, <2>8, <2>9 DEF MigratedButFor
<1> QED BY <1>3 DEF MigratesWell, MigratedButFor

(* MigrationConforms for every schema, every document that conforms to it  *)
(* and every update, over any fields, texts and constraints: the           *)
(* document's side of an accepted update leaves the document conforming to *)
(* what the schema's side made of the schema, except where it captures an  *)
(* extra and where it settles on a value of the right kind that fails what *)
(* the new schema asks beyond it; then only that field is at fault.        *)
THEOREM MigrationsConform == InputSpec => []MigrationConforms
<1>1. InitInput => MigrationConforms
  BY DEF InitInput, MigrationConforms
<1>2. MigrationConforms /\ [PickInput]_input => MigrationConforms'
  <2> SUFFICES ASSUME MigrationConforms, [PickInput]_input PROVE MigrationConforms'
    OBVIOUS
  <2>1. CASE PickUpgrade
    <3>1. PICK s \in PatchSchemas : \E d \in Documents(s) :
              input' = [of |-> "upgrade", schema |-> s, doc |-> d]
      BY <2>1 DEF PickUpgrade
    <3>2. PICK d \in Documents(s) : input' = [of |-> "upgrade", schema |-> s, doc |-> d]
      BY <3>1
    <3>3. input'.schema = s /\ input'.doc = d
      BY <3>2
    <3>4. MigratesWell(s, d)
      BY Migrates
    <3> QED BY <3>3, <3>4 DEF MigrationConforms
  <2>2. CASE PickSearch \/ PickShardMap \/ PickAttachment
    <3>1. input'.of # "upgrade"
      BY <2>2 DEF PickSearch, PickShardMap, PickAttachment
    <3> QED BY <3>1 DEF MigrationConforms
  <2>3. CASE UNCHANGED input
    BY <2>3 DEF MigrationConforms
  <2> QED BY <2>1, <2>2, <2>3 DEF PickInput
<1> QED BY <1>1, <1>2, PTL DEF InputSpec

-----------------------------------------------------------------------------
(* SearchEval: where a document is filed and where a query looks *)

(* The outcome of a clause for a document and the segment a query looks  *)
(* under answer whether the document is meant: a clause without a        *)
(* segment lets the document pass or leaves it out, one with a segment   *)
(* files the document under the segment exactly when it is meant.        *)
Answers(o, q, meant) ==
    \/ q.seg = <<>> /\ o = Pass /\ meant
    \/ q.seg = <<>> /\ o = LeftOut /\ ~meant
    \/ \E g, S : q.seg = <<g>> /\ o = Filed(S) /\ (g \in S <=> meant)

(* The change agent's reading of a clause and the reader's agree with    *)
(* what the clause means, where neither refuses it.                      *)
ClauseRight(c, v, x) ==
    ResolveClauseQuery(c, x).ok /\ ~EvaluateClause(c, v).error =>
        Answers(EvaluateClause(c, v), ResolveClauseQuery(c, x), Means(c, v, x))

(* A scalar of a kind is a pair of that kind and a text, and is not      *)
(* null.                                                                 *)
LEMMA ScalarFacts ==
  ASSUME NEW kind \in Kinds, NEW s \in OfKind(kind)
  PROVE  /\ s[1] = kind
         /\ s = <<kind, s[2]>>
         /\ s # JsonNull
         /\ kind = "string" => s[2] \in StringTexts
         /\ kind = "boolean" => s \in Booleans
<1>1. s \in Scalars /\ s[1] = kind
  BY DEF OfKind
<1>2. s # JsonNull
  BY <1>1 DEF JsonNull, Scalar, Kinds
<1>3. \/ s \in Strings \/ s \in Booleans \/ s \in Numbers
  BY <1>1, <1>2 DEF Scalars
<1>4. s \in Strings => s[1] = "string" /\ s[2] \in StringTexts /\ s = <<s[1], s[2]>>
  BY DEF Strings, Scalar
<1>5. s \in Booleans => s[1] = "boolean" /\ s = <<s[1], s[2]>>
  BY DEF Booleans, Scalar
<1>6. s \in Numbers => s[1] = "number" /\ s = <<s[1], s[2]>>
  BY DEF Numbers, Scalar
<1> QED BY <1>1, <1>2, <1>3, <1>4, <1>5, <1>6

(* EncodeScalar gives different values of one kind different segments: a *)
(* hexadecimal text can be read back and is never the word for the empty *)
(* string.                                                               *)
LEMMA EncodeInjective ==
  ASSUME NEW kind \in Kinds, NEW s \in OfKind(kind), NEW t \in OfKind(kind),
         EncodeScalar(s) = EncodeScalar(t)
  PROVE  s = t
<1>1. s[1] = kind /\ t[1] = kind /\ s = <<kind, s[2]>> /\ t = <<kind, t[2]>>
  BY ScalarFacts
<1>2. CASE kind = "string"
  <2>1. s[2] \in StringTexts /\ t[2] \in StringTexts
    BY <1>2, ScalarFacts
  <2>2. EncodeStringValue(s) = EncodeStringValue(t)
    BY <1>1, <1>2 DEF EncodeScalar
  <2>3. s[2] = t[2]
    BY <2>1, <2>2, SearchEvalAssumption DEF EncodeStringValue
  <2> QED BY <1>1, <2>3
<1>3. CASE kind # "string"
  <2>1. s[2] = t[2]
    BY <1>1, <1>3 DEF EncodeScalar
  <2> QED BY <1>1, <2>1
<1> QED BY <1>2, <1>3

(* A value of a kind has another segment than null. *)
LEMMA EncodeNotNull ==
  ASSUME NEW kind \in Kinds, NEW s \in OfKind(kind)
  PROVE  EncodeScalar(s) # EncodeScalar(JsonNull)
<1>1. EncodeScalar(JsonNull) = "null"
  BY DEF EncodeScalar, JsonNull, Scalar
<1>2. s[1] = kind
  BY ScalarFacts
<1>3. CASE kind = "string"
  <2>1. s[2] \in StringTexts
    BY <1>3, ScalarFacts
  <2>2. EncodeScalar(s) = EncodeStringValue(s)
    BY <1>2, <1>3 DEF EncodeScalar
  <2>3. EncodeStringValue(s) # "null"
    BY <2>1, SearchEvalAssumption DEF EncodeStringValue
  <2> QED BY <1>1, <2>2, <2>3
<1>4. CASE kind # "string"
  <2>1. EncodeScalar(s) = s[2]
    BY <1>2, <1>4 DEF EncodeScalar
  <2>2. s \in Booleans \cup Numbers
    BY <1>2, <1>4, ScalarFacts DEF OfKind, Scalars, Strings, Scalar
  <2>3. s[2] # "null"
    <3>1. CASE s \in Booleans
      <4>1. s[2] \in {"true", "false"}
        BY <3>1 DEF Booleans, Scalar
      <4> QED BY <4>1
    <3>2. CASE s \in Numbers
      <4>1. s[2] \in NumberTexts
        BY <3>2 DEF Numbers, Scalar
      <4> QED BY <4>1, SearchEvalAssumption
    <3> QED BY <2>2, <3>1, <3>2
  <2> QED BY <1>1, <2>1, <2>3
<1> QED BY <1>3, <1>4

(* A field holds nothing, null, a scalar of its kind or an array of      *)
(* such and nulls.                                                       *)
LEMMA ValueForms ==
  ASSUME NEW schema \in Schemas, NEW v \in FieldValues(schema)
  PROVE  \/ v = Absent
         \/ v = One(JsonNull)
         \/ ~schema.array /\ \E t \in OfKind(schema.kind) : v = One(t)
         \/ schema.array /\ \E S \in SUBSET (OfKind(schema.kind) \cup {JsonNull}) : v = Many(S)
BY DEF FieldValues

(* The shapes of a field and the outcomes of a clause are told apart by  *)
(* their tags.                                                           *)
LEMMA ShapeFacts ==
  /\ Absent.is = "absent"
  /\ \A s : One(s).is = "scalar" /\ One(s).value = s
  /\ \A S : Many(S).is = "array" /\ Many(S).items = S
  /\ \A s : Absent # One(s)
  /\ \A S : Absent # Many(S)
  /\ \A s, S : One(s) # Many(S)
  /\ \A s, t : One(s) = One(t) <=> s = t
  /\ Filed({}) = LeftOut /\ Pass # LeftOut
  /\ \A S : Filed(S).error = FALSE /\ Filed(S).pass = FALSE /\ Filed(S).segs = S
  /\ Error.error = TRUE
  /\ Pass.error = FALSE /\ Pass.pass = TRUE
<1>1. Absent.is = "absent"
  BY DEF Absent
<1>2. \A s : One(s).is = "scalar" /\ One(s).value = s
  BY DEF One
<1>3. \A S : Many(S).is = "array" /\ Many(S).items = S
  BY DEF Many
<1>4. Filed({}) = LeftOut
  BY DEF LeftOut
<1>5. \A S : Filed(S).error = FALSE /\ Filed(S).pass = FALSE /\ Filed(S).segs = S
  BY DEF Filed
<1>6. Error.error = TRUE /\ Pass.error = FALSE /\ Pass.pass = TRUE
  BY DEF Error, Pass
<1>7. Pass # LeftOut
  BY <1>4, <1>5, <1>6
<1> QED BY <1>1, <1>2, <1>3, <1>4, <1>5, <1>6, <1>7

(* A query for true or false looks under the segment that EncodeTruth    *)
(* gives exactly when it asks for the truth value the document has.      *)
LEMMA TruthAnswers ==
  ASSUME NEW b \in BOOLEAN, NEW x \in Booleans
  PROVE  /\ Truth(x).ok /\ Truth(x).seg = <<x[2]>>
         /\ x[2] \in {EncodeTruth(b)} <=> (b <=> x = Scalar("boolean", "true"))
<1>1. \/ x = <<"boolean", "true">>
      \/ x = <<"boolean", "false">>
  BY DEF Booleans, Scalar
<1>2. <<"boolean", "true">> # <<"boolean", "false">>
  OBVIOUS
<1> QED BY <1>1, <1>2 DEF Truth, At, EncodeTruth, Scalar

(* A clause that divides documents by a truth value answers rightly. *)
LEMMA TruthRight ==
  ASSUME NEW o, NEW q, NEW meant \in BOOLEAN, NEW b \in BOOLEAN, NEW x \in Booleans,
         o = Filed({EncodeTruth(b)}), q = Truth(x), meant <=> (b <=> x = Scalar("boolean", "true"))
  PROVE  Answers(o, q, meant)
<1>1. q.seg = <<x[2]>> /\ (x[2] \in {EncodeTruth(b)} <=> meant)
  BY TruthAnswers
<1>2. PICK S : S = {EncodeTruth(b)}
  OBVIOUS
<1>3. q.seg = <<x[2]>> /\ o = Filed(S) /\ (x[2] \in S <=> meant)
  BY <1>1, <1>2
<1>4. \E g, R : q.seg = <<g>> /\ o = Filed(R) /\ (g \in R <=> meant)
  BY <1>3, Zenon
<1> QED BY <1>4, Zenon DEF Answers

(* A document that is left out is under no segment. *)
LEMMA LeftOutRight ==
  ASSUME NEW o, NEW q, NEW g, o = LeftOut, q.seg = <<g>>
  PROVE  Answers(o, q, FALSE)
<1>1. o = Filed({})
  BY ShapeFacts
<1>2. PICK S : S = {}
  OBVIOUS
<1>3. q.seg = <<g>> /\ o = Filed(S) /\ (g \in S <=> FALSE)
  BY <1>1, <1>2
<1>4. \E h, R : q.seg = <<h>> /\ o = Filed(R) /\ (h \in R <=> FALSE)
  BY <1>3, Zenon
<1> QED BY <1>4, Zenon DEF Answers

(* A clause that files a document under segments answers rightly when    *)
(* the query's segment is among them exactly for a document that is      *)
(* meant.                                                                *)
LEMMA SegmentRight ==
  ASSUME NEW o, NEW q, NEW g, NEW S, NEW meant \in BOOLEAN,
         o = Filed(S), q.seg = <<g>>, g \in S <=> meant
  PROVE  Answers(o, q, meant)
<1>1. \E h, R : q.seg = <<h>> /\ o = Filed(R) /\ (h \in R <=> meant)
  BY Zenon
<1> QED BY <1>1, Zenon DEF Answers

(* A clause is read rightly when its outcome and its segment answer what *)
(* the clause means.                                                     *)
LEMMA RightIfAnswered ==
  ASSUME NEW c, NEW v, NEW x, NEW o, NEW q, NEW meant,
         o = EvaluateClause(c, v), q = ResolveClauseQuery(c, x),
         q.ok => (Means(c, v, x) <=> meant) /\ Answers(o, q, meant)
  PROVE  ClauseRight(c, v, x)
<1>1. ASSUME q.ok PROVE Answers(o, q, Means(c, v, x))
  <2>1. (Means(c, v, x) <=> meant) /\ Answers(o, q, meant)
    BY <1>1
  <2> QED BY <2>1, Zenon DEF Answers
<1> QED BY <1>1, Zenon DEF ClauseRight

(* equals with a variable: the document is filed under the encoding of   *)
(* its value, the query looks under the encoding of the variable, and    *)
(* both leave out what is too long for a segment.                        *)
LEMMA EqualsVariableRight ==
  ASSUME NEW c \in Clauses, NEW schema \in Schemas, Valid(c, schema), c.op = "equals", c.form = "variable",
         NEW v \in FieldValues(schema), NEW x \in Bindings(c, schema)
  PROVE  ClauseRight(c, v, x)
<1>1. PICK o : o = EvaluateClause(c, v)
  OBVIOUS
<1>2. PICK q : q = ResolveClauseQuery(c, x)
  OBVIOUS
<1>3. PICK kind \in Kinds : kind = schema.kind
  BY DEF Schemas
<1>4. x \in OfKind(kind)
  BY <1>3 DEF Bindings
<1>5. Means(c, v, x) <=> v = One(x)
  BY DEF Means
<1>6. o = EvaluateEquals(c, v) /\ q = ResolveEqualsQuery(c, x)
  BY <1>1, <1>2 DEF EvaluateClause, ResolveClauseQuery
<1>7. q.ok <=> (x[1] \in {"string", "boolean"} /\ ~TooLong(x))
  BY <1>6 DEF ResolveEqualsQuery, At, Refused
<1>8. q.ok => q.seg = <<EncodeScalar(x)>>
  BY <1>6 DEF ResolveEqualsQuery, At, Refused
<1>10. x # JsonNull /\ x[1] = kind
  BY <1>4, ScalarFacts
<1>11. CASE v = Absent
  <2>1. o = LeftOut
    <3>1. v.is = "absent" /\ v # One(JsonNull)
      BY <1>11, ShapeFacts
    <3> QED BY <1>6, <1>11, <3>1 DEF EvaluateEquals
  <2>2. v # One(x)
    BY <1>11, ShapeFacts
  <2>3. q.ok => Answers(o, q, FALSE)
    BY <1>8, <2>1, LeftOutRight
  <2> QED BY <1>1, <1>2, <1>5, <2>2, <2>3, RightIfAnswered
<1>12. CASE v = One(JsonNull)
  <2>1. v.is = "scalar" /\ v.value = JsonNull /\ v # Absent
    BY <1>12, ShapeFacts
  <2>2. JsonNull[1] = "null"
    BY DEF JsonNull, Scalar
  <2>3. o = LeftOut
    BY <1>6, <1>12, <2>1, <2>2 DEF EvaluateEquals
  <2>4. v # One(x)
    BY <1>10, <1>12, ShapeFacts
  <2>5. q.ok => Answers(o, q, FALSE)
    BY <1>8, <2>3, LeftOutRight
  <2> QED BY <1>1, <1>2, <1>5, <2>4, <2>5, RightIfAnswered
<1>13. ASSUME NEW t \in OfKind(kind), v = One(t) PROVE ClauseRight(c, v, x)
  <2>1. v.is = "scalar" /\ v.value = t /\ v # Absent /\ t[1] = kind /\ v # One(JsonNull)
    BY <1>13, ScalarFacts, ShapeFacts
  <2>2. v = One(x) <=> t = x
    BY <1>13, ShapeFacts
  <2>3. CASE kind = "number"
    <3>1. o = Error
      BY <1>6, <2>1, <2>3 DEF EvaluateEquals
    <3> QED BY <1>1, <3>1, ShapeFacts DEF ClauseRight
  <2>4. CASE kind # "number" /\ TooLong(t)
    <3>1. o = LeftOut
      BY <1>6, <2>1, <2>4 DEF EvaluateEquals, Kinds
    <3>2. q.ok => v # One(x)
      BY <1>7, <2>2, <2>4
    <3>3. q.ok => Answers(o, q, FALSE)
      BY <1>8, <3>1, LeftOutRight
    <3> QED BY <1>1, <1>2, <1>5, <3>2, <3>3, RightIfAnswered
  <2>5. CASE kind # "number" /\ ~TooLong(t)
    <3>1. o = Filed({EncodeScalar(t)})
      BY <1>6, <2>1, <2>5 DEF EvaluateEquals, Kinds
    <3>2. PICK S : S = {EncodeScalar(t)}
      OBVIOUS
    <3>3. EncodeScalar(x) \in S <=> v = One(x)
      BY <1>4, <1>13, <2>2, <3>2, EncodeInjective
    <3>4. q.ok => Answers(o, q, v = One(x))
      BY <1>8, <3>1, <3>2, <3>3, SegmentRight
    <3> QED BY <1>1, <1>2, <1>5, <3>4, RightIfAnswered
  <2> QED BY <2>3, <2>4, <2>5
<1>14. ASSUME NEW S, v = Many(S) PROVE ClauseRight(c, v, x)
  <2>1. v.is = "array" /\ v # Absent /\ v # One(JsonNull)
    BY <1>14, ShapeFacts
  <2>2. o = Error
    BY <1>6, <2>1 DEF EvaluateEquals
  <2> QED BY <1>1, <2>2, ShapeFacts DEF ClauseRight
<1> QED BY <1>3, <1>11, <1>12, <1>13, <1>14, ValueForms

(* equals with null or a constant: with truth it divides by whether the  *)
(* field has the constant, without it filters.                           *)
LEMMA EqualsConstantRight ==
  ASSUME NEW c \in Clauses, NEW schema \in Schemas, Valid(c, schema), c.op = "equals", c.form # "variable",
         NEW v \in FieldValues(schema), NEW x \in Bindings(c, schema)
  PROVE  ClauseRight(c, v, x)
<1>1. PICK o : o = EvaluateClause(c, v)
  OBVIOUS
<1>2. PICK q : q = ResolveClauseQuery(c, x)
  OBVIOUS
<1>3. x \in Booleans
  BY DEF Bindings
<1>4. PICK k : k = Constant(c)
  OBVIOUS
<1>5. PICK yes : yes = (x = Scalar("boolean", "true"))
  OBVIOUS
<1>6. IF c.truth THEN Means(c, v, x) <=> ((v = One(k)) <=> yes)
                 ELSE Means(c, v, x) <=> v = One(k)
  BY <1>4, <1>5 DEF Means
<1>7. o = EvaluateEquals(c, v) /\ q = ResolveEqualsQuery(c, x)
  BY <1>1, <1>2 DEF EvaluateClause, ResolveClauseQuery
<1>8. IsNullClause(c) => k = JsonNull /\ c.truth
  <2>1. ValidEquals(c, schema)
    BY DEF Valid
  <2>2. IsNullClause(c) => c.truth
    BY <2>1 DEF ValidEquals
  <2>3. IsNullClause(c) => k = JsonNull
    BY <1>4 DEF IsNullClause, Constant
  <2> QED BY <2>2, <2>3
<1>9. c.truth \in BOOLEAN
  BY DEF Clauses
<1>10. CASE c.truth
  <2>1. PICK b \in BOOLEAN : b <=> v = One(k)
    OBVIOUS
  <2>2. o = Filed({EncodeTruth(b)})
    <3>1. o = Filed({EncodeTruth(v = One(k))})
      BY <1>4, <1>7, <1>8, <1>10 DEF EvaluateEquals
    <3>2. EncodeTruth(v = One(k)) = EncodeTruth(b)
      BY <2>1 DEF EncodeTruth
    <3> QED BY <3>1, <3>2
  <2>3. q = Truth(x)
    BY <1>7, <1>10 DEF ResolveEqualsQuery
  <2>4. PICK meant \in BOOLEAN : meant <=> (b <=> x = Scalar("boolean", "true"))
    OBVIOUS
  <2>5. Answers(o, q, meant)
    BY <1>3, <2>2, <2>3, <2>4, TruthRight
  <2>6. Means(c, v, x) <=> meant
    BY <1>5, <1>6, <1>10, <2>1, <2>4
  <2> QED BY <1>1, <1>2, <1>7, <2>5, <2>6, RightIfAnswered
<1>11. CASE ~c.truth
  <2>1. ~IsNullClause(c)
    BY <1>8, <1>11
  <2>2. o = IF v = One(k) THEN Pass ELSE LeftOut
    BY <1>4, <1>7, <1>11, <2>1 DEF EvaluateEquals
  <2>3. q.seg = <<>>
    BY <1>7, <1>11, <2>1 DEF ResolveEqualsQuery, Anywhere
  <2>5. CASE v = One(k)
    <3>1. Answers(o, q, TRUE)
      BY <2>2, <2>3, <2>5 DEF Answers
    <3> QED BY <1>1, <1>2, <1>6, <1>7, <1>11, <2>5, <3>1, RightIfAnswered
  <2>6. CASE v # One(k)
    <3>1. Answers(o, q, FALSE)
      BY <2>2, <2>3, <2>6 DEF Answers
    <3> QED BY <1>1, <1>2, <1>6, <1>7, <1>11, <2>6, <3>1, RightIfAnswered
  <2> QED BY <2>5, <2>6
<1> QED BY <1>9, <1>10, <1>11

(* in: the document is filed under its value when that is one of the     *)
(* listed ones, and the query is refused any other.                      *)
LEMMA InRight ==
  ASSUME NEW c \in Clauses, NEW schema \in Schemas, Valid(c, schema), c.op = "in",
         NEW v \in FieldValues(schema), NEW x \in Bindings(c, schema)
  PROVE  ClauseRight(c, v, x)
<1>1. PICK o : o = EvaluateClause(c, v)
  OBVIOUS
<1>2. PICK q : q = ResolveClauseQuery(c, x)
  OBVIOUS
<1>3. schema.kind = "string" /\ ~schema.array /\ c.select
  BY DEF Valid
<1>4. "string" \in Kinds /\ x \in OfKind("string") /\ x[1] = "string" /\ x # JsonNull
  <2>1. "string" \in Kinds /\ x \in OfKind("string")
    BY <1>3 DEF Bindings, Kinds
  <2> QED BY <2>1, ScalarFacts
<1>5. Means(c, v, x) <=> v = One(x)
  BY DEF Means
<1>6. o = EvaluateIn(c, v) /\ q = ResolveInQuery(c, x)
  BY <1>1, <1>2 DEF EvaluateClause, ResolveClauseQuery
<1>7. q.ok => x \in c.value /\ q.seg = <<EncodeStringValue(x)>>
  BY <1>6 DEF ResolveInQuery, At, Refused
<1>8. ASSUME NEW t, v = One(t), t \in OfKind("string") \/ t = JsonNull
      PROVE ClauseRight(c, v, x)
  <2>1. v.is = "scalar" /\ v.value = t
    BY <1>8, ShapeFacts
  <2>2. v = One(x) <=> t = x
    BY <1>8, ShapeFacts
  <2>3. CASE t \in c.value
    <3>1. o = Filed({EncodeStringValue(t)})
      BY <1>6, <2>1, <2>3 DEF EvaluateIn
    <3>2. t \in OfKind("string")
      <4>1. c.value \subseteq Strings
        BY DEF Clauses
      <4>2. t[1] = "string"
        BY <2>3, <4>1 DEF Strings, Scalar
      <4> QED BY <1>8, <4>2 DEF JsonNull, Scalar
    <3>3. PICK S : S = {EncodeStringValue(t)}
      OBVIOUS
    <3>4. EncodeStringValue(t) = EncodeScalar(t) /\ EncodeStringValue(x) = EncodeScalar(x)
      BY <1>4, <3>2, ScalarFacts DEF EncodeScalar
    <3>5. EncodeStringValue(x) \in S <=> v = One(x)
      BY <1>4, <2>2, <3>2, <3>3, <3>4, EncodeInjective
    <3>7. q.ok => Answers(o, q, v = One(x))
      BY <1>7, <3>1, <3>3, <3>5, SegmentRight
    <3> QED BY <1>1, <1>2, <1>5, <1>6, <3>7, RightIfAnswered
  <2>4. CASE t \notin c.value
    <3>1. o = LeftOut
      BY <1>6, <2>1, <2>4 DEF EvaluateIn
    <3>3. q.ok => v # One(x) /\ Answers(o, q, FALSE)
      BY <1>7, <2>2, <2>4, <3>1, LeftOutRight
    <3> QED BY <1>1, <1>2, <1>5, <1>6, <3>3, RightIfAnswered
  <2> QED BY <2>3, <2>4
<1>9. CASE v = Absent
  <2>1. v.is # "scalar" /\ v # One(x)
    BY <1>9, ShapeFacts
  <2>2. o = LeftOut
    BY <1>6, <2>1 DEF EvaluateIn
  <2>4. q.ok => Answers(o, q, FALSE)
    BY <1>7, <2>2, LeftOutRight
  <2> QED BY <1>1, <1>2, <1>5, <1>6, <2>1, <2>4, RightIfAnswered
<1> QED BY <1>3, <1>8, <1>9, ValueForms

(* exists: the document is filed by whether the field is there, null     *)
(* counting as not there only with hideNulls.                            *)
LEMMA ExistsRight ==
  ASSUME NEW c \in Clauses, NEW schema \in Schemas, Valid(c, schema), c.op = "exists",
         NEW v \in FieldValues(schema), NEW x \in Bindings(c, schema)
  PROVE  ClauseRight(c, v, x)
<1>1. PICK o : o = EvaluateClause(c, v)
  OBVIOUS
<1>2. PICK q : q = ResolveClauseQuery(c, x)
  OBVIOUS
<1>3. c.form = "variable" /\ x \in Booleans
  BY DEF Valid, Bindings
<1>4. PICK b \in BOOLEAN : b <=> (v # Absent /\ ~(c.hideNulls /\ v = One(JsonNull)))
  OBVIOUS
<1>5. Means(c, v, x) <=> (b <=> x = Scalar("boolean", "true"))
  <2>1. PICK yes \in BOOLEAN : yes = (x = Scalar("boolean", "true"))
    OBVIOUS
  <2>2. Means(c, v, x) <=>
           ((IF c.hideNulls THEN v \notin {Absent, One(JsonNull)} ELSE v # Absent) <=> yes)
    BY <2>1 DEF Means
  <2>3. b <=> (IF c.hideNulls THEN v \notin {Absent, One(JsonNull)} ELSE v # Absent)
    BY <1>4
  <2> QED BY <2>1, <2>2, <2>3
<1>6. o = EvaluateExists(c, v) /\ q = Truth(x)
  BY <1>1, <1>2, <1>3 DEF EvaluateClause, ResolveClauseQuery
<1>7. o = Filed({EncodeTruth(b)})
  <2>1. EncodeTruth(v # Absent /\ ~(c.hideNulls /\ v = One(JsonNull))) = EncodeTruth(b)
    BY <1>4 DEF EncodeTruth
  <2> QED BY <1>6, <2>1 DEF EvaluateExists
<1>8. PICK meant \in BOOLEAN : meant <=> (b <=> x = Scalar("boolean", "true"))
  OBVIOUS
<1>9. Answers(o, q, meant)
  BY <1>3, <1>6, <1>7, <1>8, TruthRight
<1> QED BY <1>1, <1>2, <1>5, <1>6, <1>8, <1>9, RightIfAnswered

(* contains: with a variable the document is filed under every item that *)
(* is not too long, with a constant by whether that is an item.          *)
LEMMA ContainsRight ==
  ASSUME NEW c \in Clauses, NEW schema \in Schemas, Valid(c, schema), c.op = "contains",
         NEW v \in FieldValues(schema), NEW x \in Bindings(c, schema)
  PROVE  ClauseRight(c, v, x)
<1>1. PICK o : o = EvaluateClause(c, v)
  OBVIOUS
<1>2. PICK q : q = ResolveClauseQuery(c, x)
  OBVIOUS
<1>3. schema.array /\ (c.form # "variable" => c.truth)
  BY DEF Valid, ValidContains
<1>4. o = EvaluateContains(c, v) /\ q = ResolveContainsQuery(c, x)
  BY <1>1, <1>2 DEF EvaluateClause, ResolveClauseQuery
<1>5. q.ok => \E g : q.seg = <<g>>
  BY <1>4 DEF ResolveContainsQuery, At, Refused, Truth
<1>6. CASE v = Absent \/ v = One(JsonNull)
  <2>1. v.is # "array"
    BY <1>6, ShapeFacts
  <2>2. o = LeftOut
    BY <1>4, <2>1 DEF EvaluateContains
  <2>3. Means(c, v, x) <=> FALSE
    BY <2>1 DEF Means
  <2>5. q.ok => Answers(o, q, FALSE)
    BY <1>5, <2>2, LeftOutRight
  <2> QED BY <1>1, <1>2, <1>4, <2>3, <2>5, RightIfAnswered
<1>7. ASSUME NEW S \in SUBSET (OfKind(schema.kind) \cup {JsonNull}), v = Many(S) PROVE ClauseRight(c, v, x)
  <2>1. v.is = "array" /\ v.items = S
    BY <1>7, ShapeFacts
  <2>2. CASE c.form = "variable"
    <3>1. PICK kind \in Kinds : kind = schema.kind
      BY DEF Schemas
    <3>2. x \in OfKind(kind)
      BY <2>2, <3>1 DEF Bindings
    <3>3. PICK R : R = {EncodeScalar(s) : s \in {t \in S : ~TooLong(t)}}
      OBVIOUS
    <3>4. o = Filed(R)
      BY <1>4, <2>1, <2>2, <3>3 DEF EvaluateContains
    <3>5. q.ok => ~TooLong(x) /\ q.seg = <<EncodeScalar(x)>>
      BY <1>4, <2>2 DEF ResolveContainsQuery, At, Refused
    <3>6. Means(c, v, x) <=> x \in S
      BY <2>1, <2>2 DEF Means
    <3>7. ASSUME ~TooLong(x) PROVE EncodeScalar(x) \in R <=> x \in S
      <4>1. ASSUME EncodeScalar(x) \in R PROVE x \in S
        <5>1. PICK t \in S : EncodeScalar(x) = EncodeScalar(t)
          BY <3>3, <4>1
        <5>2. t \in OfKind(kind)
          <6>1. t \in OfKind(kind) \/ t = JsonNull
            BY <1>7, <3>1
          <6> QED BY <3>2, <5>1, <6>1, EncodeNotNull
        <5> QED BY <3>2, <5>1, <5>2, EncodeInjective
      <4> QED BY <3>3, <3>7, <4>1
    <3>9. PICK meant \in BOOLEAN : meant <=> x \in S
      OBVIOUS
    <3>10. PICK g : g = EncodeScalar(x)
      OBVIOUS
    <3>11. q.ok => q.seg = <<g>> /\ (g \in R <=> meant)
      BY <3>5, <3>7, <3>9, <3>10
    <3>12. q.ok => Answers(o, q, meant)
      BY <3>4, <3>11, SegmentRight
    <3> QED BY <1>1, <1>2, <1>4, <3>6, <3>9, <3>12, RightIfAnswered
  <2>3. CASE c.form # "variable"
    <3>1. x \in Booleans /\ c.truth
      BY <1>3, <2>3 DEF Bindings
    <3>2. PICK b \in BOOLEAN : b <=> Constant(c) \in S
      OBVIOUS
    <3>3. o = Filed({EncodeTruth(b)})
      <4>1. EncodeTruth(Constant(c) \in S) = EncodeTruth(b)
        BY <3>2 DEF EncodeTruth
      <4>2. o = Filed({EncodeTruth(Constant(c) \in S)})
        BY <1>4, <2>1, <2>3 DEF EvaluateContains
      <4> QED BY <4>1, <4>2
    <3>4. q = Truth(x)
      BY <1>4, <2>3, <3>1 DEF ResolveContainsQuery
    <3>5. PICK meant \in BOOLEAN : meant <=> (b <=> x = Scalar("boolean", "true"))
      OBVIOUS
    <3>6. Answers(o, q, meant)
      BY <3>1, <3>3, <3>4, <3>5, TruthRight
    <3>7. Means(c, v, x) <=> meant
      <4>1. PICK yes \in BOOLEAN : yes = (x = Scalar("boolean", "true"))
        OBVIOUS
      <4>2. Means(c, v, x) <=> (v.is = "array" /\ ((Constant(c) \in v.items) <=> yes))
        BY <2>3, <4>1 DEF Means
      <4> QED BY <2>1, <3>2, <3>5, <4>1, <4>2
    <3> QED BY <1>1, <1>2, <1>4, <3>6, <3>7, RightIfAnswered
  <2> QED BY <2>2, <2>3
<1> QED BY <1>3, <1>6, <1>7, ValueForms

(* Every clause that Validate accepts is read rightly by both sides. *)
LEMMA EveryClauseRight ==
  ASSUME NEW c \in Clauses, NEW schema \in Schemas, Valid(c, schema),
         NEW v \in FieldValues(schema), NEW x \in Bindings(c, schema)
  PROVE  ClauseRight(c, v, x)
<1>1. c.op \in {"equals", "in", "exists", "contains"}
  BY DEF Clauses
<1> QED BY <1>1, EqualsVariableRight, EqualsConstantRight, InRight, ExistsRight, ContainsRight

(* Two segments make a path of two. *)
LEMMA PairJoined ==
  ASSUME NEW a, NEW b
  PROVE  <<a>> \o <<b>> = <<a, b>>
<1>1. PICK C : C = {a, b}
  OBVIOUS
<1>2. PICK s : s = <<a>>
  OBVIOUS
<1>3. PICK t : t = <<b>>
  OBVIOUS
<1>4. PICK w : w = <<a, b>>
  OBVIOUS
<1>5. s \in Seq(C) /\ Len(s) = 1 /\ s[1] = a /\ t \in Seq(C) /\ Len(t) = 1 /\ t[1] = b
  BY <1>1, <1>2, <1>3
<1>6. PICK u : u = s \o t
  OBVIOUS
<1>7. u \in Seq(C) /\ Len(u) = 2 /\ u[1] = a /\ u[2] = b
  <2>1. /\ u \in Seq(C) /\ Len(u) = Len(s) + Len(t)
        /\ \A i \in 1..(Len(s) + Len(t)) : u[i] = IF i <= Len(s) THEN s[i] ELSE t[i - Len(s)]
    BY <1>5, <1>6, ConcatProperties
  <2>2. \A i \in 1..2 : u[i] = IF i <= 1 THEN s[i] ELSE t[i - 1]
    BY <1>5, <2>1
  <2> QED BY <1>5, <2>1, <2>2
<1>8. w \in Seq(C) /\ Len(w) = 2 /\ w[1] = a /\ w[2] = b
  BY <1>1, <1>4
<1>9. \A i \in 1..Len(u) : u[i] = w[i]
  BY <1>7, <1>8
<1>10. u = w
  BY <1>7, <1>8, <1>9, SeqEqual
<1> QED BY <1>2, <1>3, <1>4, <1>6, <1>10

(* expandBuckets and the query's path put the segments of two clauses    *)
(* together in such a way that the path is among the buckets exactly     *)
(* when both clauses mean the document.                                  *)
LEMMA PathsMeet ==
  ASSUME NEW o1, NEW q1, NEW m1, NEW o2, NEW q2, NEW m2,
         Answers(o1, q1, m1), Answers(o2, q2, m2)
  PROVE  q1.seg \o q2.seg \in ExpandBuckets(o1, o2) <=> (m1 /\ m2)
<1>1. /\ Pass.pass /\ Pass.segs = {}
      /\ LeftOut.pass = FALSE /\ LeftOut.segs = {}
      /\ \A S : Filed(S).pass = FALSE /\ Filed(S).segs = S
  BY DEF Pass, LeftOut, Filed
<1>2. \A g : \A S : <<g>> \in {<<s>> : s \in S} <=> g \in S
  OBVIOUS
<1>3. CASE q1.seg = <<>> /\ o1 = Pass /\ m1
  <2>1. CASE q2.seg = <<>> /\ o2 = Pass /\ m2
    <3>1. ExpandBuckets(o1, o2) = {<<>>}
      BY <1>1, <1>3, <2>1 DEF ExpandBuckets
    <3>2. q1.seg \o q2.seg = <<>>
      BY <1>3, <2>1
    <3> QED BY <1>3, <2>1, <3>1, <3>2
  <2>2. CASE q2.seg = <<>> /\ o2 = LeftOut /\ ~m2
    <3>1. ExpandBuckets(o1, o2) = {}
      BY <1>1, <1>3, <2>2 DEF ExpandBuckets
    <3> QED BY <2>2, <3>1
  <2>3. ASSUME NEW g2, NEW S2, q2.seg = <<g2>>, o2 = Filed(S2), g2 \in S2 <=> m2
        PROVE  q1.seg \o q2.seg \in ExpandBuckets(o1, o2) <=> (m1 /\ m2)
    <3>1. ExpandBuckets(o1, o2) = {<<s>> : s \in S2}
      BY <1>1, <1>3, <2>3 DEF ExpandBuckets
    <3>2. q1.seg \o q2.seg = <<g2>>
      BY <1>3, <2>3
    <3> QED BY <1>2, <1>3, <2>3, <3>1, <3>2
  <2> QED BY <2>1, <2>2, <2>3, Zenon DEF Answers
<1>4. CASE q1.seg = <<>> /\ o1 = LeftOut /\ ~m1
  <2>1. o1.pass = FALSE /\ o1.segs = {}
    BY <1>1, <1>4
  <2>2. o2.pass \in BOOLEAN
    BY <1>1, Zenon DEF Answers
  <2>3. ExpandBuckets(o1, o2) = {}
    BY <2>1, <2>2 DEF ExpandBuckets
  <2> QED BY <1>4, <2>3
<1>5. ASSUME NEW g1, NEW S1, q1.seg = <<g1>>, o1 = Filed(S1), g1 \in S1 <=> m1
      PROVE  q1.seg \o q2.seg \in ExpandBuckets(o1, o2) <=> (m1 /\ m2)
  <2>1. CASE q2.seg = <<>> /\ o2 = Pass /\ m2
    <3>1. ExpandBuckets(o1, o2) = {<<s>> : s \in S1}
      BY <1>1, <1>5, <2>1 DEF ExpandBuckets
    <3>2. q1.seg \o q2.seg = <<g1>>
      BY <1>5, <2>1
    <3> QED BY <1>2, <1>5, <2>1, <3>1, <3>2
  <2>2. CASE q2.seg = <<>> /\ o2 = LeftOut /\ ~m2
    <3>1. ExpandBuckets(o1, o2) = S1 \X {}
      BY <1>1, <1>5, <2>2 DEF ExpandBuckets
    <3>2. S1 \X {} = {}
      OBVIOUS
    <3> QED BY <2>2, <3>1, <3>2
  <2>3. ASSUME NEW g2, NEW S2, q2.seg = <<g2>>, o2 = Filed(S2), g2 \in S2 <=> m2
        PROVE  q1.seg \o q2.seg \in ExpandBuckets(o1, o2) <=> (m1 /\ m2)
    <3>1. ExpandBuckets(o1, o2) = S1 \X S2
      BY <1>1, <1>5, <2>3 DEF ExpandBuckets
    <3>2. q1.seg \o q2.seg = <<g1, g2>>
      <4>1. <<g1>> \o <<g2>> = <<g1, g2>>
        BY PairJoined
      <4> QED BY <1>5, <2>3, <4>1
    <3>3. <<g1, g2>> \in S1 \X S2 <=> g1 \in S1 /\ g2 \in S2
      OBVIOUS
    <3> QED BY <1>5, <2>3, <3>1, <3>2, <3>3
  <2> QED BY <2>1, <2>2, <2>3, Zenon DEF Answers
<1> QED BY <1>3, <1>4, <1>5, Zenon DEF Answers

(* The evaluation of a clause fails exactly for equals with a variable   *)
(* on a number or an array.                                              *)
LEMMA FailingClauses ==
  ASSUME NEW c \in Clauses, NEW schema \in Schemas, Valid(c, schema), NEW v \in FieldValues(schema)
  PROVE  EvaluateClause(c, v).error \in BOOLEAN /\ (EvaluateClause(c, v).error <=> CannotFile(c, v))
<1>1. PICK o : o = EvaluateClause(c, v)
  OBVIOUS
<1>2. \A S : Filed(S).error = FALSE
  BY ShapeFacts
<1>3. Pass.error = FALSE /\ LeftOut.error = FALSE
  BY ShapeFacts
<1>4. c.op \in {"equals", "in", "exists", "contains"}
  BY DEF Clauses
<1>5. CASE c.op = "in"
  <2>1. o.error = FALSE
    BY <1>1, <1>2, <1>3, <1>5 DEF EvaluateClause, EvaluateIn
  <2> QED BY <1>1, <1>5, <2>1 DEF CannotFile
<1>6. CASE c.op = "exists"
  <2>1. o.error = FALSE
    BY <1>1, <1>2, <1>3, <1>6 DEF EvaluateClause, EvaluateExists
  <2> QED BY <1>1, <1>6, <2>1 DEF CannotFile
<1>7. CASE c.op = "contains"
  <2>1. o.error = FALSE
    BY <1>1, <1>2, <1>3, <1>7 DEF EvaluateClause, EvaluateContains
  <2> QED BY <1>1, <1>7, <2>1 DEF CannotFile
<1>8. CASE c.op = "equals" /\ c.form # "variable"
  <2>1. o.error = FALSE
    BY <1>1, <1>2, <1>3, <1>8 DEF EvaluateClause, EvaluateEquals
  <2> QED BY <1>1, <1>8, <2>1 DEF CannotFile
<1>9. CASE c.op = "equals" /\ c.form = "variable"
  <2>1. o = EvaluateEquals(c, v)
    BY <1>1, <1>9 DEF EvaluateClause
  <2>2. CannotFile(c, v) <=> (v.is = "array" \/ (v.is = "scalar" /\ v.value[1] = "number"))
    BY <1>9 DEF CannotFile
  <2>3. JsonNull[1] = "null"
    BY DEF JsonNull, Scalar
  <2>4. CASE v = Absent \/ v = One(JsonNull)
    <3>1. v = Absent => v.is = "absent" /\ v # One(JsonNull)
      BY ShapeFacts
    <3>2. v = One(JsonNull) => v.is = "scalar" /\ v.value = JsonNull /\ v # Absent
      BY ShapeFacts
    <3>3. o = LeftOut
      BY <1>9, <2>1, <2>3, <2>4, <3>1, <3>2 DEF EvaluateEquals
    <3> QED BY <1>1, <1>3, <2>2, <2>3, <2>4, <3>1, <3>2, <3>3
  <2>5. ASSUME NEW t \in OfKind(schema.kind), v = One(t)
        PROVE  o.error \in BOOLEAN /\ (o.error <=> CannotFile(c, v))
    <3>1. v.is = "scalar" /\ v.value = t /\ v # Absent /\ v # One(JsonNull)
      BY <2>5, ScalarFacts, ShapeFacts DEF Schemas
    <3>2. t[1] \in Kinds
      BY <2>5, ScalarFacts DEF Schemas
    <3>3. CASE t[1] = "number"
      <4>1. o = Error
        BY <1>9, <2>1, <3>1, <3>3 DEF EvaluateEquals
      <4> QED BY <2>2, <3>1, <3>3, <4>1, ShapeFacts
    <3>4. CASE t[1] # "number"
      <4>1. o = LeftOut \/ o = Filed({EncodeScalar(t)})
        BY <1>9, <2>1, <3>1, <3>2, <3>4 DEF EvaluateEquals, Kinds
      <4> QED BY <1>2, <1>3, <2>2, <3>1, <3>4, <4>1
    <3> QED BY <3>3, <3>4
  <2>6. ASSUME NEW S, v = Many(S)
        PROVE  o.error \in BOOLEAN /\ (o.error <=> CannotFile(c, v))
    <3>1. v.is = "array" /\ v # Absent /\ v # One(JsonNull)
      BY <2>6, ShapeFacts
    <3>2. o = Error
      BY <1>9, <2>1, <3>1 DEF EvaluateEquals
    <3> QED BY <2>2, <3>1, <3>2, ShapeFacts
  <2> QED BY <1>1, <2>4, <2>5, <2>6, ValueForms
<1> QED BY <1>4, <1>5, <1>6, <1>7, <1>8, <1>9

(* A definition of two clauses, on fields of any kinds: where neither    *)
(* clause fails and the query is accepted, its path is among the         *)
(* document's buckets exactly when both clauses mean the document.       *)
LEMMA TwoClausesFind ==
  ASSUME NEW s1 \in Schemas, NEW c1 \in Clauses, Valid(c1, s1), NEW v1 \in FieldValues(s1),
         NEW s2 \in Schemas, NEW c2 \in Clauses, Valid(c2, s2), NEW v2 \in FieldValues(s2),
         NEW x1 \in Bindings(c1, s1), NEW x2 \in Bindings(c2, s2),
         ResolveQueryPath(c1, x1, c2, x2).ok, ~CannotFile(c1, v1), ~CannotFile(c2, v2)
  PROVE  ResolveQueryPath(c1, x1, c2, x2).path \in EvaluateDocument(c1, v1, c2, v2).buckets
            <=> (Means(c1, v1, x1) /\ Means(c2, v2, x2))
<1>1. PICK o1, o2 : o1 = EvaluateClause(c1, v1) /\ o2 = EvaluateClause(c2, v2)
  OBVIOUS
<1>2. PICK q1, q2 : q1 = ResolveClauseQuery(c1, x1) /\ q2 = ResolveClauseQuery(c2, x2)
  OBVIOUS
<1>3. q1.ok /\ q2.ok /\ ResolveQueryPath(c1, x1, c2, x2).path = q1.seg \o q2.seg
  BY <1>2 DEF ResolveQueryPath
<1>4. EvaluateDocument(c1, v1, c2, v2).buckets = ExpandBuckets(o1, o2)
  BY <1>1 DEF EvaluateDocument
<1>5. Answers(o1, q1, Means(c1, v1, x1))
  <2>1. ClauseRight(c1, v1, x1)
    BY EveryClauseRight
  <2>2. ~o1.error
    BY <1>1, FailingClauses
  <2> QED BY <1>1, <1>2, <1>3, <2>1, <2>2 DEF ClauseRight
<1>6. Answers(o2, q2, Means(c2, v2, x2))
  <2>1. ClauseRight(c2, v2, x2)
    BY EveryClauseRight
  <2>2. ~o2.error
    BY <1>1, FailingClauses
  <2> QED BY <1>1, <1>2, <1>3, <2>1, <2>2 DEF ClauseRight
<1>7. PICK m1, m2 : (m1 <=> Means(c1, v1, x1)) /\ (m2 <=> Means(c2, v2, x2))
                    /\ Answers(o1, q1, m1) /\ Answers(o2, q2, m2)
  BY <1>5, <1>6
<1>8. q1.seg \o q2.seg \in ExpandBuckets(o1, o2) <=> (m1 /\ m2)
  BY <1>7, PathsMeet
<1> QED BY <1>3, <1>4, <1>7, <1>8

(* The evaluation of a definition of two clauses fails exactly when the  *)
(* first clause fails, or it lets the document through and the second    *)
(* one fails.                                                            *)
LEMMA TwoClausesFail ==
  ASSUME NEW s1 \in Schemas, NEW c1 \in Clauses, Valid(c1, s1), NEW v1 \in FieldValues(s1),
         NEW s2 \in Schemas, NEW c2 \in Clauses, Valid(c2, s2), NEW v2 \in FieldValues(s2)
  PROVE  EvaluateDocument(c1, v1, c2, v2).error
           <=> (CannotFile(c1, v1) \/ (EvaluateClause(c1, v1) # LeftOut /\ CannotFile(c2, v2)))
<1>1. PICK o1, o2 : o1 = EvaluateClause(c1, v1) /\ o2 = EvaluateClause(c2, v2)
  OBVIOUS
<1>2. o1.error \in BOOLEAN /\ o2.error \in BOOLEAN
      /\ (o1.error <=> CannotFile(c1, v1)) /\ (o2.error <=> CannotFile(c2, v2))
  BY <1>1, FailingClauses
<1>3. EvaluateDocument(c1, v1, c2, v2).error <=> (o1.error \/ (o1 # LeftOut /\ o2.error))
  BY <1>1, <1>2 DEF EvaluateDocument
<1> QED BY <1>1, <1>2, <1>3

(* A clause never fails on a boolean field, and what a query gives for   *)
(* one is true or false.                                                 *)
LEMMA FlagsAreFiled ==
  ASSUME NEW c, NEW v \in FieldValues(Flag)
  PROVE  Flag \in Schemas /\ ~CannotFile(c, v) /\ OfKind(Flag.kind) = Booleans
<1>1. Flag \in Schemas /\ Flag.kind = "boolean" /\ ~Flag.array /\ "boolean" \in Kinds
  BY DEF Flag, Schemas, Kinds
<1>2. \A s \in OfKind("boolean") : s[1] = "boolean" /\ s \in Booleans
  BY <1>1, ScalarFacts
<1>3. \A s \in Booleans : s \in OfKind("boolean")
  <2>1. \A s \in Booleans : s[1] = "boolean"
    BY DEF Booleans, Scalar
  <2> QED BY <2>1 DEF OfKind, Scalars
<1>4. JsonNull[1] = "null"
  BY DEF JsonNull, Scalar
<1>5. \/ v.is = "absent"
      \/ v.is = "scalar" /\ v.value[1] \in {"null", "boolean"}
  BY <1>1, <1>2, <1>4, ValueForms, ShapeFacts
<1> QED BY <1>1, <1>2, <1>3, <1>5 DEF CannotFile

(* What QueryFindsExactly says of one definition.                          *)
FindsExactly(s, c1, c2) ==
    \A v1 \in FieldValues(s), v2 \in FieldValues(Flag) :
        LET filed == EvaluateDocument(c1, v1, c2, v2)
        IN  /\ filed.error <=> CannotFile(c1, v1)
            /\ \A x1 \in Bindings(c1, s), x2 \in Booleans :
                 LET query == ResolveQueryPath(c1, x1, c2, x2)
                 IN  query.ok /\ ~filed.error =>
                       ((query.path \in filed.buckets)
                          <=> (Means(c1, v1, x1) /\ Means(c2, v2, x2)))

(* Every definition of two accepted clauses, the second on a boolean       *)
(* field, files a document where a query for it looks.                     *)
LEMMA DefinitionFindsExactly ==
  ASSUME NEW s \in Schemas, NEW c1 \in Clauses, Valid(c1, s), NEW c2 \in Clauses, Valid(c2, Flag)
  PROVE  FindsExactly(s, c1, c2)
<1> SUFFICES ASSUME NEW v1 \in FieldValues(s), NEW v2 \in FieldValues(Flag)
             PROVE  /\ EvaluateDocument(c1, v1, c2, v2).error <=> CannotFile(c1, v1)
                    /\ \A x1 \in Bindings(c1, s), x2 \in Booleans :
                         ResolveQueryPath(c1, x1, c2, x2).ok /\ ~EvaluateDocument(c1, v1, c2, v2).error =>
                           ((ResolveQueryPath(c1, x1, c2, x2).path \in EvaluateDocument(c1, v1, c2, v2).buckets)
                              <=> (Means(c1, v1, x1) /\ Means(c2, v2, x2)))
  BY DEF FindsExactly
<1>1. Flag \in Schemas /\ ~CannotFile(c2, v2) /\ OfKind(Flag.kind) = Booleans
  BY FlagsAreFiled
<1>2. EvaluateDocument(c1, v1, c2, v2).error <=> CannotFile(c1, v1)
  BY <1>1, TwoClausesFail
<1>3. Bindings(c2, Flag) = Booleans
  BY <1>1 DEF Bindings
<1>4. ASSUME NEW x1 \in Bindings(c1, s), NEW x2 \in Booleans,
             ResolveQueryPath(c1, x1, c2, x2).ok, ~EvaluateDocument(c1, v1, c2, v2).error
      PROVE  ResolveQueryPath(c1, x1, c2, x2).path \in EvaluateDocument(c1, v1, c2, v2).buckets
                <=> (Means(c1, v1, x1) /\ Means(c2, v2, x2))
  BY <1>1, <1>2, <1>3, <1>4, TwoClausesFind
<1> QED BY <1>2, <1>4

(* QueryFindsExactly for every definition of two accepted clauses, every   *)
(* document and every query, over any texts: a query finds the documents   *)
(* the clauses mean and no other.                                          *)
THEOREM QueriesFindExactly == InputSpec => []QueryFindsExactly
<1>1. InitInput => QueryFindsExactly
  BY DEF InitInput, QueryFindsExactly
<1>2. QueryFindsExactly /\ [PickInput]_input => QueryFindsExactly'
  <2> SUFFICES ASSUME QueryFindsExactly, [PickInput]_input PROVE QueryFindsExactly'
    OBVIOUS
  <2>1. CASE PickSearch
    <3>1. PICK s \in Schemas :
              \E c1 \in {c \in Clauses : Valid(c, s)}, c2 \in {c \in Clauses : Valid(c, Flag)} :
                 input' = [of |-> "search", schema |-> s, first |-> c1, second |-> c2]
      BY <2>1 DEF PickSearch
    <3>2. PICK c1 \in {c \in Clauses : Valid(c, s)}, c2 \in {c \in Clauses : Valid(c, Flag)} :
              input' = [of |-> "search", schema |-> s, first |-> c1, second |-> c2]
      BY <3>1
    <3>3. input'.schema = s /\ input'.first = c1 /\ input'.second = c2
      BY <3>2
    <3>4. FindsExactly(s, c1, c2)
      BY DefinitionFindsExactly
    <3> QED BY <3>3, <3>4 DEF QueryFindsExactly, FindsExactly
  <2>2. CASE PickUpgrade \/ PickShardMap \/ PickAttachment
    <3>1. input'.of # "search"
      BY <2>2 DEF PickUpgrade, PickShardMap, PickAttachment
    <3> QED BY <3>1 DEF QueryFindsExactly
  <2>3. CASE UNCHANGED input
    BY <2>3 DEF QueryFindsExactly
  <2> QED BY <2>1, <2>2, <2>3 DEF PickInput
<1> QED BY <1>1, <1>2, PTL DEF InputSpec

=============================================================================

------------------------------ MODULE Routing -------------------------------
(***************************************************************************)
(* Who keeps which documents.  The shard map assigns ranges of slots to a  *)
(* source-of-truth member and its readers.  A server answers for a slot if *)
(* ServesSlot says so; the source pushes a write to the targets of the     *)
(* slot's assignment, and a reader checks in with the sources              *)
(* RelevantSOTServers names.  The three look the map up separately, and    *)
(* each takes the first range that matches in an order Go leaves open.     *)
(*                                                                         *)
(* Slots 0..LastSlot stand for 00..FF; a range is a pair of slots.         *)
(***************************************************************************)
EXTENDS Naturals, FiniteSets

CONSTANTS
    LastSlot,       \* the last slot
    KnownServers,   \* the names in the servers file
    ServerNames,    \* the names a shard map may mention
    MaxRanges       \* bound: entries of a shard map

ASSUME RoutingAssumption ==
    /\ LastSlot \in Nat
    /\ MaxRanges \in Nat

Slots == 0..LastSlot

(* A server without a name does not start, though the file may list one. *)
RunningServers == KnownServers \ {""}

(* ParseRange refuses a range that ends before it starts. *)
ParsesAsRange(r) == r[1] <= r[2]
InRange(r, slot) == r[1] <= slot /\ slot <= r[2]

Assignments == [sot : ServerNames, read : SUBSET ServerNames, proxy : SUBSET ServerNames]

(* Mutant: overlapping ranges are let through. *)
FullCoverageOverlapping(ranges) ==
    \A slot \in Slots : \E r \in ranges : InRange(r, slot)

(* ValidateFullCoverage: every slot in one range and no more. *)
FullCoverage(ranges) ==
    \A slot \in Slots : Cardinality({r \in ranges : InRange(r, slot)}) = 1

ValidShardMap(map) ==
    /\ \A r \in DOMAIN map :
        /\ ParsesAsRange(r)
        /\ map[r].sot # ""
        /\ map[r].sot \in KnownServers
        /\ map[r].read \cup map[r].proxy \subseteq KnownServers
    /\ FullCoverage(DOMAIN map)

(* What SlotAssignment and AssignmentForSlot may return. *)
SlotAssignment(map, slot) == {map[r] : r \in {q \in DOMAIN map : InRange(q, slot)}}

ServesSlot(map, server, slot) ==
    \E a \in SlotAssignment(map, slot) : server \in {a.sot} \cup a.read \cup a.proxy

RelevantSOTServers(map, server) ==
    {map[r].sot : r \in {q \in DOMAIN map : server \in map[q].read \cup map[q].proxy}} \ {"", server}

TargetsForAssignment(a, self) == (a.read \cup a.proxy) \ {"", self}

(* The shard maps of a few entries. *)
ShardMaps ==
    UNION {[R -> Assignments] : R \in {S \in SUBSET (Slots \X Slots) : Cardinality(S) \in 1..MaxRanges}}

=============================================================================

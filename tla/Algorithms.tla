---------------------------- MODULE Algorithms ------------------------------
(***************************************************************************)
(* The computations two parts of the program make separately and that have *)
(* to come out the same: where a document is filed and where a query looks *)
(* for it (SearchEval), what an upgrade makes of a schema and of a         *)
(* document (SchemaPatch), what a pending attachment is called and what    *)
(* its name is read as (WorkItemIds), who serves a slot and who is sent    *)
(* its writes (Routing).  A behaviour picks one input of one of them; the  *)
(* invariants say what the definitions return for it.                      *)
(***************************************************************************)
EXTENDS SearchEval, SchemaPatch, WorkItemIds, Routing

VARIABLE input

Flag == [kind |-> "boolean", array |-> FALSE]

InitInput == input = [of |-> "nothing"]

(* A definition of two clauses, the second on a boolean field. *)
PickSearch ==
    /\ input.of = "nothing"
    /\ \E s \in Schemas :
         \E c1 \in {c \in Clauses : Valid(c, s)}, c2 \in {c \in Clauses : Valid(c, Flag)} :
            input' = [of |-> "search", schema |-> s, first |-> c1, second |-> c2]

(* A schema about to be upgraded and a document that conforms to it. *)
PickUpgrade ==
    /\ input.of = "nothing"
    /\ \E s \in PatchSchemas :
         \E d \in Documents(s) : input' = [of |-> "upgrade", schema |-> s, doc |-> d]

(* An attachment with a pending write. *)
PickAttachment ==
    /\ input.of = "nothing"
    /\ \E id \in DocumentIds, f \in FileNames : input' = [of |-> "attachment", id |-> id, file |-> f]

(* A shard map an operator hands in. *)
PickShardMap ==
    /\ input.of = "nothing"
    /\ \E m \in ShardMaps : input' = [of |-> "shardMap", map |-> m]

PickInput == PickUpgrade \/ PickAttachment \/ PickShardMap \/ PickSearch

InputSpec == InitInput /\ [][PickInput]_input

-----------------------------------------------------------------------------

(* For every definition that Validate accepts, the change agent files a    *)
(* document under the path a query resolves to exactly when the document   *)
(* satisfies every clause with the values the query gives, in whatever     *)
(* order and number the clauses add segments.  The evaluation fails, and   *)
(* with it the change agent's pass over the document, only for a variable  *)
(* compared with a number or an array.                                     *)
QueryFindsExactly ==
    input.of = "search" =>
        \A v1 \in FieldValues(input.schema), v2 \in FieldValues(Flag) :
            LET filed == EvaluateDocument(input.first, v1, input.second, v2)
            IN  /\ filed.error <=> CannotFile(input.first, v1)
                /\ \A x1 \in Bindings(input.first, input.schema), x2 \in Booleans :
                     LET query == ResolveQueryPath(input.first, x1, input.second, x2)
                     IN  query.ok /\ ~filed.error =>
                           ((query.path \in filed.buckets)
                              <=> (Means(input.first, v1, x1) /\ Means(input.second, v2, x2)))

(* A document that conforms to the schema before an update conforms to the *)
(* schema after it, for every operation whose values fit the new schema:   *)
(* the migration fills required fields, converts kinds and drops what it   *)
(* must, without looking at the resulting schema.  Since any conforming    *)
(* document may be the starting point this holds along any update list.    *)
(* There are two exceptions: an extra in the way of a field moved or       *)
(* copied from a document that does not have it, and a value that the      *)
(* migration imports, converts or makes up (document.go) and that is right *)
(* in its kind but not in its format, its items or its required children;  *)
(* then the other fields conform.                                          *)
MigrationConforms ==
    input.of = "upgrade" => MigratesWell(input.schema, input.doc)

(* A pending attachment is found again under the id it is listed as: the   *)
(* two ambiguous names are taken apart in such a way that the same pending *)
(* file results, even where document and file are told apart wrongly.  The *)
(* exceptions are a hyphen in the last of the parts that dots divide the   *)
(* file name into, or in a name with a character that no id may hold, and  *)
(* a character that the URL of the request reads in its own way (?, # and  *)
(* %, which urlPathEscape leaves as they are).                             *)
FileItemsResolve ==
    input.of = "attachment" =>
        \/ ResolvedPaths(input.id, input.file) = {PendingFileWritePath(input.id, input.file)}
        \/ Hyphen \in Range(LastPart(input.file))
        \/ Hyphen \in Range(input.file) /\ ~(Range(input.file) \subseteq IdChars)
        \/ Range(input.file) \cap UrlChars # {}

(* With a shard map that is accepted, the three ways the map is read agree *)
(* whatever order it is read in: every slot has one source, and a server   *)
(* that answers for the slot without being its source is sent the slot's   *)
(* writes by that source and asks that source for what it missed.          *)
ServersFollowTheirSources ==
    input.of = "shardMap" /\ ValidShardMap(input.map) =>
        \A slot \in Slots :
            \E a \in SlotAssignment(input.map, slot) :
                /\ SlotAssignment(input.map, slot) = {a}
                /\ \A server \in RunningServers \ {a.sot} :
                     ServesSlot(input.map, server, slot) =>
                        /\ server \in TargetsForAssignment(a, a.sot)
                        /\ a.sot \in RelevantSOTServers(input.map, server)

=============================================================================

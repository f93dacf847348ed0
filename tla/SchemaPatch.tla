---------------------------- MODULE SchemaPatch -----------------------------
(***************************************************************************)
(* Schema upgrades.  The same update list is applied twice, by code        *)
(* written apart: once to the schema when the upgrade is accepted (Apply)  *)
(* and later to each stored document (ApplyToDocument).  The documents are *)
(* written back without being validated, so whether they still conform is  *)
(* up to the two agreeing.                                                 *)
(*                                                                         *)
(* A value is a pair of its kind and its text; a schema and a document are *)
(* functions from the fields they have, none of which lies inside another. *)
(* What a schema asks of a field beyond its kind, the format of a string,  *)
(* the item schema of an array, the required children of an object, is a   *)
(* set of constraints, and a value has those it meets.                     *)
(***************************************************************************)
EXTENDS Naturals, FiniteSets, Functions

CONSTANTS
    Fields,       \* field paths
    TextsOf,      \* per kind: the texts of its values
    AsksOf,       \* per kind: the sets of constraints a schema may add to it
    Has(_),       \* of a value: the constraints it meets
    NumberText,   \* per value: the number it is read as (a leading number, 1 or 0
                  \* for a boolean, the length of an array or object, else 0)
    ArrayText     \* per value: the text of the array with that one item

JsonKinds == {"string", "number", "boolean", "array", "object"}

Null == <<"null", "null">>

Values(kind) == {<<kind, t>> : t \in TextsOf[kind]}

SampleValues == {Null} \cup (UNION {Values(k) : k \in JsonKinds})

EmptyValueForKind(kind) ==
    CASE kind = "string" -> <<kind, "">>       [] kind = "number" -> <<kind, "0">>
      [] kind = "boolean" -> <<kind, "false">> [] kind = "array" -> <<kind, "[]">>
      [] kind = "object" -> <<kind, "{}">>

IsEmptyOrNil(v) == v = Null \/ \E k \in JsonKinds : v = EmptyValueForKind(k)

(* Optional parts of an operation: a set with at most one member. *)
None == {}
The(S) == CHOOSE v \in S : TRUE

(* A field of a schema.  Only the entry an operation brings may have a     *)
(* default the migration looks at.                                         *)
Entries == UNION {[kind : {k}, required : BOOLEAN, nullable : BOOLEAN, asks : AsksOf[k]] :
                    k \in JsonKinds}

Admits(entry, v) ==
    IF v = Null THEN entry.nullable ELSE v[1] = entry.kind /\ entry.asks \subseteq Has(v)

(* A document conforms: every schema field that is required is there, and  *)
(* those that are there have a value of their kind that meets what the     *)
(* schema asks of it.  The other fields are extras, and may be anything.   *)
ConformsTo(schema, doc) ==
    \A f \in DOMAIN schema :
        IF f \in DOMAIN doc THEN Admits(schema[f], doc[f]) ELSE ~schema[f].required

With(f, k, v) == [x \in DOMAIN f \cup {k} |-> IF x = k THEN v ELSE f[x]]
Without(f, k) == Restrict(f, DOMAIN f \ {k})

-----------------------------------------------------------------------------
(* The schema's side.                                                      *)

(* An operation; from is looked at when it moves or copies.  The values it *)
(* carries match the resulting schema, as UPDATE-SCHEMA asks of the        *)
(* operator (nothing checks it); a failover that is null counts as none.   *)
Op(op, path, from, entry, default, value, failover) ==
    [op |-> op, path |-> path, from |-> from, schema |-> entry,
     default |-> default, value |-> value, failover |-> failover]

Optional(S) == {None} \cup {{v} : v \in S}
FittingValues(entry) == {v \in Values(entry.kind) : entry.asks \subseteq Has(v)}
Fitting(entry) == FittingValues(entry) \cup (IF entry.nullable THEN {Null} ELSE {})

NoEntry == [kind |-> "string", required |-> FALSE, nullable |-> FALSE, asks |-> {}]

EntryUpdates(e) ==
    {Op(o, p, p, e, d, v, f) : o \in {"add", "import", "convert"}, p \in Fields,
                               d \in Optional(Fitting(e)), v \in Optional(Fitting(e)),
                               f \in Optional(FittingValues(e))}

MoveUpdates ==
    {Op(o, p, q, NoEntry, None, None, None) : o \in {"move", "copy"}, p \in Fields, q \in Fields}

BareUpdates ==
    {Op(o, p, p, NoEntry, None, None, None) : o \in {"remove", "abandon", "replace"}, p \in Fields}

ReplaceUpdates(schema, p) ==
    {Op("replace", p, p, schema[p], None, {v}, None) : v \in Fitting(schema[p])}

AnyUpdates == (UNION {EntryUpdates(e) : e \in Entries}) \cup MoveUpdates \cup BareUpdates

Updates(schema) == AnyUpdates \cup (UNION {ReplaceUpdates(schema, p) : p \in DOMAIN schema})

(* applyOp refuses what does not fit the schema; the upgrade is refused    *)
(* with it.                                                                *)
Applies(schema, op) ==
    CASE op.op \in {"add", "import"} -> op.path \notin DOMAIN schema
      [] op.op \in {"move", "copy"}  -> op.from \in DOMAIN schema /\ op.path \notin DOMAIN schema
      [] OTHER                       -> op.path \in DOMAIN schema

ApplyOp(schema, op) ==
    CASE op.op \in {"add", "import", "convert"} -> With(schema, op.path, op.schema)
      [] op.op \in {"remove", "abandon"}        -> Without(schema, op.path)
      [] op.op = "replace"                      -> schema
      [] op.op = "move" -> With(Without(schema, op.from), op.path, schema[op.from])
      [] op.op = "copy" -> With(schema, op.path, schema[op.from])

-----------------------------------------------------------------------------
(* The document's side.                                                    *)

(* Mutant: a required field is not distinguished. *)
SelectFillValueOptional(op) ==
    IF op.value # None THEN op.value
    ELSE IF op.default # None THEN op.default ELSE op.failover

(* The value a new field gets, {} for none. *)
SelectFillValue(op) ==
    IF op.value # None THEN op.value
    ELSE IF op.default # None THEN op.default
    ELSE IF op.failover # None THEN op.failover
    ELSE IF ~op.schema.required THEN None
    ELSE IF op.schema.nullable THEN {Null} ELSE {EmptyValueForKind(op.schema.kind)}

(* convertKind looks at kinds only: an array stays as it is whatever its   *)
(* items, another value becomes its one item, and what is no object        *)
(* becomes the empty one.                                                  *)
ConvertKind(v, kind) ==
    IF v[1] = kind THEN v
    ELSE CASE kind = "boolean" -> <<kind, IF IsEmptyOrNil(v) THEN "false" ELSE "true">>
           [] kind = "string"  -> <<kind, v[2]>>
           [] kind = "number"  -> <<kind, NumberText[v]>>
           [] kind = "array"   -> <<kind, ArrayText[v]>>
           [] kind = "object"  -> <<kind, "{}">>

(* schemaKindMatches compares the kind of an extra to be imported, no more. *)
ApplyDocAdd(doc, op) ==
    IF /\ op.op = "import"
       /\ op.path \in DOMAIN doc
       /\ doc[op.path][1] = op.schema.kind
      THEN doc
      ELSE LET fill == SelectFillValue(op)
           IN  IF fill = None THEN Without(doc, op.path) ELSE With(doc, op.path, The(fill))

ApplyDocConvert(doc, op) ==
    IF op.value # None THEN With(doc, op.path, The(op.value))
    ELSE IF op.path \in DOMAIN doc
      THEN With(doc, op.path, ConvertKind(doc[op.path], op.schema.kind))
      ELSE LET fill == SelectFillValue(op)
           IN  IF fill = None THEN doc ELSE With(doc, op.path, The(fill))

(* A replace without a value is accepted with the schema and fails here. *)
DocOpFails(op) == op.op = "replace" /\ op.value = None

ApplyDocOp(doc, op) ==
    CASE op.op \in {"add", "import"} -> ApplyDocAdd(doc, op)
      [] op.op = "remove"  -> Without(doc, op.path)
      [] op.op = "abandon" -> doc
      [] op.op = "replace" -> With(doc, op.path, The(op.value))
      [] op.op = "move"    -> IF op.from \notin DOMAIN doc THEN doc
                              ELSE With(Without(doc, op.from), op.path, doc[op.from])
      [] op.op = "copy"    -> IF op.from \notin DOMAIN doc THEN doc
                              ELSE With(doc, op.path, doc[op.from])
      [] op.op = "convert" -> ApplyDocConvert(doc, op)

-----------------------------------------------------------------------------

(* The schemas, and the documents that conform to them.                    *)
PatchSchemas == UNION {[D -> Entries] : D \in SUBSET Fields}

Documents(schema) ==
    {d \in UNION {[D -> SampleValues] : D \in SUBSET Fields} : ConformsTo(schema, d)}

(* An extra in the way of a field that is moved or copied from a document  *)
(* that does not have it stays where it is, and so turns into the field.   *)
ExtraCaptured(doc, op) ==
    op.op \in {"move", "copy"} /\ op.from \notin DOMAIN doc /\ op.path \in DOMAIN doc

(* The value the migration settles on itself, without looking beyond its   *)
(* kind: an extra that is imported, a value that is converted, the empty   *)
(* value of a kind.                                                        *)
Unchecked(doc, op) ==
    IF op.op \notin {"add", "import", "convert"} THEN {}
    ELSE IF op.op = "import" /\ op.path \in DOMAIN doc /\ doc[op.path][1] = op.schema.kind
      THEN {doc[op.path]}
    ELSE IF op.op = "convert" /\ op.value = None /\ op.path \in DOMAIN doc
      THEN {ConvertKind(doc[op.path], op.schema.kind)}
    ELSE IF op.value \cup op.default \cup op.failover = {}
      THEN {EmptyValueForKind(op.schema.kind)} ELSE {}

(* That value is of the kind the schema asks for but does not meet the     *)
(* rest of it.                                                             *)
MeetsKindOnly(doc, op) ==
    \E v \in Unchecked(doc, op) :
        v[1] = op.schema.kind /\ ~(op.schema.asks \subseteq Has(v))

(* What an accepted operation does to a conforming document. *)
MigratesWell(schema, doc) ==
    \A op \in Updates(schema) :
        Applies(schema, op) /\ ~DocOpFails(op) =>
            \/ ConformsTo(ApplyOp(schema, op), ApplyDocOp(doc, op))
            \/ ExtraCaptured(doc, op)
            \/ /\ MeetsKindOnly(doc, op)
               /\ ConformsTo(Without(schema, op.path), ApplyDocOp(doc, op))

=============================================================================

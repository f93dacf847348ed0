---------------------------- MODULE SearchEval ------------------------------
(***************************************************************************)
(* Where a document is filed by a search definition, and where a query     *)
(* looks for it.  EvaluateDocument (the change agent's side) turns the     *)
(* clauses and a document into bucket paths, ResolveQueryPath (the         *)
(* reader's side) turns the clauses and the query's variables into one     *)
(* path; the two are written apart and have to meet.                       *)
(*                                                                         *)
(* A JSON scalar is a pair of its kind and its text.  A field of a         *)
(* document is a one-element sequence with a scalar, a sequence of scalars *)
(* for an array field, or Absent.                                          *)
(***************************************************************************)
EXTENDS Naturals, Sequences, FiniteSets, FiniteSetsExt

CONSTANTS
    StringTexts,   \* the texts of string values
    LongTexts,     \* those of them with more than 63 runes
    NumberTexts,   \* the canonical texts of numbers
    NumericTexts,  \* the texts of strings that are read as a number
    Hex            \* the upper-case hexadecimal of the bytes of a text

(* A hexadecimal text can be read back, and spells no word. *)
ASSUME SearchEvalAssumption ==
    /\ "null" \notin NumberTexts
    /\ \A t \in StringTexts \ {""} :
          /\ Hex[t] \notin {"empty", "null"}
          /\ \A u \in StringTexts \ {""} : Hex[t] = Hex[u] => t = u

Scalar(kind, text) == <<kind, text>>
JsonNull == Scalar("null", "null")

Strings == {Scalar("string", t) : t \in StringTexts}
Booleans == {Scalar("boolean", t) : t \in {"true", "false"}}
Numbers == {Scalar("number", t) : t \in NumberTexts}
Scalars == Strings \cup Booleans \cup Numbers \cup {JsonNull}

OfKind(kind) == {s \in Scalars : s[1] = kind}
Kinds == {"string", "boolean", "number"}

Absent == [is |-> "absent"]
One(s) == [is |-> "scalar", value |-> s]
Many(S) == [is |-> "array", items |-> S]

(* What a field of the schema may hold: null or absent unless required;    *)
(* an array may hold null.                                                 *)
FieldValues(schema) ==
    {Absent, One(JsonNull)} \cup
    IF schema.array THEN {Many(S) : S \in SUBSET (OfKind(schema.kind) \cup {JsonNull})}
                    ELSE {One(s) : s \in OfKind(schema.kind)}

Schemas == [kind : Kinds, array : BOOLEAN]

-----------------------------------------------------------------------------
(* Definitions.                                                            *)

(* A clause: its operation, the form of its value (a variable, null, a     *)
(* constant, constants) and whether truth, select and hideNulls are given. *)
Clauses ==
    [op : {"equals", "exists", "contains"}, form : {"variable"}, value : {{}},
     truth : BOOLEAN, select : {FALSE}, hideNulls : BOOLEAN]
    \cup
    [op : {"equals", "contains"}, form : {"constant"},
     value : {{s} : s \in Scalars},
     truth : BOOLEAN, select : {FALSE}, hideNulls : {FALSE}]
    \cup
    [op : {"in"}, form : {"constant"}, value : SUBSET Strings,
     truth : {FALSE}, select : BOOLEAN, hideNulls : {FALSE}]

Constant(c) == CHOOSE s \in c.value : TRUE
IsNullClause(c) == c.form = "constant" /\ c.value = {JsonNull}

(* Validate, clause by clause.  The kind of the field is not looked at     *)
(* when equals compares with a variable, and the constant that an array of *)
(* numbers is searched for may be a string that reads as a number.         *)
ValidEquals(c, schema) ==
    IF c.form = "variable" THEN ~c.truth
    ELSE IF IsNullClause(c) THEN c.truth
    ELSE ~schema.array /\ Constant(c)[1] \in {"string", "boolean"} /\ Constant(c)[1] = schema.kind

ValidContains(c, schema) ==
    /\ schema.array
    /\ IF c.form = "variable" THEN ~c.truth
       ELSE /\ c.truth
            /\ \/ Constant(c)[1] = schema.kind
               \/ /\ schema.kind = "number"
                  /\ Constant(c)[1] = "string" /\ Constant(c)[2] \in NumericTexts

Valid(c, schema) ==
    /\ c.hideNulls => c.op = "exists"
    /\ CASE c.op = "equals"   -> ValidEquals(c, schema)
         [] c.op = "in"       -> c.select /\ c.value # {} /\ schema = [kind |-> "string", array |-> FALSE]
         [] c.op = "exists"   -> c.form = "variable"
         [] c.op = "contains" -> ValidContains(c, schema)

-----------------------------------------------------------------------------
(* Path segments.                                                          *)

(* Hexadecimal, a word for the empty string; other kinds stay literal.     *)
EncodeStringValue(s) == IF s[2] = "" THEN "empty" ELSE Hex[s[2]]

EncodeScalar(s) == IF s[1] = "string" THEN EncodeStringValue(s) ELSE s[2]

EncodeTruth(b) == IF b THEN "true" ELSE "false"

TooLong(s) == s[1] = "string" /\ s[2] \in LongTexts

-----------------------------------------------------------------------------
(* The change agent: an outcome of a clause is an error, or the segments   *)
(* the document is filed under ({} for a document that is left out), or    *)
(* Pass for a filter that adds no segment.                                 *)

Error == [error |-> TRUE, pass |-> FALSE, segs |-> {}]
Filed(S) == [error |-> FALSE, pass |-> FALSE, segs |-> S]
LeftOut == Filed({})
Pass == [error |-> FALSE, pass |-> TRUE, segs |-> {}]

EvaluateEquals(c, v) ==
    IF c.form = "variable"
      THEN CASE v = Absent -> LeftOut
             [] v.is = "scalar" /\ v.value[1] \in {"string", "boolean"} ->
                  IF TooLong(v.value) THEN LeftOut ELSE Filed({EncodeScalar(v.value)})
             [] v = One(JsonNull) -> LeftOut
             [] OTHER -> Error
    ELSE IF IsNullClause(c) THEN Filed({EncodeTruth(v = One(JsonNull))})
    ELSE IF c.truth THEN Filed({EncodeTruth(v = One(Constant(c)))})
    ELSE IF v = One(Constant(c)) THEN Pass ELSE LeftOut

EvaluateIn(c, v) ==
    IF v.is = "scalar" /\ v.value \in c.value THEN Filed({EncodeStringValue(v.value)})
    ELSE LeftOut

EvaluateExists(c, v) ==
    Filed({EncodeTruth(v # Absent /\ ~(c.hideNulls /\ v = One(JsonNull)))})

EvaluateContains(c, v) ==
    IF v.is # "array" THEN LeftOut
    ELSE IF c.form = "variable"
      THEN Filed({EncodeScalar(s) : s \in {t \in v.items : ~TooLong(t)}})
      ELSE Filed({EncodeTruth(Constant(c) \in v.items)})

EvaluateClause(c, v) ==
    CASE c.op = "equals"   -> EvaluateEquals(c, v)
      [] c.op = "in"       -> EvaluateIn(c, v)
      [] c.op = "exists"   -> EvaluateExists(c, v)
      [] c.op = "contains" -> EvaluateContains(c, v)

(* Mutant: the segments come in the reverse order. *)
ExpandBucketsReversed(o1, o2) ==
    CASE o1.pass /\ o2.pass  -> {<<>>}
      [] o1.pass /\ ~o2.pass -> {<<s>> : s \in o2.segs}
      [] ~o1.pass /\ o2.pass -> {<<s>> : s \in o1.segs}
      [] OTHER               -> o2.segs \X o1.segs

(* The paths of the buckets of a definition of two clauses: one segment    *)
(* per clause that has any, in the clauses' order.                         *)
ExpandBuckets(o1, o2) ==
    CASE o1.pass /\ o2.pass  -> {<<>>}
      [] o1.pass /\ ~o2.pass -> {<<s>> : s \in o2.segs}
      [] ~o1.pass /\ o2.pass -> {<<s>> : s \in o1.segs}
      [] OTHER               -> o1.segs \X o2.segs

(* The clauses are evaluated in order, until one fails or leaves the       *)
(* document out.                                                           *)
EvaluateDocument(c1, v1, c2, v2) ==
    LET o1 == EvaluateClause(c1, v1)
        o2 == EvaluateClause(c2, v2)
    IN  [error |-> o1.error \/ (o1 # LeftOut /\ o2.error), buckets |-> ExpandBuckets(o1, o2)]

-----------------------------------------------------------------------------
(* The reader.                                                             *)

Refused == [ok |-> FALSE, seg |-> <<>>]
At(seg) == [ok |-> TRUE, seg |-> <<seg>>]
Anywhere == [ok |-> TRUE, seg |-> <<>>]

Truth(x) == IF x[1] = "boolean" THEN At(x[2]) ELSE Refused

ResolveEqualsQuery(c, x) ==
    IF c.form = "variable"
      THEN IF x[1] \in {"string", "boolean"} /\ ~TooLong(x) THEN At(EncodeScalar(x)) ELSE Refused
    ELSE IF ~c.truth THEN (IF IsNullClause(c) THEN Refused ELSE Anywhere)
    ELSE Truth(x)

ResolveInQuery(c, x) ==
    IF c.select /\ x \in c.value THEN At(EncodeStringValue(x)) ELSE Refused

ResolveContainsQuery(c, x) ==
    IF c.form = "variable" THEN (IF TooLong(x) THEN Refused ELSE At(EncodeScalar(x)))
    ELSE IF c.truth THEN Truth(x) ELSE Refused

ResolveClauseQuery(c, x) ==
    CASE c.op = "equals"   -> ResolveEqualsQuery(c, x)
      [] c.op = "in"       -> ResolveInQuery(c, x)
      [] c.op = "exists"   -> IF c.form = "variable" THEN Truth(x) ELSE Refused
      [] c.op = "contains" -> ResolveContainsQuery(c, x)

(* The query's path: the clauses' segments in order; one refusal refuses.  *)
ResolveQueryPath(c1, x1, c2, x2) ==
    LET q1 == ResolveClauseQuery(c1, x1)
        q2 == ResolveClauseQuery(c2, x2)
    IN  [ok |-> q1.ok /\ q2.ok, path |-> q1.seg \o q2.seg]

-----------------------------------------------------------------------------
(* What the clauses are documented to mean.                                *)

(* SEARCHING-V1: what a clause with the query's value x says of a field.   *)
Means(c, v, x) ==
    LET yes == x = Scalar("boolean", "true")
    IN  CASE c.op = "equals" /\ c.form = "variable" -> v = One(x)
          [] c.op = "equals" /\ c.form # "variable" /\ c.truth -> ((v = One(Constant(c))) <=> yes)
          [] c.op = "equals" /\ c.form # "variable" /\ ~c.truth -> v = One(Constant(c))
          [] c.op = "in" -> v = One(x)
          [] c.op = "exists" ->
               ((IF c.hideNulls THEN v \notin {Absent, One(JsonNull)} ELSE v # Absent) <=> yes)
          [] c.op = "contains" /\ c.form = "variable" -> v.is = "array" /\ x \in v.items
          [] c.op = "contains" /\ c.form # "variable" ->
               v.is = "array" /\ ((Constant(c) \in v.items) <=> yes)

(* Values a client of the search would give: of the field's kind.          *)
Bindings(c, schema) ==
    IF (c.form = "variable" /\ c.op # "exists") \/ c.op = "in" THEN OfKind(schema.kind) ELSE Booleans

(* The one clause that is accepted for fields it cannot file: equals with  *)
(* a variable, on a number or an array.                                    *)
CannotFile(c, v) ==
    /\ c.op = "equals" /\ c.form = "variable"
    /\ v.is = "array" \/ (v.is = "scalar" /\ v.value[1] = "number")

=============================================================================

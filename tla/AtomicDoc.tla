----------------------------- MODULE AtomicDoc ------------------------------
(***************************************************************************)
(* What the write path of one document promises, without mutex, files or   *)
(* steps: an atomic compare-and-swap on the document's version             *)
(* (docs/atomic-updates.md, "The building block: version-checked writes"). *)
(* A write takes effect at once or not at all.  The one thing besides a    *)
(* write that may change the document is a mishap, a kill or an I/O error, *)
(* and all it may do is make the document unreachable.                     *)
(***************************************************************************)
EXTENDS Naturals

CONSTANT MaxIds   \* ids are drawn from 1..MaxIds, each at most once

VARIABLES
    doc,       \* the document's version, or NoDoc
    commits,   \* the writes that have taken effect
    mishaps    \* kills and I/O errors so far

vars == <<doc, commits, mishaps>>

NoDoc == 0
Ops == {"create", "patch", "delete"}
Command == [op : Ops, expect : 0..MaxIds, id : 1..MaxIds]
Result(w) == IF w.op = "delete" THEN NoDoc ELSE w.id

Init ==
    /\ doc = NoDoc
    /\ commits = {}
    /\ mishaps = 0

(* create needs the document absent, patch and delete need exactly the     *)
(* version they name; the version a write makes was never made before.     *)
Take(w) ==
    /\ IF w.op = "create" THEN doc = NoDoc ELSE doc # NoDoc /\ doc = w.expect
    /\ \A k \in commits : k.id # w.id
    /\ doc' = Result(w)
    /\ commits' = commits \cup {w}
    /\ UNCHANGED mishaps

Mishap ==
    /\ mishaps' = mishaps + 1
    /\ doc' \in {doc, NoDoc}
    /\ UNCHANGED commits

Next == Mishap \/ \E w \in Command : Take(w)

Spec == Init /\ [][Next]_vars

=============================================================================

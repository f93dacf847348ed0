----------------------------- MODULE Followers ------------------------------
(***************************************************************************)
(* What replication promises of the copies of something that has one       *)
(* source, without messages, staged entries or appliers.  While it is calm *)
(* (no write began before the last had arrived everywhere) a copy moves on *)
(* to what the source has and to nothing else, at once or by way of one of *)
(* the values in Between; once it is there it stays until the next write.  *)
(* When writes overlap, or one was not staged, nothing is promised.        *)
(***************************************************************************)
CONSTANTS
    Copies,    \* the copies there are
    Values,    \* what a copy may hold
    Between    \* what a copy may hold on its way from one value to the next

VARIABLES
    source,    \* per copy: what its source has
    copy,      \* per copy: what it holds
    calm       \* writes have not overlapped and none was forgotten

vars == <<source, copy, calm>>

Init ==
    /\ source \in [Copies -> Values]
    /\ copy = source
    /\ calm = TRUE

(* A write that does not disturb begins when every copy is up to date. *)
Write ==
    /\ calm /\ copy = source
    /\ source' \in [Copies -> Values]
    /\ UNCHANGED <<copy, calm>>

(* Copies that are behind move on. *)
Follow ==
    /\ calm
    /\ copy' \in [Copies -> Values]
    /\ \A c \in Copies :
          copy'[c] # copy[c] => copy[c] # source[c] /\ copy'[c] \in Between \cup {source[c]}
    /\ UNCHANGED <<source, calm>>

(* A write that overlaps the last, or one that is not staged, and all that *)
(* happens afterwards.                                                     *)
Disturbed ==
    /\ source' \in [Copies -> Values]
    /\ copy' \in [Copies -> Values]
    /\ calm' = FALSE

Next == Write \/ Follow \/ Disturbed

Spec == Init /\ [][Next]_vars

=============================================================================

---------------------------- MODULE WorkItemIds -----------------------------
(***************************************************************************)
(* The names attachments travel under while a read member is behind.  The  *)
(* pending file is {server}.{document}.{file}.json; the listing of pending *)
(* work reads document and file back from that name and offers             *)
(* {server}-{document}-{file}; fetch and complete put that into the URL of *)
(* a request, and the server takes it apart again and rebuilds the path.   *)
(* Ids and file names may hold the separators, and file names what a URL   *)
(* reads in its own way.                                                   *)
(*                                                                         *)
(* A string is the sequence of its characters; the server and the .json    *)
(* suffix, which are cut off by their known text, are left out.  So are    *)
(* the limits on lengths: the name of a file that exists, at most 255      *)
(* bytes with the server and the suffix, has no part that exceeds them.    *)
(***************************************************************************)
EXTENDS Naturals, Sequences, SequencesExt, FiniteSetsExt

CONSTANTS
    Letters,         \* what an id may hold beside dots and hyphens
    OtherChars,      \* what a file name may hold, an id may not and a URL leaves alone
    NullText,        \* the text null, which is no id
    Escapes,         \* per two digits: the character a URL escapes as % and them
    MaxIdLength,     \* bound: length of a document id
    MaxNameLength    \* bound: length of a file name

ASSUME WorkItemIdsAssumption ==
    /\ NullText \in Seq(Letters)
    /\ Letters \cap {".", "-", "?", "#", "%"} = {}
    /\ OtherChars \cap {"?", "#", "%"} = {}
    /\ MaxIdLength \in Nat
    /\ MaxNameLength \in Nat

Dot == "."
Hyphen == "-"
Percent == "%"
UrlChars == {"?", "#", Percent}
IdChars == Letters \cup {Dot, Hyphen}
NameChars == IdChars \cup OtherChars \cup UrlChars

Texts(chars, n) == UNION {[1..k -> chars] : k \in 1..n}

(* The names a document or an attachment may have: neither is empty or     *)
(* starts with a dot, and only a file name may hold any character.         *)
SafeID(s) == s # <<>> /\ s # NullText /\ Head(s) # Dot /\ Range(s) \subseteq IdChars
SafeFileName(s) == s # <<>> /\ Head(s) # Dot

DocumentIds == {s \in Texts(IdChars, MaxIdLength) : SafeID(s)}
FileNames == {s \in Texts(NameChars, MaxNameLength) : SafeFileName(s)}

PendingFileWritePath(doc, file) == doc \o <<Dot>> \o file
FileWorkItemID(doc, file) == doc \o <<Hyphen>> \o file

(* The places where s splits at sep into a safe id and a safe file name. *)
Splits(s, sep) ==
    {i \in 1..Len(s) :
        s[i] = sep /\ SafeID(SubSeq(s, 1, i - 1)) /\ SafeFileName(SubSeq(s, i + 1, Len(s)))}

SplitAt(s, i) == [id |-> SubSeq(s, 1, i - 1), file |-> SubSeq(s, i + 1, Len(s))]

(* The longest id wins, in both directions. *)
ParsePendingFileWriteName(name) ==
    IF Splits(name, Dot) = {} THEN {} ELSE {SplitAt(name, Max(Splits(name, Dot)))}

(* Mutant: the shortest id wins. *)
ParseFileWorkItemIDFirst(item) ==
    IF Splits(item, Hyphen) = {} THEN {} ELSE {SplitAt(item, Min(Splits(item, Hyphen)))}

ParseFileWorkItemID(item) ==
    IF Splits(item, Hyphen) = {} THEN {} ELSE {SplitAt(item, Max(Splits(item, Hyphen)))}

(* What a URL makes of the id that is put into its path as it is (an id    *)
(* has no slash, the one character that urlPathEscape escapes): the path   *)
(* ends before a ? or #, and a % has to start an escape, which is undone.  *)
UrlPath(s) ==
    LET ends == {i \in 1..Len(s) : s[i] \in {"?", "#"}}
    IN  IF ends = {} THEN s ELSE SubSeq(s, 1, Min(ends) - 1)

EscapesRight(s) ==
    \A i \in 1..Len(s) :
        s[i] = Percent => i + 2 <= Len(s) /\ <<s[i + 1], s[i + 2]>> \in DOMAIN Escapes

Unescape[s \in Seq(NameChars)] ==
    IF s = <<>> THEN <<>>
    ELSE IF Head(s) = Percent THEN <<Escapes[<<s[2], s[3]>>]>> \o Unescape[SubSeq(s, 4, Len(s))]
    ELSE <<Head(s)>> \o Unescape[Tail(s)]

(* The id that arrives with a request for an item, {} when the URL is no    *)
(* URL and the request is never made.                                      *)
PathValue(item) ==
    LET path == UrlPath(item)
    IN  IF Percent \notin Range(path) THEN {path}
        ELSE IF EscapesRight(path) THEN {Unescape[path]} ELSE {}

(* The paths the item a pending file is listed under leads back to. *)
ResolvedPaths(doc, file) ==
    LET listed   == {FileWorkItemID(p.id, p.file) :
                       p \in ParsePendingFileWriteName(PendingFileWritePath(doc, file))}
        received == UNION {PathValue(item) : item \in listed}
        parsed   == UNION {ParseFileWorkItemID(item) : item \in received}
    IN  {PendingFileWritePath(q.id, q.file) : q \in parsed}

(* The last part of a file name: from its last dot on, not counting dots   *)
(* that no other character follows; all of it without one.                 *)
LastPart(file) ==
    LET dots == {i \in 1..(Len(file) - 1) : file[i] = Dot /\ file[i + 1] # Dot}
    IN  IF dots = {} THEN file ELSE SubSeq(file, Max(dots) + 1, Len(file))

=============================================================================

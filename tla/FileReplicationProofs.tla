------------------------ MODULE FileReplicationProofs -----------------------
(***************************************************************************)
(* Proofs about FileReplication, for any members, any number of file names *)
(* and any bounds.                                                         *)
(***************************************************************************)
EXTENDS FileReplication, WellFoundedInduction, TLAPS

-----------------------------------------------------------------------------
(* Constants and types *)

(* The bounds are numbers; there is a version 0 and a first name. *)
LEMMA ConstantFacts ==
  /\ MaxWrites \in Nat /\ MaxMishaps \in Nat /\ Files \in Nat
  /\ Versions \subseteq Nat /\ 0 \in Versions
  /\ Names \subseteq Nat /\ 1 \in Names /\ 0 \notin Names
BY FileReplicationAssumption DEF Versions, Names

(* Entries and the empty values have their types. *)
LEMMA EntryTypes ==
  /\ \A v \in Versions : EntryFor(v) \in Entry
  /\ NoEntry \in Entry /\ NoEntry = EntryFor(0)
  /\ NoEntries \in [Names -> Entry] /\ \A n \in Names : NoEntries[n] = NoEntry
  /\ Files0 \in [Names -> Versions] /\ \A n \in Names : Files0[n] = 0
  /\ \A v, w : EntryFor(v) = EntryFor(w) => v = w
BY ConstantFacts DEF EntryFor, Entry, NoEntry, NoEntries, Files0, NoFile

(* No item is not an item. *)
LEMMA NoItemFacts == NoItem \notin Item /\ NoItem.cmd = "none" /\ NoItem.name = 0
BY DEF NoItem, Item, Ops

(* The fields of an item. *)
LEMMA ItemFields ==
  ASSUME NEW x \in Item
  PROVE  /\ x.cmd \in {"put", "delete"} /\ x.name \in Names /\ x.op \in Versions
         /\ x.ver \in Versions /\ x.sha \in Versions /\ x # NoItem
BY NoItemFacts DEF Item, Ops

(* Work with an item in it. *)
LEMMA WorkTypes ==
  /\ NoWork \in Work /\ NoWork.item = NoItem
  /\ \A x \in Item : /\ [NoWork EXCEPT !.item = x] \in Work
                     /\ [NoWork EXCEPT !.item = x].item = x
  /\ Idle \in Catchup /\ Idle.todo = {} /\ Idle.at = "idle" /\ Idle.work = NoWork
<1>1. NoWork \in Work /\ NoWork.item = NoItem
  BY ConstantFacts, EntryTypes DEF NoWork, Work, NoFile
<1>2. \A x \in Item : /\ [NoWork EXCEPT !.item = x] \in Work
                      /\ [NoWork EXCEPT !.item = x].item = x
  BY ConstantFacts, EntryTypes DEF NoWork, Work, NoFile
<1>3. Idle \in Catchup /\ Idle.todo = {} /\ Idle.at = "idle" /\ Idle.work = NoWork
  BY <1>1 DEF Idle, Catchup, CatchupSteps
<1> QED BY <1>1, <1>2, <1>3

(* The fields of work. *)
LEMMA WorkFields ==
  ASSUME NEW w \in Work
  PROVE  w.item \in Item \cup {NoItem} /\ w.bytes \in Versions /\ w.loaded \in [Names -> Entry]
BY DEF Work

(* The fields of a push. *)
LEMMA PushFields ==
  ASSUME NEW p \in Push
  PROVE  p.work \in Work /\ p.to \in Members /\ p.at \in PushSteps /\ p.waiting \in BOOLEAN
BY DEF Push

(* The fields of a catch-up. *)
LEMMA CatchupFields ==
  ASSUME TypeOK, NEW m \in Members
  PROVE  /\ catchup[m] \in Catchup
         /\ catchup[m].todo \subseteq Names
         /\ catchup[m].work \in Work
         /\ catchup[m].at \in CatchupSteps
<1>1. catchup[m] \in Catchup
  BY DEF TypeOK
<1> QED BY <1>1 DEF Catchup

(* A set of numbers has a least element. *)
LEMMA LeastExists ==
  ASSUME NEW T, T \subseteq Nat, T # {}
  PROVE  \E i \in T : \A j \in T : i <= j
<1> DEFINE R == {ss \in Nat \X Nat : ss[1] < ss[2]}
<1>1. IsWellFoundedOn(R, Nat)
  BY NatLessThanWellFounded, Zenon DEF OpToRel
<1>2. PICK i \in T : \A y \in T : ~(<<y, i>> \in R)
  <2> HIDE DEF R
  <2> QED BY <1>1, WFMin
<1>3. \A y \in T : ~(y < i)
  BY <1>2
<1> QED BY <1>3

(* An agent at work has a current item. *)
LEMMA CurrentFacts ==
  ASSUME TypeOK, WorkInv, NEW m \in Members, catchup[m].at # "idle"
  PROVE  Current(m) \in catchup[m].todo /\ Current(m) \in Names
<1>1. PICK T : T = catchup[m].todo
  OBVIOUS
<1>2. T # {} /\ T \subseteq Names /\ T \subseteq Nat
  BY <1>1, CatchupFields, ConstantFacts DEF WorkInv
<1>3. \E i \in T : \A j \in T : i <= j
  BY <1>2, LeastExists
<1>4. Current(m) = CHOOSE i \in T : \A j \in T : i <= j
  BY <1>1 DEF Current, Min
<1>5. Current(m) \in T
  BY <1>3, <1>4
<1> QED BY <1>1, <1>2, <1>5

(* Recovery finds a last journal. *)
LEMMA LastJournalFacts ==
  ASSUME NEW S, S \subseteq Journal, S # {}
  PROVE  (CHOOSE j \in S : \A k \in S : j.op >= k.op) \in S
<1> DEFINE T == {MaxWrites - j.op : j \in S}
<1>1. \A j \in S : j.op \in 0..MaxWrites
  BY DEF Journal, Versions
<1>2. \A j \in S : MaxWrites - j.op \in Nat
  BY <1>1, ConstantFacts
<1>3. T \subseteq Nat /\ T # {}
  BY <1>2
<1>4. PICK t \in T : \A u \in T : t <= u
  <2> HIDE DEF T
  <2> QED BY <1>3, LeastExists
<1>5. PICK j \in S : t = MaxWrites - j.op
  OBVIOUS
<1>6. ASSUME NEW k \in S PROVE j.op >= k.op
  <2>1. MaxWrites - j.op <= MaxWrites - k.op
    BY <1>4, <1>5
  <2> QED BY <1>1, <2>1, ConstantFacts
<1> QED BY <1>6

-----------------------------------------------------------------------------
(* The applier *)

(* An applier's next step and what it carries there. *)
LEMMA CarriedFacts ==
  ASSUME TypeOK, NEW m \in Members, NEW w \in Work, NEW at \in ApplySteps
  PROVE  /\ Carried(m, at, w) \in Work
         /\ Carried(m, at, w).item = w.item /\ Carried(m, at, w).bytes = w.bytes
         /\ Carried(m, at, w).loaded = IF at = "load" THEN mmanifest[m] ELSE NoEntries
         /\ After(m, at, w) \in ApplySteps \cup Outcomes
<1>1. mmanifest[m] \in [Names -> Entry]
  BY DEF TypeOK
<1>2. PICK l : l = IF at = "load" THEN mmanifest[m] ELSE NoEntries
  OBVIOUS
<1>3. l \in [Names -> Entry]
  BY <1>1, <1>2, EntryTypes
<1>4. Carried(m, at, w) = [w EXCEPT !.loaded = l]
  BY <1>2 DEF Carried
<1>5. /\ [w EXCEPT !.loaded = l] \in Work
      /\ [w EXCEPT !.loaded = l].item = w.item
      /\ [w EXCEPT !.loaded = l].bytes = w.bytes
      /\ [w EXCEPT !.loaded = l].loaded = l
  BY <1>3 DEF Work
<1>6. Decide(m, w) \in {"yes", "no", "blob"}
  BY DEF Decide
<1>7. After(m, at, w) \in ApplySteps \cup Outcomes
  BY <1>6 DEF After, ApplySteps, Outcomes
<1> QED BY <1>2, <1>4, <1>5, <1>7

(* Dropping what was loaded. *)
LEMMA DroppedFacts ==
  ASSUME NEW w \in Work
  PROVE  /\ [w EXCEPT !.loaded = NoEntries] \in Work
         /\ [w EXCEPT !.loaded = NoEntries].item = w.item
BY EntryTypes DEF Work

(* The journal of an applier. *)
LEMMA JournalFacts ==
  ASSUME NEW w \in Work, w.item \in Item
  PROVE  /\ JournalOf(w) \in Journal
         /\ JournalOf(w).name = w.item.name /\ JournalOf(w).op = w.item.op
         /\ JournalOf(w).entry = IF w.item.cmd = "put" THEN [ver |-> w.item.ver, sha |-> w.bytes]
                                                        ELSE NoEntry
         /\ JournalOf(w).entry \in Entry
<1>1. PICK e : e = IF w.item.cmd = "put" THEN [ver |-> w.item.ver, sha |-> w.bytes] ELSE NoEntry
  OBVIOUS
<1>2. e \in Entry
  <2>1. w.item.ver \in Versions /\ w.bytes \in Versions
    BY ItemFields, WorkFields
  <2>2. [ver |-> w.item.ver, sha |-> w.bytes] \in Entry
    BY <2>1 DEF Entry
  <2> QED BY <1>1, <2>2, EntryTypes
<1>3. JournalOf(w) = [cmd |-> w.item.cmd, name |-> w.item.name, op |-> w.item.op, entry |-> e]
  BY <1>1 DEF JournalOf, EntryOf
<1>4. w.item.cmd \in Ops /\ w.item.name \in Names /\ w.item.op \in Versions
  BY ItemFields DEF Ops
<1> QED BY <1>1, <1>2, <1>3, <1>4 DEF Journal

(* What a step does to the files, place by place. *)
Applied(x, m, at, w) ==
    /\ \A k \in Members : \A i \in Names : mblob'[k][i] =
          IF at = "blob" /\ k = m /\ i = x.name
            THEN (IF x.cmd = "put" THEN w.bytes ELSE 0) ELSE mblob[k][i]
    /\ \A k \in Members : \A i \in Names : mmanifest'[k][i] =
          IF at = "store" /\ k = m
            THEN (IF i = x.name THEN JournalOf(w).entry ELSE w.loaded[i])
            ELSE mmanifest[k][i]
    /\ \A k \in Members : mjournal'[k] =
          IF k = m /\ at = "blob"
            THEN {j \in mjournal[m] : j.op # x.op} \cup {JournalOf(w)}
            ELSE IF k = m /\ at = "store" THEN {j \in mjournal[m] : j.op # x.op}
            ELSE mjournal[k]

(* It does that, and keeps the types. *)
LEMMA ApplyStepFacts ==
  ASSUME TypeOK, NEW m \in Members, NEW x \in Item, NEW w \in Work, w.item = x, NEW at,
         ApplyStep(m, at, w)
  PROVE  /\ mdoc' = mdoc /\ mishaps' = mishaps /\ at \in ApplySteps
         /\ mblob' \in [Members -> [Names -> Versions]]
         /\ mmanifest' \in [Members -> [Names -> Entry]]
         /\ mjournal' \in [Members -> SUBSET Journal]
         /\ Applied(x, m, at, w)
<1>1. /\ at \in ApplySteps /\ mdoc' = mdoc /\ mishaps' = mishaps
      /\ mblob' = IF at # "blob" THEN mblob ELSE
                     [mblob EXCEPT ![m][x.name] =
                         IF x.cmd = "put" THEN w.bytes ELSE NoFile]
      /\ mmanifest' = IF at # "store" THEN mmanifest ELSE
                         [mmanifest EXCEPT ![m] = Updated(w.loaded, JournalOf(w))]
      /\ mjournal' = CASE at = "blob" -> [mjournal EXCEPT ![m] =
                              {j \in mjournal[m] : j.op # x.op} \cup {JournalOf(w)}]
                      [] at = "store" -> [mjournal EXCEPT ![m] =
                              {j \in mjournal[m] : j.op # x.op}]
                      [] OTHER -> mjournal
  BY DEF ApplyStep
<1>2. /\ mblob \in [Members -> [Names -> Versions]]
      /\ mmanifest \in [Members -> [Names -> Entry]]
      /\ mjournal \in [Members -> SUBSET Journal]
  BY DEF TypeOK
<1>3. x.name \in Names /\ w.bytes \in Versions /\ w.loaded \in [Names -> Entry]
  BY ItemFields, WorkFields
<1>4. /\ mblob' \in [Members -> [Names -> Versions]]
      /\ \A k \in Members : \A i \in Names : mblob'[k][i] =
            IF at = "blob" /\ k = m /\ i = x.name
              THEN (IF x.cmd = "put" THEN w.bytes ELSE 0) ELSE mblob[k][i]
  <2>1. PICK b : b = IF x.cmd = "put" THEN w.bytes ELSE NoFile
    OBVIOUS
  <2>2. b \in Versions /\ b = IF x.cmd = "put" THEN w.bytes ELSE 0
    BY <1>3, <2>1, ConstantFacts DEF NoFile
  <2>3. PICK n : n = x.name
    OBVIOUS
  <2>4. CASE at = "blob"
    <3>1. mblob' = [mblob EXCEPT ![m][n] = b] /\ n \in Names
      BY <1>1, <1>3, <2>1, <2>3, <2>4
    <3>2. /\ mblob' \in [Members -> [Names -> Versions]]
          /\ \A k \in Members : \A i \in Names :
                mblob'[k][i] = IF k = m /\ i = n THEN b ELSE mblob[k][i]
      BY <1>2, <2>2, <3>1
    <3> QED BY <2>2, <2>3, <2>4, <3>2
  <2>5. CASE at # "blob"
    BY <1>1, <1>2, <2>5
  <2> QED BY <2>4, <2>5
<1>5. /\ mmanifest' \in [Members -> [Names -> Entry]]
      /\ \A k \in Members : \A i \in Names : mmanifest'[k][i] =
            IF at = "store" /\ k = m
              THEN (IF i = x.name THEN JournalOf(w).entry ELSE w.loaded[i])
              ELSE mmanifest[k][i]
  <2>1. PICK e : e = JournalOf(w).entry
    OBVIOUS
  <2>2. PICK u : u = Updated(w.loaded, JournalOf(w))
    OBVIOUS
  <2>3. e \in Entry /\ JournalOf(w).name = x.name
    BY <2>1, JournalFacts
  <2>4. u = [w.loaded EXCEPT ![x.name] = e]
    BY <2>1, <2>2, <2>3 DEF Updated
  <2>5. /\ u \in [Names -> Entry]
        /\ \A i \in Names : u[i] = IF i = x.name THEN e ELSE w.loaded[i]
    BY <1>3, <2>3, <2>4
  <2>6. CASE at = "store"
    <3>1. mmanifest' = [mmanifest EXCEPT ![m] = u]
      BY <1>1, <2>2, <2>6
    <3>2. /\ mmanifest' \in [Members -> [Names -> Entry]]
          /\ \A k \in Members : mmanifest'[k] = IF k = m THEN u ELSE mmanifest[k]
      BY <1>2, <2>5, <3>1
    <3> QED BY <2>1, <2>5, <2>6, <3>2
  <2>7. CASE at # "store"
    BY <1>1, <1>2, <2>7
  <2> QED BY <2>6, <2>7
<1>6. /\ mjournal' \in [Members -> SUBSET Journal]
      /\ \A k \in Members : mjournal'[k] =
            IF k = m /\ at = "blob"
              THEN {j \in mjournal[m] : j.op # x.op} \cup {JournalOf(w)}
              ELSE IF k = m /\ at = "store" THEN {j \in mjournal[m] : j.op # x.op}
              ELSE mjournal[k]
  <2>1. PICK rest : rest = {j \in mjournal[m] : j.op # x.op}
    OBVIOUS
  <2>2. PICK jw : jw = JournalOf(w)
    OBVIOUS
  <2>3. rest \subseteq Journal /\ jw \in Journal
    BY <1>2, <2>1, <2>2, JournalFacts
  <2>4. mjournal' = CASE at = "blob" -> [mjournal EXCEPT ![m] = rest \cup {jw}]
                      [] at = "store" -> [mjournal EXCEPT ![m] = rest]
                      [] OTHER -> mjournal
    BY <1>1, <2>1, <2>2
  <2>5. /\ mjournal' \in [Members -> SUBSET Journal]
        /\ \A k \in Members : mjournal'[k] =
              IF k = m /\ at = "blob" THEN rest \cup {jw}
              ELSE IF k = m /\ at = "store" THEN rest ELSE mjournal[k]
    <3>1. CASE at = "blob"
      BY <1>2, <2>3, <2>4, <3>1
    <3>2. CASE at = "store"
      BY <1>2, <2>3, <2>4, <3>2
    <3>3. CASE at # "blob" /\ at # "store"
      BY <1>2, <2>4, <3>3
    <3> QED BY <3>1, <3>2, <3>3
  <2> QED BY <2>1, <2>2, <2>5
<1> QED BY <1>1, <1>4, <1>5, <1>6 DEF Applied

-----------------------------------------------------------------------------
(* Going forward *)

(* A step goes forward with operation x: bytes and entries of its file     *)
(* change to the operation's only, first the bytes, then the entry; other  *)
(* files do not change.                                                    *)
Forward(x) ==
    /\ sot' = sot
    /\ \A k \in Members : \A i \in Names :
          mblob'[k][i] = mblob[k][i] \/ (i = x.name /\ mblob'[k][i] = sot[i])
    /\ \A k \in Members : \A i \in Names :
          \/ mmanifest'[k][i] = mmanifest[k][i]
          \/ i = x.name /\ mmanifest'[k][i] = EntryFor(sot[i]) /\ mblob[k][i] = sot[i]
    /\ \A k \in Members : \A j \in mjournal'[k] :
          j.name = x.name /\ j.entry = EntryFor(sot[x.name])
    /\ \A k \in Members : mjournal'[k] # {} => mjournal[k] # {} \/ mblob'[k][x.name] = sot[x.name]

(* Nothing such a step does harms a member or an applier. *)
LEMMA ForwardKeeps ==
  ASSUME NEW x \in Item, Forward(x), NEW m \in Members, MemberInv(x, m)
  PROVE  /\ MemberInv(x, m)'
         /\ \A at, w : ApplierInv(x, m, at, w) => ApplierInv(x, m, at, w)'
         /\ mmanifest[m][x.name] = EntryFor(sot[x.name]) =>
               mmanifest'[m][x.name] = EntryFor(sot'[x.name])
<1>1. x.name \in Names
  BY ItemFields
<1>2. sot' = sot
  BY DEF Forward
<1>3. mblob[m][x.name] = sot[x.name] => mblob'[m][x.name] = sot[x.name]
  BY <1>1 DEF Forward
<1>4. mmanifest[m][x.name] = EntryFor(sot[x.name]) =>
         mmanifest'[m][x.name] = EntryFor(sot[x.name])
  BY <1>1 DEF Forward
<1>5. \A n \in Names \ {x.name} : mblob'[m][n] = mblob[m][n] /\ mmanifest'[m][n] = mmanifest[m][n]
  BY DEF Forward
<1>6. \A j \in mjournal'[m] : j.name = x.name /\ j.entry = EntryFor(sot[x.name])
  BY DEF Forward
<1>7. ASSUME mmanifest'[m][x.name] = EntryFor(sot[x.name]) \/ mjournal'[m] # {}
      PROVE  mblob'[m][x.name] = sot[x.name]
  BY <1>1, <1>3, <1>7 DEF Forward, MemberInv
<1>8. MemberInv(x, m)'
  BY <1>2, <1>5, <1>6, <1>7 DEF MemberInv
<1>9. \A at, w : ApplierInv(x, m, at, w) => ApplierInv(x, m, at, w)'
  BY <1>2, <1>3, <1>4 DEF ApplierInv
<1> QED BY <1>2, <1>4, <1>8, <1>9

(* An applier of x goes forward, and is as sound after the step as before. *)
LEMMA ApplyForward ==
  ASSUME TypeOK, NEW x \in Item, Delivering(x), sot' = sot,
         NEW m \in Members, NEW w \in Work, w.item = x, NEW at,
         ApplierInv(x, m, at, w), ApplyStep(m, at, w)
  PROVE  /\ Forward(x)
         /\ \A a, c : a = After(m, at, w) /\ c = Carried(m, at, w) => ApplierInv(x, m, a, c)'
<1>1. PICK n : n = x.name
  OBVIOUS
<1>2. PICK v : v = sot[n]
  OBVIOUS
<1>3. n \in Names /\ x.cmd \in {"put", "delete"}
  BY <1>1, ItemFields
<1>4. v = (IF x.cmd = "put" THEN x.ver ELSE 0) /\ (x.cmd = "put" => x.sha = x.ver)
  BY <1>1, <1>2 DEF Delivering, NoFile
<1>5. MemberInv(x, m)
  BY DEF Delivering
<1>6. /\ at \in {"blob", "load", "store"} /\ x.cmd = "put" => w.bytes = x.sha
      /\ at \in {"load", "store"} => mblob[m][n] = v
      /\ at = "store" => \A i \in Names \ {n} : w.loaded[i] = EntryFor(sot[i])
  BY <1>1, <1>2 DEF ApplierInv
<1>7. /\ at \in ApplySteps
      /\ \A k \in Members : \A i \in Names : mblob'[k][i] =
            IF at = "blob" /\ k = m /\ i = n
              THEN (IF x.cmd = "put" THEN w.bytes ELSE 0) ELSE mblob[k][i]
      /\ \A k \in Members : \A i \in Names : mmanifest'[k][i] =
            IF at = "store" /\ k = m
              THEN (IF i = n THEN JournalOf(w).entry ELSE w.loaded[i])
              ELSE mmanifest[k][i]
      /\ \A k \in Members : mjournal'[k] =
            IF k = m /\ at = "blob"
              THEN {j \in mjournal[m] : j.op # x.op} \cup {JournalOf(w)}
              ELSE IF k = m /\ at = "store" THEN {j \in mjournal[m] : j.op # x.op}
              ELSE mjournal[k]
  <2>1. at \in ApplySteps /\ Applied(x, m, at, w)
    BY ApplyStepFacts
  <2> QED BY <1>1, <2>1 DEF Applied
<1>8. at \in {"blob", "store"} => JournalOf(w).entry = EntryFor(v) /\ JournalOf(w).name = n
  BY <1>1, <1>3, <1>4, <1>6, JournalFacts, EntryTypes DEF EntryFor
<1>9. Forward(x)
  <2>1. \A k \in Members : \A i \in Names :
           mblob'[k][i] = mblob[k][i] \/ (i = n /\ mblob'[k][i] = sot[i])
    BY <1>2, <1>3, <1>4, <1>6, <1>7
  <2>2. \A k \in Members : \A i \in Names :
           \/ mmanifest'[k][i] = mmanifest[k][i]
           \/ i = n /\ mmanifest'[k][i] = EntryFor(sot[i]) /\ mblob[k][i] = sot[i]
    <3> SUFFICES ASSUME NEW k \in Members, NEW i \in Names
                 PROVE  \/ mmanifest'[k][i] = mmanifest[k][i]
                        \/ i = n /\ mmanifest'[k][i] = EntryFor(sot[i]) /\ mblob[k][i] = sot[i]
      OBVIOUS
    <3>1. CASE at = "store" /\ k = m /\ i = n
      BY <1>2, <1>6, <1>7, <1>8, <3>1
    <3>2. CASE at = "store" /\ k = m /\ i # n
      <4>1. mmanifest'[k][i] = w.loaded[i] /\ w.loaded[i] = EntryFor(sot[i])
        BY <1>6, <1>7, <3>2
      <4>2. mmanifest[m][i] = EntryFor(sot[i])
        BY <1>1, <1>5, <3>2 DEF MemberInv
      <4> QED BY <3>2, <4>1, <4>2
    <3>3. CASE ~(at = "store" /\ k = m)
      BY <1>7, <3>3
    <3> QED BY <3>1, <3>2, <3>3
  <2>3. \A k \in Members : \A j \in mjournal[k] : j.name = n /\ j.entry = EntryFor(v)
    BY <1>1, <1>2 DEF Delivering, MemberInv
  <2>4. \A k \in Members : \A j \in mjournal'[k] : j.name = n /\ j.entry = EntryFor(v)
    <3> SUFFICES ASSUME NEW k \in Members, NEW j \in mjournal'[k]
                 PROVE  j.name = n /\ j.entry = EntryFor(v)
      OBVIOUS
    <3>1. j \in mjournal[k] \/ (at = "blob" /\ j = JournalOf(w))
      BY <1>7
    <3> QED BY <1>8, <2>3, <3>1
  <2>5. ASSUME NEW k \in Members, mjournal'[k] # {}
        PROVE  mjournal[k] # {} \/ mblob'[k][n] = v
    <3>1. CASE at = "blob" /\ k = m
      BY <1>3, <1>4, <1>6, <1>7, <3>1
    <3>2. CASE ~(at = "blob" /\ k = m)
      BY <1>7, <2>5, <3>2
    <3> QED BY <3>1, <3>2
  <2> QED BY <1>1, <1>2, <2>1, <2>2, <2>4, <2>5 DEF Forward
<1>10. PICK c : c = Carried(m, at, w)
  OBVIOUS
<1>11. PICK a : a = After(m, at, w)
  OBVIOUS
<1>12. c.bytes = w.bytes /\ c.loaded = IF at = "load" THEN mmanifest[m] ELSE NoEntries
  BY <1>7, <1>10, CarriedFacts
<1>13. ApplierInv(x, m, a, c)'
  <2>1. CASE at = "read"
    <3>1. a = Decide(m, w)
      BY <1>11, <2>1 DEF After
    <3>2. /\ a = "blob" /\ x.cmd = "put" => w.bytes = x.sha
          /\ a \in {"yes", "no", "blob"}
          /\ a = "yes" => mmanifest[m][n] = EntryFor(v)
      <4>1. mmanifest[m][n] \in Entry
        BY <1>3 DEF TypeOK
      <4>2. PICK e : e = mmanifest[m][n]
        OBVIOUS
      <4>3. e = EntryFor(e.ver) \/ e.ver # e.sha
        BY <4>1, <4>2 DEF Entry, EntryFor
      <4>4. CASE x.cmd = "delete"
        <5>1. a = IF e = NoEntry THEN "yes" ELSE "blob"
          BY <1>1, <3>1, <4>2, <4>4 DEF Decide
        <5>2. v = 0
          BY <1>4, <4>4
        <5> QED BY <4>2, <4>4, <5>1, <5>2, EntryTypes
      <4>5. CASE x.cmd = "put"
        <5>1. a = CASE e # NoEntry /\ e.ver = x.ver /\ e.sha = x.sha -> "yes"
                    [] w.bytes # x.sha -> "no"
                    [] OTHER -> "blob"
          BY <1>1, <3>1, <4>2, <4>5 DEF Decide
        <5>2. v = x.ver /\ x.sha = x.ver
          BY <1>4, <4>5
        <5>3. CASE e # NoEntry /\ e.ver = x.ver /\ e.sha = x.sha
          BY <4>2, <4>3, <5>1, <5>2, <5>3
        <5>4. CASE ~(e # NoEntry /\ e.ver = x.ver /\ e.sha = x.sha) /\ w.bytes # x.sha
          <6>1. a = "no"
            BY <5>1, <5>4
          <6> QED BY <6>1
        <5>5. CASE ~(e # NoEntry /\ e.ver = x.ver /\ e.sha = x.sha) /\ w.bytes = x.sha
          <6>1. a = "blob"
            BY <5>1, <5>5
          <6> QED BY <5>5, <6>1
        <5> QED BY <5>3, <5>4, <5>5
      <4> QED BY <1>3, <4>4, <4>5
    <3>3. a = "yes" => mmanifest'[m][n] = EntryFor(v)
      BY <1>3, <1>7, <2>1, <3>2
    <3> QED BY <1>1, <1>2, <1>12, <3>2, <3>3 DEF ApplierInv
  <2>2. CASE at = "blob"
    <3>1. a = "load"
      BY <1>11, <2>2 DEF After
    <3>2. mblob'[m][n] = v
      BY <1>3, <1>4, <1>6, <1>7, <2>2
    <3> QED BY <1>1, <1>2, <1>6, <1>12, <2>2, <3>1, <3>2 DEF ApplierInv
  <2>3. CASE at = "load"
    <3>1. a = "store"
      BY <1>11, <2>3 DEF After
    <3>2. mblob'[m][n] = v
      BY <1>3, <1>6, <1>7, <2>3
    <3>3. \A i \in Names \ {n} : c.loaded[i] = EntryFor(sot[i])
      BY <1>1, <1>5, <1>12, <2>3 DEF MemberInv
    <3> QED BY <1>1, <1>2, <1>6, <1>12, <2>3, <3>1, <3>2, <3>3 DEF ApplierInv
  <2>4. CASE at = "store"
    <3>1. a = "yes"
      BY <1>11, <2>4 DEF After
    <3>2. mmanifest'[m][n] = EntryFor(v)
      BY <1>3, <1>7, <1>8, <2>4
    <3> QED BY <1>1, <1>2, <3>1, <3>2 DEF ApplierInv
  <2> QED BY <1>7, <2>1, <2>2, <2>3, <2>4 DEF ApplySteps
<1> QED BY <1>9, <1>10, <1>11, <1>13

(* Steps that leave the files alone go forward. *)
LEMMA StillForward ==
  ASSUME NEW x \in Item, Delivering(x),
         sot' = sot, mblob' = mblob, mmanifest' = mmanifest, mjournal' = mjournal
  PROVE  Forward(x)
BY DEF Delivering, MemberInv, Forward

(* What is under way stays so when the files go forward, only x is pushed, *)
(* staged and caught up with, and no entry goes before the member has it.  *)
LEMMA DeliveringKeeps ==
  ASSUME TypeOK, NEW x \in Item, Delivering(x), Forward(x),
         \A p \in pushes' : /\ p.work.item = x /\ p.to \in Members
                            /\ p \in pushes \/ ApplierInv(x, p.to, p.at, p.work)',
         \A m \in Members : \A n \in Names :
            pending'[m][n] # NoItem => n = x.name /\ pending'[m][n] = x,
         \A m \in Members :
            \/ catchup'[m] = catchup[m]
            \/ /\ catchup'[m].todo \subseteq {x.name}
               /\ catchup'[m].at \notin {"idle", "fetch"} => catchup'[m].work.item = x
               /\ ApplierInv(x, m, catchup[m].at, catchup[m].work)',
         \A m \in Members :
            /\ pending[m][x.name] = x =>
                  pending'[m][x.name] = x \/ mmanifest[m][x.name] = EntryFor(sot[x.name])
            /\ \A p \in pushes : p.to = m /\ p.at = "stage" =>
                  p \in pushes' \/ pending'[m][x.name] = x
  PROVE  Delivering(x)'
<1>1. sot' = sot
  BY DEF Forward
<1>2. \A m \in Members :
         /\ MemberInv(x, m)'
         /\ \A at, w : ApplierInv(x, m, at, w) => ApplierInv(x, m, at, w)'
         /\ mmanifest[m][x.name] = EntryFor(sot[x.name]) =>
               mmanifest'[m][x.name] = EntryFor(sot'[x.name])
  BY ForwardKeeps DEF Delivering
<1>3. ASSUME NEW p \in pushes' PROVE p.work.item = x /\ ApplierInv(x, p.to, p.at, p.work)'
  BY <1>2, <1>3 DEF Delivering
<1>4. ASSUME NEW m \in Members
      PROVE  /\ catchup'[m].todo \subseteq {x.name}
             /\ catchup'[m].at \notin {"idle", "fetch"} => catchup'[m].work.item = x
             /\ ApplierInv(x, m, catchup[m].at, catchup[m].work)'
  <2>1. CASE catchup'[m] = catchup[m]
    <3>1. PICK at, w : at = catchup[m].at /\ w = catchup[m].work
      OBVIOUS
    <3>2. ApplierInv(x, m, at, w)'
      BY <1>2, <3>1 DEF Delivering
    <3>3. at = catchup'[m].at /\ w = catchup'[m].work
      BY <2>1, <3>1
    <3>4. ApplierInv(x, m, catchup[m].at, catchup[m].work)'
      BY <3>2, <3>3
    <3> QED BY <2>1, <3>4 DEF Delivering
  <2>2. CASE catchup'[m] # catchup[m]
    BY <2>2
  <2> QED BY <2>1, <2>2
<1>5. ASSUME NEW m \in Members PROVE Underway(x, m)'
  <2>1. CASE mmanifest[m][x.name] = EntryFor(sot[x.name])
    BY <1>2, <2>1 DEF Underway
  <2>2. CASE pending'[m][x.name] = x
    BY <2>2 DEF Underway
  <2>3. CASE mmanifest[m][x.name] # EntryFor(sot[x.name]) /\ pending'[m][x.name] # x
    <3>1. PICK p \in pushes : p.to = m /\ p.at = "stage"
      BY <2>3 DEF Delivering, Underway
    <3>2. p \in pushes'
      BY <2>3, <3>1
    <3> QED BY <3>1, <3>2 DEF Underway
  <2> QED BY <2>1, <2>2, <2>3
<1> QED BY <1>1, <1>2, <1>3, <1>4, <1>5 DEF Delivering

(* What an entry that goes leaves behind: the member has the operation.    *)
LEMMA YesFacts ==
  ASSUME NEW x \in Item, Delivering(x), NEW m \in Members, NEW w, ApplierInv(x, m, "yes", w)
  PROVE  mmanifest[m][x.name] = EntryFor(sot[x.name])
BY DEF ApplierInv

-----------------------------------------------------------------------------
(* Pushes *)

(* A push that moves on is a push: to another step, *)
LEMMA PushMoved ==
  ASSUME NEW p \in Push, NEW a \in PushSteps
  PROVE  /\ [p EXCEPT !.at = a] \in Push
         /\ [p EXCEPT !.at = a].at = a /\ [p EXCEPT !.at = a].work = p.work
         /\ [p EXCEPT !.at = a].to = p.to
BY DEF Push

(* without anybody waiting, *)
LEMMA PushLeft ==
  ASSUME NEW p \in Push
  PROVE  /\ [p EXCEPT !.waiting = FALSE] \in Push
         /\ [p EXCEPT !.waiting = FALSE].at = p.at
         /\ [p EXCEPT !.waiting = FALSE].work = p.work
         /\ [p EXCEPT !.waiting = FALSE].to = p.to
BY DEF Push

(* or with other work. *)
LEMMA PushCarries ==
  ASSUME NEW p \in Push, NEW w \in Work
  PROVE  /\ [p EXCEPT !.work = w] \in Push
         /\ [p EXCEPT !.work = w].at = p.at /\ [p EXCEPT !.work = w].work = w
         /\ [p EXCEPT !.work = w].to = p.to
BY DEF Push

(* How push p ends a step: it is gone, or goes on as q.  If that is as     *)
(* sound as before, and the entry of x is not given up too early, the      *)
(* invariant is kept.                                                      *)
LEMMA PushKeeps ==
  ASSUME TypeOK, WorkInv, IsolatedInv, NEW p \in pushes, NEW N, N \subseteq Push,
         pushes' = (pushes \ {p}) \cup N,
         \A q \in N : q.work.item = p.work.item /\ q.to = p.to,
         UNCHANGED <<sotVars, catchup>>,
         isolated' => isolated,
         ASSUME NEW x \in Item, Delivering(x), isolated'
         PROVE  /\ Forward(x)
                /\ \A q \in N : ApplierInv(x, q.to, q.at, q.work)'
                /\ \/ pending' = pending /\ p.at # "stage"
                   \/ pending' = [pending EXCEPT ![p.to][x.name] = x]
                   \/ /\ pending' = [pending EXCEPT ![p.to][x.name] = NoItem]
                      /\ mmanifest[p.to][x.name] = EntryFor(sot[x.name])
                      /\ p.at # "stage"
  PROVE  pushes' \subseteq Push /\ WorkInv' /\ IsolatedInv'
<1>1. pushes \subseteq Push /\ p \in Push /\ p.to \in Members
  BY PushFields DEF TypeOK
<1>2. pushes' \subseteq Push
  BY <1>1
<1>3. WorkInv'
  <2>1. \A q \in pushes' : q.work.item \in Item
    BY DEF WorkInv
  <2> QED BY <2>1 DEF WorkInv
<1>4. IsolatedInv'
  <2> SUFFICES ASSUME isolated' PROVE IF doc THEN \E x \in Item : Delivering(x)' ELSE AllGone'
    BY DEF IsolatedInv, sotVars
  <2>1. CASE ~doc
    BY <2>1 DEF IsolatedInv, AllGone
  <2>2. CASE doc
    <3>1. PICK x \in Item : Delivering(x)
      BY <2>2 DEF IsolatedInv
    <3>2. /\ Forward(x)
          /\ \A q \in N : ApplierInv(x, q.to, q.at, q.work)'
          /\ \/ pending' = pending /\ p.at # "stage"
             \/ pending' = [pending EXCEPT ![p.to][x.name] = x]
             \/ /\ pending' = [pending EXCEPT ![p.to][x.name] = NoItem]
                /\ mmanifest[p.to][x.name] = EntryFor(sot[x.name])
                /\ p.at # "stage"
      BY <3>1
    <3>3. x.name \in Names /\ pending \in [Members -> [Names -> Item \cup {NoItem}]]
      BY ItemFields DEF TypeOK
    <3>4. \A q \in pushes' : /\ q.work.item = x /\ q.to \in Members
                             /\ q \in pushes \/ ApplierInv(x, q.to, q.at, q.work)'
      <4> SUFFICES ASSUME NEW q \in pushes'
                   PROVE  /\ q.work.item = x /\ q.to \in Members
                          /\ q \in pushes \/ ApplierInv(x, q.to, q.at, q.work)'
        OBVIOUS
      <4>1. p.work.item = x
        BY <3>1 DEF Delivering
      <4>2. CASE q \in N
        BY <1>1, <3>2, <4>1, <4>2
      <4>3. CASE q \in pushes
        <5>1. q.work.item = x
          BY <3>1, <4>3 DEF Delivering
        <5>2. q \in Push
          BY <1>1, <4>3
        <5> QED BY <4>3, <5>1, <5>2, PushFields
      <4> QED BY <4>2, <4>3
    <3>5. \A m \in Members : \A n \in Names :
             pending'[m][n] # NoItem => n = x.name /\ pending'[m][n] = x
      <4>1. \A m \in Members : \A n \in Names :
               pending[m][n] # NoItem => n = x.name /\ pending[m][n] = x
        BY <3>1 DEF Delivering
      <4> QED BY <1>1, <3>2, <3>3, <4>1
    <3>6. \A m \in Members :
             /\ pending[m][x.name] = x =>
                   pending'[m][x.name] = x \/ mmanifest[m][x.name] = EntryFor(sot[x.name])
             /\ \A q \in pushes : q.to = m /\ q.at = "stage" =>
                   q \in pushes' \/ pending'[m][x.name] = x
      <4>1. CASE pending' = pending /\ p.at # "stage"
        BY <4>1
      <4>2. CASE pending' = [pending EXCEPT ![p.to][x.name] = x]
        BY <1>1, <3>3, <4>2
      <4>3. CASE /\ pending' = [pending EXCEPT ![p.to][x.name] = NoItem]
                 /\ mmanifest[p.to][x.name] = EntryFor(sot[x.name])
                 /\ p.at # "stage"
        BY <1>1, <3>3, <4>3
      <4> QED BY <3>2, <4>1, <4>2, <4>3
    <3>7. \A m \in Members : catchup'[m] = catchup[m]
      OBVIOUS
    <3>8. Delivering(x)'
      BY <3>1, <3>2, <3>4, <3>5, <3>6, <3>7, DeliveringKeeps
    <3> QED BY <2>2, <3>8
  <2> QED BY <2>1, <2>2
<1> QED BY <1>2, <1>3, <1>4


(* What is known of a push under way. *)
LEMMA PushFacts ==
  ASSUME TypeOK, WorkInv, NEW p \in pushes
  PROVE  /\ pushes \subseteq Push /\ p \in Push /\ p.to \in Members /\ p.work \in Work
         /\ p.at \in PushSteps /\ p.waiting \in BOOLEAN
         /\ p.work.item \in Item /\ p.work.item.name \in Names
<1>1. pushes \subseteq Push /\ p \in Push
  BY DEF TypeOK
<1>2. p.work.item \in Item
  BY DEF WorkInv
<1> QED BY <1>1, <1>2, PushFields, ItemFields

(* A step that leaves the members' files and the catch-up alone keeps their*)
(* types.                                                                  *)
LEMMA TypesKept ==
  ASSUME TypeOK, UNCHANGED <<sotVars, storeVars, catchup, flagged>>,
         pushes' \subseteq Push,
         pending' \in [Members -> [Names -> Item \cup {NoItem}]],
         mishaps' = mishaps \/ mishaps' = mishaps + 1, isolated' \in BOOLEAN
  PROVE  TypeOK'
<1>1. mishaps' \in Nat
  BY DEF TypeOK
<1> QED BY <1>1 DEF TypeOK, sotVars, storeVars

(* Staging the item keeps the invariant. *)
LEMMA StepStage ==
  ASSUME TypeOK, WorkInv, IsolatedInv, NEW p \in pushes, WritePendingFileWrite(p)
  PROVE  TypeOK' /\ WorkInv' /\ IsolatedInv'
<1>1. /\ pending' = [pending EXCEPT ![p.to][p.work.item.name] = p.work.item]
      /\ pushes' = (pushes \ {p}) \cup {[p EXCEPT !.at = "open"]}
      /\ UNCHANGED <<sotVars, storeVars, catchup, flagged, mishaps, isolated>>
  BY DEF WritePendingFileWrite
<1>2. PICK q, N : q = [p EXCEPT !.at = "open"] /\ N = {q}
  OBVIOUS
<1>3. q \in Push /\ q.at = "open" /\ q.work = p.work /\ q.to = p.to /\ N = {q}
  BY <1>2, PushFacts, PushMoved DEF PushSteps
<1>4. ASSUME NEW x \in Item, Delivering(x), isolated'
      PROVE  /\ Forward(x)
             /\ \A r \in N : ApplierInv(x, r.to, r.at, r.work)'
             /\ pending' = [pending EXCEPT ![p.to][x.name] = x]
  <2>1. Forward(x)
    BY <1>1, <1>4, StillForward DEF sotVars, storeVars
  <2>2. ApplierInv(x, q.to, q.at, q.work)'
    BY <1>3 DEF ApplierInv
  <2>3. p.work.item = x
    BY <1>4 DEF Delivering
  <2> QED BY <1>1, <1>3, <2>1, <2>2, <2>3
<1>5. pushes' \subseteq Push /\ WorkInv' /\ IsolatedInv'
  <2>1. pushes' = (pushes \ {p}) \cup N /\ N \subseteq Push
    BY <1>1, <1>2, <1>3
  <2>2. \A r \in N : r.work.item = p.work.item /\ r.to = p.to
    BY <1>3
  <2>3. UNCHANGED <<sotVars, catchup>> /\ (isolated' => isolated)
    BY <1>1
  <2> QED BY <1>4, <2>1, <2>2, <2>3, PushKeeps
<1>6. pending' \in [Members -> [Names -> Item \cup {NoItem}]]
  <2>1. PICK k, n, i : k = p.to /\ n = p.work.item.name /\ i = p.work.item
    OBVIOUS
  <2>2. pending' = [pending EXCEPT ![k][n] = i] /\ i \in Item /\ n \in Names /\ k \in Members
    BY <1>1, <2>1, PushFacts
  <2> QED BY <2>2 DEF TypeOK
<1>7. TypeOK'
  BY <1>1, <1>5, <1>6, TypesKept DEF TypeOK
<1> QED BY <1>5, <1>7

(* A failed staging keeps it: from then on nothing is promised. *)
LEMMA StepStagingFails ==
  ASSUME TypeOK, WorkInv, IsolatedInv, NEW p \in pushes, StagingFails(p)
  PROVE  TypeOK' /\ WorkInv' /\ IsolatedInv'
<1>1. /\ mishaps' = mishaps + 1
      /\ pushes' = (pushes \ {p}) \cup {[p EXCEPT !.at = "open"]}
      /\ isolated' = FALSE
      /\ UNCHANGED <<sotVars, pending, storeVars, catchup, flagged>>
  BY DEF StagingFails
<1>2. PICK q : q = [p EXCEPT !.at = "open"]
  OBVIOUS
<1>3. q \in Push /\ q.work = p.work /\ q.to = p.to
  BY <1>2, PushFacts, PushMoved DEF PushSteps
<1>4. pushes' \subseteq Push
  BY <1>1, <1>2, <1>3, PushFacts
<1>5. WorkInv'
  <2>1. \A r \in pushes' : r.work.item \in Item
    BY <1>1, <1>2, <1>3 DEF WorkInv
  <2> QED BY <1>1, <2>1 DEF WorkInv
<1>6. IsolatedInv'
  BY <1>1 DEF IsolatedInv
<1>7. TypeOK'
  BY <1>1, <1>4, TypesKept DEF TypeOK
<1> QED BY <1>5, <1>6, <1>7

(* A step of push p that changes no file, no entry and no other push, and  *)
(* takes it where nothing has been checked yet or leaves its progress      *)
(* alone, keeps the invariant.                                             *)
LEMMA PushOnly ==
  ASSUME TypeOK, WorkInv, IsolatedInv, NEW p \in pushes, NEW N, N \subseteq Push,
         pushes' = (pushes \ {p}) \cup N, p.at # "stage",
         \A q \in N : /\ q.work.item = p.work.item /\ q.to = p.to
                      /\ q.at = "read" \/ (q.at = p.at /\ q.work = p.work),
         UNCHANGED <<sotVars, pending, storeVars, catchup, flagged, isolated>>,
         mishaps' = mishaps
  PROVE  TypeOK' /\ WorkInv' /\ IsolatedInv'
<1>1. ASSUME NEW x \in Item, Delivering(x), isolated'
      PROVE  /\ Forward(x)
             /\ \A q \in N : ApplierInv(x, q.to, q.at, q.work)'
             /\ pending' = pending /\ p.at # "stage"
  <2>1. Forward(x)
    BY <1>1, StillForward DEF sotVars, storeVars
  <2>2. p.to \in Members /\ MemberInv(x, p.to) /\ ApplierInv(x, p.to, p.at, p.work)
    BY <1>1, PushFacts DEF Delivering
  <2>3. \A at, w : ApplierInv(x, p.to, at, w) => ApplierInv(x, p.to, at, w)'
    BY <2>1, <2>2, ForwardKeeps
  <2>4. ASSUME NEW q \in N PROVE ApplierInv(x, q.to, q.at, q.work)'
    <3>1. CASE q.at = "read"
      BY <3>1 DEF ApplierInv
    <3>2. CASE q.at = p.at /\ q.work = p.work
      <4>1. q.to = p.to
        BY <2>4
      <4> QED BY <2>2, <2>3, <3>2, <4>1
    <3> QED BY <2>4, <3>1, <3>2
  <2> QED BY <2>1, <2>4
<1>2. pushes' \subseteq Push /\ WorkInv' /\ IsolatedInv'
  <2>1. \A q \in N : q.work.item = p.work.item /\ q.to = p.to
    OBVIOUS
  <2> QED BY <1>1, <2>1, PushKeeps
<1>3. TypeOK'
  BY <1>2, TypesKept DEF TypeOK
<1> QED BY <1>2, <1>3

(* So does opening the file and sending it, *)
LEMMA StepOpenAndSend ==
  ASSUME TypeOK, WorkInv, IsolatedInv, NEW p \in pushes, OpenAndSend(p)
  PROVE  TypeOK' /\ WorkInv' /\ IsolatedInv'
<1>1. PICK b : b = IF p.work.item.cmd = "put" THEN sot[p.work.item.name] ELSE NoFile
  OBVIOUS
<1>2. PICK q, N : q = [p EXCEPT !.at = "read", !.work.bytes = b] /\ N = {q}
  OBVIOUS
<1>3. /\ p.at = "open" /\ pushes' = (pushes \ {p}) \cup N
      /\ UNCHANGED <<sotVars, pending, storeVars, catchup, flagged, isolated>>
      /\ mishaps' = mishaps
  BY <1>1, <1>2 DEF OpenAndSend
<1>4. b \in Versions
  BY <1>1, PushFacts, ConstantFacts DEF TypeOK, NoFile
<1>5. q \in Push /\ q.at = "read" /\ q.work.item = p.work.item /\ q.to = p.to
  <2>1. p \in Push /\ p.work \in Work
    BY PushFacts
  <2> QED BY <1>2, <1>4, <2>1 DEF Push, Work, PushSteps, ApplySteps
<1>6. N \subseteq Push /\ p.at # "stage"
      /\ \A r \in N : r.work.item = p.work.item /\ r.to = p.to /\ r.at = "read"
  BY <1>2, <1>3, <1>5
<1> QED BY <1>3, <1>6, PushOnly

(* giving up on the answer, *)
LEMMA StepUnacknowledged ==
  ASSUME TypeOK, WorkInv, IsolatedInv, NEW p \in pushes, Unacknowledged(p)
  PROVE  TypeOK' /\ WorkInv' /\ IsolatedInv'
<1>1. PICK q : q = [p EXCEPT !.waiting = FALSE]
  OBVIOUS
<1>2. q \in Push /\ q.at = p.at /\ q.work = p.work /\ q.to = p.to
  BY <1>1, PushFacts, PushLeft
<1>3. PICK N : N = IF p.at \in {"open"} \cup Outcomes THEN {} ELSE {q}
  OBVIOUS
<1>4. /\ p.at # "stage" /\ pushes' = (pushes \ {p}) \cup N
      /\ UNCHANGED <<sotVars, pending, storeVars, catchup, flagged, isolated>>
      /\ mishaps' = mishaps
  BY <1>1, <1>3 DEF Unacknowledged
<1>5. N \subseteq {q}
  BY <1>3
<1> QED BY <1>2, <1>4, <1>5, PushOnly

(* and losing the request. *)
LEMMA StepLose ==
  ASSUME TypeOK, WorkInv, IsolatedInv, NEW p \in pushes, Lose(p)
  PROVE  TypeOK' /\ WorkInv' /\ IsolatedInv'
<1>1. PICK N : N = {}
  OBVIOUS
<1>2. /\ p.at # "stage" /\ pushes' = (pushes \ {p}) \cup N
      /\ UNCHANGED <<sotVars, pending, storeVars, catchup, flagged, isolated>>
      /\ mishaps' = mishaps
  BY <1>1 DEF Lose
<1>3. N \subseteq Push /\ \A q \in N : FALSE
  BY <1>1
<1> QED BY <1>2, <1>3, PushOnly

(* An acknowledgement keeps it: as long as no refusal was taken for one,   *)
(* the member has the operation when its entry goes.                       *)
LEMMA StepAcknowledged ==
  ASSUME TypeOK, WorkInv, IsolatedInv, NEW p \in pushes, Acknowledged(p)
  PROVE  TypeOK' /\ WorkInv' /\ IsolatedInv'
<1>1. /\ p.at \in Outcomes
      /\ pending' = [pending EXCEPT ![p.to][p.work.item.name] = NoItem]
      /\ pushes' = pushes \ {p}
      /\ isolated' = (isolated /\ p.at = "yes")
      /\ UNCHANGED <<sotVars, storeVars, catchup, flagged, mishaps>>
  BY DEF Acknowledged
<1>2. PICK N : N = {}
  OBVIOUS
<1>3. ASSUME NEW x \in Item, Delivering(x), isolated'
      PROVE  /\ Forward(x)
             /\ pending' = [pending EXCEPT ![p.to][x.name] = NoItem]
             /\ mmanifest[p.to][x.name] = EntryFor(sot[x.name])
             /\ p.at # "stage"
  <2>1. Forward(x)
    BY <1>1, <1>3, StillForward DEF sotVars, storeVars
  <2>2. p.at = "yes" /\ p.work.item = x /\ ApplierInv(x, p.to, p.at, p.work)
    BY <1>1, <1>3 DEF Delivering
  <2>3. mmanifest[p.to][x.name] = EntryFor(sot[x.name])
    BY <2>2 DEF ApplierInv
  <2> QED BY <1>1, <2>1, <2>2, <2>3
<1>4. pushes' \subseteq Push /\ WorkInv' /\ IsolatedInv'
  <2>1. pushes' = (pushes \ {p}) \cup N /\ N \subseteq Push /\ \A q \in N : FALSE
    BY <1>1, <1>2
  <2>2. UNCHANGED <<sotVars, catchup>> /\ (isolated' => isolated)
    BY <1>1
  <2>3. ASSUME NEW x \in Item, Delivering(x), isolated'
        PROVE  \A q \in N : ApplierInv(x, q.to, q.at, q.work)'
    BY <1>2
  <2> QED BY <1>3, <2>1, <2>2, <2>3, PushKeeps
<1>5. pending' \in [Members -> [Names -> Item \cup {NoItem}]]
  <2>1. PICK k, n : k = p.to /\ n = p.work.item.name
    OBVIOUS
  <2>2. pending' = [pending EXCEPT ![k][n] = NoItem] /\ n \in Names /\ k \in Members
    BY <1>1, <2>1, PushFacts
  <2> QED BY <2>2 DEF TypeOK
<1>6. TypeOK'
  BY <1>1, <1>4, <1>5, TypesKept DEF TypeOK
<1> QED BY <1>4, <1>6

(* A push that ends is gone or remembered where it ended. *)
LEMMA EndedFacts ==
  ASSUME NEW p \in Push, NEW at \in PushSteps, NEW q \in Ended(p, at)
  PROVE  q \in Push /\ q.at = at /\ q.work = p.work /\ q.to = p.to
<1>1. q = [p EXCEPT !.at = at]
  BY DEF Ended
<1> QED BY <1>1, PushMoved, PushFields

(* The applier of a push keeps the invariant. *)
LEMMA StepPushApply ==
  ASSUME TypeOK, WorkInv, IsolatedInv, NEW p \in pushes, PushApply(p)
  PROVE  TypeOK' /\ WorkInv' /\ IsolatedInv'
<1>1. PICK k, w, at, y : k = p.to /\ w = p.work /\ at = p.at /\ y = w.item
  OBVIOUS
<1>2. /\ pushes \subseteq Push /\ p \in Push /\ k \in Members /\ w \in Work /\ y \in Item
      /\ w.item = y
  BY <1>1, PushFacts
<1>3. /\ sot' = sot /\ pending' = pending /\ isolated' = isolated /\ flagged' = flagged
      /\ UNCHANGED <<sotVars, catchup>>
  BY DEF PushApply, sotVars
<1>4. CASE /\ ApplyStep(k, at, w)
           /\ pushes' = (pushes \ {p}) \cup
                  Ended([p EXCEPT !.work = Carried(k, at, w)], After(k, at, w))
  <2>1. PICK a, c, r : a = After(k, at, w) /\ c = Carried(k, at, w) /\ r = [p EXCEPT !.work = c]
    OBVIOUS
  <2>2. PICK N : N = Ended(r, a)
    OBVIOUS
  <2>3. at \in ApplySteps
    BY <1>4 DEF ApplyStep
  <2>4. c \in Work /\ c.item = y /\ a \in PushSteps
    BY <1>2, <2>1, <2>3, CarriedFacts DEF PushSteps
  <2>5. r \in Push /\ r.work = c /\ r.to = k
    BY <1>1, <1>2, <2>1, <2>4, PushCarries
  <2>6. \A q \in N : q \in Push /\ q.at = a /\ q.work = c /\ q.to = k
    BY <2>2, <2>4, <2>5, EndedFacts
  <2>7. pushes' = (pushes \ {p}) \cup N
    BY <1>4, <2>1, <2>2
  <2>8. ASSUME NEW x \in Item, Delivering(x), isolated'
        PROVE  /\ Forward(x)
               /\ \A q \in N : ApplierInv(x, q.to, q.at, q.work)'
               /\ pending' = pending /\ p.at # "stage"
    <3>1. w.item = x /\ ApplierInv(x, k, at, w)
      BY <1>1, <2>8 DEF Delivering
    <3>2. Forward(x) /\ ApplierInv(x, k, a, c)'
      BY <1>2, <1>3, <1>4, <2>1, <2>8, <3>1, ApplyForward
    <3> QED BY <1>1, <1>3, <2>3, <2>6, <3>2 DEF ApplySteps
  <2>9. pushes' \subseteq Push /\ WorkInv' /\ IsolatedInv'
    <3>1. N \subseteq Push /\ \A q \in N : q.work.item = p.work.item /\ q.to = p.to
      BY <1>1, <2>4, <2>6
    <3> QED BY <1>3, <2>7, <2>8, <3>1, PushKeeps
  <2>10. TypeOK'
    <3>1. /\ mdoc' = mdoc /\ mishaps' = mishaps
          /\ mblob' \in [Members -> [Names -> Versions]]
          /\ mmanifest' \in [Members -> [Names -> Entry]]
          /\ mjournal' \in [Members -> SUBSET Journal]
      BY <1>2, <1>4, ApplyStepFacts
    <3> QED BY <1>3, <2>9, <3>1 DEF TypeOK, sotVars
  <2> QED BY <2>9, <2>10
<1>5. CASE /\ ApplyError(at)
           /\ pushes' = (pushes \ {p}) \cup Ended([p EXCEPT !.work.loaded = NoEntries], "no")
  <2>1. PICK c, r : c = [w EXCEPT !.loaded = NoEntries] /\ r = [p EXCEPT !.work = c]
    OBVIOUS
  <2>2. PICK N : N = Ended(r, "no")
    OBVIOUS
  <2>3. c \in Work /\ c.item = y
    BY <1>2, <2>1, DroppedFacts
  <2>4. r \in Push /\ r.work = c /\ r.to = k
    BY <1>1, <1>2, <2>1, <2>3, PushCarries
  <2>5. \A q \in N : q \in Push /\ q.at = "no" /\ q.work = c /\ q.to = k
    BY <2>2, <2>4, EndedFacts DEF PushSteps, Outcomes
  <2>6. pushes' = (pushes \ {p}) \cup N
    BY <1>1, <1>5, <2>1, <2>2
  <2>7. UNCHANGED storeVars /\ at # "stage" /\ mishaps' = mishaps + 1
    BY <1>5 DEF ApplyError, ApplySteps
  <2>8. ASSUME NEW x \in Item, Delivering(x), isolated'
        PROVE  /\ Forward(x)
               /\ \A q \in N : ApplierInv(x, q.to, q.at, q.work)'
               /\ pending' = pending /\ p.at # "stage"
    <3>1. Forward(x)
      BY <1>3, <2>7, <2>8, StillForward DEF storeVars
    <3>2. \A q \in N : ApplierInv(x, q.to, q.at, q.work)'
      BY <2>5 DEF ApplierInv
    <3> QED BY <1>1, <1>3, <2>7, <3>1, <3>2
  <2>9. pushes' \subseteq Push /\ WorkInv' /\ IsolatedInv'
    <3>1. N \subseteq Push /\ \A q \in N : q.work.item = p.work.item /\ q.to = p.to
      BY <1>1, <2>3, <2>5
    <3> QED BY <1>3, <2>6, <2>8, <3>1, PushKeeps
  <2>10. TypeOK'
    BY <1>3, <2>7, <2>9, TypesKept DEF TypeOK
  <2> QED BY <2>9, <2>10
<1> QED BY <1>1, <1>4, <1>5 DEF PushApply

-----------------------------------------------------------------------------
(* Catching up *)

(* One member's agent changes, the others' do not. *)
LEMMA OneCatchup ==
  ASSUME TypeOK, NEW m \in Members, NEW c \in Catchup, catchup' = [catchup EXCEPT ![m] = c]
  PROVE  /\ catchup' \in [Members -> Catchup]
         /\ \A k \in Members : catchup'[k] = IF k = m THEN c ELSE catchup[k]
BY DEF TypeOK

(* When the agent of m goes on to c, as sound as before, and no entry of x *)
(* is given up too early, the invariant is kept.                           *)
LEMMA CatchupKeeps ==
  ASSUME TypeOK, WorkInv, IsolatedInv, NEW m \in Members, NEW c \in Catchup,
         catchup' = [catchup EXCEPT ![m] = c],
         c.at # "idle" => c.todo # {},
         c.at \notin {"idle", "fetch"} => c.work.item \in Item,
         UNCHANGED <<sotVars, pushes, isolated>>,
         ~AllGone,
         ASSUME NEW x \in Item, Delivering(x), isolated
         PROVE  /\ Forward(x)
                /\ c.todo \subseteq {x.name}
                /\ c.at \notin {"idle", "fetch"} => c.work.item = x
                /\ ApplierInv(x, m, c.at, c.work)'
                /\ \/ pending' = pending
                   \/ /\ pending' = [pending EXCEPT ![m][x.name] = NoItem]
                      /\ mmanifest[m][x.name] = EntryFor(sot[x.name])
  PROVE  WorkInv' /\ IsolatedInv'
<1>1. \A k \in Members : catchup'[k] = IF k = m THEN c ELSE catchup[k]
  BY OneCatchup
<1>2. WorkInv'
  BY <1>1 DEF WorkInv
<1>3. IsolatedInv'
  <2> SUFFICES ASSUME isolated PROVE doc /\ \E x \in Item : Delivering(x)'
    BY DEF IsolatedInv, sotVars
  <2>1. doc
    BY DEF IsolatedInv
  <2>2. PICK x \in Item : Delivering(x)
    BY <2>1 DEF IsolatedInv
  <2>3. /\ Forward(x)
        /\ c.todo \subseteq {x.name}
        /\ c.at \notin {"idle", "fetch"} => c.work.item = x
        /\ ApplierInv(x, m, c.at, c.work)'
        /\ \/ pending' = pending
           \/ /\ pending' = [pending EXCEPT ![m][x.name] = NoItem]
              /\ mmanifest[m][x.name] = EntryFor(sot[x.name])
    BY <2>2
  <2>4. x.name \in Names /\ pending \in [Members -> [Names -> Item \cup {NoItem}]]
    BY ItemFields DEF TypeOK
  <2>5. \A p \in pushes' : /\ p.work.item = x /\ p.to \in Members
                           /\ p \in pushes \/ ApplierInv(x, p.to, p.at, p.work)'
    <3> SUFFICES ASSUME NEW p \in pushes PROVE p.work.item = x /\ p.to \in Members
      OBVIOUS
    <3>1. p.to \in Members
      BY PushFacts
    <3> QED BY <2>2, <3>1 DEF Delivering
  <2>6. \A k \in Members : \A n \in Names :
           pending'[k][n] # NoItem => n = x.name /\ pending'[k][n] = x
    <3>1. \A k \in Members : \A n \in Names :
             pending[k][n] # NoItem => n = x.name /\ pending[k][n] = x
      BY <2>2 DEF Delivering
    <3> QED BY <2>3, <2>4, <3>1
  <2>7. \A k \in Members :
           /\ pending[k][x.name] = x =>
                 pending'[k][x.name] = x \/ mmanifest[k][x.name] = EntryFor(sot[x.name])
           /\ \A p \in pushes : p.to = k /\ p.at = "stage" =>
                 p \in pushes' \/ pending'[k][x.name] = x
    BY <2>3, <2>4
  <2>8. ASSUME NEW k \in Members
        PROVE  \/ catchup'[k] = catchup[k]
               \/ /\ catchup'[k].todo \subseteq {x.name}
                  /\ catchup'[k].at \notin {"idle", "fetch"} => catchup'[k].work.item = x
                  /\ ApplierInv(x, k, catchup[k].at, catchup[k].work)'
    <3>1. CASE k = m
      <4>1. PICK a, w : a = c.at /\ w = c.work
        OBVIOUS
      <4>2. a = catchup'[m].at /\ w = catchup'[m].work /\ catchup'[m] = c
        BY <1>1, <4>1
      <4>3. ApplierInv(x, m, a, w)'
        BY <2>3, <4>1
      <4>4. ApplierInv(x, m, catchup[m].at, catchup[m].work)'
        BY <4>2, <4>3
      <4> QED BY <2>3, <3>1, <4>2, <4>4
    <3>2. CASE k # m
      BY <1>1, <3>2
    <3> QED BY <3>1, <3>2
  <2>9. Delivering(x)'
    BY <2>2, <2>3, <2>5, <2>6, <2>7, <2>8, DeliveringKeeps
  <2> QED BY <2>1, <2>9
<1> QED BY <1>2, <1>3

(* A deleted document's agents are idle: one at work means it is not so.   *)
LEMMA AtWork ==
  ASSUME NEW m \in Members,
         catchup[m].at # "idle" \/ pending[m] # [n \in Names |-> NoItem]
  PROVE  ~AllGone
BY WorkTypes DEF AllGone

(* Listing the work items keeps the invariant. *)
LEMMA StepCheckIn ==
  ASSUME TypeOK, WorkInv, IsolatedInv, NEW m \in Members, CheckInFile(m)
  PROVE  TypeOK' /\ WorkInv' /\ IsolatedInv'
<1>1. PICK listed : listed = {n \in Names : pending[m][n] # NoItem}
  OBVIOUS
<1>2. PICK o : o = catchup[m]
  OBVIOUS
<1>3. PICK c : c = [o EXCEPT !.todo = listed, !.at = "fetch"]
  OBVIOUS
<1>4. /\ listed # {} /\ listed \subseteq Names
      /\ catchup' = [catchup EXCEPT ![m].todo = listed, ![m].at = "fetch"]
      /\ UNCHANGED <<sotVars, pushes, pending, storeVars, flagged, mishaps, isolated>>
  BY <1>1 DEF CheckInFile
<1>5. o \in Catchup
  BY <1>2, CatchupFields
<1>6. c \in Catchup /\ c.todo = listed /\ c.at = "fetch"
  BY <1>3, <1>4, <1>5 DEF Catchup, CatchupSteps
<1>7. catchup' = [catchup EXCEPT ![m] = c]
  BY <1>2, <1>3, <1>4 DEF TypeOK
<1>8. ~AllGone
  <2>1. pending[m] # [n \in Names |-> NoItem]
    BY <1>1, <1>4
  <2> QED BY <2>1, AtWork
<1>9. ASSUME NEW x \in Item, Delivering(x), isolated
      PROVE  /\ Forward(x)
             /\ c.todo \subseteq {x.name}
             /\ ApplierInv(x, m, c.at, c.work)'
  <2>1. Forward(x)
    BY <1>4, <1>9, StillForward DEF sotVars, storeVars
  <2>2. listed \subseteq {x.name}
    BY <1>1, <1>9 DEF Delivering
  <2>3. ApplierInv(x, m, c.at, c.work)'
    BY <1>6 DEF ApplierInv
  <2> QED BY <1>6, <2>1, <2>2, <2>3
<1>10. WorkInv' /\ IsolatedInv'
  BY <1>4, <1>6, <1>7, <1>8, <1>9, CatchupKeeps
<1>11. TypeOK'
  <2>1. catchup' \in [Members -> Catchup]
    BY <1>6, <1>7, OneCatchup
  <2> QED BY <1>4, <2>1 DEF TypeOK, sotVars, storeVars
<1> QED BY <1>10, <1>11

(* So does fetching an item, which is the operation under way, *)
LEMMA StepFetchItem ==
  ASSUME TypeOK, WorkInv, IsolatedInv, NEW m \in Members, FetchItem(m)
  PROVE  TypeOK' /\ WorkInv' /\ IsolatedInv'
<1>1. PICK o, n : o = catchup[m] /\ n = Current(m)
  OBVIOUS
<1>2. PICK item : item = pending[m][n]
  OBVIOUS
<1>3. PICK w, a : w = [NoWork EXCEPT !.item = item] /\ a = IF item.cmd = "put" THEN "content" ELSE "read"
  OBVIOUS
<1>4. PICK c : c = [o EXCEPT !.work = w, !.at = a]
  OBVIOUS
<1>5. /\ o.at = "fetch" /\ item # NoItem
      /\ catchup' = [catchup EXCEPT ![m].work = w, ![m].at = a]
      /\ flagged' = [flagged EXCEPT ![m] = flagged[m] \cup {n}]
      /\ UNCHANGED <<sotVars, pushes, pending, storeVars, mishaps, isolated>>
  BY <1>1, <1>2, <1>3 DEF FetchItem
<1>6. o \in Catchup /\ o.todo # {} /\ n \in o.todo /\ n \in Names
  <2>1. catchup[m].at # "idle"
    BY <1>1, <1>5
  <2> QED BY <1>1, <2>1, CatchupFields, CurrentFacts DEF WorkInv
<1>7. item \in Item
  <2>1. pending[m][n] \in Item \cup {NoItem}
    BY <1>6 DEF TypeOK
  <2> QED BY <1>2, <1>5, <2>1
<1>8. w \in Work /\ w.item = item
  BY <1>3, <1>7, WorkTypes
<1>9. c \in Catchup /\ c.todo = o.todo /\ c.at = a /\ c.work = w /\ a \in {"content", "read"}
  BY <1>3, <1>4, <1>6, <1>8 DEF Catchup, CatchupSteps, ApplySteps
<1>10. catchup' = [catchup EXCEPT ![m] = c]
  BY <1>1, <1>4, <1>5 DEF TypeOK
<1>11. ~AllGone
  BY <1>1, <1>5, AtWork
<1>12. ASSUME NEW x \in Item, Delivering(x), isolated
       PROVE  /\ Forward(x)
              /\ c.todo \subseteq {x.name}
              /\ c.work.item = x
              /\ ApplierInv(x, m, c.at, c.work)'
  <2>1. Forward(x)
    BY <1>5, <1>12, StillForward DEF sotVars, storeVars
  <2>2. o.todo \subseteq {x.name} /\ item = x
    BY <1>1, <1>2, <1>5, <1>6, <1>12 DEF Delivering
  <2>3. ApplierInv(x, m, c.at, c.work)'
    BY <1>9 DEF ApplierInv
  <2> QED BY <1>8, <1>9, <2>1, <2>2, <2>3
<1>13. WorkInv' /\ IsolatedInv'
  <2>1. c.todo # {} /\ c.work.item \in Item
    BY <1>6, <1>7, <1>8, <1>9
  <2> QED BY <1>5, <1>9, <1>10, <1>11, <1>12, <2>1, CatchupKeeps
<1>14. TypeOK'
  <2>1. catchup' \in [Members -> Catchup]
    BY <1>9, <1>10, OneCatchup
  <2>2. flagged' \in [Members -> SUBSET Names]
    BY <1>5, <1>6 DEF TypeOK
  <2> QED BY <1>5, <2>1, <2>2 DEF TypeOK, sotVars, storeVars
<1> QED BY <1>13, <1>14

(* and fetching its content, which leaves the item as it was. *)
LEMMA StepFetchContent ==
  ASSUME TypeOK, WorkInv, IsolatedInv, NEW m \in Members, FetchContent(m)
  PROVE  TypeOK' /\ WorkInv' /\ IsolatedInv'
<1>1. PICK o, n : o = catchup[m] /\ n = Current(m)
  OBVIOUS
<1>2. PICK again, i : again = pending[m][n] /\ i = o.work.item
  OBVIOUS
<1>3. PICK found \in BOOLEAN : found <=> (again.cmd = "put" /\ sot[n] # NoFile)
  OBVIOUS
<1>4. PICK b, s : b = (IF found THEN sot[n] ELSE NoFile) /\ s = IF found THEN again.sha ELSE i.sha
  OBVIOUS
<1>5. PICK j : j = [i EXCEPT !.sha = s]
  OBVIOUS
<1>6. PICK w : w = [o.work EXCEPT !.bytes = b, !.item = j]
  OBVIOUS
<1>7. PICK c : c = [o EXCEPT !.work = w, !.at = "read"]
  OBVIOUS
<1>8. /\ o.at = "content"
      /\ UNCHANGED <<sotVars, pushes, pending, storeVars, flagged, mishaps, isolated>>
  BY <1>1 DEF FetchContent
<1>9. /\ o \in Catchup /\ o.work \in Work /\ o.todo # {} /\ n \in o.todo /\ n \in Names
      /\ i \in Item
  <2>1. catchup[m].at = "content"
    BY <1>1, <1>8
  <2>2. catchup[m].todo # {} /\ catchup[m].work.item \in Item
    BY <2>1 DEF WorkInv
  <2>3. n \in catchup[m].todo /\ n \in Names
    BY <1>1, <2>1, CurrentFacts
  <2> QED BY <1>1, <1>2, <2>2, <2>3, CatchupFields
<1>10. again \in Item \cup {NoItem} /\ (found => again \in Item)
  <2>1. pending[m][n] \in Item \cup {NoItem}
    BY <1>9 DEF TypeOK
  <2> QED BY <1>2, <1>3, <2>1, NoItemFacts
<1>11. b \in Versions /\ s \in Versions
  <2>1. sot[n] \in Versions
    BY <1>9 DEF TypeOK
  <2> QED BY <1>4, <1>9, <1>10, <2>1, ItemFields, ConstantFacts DEF NoFile
<1>12. j \in Item
  BY <1>5, <1>9, <1>11 DEF Item
<1>13. w \in Work /\ w.item = j
  BY <1>6, <1>9, <1>11, <1>12 DEF Work
<1>14. c \in Catchup /\ c.todo = o.todo /\ c.at = "read" /\ c.work = w
  BY <1>7, <1>9, <1>13 DEF Catchup, CatchupSteps, ApplySteps
<1>15. catchup' = [catchup EXCEPT ![m] = c]
  <2>1. catchup' = [catchup EXCEPT
               ![m].work.bytes = b, ![m].work.item.sha = s, ![m].at = "read"]
    BY <1>1, <1>2, <1>3, <1>4 DEF FetchContent
  <2>2. [o EXCEPT !.work.bytes = b, !.work.item.sha = s, !.at = "read"] = c
    BY <1>2, <1>5, <1>6, <1>7, <1>9 DEF Catchup, Work, Item
  <2>3. catchup \in [Members -> Catchup]
    BY DEF TypeOK
  <2>4. PICK o1, o2 : o1 = [o EXCEPT !.work.bytes = b] /\ o2 = [o1 EXCEPT !.work.item.sha = s]
    OBVIOUS
  <2>5. PICK f1 : f1 = [catchup EXCEPT ![m].work.bytes = b]
    OBVIOUS
  <2>6. PICK f2 : f2 = [f1 EXCEPT ![m].work.item.sha = s]
    OBVIOUS
  <2>7. catchup' = [f2 EXCEPT ![m].at = "read"]
    BY <2>1, <2>5, <2>6
  <2>8. f1 = [catchup EXCEPT ![m] = o1] /\ f1[m] = o1
    BY <1>1, <2>3, <2>4, <2>5
  <2>9. f2 = [catchup EXCEPT ![m] = o2] /\ f2[m] = o2
    <3>1. PICK g : g = [f1[m] EXCEPT !.work.item.sha = s]
      OBVIOUS
    <3>2. f2 = [f1 EXCEPT ![m] = g]
      BY <2>6, <3>1
    <3>3. g = o2
      BY <2>4, <2>8, <3>1
    <3> QED BY <2>3, <2>8, <3>2, <3>3
  <2>10. [o2 EXCEPT !.at = "read"] = c
    BY <2>2, <2>4
  <2> QED BY <2>3, <2>7, <2>9, <2>10
<1>16. ~AllGone
  BY <1>1, <1>8, AtWork
<1>17. ASSUME NEW x \in Item, Delivering(x), isolated
       PROVE  /\ Forward(x)
              /\ c.todo \subseteq {x.name}
              /\ c.work.item = x
              /\ ApplierInv(x, m, c.at, c.work)'
  <2>1. Forward(x)
    BY <1>8, <1>17, StillForward DEF sotVars, storeVars
  <2>2. o.todo \subseteq {x.name} /\ i = x /\ (again # NoItem => again = x)
    BY <1>1, <1>2, <1>8, <1>9, <1>17 DEF Delivering
  <2>3. s = x.sha
    BY <1>4, <1>10, <2>2, ItemFields
  <2>4. j = x
    BY <1>5, <2>2, <2>3 DEF Item
  <2>5. ApplierInv(x, m, c.at, c.work)'
    BY <1>14 DEF ApplierInv
  <2> QED BY <1>13, <1>14, <2>1, <2>2, <2>4, <2>5
<1>18. WorkInv' /\ IsolatedInv'
  <2>1. c.todo # {} /\ c.work.item \in Item
    BY <1>9, <1>12, <1>13, <1>14
  <2> QED BY <1>8, <1>14, <1>15, <1>16, <1>17, <2>1, CatchupKeeps
<1>19. TypeOK'
  <2>1. catchup' \in [Members -> Catchup]
    BY <1>14, <1>15, OneCatchup
  <2> QED BY <1>8, <2>1 DEF TypeOK, sotVars, storeVars
<1> QED BY <1>18, <1>19

(* The applier of a caught-up item keeps the invariant. *)
LEMMA StepCatchupApply ==
  ASSUME TypeOK, WorkInv, IsolatedInv, NEW m \in Members, CatchupApply(m)
  PROVE  TypeOK' /\ WorkInv' /\ IsolatedInv'
<1>1. PICK o, at, w, y : o = catchup[m] /\ at = o.at /\ w = o.work /\ y = w.item
  OBVIOUS
<1>2. /\ sot' = sot /\ pending' = pending /\ flagged' = flagged
      /\ UNCHANGED <<sotVars, pushes, isolated>>
  BY DEF CatchupApply, sotVars
<1>3. at \in ApplySteps
  BY <1>1 DEF CatchupApply, ApplyStep, ApplyError
<1>4. at \notin {"idle", "fetch"} /\ at = catchup[m].at
  BY <1>1, <1>3 DEF ApplySteps
<1>5. o \in Catchup /\ o.todo # {} /\ w \in Work /\ y \in Item /\ w.item = y
  BY <1>1, <1>4, CatchupFields DEF WorkInv
<1>6. ~AllGone
  BY <1>1, <1>4, AtWork
<1>7. CASE /\ ApplyStep(m, at, w)
           /\ catchup' = [catchup EXCEPT ![m].at = After(m, at, w), ![m].work = Carried(m, at, w)]
  <2>1. PICK a, d : a = After(m, at, w) /\ d = Carried(m, at, w)
    OBVIOUS
  <2>2. PICK c : c = [o EXCEPT !.at = a, !.work = d]
    OBVIOUS
  <2>3. d \in Work /\ d.item = y /\ a \in CatchupSteps
    BY <1>3, <1>5, <2>1, CarriedFacts DEF CatchupSteps
  <2>4. c \in Catchup /\ c.todo = o.todo /\ c.at = a /\ c.work = d
    BY <1>5, <2>2, <2>3 DEF Catchup
  <2>5. catchup' = [catchup EXCEPT ![m] = c]
    <3>1. catchup' = [catchup EXCEPT ![m].at = a, ![m].work = d]
      BY <1>7, <2>1
    <3> QED BY <1>1, <2>2, <3>1 DEF TypeOK
  <2>6. ASSUME NEW x \in Item, Delivering(x), isolated
        PROVE  /\ Forward(x)
               /\ c.todo \subseteq {x.name}
               /\ c.work.item = x
               /\ ApplierInv(x, m, c.at, c.work)'
    <3>1. w.item = x /\ ApplierInv(x, m, at, w) /\ o.todo \subseteq {x.name}
      BY <1>1, <1>4, <2>6 DEF Delivering
    <3>2. Forward(x) /\ ApplierInv(x, m, a, d)'
      BY <1>2, <1>5, <1>7, <2>1, <2>6, <3>1, ApplyForward
    <3> QED BY <1>5, <2>3, <2>4, <3>1, <3>2
  <2>7. WorkInv' /\ IsolatedInv'
    <3>1. c.todo # {} /\ c.work.item \in Item
      BY <1>5, <2>3, <2>4
    <3> QED BY <1>2, <1>6, <2>4, <2>5, <2>6, <3>1, CatchupKeeps
  <2>8. TypeOK'
    <3>1. /\ mdoc' = mdoc /\ mishaps' = mishaps
          /\ mblob' \in [Members -> [Names -> Versions]]
          /\ mmanifest' \in [Members -> [Names -> Entry]]
          /\ mjournal' \in [Members -> SUBSET Journal]
      BY <1>5, <1>7, ApplyStepFacts
    <3>2. catchup' \in [Members -> Catchup]
      BY <2>4, <2>5, OneCatchup
    <3> QED BY <1>2, <3>1, <3>2 DEF TypeOK, sotVars
  <2> QED BY <2>7, <2>8
<1>8. CASE /\ ApplyError(at)
           /\ catchup' = [catchup EXCEPT ![m].at = "no", ![m].work.loaded = NoEntries]
  <2>1. PICK d : d = [w EXCEPT !.loaded = NoEntries]
    OBVIOUS
  <2>2. PICK c : c = [o EXCEPT !.at = "no", !.work = d]
    OBVIOUS
  <2>3. d \in Work /\ d.item = y
    BY <1>5, <2>1, DroppedFacts
  <2>4. c \in Catchup /\ c.todo = o.todo /\ c.at = "no" /\ c.work = d
    BY <1>5, <2>2, <2>3 DEF Catchup, CatchupSteps, Outcomes
  <2>5. catchup' = [catchup EXCEPT ![m] = c]
    <3>1. PICK o1 : o1 = [o EXCEPT !.at = "no"]
      OBVIOUS
    <3>2. PICK f1 : f1 = [catchup EXCEPT ![m].at = "no"]
      OBVIOUS
    <3>3. catchup' = [f1 EXCEPT ![m].work.loaded = NoEntries]
      BY <1>8, <3>2
    <3>4. catchup \in [Members -> Catchup]
      BY DEF TypeOK
    <3>5. f1 = [catchup EXCEPT ![m] = o1] /\ f1[m] = o1
      BY <1>1, <3>1, <3>2, <3>4
    <3>6. PICK g : g = [f1[m] EXCEPT !.work.loaded = NoEntries]
      OBVIOUS
    <3>7. catchup' = [f1 EXCEPT ![m] = g]
      BY <3>3, <3>6
    <3>8. g = c
      BY <1>1, <1>5, <2>1, <2>2, <3>1, <3>5, <3>6 DEF Catchup, Work
    <3> QED BY <3>4, <3>5, <3>7, <3>8
  <2>6. UNCHANGED storeVars /\ mishaps' = mishaps + 1
    BY <1>8 DEF ApplyError
  <2>7. ASSUME NEW x \in Item, Delivering(x), isolated
        PROVE  /\ Forward(x)
               /\ c.todo \subseteq {x.name}
               /\ c.work.item = x
               /\ ApplierInv(x, m, c.at, c.work)'
    <3>1. w.item = x /\ o.todo \subseteq {x.name}
      BY <1>1, <1>4, <2>7 DEF Delivering
    <3>2. Forward(x)
      BY <1>2, <2>6, <2>7, StillForward DEF storeVars
    <3>3. ApplierInv(x, m, c.at, c.work)'
      BY <2>4 DEF ApplierInv
    <3> QED BY <1>5, <2>3, <2>4, <3>1, <3>2, <3>3
  <2>8. WorkInv' /\ IsolatedInv'
    <3>1. c.todo # {} /\ c.work.item \in Item
      BY <1>5, <2>3, <2>4
    <3> QED BY <1>2, <1>6, <2>4, <2>5, <2>7, <3>1, CatchupKeeps
  <2>9. TypeOK'
    <3>1. catchup' \in [Members -> Catchup] /\ mishaps' \in Nat
      BY <2>4, <2>5, <2>6, OneCatchup DEF TypeOK
    <3> QED BY <1>2, <2>6, <3>1 DEF TypeOK, sotVars, storeVars
  <2> QED BY <2>8, <2>9
<1> QED BY <1>1, <1>7, <1>8 DEF CatchupApply

(* Completing an item keeps it: the member has the operation. *)
LEMMA StepComplete ==
  ASSUME TypeOK, WorkInv, IsolatedInv, NEW m \in Members, Complete(m)
  PROVE  TypeOK' /\ WorkInv' /\ IsolatedInv'
<1>1. PICK o, n : o = catchup[m] /\ n = Current(m)
  OBVIOUS
<1>2. PICK left : left = o.todo \ {n}
  OBVIOUS
<1>3. PICK c : c = IF left = {} THEN Idle ELSE [todo |-> left, work |-> NoWork, at |-> "fetch"]
  OBVIOUS
<1>4. /\ o.at = "yes"
      /\ pending' = [pending EXCEPT ![m][n] = NoItem]
      /\ catchup' = [catchup EXCEPT ![m] = c]
      /\ flagged' = [flagged EXCEPT ![m] = flagged[m] \ {n}]
      /\ UNCHANGED <<sotVars, pushes, storeVars, mishaps, isolated>>
  BY <1>1, <1>2, <1>3 DEF Complete
<1>5. o \in Catchup /\ o.todo \subseteq Names /\ n \in o.todo /\ n \in Names
  BY <1>1, <1>4, CatchupFields, CurrentFacts
<1>6. /\ c \in Catchup /\ c.todo = left /\ c.at \in {"idle", "fetch"}
      /\ (c.at # "idle" => c.todo # {})
  BY <1>2, <1>3, <1>5, WorkTypes DEF Catchup, CatchupSteps
<1>7. ~AllGone
  BY <1>1, <1>4, AtWork
<1>8. ASSUME NEW x \in Item, Delivering(x), isolated
      PROVE  /\ Forward(x)
             /\ c.todo \subseteq {x.name}
             /\ ApplierInv(x, m, c.at, c.work)'
             /\ pending' = [pending EXCEPT ![m][x.name] = NoItem]
             /\ mmanifest[m][x.name] = EntryFor(sot[x.name])
  <2>1. Forward(x)
    BY <1>4, <1>8, StillForward DEF sotVars, storeVars
  <2>2. o.todo \subseteq {x.name} /\ ApplierInv(x, m, o.at, o.work)
    BY <1>1, <1>8 DEF Delivering
  <2>3. n = x.name
    BY <1>5, <2>2
  <2>4. ApplierInv(x, m, c.at, c.work)'
    BY <1>6 DEF ApplierInv
  <2>5. mmanifest[m][x.name] = EntryFor(sot[x.name])
    BY <1>4, <2>2 DEF ApplierInv
  <2> QED BY <1>2, <1>4, <1>6, <2>1, <2>2, <2>3, <2>4, <2>5
<1>9. WorkInv' /\ IsolatedInv'
  BY <1>4, <1>6, <1>7, <1>8, CatchupKeeps
<1>10. TypeOK'
  <2>1. catchup' \in [Members -> Catchup]
    BY <1>4, <1>6, OneCatchup
  <2>2. flagged' \in [Members -> SUBSET Names]
    BY <1>4 DEF TypeOK
  <2>3. pending' \in [Members -> [Names -> Item \cup {NoItem}]]
    BY <1>4, <1>5 DEF TypeOK
  <2> QED BY <1>4, <2>1, <2>2, <2>3 DEF TypeOK, sotVars, storeVars
<1> QED BY <1>9, <1>10

(* Giving up keeps it: the entry stays. *)
LEMMA StepGiveUp ==
  ASSUME TypeOK, WorkInv, IsolatedInv, NEW m \in Members, GiveUp(m)
  PROVE  TypeOK' /\ WorkInv' /\ IsolatedInv'
<1>1. /\ catchup[m].at \in {"fetch", "content"} \cup Outcomes
      /\ catchup' = [catchup EXCEPT ![m] = Idle]
      /\ UNCHANGED <<sotVars, pushes, pending, storeVars, flagged, mishaps, isolated>>
  BY DEF GiveUp, Abandon
<1>2. ~AllGone
  BY <1>1, AtWork DEF Outcomes
<1>3. PICK c : c = Idle
  OBVIOUS
<1>4. c \in Catchup /\ c.todo = {} /\ c.at = "idle"
  BY <1>3, WorkTypes
<1>5. ASSUME NEW x \in Item, Delivering(x), isolated
      PROVE  /\ Forward(x)
             /\ c.todo \subseteq {x.name}
             /\ ApplierInv(x, m, c.at, c.work)'
  <2>1. Forward(x)
    BY <1>1, <1>5, StillForward DEF sotVars, storeVars
  <2>2. ApplierInv(x, m, c.at, c.work)'
    BY <1>4 DEF ApplierInv
  <2> QED BY <1>4, <2>1, <2>2
<1>6. WorkInv' /\ IsolatedInv'
  BY <1>1, <1>2, <1>3, <1>4, <1>5, CatchupKeeps
<1>7. TypeOK'
  <2>1. catchup' \in [Members -> Catchup]
    BY <1>1, <1>3, <1>4, OneCatchup
  <2> QED BY <1>1, <2>1 DEF TypeOK, sotVars, storeVars
<1> QED BY <1>6, <1>7

-----------------------------------------------------------------------------
(* Crashes *)

(* Killed, the SOT leaves only requests that are at work on a member; if   *)
(* everything had been staged, the invariant is kept.                      *)
LEMMA StepSOTCrash ==
  ASSUME TypeOK, WorkInv, IsolatedInv, SOTCrash
  PROVE  TypeOK' /\ WorkInv' /\ IsolatedInv'
<1>1. /\ mishaps' = mishaps + 1
      /\ pushes' = {[p EXCEPT !.waiting = FALSE] : p \in {q \in pushes : q.at \in ApplySteps}}
      /\ isolated' = (isolated /\ \A p \in pushes : p.at # "stage")
      /\ UNCHANGED <<sotVars, pending, storeVars, catchup, flagged>>
  BY DEF SOTCrash
<1>2. ASSUME NEW q \in pushes'
      PROVE  \E p \in pushes : q \in Push /\ q.at = p.at /\ q.work = p.work /\ q.to = p.to
  <2>1. PICK p \in pushes : q = [p EXCEPT !.waiting = FALSE]
    BY <1>1, <1>2
  <2>2. p \in Push
    BY DEF TypeOK
  <2> QED BY <2>1, <2>2, PushLeft
<1>3. pushes' \subseteq Push
  BY <1>2
<1>4. WorkInv'
  <2>1. \A q \in pushes' : q.work.item \in Item
    BY <1>2 DEF WorkInv
  <2> QED BY <1>1, <2>1 DEF WorkInv
<1>5. IsolatedInv'
  <2> SUFFICES ASSUME isolated' PROVE IF doc THEN \E x \in Item : Delivering(x)' ELSE AllGone'
    BY <1>1 DEF IsolatedInv, sotVars
  <2>1. isolated /\ \A p \in pushes : p.at # "stage"
    BY <1>1
  <2>2. CASE ~doc
    <3>1. AllGone
      BY <2>1, <2>2 DEF IsolatedInv
    <3>2. pushes' = {}
      BY <1>1, <3>1 DEF AllGone
    <3>3. AllGone'
      BY <1>1, <3>1, <3>2 DEF AllGone, Agrees, sotVars, storeVars
    <3> QED BY <2>2, <3>3
  <2>3. CASE doc
    <3>1. PICK x \in Item : Delivering(x)
      BY <2>1, <2>3 DEF IsolatedInv
    <3>2. Forward(x)
      BY <1>1, <3>1, StillForward DEF sotVars, storeVars
    <3>3. ASSUME NEW q \in pushes'
          PROVE  q.work.item = x /\ q.to \in Members /\ ApplierInv(x, q.to, q.at, q.work)'
      <4>1. PICK p \in pushes : q \in Push /\ q.at = p.at /\ q.work = p.work /\ q.to = p.to
        BY <1>2, <3>3
      <4>2. /\ p.work.item = x /\ p.to \in Members /\ MemberInv(x, p.to)
            /\ ApplierInv(x, p.to, p.at, p.work)
        BY <3>1, PushFacts DEF Delivering
      <4>3. \A at, w : ApplierInv(x, p.to, at, w) => ApplierInv(x, p.to, at, w)'
        BY <3>2, <4>2, ForwardKeeps
      <4> QED BY <4>1, <4>2, <4>3
    <3>4. /\ \A m \in Members : catchup'[m] = catchup[m]
          /\ \A m \in Members : \A n \in Names :
                pending'[m][n] # NoItem => n = x.name /\ pending'[m][n] = x
          /\ \A m \in Members :
                /\ pending[m][x.name] = x =>
                      pending'[m][x.name] = x \/ mmanifest[m][x.name] = EntryFor(sot[x.name])
                /\ \A p \in pushes : p.to = m /\ p.at = "stage" =>
                      p \in pushes' \/ pending'[m][x.name] = x
      BY <1>1, <2>1, <3>1 DEF Delivering
    <3>5. Delivering(x)'
      BY <3>1, <3>2, <3>3, <3>4, DeliveringKeeps
    <3> QED BY <2>3, <3>5
  <2> QED BY <2>2, <2>3
<1>6. TypeOK'
  BY <1>1, <1>3, TypesKept DEF TypeOK
<1> QED BY <1>4, <1>5, <1>6

(* Recovery sets an entry to what a journal of that file says, or leaves it*)
(* alone.                                                                  *)
LEMMA RecoveryFacts ==
  ASSUME TypeOK, NEW m \in Members, MemberCrash(m)
  PROVE  /\ mmanifest' \in [Members -> [Names -> Entry]]
         /\ \A k \in Members : k # m => mmanifest'[k] = mmanifest[k]
         /\ \A n \in Names :
               \/ mmanifest'[m][n] = mmanifest[m][n]
               \/ \E j \in mjournal[m] : j.name = n /\ mmanifest'[m][n] = j.entry
<1> DEFINE of(n) == {j \in mjournal[m] : j.name = n}
<1> DEFINE new(n) == IF of(n) = {} THEN mmanifest[m][n]
                     ELSE (CHOOSE j \in of(n) : \A k \in of(n) : j.op >= k.op).entry
<1>1. mmanifest' = [mmanifest EXCEPT ![m] = [n \in Names |-> new(n)]]
  BY DEF MemberCrash
<1>2. mmanifest \in [Members -> [Names -> Entry]] /\ mjournal[m] \subseteq Journal
  BY DEF TypeOK
<1>3. ASSUME NEW n \in Names
      PROVE  /\ new(n) \in Entry
             /\ \/ new(n) = mmanifest[m][n]
                \/ \E j \in mjournal[m] : j.name = n /\ new(n) = j.entry
  <2>1. CASE of(n) = {}
    BY <1>2, <2>1
  <2>2. CASE of(n) # {}
    <3>1. PICK S : S = of(n)
      OBVIOUS
    <3>2. S \subseteq Journal /\ S # {}
      BY <1>2, <2>2, <3>1
    <3>3. PICK j : j = CHOOSE i \in S : \A k \in S : i.op >= k.op
      OBVIOUS
    <3>4. j \in S
      BY <3>2, <3>3, LastJournalFacts
    <3>5. new(n) = j.entry
      BY <2>2, <3>1, <3>3
    <3>6. j \in mjournal[m] /\ j.name = n /\ j \in Journal
      BY <3>1, <3>2, <3>4
    <3>7. j.entry \in Entry
      BY <3>6 DEF Journal
    <3> QED BY <3>5, <3>6, <3>7
  <2> QED BY <2>1, <2>2
<1>4. PICK g : g = [n \in Names |-> new(n)]
  OBVIOUS
<1>5. g \in [Names -> Entry] /\ \A n \in Names : g[n] = new(n)
  BY <1>3, <1>4
<1>6. /\ mmanifest' \in [Members -> [Names -> Entry]]
      /\ \A k \in Members : mmanifest'[k] = IF k = m THEN g ELSE mmanifest[k]
  <2>1. mmanifest' = [mmanifest EXCEPT ![m] = g]
    BY <1>1, <1>4
  <2> QED BY <1>2, <1>5, <2>1
<1> HIDE DEF new
<1> QED BY <1>3, <1>5, <1>6

(* A member that is killed and recovers keeps the invariant: what its      *)
(* journals replay is the operation under way.                             *)
LEMMA StepMemberCrash ==
  ASSUME TypeOK, WorkInv, IsolatedInv, NEW m \in Members, MemberCrash(m)
  PROVE  TypeOK' /\ WorkInv' /\ IsolatedInv'
<1>1. /\ mishaps' = mishaps + 1
      /\ mjournal' = [mjournal EXCEPT ![m] = {}]
      /\ pushes' = {p \in pushes : p.to = m => p.at \notin ApplySteps \ {"read"}}
      /\ catchup' = [catchup EXCEPT ![m] = Idle]
      /\ flagged' = [flagged EXCEPT ![m] = {}]
      /\ UNCHANGED <<sotVars, pending, mdoc, mblob, isolated>>
  BY DEF MemberCrash, Abandon
<1>2. PICK c : c = Idle
  OBVIOUS
<1>3. /\ c \in Catchup /\ c.todo = {} /\ c.at = "idle"
      /\ catchup' \in [Members -> Catchup]
      /\ \A k \in Members : catchup'[k] = IF k = m THEN c ELSE catchup[k]
  BY <1>1, <1>2, WorkTypes, OneCatchup
<1>4. /\ mmanifest' \in [Members -> [Names -> Entry]]
      /\ \A k \in Members : k # m => mmanifest'[k] = mmanifest[k]
      /\ \A n \in Names :
            \/ mmanifest'[m][n] = mmanifest[m][n]
            \/ \E j \in mjournal[m] : j.name = n /\ mmanifest'[m][n] = j.entry
  BY RecoveryFacts
<1>5. /\ mjournal' \in [Members -> SUBSET Journal]
      /\ \A k \in Members : mjournal'[k] = IF k = m THEN {} ELSE mjournal[k]
  BY <1>1 DEF TypeOK
<1>6. pushes' \subseteq pushes
  BY <1>1
<1>7. TypeOK'
  <2>1. mishaps' \in Nat /\ flagged' \in [Members -> SUBSET Names] /\ pushes' \subseteq Push
    BY <1>1, <1>6 DEF TypeOK
  <2> QED BY <1>1, <1>3, <1>4, <1>5, <2>1 DEF TypeOK, sotVars
<1>8. WorkInv'
  BY <1>3, <1>6 DEF WorkInv
<1>9. IsolatedInv'
  <2> SUFFICES ASSUME isolated PROVE IF doc THEN \E x \in Item : Delivering(x)' ELSE AllGone'
    BY <1>1 DEF IsolatedInv, sotVars
  <2>1. CASE ~doc
    <3>1. AllGone
      BY <2>1 DEF IsolatedInv
    <3>2. pushes' = {} /\ \A k \in Members : catchup'[k] = Idle /\ mjournal'[k] = {}
      BY <1>2, <1>3, <1>5, <1>6, <3>1 DEF AllGone
    <3>3. \A k \in Members : \A n \in Names : mmanifest'[k][n] = mmanifest[k][n]
      <4>1. mjournal[m] = {}
        BY <3>1 DEF AllGone
      <4> QED BY <1>4, <4>1
    <3>4. \A k \in Members : Agrees(k) => Agrees(k)'
      BY <1>1, <3>3 DEF Agrees, sotVars
    <3>5. AllGone'
      BY <1>1, <3>1, <3>2, <3>4 DEF AllGone, sotVars
    <3> QED BY <2>1, <3>5
  <2>2. CASE doc
    <3>1. PICK x \in Item : Delivering(x)
      BY <2>2 DEF IsolatedInv
    <3>2. x.name \in Names /\ MemberInv(x, m)
      BY <3>1, ItemFields DEF Delivering
    <3>3. sot' = sot /\ mblob' = mblob /\ pending' = pending
      BY <1>1 DEF sotVars
    <3>4. \A k \in Members : \A j \in mjournal[k] : j.name = x.name /\ j.entry = EntryFor(sot[x.name])
      BY <3>1 DEF Delivering, MemberInv
    <3>5. \A k \in Members : \A i \in Names :
             \/ mmanifest'[k][i] = mmanifest[k][i]
             \/ i = x.name /\ mmanifest'[k][i] = EntryFor(sot[i]) /\ mblob[k][i] = sot[i]
      <4> SUFFICES ASSUME NEW k \in Members, NEW i \in Names, mmanifest'[k][i] # mmanifest[k][i]
                   PROVE  i = x.name /\ mmanifest'[k][i] = EntryFor(sot[i]) /\ mblob[k][i] = sot[i]
        OBVIOUS
      <4>1. k = m
        BY <1>4
      <4>2. PICK j \in mjournal[m] : j.name = i /\ mmanifest'[m][i] = j.entry
        BY <1>4, <4>1
      <4>3. i = x.name /\ j.entry = EntryFor(sot[x.name])
        BY <3>4, <4>2
      <4>4. mblob[m][x.name] = sot[x.name]
        BY <3>2, <4>2 DEF MemberInv
      <4> QED BY <4>1, <4>2, <4>3, <4>4
    <3>6. Forward(x)
      <4>1. \A k \in Members : mjournal'[k] \subseteq mjournal[k]
        BY <1>5
      <4> QED BY <3>3, <3>4, <3>5, <4>1 DEF Forward
    <3>7. \A q \in pushes' : q \in pushes /\ q.work.item = x /\ q.to \in Members
      <4> SUFFICES ASSUME NEW q \in pushes PROVE q.work.item = x /\ q.to \in Members
        BY <1>6
      <4> QED BY <3>1, PushFacts DEF Delivering
    <3>8. ASSUME NEW k \in Members
          PROVE  \/ catchup'[k] = catchup[k]
                 \/ /\ catchup'[k].todo \subseteq {x.name}
                    /\ catchup'[k].at \notin {"idle", "fetch"} => catchup'[k].work.item = x
                    /\ ApplierInv(x, k, catchup[k].at, catchup[k].work)'
      <4>1. CASE k = m
        <5>1. catchup'[k].todo = {} /\ catchup'[k].at = "idle"
          BY <1>3, <4>1
        <5>2. ApplierInv(x, k, catchup[k].at, catchup[k].work)'
          BY <5>1 DEF ApplierInv
        <5> QED BY <5>1, <5>2
      <4>2. CASE k # m
        BY <1>3, <4>2
      <4> QED BY <4>1, <4>2
    <3>9. /\ \A k \in Members : \A n \in Names :
                pending'[k][n] # NoItem => n = x.name /\ pending'[k][n] = x
          /\ \A k \in Members :
                /\ pending[k][x.name] = x =>
                      pending'[k][x.name] = x \/ mmanifest[k][x.name] = EntryFor(sot[x.name])
                /\ \A p \in pushes : p.to = k /\ p.at = "stage" =>
                      p \in pushes' \/ pending'[k][x.name] = x
      BY <1>1, <3>1, <3>3 DEF Delivering, ApplySteps
    <3>10. Delivering(x)'
      BY <3>1, <3>6, <3>7, <3>8, <3>9, DeliveringKeeps
    <3> QED BY <2>2, <3>10
  <2> QED BY <2>1, <2>2
<1> QED BY <1>7, <1>8, <1>9

-----------------------------------------------------------------------------
(* The SOT's operations *)

(* While x is delivered, a member for which nothing is left to do has the  *)
(* SOT's files.                                                            *)
LEMMA SettledAgrees ==
  ASSUME TypeOK, NEW x \in Item, Delivering(x), NEW m \in Members, Settled(m)
  PROVE  Agrees(m)
<1>1. x.name \in Names /\ x # NoItem
  BY ItemFields
<1>2. pending[m][x.name] # x
  BY <1>1 DEF Settled
<1>3. mmanifest[m][x.name] = EntryFor(sot[x.name])
  BY <1>2 DEF Delivering, Underway, Settled
<1>4. MemberInv(x, m)
  BY DEF Delivering
<1>5. mblob[m][x.name] = sot[x.name]
  BY <1>3, <1>4 DEF MemberInv
<1>6. ASSUME NEW n \in Names
      PROVE  mblob[m][n] = sot[n] /\ mmanifest[m][n] = EntryFor(sot[n])
  BY <1>3, <1>4, <1>5 DEF MemberInv
<1> QED BY <1>6 DEF Agrees

(* Where every member is clean, nothing is on its way. *)
LEMMA CleanFacts ==
  ASSUME TypeOK, WorkInv, \A m \in Members : Clean(m)
  PROVE  /\ pushes = {}
         /\ \A m \in Members : /\ pending[m] = [n \in Names |-> NoItem]
                               /\ catchup[m] = Idle /\ mdoc[m] = doc
                               /\ mjournal[m] = {} /\ Settled(m)
<1>1. \A p \in pushes : p.to \in Members
  BY PushFacts
<1> QED BY <1>1 DEF Clean, Settled

(* What an operation sends has the type of an item. *)
LEMMA NewItemFacts ==
  ASSUME TypeOK, NEW cmd \in Ops, NEW n \in Names, writes < MaxWrites
  PROVE  /\ NewItem(cmd, n) \in Item
         /\ NewItem(cmd, n).cmd = cmd /\ NewItem(cmd, n).name = n
         /\ cmd = "put" => NewItem(cmd, n).ver = writes + 1 /\ NewItem(cmd, n).sha = writes + 1
         /\ writes + 1 \in Versions
<1>1. writes \in 0..MaxWrites /\ MaxWrites \in Nat /\ sot[n] \in Versions
  BY ConstantFacts DEF TypeOK, Versions
<1>2. writes + 1 \in Versions
  BY <1>1 DEF Versions
<1>3. CASE cmd = "put"
  BY <1>2, <1>3 DEF NewItem, Item
<1>4. CASE cmd = "delete"
  BY <1>1, <1>2, <1>4 DEF NewItem, Item
<1> QED BY <1>2, <1>3, <1>4 DEF Ops

(* An operation on the SOT keeps the invariant: begun when every member is *)
(* clean, and so has the SOT's files, it is all there is to deliver.       *)
LEMMA StepWrite ==
  ASSUME TypeOK, WorkInv, IsolatedInv, NEW cmd \in Ops, NEW n \in Names, Write(cmd, n)
  PROVE  TypeOK' /\ WorkInv' /\ IsolatedInv'
<1>1. PICK y, w : y = NewItem(cmd, n) /\ w = [NoWork EXCEPT !.item = y]
  OBVIOUS
<1>2. PICK v : v = IF cmd = "put" THEN writes + 1 ELSE NoFile
  OBVIOUS
<1>3. /\ doc /\ writes < MaxWrites
      /\ sot' = [sot EXCEPT ![n] = v]
      /\ pushes' = pushes \cup
            {[work |-> w, to |-> m, at |-> "stage", waiting |-> TRUE] : m \in Members}
      /\ writes' = writes + 1
      /\ isolated' = (isolated /\ \A m \in Members : Clean(m))
      /\ UNCHANGED <<doc, pending, storeVars, catchup, flagged, mishaps>>
  BY <1>1, <1>2 DEF Write
<1>4. /\ y \in Item /\ y.cmd = cmd /\ y.name = n /\ writes + 1 \in Versions
      /\ (cmd = "put" => y.ver = writes + 1 /\ y.sha = writes + 1)
  BY <1>1, <1>3, NewItemFacts
<1>5. w \in Work /\ w.item = y
  BY <1>1, <1>4, WorkTypes
<1>6. v \in Versions
  BY <1>2, <1>4, ConstantFacts DEF NoFile
<1>7. /\ sot' \in [Names -> Versions] /\ sot'[n] = v
      /\ \A i \in Names \ {n} : sot'[i] = sot[i]
  BY <1>3, <1>6 DEF TypeOK
<1>8. ASSUME NEW p \in pushes', p \notin pushes
      PROVE  p \in Push /\ p.work.item = y /\ p.at = "stage"
  <2>1. PICK m \in Members : p = [work |-> w, to |-> m, at |-> "stage", waiting |-> TRUE]
    BY <1>3, <1>8
  <2>2. p \in Push
    BY <1>5, <2>1 DEF Push, PushSteps
  <2> QED BY <1>5, <2>1, <2>2
<1>9. \A m \in Members : \E p \in pushes' : p.to = m /\ p.at = "stage"
  <2> SUFFICES ASSUME NEW m \in Members PROVE \E p \in pushes' : p.to = m /\ p.at = "stage"
    OBVIOUS
  <2>1. PICK p : p = [work |-> w, to |-> m, at |-> "stage", waiting |-> TRUE]
    OBVIOUS
  <2>2. p \in pushes' /\ p.to = m /\ p.at = "stage"
    BY <1>3, <2>1
  <2> QED BY <2>2
<1>10. TypeOK'
  <2>1. pushes' \subseteq Push /\ writes' \in Versions /\ isolated' \in BOOLEAN
    BY <1>3, <1>4, <1>8 DEF TypeOK
  <2> QED BY <1>3, <1>7, <2>1 DEF TypeOK, storeVars
<1>11. WorkInv'
  <2>1. \A p \in pushes' : p.work.item \in Item
    BY <1>4, <1>8 DEF WorkInv
  <2> QED BY <1>3, <2>1 DEF WorkInv
<1>12. IsolatedInv'
  <2> SUFFICES ASSUME isolated' PROVE Delivering(y)'
    BY <1>3, <1>4 DEF IsolatedInv
  <2>1. isolated /\ \A m \in Members : Clean(m)
    BY <1>3
  <2>2. /\ pushes = {}
        /\ \A m \in Members : /\ pending[m] = [i \in Names |-> NoItem]
                              /\ catchup[m] = Idle
                              /\ mjournal[m] = {} /\ Settled(m)
    BY <2>1, CleanFacts
  <2>3. PICK z \in Item : Delivering(z)
    BY <1>3, <2>1 DEF IsolatedInv
  <2>4. \A m \in Members : Agrees(m)
    BY <2>2, <2>3, SettledAgrees
  <2>5. /\ pending' = pending /\ catchup' = catchup /\ mblob' = mblob
        /\ mmanifest' = mmanifest /\ mjournal' = mjournal
    BY <1>3 DEF storeVars
  <2>6. sot'[y.name] = (IF y.cmd = "put" THEN y.ver ELSE NoFile) /\ (y.cmd = "put" => y.sha = y.ver)
    BY <1>2, <1>4, <1>7
  <2>7. ASSUME NEW p \in pushes' PROVE p.work.item = y /\ ApplierInv(y, p.to, p.at, p.work)'
    <3>1. p.work.item = y /\ p.at = "stage"
      BY <1>8, <2>2, <2>7
    <3> QED BY <3>1 DEF ApplierInv
  <2>8. ASSUME NEW m \in Members
        PROVE  /\ \A i \in Names : pending'[m][i] = NoItem
               /\ catchup'[m].todo = {} /\ catchup'[m].at = "idle"
               /\ ApplierInv(y, m, catchup[m].at, catchup[m].work)'
               /\ MemberInv(y, m)'
               /\ Underway(y, m)'
    <3>1. \A i \in Names : pending'[m][i] = NoItem
      BY <2>2, <2>5
    <3>2. catchup'[m].todo = {} /\ catchup'[m].at = "idle"
      BY <2>2, <2>5, WorkTypes
    <3>3. ApplierInv(y, m, catchup[m].at, catchup[m].work)'
      BY <3>2 DEF ApplierInv
    <3>4. \A i \in Names : mblob[m][i] = sot[i] /\ mmanifest[m][i] = EntryFor(sot[i])
      BY <2>4 DEF Agrees
    <3>5. mmanifest[m][n] = EntryFor(v) => mblob[m][n] = v
      BY <3>4, EntryTypes
    <3>6. MemberInv(y, m)'
      BY <1>4, <1>7, <2>2, <2>5, <3>4, <3>5 DEF MemberInv
    <3>7. Underway(y, m)'
      BY <1>9 DEF Underway
    <3> QED BY <3>1, <3>2, <3>3, <3>6, <3>7
  <2> QED BY <2>6, <2>7, <2>8 DEF Delivering
<1> QED BY <1>10, <1>11, <1>12

(* Deleting the document keeps it. *)
LEMMA StepDeleteDocument ==
  ASSUME TypeOK, WorkInv, IsolatedInv, DeleteDocument
  PROVE  TypeOK' /\ WorkInv' /\ IsolatedInv'
<1>1. /\ doc /\ writes < MaxWrites /\ ~doc' /\ doc' \in BOOLEAN
      /\ sot' = Files0 /\ writes' = writes + 1
      /\ isolated' = (isolated /\ \A m \in Members : Clean(m))
      /\ UNCHANGED <<pushes, pending, storeVars, catchup, flagged, mishaps>>
  BY DEF DeleteDocument
<1>2. TypeOK'
  <2>1. writes \in 0..MaxWrites /\ MaxWrites \in Nat
    BY ConstantFacts DEF TypeOK, Versions
  <2>2. writes' \in Versions /\ isolated' \in BOOLEAN /\ sot' \in [Names -> Versions]
    BY <1>1, <2>1, EntryTypes DEF TypeOK, Versions
  <2> QED BY <1>1, <2>2 DEF TypeOK, storeVars
<1>3. WorkInv'
  BY <1>1 DEF WorkInv
<1>4. IsolatedInv'
  <2> SUFFICES ASSUME isolated' PROVE AllGone'
    BY <1>1 DEF IsolatedInv
  <2>1. /\ pushes = {}
        /\ \A m \in Members : /\ pending[m] = [i \in Names |-> NoItem]
                              /\ catchup[m] = Idle /\ mdoc[m] = doc
                              /\ mjournal[m] = {}
    BY <1>1, CleanFacts
  <2> QED BY <1>1, <2>1 DEF AllGone, storeVars
<1> QED BY <1>2, <1>3, <1>4

(* The delete's arrival keeps it. *)
LEMMA StepMemberCascade ==
  ASSUME TypeOK, WorkInv, IsolatedInv, NEW m \in Members, MemberCascade(m)
  PROVE  TypeOK' /\ WorkInv' /\ IsolatedInv'
<1>1. /\ ~doc
      /\ mdoc' = [mdoc EXCEPT ![m] = FALSE]
      /\ mblob' = [mblob EXCEPT ![m] = Files0]
      /\ mmanifest' = [mmanifest EXCEPT ![m] = NoEntries]
      /\ mjournal' = [mjournal EXCEPT ![m] = {}]
      /\ UNCHANGED <<sotVars, pushes, pending, catchup, flagged, mishaps, isolated>>
  BY DEF MemberCascade
<1>2. /\ mdoc' \in [Members -> BOOLEAN]
      /\ \A k \in Members : mdoc'[k] = IF k = m THEN FALSE ELSE mdoc[k]
  BY <1>1 DEF TypeOK
<1>3. /\ mblob' \in [Members -> [Names -> Versions]]
      /\ \A k \in Members : mblob'[k] = IF k = m THEN Files0 ELSE mblob[k]
  BY <1>1, EntryTypes DEF TypeOK
<1>4. /\ mmanifest' \in [Members -> [Names -> Entry]]
      /\ \A k \in Members : mmanifest'[k] = IF k = m THEN NoEntries ELSE mmanifest[k]
  BY <1>1, EntryTypes DEF TypeOK
<1>5. /\ mjournal' \in [Members -> SUBSET Journal]
      /\ \A k \in Members : mjournal'[k] = IF k = m THEN {} ELSE mjournal[k]
  BY <1>1 DEF TypeOK
<1>6. TypeOK'
  BY <1>1, <1>2, <1>3, <1>4, <1>5 DEF TypeOK, sotVars
<1>7. WorkInv'
  BY <1>1 DEF WorkInv
<1>8. IsolatedInv'
  <2> SUFFICES ASSUME isolated PROVE AllGone'
    BY <1>1 DEF IsolatedInv, sotVars
  <2>1. AllGone
    BY <1>1 DEF IsolatedInv
  <2>2. ASSUME NEW k \in Members, ~mdoc'[k] PROVE Agrees(k)'
    <3>1. sot' = Files0 /\ sot = Files0
      BY <1>1, <2>1 DEF AllGone, sotVars
    <3>2. CASE k = m
      <4>1. mblob'[k] = Files0 /\ mmanifest'[k] = NoEntries
        BY <1>3, <1>4, <3>2
      <4> QED BY <3>1, <4>1, EntryTypes DEF Agrees
    <3>3. CASE k # m
      <4>1. Agrees(k) /\ mblob'[k] = mblob[k] /\ mmanifest'[k] = mmanifest[k]
        BY <1>2, <1>3, <1>4, <2>1, <2>2, <3>3 DEF AllGone
      <4> QED BY <3>1, <4>1 DEF Agrees
    <3> QED BY <3>2, <3>3
  <2> QED BY <1>1, <1>5, <2>1, <2>2 DEF AllGone, sotVars
<1> QED BY <1>6, <1>7, <1>8

-----------------------------------------------------------------------------
(* The theorems *)

(* The initial states satisfy the invariant: with nothing to deliver, any  *)
(* delete of a file that is not there is delivered.                        *)
LEMMA InitHolds == Init => IInv
<1> SUFFICES ASSUME Init PROVE IInv
  OBVIOUS
<1>1. /\ doc = TRUE /\ sot = Files0 /\ writes = 0 /\ pushes = {}
      /\ pending = [m \in Members |-> [n \in Names |-> NoItem]]
      /\ mdoc = [m \in Members |-> TRUE]
      /\ mblob = [m \in Members |-> Files0]
      /\ mmanifest = [m \in Members |-> NoEntries]
      /\ mjournal = [m \in Members |-> {}]
      /\ catchup = [m \in Members |-> Idle]
      /\ flagged = [m \in Members |-> {}]
      /\ mishaps = 0 /\ isolated = TRUE
  BY DEF Init
<1>2. TypeOK
  BY <1>1, ConstantFacts, EntryTypes, WorkTypes DEF TypeOK
<1>3. WorkInv
  BY <1>1, WorkTypes DEF WorkInv
<1>4. PICK x : x = [cmd |-> "delete", name |-> 1, op |-> 0, ver |-> 0, sha |-> 0]
  OBVIOUS
<1>5. x \in Item /\ x.cmd = "delete" /\ x.name \in Names
  BY <1>4, ConstantFacts DEF Item, Ops
<1>6. sot[x.name] = NoFile
  BY <1>1, <1>5, EntryTypes DEF NoFile
<1>7. ASSUME NEW m \in Members
      PROVE  /\ \A n \in Names : pending[m][n] = NoItem
             /\ catchup[m].todo = {} /\ catchup[m].at = "idle"
             /\ ApplierInv(x, m, catchup[m].at, catchup[m].work)
             /\ MemberInv(x, m)
             /\ Underway(x, m)
  <2>1. catchup[m].todo = {} /\ catchup[m].at = "idle"
    BY <1>1, WorkTypes
  <2>2. ApplierInv(x, m, catchup[m].at, catchup[m].work)
    BY <2>1 DEF ApplierInv
  <2>3. \A n \in Names : mblob[m][n] = sot[n] /\ mmanifest[m][n] = EntryFor(sot[n])
    BY <1>1, EntryTypes
  <2>4. MemberInv(x, m) /\ Underway(x, m)
    BY <1>1, <1>5, <2>3 DEF MemberInv, Underway
  <2> QED BY <1>1, <2>1, <2>2, <2>4
<1>8. Delivering(x)
  BY <1>1, <1>5, <1>6, <1>7 DEF Delivering
<1>9. IsolatedInv
  BY <1>1, <1>5, <1>8 DEF IsolatedInv
<1> QED BY <1>2, <1>3, <1>9 DEF IInv

(* Every step keeps the invariant. *)
LEMMA NextKeeps == IInv /\ [Next]_vars => IInv'
<1> SUFFICES ASSUME TypeOK, WorkInv, IsolatedInv, [Next]_vars
             PROVE  TypeOK' /\ WorkInv' /\ IsolatedInv'
  BY DEF IInv
<1>1. ASSUME NEW cmd \in Ops, NEW n \in Names, Write(cmd, n)
      PROVE  TypeOK' /\ WorkInv' /\ IsolatedInv'
  BY <1>1, StepWrite
<1>2. CASE DeleteDocument
  BY <1>2, StepDeleteDocument
<1>3. ASSUME NEW p \in pushes, PushStep(p)
      PROVE  TypeOK' /\ WorkInv' /\ IsolatedInv'
  BY <1>3, StepStage, StepStagingFails, StepOpenAndSend, StepUnacknowledged, StepLose,
     StepAcknowledged, StepPushApply DEF PushStep
<1>4. ASSUME NEW m \in Members, MemberStep(m)
      PROVE  TypeOK' /\ WorkInv' /\ IsolatedInv'
  BY <1>4, StepMemberCascade, StepCheckIn, StepFetchItem, StepFetchContent, StepCatchupApply,
     StepComplete, StepGiveUp, StepMemberCrash DEF MemberStep
<1>5. CASE SOTCrash
  BY <1>5, StepSOTCrash
<1>6. CASE UNCHANGED vars
  <2>1. TypeOK'
    BY <1>6 DEF TypeOK, vars
  <2>2. WorkInv'
    BY <1>6 DEF WorkInv, vars
  <2>3. IsolatedInv'
    BY <1>6 DEF vars, IsolatedInv, AllGone, Agrees, Delivering, ApplierInv, MemberInv, Underway
  <2> QED BY <2>1, <2>2, <2>3
<1> QED BY <1>1, <1>2, <1>3, <1>4, <1>5, <1>6 DEF Next

(* The invariant holds in every reachable state. *)
LEMMA Invariance == Spec => []IInv
BY InitHolds, NextKeeps, PTL DEF Spec

(* Type correctness, for any members, names and bounds. *)
THEOREM TypeCorrect == Spec => []TypeOK
<1>1. IInv => TypeOK
  BY DEF IInv
<1> QED BY <1>1, Invariance, PTL

(* The invariant says what a settled member has. *)
LEMMA IsolatedFollows == IInv => IsolatedFilesConverge
<1> SUFFICES ASSUME TypeOK, WorkInv, IsolatedInv, isolated, NEW m \in Members, Settled(m)
             PROVE  Agrees(m)
  BY DEF IInv, IsolatedFilesConverge
<1>1. CASE doc
  BY <1>1, SettledAgrees DEF IsolatedInv
<1>2. CASE ~doc
  <2>1. AllGone
    BY <1>2 DEF IsolatedInv
  <2>2. ~mdoc[m]
    BY <1>2 DEF Settled
  <2> QED BY <2>1, <2>2 DEF AllGone
<1> QED BY <1>1, <1>2

(* One operation at a time, the lane of the attachments delivers, whatever *)
(* is lost, late, sent or applied twice, and wherever the SOT or a member  *)
(* is killed: a settled member has the SOT's files.                        *)
THEOREM IsolatedFilesReachEveryMember == Spec => []IsolatedFilesConverge
BY IsolatedFollows, Invariance, PTL

(* Where the entry of x is in the manifest, it is what was staged. *)
LEMMA StagedIsHeld ==
  ASSUME NEW x \in Item, Delivering(x), NEW m \in Members, NEW n \in Names,
         pending[m][n] # NoItem, mmanifest[m][x.name] = EntryFor(sot[x.name])
  PROVE  mmanifest[m][n] = (IF pending[m][n].cmd = "put"
                            THEN [ver |-> pending[m][n].ver, sha |-> pending[m][n].sha]
                            ELSE NoEntry)
<1>1. n = x.name /\ pending[m][n] = x
  BY DEF Delivering
<1>2. /\ sot[x.name] = (IF x.cmd = "put" THEN x.ver ELSE NoFile)
      /\ (x.cmd = "put" => x.sha = x.ver)
  BY DEF Delivering
<1> QED BY <1>1, <1>2 DEF EntryFor, NoEntry

(* No step lets an entry go too early. *)
LEMMA StepForgetsNothing ==
  ASSUME TypeOK, WorkInv, IsolatedInv, [Next]_vars, NEW m \in Members, NEW n \in Names,
         isolated', pending[m][n] # NoItem, pending'[m][n] = NoItem
  PROVE  mmanifest[m][n] = (IF pending[m][n].cmd = "put"
                            THEN [ver |-> pending[m][n].ver, sha |-> pending[m][n].sha]
                            ELSE NoEntry)
<1>1. pending' # pending
  OBVIOUS
<1>2. pending \in [Members -> [Names -> Item \cup {NoItem}]] /\ ~AllGone
  BY DEF TypeOK, AllGone
<1>3. ASSUME isolated PROVE \E x \in Item : Delivering(x)
  BY <1>2, <1>3 DEF IsolatedInv
<1>4. ASSUME NEW p \in pushes, PushStep(p)
      PROVE  mmanifest[m][n] = (IF pending[m][n].cmd = "put"
                                THEN [ver |-> pending[m][n].ver, sha |-> pending[m][n].sha]
                                ELSE NoEntry)
  <2>1. CASE WritePendingFileWrite(p)
    <3>1. PICK k, i, y : k = p.to /\ i = p.work.item.name /\ y = p.work.item
      OBVIOUS
    <3>2. pending' = [pending EXCEPT ![k][i] = y] /\ y \in Item /\ i \in Names /\ k \in Members
      BY <2>1, <3>1, PushFacts DEF WritePendingFileWrite
    <3>3. pending'[m][n] = IF k = m /\ i = n THEN y ELSE pending[m][n]
      BY <1>2, <3>2
    <3> QED BY <3>2, <3>3, NoItemFacts
  <2>2. CASE Acknowledged(p)
    <3>1. isolated /\ p.at = "yes" /\ pending' = [pending EXCEPT ![p.to][p.work.item.name] = NoItem]
      BY <2>2 DEF Acknowledged
    <3>2. PICK x \in Item : Delivering(x)
      BY <1>3, <3>1
    <3>3. p.to = m
      BY <1>2, <3>1, PushFacts
    <3>4. ApplierInv(x, m, "yes", p.work)
      BY <3>1, <3>2, <3>3 DEF Delivering
    <3>5. mmanifest[m][x.name] = EntryFor(sot[x.name])
      BY <3>2, <3>4, YesFacts
    <3> QED BY <3>2, <3>5, StagedIsHeld
  <2> QED BY <1>1, <1>4, <2>1, <2>2
       DEF PushStep, StagingFails, OpenAndSend, Unacknowledged, Lose, PushApply
<1>5. ASSUME NEW k \in Members, MemberStep(k)
      PROVE  mmanifest[m][n] = (IF pending[m][n].cmd = "put"
                                THEN [ver |-> pending[m][n].ver, sha |-> pending[m][n].sha]
                                ELSE NoEntry)
  <2>1. CASE Complete(k)
    <3>1. isolated /\ catchup[k].at = "yes" /\ pending' = [pending EXCEPT ![k][Current(k)] = NoItem]
      BY <2>1 DEF Complete
    <3>2. PICK x \in Item : Delivering(x)
      BY <1>3, <3>1
    <3>3. k = m
      BY <1>2, <3>1
    <3>4. ApplierInv(x, m, "yes", catchup[m].work)
      BY <3>1, <3>2, <3>3 DEF Delivering
    <3>5. mmanifest[m][x.name] = EntryFor(sot[x.name])
      BY <3>2, <3>4, YesFacts
    <3> QED BY <3>2, <3>5, StagedIsHeld
  <2> QED BY <1>1, <1>5, <2>1
       DEF MemberStep, MemberCascade, CheckInFile, FetchItem, FetchContent, CatchupApply,
           GiveUp, MemberCrash
<1> QED BY <1>1, <1>4, <1>5 DEF Next, Write, DeleteDocument, SOTCrash, vars

(* An operation staged for a member is not forgotten: when its entry goes, *)
(* acknowledged or completed, the member's manifest has what was staged.   *)
THEOREM StagedFilesAreNotForgotten == Spec => StagedNotForgotten
<1>1. ASSUME IInv, [Next]_vars
      PROVE  [\A m \in Members, n \in Names :
                isolated' /\ pending[m][n] # NoItem /\ pending'[m][n] = NoItem =>
                   mmanifest[m][n] = (IF pending[m][n].cmd = "put"
                                      THEN [ver |-> pending[m][n].ver, sha |-> pending[m][n].sha]
                                      ELSE NoEntry)]_vars
  BY <1>1, StepForgetsNothing DEF IInv
<1> QED BY <1>1, Invariance, PTL DEF Spec, StagedNotForgotten

-----------------------------------------------------------------------------
(* The refinement of Followers *)

(* Bytes and entries change to what the SOT has, and to nothing else. *)
OnlyFollows ==
    /\ sot' = sot
    /\ \A m \in Members : \A n \in Names :
          /\ mblob'[m][n] = mblob[m][n] \/ mblob'[m][n] = sot[n]
          /\ mmanifest'[m][n] = mmanifest[m][n] \/ mmanifest'[m][n] = EntryFor(sot[n])

(* A step that leaves the files alone, or goes forward, is of that kind. *)
LEMMA ForwardFollows ==
  /\ sot' = sot /\ UNCHANGED storeVars => OnlyFollows
  /\ \A x \in Item : Forward(x) => OnlyFollows
BY DEF storeVars, Forward, OnlyFollows

(* An applier at work on a member only follows: there is none once the     *)
(* document is deleted, and before that it applies the one operation that  *)
(* is under way.                                                           *)
LEMMA ApplierFollows ==
  ASSUME TypeOK, NEW x \in Item, Delivering(x), sot' = sot,
         NEW m \in Members, NEW at, NEW w \in Work, w.item = x, ApplierInv(x, m, at, w),
         ApplyStep(m, at, w) \/ ApplyError(at)
  PROVE  OnlyFollows
<1>1. CASE ApplyStep(m, at, w)
  BY <1>1, ApplyForward, ForwardFollows
<1>2. CASE ApplyError(at)
  BY <1>2, ForwardFollows DEF ApplyError
<1> QED BY <1>1, <1>2

(* A member that is killed replays the journals of the operation that is   *)
(* under way, and so only follows.                                         *)
LEMMA RecoveryFollows ==
  ASSUME TypeOK, NEW m \in Members, MemberCrash(m),
         (\E x \in Item : Delivering(x)) \/ AllGone
  PROVE  OnlyFollows
<1>1. sot' = sot /\ mblob' = mblob
  BY DEF MemberCrash, sotVars
<1>2. /\ \A k \in Members : k # m => mmanifest'[k] = mmanifest[k]
      /\ \A n \in Names :
            \/ mmanifest'[m][n] = mmanifest[m][n]
            \/ \E j \in mjournal[m] : j.name = n /\ mmanifest'[m][n] = j.entry
  BY RecoveryFacts
<1>3. \A j \in mjournal[m] : j.entry = EntryFor(sot[j.name])
  BY DEF Delivering, MemberInv, AllGone
<1> QED BY <1>1, <1>2, <1>3 DEF OnlyFollows

(* While it is calm and the SOT writes and deletes nothing, every step     *)
(* only follows.                                                           *)
LEMMA StepFollows ==
  ASSUME IInv, isolated, Next,
         \A cmd \in Ops, n \in Names : ~Write(cmd, n), ~DeleteDocument
  PROVE  OnlyFollows
<1>1. TypeOK /\ WorkInv
  BY DEF IInv
<1>2. (\E x \in Item : Delivering(x)) \/ AllGone
  BY DEF IInv, IsolatedInv
<1>3. sot' = sot
  BY DEF Next, PushStep, MemberStep, WritePendingFileWrite, StagingFails, OpenAndSend,
         Unacknowledged, Lose, Acknowledged, PushApply, MemberCascade, CheckInFile, FetchItem,
         FetchContent, CatchupApply, Complete, GiveUp, MemberCrash, SOTCrash, sotVars
<1>4. ASSUME NEW p \in pushes, PushApply(p) PROVE OnlyFollows
  <2>1. PICK x \in Item : Delivering(x)
    BY <1>2 DEF AllGone
  <2>2. PICK m, at, w : m = p.to /\ at = p.at /\ w = p.work
    OBVIOUS
  <2>3. m \in Members /\ w \in Work /\ w.item = x /\ ApplierInv(x, m, at, w)
    BY <1>1, <2>1, <2>2, PushFacts DEF Delivering
  <2>4. ApplyStep(m, at, w) \/ ApplyError(at)
    BY <1>4, <2>2 DEF PushApply
  <2> QED BY <1>1, <1>3, <2>1, <2>3, <2>4, ApplierFollows
<1>5. ASSUME NEW m \in Members, CatchupApply(m) PROVE OnlyFollows
  <2>1. PICK at, w : at = catchup[m].at /\ w = catchup[m].work
    OBVIOUS
  <2>2. ApplyStep(m, at, w) \/ ApplyError(at)
    BY <1>5, <2>1 DEF CatchupApply
  <2>3. at \in ApplySteps
    BY <2>2 DEF ApplyStep, ApplyError
  <2>4. at \notin {"idle", "fetch"}
    BY <2>3 DEF ApplySteps
  <2>5. PICK x \in Item : Delivering(x)
    BY <1>2, <2>1, <2>4, AtWork
  <2>6. w \in Work /\ w.item = x /\ ApplierInv(x, m, at, w)
    BY <1>1, <2>1, <2>4, <2>5 DEF Delivering, TypeOK, Catchup
  <2> QED BY <1>1, <1>3, <2>2, <2>5, <2>6, ApplierFollows
<1>6. ASSUME NEW m \in Members, MemberCascade(m) PROVE OnlyFollows
  <2>1. AllGone
    BY <1>6 DEF MemberCascade, IInv, IsolatedInv
  <2>2. mblob' = [mblob EXCEPT ![m] = Files0] /\ mmanifest' = [mmanifest EXCEPT ![m] = NoEntries]
    BY <1>6 DEF MemberCascade
  <2>3. ASSUME NEW k \in Members, NEW n \in Names
        PROVE  /\ mblob'[k][n] = mblob[k][n] \/ mblob'[k][n] = sot[n]
               /\ mmanifest'[k][n] = mmanifest[k][n] \/ mmanifest'[k][n] = EntryFor(sot[n])
    <3>1. CASE k # m
      BY <1>1, <2>2, <3>1 DEF TypeOK
    <3>2. CASE k = m
      <4>1. mblob'[k] = Files0 /\ mmanifest'[k] = NoEntries
        BY <1>1, <2>2, <3>2 DEF TypeOK
      <4>2. sot[n] = Files0[n] /\ NoEntries[n] = EntryFor(Files0[n])
        BY <2>1 DEF AllGone, Files0, NoEntries, NoEntry
      <4> QED BY <4>1, <4>2
    <3> QED BY <3>1, <3>2
  <2> QED BY <1>3, <2>3 DEF OnlyFollows
<1>7. ASSUME NEW m \in Members, MemberCrash(m) PROVE OnlyFollows
  BY <1>1, <1>2, <1>7, RecoveryFollows
<1>8. \/ UNCHANGED storeVars
      \/ \E p \in pushes : PushApply(p)
      \/ \E m \in Members : CatchupApply(m) \/ MemberCascade(m) \/ MemberCrash(m)
  BY DEF Next, PushStep, MemberStep, WritePendingFileWrite, StagingFails, OpenAndSend,
         Unacknowledged, Lose, Acknowledged, CheckInFile, FetchItem, FetchContent, Complete,
         GiveUp, SOTCrash
<1> QED BY <1>3, <1>4, <1>5, <1>6, <1>7, <1>8, ForwardFollows

(* What the followers see has its type, and is read copy by copy. *)
LEMMA FollowersTypes ==
  ASSUME TypeOK, NEW C, C = Members \X Names \X {"bytes", "entry"},
         NEW src, src = [c \in C |-> EntryFor(sot[c[2]])],
         NEW cpy, cpy = [c \in C |-> IF c[3] = "bytes" THEN EntryFor(mblob[c[1]][c[2]])
                                    ELSE mmanifest[c[1]][c[2]]]
  PROVE  src \in [C -> Entry] /\ cpy \in [C -> Entry]
<1>1. \A c \in C : c[1] \in Members /\ c[2] \in Names
  OBVIOUS
<1>2. \A n \in Names : EntryFor(sot[n]) \in Entry
  BY EntryTypes DEF TypeOK
<1>3. \A m \in Members, n \in Names :
         EntryFor(mblob[m][n]) \in Entry /\ mmanifest[m][n] \in Entry
  BY EntryTypes DEF TypeOK
<1> QED BY <1>1, <1>2, <1>3

(* The initial states are initial states of the followers. *)
LEMMA FollowersInit == Init => F!Init
<1> SUFFICES ASSUME Init PROVE F!Init
  OBVIOUS
<1>1. PICK C : C = Members \X Names \X {"bytes", "entry"}
  OBVIOUS
<1>2. PICK src : src = [c \in C |-> EntryFor(sot[c[2]])]
  OBVIOUS
<1>3. PICK cpy : cpy = [c \in C |-> IF c[3] = "bytes" THEN EntryFor(mblob[c[1]][c[2]])
                                    ELSE mmanifest[c[1]][c[2]]]
  OBVIOUS
<1>4. TypeOK
  BY InitHolds DEF IInv
<1>5. src \in [C -> Entry] /\ cpy \in [C -> Entry]
  BY <1>1, <1>2, <1>3, <1>4, FollowersTypes
<1>6. \A m \in Members, n \in Names :
         EntryFor(mblob[m][n]) = EntryFor(sot[n]) /\ mmanifest[m][n] = EntryFor(sot[n])
  BY EntryTypes DEF Init
<1>7. \A c \in C : c[1] \in Members /\ c[2] \in Names
  BY <1>1
<1>8. \A c \in C : cpy[c] = src[c]
  BY <1>2, <1>3, <1>6, <1>7
<1>9. cpy = src
  BY <1>5, <1>8
<1>10. isolated = TRUE
  BY DEF Init
<1> QED BY <1>1, <1>2, <1>3, <1>5, <1>9, <1>10 DEF F!Init

(* Every step is an operation that finds all members up to date, a member  *)
(* that moves on, a disturbance, or nothing to the followers.              *)
LEMMA FollowersStep == IInv /\ IInv' /\ [Next]_vars => [F!Next]_(F!vars)
<1> SUFFICES ASSUME IInv, IInv', [Next]_vars PROVE [F!Next]_(F!vars)
  OBVIOUS
<1>1. PICK C : C = Members \X Names \X {"bytes", "entry"}
  OBVIOUS
<1>2. PICK src : src = [c \in C |-> EntryFor(sot[c[2]])]
  OBVIOUS
<1>3. PICK cpy : cpy = [c \in C |-> IF c[3] = "bytes" THEN EntryFor(mblob[c[1]][c[2]])
                                    ELSE mmanifest[c[1]][c[2]]]
  OBVIOUS
<1>4. PICK newsrc : newsrc = [c \in C |-> EntryFor(sot'[c[2]])]
  OBVIOUS
<1>5. PICK newcpy : newcpy = [c \in C |-> IF c[3] = "bytes" THEN EntryFor(mblob'[c[1]][c[2]])
                                          ELSE mmanifest'[c[1]][c[2]]]
  OBVIOUS
<1>6. TypeOK /\ TypeOK' /\ isolated \in BOOLEAN /\ isolated' \in BOOLEAN
  BY DEF IInv, TypeOK
<1>7. src \in [C -> Entry] /\ cpy \in [C -> Entry]
  BY <1>1, <1>2, <1>3, <1>6, FollowersTypes
<1>8. newsrc \in [C -> Entry] /\ newcpy \in [C -> Entry]
  <2>1. \A c \in C : c[1] \in Members /\ c[2] \in Names
    BY <1>1
  <2>2. \A n \in Names : EntryFor(sot'[n]) \in Entry
    BY <1>6, EntryTypes DEF TypeOK
  <2>3. \A m \in Members, n \in Names :
           EntryFor(mblob'[m][n]) \in Entry /\ mmanifest'[m][n] \in Entry
    BY <1>6, EntryTypes DEF TypeOK
  <2> QED BY <1>4, <1>5, <2>1, <2>2, <2>3
<1>9. CASE ~isolated'
  <2>1. F!Disturbed
    BY <1>1, <1>4, <1>5, <1>6, <1>8, <1>9 DEF F!Disturbed
  <2> QED BY <2>1 DEF F!Next
<1>10. CASE UNCHANGED vars
  BY <1>10 DEF vars, F!vars
<1>11. CASE isolated' /\ Next
  <2>1. isolated = TRUE /\ isolated' = TRUE
    BY <1>6, <1>11
       DEF Next, PushStep, MemberStep, Write, DeleteDocument, WritePendingFileWrite,
           StagingFails, OpenAndSend, Unacknowledged, Lose, Acknowledged, PushApply,
           MemberCascade, CheckInFile, FetchItem, FetchContent, CatchupApply, Complete, GiveUp,
           MemberCrash, SOTCrash
  <2>2. ASSUME (\E cmd \in Ops, n \in Names : Write(cmd, n)) \/ DeleteDocument
        PROVE  F!Write
    <3>1. UNCHANGED storeVars /\ \A m \in Members : Settled(m)
      BY <2>1, <2>2 DEF Write, DeleteDocument, Clean
    <3>2. \A m \in Members, n \in Names :
             EntryFor(mblob[m][n]) = EntryFor(sot[n]) /\ mmanifest[m][n] = EntryFor(sot[n])
      BY <2>1, <3>1, IsolatedFollows DEF IsolatedFilesConverge, Agrees
    <3>3. \A c \in C : c[1] \in Members /\ c[2] \in Names
      BY <1>1
    <3>4. \A c \in C : cpy[c] = src[c]
      BY <1>2, <1>3, <3>2, <3>3
    <3>5. cpy = src
      BY <1>7, <3>4
    <3>6. newcpy = cpy
      BY <1>3, <1>5, <3>1 DEF storeVars
    <3> QED BY <1>1, <1>2, <1>3, <1>4, <1>5, <1>8, <2>1, <3>5, <3>6 DEF F!Write
  <2>3. CASE (\A cmd \in Ops, n \in Names : ~Write(cmd, n)) /\ ~DeleteDocument
    <3>1. OnlyFollows
      BY <1>11, <2>1, <2>3, StepFollows
    <3>2. newsrc = src
      BY <1>2, <1>4, <3>1 DEF OnlyFollows
    <3>3. ASSUME NEW c \in C PROVE newcpy[c] = cpy[c] \/ newcpy[c] = src[c]
      <4>1. PICK m \in Members, n \in Names : m = c[1] /\ n = c[2]
        BY <1>1, <3>3
      <4>2. /\ mblob'[m][n] = mblob[m][n] \/ mblob'[m][n] = sot[n]
            /\ mmanifest'[m][n] = mmanifest[m][n] \/ mmanifest'[m][n] = EntryFor(sot[n])
        BY <3>1 DEF OnlyFollows
      <4> QED BY <1>2, <1>3, <1>5, <4>1, <4>2
    <3>4. \A c \in C :
             newcpy[c] # cpy[c] => cpy[c] # src[c] /\ newcpy[c] \in {} \cup {src[c]}
      BY <3>3
    <3>5. F!Follow
      BY <1>1, <1>2, <1>3, <1>4, <1>5, <1>8, <2>1, <3>2, <3>4 DEF F!Follow
    <3> QED BY <3>5 DEF F!Next
  <2> QED BY <2>2, <2>3 DEF F!Next
<1> QED BY <1>6, <1>9, <1>10, <1>11

(* The lane of the attachments implements Followers, for any members,      *)
(* files, operations and mishaps: one operation at a time, a member's bytes*)
(* and manifest entries go straight from the old version to the new, never *)
(* back and never elsewhere, and stay there until the next operation.      *)
THEOREM FilesFollow == Spec => RefinesFollowers
BY FollowersInit, FollowersStep, InitHolds, NextKeeps, PTL DEF Spec, RefinesFollowers, F!Spec

=============================================================================

------------------------- MODULE EstablishmentProofs ------------------------
(***************************************************************************)
(* Proofs about Establishment, for any searches and any number of schema   *)
(* versions, edits, general versions, failures and mishaps.                *)
(***************************************************************************)
EXTENDS Establishment, SequenceTheorems, WellFoundedInduction, TLAPS

-----------------------------------------------------------------------------
(* The operators *)

(* A nonempty set of numbers up to a bound has a greatest one, and that is *)
(* what Maximum chooses: the distances to the bound have a least one.      *)
LEMMA MaximumFacts ==
  ASSUME NEW N \in Nat, NEW S, S \subseteq 0..N, S # {}
  PROVE  Maximum(S) \in S /\ \A n \in S : n <= Maximum(S)
<1> DEFINE T == {N - n : n \in S}
           R == {ss \in Nat \X Nat : ss[1] < ss[2]}
<1>1. T \subseteq Nat /\ T # {}
  <2>1. \A n \in S : N - n \in Nat
    OBVIOUS
  <2> QED BY <2>1
<1>2. IsWellFoundedOn(R, Nat)
  BY NatLessThanWellFounded, Zenon DEF OpToRel
<1>3. PICK x \in T : \A y \in T : ~(<<y, x>> \in R)
  <2> HIDE DEF R, T
  <2> QED BY <1>1, <1>2, WFMin
<1>4. \A y \in T : ~(y < x)
  BY <1>1, <1>3
<1>5. PICK m \in S : x = N - m
  OBVIOUS
<1>6. ASSUME NEW n \in S PROVE n <= m
  <2>1. N - n \in T
    OBVIOUS
  <2>2. ~(N - n < N - m)
    BY <1>4, <1>5, <2>1
  <2>3. n \in Nat /\ m \in Nat
    OBVIOUS
  <2> QED BY <2>2, <2>3
<1> QED BY <1>6 DEF Maximum

(* The schema version is that of the last history file; 0 without any.     *)
LEMMA SchemaVersionFacts ==
  ASSUME NEW c \in Files
  PROVE  /\ SchemaVersion(c) \in Versions
         /\ SchemaVersion(c) \in Nat
         /\ \A v \in c.hist : v <= SchemaVersion(c)
         /\ c.hist # {} => SchemaVersion(c) \in c.hist
         /\ c.hist = {} => SchemaVersion(c) = 0
<1> DEFINE S == {0} \cup c.hist
<1>1. MaxVersion \in Nat /\ S \subseteq 0..MaxVersion /\ S # {} /\ 0 \in S
  BY EstablishmentAssumption DEF Files, Versions
<1>2. Maximum(S) \in S /\ \A n \in S : n <= Maximum(S)
  <2> HIDE DEF S
  <2> QED BY <1>1, MaximumFacts
<1>3. SchemaVersion(c) = Maximum(S)
  BY DEF SchemaVersion
<1>4. \A n \in S : n \in Nat
  BY <1>1
<1> HIDE DEF S
<1>5. SchemaVersion(c) \in S /\ \A n \in S : n <= SchemaVersion(c)
  BY <1>2, <1>3
<1>6. SchemaVersion(c) \in Nat /\ SchemaVersion(c) \in Versions
  BY <1>1, <1>4, <1>5 DEF Versions
<1>7. c.hist # {} => SchemaVersion(c) \in c.hist
  <2> SUFFICES ASSUME NEW v \in c.hist PROVE SchemaVersion(c) \in c.hist
    OBVIOUS
  <2>1. v \in S /\ v <= SchemaVersion(c)
    BY <1>5 DEF S
  <2>2. CASE SchemaVersion(c) = 0
    BY <1>4, <2>1, <2>2
  <2>3. CASE SchemaVersion(c) # 0
    BY <1>5, <2>3 DEF S
  <2> QED BY <2>2, <2>3
<1> QED BY <1>5, <1>6, <1>7 DEF S

(* More history files, no lower schema version. *)
LEMMA SchemaVersionGrows ==
  ASSUME NEW c \in Files, NEW d \in Files, c.hist \subseteq d.hist
  PROVE  SchemaVersion(c) <= SchemaVersion(d)
<1>1. CASE c.hist = {}
  BY <1>1, SchemaVersionFacts
<1>2. CASE c.hist # {}
  BY <1>2, SchemaVersionFacts
<1> QED BY <1>1, <1>2

(* The schema version depends on the history files alone. *)
LEMMA SchemaVersionSame ==
  ASSUME NEW c, NEW d, c.hist = d.hist PROVE SchemaVersion(c) = SchemaVersion(d)
BY DEF SchemaVersion

(* What a write does to a directory, file by file. *)
LEMMA WrittenFacts ==
  ASSUME NEW c \in Files, NEW w \in Writes
  PROVE  /\ Written(c, w) \in Files
         /\ Written(c, w).general = IF w.file = "general" THEN w.val ELSE c.general
         /\ Written(c, w).servers = IF w.file = "servers" THEN w.val ELSE c.servers
         /\ Written(c, w).current = IF w.file = "current" THEN w.val ELSE c.current
         /\ Written(c, w).hist = IF w.file = "hist" THEN c.hist \cup {w.val} ELSE c.hist
         /\ w.file \notin {"searches", "unlink"} => Written(c, w).searches = c.searches
<1> USE EstablishmentAssumption DEF Written, Files
<1>1. CASE w \in [file : {"general"}, val : 0 .. MaxGeneral]
  BY <1>1
<1>2. CASE w \in [file : {"servers"}, val : 0 .. MaxServers]
  BY <1>2
<1>3. CASE w \in [file : {"current", "hist", "updates"}, val : Versions]
  <2>1. CASE w.file = "current"
    BY <1>3, <2>1
  <2>2. CASE w.file = "hist"
    BY <1>3, <2>2
  <2>3. CASE w.file = "updates"
    BY <1>3, <2>3
  <2> QED BY <1>3, <2>1, <2>2, <2>3
<1>4. CASE w \in [file : {"searches", "unlink"}, val : Searches]
  <2>1. CASE w.file = "searches"
    BY <1>4, <2>1
  <2>2. CASE w.file = "unlink"
    BY <1>4, <2>2
  <2> QED BY <1>4, <2>1, <2>2
<1> QED BY <1>1, <1>2, <1>3, <1>4 DEF Writes

-----------------------------------------------------------------------------
(* Administrators *)

(* A step that leaves the establishment's files and what was made of them  *)
(* alone keeps what is known of those.                                     *)
LEMMA FilesKept ==
  ASSUME IInv, UNCHANGED <<est, promised, cfg, loader, disk, worker, torn, early>>
  PROVE  PromiseInv' /\ LoadInv' /\ AnswerInv' /\ CacheInv'
<1>1. PromiseInv'
  BY DEF IInv, PromiseInv, SchemaVersion
<1>2. LoadInv'
  BY DEF IInv, LoadInv, ReadFromEst, UpToGeneral, CachedNoNewer, SchemaVersion
<1>3. AnswerInv'
  BY DEF IInv, AnswerInv, ReadFromEst, UpToGeneral, CachedNoNewer, SchemaVersion, Left
<1>4. CacheInv'
  BY DEF IInv, CacheInv, UpToGeneral, CachedNoNewer, SchemaVersion
<1> QED BY <1>1, <1>2, <1>3, <1>4

(* The lock file is created only where there is none. *)
LEMMA StepAcquireLock == ASSUME IInv, NEW a \in Admins, AcquireLock(a) PROVE IInv'
<1>1. TypeOK'
  BY DEF IInv, TypeOK, AcquireLock
<1>2. LockInv' /\ PlanInv'
  BY EstablishmentAssumption DEF IInv, TypeOK, LockInv, PlanInv, PlanFor, AcquireLock
<1>3. PromiseInv' /\ LoadInv' /\ AnswerInv' /\ CacheInv'
  BY FilesKept DEF AcquireLock
<1> QED BY <1>1, <1>2, <1>3 DEF IInv

(* A refused command releases the lock it holds. *)
LEMMA StepRefuse == ASSUME IInv, NEW a \in Admins, Refuse(a) PROVE IInv'
<1>1. TypeOK'
  BY DEF IInv, TypeOK, Refuse
<1>2. LockInv' /\ PlanInv'
  BY DEF IInv, TypeOK, LockInv, PlanInv, PlanFor, Refuse
<1>3. PromiseInv' /\ LoadInv' /\ AnswerInv' /\ CacheInv'
  BY FilesKept DEF Refuse
<1> QED BY <1>1, <1>2, <1>3 DEF IInv

(* Nobody holds a lock that is removed by hand. *)
LEMMA StepRemoveStaleLock == ASSUME IInv, RemoveStaleLock PROVE IInv'
<1>1. TypeOK'
  BY DEF IInv, TypeOK, RemoveStaleLock
<1>2. LockInv' /\ PlanInv'
  BY DEF IInv, TypeOK, LockInv, PlanInv, PlanFor, RemoveStaleLock
<1>3. PromiseInv' /\ LoadInv' /\ AnswerInv' /\ CacheInv'
  BY FilesKept DEF RemoveStaleLock
<1> QED BY <1>1, <1>2, <1>3 DEF IInv

(* Nothing has been written or loaded yet under version 0. *)
LEMMA NoFilesType == NoFiles \in Files /\ NotLoading \in [at : {"none", "dir", "files"}, got : Files]
BY EstablishmentAssumption DEF NoFiles, NotLoading, Files, Versions

(* A kill leaves the lock and ends the loads with their server. *)
LEMMA StepKill == ASSUME IInv, NEW a \in Admins, Kill(a) PROVE IInv'
<1>0. /\ UNCHANGED <<est, promised, lock, disk, worker, torn, early, doc>>
      /\ cfg' \in {cfg, [cfg EXCEPT !["est"] = None]}
      /\ loader' \in {loader, [r \in Readers |-> NotLoading]}
      /\ admin' = [admin EXCEPT ![a] = [pc |-> "idle", plan |-> <<>>]]
      /\ mishaps' \in 0 .. MaxMishaps
  BY EstablishmentAssumption DEF Kill, IInv, TypeOK
<1>1. TypeOK'
  <2>1. admin' \in [Admins -> [pc : {"idle", "locked", "commit", "release"}, plan : Seq(Writes)]]
    BY <1>0 DEF IInv, TypeOK
  <2>2. \A b \in Admins : (admin'[b].plan # <<>>) <=> (admin'[b].pc = "commit")
    BY <1>0 DEF IInv, TypeOK
  <2>3. /\ cfg' \in [Servers -> Files \cup {None}]
        /\ \A s \in Servers : cfg'[s] # None => cfg'[s] = cfg[s]
    BY <1>0 DEF IInv, TypeOK, Servers
  <2>4. loader' \in [Readers -> [at : {"none", "dir", "files"}, got : Files]]
    BY <1>0, NoFilesType DEF IInv, TypeOK
  <2>5. \A s \in Servers : cfg'[s] # None => Valid(cfg'[s])
    BY <2>3 DEF IInv, TypeOK
  <2> QED BY <1>0, <2>1, <2>2, <2>3, <2>4, <2>5 DEF IInv, TypeOK
<1>2. LockInv' /\ PlanInv'
  BY <1>0 DEF IInv, TypeOK, LockInv, PlanInv, PlanFor
<1>3. PromiseInv'
  BY <1>0 DEF IInv, PromiseInv, SchemaVersion
<1>4. LoadInv'
  <2>1. CASE loader' = loader
    BY <1>0, <2>1 DEF IInv, LoadInv, ReadFromEst, UpToGeneral, CachedNoNewer, SchemaVersion
  <2>2. CASE loader' = [r \in Readers |-> NotLoading]
    BY <1>0, <2>2 DEF LoadInv, NotLoading, Readers
  <2> QED BY <1>0, <2>1, <2>2
<1>5. AnswerInv'
  BY <1>0 DEF IInv, AnswerInv, ReadFromEst, UpToGeneral, CachedNoNewer, SchemaVersion, Left
<1>6. CacheInv'
  <2>1. cfg'["member"] = cfg["member"] /\ (cfg'["est"] = cfg["est"] \/ cfg'["est"] = None)
    BY <1>0 DEF IInv, TypeOK, Servers
  <2> QED BY <1>0, <2>1 DEF IInv, CacheInv, UpToGeneral, CachedNoNewer, SchemaVersion
<1> QED BY <1>1, <1>2, <1>3, <1>4, <1>5, <1>6 DEF IInv

(* A load begins with the general version of the files. *)
LEMMA LoadGeneralFacts ==
  ASSUME TypeOK
  PROVE  /\ LoadGeneral \in [at : {"none", "dir", "files"}, got : Files]
         /\ LoadGeneral.at = "dir"
         /\ LoadGeneral.got.general = est.general
BY NoFilesType DEF TypeOK, LoadGeneral, Files, NoFiles

(* The lock is released with the plan committed. *)
LEMMA StepReleaseLock == ASSUME IInv, NEW a \in Admins, ReleaseLock(a) PROVE IInv'
<1>0. /\ UNCHANGED <<est, promised, cfg, disk, worker, torn, early, doc, mishaps>>
      /\ loader' = loader \/ loader' = [loader EXCEPT !["reload"] = LoadGeneral]
  BY DEF ReleaseLock
<1>1. TypeOK'
  <2>1. /\ lock' \in Admins \cup {None}
        /\ admin' \in [Admins -> [pc : {"idle", "locked", "commit", "release"}, plan : Seq(Writes)]]
    BY DEF IInv, TypeOK, ReleaseLock
  <2>a. \A b \in Admins : (admin'[b].plan # <<>>) <=> (admin'[b].pc = "commit")
    BY DEF IInv, TypeOK, ReleaseLock
  <2>2. loader' \in [Readers -> [at : {"none", "dir", "files"}, got : Files]]
    BY <1>0, LoadGeneralFacts DEF IInv, TypeOK
  <2> QED BY <1>0, <2>1, <2>2, <2>a DEF IInv, TypeOK
<1>2. LockInv' /\ PlanInv'
  BY DEF IInv, TypeOK, LockInv, PlanInv, PlanFor, ReleaseLock
<1>3. PromiseInv'
  BY <1>0 DEF IInv, PromiseInv, SchemaVersion
<1>4. LoadInv'
  <2>1. \A r \in Readers : loader'[r] = loader[r] \/ (r = "reload" /\ loader'[r] = LoadGeneral)
    BY <1>0 DEF IInv, TypeOK
  <2>2. est.general \in DOMAIN promised
    BY DEF IInv, TypeOK, PromiseInv
  <2>3. "establish" \in Readers
    BY DEF Readers
  <2> QED
    BY <1>0, <2>1, <2>2, <2>3, LoadGeneralFacts
       DEF IInv, LoadInv, ReadFromEst, UpToGeneral, CachedNoNewer, SchemaVersion
<1>5. AnswerInv'
  BY <1>0 DEF IInv, AnswerInv, ReadFromEst, UpToGeneral, CachedNoNewer, SchemaVersion, Left
<1>6. CacheInv'
  BY <1>0 DEF IInv, CacheInv, UpToGeneral, CachedNoNewer, SchemaVersion
<1> QED BY <1>1, <1>2, <1>3, <1>4, <1>5, <1>6 DEF IInv

(* A plan is the staged writes followed by the next general version. *)
LEMMA OrderedWritesFacts ==
  ASSUME NEW c \in Files, c.general < MaxGeneral, NEW ws \in Seq(Writes),
         NEW p, p = OrderedWrites(ws, c)
  PROVE  /\ p \in Seq(Writes)
         /\ Len(p) = Len(ws) + 1
         /\ p[Len(ws) + 1] = Write("general", c.general + 1)
         /\ \A i \in 1..Len(ws) : p[i] = ws[i]
<1> DEFINE g == Write("general", c.general + 1)
<1>1. g \in Writes
  <2>1. c.general + 1 \in 0 .. MaxGeneral
    BY EstablishmentAssumption DEF Files
  <2> QED BY <2>1 DEF Write, Writes
<1>2. p = ws \o <<g>>
  BY DEF OrderedWrites
<1> HIDE DEF g
<1>3. <<g>> \in Seq(Writes) /\ Len(<<g>>) = 1 /\ <<g>>[1] = g
  BY <1>1
<1>4. ws \o <<g>> \in Seq(Writes) /\ Len(ws \o <<g>>) = Len(ws) + 1
  BY <1>3
<1>5. (ws \o <<g>>)[Len(ws) + 1] = g
  BY <1>3
<1>6. \A i \in 1..Len(ws) : (ws \o <<g>>)[i] = ws[i]
  BY <1>3
<1> QED BY <1>2, <1>4, <1>5, <1>6 DEF g

(* A single write other than of the general version and the history makes  *)
(* a plan.                                                                 *)
LEMMA SinglePlan ==
  ASSUME NEW c \in Files, c.general < MaxGeneral, NEW w \in Writes,
         w.file \notin {"general", "hist"},
         w.file = "servers" => w.val = c.servers + 1
  PROVE  LET p == OrderedWrites(<<w>>, c)
         IN  p \in Seq(Writes) /\ p # <<>> /\ PlanFor(p, c)
<1> DEFINE p == OrderedWrites(<<w>>, c)
<1>0. PICK ws : ws = <<w>>
  OBVIOUS
<1>1. ws \in Seq(Writes) /\ Len(ws) = 1 /\ ws[1] = w
  BY <1>0
<1>a. p = OrderedWrites(ws, c)
  BY <1>0
<1> HIDE DEF p
<1>b. /\ p \in Seq(Writes)
      /\ Len(p) = Len(ws) + 1
      /\ p[Len(ws) + 1] = Write("general", c.general + 1)
      /\ \A i \in 1..Len(ws) : p[i] = ws[i]
  BY <1>1, <1>a, OrderedWritesFacts
<1>2. /\ p \in Seq(Writes) /\ Len(p) = 2
      /\ p[1] = w
      /\ p[2] = Write("general", c.general + 1)
  BY <1>1, <1>b
<1>3. DOMAIN p = {1, 2}
  BY <1>2
<1>4. PlanFor(p, c)
  BY <1>2, <1>3 DEF PlanFor, Write
<1>5. p # <<>>
  BY <1>2
<1> QED BY <1>2, <1>4, <1>5 DEF p

(* What ensureCreateCollection, ensureUpgradeCollection, EnsureSearch,     *)
(* DeleteSearch and server set stage is a plan.                            *)
LEMMA PlansAreFor ==
  ASSUME NEW c \in Files, c.general < MaxGeneral,
         NEW p \in ServerPlan(c) \cup CreatePlan(c) \cup UpgradePlan(c) \cup SearchPlans(c)
  PROVE  p \in Seq(Writes) /\ p # <<>> /\ PlanFor(p, c)
<1>1. CASE p \in ServerPlan(c)
  <2> DEFINE w == Write("servers", c.servers + 1)
  <2>1. c.servers + 1 \in 0 .. MaxServers /\ p = OrderedWrites(<<w>>, c)
    BY <1>1, EstablishmentAssumption DEF ServerPlan, Files
  <2>2. w \in Writes /\ w.file = "servers" /\ w.val = c.servers + 1
    BY <2>1 DEF Write, Writes
  <2> HIDE DEF w
  <2> QED BY <2>1, <2>2, SinglePlan
<1>2. CASE p \in SearchPlans(c)
  <2>1. PICK n \in Searches :
          p = OrderedWrites(<<Write(IF n \in c.searches THEN "unlink" ELSE "searches", n)>>, c)
    BY <1>2 DEF SearchPlans
  <2> DEFINE w == Write(IF n \in c.searches THEN "unlink" ELSE "searches", n)
  <2>2. w \in Writes /\ w.file \in {"searches", "unlink"}
    BY DEF Write, Writes
  <2>3. p = OrderedWrites(<<w>>, c)
    BY <2>1
  <2> HIDE DEF w
  <2> QED BY <2>2, <2>3, SinglePlan
<1>3. CASE p \in CreatePlan(c)
  <2> DEFINE w1 == Write("current", 0)
             w2 == Write("hist", 0)
  <2>1. p = OrderedWrites(<<w1, w2>>, c)
    BY <1>3 DEF CreatePlan
  <2>2. /\ w1 \in Writes /\ w1.file = "current"
        /\ w2 \in Writes /\ w2.file = "hist"
    BY EstablishmentAssumption DEF Write, Writes, Versions
  <2> HIDE DEF w1, w2
  <2>3. PICK ws : ws = <<w1, w2>>
    OBVIOUS
  <2>a. ws \in Seq(Writes) /\ Len(ws) = 2 /\ ws[1] = w1 /\ ws[2] = w2
    BY <2>2, <2>3
  <2>b. /\ p \in Seq(Writes)
        /\ Len(p) = Len(ws) + 1
        /\ p[Len(ws) + 1] = Write("general", c.general + 1)
        /\ \A i \in 1..Len(ws) : p[i] = ws[i]
    <3>1. p = OrderedWrites(ws, c)
      BY <2>1, <2>3
    <3> QED BY <2>a, <3>1, OrderedWritesFacts
  <2>4. /\ p \in Seq(Writes) /\ Len(p) = 3
        /\ p[1] = w1 /\ p[2] = w2
        /\ p[3] = Write("general", c.general + 1)
    BY <2>a, <2>b
  <2>5. DOMAIN p = {1, 2, 3}
    BY <2>4
  <2>6. p # <<>>
    BY <2>4
  <2>7. PlanFor(p, c)
    BY <2>2, <2>4, <2>5 DEF PlanFor, Write
  <2> QED BY <2>4, <2>6, <2>7
<1>4. CASE p \in UpgradePlan(c)
  <2> DEFINE v == SchemaVersion(c) + 1
             w1 == Write("current", v)
             w2 == Write("hist", v)
             w3 == Write("updates", v)
  <2>1. v \in Versions /\ p = OrderedWrites(<<w1, w2, w3>>, c)
    BY <1>4 DEF UpgradePlan
  <2>2. /\ w1 \in Writes /\ w1.file = "current"
        /\ w2 \in Writes /\ w2.file = "hist"
        /\ w3 \in Writes /\ w3.file = "updates"
    BY <2>1 DEF Write, Writes
  <2> HIDE DEF w1, w2, w3
  <2>3. PICK ws : ws = <<w1, w2, w3>>
    OBVIOUS
  <2>a. ws \in Seq(Writes) /\ Len(ws) = 3 /\ ws[1] = w1 /\ ws[2] = w2 /\ ws[3] = w3
    BY <2>2, <2>3
  <2>b. /\ p \in Seq(Writes)
        /\ Len(p) = Len(ws) + 1
        /\ p[Len(ws) + 1] = Write("general", c.general + 1)
        /\ \A i \in 1..Len(ws) : p[i] = ws[i]
    <3>1. p = OrderedWrites(ws, c)
      BY <2>1, <2>3
    <3> QED BY <2>a, <3>1, OrderedWritesFacts
  <2>4. /\ p \in Seq(Writes) /\ Len(p) = 4
        /\ p[1] = w1 /\ p[2] = w2 /\ p[3] = w3
        /\ p[4] = Write("general", c.general + 1)
    BY <2>a, <2>b
  <2>5. DOMAIN p = {1, 2, 3, 4}
    <3>1. 1..4 = {1, 2, 3, 4}
      OBVIOUS
    <3> QED BY <2>4, <3>1
  <2>6. p # <<>>
    BY <2>5
  <2>7. PlanFor(p, c)
    BY <2>2, <2>4, <2>5 DEF PlanFor, Write
  <2> QED BY <2>4, <2>6, <2>7
<1> QED BY <1>1, <1>2, <1>3, <1>4

(* A command decides on a plan. *)
LEMMA StepMutate == ASSUME IInv, NEW a \in Admins, Mutate(a) PROVE IInv'
<1>0. /\ est \in Files /\ est.general < MaxGeneral
      /\ admin[a].pc = "locked"
      /\ UNCHANGED <<est, lock, promised, cfg, loader, disk, worker, torn, early, doc, mishaps>>
  BY DEF Mutate, IInv, TypeOK
<1>1. PICK p \in ServerPlan(est) \cup CreatePlan(est) \cup UpgradePlan(est) \cup SearchPlans(est) :
        admin' = [admin EXCEPT ![a] = [pc |-> "commit", plan |-> p]]
  BY DEF Mutate
<1>2. p \in Seq(Writes) /\ p # <<>> /\ PlanFor(p, est)
  <2>1. PICK c \in Files : c = est
    BY <1>0
  <2>2. p \in Seq(Writes) /\ p # <<>> /\ PlanFor(p, c)
    BY <1>0, <1>1, <2>1, PlansAreFor
  <2> QED BY <2>1, <2>2
<1>3. TypeOK'
  <2>1. /\ admin' \in [Admins -> [pc : {"idle", "locked", "commit", "release"}, plan : Seq(Writes)]]
        /\ \A b \in Admins : (admin'[b].plan # <<>>) <=> (admin'[b].pc = "commit")
    BY <1>1, <1>2 DEF IInv, TypeOK
  <2> QED BY <1>0, <2>1 DEF IInv, TypeOK
<1>4. LockInv'
  BY <1>0, <1>1 DEF IInv, TypeOK, LockInv
<1>5. PlanInv'
  <2>1. /\ admin'[a] = [pc |-> "commit", plan |-> p]
        /\ \A b \in Admins : b # a => admin'[b] = admin[b]
    BY <1>1 DEF IInv, TypeOK
  <2> QED BY <1>0, <1>2, <2>1 DEF IInv, PlanInv, PlanFor
<1>6. PromiseInv' /\ LoadInv' /\ AnswerInv' /\ CacheInv'
  BY <1>0, FilesKept
<1> QED BY <1>3, <1>4, <1>5, <1>6 DEF IInv

(* The greatest of one number. *)
LEMMA MaximumOfOne == ASSUME NEW n \in Nat PROVE Maximum({n}) = n
BY MaximumFacts

(* When only the general version is left to write, the files are what the  *)
(* plan comes to.                                                          *)
LEMMA OutcomeAtLast ==
  ASSUME NEW c \in Files, NEW p \in Seq(Writes), Len(p) = 1, p[1].file = "general"
  PROVE  Outcome(c, p) = [servers |-> c.servers, version |-> SchemaVersion(c)]
<1> DEFINE after(file) == {p[i].val : i \in {j \in DOMAIN p : p[j].file = file}}
<1>1. DOMAIN p = {1}
  <2>1. 1..1 = {1}
    OBVIOUS
  <2> QED BY <2>1
<1>2. after("servers") = {} /\ after("hist") = {}
  BY <1>1
<1>3. Outcome(c, p) = [servers |-> Maximum({c.servers} \cup after("servers")),
                       version |-> Maximum({SchemaVersion(c)} \cup after("hist"))]
  BY DEF Outcome
<1>4. c.servers \in Nat /\ SchemaVersion(c) \in Nat
  BY SchemaVersionFacts DEF Files
<1>5. {c.servers} \cup after("servers") = {c.servers}
  BY <1>2
<1>6. {SchemaVersion(c)} \cup after("hist") = {SchemaVersion(c)}
  BY <1>2
<1> HIDE DEF after
<1>7. Maximum({c.servers}) = c.servers /\ Maximum({SchemaVersion(c)}) = SchemaVersion(c)
  BY <1>4, MaximumOfOne
<1> QED BY <1>3, <1>5, <1>6, <1>7

(* The rest of a plan is a plan for the files as they are then. *)
LEMMA RestOfPlan ==
  ASSUME NEW c \in Files, NEW p \in Seq(Writes), p # <<>>, PlanFor(p, c), Len(p) # 1
  PROVE  /\ p[1].file # "general"
         /\ Tail(p) \in Seq(Writes) /\ Tail(p) # <<>>
         /\ PlanFor(Tail(p), Written(c, p[1]))
<1>1. Len(p) \in Nat /\ Len(p) > 1 /\ DOMAIN p = 1..Len(p) /\ p[1] \in Writes
  <2>1. Len(p) \in Nat /\ Len(p) # 0 /\ DOMAIN p = 1..Len(p)
    OBVIOUS
  <2>2. Len(p) > 1 /\ 1 \in DOMAIN p
    BY <2>1
  <2> QED BY <2>1, <2>2
<1>2. PICK q : q = Tail(p)
  OBVIOUS
<1>3. /\ q \in Seq(Writes)
      /\ Len(q) = Len(p) - 1
      /\ DOMAIN q = 1..(Len(p) - 1)
      /\ \A i \in 1..(Len(p) - 1) : q[i] = p[i + 1]
  BY <1>1, <1>2
<1>4. p[1].file # "general"
  BY <1>1 DEF PlanFor
<1>5. /\ Written(c, p[1]).general = c.general
      /\ p[1].file # "servers" => Written(c, p[1]).servers = c.servers
      /\ p[1].file = "current" => Written(c, p[1]).current \in Versions
  BY <1>1, <1>4, WrittenFacts DEF Writes
<1>6. q[Len(q)] = p[Len(p)]
  BY <1>1, <1>3
<1>7. ASSUME NEW i \in DOMAIN q
      PROVE  /\ q[i].file = "general" => i = Len(q)
             /\ q[i].file # "servers"
             /\ q[i].file = "hist" =>
                   IF i = 1 THEN Written(c, p[1]).current # None ELSE q[i - 1].file = "current"
  <2>1. i \in Nat /\ i >= 1 /\ i + 1 \in DOMAIN p /\ q[i] = p[i + 1]
    BY <1>1, <1>3
  <2>2. q[i].file = "general" => i = Len(q)
    BY <1>1, <1>3, <2>1 DEF PlanFor
  <2>3. q[i].file # "servers"
    BY <2>1 DEF PlanFor
  <2>4. q[i].file = "hist" => p[i].file = "current"
    BY <2>1 DEF PlanFor
  <2>5. i # 1 => q[i - 1] = p[i]
    BY <1>1, <1>3, <2>1
  <2>6. i = 1 /\ q[i].file = "hist" => Written(c, p[1]).current # None
    BY <1>5, <2>4, EstablishmentAssumption DEF Versions
  <2> QED BY <2>2, <2>3, <2>4, <2>5, <2>6
<1>8. PlanFor(q, Written(c, p[1]))
  BY <1>5, <1>6, <1>7 DEF PlanFor
<1>9. q # <<>>
  BY <1>1, <1>3
<1> QED BY <1>2, <1>3, <1>4, <1>8, <1>9

(* What was read from the files stays so when files and general versions   *)
(* are added.                                                              *)
LEMMA GrowingKeeps ==
  ASSUME NEW c,
         DOMAIN promised \subseteq DOMAIN promised',
         \A g \in DOMAIN promised : promised'[g] = promised[g],
         est.hist \subseteq est'.hist,
         est.current # None => est'.current # None
  PROVE  /\ UpToGeneral(c) => UpToGeneral(c)'
         /\ ReadFromEst(c) => ReadFromEst(c)'
BY DEF UpToGeneral, ReadFromEst, SchemaVersion

(* What committing one file does to the directory and to the promises. *)
LEMMA CommitFacts ==
  ASSUME IInv, NEW a \in Admins, CommitStep(a)
  PROVE  /\ est' \in Files
         /\ promised' \in Seq(Promise)
         /\ DOMAIN promised \subseteq DOMAIN promised'
         /\ \A g \in DOMAIN promised : promised'[g] = promised[g]
         /\ est.hist \subseteq est'.hist
         /\ est.current # None => est'.current # None
         /\ PromiseInv'
         /\ Len(admin[a].plan) # 1 => PlanFor(Tail(admin[a].plan), est')
<1>0. PICK c, p : c = est /\ p = admin[a].plan
  OBVIOUS
<1>1. /\ c \in Files
      /\ p \in Seq(Writes) /\ p # <<>>
      /\ PlanFor(p, c)
      /\ p[1] \in Writes
      /\ 1 \in DOMAIN p
      /\ Head(p) = p[1]
  BY <1>0 DEF CommitStep, IInv, TypeOK, PlanInv
<1>2. est' = Written(c, p[1])
  BY <1>0, <1>1 DEF CommitStep
<1>3. /\ est' \in Files
      /\ est'.general = IF p[1].file = "general" THEN p[1].val ELSE c.general
      /\ est'.servers = IF p[1].file = "servers" THEN p[1].val ELSE c.servers
      /\ est'.current = IF p[1].file = "current" THEN p[1].val ELSE c.current
      /\ est'.hist = IF p[1].file = "hist" THEN c.hist \cup {p[1].val} ELSE c.hist
  BY <1>1, <1>2, WrittenFacts
<1>4. c.hist \subseteq est'.hist
  BY <1>3
<1>5. c.current # None => est'.current # None
  <2>1. p[1].file = "current" => p[1].val \in Versions
    BY <1>1 DEF Writes
  <2> QED BY <1>3, <2>1, EstablishmentAssumption DEF Versions
<1>6. c.servers <= est'.servers
  <2>1. p[1].file = "servers" => p[1].val = c.servers + 1
    BY <1>1 DEF PlanFor
  <2> QED BY <1>1, <1>3, <2>1 DEF Files
<1>7. SchemaVersion(c) <= SchemaVersion(est')
  <2>1. PICK d : d = est'
    OBVIOUS
  <2>2. SchemaVersion(c) <= SchemaVersion(d)
    BY <1>1, <1>3, <1>4, <2>1, SchemaVersionGrows
  <2> QED BY <2>1, <2>2
<1>8. /\ SchemaVersion(c) \in Versions /\ SchemaVersion(c) \in Nat
      /\ SchemaVersion(est') \in Nat
  <2>1. PICK d : d = est'
    OBVIOUS
  <2>2. SchemaVersion(d) \in Nat
    BY <1>3, <2>1, SchemaVersionFacts
  <2> QED BY <1>1, <2>1, <2>2, SchemaVersionFacts
<1>9. est'.hist # {} => est'.current # None
  <2>1. p[1].file = "hist" => c.current # None
    BY <1>1 DEF PlanFor
  <2>2. c.hist # {} => c.current # None
    BY <1>0 DEF IInv, PromiseInv
  <2> QED BY <1>3, <1>5, <2>1, <2>2
<1>10. /\ promised \in Seq(Promise)
       /\ Len(promised) = c.general /\ c.general >= 1 /\ c.general \in Nat
       /\ c.servers \in 0 .. MaxServers /\ c.servers \in Nat /\ est'.servers \in Nat
       /\ \A g \in DOMAIN promised :
             promised[g].servers <= c.servers /\ promised[g].version <= SchemaVersion(c)
  BY <1>0, <1>1, <1>3 DEF IInv, TypeOK, PromiseInv, Files
<1>11. SchemaVersion(est)' = SchemaVersion(est')
  BY DEF SchemaVersion
<1>12. CASE p[1].file = "general"
  <2>1. Len(p) = 1 /\ p[1] = Write("general", c.general + 1)
    BY <1>1, <1>12 DEF PlanFor
  <2>2. Outcome(c, p) = [servers |-> c.servers, version |-> SchemaVersion(c)]
    BY <1>1, <1>12, <2>1, OutcomeAtLast
  <2>3. promised' = Append(promised, Outcome(c, p))
    BY <1>0, <1>1, <1>12 DEF CommitStep
  <2>4. PICK o : o = Outcome(c, p)
    OBVIOUS
  <2>5. o \in Promise
    BY <1>8, <1>10, <2>2, <2>4 DEF Promise
  <2>6. /\ promised' \in Seq(Promise)
        /\ Len(promised') = Len(promised) + 1
        /\ DOMAIN promised' = 1..(Len(promised) + 1)
        /\ \A g \in 1..Len(promised) : promised'[g] = promised[g]
        /\ promised'[Len(promised) + 1] = o
    BY <1>10, <2>3, <2>4, <2>5
  <2>7. DOMAIN promised = 1..Len(promised) /\ Len(promised) \in Nat
    BY <1>10
  <2>8. est'.general = c.general + 1
    BY <1>3, <1>12, <2>1 DEF Write
  <2>9. ASSUME NEW g \in DOMAIN promised'
        PROVE  promised'[g].servers <= est'.servers /\ promised'[g].version <= SchemaVersion(est')
    <3>1. CASE g \in DOMAIN promised
      <4>1. promised'[g] = promised[g] /\ promised[g] \in Promise
        BY <1>10, <2>6, <2>7, <3>1
      <4>2. promised[g].servers \in Nat /\ promised[g].version \in Nat
        BY <4>1 DEF Versions, Promise
      <4>3. promised[g].servers <= c.servers /\ promised[g].version <= SchemaVersion(c)
        BY <1>10, <3>1
      <4> QED BY <1>6, <1>7, <1>8, <1>10, <4>1, <4>2, <4>3
    <3>2. CASE g \notin DOMAIN promised
      <4>1. promised'[g] = o
        BY <2>6, <2>7, <3>2
      <4> QED BY <1>6, <1>7, <2>2, <2>4, <4>1
    <3> QED BY <3>1, <3>2
  <2>10. PromiseInv'
    <3>1. Len(promised') = est'.general /\ est'.general >= 1
      BY <1>10, <2>6, <2>8
    <3> QED BY <1>9, <1>11, <2>9, <3>1 DEF PromiseInv
  <2> QED BY <1>0, <1>3, <1>4, <1>5, <2>1, <2>6, <2>7, <2>10
<1>13. CASE p[1].file # "general"
  <2>1. promised' = promised
    BY <1>0, <1>1, <1>13 DEF CommitStep
  <2>2. Len(p) # 1 => PlanFor(Tail(p), est')
    BY <1>1, <1>2, RestOfPlan
  <2>3. ASSUME NEW g \in DOMAIN promised
        PROVE  promised[g].servers <= est'.servers /\ promised[g].version <= SchemaVersion(est')
    <3>1. promised[g] \in Promise
      BY <1>10
    <3>2. promised[g].servers \in Nat /\ promised[g].version \in Nat
      BY <3>1 DEF Versions, Promise
    <3>3. promised[g].servers <= c.servers /\ promised[g].version <= SchemaVersion(c)
      BY <1>10
    <3> QED BY <1>6, <1>7, <1>8, <1>10, <3>2, <3>3
  <2>4. PromiseInv'
    <3>1. est'.general = c.general
      BY <1>3, <1>13
    <3> QED BY <1>9, <1>10, <1>11, <2>1, <2>3, <3>1 DEF PromiseInv
  <2> QED BY <1>0, <1>3, <1>4, <1>5, <1>10, <2>1, <2>2, <2>4
<1> QED BY <1>12, <1>13

(* What is left of a list after its first entry. *)
LEMMA TailFacts ==
  ASSUME NEW S, NEW s \in Seq(S), s # <<>>
  PROVE  /\ Tail(s) \in Seq(S)
         /\ Tail(s) # <<>> <=> Len(s) # 1
         /\ Head(s) = s[1] /\ s[1] \in S /\ 1 \in DOMAIN s
         /\ DOMAIN Tail(s) = 1..(Len(s) - 1)
         /\ \A i \in DOMAIN Tail(s) : Tail(s)[i] = s[i + 1] /\ i + 1 \in DOMAIN s
         /\ \A i \in DOMAIN s : i = 1 \/ i - 1 \in DOMAIN Tail(s)
<1>1. Len(s) \in Nat /\ Len(s) >= 1 /\ DOMAIN s = 1..Len(s)
  OBVIOUS
<1>2. PICK t : t = Tail(s)
  OBVIOUS
<1>3. /\ t \in Seq(S)
      /\ Len(t) = Len(s) - 1
      /\ DOMAIN t = 1..(Len(s) - 1)
      /\ \A i \in 1..(Len(s) - 1) : t[i] = s[i + 1]
  BY <1>1, <1>2
<1>4. t # <<>> <=> Len(t) # 0
  BY <1>3
<1>5. t # <<>> <=> Len(s) # 1
  BY <1>1, <1>3, <1>4
<1>6. 1 \in DOMAIN s /\ s[1] \in S /\ Head(s) = s[1]
  BY <1>1
<1>7. /\ \A i \in DOMAIN t : i + 1 \in DOMAIN s
      /\ \A i \in DOMAIN s : i = 1 \/ i - 1 \in DOMAIN t
  BY <1>1, <1>3
<1> QED BY <1>2, <1>3, <1>5, <1>6, <1>7

(* One file of a plan is committed. *)
LEMMA StepCommit == ASSUME IInv, NEW a \in Admins, CommitStep(a) PROVE IInv'
<1>0. /\ UNCHANGED <<lock, cfg, loader, disk, worker, torn, early, doc, mishaps>>
      /\ admin[a].pc = "commit" /\ admin[a].plan # <<>> /\ lock = a
      /\ admin[a].plan \in Seq(Writes)
  BY DEF CommitStep, IInv, TypeOK, LockInv
<1>1. /\ est' \in Files
      /\ promised' \in Seq(Promise)
      /\ DOMAIN promised \subseteq DOMAIN promised'
      /\ \A g \in DOMAIN promised : promised'[g] = promised[g]
      /\ est.hist \subseteq est'.hist
      /\ est.current # None => est'.current # None
      /\ PromiseInv'
      /\ Len(admin[a].plan) # 1 => PlanFor(Tail(admin[a].plan), est')
  BY CommitFacts
<1>2. PICK p : p = admin[a].plan
  OBVIOUS
<1>3. /\ p \in Seq(Writes) /\ p # <<>>
      /\ Tail(p) \in Seq(Writes)
      /\ Tail(p) # <<>> <=> Len(p) # 1
  BY <1>0, <1>2, TailFacts
<1>4. /\ admin'[a] = [pc |-> IF Len(p) = 1 THEN "release" ELSE "commit", plan |-> Tail(p)]
      /\ \A b \in Admins : b # a => admin'[b] = admin[b]
      /\ admin' \in [Admins -> [pc : {"idle", "locked", "commit", "release"}, plan : Seq(Writes)]]
  BY <1>2, <1>3 DEF CommitStep, IInv, TypeOK
<1>5. TypeOK'
  <2>1. ASSUME NEW b \in Admins PROVE (admin'[b].plan # <<>>) <=> (admin'[b].pc = "commit")
    <3>1. CASE b = a
      <4>1. admin'[b].plan = Tail(p) /\ (admin'[b].pc = "commit" <=> Len(p) # 1)
        BY <1>4, <3>1
      <4> QED BY <1>3, <4>1
    <3>2. CASE b # a
      BY <1>4, <3>2 DEF IInv, TypeOK
    <3> QED BY <3>1, <3>2
  <2> QED BY <1>0, <1>1, <1>4, <2>1 DEF IInv, TypeOK
<1>6. LockInv'
  BY <1>0, <1>4 DEF IInv, LockInv
<1>7. PlanInv'
  <2> SUFFICES ASSUME NEW b \in Admins, admin'[b].pc = "commit"
               PROVE  PlanFor(admin'[b].plan, est')
    BY DEF PlanInv, PlanFor
  <2>1. b = a
    BY <1>0, <1>4 DEF IInv, LockInv
  <2>2. Len(p) # 1 /\ admin'[b].plan = Tail(p)
    BY <1>4, <2>1
  <2> QED BY <1>1, <1>2, <2>2
<1>8. LoadInv'
  <2>1. ASSUME NEW r \in Readers, loader[r].at = "files" PROVE ReadFromEst(loader[r].got)'
    <3>1. PICK c : c = loader[r].got
      OBVIOUS
    <3>2. ReadFromEst(c)
      BY <2>1, <3>1 DEF IInv, LoadInv
    <3>3. ReadFromEst(c)'
      BY <1>1, <3>2, GrowingKeeps
    <3> QED BY <1>0, <3>1, <3>3 DEF ReadFromEst, UpToGeneral, SchemaVersion
  <2> QED BY <1>0, <1>1, <2>1 DEF IInv, LoadInv, CachedNoNewer
<1>9. AnswerInv'
  <2> SUFFICES ASSUME worker.pc = "write" PROVE AnswerInv'
    BY <1>0 DEF AnswerInv
  <2>1. PICK c : c = worker.new
    OBVIOUS
  <2>2. ReadFromEst(c)
    BY <2>1 DEF IInv, AnswerInv
  <2>3. ReadFromEst(c)'
    BY <1>1, <2>2, GrowingKeeps
  <2>4. ReadFromEst(worker.new)'
    BY <1>0, <2>1, <2>3 DEF ReadFromEst, UpToGeneral, SchemaVersion
  <2> QED BY <1>0, <2>4 DEF IInv, AnswerInv, CachedNoNewer, Left
<1>10. CacheInv'
  <2>1. ASSUME NEW c, UpToGeneral(c) PROVE UpToGeneral(c)'
    BY <1>1, <2>1, GrowingKeeps
  <2>2. PICK d, e, m : d = disk /\ e = cfg["est"] /\ m = cfg["member"]
    OBVIOUS
  <2>3. UpToGeneral(disk) => UpToGeneral(disk)'
    BY <1>0, <2>1, <2>2 DEF UpToGeneral, SchemaVersion
  <2>4. UpToGeneral(cfg["est"]) => UpToGeneral(cfg["est"])'
    BY <1>0, <2>1, <2>2 DEF UpToGeneral, SchemaVersion
  <2>5. UpToGeneral(cfg["member"]) => UpToGeneral(cfg["member"])'
    BY <1>0, <2>1, <2>2 DEF UpToGeneral, SchemaVersion
  <2>6. CachedNoNewer(est)'
    BY <1>0, <1>1 DEF IInv, CacheInv, CachedNoNewer
  <2> QED BY <1>0, <2>3, <2>4, <2>5, <2>6 DEF IInv, CacheInv
<1> QED BY <1>1, <1>5, <1>6, <1>7, <1>8, <1>9, <1>10 DEF IInv

-----------------------------------------------------------------------------
(* Loading *)

(* A step that is not an administrator's leaves plans, locks and files.    *)
LEMMA AdminsKept ==
  ASSUME IInv, UNCHANGED <<est, lock, admin, promised>>
  PROVE  LockInv' /\ PlanInv' /\ PromiseInv'
BY DEF IInv, LockInv, PlanInv, PlanFor, PromiseInv, SchemaVersion

(* The files as they are have all that their general version counts. *)
LEMMA EstIsUpToGeneral == ASSUME IInv PROVE UpToGeneral(est)
<1>1. est.general \in Nat /\ DOMAIN promised = 1 .. Len(promised)
  BY DEF IInv, TypeOK, Files
<1>2. Len(promised) = est.general /\ est.general >= 1
  BY DEF IInv, PromiseInv
<1>3. est.general \in DOMAIN promised
  BY <1>1, <1>2
<1> QED BY <1>3 DEF IInv, PromiseInv, UpToGeneral

(* The establishment server starts with its own files. *)
LEMMA StepStartEstablishment == ASSUME IInv, StartEstablishment PROVE IInv'
<1>0. /\ UNCHANGED <<est, lock, admin, promised, loader, disk, worker, torn, early, doc, mishaps>>
      /\ cfg' = [cfg EXCEPT !["est"] = est]
      /\ Valid(est)
  BY DEF StartEstablishment
<1>1. /\ cfg' \in [Servers -> Files \cup {None}]
      /\ cfg'["est"] = est
      /\ cfg'["member"] = cfg["member"]
  BY <1>0 DEF IInv, TypeOK, Servers
<1>2. TypeOK'
  <2>1. \A s \in Servers : cfg'[s] # None => Valid(cfg'[s])
    BY <1>0, <1>1 DEF IInv, TypeOK, Servers
  <2> QED BY <1>0, <1>1, <2>1 DEF IInv, TypeOK
<1>3. LockInv' /\ PlanInv' /\ PromiseInv'
  BY <1>0, AdminsKept
<1>4. LoadInv'
  BY <1>0 DEF IInv, LoadInv, ReadFromEst, UpToGeneral, CachedNoNewer, SchemaVersion
<1>5. AnswerInv'
  BY <1>0 DEF IInv, AnswerInv, ReadFromEst, UpToGeneral, CachedNoNewer, SchemaVersion, Left
<1>6. CacheInv'
  <2>1. UpToGeneral(cfg["est"])'
    BY <1>0, <1>1, EstIsUpToGeneral DEF UpToGeneral, SchemaVersion
  <2>2. UpToGeneral(cfg["member"])' <=> UpToGeneral(cfg["member"])
    BY <1>0, <1>1 DEF UpToGeneral, SchemaVersion
  <2>3. UpToGeneral(disk)' <=> UpToGeneral(disk)
    BY <1>0 DEF UpToGeneral, SchemaVersion
  <2> QED BY <1>0, <1>1, <2>1, <2>2, <2>3 DEF IInv, CacheInv, CachedNoNewer
<1> QED BY <1>2, <1>3, <1>4, <1>5, <1>6 DEF IInv

(* The names and numbers are read after the general version. *)
LEMMA StepLoadDir == ASSUME IInv, NEW r \in Readers, LoadDir(r) PROVE IInv'
<1>0. /\ UNCHANGED <<est, lock, admin, promised, cfg, disk, worker, torn, early, doc, mishaps>>
      /\ loader[r].at = "dir"
  BY DEF LoadDir
<1>1. PICK g, c : g = loader[r].got.general /\ c = [est EXCEPT !.general = g]
  OBVIOUS
<1>2. /\ g \in DOMAIN promised
      /\ g \in 0 .. MaxGeneral
  BY <1>0, <1>1 DEF IInv, TypeOK, LoadInv, Files
<1>3. /\ c \in Files
      /\ c.general = g /\ c.servers = est.servers
      /\ c.current = est.current /\ c.hist = est.hist
  BY <1>1, <1>2 DEF IInv, TypeOK, Files
<1>4. /\ loader'[r] = [at |-> "files", got |-> c]
      /\ \A q \in Readers : q # r => loader'[q] = loader[q]
      /\ loader' \in [Readers -> [at : {"none", "dir", "files"}, got : Files]]
  BY <1>1, <1>3 DEF LoadDir, IInv, TypeOK
<1>5. ReadFromEst(c) /\ CachedNoNewer(c)
  <2>1. SchemaVersion(c) = SchemaVersion(est)
    BY <1>3 DEF SchemaVersion
  <2> QED BY <1>2, <1>3, <2>1
          DEF IInv, PromiseInv, CacheInv, ReadFromEst, UpToGeneral, CachedNoNewer
<1>6. TypeOK'
  BY <1>0, <1>4 DEF IInv, TypeOK
<1>7. LockInv' /\ PlanInv' /\ PromiseInv'
  BY <1>0, AdminsKept
<1>8. LoadInv'
  <2>1. ASSUME NEW q \in Readers
        PROVE  /\ loader'[q].at = "dir" => loader'[q].got.general \in DOMAIN promised'
               /\ loader'[q].at = "files" => ReadFromEst(loader[q].got)'
               /\ q = "establish" /\ loader'[q].at = "files" => CachedNoNewer(loader[q].got)'
               /\ q = "establish" /\ loader'[q].at # "none" => worker.pc # "write"
    <3>1. CASE q = r
      <4>1. loader'[q].at = "files" /\ loader'[q].got = c
        BY <1>4, <3>1
      <4>2. ReadFromEst(c)' /\ CachedNoNewer(c)'
        BY <1>0, <1>5 DEF ReadFromEst, UpToGeneral, CachedNoNewer, SchemaVersion
      <4>3. ReadFromEst(loader[q].got)' /\ CachedNoNewer(loader[q].got)'
        BY <4>1, <4>2 DEF ReadFromEst, UpToGeneral, CachedNoNewer, SchemaVersion
      <4> QED BY <1>0, <3>1, <4>1, <4>3 DEF IInv, LoadInv
    <3>2. CASE q # r
      BY <1>0, <1>4, <3>2
         DEF IInv, LoadInv, ReadFromEst, UpToGeneral, CachedNoNewer, SchemaVersion
    <3> QED BY <3>1, <3>2
  <2>2. "establish" \in Readers
    BY DEF Readers
  <2> QED BY <1>0, <2>1, <2>2 DEF LoadInv
<1>9. AnswerInv'
  BY <1>0 DEF IInv, AnswerInv, ReadFromEst, UpToGeneral, CachedNoNewer, SchemaVersion, Left
<1>10. CacheInv'
  BY <1>0 DEF IInv, CacheInv, UpToGeneral, CachedNoNewer, SchemaVersion
<1> QED BY <1>6, <1>7, <1>8, <1>9, <1>10 DEF IInv

(* A load that succeeds has read a valid configuration of the files. *)
LEMMA LoadedFacts ==
  ASSUME IInv, NEW r \in Readers, loader[r].at = "files", LoadSucceeds(r)
  PROVE  /\ Loaded(r) \in Files
         /\ Valid(Loaded(r))
         /\ ReadFromEst(Loaded(r))
         /\ CachedNoNewer(loader[r].got) => CachedNoNewer(Loaded(r))
<1>1. PICK c, d : c = loader[r].got /\ d = Loaded(r)
  OBVIOUS
<1>2. c \in Files /\ est \in Files /\ ReadFromEst(c)
  BY <1>1 DEF IInv, TypeOK, LoadInv
<1>3. d = [c EXCEPT !.current = IF @ = None THEN None ELSE est.current] /\ Valid(d)
  BY <1>1 DEF LoadSucceeds, Loaded
<1>4. /\ d \in Files
      /\ d.general = c.general /\ d.servers = c.servers /\ d.hist = c.hist
      /\ d.current = IF c.current = None THEN None ELSE est.current
  BY <1>2, <1>3 DEF Files
<1>5. d.current # None <=> c.current # None
  BY <1>2, <1>4 DEF ReadFromEst
<1>6. SchemaVersion(d) = SchemaVersion(c)
  BY <1>4 DEF SchemaVersion
<1>7. ReadFromEst(d) /\ (CachedNoNewer(c) => CachedNoNewer(d))
  BY <1>2, <1>4, <1>5, <1>6 DEF ReadFromEst, UpToGeneral, CachedNoNewer
<1> QED BY <1>1, <1>3, <1>4, <1>7

(* What changes when the establishment server's engine takes a loaded      *)
(* configuration, or none, and a load ends.                                *)
LEMMA EngineTakes ==
  ASSUME IInv, NEW r \in Readers, loader[r].at = "files",
         UNCHANGED <<est, lock, admin, promised, disk, torn, early, doc, mishaps>>,
         loader' = [loader EXCEPT ![r] = NotLoading],
         \/ UNCHANGED cfg
         \/ LoadSucceeds(r) /\ cfg' = [cfg EXCEPT !["est"] = Loaded(r)]
  PROVE  /\ LockInv' /\ PlanInv' /\ PromiseInv'
         /\ cfg' \in [Servers -> Files \cup {None}]
         /\ \A s \in Servers : cfg'[s] # None => Valid(cfg'[s])
         /\ loader' \in [Readers -> [at : {"none", "dir", "files"}, got : Files]]
         /\ worker' = worker => TypeOK' /\ LoadInv' /\ AnswerInv' /\ CacheInv'
         /\ cfg'["member"] = cfg["member"]
         /\ cfg'["est"] # None => UpToGeneral(cfg["est"])'
<1>1. LockInv' /\ PlanInv' /\ PromiseInv'
  BY AdminsKept
<1>2. /\ loader' \in [Readers -> [at : {"none", "dir", "files"}, got : Files]]
      /\ \A q \in Readers : loader'[q] = loader[q] \/ loader'[q] = NotLoading
  BY NoFilesType DEF IInv, TypeOK
<1>3. PICK e : e = cfg'["est"]
  OBVIOUS
<1>4. /\ cfg' \in [Servers -> Files \cup {None}]
      /\ cfg'["member"] = cfg["member"]
      /\ cfg'["est"] # None => Valid(cfg'["est"]) /\ UpToGeneral(e)
  <2>1. CASE UNCHANGED cfg
    BY <1>3, <2>1 DEF IInv, TypeOK, CacheInv, Servers
  <2>2. CASE LoadSucceeds(r) /\ cfg' = [cfg EXCEPT !["est"] = Loaded(r)]
    <3>1. Loaded(r) \in Files /\ Valid(Loaded(r)) /\ UpToGeneral(Loaded(r))
      BY <2>2, LoadedFacts DEF ReadFromEst
    <3>2. cfg'["est"] = Loaded(r)
      BY <2>2 DEF IInv, TypeOK, Servers
    <3> QED BY <1>3, <2>2, <3>1, <3>2 DEF IInv, TypeOK, Servers
  <2> QED BY <2>1, <2>2
<1>5. \A s \in Servers : cfg'[s] # None => Valid(cfg'[s])
  BY <1>4 DEF IInv, TypeOK, Servers
<1>6. cfg'["est"] # None => UpToGeneral(cfg["est"])'
  BY <1>3, <1>4 DEF UpToGeneral, SchemaVersion
<1>7. ASSUME worker' = worker PROVE TypeOK' /\ LoadInv' /\ AnswerInv' /\ CacheInv'
  <2>1. TypeOK'
    BY <1>2, <1>4, <1>5, <1>7 DEF IInv, TypeOK
  <2>2. LoadInv'
    <3>1. "establish" \in Readers
      BY DEF Readers
    <3> QED
      BY <1>2, <1>7, <3>1
         DEF IInv, LoadInv, NotLoading, ReadFromEst, UpToGeneral, CachedNoNewer, SchemaVersion
  <2>3. AnswerInv'
    BY <1>7
       DEF IInv, AnswerInv, ReadFromEst, UpToGeneral, CachedNoNewer, SchemaVersion, Left
  <2>4. CacheInv'
    <3>1. UpToGeneral(cfg["member"])' <=> UpToGeneral(cfg["member"])
      BY <1>4 DEF UpToGeneral, SchemaVersion
    <3>2. UpToGeneral(disk)' <=> UpToGeneral(disk)
      BY DEF UpToGeneral, SchemaVersion
    <3> QED BY <1>4, <1>6, <1>7, <3>1, <3>2 DEF IInv, CacheInv, CachedNoNewer
  <2> QED BY <2>1, <2>2, <2>3, <2>4
<1> QED BY <1>1, <1>2, <1>4, <1>5, <1>6, <1>7

(* Engine.Reload at the end of a command. *)
LEMMA StepReloadEngine == ASSUME IInv, ReloadEngine PROVE IInv'
<1>1. /\ "reload" \in Readers /\ loader["reload"].at = "files"
      /\ UNCHANGED <<est, lock, admin, promised, disk, worker, torn, early, doc, mishaps>>
      /\ loader' = [loader EXCEPT !["reload"] = NotLoading]
      /\ \/ UNCHANGED cfg
         \/ LoadSucceeds("reload") /\ cfg' = [cfg EXCEPT !["est"] = Loaded("reload")]
  BY DEF ReloadEngine, Readers
<1>2. LockInv' /\ PlanInv' /\ PromiseInv' /\ TypeOK' /\ LoadInv' /\ AnswerInv' /\ CacheInv'
  BY <1>1, EngineTakes
<1> QED BY <1>2 DEF IInv

-----------------------------------------------------------------------------
(* The member *)

(* A worker that is down is a worker. *)
LEMMA DownFacts ==
  /\ Down \in WorkerState
  /\ \A n \in 0 .. MaxFailures - 1, b \in BOOLEAN :
        [Down EXCEPT !.pc = "idle", !.fails = n] \in WorkerState
  /\ [Down EXCEPT !.pc = "idle"] \in WorkerState
  /\ [Down EXCEPT !.pc = "idle", !.boot = TRUE] \in WorkerState
<1>1. 0 \in 0 .. MaxFailures - 1
  BY EstablishmentAssumption
<1>2. <<>> \in Seq(Writes)
  OBVIOUS
<1> QED BY <1>1, <1>2, NoFilesType DEF Down, WorkerState

(* A failed refresh leaves the engine as it is, stops it, or lets it load  *)
(* cached files that are there and valid.                                  *)
LEMMA FailedFacts ==
  ASSUME NEW w \in WorkerState, NEW d \in Files, NEW c \in [Servers -> Files \cup {None}]
  PROVE  /\ Failed(w, d, c)[1] \in WorkerState
         /\ Failed(w, d, c)[1].pc \in {"down", "idle"}
         /\ Failed(w, d, c)[2] \in [Servers -> Files \cup {None}]
         /\ Failed(w, d, c)[2]["est"] = c["est"]
         /\ \/ Failed(w, d, c)[2]["member"] = None
            \/ ~w.boot /\ Failed(w, d, c)[2]["member"] = c["member"]
            \/ w.boot /\ Failed(w, d, c)[2]["member"] = d /\ d.general > 0 /\ Valid(d)
<1> DEFINE idle(n) == [Down EXCEPT !.pc = "idle", !.fails = n]
           up == [c EXCEPT !["member"] = d]
           off == [c EXCEPT !["member"] = None]
<1>1. /\ up \in [Servers -> Files \cup {None}] /\ up["est"] = c["est"] /\ up["member"] = d
      /\ off \in [Servers -> Files \cup {None}] /\ off["est"] = c["est"] /\ off["member"] = None
  BY DEF Servers
<1>2. Down.pc = "down" /\ [Down EXCEPT !.pc = "idle"].pc = "idle" /\ \A n : idle(n).pc = "idle"
  BY DEF Down
<1>3. w.fails + 1 < MaxFailures => w.fails + 1 \in 0 .. MaxFailures - 1
  BY EstablishmentAssumption DEF WorkerState
<1>4. w.fails + 1 >= MaxFailures \/ w.fails + 1 < MaxFailures
  BY EstablishmentAssumption DEF WorkerState
<1>5. \/ Failed(w, d, c) = <<[Down EXCEPT !.pc = "idle"], up>> /\ w.boot /\ d.general > 0 /\ Valid(d)
      \/ Failed(w, d, c) = <<Down, off>>
      \/ Failed(w, d, c) = <<idle(w.fails + 1), c>> /\ ~w.boot /\ w.fails + 1 < MaxFailures
  BY <1>4 DEF Failed
<1> HIDE DEF up, off, idle
<1>6. CASE Failed(w, d, c) = <<[Down EXCEPT !.pc = "idle"], up>> /\ w.boot /\ d.general > 0 /\ Valid(d)
  <2>1. PICK x : x = [Down EXCEPT !.pc = "idle"]
    OBVIOUS
  <2>2. x \in WorkerState /\ x.pc = "idle"
    BY <1>2, <2>1, DownFacts
  <2>3. Failed(w, d, c)[1] = x /\ Failed(w, d, c)[2] = up
    BY <1>6, <2>1
  <2> QED BY <1>1, <1>6, <2>2, <2>3
<1>7. CASE Failed(w, d, c) = <<Down, off>>
  <2>1. Failed(w, d, c)[1] = Down /\ Failed(w, d, c)[2] = off
    BY <1>7
  <2> QED BY <1>1, <1>2, <2>1, DownFacts
<1>8. CASE Failed(w, d, c) = <<idle(w.fails + 1), c>> /\ ~w.boot /\ w.fails + 1 < MaxFailures
  <2>1. idle(w.fails + 1) \in WorkerState
    BY <1>3, <1>8, DownFacts DEF idle
  <2> QED BY <1>2, <1>8, <2>1
<1> QED BY <1>5, <1>6, <1>7, <1>8

(* A refresh fails somewhere before its end. *)
LEMMA RefreshFailing ==
  ASSUME IInv, UNCHANGED <<est, lock, admin, promised, disk, doc>>,
         FailRefresh, torn' = HalfWritten,
         loader' = loader \/ loader' = [loader EXCEPT !["establish"] = NotLoading],
         mishaps' \in 0 .. MaxMishaps
  PROVE  IInv'
<1>1. PICK w, d, c : w = worker /\ d = disk /\ c = cfg
  OBVIOUS
<1>2. w \in WorkerState /\ d \in Files /\ c \in [Servers -> Files \cup {None}]
  BY <1>1 DEF IInv, TypeOK
<1>3. /\ worker' \in WorkerState /\ worker'.pc \in {"down", "idle"}
      /\ cfg' \in [Servers -> Files \cup {None}]
      /\ cfg'["est"] = c["est"]
      /\ \/ cfg'["member"] = None
         \/ ~w.boot /\ cfg'["member"] = c["member"]
         \/ w.boot /\ cfg'["member"] = d /\ d.general > 0 /\ Valid(d)
  BY <1>1, <1>2, FailedFacts DEF FailRefresh
<1>b. /\ torn' \in BOOLEAN /\ early' \in BOOLEAN
      /\ early' = IF w.boot THEN torn' ELSE early
  BY <1>1 DEF FailRefresh, HalfWritten, IInv, TypeOK
<1>4. /\ loader' \in [Readers -> [at : {"none", "dir", "files"}, got : Files]]
      /\ \A q \in Readers : loader'[q] = loader[q] \/ loader'[q] = NotLoading
  <2>1. CASE loader' = loader
    BY <2>1 DEF IInv, TypeOK
  <2>2. CASE loader' = [loader EXCEPT !["establish"] = NotLoading]
    BY <2>2, NoFilesType DEF IInv, TypeOK
  <2> QED BY <2>1, <2>2
<1>5. TypeOK'
  <2>1. \A s \in Servers : cfg'[s] # None => Valid(cfg'[s])
    BY <1>1, <1>3 DEF IInv, TypeOK, Servers
  <2> QED BY <1>3, <1>4, <1>b, <2>1 DEF IInv, TypeOK
<1>6. LockInv' /\ PlanInv' /\ PromiseInv'
  BY AdminsKept
<1>7. LoadInv'
  <2>1. "establish" \in Readers
    BY DEF Readers
  <2>2. worker'.pc # "write" /\ NotLoading.at = "none"
    BY <1>3 DEF NotLoading
  <2>3. ASSUME NEW q \in Readers, loader'[q] = loader[q]
        PROVE  /\ ReadFromEst(loader[q].got) => ReadFromEst(loader[q].got)'
               /\ CachedNoNewer(loader[q].got) => CachedNoNewer(loader[q].got)'
    BY <2>3 DEF ReadFromEst, UpToGeneral, CachedNoNewer, SchemaVersion
  <2> QED BY <1>4, <2>1, <2>2, <2>3 DEF IInv, LoadInv
<1>8. AnswerInv'
  BY <1>3 DEF AnswerInv
<1>9. CacheInv'
  <2>1. cfg'["est"] # None => UpToGeneral(cfg["est"])'
    BY <1>1, <1>3 DEF IInv, CacheInv, UpToGeneral, SchemaVersion
  <2>2. ~torn' /\ disk.general > 0 => UpToGeneral(disk) /\ UpToGeneral(disk)'
    BY DEF IInv, CacheInv, UpToGeneral, SchemaVersion, HalfWritten
  <2>3. cfg'["member"] # None /\ ~early' => UpToGeneral(cfg["member"])'
    <3> SUFFICES ASSUME cfg'["member"] # None, ~early' PROVE UpToGeneral(cfg["member"])'
      OBVIOUS
    <3>1. PICK m : m = cfg'["member"]
      OBVIOUS
    <3>2. UpToGeneral(m)
      <4>1. CASE ~w.boot /\ m = c["member"]
        BY <1>1, <1>b, <3>1, <4>1 DEF IInv, CacheInv
      <4>2. CASE w.boot /\ m = d /\ d.general > 0
        BY <1>1, <1>b, <2>2, <4>2
      <4> QED BY <1>3, <3>1, <4>1, <4>2
    <3> QED BY <3>1, <3>2 DEF UpToGeneral, SchemaVersion
  <2> QED BY <2>1, <2>2, <2>3 DEF IInv, CacheInv, CachedNoNewer
<1> QED BY <1>5, <1>6, <1>7, <1>8, <1>9 DEF IInv

(* writeConfig writes the files of the answer, and all of them. *)
LEMMA WriteConfigFacts ==
  ASSUME NEW c \in Files, NEW ws, ws = WriteConfig(c)
  PROVE  /\ ws \in Seq(Writes)
         /\ \A i \in DOMAIN ws : ws[i] \in AnswerWrites(c)
         /\ \A w \in AnswerWrites(c) : \E i \in DOMAIN ws : ws[i] = w
<1> DEFINE g == Write("general", c.general)
           s == Write("servers", c.servers)
           u == Write("current", c.current)
           h == Write("hist", SchemaVersion(c))
<1>1. /\ g \in Writes /\ s \in Writes /\ h \in Writes
      /\ c.current # None => u \in Writes
  BY SchemaVersionFacts DEF Write, Writes, Files
<1>2. /\ ws = <<g, s>> \o (IF c.current = None THEN <<>> ELSE <<u, h>>)
      /\ AnswerWrites(c) = {g, s} \cup IF c.current = None THEN {} ELSE {u, h}
  BY DEF WriteConfig, AnswerWrites
<1> HIDE DEF g, s, u, h
<1>3. PICK a, b : a = <<g, s>> /\ b = <<u, h>>
  OBVIOUS
<1>4. a \in Seq(Writes) /\ Len(a) = 2 /\ a[1] = g /\ a[2] = s
  BY <1>1, <1>3
<1>5. CASE c.current = None
  <2>1. ws = a \o <<>> /\ <<>> \in Seq(Writes) /\ Len(<<>>) = 0
    BY <1>2, <1>3, <1>5
  <2>2. ws \in Seq(Writes) /\ Len(ws) = 2 /\ ws[1] = g /\ ws[2] = s
    BY <1>4, <2>1
  <2>3. DOMAIN ws = {1, 2}
    BY <2>2
  <2> QED BY <1>2, <1>5, <2>2, <2>3
<1>6. CASE c.current # None
  <2>1. ws = a \o b
    BY <1>2, <1>3, <1>6
  <2>2. b \in Seq(Writes) /\ Len(b) = 2 /\ b[1] = u /\ b[2] = h
    BY <1>1, <1>3, <1>6
  <2>3. /\ ws \in Seq(Writes) /\ Len(ws) = 4
        /\ ws[1] = g /\ ws[2] = s /\ ws[3] = u /\ ws[4] = h
    <3>1. /\ ws \in Seq(Writes)
          /\ Len(ws) = Len(a) + Len(b)
          /\ \A i \in 1..Len(a) + Len(b) :
                ws[i] = IF i <= Len(a) THEN a[i] ELSE b[i - Len(a)]
      BY <1>4, <2>1, <2>2, ConcatProperties
    <3> QED BY <1>4, <2>2, <3>1
  <2>4. DOMAIN ws = {1, 2, 3, 4}
    <3>1. 1..4 = {1, 2, 3, 4}
      OBVIOUS
    <3> QED BY <2>3, <3>1
  <2> QED BY <1>2, <1>6, <2>3, <2>4
<1> QED BY <1>5, <1>6

(* The establishment server answers, or says configError. *)
LEMMA StepAnswerEstablish == ASSUME IInv, AnswerEstablish PROVE IInv'
<1>0. /\ loader["establish"].at = "files" /\ "establish" \in Readers
      /\ loader' = [loader EXCEPT !["establish"] = NotLoading]
      /\ UNCHANGED <<est, lock, admin, promised, disk, torn, doc, mishaps>>
  BY DEF AnswerEstablish, Readers
<1>1. CASE ~LoadSucceeds("establish") /\ worker.pc = "wait"
  <2>1. FailRefresh /\ torn' = HalfWritten /\ mishaps' \in 0 .. MaxMishaps
    BY <1>0, <1>1 DEF AnswerEstablish, IInv, TypeOK, HalfWritten
  <2> QED BY <1>0, <2>1, RefreshFailing
<1>2. CASE ~(~LoadSucceeds("establish") /\ worker.pc = "wait")
  <2>0. /\ early' = early
        /\ \/ UNCHANGED cfg
           \/ LoadSucceeds("establish") /\ cfg' = [cfg EXCEPT !["est"] = Loaded("establish")]
    BY <1>2 DEF AnswerEstablish
  <2>1. /\ LockInv' /\ PlanInv' /\ PromiseInv'
        /\ cfg' \in [Servers -> Files \cup {None}]
        /\ \A s \in Servers : cfg'[s] # None => Valid(cfg'[s])
        /\ loader' \in [Readers -> [at : {"none", "dir", "files"}, got : Files]]
        /\ worker' = worker => TypeOK' /\ LoadInv' /\ AnswerInv' /\ CacheInv'
        /\ cfg'["member"] = cfg["member"]
        /\ cfg'["est"] # None => UpToGeneral(cfg["est"])'
    BY <1>0, <2>0, EngineTakes
  <2>2. CASE worker' = worker
    BY <2>1, <2>2 DEF IInv
  <2>3. CASE /\ LoadSucceeds("establish")
             /\ worker.pc = "wait"
             /\ worker' = [worker EXCEPT !.pc = "write", !.new = Loaded("establish"),
                                         !.left = WriteConfig(Loaded("establish"))]
    <3>1. PICK c, ws : c = Loaded("establish") /\ ws = WriteConfig(c)
      OBVIOUS
    <3>2. c \in Files /\ Valid(c) /\ ReadFromEst(c) /\ CachedNoNewer(c)
      <4>1. CachedNoNewer(loader["establish"].got)
        BY <1>0 DEF IInv, LoadInv
      <4> QED BY <1>0, <2>3, <3>1, <4>1, LoadedFacts
    <3>3. /\ ws \in Seq(Writes)
          /\ \A i \in DOMAIN ws : ws[i] \in AnswerWrites(c)
          /\ \A w \in AnswerWrites(c) : \E i \in DOMAIN ws : ws[i] = w
      BY <3>1, <3>2, WriteConfigFacts
    <3>4. /\ worker' \in WorkerState
          /\ worker'.pc = "write" /\ worker'.new = c /\ worker'.left = ws
      BY <2>3, <3>1, <3>2, <3>3 DEF IInv, TypeOK, WorkerState
    <3>5. TypeOK'
      BY <1>0, <2>0, <2>1, <3>4 DEF IInv, TypeOK
    <3>6. LoadInv'
      <4>1. /\ \A q \in Readers : q # "establish" => loader'[q] = loader[q]
            /\ loader'["establish"].at = "none"
        BY <1>0 DEF IInv, TypeOK, NotLoading
      <4>2. ASSUME NEW q \in Readers, loader'[q] = loader[q]
            PROVE  ReadFromEst(loader[q].got) => ReadFromEst(loader[q].got)'
        BY <1>0, <4>2 DEF ReadFromEst, UpToGeneral, SchemaVersion
      <4> QED BY <1>0, <4>1, <4>2 DEF IInv, LoadInv
    <3>7. AnswerInv'
      <4>1. ReadFromEst(worker.new)' /\ CachedNoNewer(worker.new)' /\ Valid(worker.new)'
        BY <1>0, <3>2, <3>4
           DEF ReadFromEst, UpToGeneral, CachedNoNewer, SchemaVersion, Valid
      <4>2. \A i \in DOMAIN worker'.left : worker'.left[i] \in AnswerWrites(worker'.new)
        BY <3>3, <3>4
      <4>3. \A w \in AnswerWrites(c) : Left(w)'
        BY <3>3, <3>4 DEF Left
      <4>4. /\ Left(Write("general", c.general))'
            /\ Left(Write("servers", c.servers))'
            /\ c.current # None =>
                 Left(Write("current", c.current))' /\ Left(Write("hist", SchemaVersion(c)))'
        BY <4>3 DEF AnswerWrites
      <4>5. /\ Left(Write("general", worker.new.general))'
            /\ Left(Write("servers", worker.new.servers))'
            /\ worker'.new.current # None =>
                 /\ Left(Write("current", worker.new.current))'
                 /\ Left(Write("hist", SchemaVersion(worker.new)))'
        BY <3>4, <4>4 DEF Left, Write, SchemaVersion
      <4> QED BY <4>1, <4>2, <4>5 DEF AnswerInv, AnswerWrites
    <3>8. CacheInv'
      <4>1. UpToGeneral(cfg["member"])' <=> UpToGeneral(cfg["member"])
        BY <1>0, <2>1 DEF UpToGeneral, SchemaVersion
      <4> QED BY <1>0, <2>0, <2>1, <3>4, <4>1 DEF IInv, CacheInv, CachedNoNewer
    <3> QED BY <2>1, <3>5, <3>6, <3>7, <3>8 DEF IInv
  <2> QED BY <1>2, <2>2, <2>3 DEF AnswerEstablish
<1> QED BY <1>1, <1>2

(* A refresh fails, or its answer never comes. *)
LEMMA StepRefreshFails == ASSUME IInv, RefreshFails \/ AnswerLost PROVE IInv'
<1>1. CASE RefreshFails
  <2>1. mishaps' \in 0 .. MaxMishaps
    BY <1>1, EstablishmentAssumption DEF RefreshFails, IInv, TypeOK
  <2> QED BY <1>1, <2>1, RefreshFailing DEF RefreshFails
<1>2. CASE AnswerLost
  <2>1. mishaps' \in 0 .. MaxMishaps /\ torn' = HalfWritten
    BY <1>2 DEF AnswerLost, IInv, TypeOK, HalfWritten
  <2> QED BY <1>2, <2>1, RefreshFailing DEF AnswerLost
<1> QED BY <1>1, <1>2

(* The member starts, asks, or is killed. *)
LEMMA StepMember == ASSUME IInv, Bootstrap \/ AskEstablish \/ CrashMember PROVE IInv'
<1>1. CASE Bootstrap \/ AskEstablish
  <2>1. /\ UNCHANGED <<est, lock, admin, promised, cfg, disk, torn, early, doc, mishaps>>
        /\ worker.pc \in {"down", "idle"}
        /\ worker' \in {[Down EXCEPT !.pc = "idle", !.boot = TRUE], [worker EXCEPT !.pc = "wait"]}
        /\ loader' \in {loader, [loader EXCEPT !["establish"] = LoadGeneral]}
    BY <1>1 DEF Bootstrap, AskEstablish
  <2>2. worker' \in WorkerState /\ worker'.pc # "write"
    <3>1. CASE worker' = [Down EXCEPT !.pc = "idle", !.boot = TRUE]
      BY <3>1, DownFacts DEF Down
    <3>2. CASE worker' = [worker EXCEPT !.pc = "wait"]
      BY <3>2 DEF IInv, TypeOK, WorkerState
    <3> QED BY <2>1, <3>1, <3>2
  <2>3. /\ loader' \in [Readers -> [at : {"none", "dir", "files"}, got : Files]]
        /\ \A q \in Readers : loader'[q] = loader[q] \/ loader'[q] = LoadGeneral
    BY <2>1, LoadGeneralFacts DEF IInv, TypeOK
  <2>4. TypeOK'
    BY <2>1, <2>2, <2>3 DEF IInv, TypeOK
  <2>5. LockInv' /\ PlanInv' /\ PromiseInv'
    BY <2>1, AdminsKept
  <2>6. LoadInv'
    <3>1. "establish" \in Readers
      BY DEF Readers
    <3>2. LoadGeneral.at = "dir" /\ LoadGeneral.got.general \in DOMAIN promised
      BY LoadGeneralFacts DEF IInv, TypeOK, PromiseInv
    <3>3. ASSUME NEW q \in Readers, loader'[q] = loader[q]
          PROVE  /\ ReadFromEst(loader[q].got) => ReadFromEst(loader[q].got)'
                 /\ CachedNoNewer(loader[q].got) => CachedNoNewer(loader[q].got)'
      BY <2>1, <3>3 DEF ReadFromEst, UpToGeneral, CachedNoNewer, SchemaVersion
    <3> QED BY <2>1, <2>2, <2>3, <3>1, <3>2, <3>3 DEF IInv, LoadInv
  <2>7. AnswerInv'
    BY <2>2 DEF AnswerInv
  <2>8. CacheInv'
    BY <2>1 DEF IInv, CacheInv, UpToGeneral, CachedNoNewer, SchemaVersion
  <2> QED BY <2>4, <2>5, <2>6, <2>7, <2>8 DEF IInv
<1>2. CASE CrashMember
  <2>1. /\ UNCHANGED <<est, lock, admin, promised, loader, disk, doc>>
        /\ worker' = Down /\ worker'.pc = "down"
        /\ cfg' = [cfg EXCEPT !["member"] = None]
        /\ torn' = (torn \/ worker.pc = "write") /\ early' = FALSE
        /\ mishaps' \in 0 .. MaxMishaps
    BY <1>2, EstablishmentAssumption DEF CrashMember, IInv, TypeOK, Down, HalfWritten
  <2>2. /\ cfg' \in [Servers -> Files \cup {None}]
        /\ cfg'["est"] = cfg["est"] /\ cfg'["member"] = None
    BY <2>1 DEF IInv, TypeOK, Servers
  <2>3. TypeOK'
    <3>1. \A s \in Servers : cfg'[s] # None => Valid(cfg'[s])
      BY <2>2 DEF IInv, TypeOK, Servers
    <3> QED BY <2>1, <2>2, <3>1, DownFacts DEF IInv, TypeOK
  <2>4. LockInv' /\ PlanInv' /\ PromiseInv'
    BY <2>1, AdminsKept
  <2>5. LoadInv'
    BY <2>1 DEF IInv, LoadInv, ReadFromEst, UpToGeneral, CachedNoNewer, SchemaVersion
  <2>6. AnswerInv'
    BY <2>1 DEF AnswerInv
  <2>7. CacheInv'
    <3>1. UpToGeneral(cfg["est"])' <=> UpToGeneral(cfg["est"])
      BY <2>1, <2>2 DEF UpToGeneral, SchemaVersion
    <3>2. UpToGeneral(disk)' <=> UpToGeneral(disk)
      BY <2>1 DEF UpToGeneral, SchemaVersion
    <3> QED BY <2>1, <2>2, <3>1, <3>2 DEF IInv, CacheInv, CachedNoNewer
  <2> QED BY <2>3, <2>4, <2>5, <2>6, <2>7 DEF IInv
<1> QED BY <1>1, <1>2

(* What the files of an answer hold. *)
LEMMA AnswerWritesFacts ==
  ASSUME NEW c \in Files, NEW w \in AnswerWrites(c)
  PROVE  /\ w \in Writes
         /\ w.file \in {"general", "servers", "current", "hist"}
         /\ w.file = "general" => w.val = c.general
         /\ w.file = "servers" => w.val = c.servers
         /\ w.file = "current" => w.val = c.current /\ c.current # None
         /\ w.file = "hist" => w.val = SchemaVersion(c) /\ c.current # None
BY SchemaVersionFacts DEF AnswerWrites, Write, Writes, Files

(* One file of the answer is cached. *)
LEMMA StepCacheFile == ASSUME IInv, CacheFile PROVE IInv'
<1>0. /\ UNCHANGED <<est, lock, admin, promised, cfg, loader, torn, early, doc, mishaps>>
      /\ worker.pc = "write"
  BY DEF CacheFile
<1>1. PICK c, d, l : c = worker.new /\ d = disk /\ l = worker.left
  OBVIOUS
<1>2. /\ c \in Files /\ d \in Files /\ l \in Seq(Writes) /\ l # <<>>
      /\ Valid(c) /\ ReadFromEst(c) /\ CachedNoNewer(c)
      /\ \A i \in DOMAIN l : l[i] \in AnswerWrites(c)
  BY <1>0, <1>1 DEF CacheFile, IInv, TypeOK, WorkerState, AnswerInv
<1>3. PICK w : w = l[1]
  OBVIOUS
<1>4. PICK t : t = Tail(l)
  OBVIOUS
<1>5. /\ t \in Seq(Writes)
      /\ Head(l) = w /\ w \in AnswerWrites(c)
      /\ \A i \in DOMAIN t : t[i] \in AnswerWrites(c)
      /\ \A i \in DOMAIN l : l[i] # w => \E j \in DOMAIN t : t[j] = l[i]
  <2>1. /\ Tail(l) \in Seq(Writes)
        /\ Head(l) = l[1] /\ 1 \in DOMAIN l
        /\ \A i \in DOMAIN Tail(l) : Tail(l)[i] = l[i + 1] /\ i + 1 \in DOMAIN l
        /\ \A i \in DOMAIN l : i = 1 \/ i - 1 \in DOMAIN Tail(l)
    BY <1>2, TailFacts
  <2>2. ASSUME NEW i \in DOMAIN l, l[i] # w PROVE \E j \in DOMAIN t : t[j] = l[i]
    <3>1. i - 1 \in DOMAIN t /\ i \in Int
      BY <1>2, <1>3, <1>4, <2>1, <2>2
    <3>2. t[i - 1] = l[i - 1 + 1]
      BY <1>4, <2>1, <3>1
    <3>3. t[i - 1] = l[i]
      BY <3>1, <3>2
    <3> QED BY <3>1, <3>3
  <2> QED BY <1>2, <1>3, <1>4, <2>1, <2>2
<1>6. /\ w \in Writes
      /\ w.file \in {"general", "servers", "current", "hist"}
      /\ w.file = "general" => w.val = c.general
      /\ w.file = "servers" => w.val = c.servers
      /\ w.file = "current" => w.val = c.current /\ c.current # None
      /\ w.file = "hist" => w.val = SchemaVersion(c) /\ c.current # None
  BY <1>2, <1>5, AnswerWritesFacts
<1>7. /\ disk' = Written(d, w)
      /\ worker' = [worker EXCEPT !.left = t]
  BY <1>1, <1>4, <1>5 DEF CacheFile
<1>8. /\ disk' \in Files
      /\ disk'.general = IF w.file = "general" THEN w.val ELSE d.general
      /\ disk'.servers = IF w.file = "servers" THEN w.val ELSE d.servers
      /\ disk'.current = IF w.file = "current" THEN w.val ELSE d.current
      /\ disk'.hist = IF w.file = "hist" THEN d.hist \cup {w.val} ELSE d.hist
      /\ disk'.searches = d.searches
  BY <1>2, <1>6, <1>7, WrittenFacts
<1>9. /\ worker' \in WorkerState
      /\ worker'.pc = "write" /\ worker'.new = c /\ worker'.left = t
  BY <1>0, <1>1, <1>5, <1>7 DEF IInv, TypeOK, WorkerState
<1>10. disk'.hist \subseteq c.hist /\ (disk'.current # None => c.current # None)
  <2>1. c.current # None => SchemaVersion(c) \in c.hist
    BY <1>2, SchemaVersionFacts DEF Valid
  <2> QED BY <1>1, <1>2, <1>6, <1>8, <2>1 DEF CachedNoNewer
<1>11. TypeOK'
  BY <1>0, <1>8, <1>9 DEF IInv, TypeOK
<1>12. LockInv' /\ PlanInv' /\ PromiseInv'
  BY <1>0, AdminsKept
<1>13. LoadInv'
  <2>1. loader["establish"].at = "none"
    BY <1>0 DEF IInv, LoadInv
  <2> QED BY <1>0, <2>1 DEF IInv, LoadInv, ReadFromEst, UpToGeneral, SchemaVersion
<1>14. AnswerInv'
  <2>1. Valid(worker.new)' /\ ReadFromEst(worker.new)' /\ CachedNoNewer(worker.new)'
    BY <1>0, <1>2, <1>9, <1>10
       DEF ReadFromEst, UpToGeneral, CachedNoNewer, SchemaVersion, Valid
  <2>2. \A i \in DOMAIN worker'.left : worker'.left[i] \in AnswerWrites(worker'.new)
    BY <1>5, <1>9
  <2>3. ASSUME NEW x, Left(x), x # w PROVE Left(x)'
    BY <1>1, <1>5, <1>9, <2>3 DEF Left
  <2>4. Left(Write("general", c.general))' \/ disk'.general = c.general
    <3>1. Left(Write("general", c.general)) \/ d.general = c.general
      BY <1>0, <1>1 DEF IInv, AnswerInv
    <3>2. CASE w = Write("general", c.general)
      BY <1>8, <3>2 DEF Write
    <3> QED BY <1>6, <1>8, <2>3, <3>1, <3>2
  <2>5. Left(Write("servers", c.servers))' \/ disk'.servers = c.servers
    <3>1. Left(Write("servers", c.servers)) \/ d.servers = c.servers
      BY <1>0, <1>1 DEF IInv, AnswerInv
    <3>2. CASE w = Write("servers", c.servers)
      BY <1>8, <3>2 DEF Write
    <3> QED BY <1>6, <1>8, <2>3, <3>1, <3>2
  <2>6. ASSUME c.current # None
        PROVE  Left(Write("current", c.current))' \/ disk'.current = c.current
    <3>1. Left(Write("current", c.current)) \/ d.current = c.current
      BY <1>0, <1>1, <2>6 DEF IInv, AnswerInv
    <3>2. CASE w = Write("current", c.current)
      BY <1>8, <3>2 DEF Write
    <3> QED BY <1>6, <1>8, <2>3, <3>1, <3>2
  <2>7. ASSUME c.current # None
        PROVE  Left(Write("hist", SchemaVersion(c)))' \/ SchemaVersion(c) \in disk'.hist
    <3>1. Left(Write("hist", SchemaVersion(c))) \/ SchemaVersion(c) \in d.hist
      BY <1>0, <1>1, <2>7 DEF IInv, AnswerInv
    <3>2. CASE w = Write("hist", SchemaVersion(c))
      BY <1>8, <3>2 DEF Write
    <3> QED BY <1>8, <2>3, <3>1, <3>2
  <2>8. /\ (Left(Write("general", c.general))' <=> Left(Write("general", worker.new.general))')
        /\ (Left(Write("servers", c.servers))' <=> Left(Write("servers", worker.new.servers))')
        /\ (Left(Write("current", c.current))' <=> Left(Write("current", worker.new.current))')
        /\ (Left(Write("hist", SchemaVersion(c)))' <=>
              Left(Write("hist", SchemaVersion(worker.new)))')
        /\ SchemaVersion(worker.new)' = SchemaVersion(c)
    BY <1>9 DEF Left, Write, SchemaVersion
  <2> QED BY <1>9, <2>1, <2>2, <2>4, <2>5, <2>6, <2>7, <2>8 DEF AnswerInv, AnswerWrites
<1>15. CacheInv'
  <2>1. CachedNoNewer(est)'
    BY <1>0, <1>2, <1>10 DEF ReadFromEst, CachedNoNewer
  <2>2. disk'.searches # {} => disk'.current # None
    BY <1>1, <1>6, <1>8 DEF IInv, CacheInv
  <2>3. /\ UpToGeneral(cfg["est"])' <=> UpToGeneral(cfg["est"])
        /\ UpToGeneral(cfg["member"])' <=> UpToGeneral(cfg["member"])
    BY <1>0 DEF UpToGeneral, SchemaVersion
  <2> QED BY <1>0, <1>9, <2>1, <2>2, <2>3 DEF IInv, CacheInv
<1> QED BY <1>11, <1>12, <1>13, <1>14, <1>15 DEF IInv

(* All files of the answer are there, and they are valid: the engine takes *)
(* them.                                                                   *)
LEMMA StepRefreshDone == ASSUME IInv, RefreshDone PROVE IInv'
<1>0. /\ UNCHANGED <<est, lock, admin, promised, loader, doc, mishaps>>
      /\ worker.pc = "write" /\ worker.left = <<>>
      /\ torn' = FALSE
  BY DEF RefreshDone
<1>1. PICK c, b, d : c = worker.new /\ b = disk /\ d = WithSearches(b, c)
  OBVIOUS
<1>2. /\ c \in Files /\ b \in Files
      /\ Valid(c) /\ ReadFromEst(c) /\ CachedNoNewer(c)
  BY <1>0, <1>1 DEF IInv, TypeOK, WorkerState, AnswerInv
<1>3. /\ b.general = c.general /\ b.servers = c.servers
      /\ c.current # None => b.current = c.current /\ SchemaVersion(c) \in b.hist
  <2>1. \A x : ~Left(x)
    BY <1>0 DEF Left
  <2> QED BY <1>0, <1>1, <2>1 DEF IInv, AnswerInv
<1>4. /\ d \in Files
      /\ d.general = b.general /\ d.servers = b.servers
      /\ d.current = b.current /\ d.hist = b.hist
      /\ d.searches = b.searches \cup c.searches
  BY <1>1, <1>2 DEF WithSearches, Files
<1>5. d.hist \subseteq c.hist /\ (d.current # None => c.current # None)
  BY <1>1, <1>2, <1>4 DEF CachedNoNewer
<1>6. SchemaVersion(c) = SchemaVersion(d)
  <2>1. SchemaVersion(d) <= SchemaVersion(c)
    BY <1>2, <1>4, <1>5, SchemaVersionGrows
  <2>2. SchemaVersion(c) <= SchemaVersion(d)
    <3>1. CASE c.current # None
      BY <1>3, <1>4, <3>1, SchemaVersionFacts
    <3>2. CASE c.current = None
      <4>1. c.hist = {}
        BY <1>2, <3>2 DEF ReadFromEst
      <4> QED BY <1>2, <1>4, <4>1, SchemaVersionFacts
    <3> QED BY <3>1, <3>2
  <2>3. SchemaVersion(c) \in Nat /\ SchemaVersion(d) \in Nat
    BY <1>2, <1>4, SchemaVersionFacts
  <2> QED BY <2>1, <2>2, <2>3
<1>7. b.searches # {} => b.current # None
  BY <1>1 DEF IInv, CacheInv
<1>8. c.searches # {} => b.current # None
  BY <1>2, <1>3 DEF Valid
<1>9. Valid(d)
  <2>1. d.current # None => d.hist # {} /\ d.current = SchemaVersion(d)
    BY <1>2, <1>3, <1>4, <1>5, <1>6 DEF Valid
  <2>2. d.searches # {} => d.current # None
    BY <1>4, <1>7, <1>8
  <2> QED BY <2>1, <2>2 DEF Valid
<1>10. UpToGeneral(d)
  BY <1>2, <1>3, <1>4, <1>6 DEF ReadFromEst, UpToGeneral
<1>11. /\ disk' = d
       /\ worker' = [Down EXCEPT !.pc = "idle"]
       /\ cfg' = [cfg EXCEPT !["member"] = d]
       /\ early' = FALSE
  BY <1>1, <1>9 DEF RefreshDone, OnConfigCached
<1>12. worker' \in WorkerState /\ worker'.pc = "idle"
  BY <1>11, DownFacts DEF Down
<1>13. /\ cfg' \in [Servers -> Files \cup {None}]
       /\ cfg'["est"] = cfg["est"] /\ cfg'["member"] = d
  BY <1>4, <1>11 DEF IInv, TypeOK, Servers
<1>14. TypeOK'
  <2>1. \A s \in Servers : cfg'[s] # None => Valid(cfg'[s])
    BY <1>9, <1>13 DEF IInv, TypeOK, Servers
  <2> QED BY <1>0, <1>4, <1>11, <1>12, <1>13, <2>1 DEF IInv, TypeOK
<1>15. LockInv' /\ PlanInv' /\ PromiseInv'
  BY <1>0, AdminsKept
<1>16. LoadInv'
  <2>1. loader["establish"].at = "none"
    BY <1>0 DEF IInv, LoadInv
  <2> QED BY <1>0, <2>1 DEF IInv, LoadInv, ReadFromEst, UpToGeneral, SchemaVersion
<1>17. AnswerInv'
  BY <1>12 DEF AnswerInv
<1>18. CacheInv'
  <2>1. UpToGeneral(disk)' /\ UpToGeneral(cfg["member"])'
    BY <1>0, <1>10, <1>11, <1>13 DEF UpToGeneral, SchemaVersion
  <2>2. UpToGeneral(cfg["est"])' <=> UpToGeneral(cfg["est"])
    BY <1>0, <1>13 DEF UpToGeneral, SchemaVersion
  <2>3. CachedNoNewer(est)'
    BY <1>0, <1>2, <1>5, <1>11 DEF ReadFromEst, CachedNoNewer
  <2>4. disk'.searches # {} => disk'.current # None
    BY <1>4, <1>7, <1>8, <1>11
  <2> QED BY <1>13, <2>1, <2>2, <2>3, <2>4 DEF IInv, CacheInv
<1> QED BY <1>14, <1>15, <1>16, <1>17, <1>18 DEF IInv

(* The member's engine loads the cached files; where they are complete they *)
(* are up to their general version.                                         *)
LEMMA StepReloadMember == ASSUME IInv, ReloadMember PROVE IInv'
<1>1. PICK d : d = disk
  OBVIOUS
<1>2. /\ UNCHANGED <<est, lock, admin, promised, loader, disk, worker, torn, doc, mishaps>>
      /\ cfg' = [cfg EXCEPT !["member"] = d]
      /\ early' = HalfWritten
      /\ d \in Files /\ Valid(d) /\ d.general > 0
  BY <1>1 DEF ReloadMember, OnConfigCached, IInv, TypeOK
<1>3. /\ cfg' \in [Servers -> Files \cup {None}]
      /\ cfg'["est"] = cfg["est"] /\ cfg'["member"] = d
  BY <1>2 DEF IInv, TypeOK, Servers
<1>4. TypeOK'
  <2>1. \A s \in Servers : cfg'[s] # None => Valid(cfg'[s])
    BY <1>2, <1>3 DEF IInv, TypeOK, Servers
  <2>2. early' \in BOOLEAN
    BY <1>2 DEF HalfWritten, IInv, TypeOK
  <2> QED BY <1>2, <1>3, <2>1, <2>2 DEF IInv, TypeOK
<1>5. LockInv' /\ PlanInv' /\ PromiseInv'
  BY <1>2, AdminsKept
<1>6. LoadInv'
  BY <1>2 DEF IInv, LoadInv, ReadFromEst, UpToGeneral, CachedNoNewer, SchemaVersion
<1>7. AnswerInv'
  BY <1>2 DEF IInv, AnswerInv, ReadFromEst, UpToGeneral, CachedNoNewer, SchemaVersion, Left
<1>8. CacheInv'
  <2>1. ~early' => UpToGeneral(d)
    BY <1>1, <1>2 DEF IInv, CacheInv, HalfWritten
  <2>2. ~early' => UpToGeneral(cfg["member"])'
    BY <1>2, <1>3, <2>1 DEF UpToGeneral, SchemaVersion
  <2>3. /\ UpToGeneral(cfg["est"])' <=> UpToGeneral(cfg["est"])
        /\ UpToGeneral(disk)' <=> UpToGeneral(disk)
    BY <1>2, <1>3 DEF UpToGeneral, SchemaVersion
  <2> QED BY <1>2, <1>3, <2>2, <2>3 DEF IInv, CacheInv, CachedNoNewer
<1> QED BY <1>4, <1>5, <1>6, <1>7, <1>8 DEF IInv

-----------------------------------------------------------------------------
(* Documents, and all steps together *)

(* A document gets the schema version its engine has. *)
LEMMA StepDocument ==
  ASSUME IInv, NEW s \in Keepers, CreateDocument(s) \/ MigrateDocument(s) PROVE IInv'
<1>0. /\ UNCHANGED <<est, lock, admin, promised, cfg, loader, disk, worker, torn, early, mishaps>>
      /\ s \in Servers /\ cfg[s] # None
      /\ doc' = [doc EXCEPT ![s] = SchemaVersion(cfg[s])]
  BY EstablishmentAssumption DEF CreateDocument, MigrateDocument, NeedsMigration
<1>1. SchemaVersion(cfg[s]) \in Versions
  <2>1. PICK c : c = cfg[s]
    OBVIOUS
  <2>2. c \in Files
    BY <1>0, <2>1 DEF IInv, TypeOK
  <2> QED BY <2>1, <2>2, SchemaVersionFacts
<1>2. TypeOK'
  BY <1>0, <1>1 DEF IInv, TypeOK
<1>3. LockInv' /\ PlanInv'
  BY <1>0 DEF IInv, LockInv, PlanInv, PlanFor
<1>4. PromiseInv' /\ LoadInv' /\ AnswerInv' /\ CacheInv'
  BY <1>0, FilesKept
<1> QED BY <1>2, <1>3, <1>4 DEF IInv

(* A step that changes nothing. *)
LEMMA StepStutter == ASSUME IInv, UNCHANGED vars PROVE IInv'
<1>1. TypeOK'
  BY DEF IInv, TypeOK, vars, Valid, SchemaVersion
<1>2. LockInv' /\ PlanInv'
  BY DEF IInv, LockInv, PlanInv, PlanFor, vars
<1>3. PromiseInv' /\ LoadInv' /\ AnswerInv' /\ CacheInv'
  BY FilesKept DEF vars
<1> QED BY <1>1, <1>2, <1>3 DEF IInv

(* Every step keeps the inductive invariant. *)
LEMMA Step == IInv /\ [Next]_vars => IInv'
BY StepAcquireLock, StepMutate, StepRefuse, StepCommit, StepReleaseLock, StepKill,
   StepRemoveStaleLock, StepStartEstablishment, StepLoadDir, StepAnswerEstablish,
   StepReloadEngine, StepMember, StepCacheFile, StepRefreshDone, StepRefreshFails,
   StepReloadMember, StepDocument, StepStutter
   DEF Next, AdminStep, WorkerStep

(* The files are there under general version 1, and nothing is going on.   *)
LEMMA Start == Init => IInv
<1> SUFFICES ASSUME Init PROVE IInv
  OBVIOUS
<1>1. /\ est \in Files
      /\ est.general = 1 /\ est.servers = 1 /\ est.current \in {None, 0}
      /\ est.hist \in {{}, {0}}
      /\ est.current = None => est.hist = {} /\ est.searches = {}
      /\ est.current # None => est.hist = {0}
  <2>1. 1 \in 0 .. MaxGeneral /\ 1 \in 0 .. MaxServers /\ 0 \in Versions /\ 0 # None
    BY EstablishmentAssumption DEF Versions
  <2>2. CASE est = [NoFiles EXCEPT !.general = 1, !.servers = 1]
    BY <2>1, <2>2 DEF NoFiles, Files
  <2>3. CASE est = [NoFiles EXCEPT !.general = 1, !.servers = 1, !.current = 0, !.hist = {0},
                                   !.searches = Searches]
    BY <2>1, <2>3 DEF NoFiles, Files
  <2> QED BY <2>2, <2>3 DEF Init
<1>2. SchemaVersion(est) = 0
  <2>1. PICK c : c = est
    OBVIOUS
  <2>2. SchemaVersion(c) = 0
    BY <1>1, <2>1, SchemaVersionFacts
  <2> QED BY <2>1, <2>2
<1>3. Valid(est)
  BY <1>1, <1>2 DEF Valid
<1>4. /\ promised \in Seq(Promise) /\ Len(promised) = 1 /\ DOMAIN promised = {1}
      /\ promised[1].servers = 1 /\ promised[1].version = 0
  <2>1. PICK o : o = [servers |-> 1, version |-> 0]
    OBVIOUS
  <2>2. o \in Promise /\ o.servers = 1 /\ o.version = 0
    BY <2>1, EstablishmentAssumption DEF Promise, Versions
  <2>3. promised = <<o>>
    BY <2>1 DEF Init
  <2>4. 1..1 = {1}
    OBVIOUS
  <2> QED BY <2>2, <2>3, <2>4
<1>5. TypeOK
  <2>1. admin \in [Admins -> [pc : {"idle", "locked", "commit", "release"}, plan : Seq(Writes)]]
    BY DEF Init
  <2>2. \A a \in Admins : (admin[a].plan # <<>>) <=> (admin[a].pc = "commit")
    BY DEF Init
  <2>3. cfg \in [Servers -> Files \cup {None}] /\ \A s \in Servers : cfg[s] # None => cfg[s] = est
    BY <1>1 DEF Init
  <2>4. \A s \in Servers : cfg[s] # None => Valid(cfg[s])
    BY <1>3, <2>3
  <2>5. loader \in [Readers -> [at : {"none", "dir", "files"}, got : Files]]
    BY NoFilesType DEF Init
  <2>6. disk \in Files /\ worker \in WorkerState
    BY NoFilesType, DownFacts DEF Init, Down
  <2>7. doc \in [Servers -> Versions \cup {None}]
    BY <1>1, EstablishmentAssumption DEF Init, Versions
  <2>8. /\ lock \in Admins \cup {None}
        /\ torn \in BOOLEAN /\ early \in BOOLEAN
    BY DEF Init
  <2>9. mishaps = 0 /\ 0 \in 0 .. MaxMishaps
    BY EstablishmentAssumption DEF Init
  <2> QED BY <1>1, <1>4, <2>1, <2>2, <2>3, <2>4, <2>5, <2>6, <2>7, <2>8, <2>9 DEF TypeOK
<1>6. LockInv /\ PlanInv
  BY DEF Init, LockInv, PlanInv
<1>7. PromiseInv
  BY <1>1, <1>2, <1>4 DEF PromiseInv
<1>8. LoadInv
  BY DEF Init, LoadInv, NotLoading, Readers
<1>9. AnswerInv
  BY DEF Init, AnswerInv
<1>10. CacheInv
  <2>1. cfg["est"] = est /\ cfg["member"] = None
    BY DEF Init, Servers
  <2>2. UpToGeneral(est)
    BY <1>1, <1>2, <1>4 DEF UpToGeneral
  <2>3. disk = NoFiles
    BY DEF Init
  <2> QED BY <2>1, <2>2, <2>3 DEF CacheInv, CachedNoNewer, NoFiles
<1> QED BY <1>5, <1>6, <1>7, <1>8, <1>9, <1>10 DEF IInv

-----------------------------------------------------------------------------
(* The theorems *)

(* The inductive invariant holds in every reachable state. *)
LEMMA Invariance == Spec => []IInv
BY Start, Step, PTL DEF Spec

(* Every variable keeps its type; what an engine has in memory is valid.   *)
THEOREM TypeCorrect == Spec => []TypeOK
<1>1. IInv => TypeOK
  BY DEF IInv
<1> QED BY <1>1, Invariance, PTL

(* The lock file keeps commands apart: the general version counts them,    *)
(* however they are killed and the lock is removed by hand.                *)
THEOREM GeneralVersionsAreCounted == Spec => []GeneralCountsChanges
<1>1. IInv => GeneralCountsChanges
  BY DEF IInv, PromiseInv, GeneralCountsChanges
<1> QED BY <1>1, Invariance, PTL

(* Written last and read first, the general version is never ahead of the  *)
(* configuration in an engine's memory, next to any commit; on a member,   *)
(* unless its engine has loaded a cache that a refresh was writing or was  *)
(* cut short in writing.                                                   *)
THEOREM GeneralVersionIsNotAhead == Spec => []GeneralNotAhead
<1>1. IInv => GeneralNotAhead
  <2> SUFFICES ASSUME IInv, NEW s \in Servers, cfg[s] # None, s = "member" => ~early
               PROVE  /\ cfg[s].servers >= promised[cfg[s].general].servers
                      /\ SchemaVersion(cfg[s]) >= promised[cfg[s].general].version
    BY DEF GeneralNotAhead
  <2>1. UpToGeneral(cfg[s])
    BY DEF IInv, CacheInv, Servers
  <2>2. PICK c : c = cfg[s]
    OBVIOUS
  <2>3. c \in Files /\ UpToGeneral(c)
    BY <2>1, <2>2 DEF IInv, TypeOK
  <2>4. c.servers \in Nat /\ SchemaVersion(c) \in Nat
    BY <2>3, SchemaVersionFacts DEF Files
  <2>5. promised[c.general] \in Promise
    BY <2>3 DEF UpToGeneral, IInv, TypeOK
  <2>6. promised[c.general].servers \in Nat /\ promised[c.general].version \in Nat
    BY <2>5 DEF Promise, Versions
  <2> QED BY <2>2, <2>3, <2>4, <2>6 DEF UpToGeneral
<1> QED BY <1>1, Invariance, PTL

=============================================================================

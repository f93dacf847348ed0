--------------------------- MODULE Establishment ----------------------------
(***************************************************************************)
(* The life of a configuration.  Administrators change the files of the    *)
(* establishment server under a lock file (adminconfig, ctl); a member's   *)
(* establishment worker asks for the combined document, caches it file by  *)
(* file and reloads the engine; on both servers the upgrade agent brings   *)
(* documents forward to the schema version the engine has in memory.       *)
(*                                                                         *)
(* One collection.  The text of its schema is the number of upgrades in    *)
(* it, the text of __servers.json the number of edits made to it; a number *)
(* of 0 (or a schema of None) stands for a file that is not there.         *)
(* __shard-map.json and __auth.json are written next to __servers.json and *)
(* add no state.                                                           *)
(***************************************************************************)
EXTENDS Integers, Sequences, FiniteSets

CONSTANTS Searches,      \* names of search definitions
          None,
          Keepers,       \* servers whose documents are followed
          MaxVersion,    \* bound: the last schema version
          MaxServers,    \* bound: edits of __servers.json
          MaxGeneral,    \* bound: the last general version
          MaxFailures,   \* maxFailures(): refreshes that may fail in a row
          MaxMishaps     \* bound: kills and failing calls

Versions == 0 .. MaxVersion
Admins == {"engine", "ctl"}
Servers == {"est", "member"}
Readers == {"establish", "reload"}   \* who loads the establishment's files

Files == [general : 0 .. MaxGeneral, servers : 0 .. MaxServers,
          current : Versions \cup {None}, hist : SUBSET Versions,
          updates : SUBSET Versions, searches : SUBSET Searches]

ASSUME EstablishmentAssumption ==
    /\ MaxVersion \in Nat /\ MaxGeneral \in Nat \ {0} /\ MaxServers \in Nat \ {0}
    /\ Keepers \subseteq Servers
    /\ MaxFailures \in Nat \ {0} /\ MaxMishaps \in Nat
    /\ None \notin Nat /\ None \notin Admins /\ None \notin Files

VARIABLES est,       \* the establishment server's config directory
          lock,      \* .datoriumctl.lock: an administrator or None
          admin,     \* what each administrator is doing: [pc, plan]
          promised,  \* ghost: what general version g stood for when written
          cfg,       \* Engine.Cfg of each server, None when it is down
          loader,    \* loads of est under way: [at, got]
          disk,      \* the member's config directory
          worker,    \* the member's establishment worker
          torn,      \* ghost: a writeConfig of the member was cut short
          early,     \* ghost: the member's engine has loaded files half written
          doc,       \* schema version of a document on each server
          mishaps

vars == <<est, lock, admin, promised, cfg, loader, disk, worker, torn, early, doc,
          mishaps>>

-----------------------------------------------------------------------------
(* Loading a directory.                                                    *)

Maximum(S) == CHOOSE m \in S : \A n \in S : n <= m

(* deriveSchemaVersions: the highest version with a history file, else 0. *)
SchemaVersion(c) == Maximum({0} \cup c.hist)

(* ValidateDetailed: the current schema is its last history file, a search *)
(* has its collection.                                                     *)
Valid(c) ==
    /\ c.current # None => c.hist # {} /\ c.current = SchemaVersion(c)
    /\ c.searches # {} => c.current # None

NoFiles == [general |-> 0, servers |-> 0, current |-> None, hist |-> {},
            updates |-> {}, searches |-> {}]

NotLoading == [at |-> "none", got |-> NoFiles]

(* loadUnvalidated begins with __general.json; __servers.json and the names*)
(* in the directory are next, and then the files that are named.           *)
LoadGeneral == [at |-> "dir", got |-> [NoFiles EXCEPT !.general = est.general]]

(* A directory without collections, or with one that has been created and  *)
(* given its searches.                                                     *)
Init ==
    /\ est \in {[NoFiles EXCEPT !.general = 1, !.servers = 1],
               [NoFiles EXCEPT !.general = 1, !.servers = 1, !.current = 0, !.hist = {0},
                               !.searches = Searches]}
    /\ lock = None
    /\ admin = [a \in Admins |-> [pc |-> "idle", plan |-> <<>>]]
    /\ promised = <<[servers |-> 1, version |-> 0]>>
    /\ cfg = [s \in Servers |-> IF s = "est" THEN est ELSE None]
    /\ loader = [r \in Readers |-> NotLoading]
    /\ disk = NoFiles
    /\ worker = [pc |-> "down", boot |-> FALSE, left |-> <<>>, new |-> NoFiles, fails |-> 0]
    /\ torn = FALSE
    /\ early = FALSE
    /\ doc = [s \in Servers |-> IF s \in Keepers THEN est.current ELSE None]
    /\ mishaps = 0

-----------------------------------------------------------------------------
(* Administrators: runMutation of adminconfig.Store and of ctl.            *)

(* Mutant: the lock file is created without O_EXCL. *)
AcquireLockShared(a) ==
    /\ admin[a].pc = "idle"
    /\ est.general < MaxGeneral
    /\ a = "engine" => cfg["est"] # None /\ loader["reload"].at = "none"
    /\ lock' = a
    /\ admin' = [admin EXCEPT ![a].pc = "locked"]
    /\ UNCHANGED <<est, promised, cfg, loader, disk, worker, torn, early, doc, mishaps>>

(* acquireLock; a file that is there makes the command fail at once.  The  *)
(* engine's commands also hold the engine's mutex until they have reloaded.*)
AcquireLock(a) ==
    /\ admin[a].pc = "idle"
    /\ est.general < MaxGeneral
    /\ a = "engine" => cfg["est"] # None /\ loader["reload"].at = "none"
    /\ lock = None
    /\ lock' = a
    /\ admin' = [admin EXCEPT ![a].pc = "locked"]
    /\ UNCHANGED <<est, promised, cfg, loader, disk, worker, torn, early, doc, mishaps>>

Write(file, val) == [file |-> file, val |-> val]

(* A file of a directory replaced (WriteFileAtomic) or removed. *)
Written(c, w) ==
    CASE w.file = "general"  -> [c EXCEPT !.general = w.val]
      [] w.file = "servers"  -> [c EXCEPT !.servers = w.val]
      [] w.file = "current"  -> [c EXCEPT !.current = w.val]
      [] w.file = "hist"     -> [c EXCEPT !.hist = @ \cup {w.val}]
      [] w.file = "updates"  -> [c EXCEPT !.updates = @ \cup {w.val}]
      [] w.file = "searches" -> [c EXCEPT !.searches = @ \cup {w.val}]
      [] w.file = "unlink"   -> [c EXCEPT !.searches = @ \ {w.val}]

(* Mutant: __general.json is written first. *)
OrderedWritesGeneralFirst(writes, c) == <<Write("general", c.general + 1)>> \o writes

(* stageGeneralBump and orderedWrites: __general.json comes last. *)
OrderedWrites(writes, c) == writes \o <<Write("general", c.general + 1)>>

(* ensureCreateCollection *)
CreatePlan(c) ==
    IF c.current = None /\ c.hist = {}
      THEN {OrderedWrites(<<Write("current", 0), Write("hist", 0)>>, c)} ELSE {}

(* ensureUpgradeCollection: the list's "from" is the current version.  The *)
(* list may also apply to a schema that an interrupted upgrade has changed *)
(* already; where it does not the command is refused.                      *)
UpgradePlan(c) ==
    LET v == SchemaVersion(c) + 1
    IN  IF c.current # None /\ c.hist # {} /\ v \in Versions
          THEN {OrderedWrites(<<Write("current", v), Write("hist", v), Write("updates", v)>>, c)}
          ELSE {}

(* EnsureSearch and DeleteSearch; removals come before the writes. *)
SearchPlans(c) ==
    {OrderedWrites(<<Write(IF n \in c.searches THEN "unlink" ELSE "searches", n)>>, c) :
        n \in IF c.current # None /\ Valid(c) THEN Searches ELSE {}}

(* server set and the other commands of datoriumctl on the directory. *)
ServerPlan(c) ==
    IF Valid(c) /\ c.servers < MaxServers
      THEN {OrderedWrites(<<Write("servers", c.servers + 1)>>, c)} ELSE {}

(* The mutation: load the files, decide, stage the plan. *)
Mutate(a) ==
    /\ admin[a].pc = "locked"
    /\ est.general < MaxGeneral
    /\ \E p \in IF a = "ctl" THEN ServerPlan(est)
                ELSE CreatePlan(est) \cup UpgradePlan(est) \cup SearchPlans(est) :
          admin' = [admin EXCEPT ![a] = [pc |-> "commit", plan |-> p]]
    /\ UNCHANGED <<est, lock, promised, cfg, loader, disk, worker, torn, early, doc, mishaps>>

(* A command that is refused. *)
Refuse(a) ==
    /\ admin[a].pc = "locked"
    /\ lock' = None
    /\ admin' = [admin EXCEPT ![a].pc = "idle"]
    /\ UNCHANGED <<est, promised, cfg, loader, disk, worker, torn, early, doc, mishaps>>

(* Ghost: what the files come to when the rest of a plan is committed. *)
Outcome(c, plan) ==
    LET after(file) == {plan[i].val : i \in {j \in DOMAIN plan : plan[j].file = file}}
    IN  [servers |-> Maximum({c.servers} \cup after("servers")),
         version |-> Maximum({SchemaVersion(c)} \cup after("hist"))]

(* plan.commit, file by file. *)
CommitStep(a) ==
    /\ admin[a].pc = "commit"
    /\ LET w == Head(admin[a].plan)
       IN  /\ est' = Written(est, w)
           /\ promised' = IF w.file # "general" THEN promised
                          ELSE Append(promised, Outcome(est, admin[a].plan))
    /\ admin' = [admin EXCEPT ![a] =
                    [pc |-> IF Len(@.plan) = 1 THEN "release" ELSE "commit", plan |-> Tail(@.plan)]]
    /\ UNCHANGED <<lock, cfg, loader, disk, worker, torn, early, doc, mishaps>>

(* release; the engine's commands go on to Engine.Reload, which begins     *)
(* with __general.json.                                                    *)
ReleaseLock(a) ==
    /\ admin[a].pc = "release"
    /\ lock' = None
    /\ admin' = [admin EXCEPT ![a].pc = "idle"]
    /\ loader' = IF a = "engine" THEN [loader EXCEPT !["reload"] = LoadGeneral] ELSE loader
    /\ UNCHANGED <<est, promised, cfg, disk, worker, torn, early, doc, mishaps>>

(* An administrator is killed.  Its lock file stays, and the engine's      *)
(* commands go down with the establishment server.                         *)
Kill(a) ==
    /\ admin[a].pc # "idle" \/ (a = "engine" /\ cfg["est"] # None)
    /\ mishaps < MaxMishaps
    /\ mishaps' = mishaps + 1
    /\ admin' = [admin EXCEPT ![a] = [pc |-> "idle", plan |-> <<>>]]
    /\ IF a = "engine" THEN /\ cfg' = [cfg EXCEPT !["est"] = None]
                            /\ loader' = [r \in Readers |-> NotLoading]
       ELSE UNCHANGED <<cfg, loader>>
    /\ UNCHANGED <<est, lock, promised, disk, worker, torn, early, doc>>

(* The lock file of a killed command is removed by hand. *)
RemoveStaleLock ==
    /\ lock # None
    /\ admin[lock].pc = "idle"
    /\ lock' = None
    /\ UNCHANGED <<est, admin, promised, cfg, loader, disk, worker, torn, early, doc, mishaps>>

(* main on the establishment server: a directory that does not validate is *)
(* not taken for its own, and the process gives up.  The load is one step  *)
(* here; LoadDir and Loaded show what a commit next to it can do.          *)
StartEstablishment ==
    /\ cfg["est"] = None
    /\ Valid(est)
    /\ cfg' = [cfg EXCEPT !["est"] = est]
    /\ UNCHANGED <<est, lock, admin, promised, loader, disk, worker, torn, early, doc, mishaps>>

-----------------------------------------------------------------------------
(* The rest of loadUnvalidated, next to a commit that may be going on.     *)

LoadDir(r) ==
    /\ loader[r].at = "dir"
    /\ loader' = [loader EXCEPT ![r] =
                    [at |-> "files", got |-> [est EXCEPT !.general = loader[r].got.general]]]
    /\ UNCHANGED <<est, lock, admin, promised, cfg, disk, worker, torn, early, doc, mishaps>>

(* The schema's text is what the file holds by now; a search file that is  *)
(* gone by now fails the load.                                             *)
Loaded(r) ==
    LET c == loader[r].got
    IN  IF c.searches \subseteq est.searches THEN [c EXCEPT !.current = IF @ = None THEN None ELSE est.current]
        ELSE None

(* Mutant: Reload takes what it has read. *)
LoadSucceedsUnchecked(r) == Loaded(r) # None

(* Load: read without an error, and valid. *)
LoadSucceeds(r) == Loaded(r) # None /\ Valid(Loaded(r))

-----------------------------------------------------------------------------
(* The member's worker.                                                    *)

Down == [pc |-> "down", boot |-> FALSE, left |-> <<>>, new |-> NoFiles, fails |-> 0]

(* What a failed RefreshOnce leads to: at start-up the cached files, if    *)
(* they are all there and the engine can load them; later another try, and *)
(* after maxFailures in a row the end of the process.                      *)
Failed(w, d, c) ==
    IF w.boot
      THEN IF d.general > 0 /\ d.servers > 0 /\ Valid(d)
             THEN <<[Down EXCEPT !.pc = "idle"], [c EXCEPT !["member"] = d]>>
             ELSE <<Down, [c EXCEPT !["member"] = None]>>
    ELSE IF w.fails + 1 >= MaxFailures THEN <<Down, [c EXCEPT !["member"] = None]>>
    ELSE <<[Down EXCEPT !.pc = "idle", !.fails = w.fails + 1], c>>

(* writeConfig is at work, or was cut short: the member's directory may     *)
(* have the new __general.json next to old files.                           *)
HalfWritten == torn \/ worker.pc = "write"

FailRefresh ==
    /\ worker' = Failed(worker, disk, cfg)[1]
    /\ cfg' = Failed(worker, disk, cfg)[2]
    /\ early' = IF worker.boot THEN HalfWritten ELSE early

(* Start-up of the member: Bootstrap begins with a refresh. *)
Bootstrap ==
    /\ worker.pc = "down"
    /\ worker' = [Down EXCEPT !.pc = "idle", !.boot = TRUE]
    /\ UNCHANGED <<est, lock, admin, promised, cfg, loader, disk, torn, early, doc, mishaps>>

(* Bootstrap, the ticker of Run, or Wake: fetchEstablishment has a machine *)
(* token, renewed if need be, and the request arrives.                     *)
AskEstablish ==
    /\ worker.pc = "idle"
    /\ cfg["est"] # None
    /\ loader["establish"].at = "none"
    /\ worker' = [worker EXCEPT !.pc = "wait"]
    /\ loader' = [loader EXCEPT !["establish"] = LoadGeneral]
    /\ UNCHANGED <<est, lock, admin, promised, cfg, disk, torn, early, doc, mishaps>>

(* Mutant: the files are cached in an order of their own, without history. *)
WriteConfigNoHistory(c) ==
    <<Write("general", c.general), Write("servers", c.servers)>>
    \o IF c.current = None THEN <<>> ELSE <<Write("current", c.current)>>

(* writeConfig: the order of the files.  EstablishDocument carries the     *)
(* current schema and its number, and no update list.                      *)
WriteConfig(c) ==
    <<Write("general", c.general), Write("servers", c.servers)>>
    \o (IF c.current = None THEN <<>>
        ELSE <<Write("current", c.current), Write("hist", SchemaVersion(c))>>)

(* The searches come last; in any order, and here in one step. *)
WithSearches(d, c) == [d EXCEPT !.searches = @ \cup c.searches]

(* handleEstablish ends: the engine has reloaded and answers, or says      *)
(* configError.                                                            *)
AnswerEstablish ==
    /\ loader["establish"].at = "files"
    /\ loader' = [loader EXCEPT !["establish"] = NotLoading]
    /\ IF LoadSucceeds("establish")
         THEN /\ cfg' = [cfg EXCEPT !["est"] = Loaded("establish")]
              /\ early' = early
              /\ worker' = IF worker.pc # "wait" THEN worker
                           ELSE [worker EXCEPT !.pc = "write", !.new = Loaded("establish"),
                                               !.left = WriteConfig(Loaded("establish"))]
         ELSE IF worker.pc = "wait" THEN FailRefresh ELSE UNCHANGED <<worker, cfg, early>>
    /\ UNCHANGED <<est, lock, admin, promised, disk, torn, doc, mishaps>>

(* Engine.Reload at the end of an administrative command. *)
ReloadEngine ==
    /\ loader["reload"].at = "files"
    /\ loader' = [loader EXCEPT !["reload"] = NotLoading]
    /\ cfg' = IF LoadSucceeds("reload") THEN [cfg EXCEPT !["est"] = Loaded("reload")] ELSE cfg
    /\ UNCHANGED <<est, lock, admin, promised, disk, worker, torn, early, doc, mishaps>>

(* A refresh fails: no token, no connection, no answer in time, or a file  *)
(* that cannot be written.                                                 *)
RefreshFails ==
    /\ worker.pc \in {"idle", "wait", "write"}
    /\ IF worker.pc = "idle" /\ cfg["est"] = None THEN UNCHANGED mishaps
       ELSE mishaps < MaxMishaps /\ mishaps' = mishaps + 1
    /\ FailRefresh
    /\ torn' = HalfWritten
    /\ UNCHANGED <<est, lock, admin, promised, loader, disk, doc>>

(* The answer never comes: the establishment server went down meanwhile. *)
AnswerLost ==
    /\ worker.pc = "wait"
    /\ loader["establish"].at = "none"
    /\ FailRefresh
    /\ UNCHANGED <<est, lock, admin, promised, loader, disk, torn, doc, mishaps>>

CacheFile ==
    /\ worker.pc = "write"
    /\ worker.left # <<>>
    /\ disk' = Written(disk, Head(worker.left))
    /\ worker' = [worker EXCEPT !.left = Tail(@)]
    /\ UNCHANGED <<est, lock, admin, promised, cfg, loader, torn, early, doc, mishaps>>

(* OnConfigCached: the engine loads the cached files. *)
OnConfigCached(d, c) == [c EXCEPT !["member"] = d]

(* The last files, the collection directories, and the reload. *)
RefreshDone ==
    /\ worker.pc = "write"
    /\ worker.left = <<>>
    /\ LET d == WithSearches(disk, worker.new)
           f == Failed(worker, d, cfg)
       IN  /\ disk' = d
           /\ torn' = FALSE
           /\ IF Valid(d) THEN /\ worker' = [Down EXCEPT !.pc = "idle"]
                               /\ cfg' = OnConfigCached(d, cfg)
                               /\ early' = FALSE
              ELSE worker' = f[1] /\ cfg' = f[2] /\ early' = early
    /\ UNCHANGED <<est, lock, admin, promised, loader, doc, mishaps>>

(* The member is killed. *)
CrashMember ==
    /\ worker.pc # "down"
    /\ mishaps < MaxMishaps
    /\ mishaps' = mishaps + 1
    /\ worker' = Down
    /\ torn' = HalfWritten
    /\ cfg' = [cfg EXCEPT !["member"] = None]
    /\ early' = FALSE
    /\ UNCHANGED <<est, lock, admin, promised, loader, disk, doc>>

(* handleEstablish is on every server: whoever asks the member for its      *)
(* establishment document makes its engine load the cached files, whatever  *)
(* the worker is doing to them.  The load is one step, as it is at          *)
(* start-up; files that do not validate are answered with configError.      *)
ReloadMember ==
    /\ cfg["member"] # None
    /\ disk.general > 0 /\ disk.servers > 0 /\ Valid(disk)
    /\ cfg' = OnConfigCached(disk, cfg)
    /\ early' = HalfWritten
    /\ UNCHANGED <<est, lock, admin, promised, loader, disk, worker, torn, doc, mishaps>>

-----------------------------------------------------------------------------
(* Documents and the upgrade agent.                                        *)

CreateDocument(s) ==
    /\ doc[s] = None
    /\ cfg[s] # None
    /\ cfg[s].current # None
    /\ doc' = [doc EXCEPT ![s] = SchemaVersion(cfg[s])]
    /\ UNCHANGED <<est, lock, admin, promised, cfg, loader, disk, worker, torn, early, mishaps>>

NeedsMigration(s) == doc[s] # None /\ cfg[s] # None /\ doc[s] < SchemaVersion(cfg[s])

(* Mutant: the update list of the last version is not replayed. *)
MigratesShort(s) == \A v \in doc[s] + 1 .. SchemaVersion(cfg[s]) : v \in cfg[s].updates /\ v < MaxVersion

(* MigrateDocument: every update list up to the target must be there. *)
Migrates(s) == \A v \in doc[s] + 1 .. SchemaVersion(cfg[s]) : v \in cfg[s].updates

(* RunOnce of the agent, or a read of the document. *)
MigrateDocument(s) ==
    /\ NeedsMigration(s)
    /\ Migrates(s)
    /\ doc' = [doc EXCEPT ![s] = SchemaVersion(cfg[s])]
    /\ UNCHANGED <<est, lock, admin, promised, cfg, loader, disk, worker, torn, early, mishaps>>

-----------------------------------------------------------------------------
AdminStep(a) == Mutate(a) \/ Refuse(a) \/ CommitStep(a) \/ ReleaseLock(a)
WorkerStep == AskEstablish \/ CacheFile \/ RefreshDone \/ AnswerLost

Next ==
    \/ \E a \in Admins : AcquireLock(a) \/ AdminStep(a) \/ Kill(a)
    \/ RemoveStaleLock \/ StartEstablishment
    \/ \E r \in Readers : LoadDir(r)
    \/ AnswerEstablish \/ ReloadEngine
    \/ Bootstrap \/ WorkerStep \/ RefreshFails \/ CrashMember \/ ReloadMember
    \/ \E s \in Keepers : CreateDocument(s) \/ MigrateDocument(s)

Spec == Init /\ [][Next]_vars

(* Commands and handlers that have begun go on, the worker's ticker keeps  *)
(* ticking and the upgrade agent is scheduled again and again.  Nobody has *)
(* to start a server, to issue a command or to remove a lock.              *)
Fairness ==
    /\ \A a \in Admins : WF_vars(AdminStep(a))
    /\ \A r \in Readers : WF_vars(LoadDir(r))
    /\ WF_vars(AnswerEstablish) /\ WF_vars(ReloadEngine)
    /\ WF_vars(WorkerStep)
    /\ WF_vars(RefreshFails /\ mishaps' = mishaps)
    /\ \A s \in Servers : WF_vars(MigrateDocument(s))

FairSpec == Spec /\ Fairness

-----------------------------------------------------------------------------
(* Properties *)

Writes == [file : {"general"}, val : 0 .. MaxGeneral]
          \cup [file : {"servers"}, val : 0 .. MaxServers]
          \cup [file : {"current", "hist", "updates"}, val : Versions]
          \cup [file : {"searches", "unlink"}, val : Searches]

Promise == [servers : 0 .. MaxServers, version : Versions]
WorkerState == [pc : {"down", "idle", "wait", "write"}, boot : BOOLEAN, left : Seq(Writes),
                new : Files, fails : 0 .. MaxFailures - 1]

(* Type correctness; what an engine has in memory has been validated, and a*)
(* worker that goes on has failed fewer than maxFailures times in a row.   *)
TypeOK ==
    /\ est \in Files
    /\ lock \in Admins \cup {None}
    /\ admin \in [Admins -> [pc : {"idle", "locked", "commit", "release"}, plan : Seq(Writes)]]
    /\ \A a \in Admins : (admin[a].plan # <<>>) <=> (admin[a].pc = "commit")
    /\ promised \in Seq(Promise)
    /\ cfg \in [Servers -> Files \cup {None}]
    /\ \A s \in Servers : cfg[s] # None => Valid(cfg[s])
    /\ loader \in [Readers -> [at : {"none", "dir", "files"}, got : Files]]
    /\ disk \in Files
    /\ worker \in WorkerState
    /\ torn \in BOOLEAN /\ early \in BOOLEAN
    /\ doc \in [Servers -> Versions \cup {None}]
    /\ mishaps \in 0 .. MaxMishaps

(* The general version counts the changes: no two commands wrote the same  *)
(* number, so none has planned from files another was changing             *)
(* (adminconfig/lock.go, ctl/lock.go: one lock for both).                  *)
GeneralCountsChanges == est.general = Len(promised)

(* A server that has general version g in memory has every change that g   *)
(* counts: __general.json is committed last and read first (plan.go).  On  *)
(* a member this is so unless the engine loaded the cached files while a   *)
(* refresh was writing them or after it was cut short, at start-up or for  *)
(* GET /establish (http.go): writeConfig writes __general.json first.      *)
GeneralNotAhead ==
    \A s \in Servers : cfg[s] # None /\ (s = "member" => ~early) =>
        /\ cfg[s].servers >= promised[cfg[s].general].servers
        /\ SchemaVersion(cfg[s]) >= promised[cfg[s].general].version

Behind ==
    \/ cfg["member"].general # est.general
    \/ cfg["member"].servers # est.servers
    \/ cfg["member"].current # est.current
    \/ ~(est.searches \subseteq cfg["member"].searches)

(* A member that stays up comes to the establishment server's configuration*)
(* when that server is up and its files validate.                          *)
MemberCatchesUp ==
    <>[](worker.pc = "down" \/ cfg["est"] = None \/ ~Valid(est)
           \/ (cfg["member"] # None /\ ~Behind))

(* Background migration: documents of the establishment server come to the *)
(* version of its schema, unless a kill kept the update list from being    *)
(* written (adminconfig/collection.go writes it after the version file), or*)
(* the engine's last reload was overtaken by an older one and no member is *)
(* there to ask again (engine.go: Reload assigns Cfg without a lock).      *)
EstablishmentDocumentsMigrate ==
    <>[](cfg["est"] = None \/ ~NeedsMigration("est")
           \/ (worker.pc = "down" /\ cfg["est"].updates # est.updates)
           \/ ~(1 .. SchemaVersion(est) \subseteq est.updates))

(* UPDATE-SCHEMA.md, Background Migration: "After a schema is upgraded, the*)
(* database's background agent works through the collection and updates    *)
(* documents to the new schema."  On a member no update list ever arrives. *)
DocumentsMigrate == \A s \in Servers : <>[](cfg[s] = None \/ ~NeedsMigration(s))

-----------------------------------------------------------------------------
(* The inductive invariant behind the safety properties;                   *)
(* EstablishmentProofs shows it for any bounds and any searches.           *)

(* Only the holder of the lock is at work. *)
LockInv == \A a \in Admins : admin[a].pc # "idle" => lock = a

(* What is left of a plan: the next general version last, a change of      *)
(* __servers.json first, a history file after its schema.                  *)
PlanFor(p, c) ==
    /\ c.general < MaxGeneral
    /\ p[Len(p)] = Write("general", c.general + 1)
    /\ \A i \in DOMAIN p :
          /\ p[i].file = "general" => i = Len(p)
          /\ p[i].file = "servers" => i = 1 /\ p[i].val = c.servers + 1
          /\ p[i].file = "hist" =>
                IF i = 1 THEN c.current # None ELSE p[i - 1].file = "current"

PlanInv == \A a \in Admins : admin[a].pc = "commit" => PlanFor(admin[a].plan, est)

(* Every general version stands for no more than the files hold by now. *)
PromiseInv ==
    /\ Len(promised) = est.general
    /\ est.general >= 1
    /\ \A g \in DOMAIN promised :
          promised[g].servers <= est.servers /\ promised[g].version <= SchemaVersion(est)
    /\ est.hist # {} => est.current # None

\* c has every change that its general version counts.
UpToGeneral(c) ==
    /\ c.general \in DOMAIN promised
    /\ promised[c.general].servers <= c.servers
    /\ promised[c.general].version <= SchemaVersion(c)

\* c was read from the establishment's files.
ReadFromEst(c) ==
    /\ UpToGeneral(c)
    /\ c.hist \subseteq est.hist
    /\ c.hist # {} => c.current # None
    /\ c.current # None => est.current # None

\* The cached files are none that c is without.
CachedNoNewer(c) == disk.hist \subseteq c.hist /\ (disk.current # None => c.current # None)

(* Loads find what the general version they began with stands for, and the *)
(* member's cache is left alone while its answer is prepared.              *)
LoadInv ==
    /\ \A r \in Readers :
          /\ loader[r].at = "dir" => loader[r].got.general \in DOMAIN promised
          /\ loader[r].at = "files" => ReadFromEst(loader[r].got)
    /\ loader["establish"].at = "files" => CachedNoNewer(loader["establish"].got)
    /\ loader["establish"].at # "none" => worker.pc # "write"

Left(w) == \E i \in DOMAIN worker.left : worker.left[i] = w

\* The files of the answer c, searches apart.
AnswerWrites(c) ==
    {Write("general", c.general), Write("servers", c.servers)}
    \cup IF c.current = None THEN {}
         ELSE {Write("current", c.current), Write("hist", SchemaVersion(c))}

(* The answer being cached, and its files: each is there or yet to come. *)
AnswerInv ==
    worker.pc = "write" =>
        LET c == worker.new
        IN  /\ Valid(c)
            /\ ReadFromEst(c)
            /\ CachedNoNewer(c)
            /\ \A i \in DOMAIN worker.left : worker.left[i] \in AnswerWrites(c)
            /\ Left(Write("general", c.general)) \/ disk.general = c.general
            /\ Left(Write("servers", c.servers)) \/ disk.servers = c.servers
            /\ c.current # None =>
                  /\ Left(Write("current", c.current)) \/ disk.current = c.current
                  /\ Left(Write("hist", SchemaVersion(c))) \/ SchemaVersion(c) \in disk.hist

(* The member's files and both engines. *)
CacheInv ==
    /\ CachedNoNewer(est)
    /\ disk.searches # {} => disk.current # None
    /\ worker.pc # "write" /\ ~torn /\ disk.general > 0 => UpToGeneral(disk)
    /\ cfg["member"] # None /\ ~early => UpToGeneral(cfg["member"])
    /\ cfg["est"] # None => UpToGeneral(cfg["est"])

IInv == TypeOK /\ LockInv /\ PlanInv /\ PromiseInv /\ LoadInv /\ AnswerInv /\ CacheInv

=============================================================================

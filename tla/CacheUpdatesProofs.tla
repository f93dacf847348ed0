------------------------- MODULE CacheUpdatesProofs -------------------------
(***************************************************************************)
(* Proofs about CacheUpdates, for any list of read servers and any number  *)
(* of readers, changes and mishaps.                                        *)
(***************************************************************************)
EXTENDS CacheUpdates, TLAPS

USE DEF NoFile, Null

-----------------------------------------------------------------------------
(* Facts about the constants and the operators *)

(* The list of targets has a length, its entries are the read servers.     *)
LEMMA OrderFacts ==
  /\ Len(Order) \in Nat
  /\ DOMAIN Order = 1..Len(Order)
  /\ \A i \in DOMAIN Order : Order[i] \in Targets
  /\ \A m \in Targets : \E i \in DOMAIN Order : Order[i] = m
  /\ Order # <<>> => 1 \in DOMAIN Order
<1>1. Order \in Seq(ToSet(Order))
  BY CacheUpdatesAssumption
<1>2. Len(Order) \in Nat /\ DOMAIN Order = 1..Len(Order)
  BY <1>1
<1>3. Order # <<>> => Len(Order) # 0
  BY <1>1
<1>4. \A m : m \in Targets <=> \E i \in DOMAIN Order : Order[i] = m
  BY DEF Targets, ToSet
<1> QED BY <1>2, <1>3, <1>4

(* Versions are positive, so neither a null revision nor a missing file.   *)
LEMMA VersionFacts ==
  /\ Versions \subseteq Nat
  /\ 0 \notin Versions
  /\ -1 \notin Versions
  /\ MaxChanges \in Nat
  /\ MaxMishaps \in Nat
  /\ \A n \in 0..MaxChanges : n < MaxChanges => n + 1 \in Versions
BY CacheUpdatesAssumption DEF Versions

(* A run at rest is a run. *)
LEMMA NoRunType ==
  NoRun \in [at : {"idle", "claimed", "stage", "wait", "finish"}, change : Ops,
             ver : Versions \cup {Null}, next : 1..Len(Order) + 1]
<1>1. 1 \in 1..Len(Order) + 1
  BY OrderFacts
<1> QED BY <1>1 DEF NoRun, Ops

(* A run waiting for its present target moves on to the next one, or to    *)
(* the end of the list.                                                    *)
LEMMA NextTargetFacts ==
  ASSUME TypeOK, RunInv, run.at = "wait"
  PROVE  /\ Target \in Targets
         /\ NextTarget.change = run.change
         /\ NextTarget.ver = run.ver
         /\ NextTarget.next = run.next + 1
         /\ NextTarget.at = IF run.next = Len(Order) THEN "finish" ELSE "stage"
         /\ NextTarget \in [at : {"idle", "claimed", "stage", "wait", "finish"},
                            change : Ops, ver : Versions \cup {Null},
                            next : 1..Len(Order) + 1]
         /\ NextTarget.at = "stage" => NextTarget.next \in DOMAIN Order
         /\ NextTarget.at = "finish" => NextTarget.next = Len(Order) + 1
<1>1. run.next \in DOMAIN Order
  BY DEF RunInv
<1>2. run \in [at : {"idle", "claimed", "stage", "wait", "finish"},
               change : Ops, ver : Versions \cup {Null}, next : 1..Len(Order) + 1]
  BY DEF TypeOK
<1>3. run.next \in 1..Len(Order) /\ Len(Order) \in Nat /\ Target \in Targets
  BY <1>1, OrderFacts DEF Target
<1>4. /\ NextTarget.change = run.change
      /\ NextTarget.ver = run.ver
      /\ NextTarget.next = run.next + 1
      /\ NextTarget.at = IF run.next = Len(Order) THEN "finish" ELSE "stage"
  BY <1>2 DEF NextTarget
<1>5. run.next + 1 \in 1..Len(Order) + 1
  BY <1>3
<1>6. NextTarget \in [at : {"idle", "claimed", "stage", "wait", "finish"},
                      change : Ops, ver : Versions \cup {Null}, next : 1..Len(Order) + 1]
  BY <1>2, <1>5 DEF NextTarget
<1>7. run.next # Len(Order) => run.next + 1 \in DOMAIN Order
  BY <1>3, OrderFacts
<1> QED BY <1>3, <1>4, <1>6, <1>7

(* A call of Apply that takes a step is still a call, for the same server  *)
(* and version; it goes on to write only where a file is.                  *)
LEMMA AppliedFacts ==
  ASSUME NEW c \in Call, c.at \in {"load", "write"}, NEW m
  PROVE  /\ Applied(c, m) \in Call
         /\ Applied(c, m).ver = c.ver
         /\ Applied(c, m).server = c.server
         /\ Applied(c, m).at \in {"write", "done"}
         /\ Applied(c, m).at = "write" => c.at = "load" /\ cache[m] # NoFile
         /\ c.at = "load" /\ Applied(c, m).at = "done" =>
               cache[m] = NoFile \/ (c.ver # Null /\ cache[m] = c.ver)
BY DEF Call, ApplySteps, Applied, ApplyLoad

(* The same for the work of a member's cache agent. *)
LEMMA AppliedWorkFacts ==
  ASSUME NEW c \in [at : ApplySteps \cup {"fetch"}, ver : Versions \cup {Null}],
         c.at \in {"load", "write"}, NEW m
  PROVE  /\ Applied(c, m) \in [at : ApplySteps \cup {"fetch"}, ver : Versions \cup {Null}]
         /\ Applied(c, m).ver = c.ver
         /\ Applied(c, m).at \in {"write", "done"}
         /\ Applied(c, m).at = "write" => c.at = "load" /\ cache[m] # NoFile
         /\ c.at = "load" /\ Applied(c, m).at = "done" =>
               cache[m] = NoFile \/ (c.ver # Null /\ cache[m] = c.ver)
BY DEF ApplySteps, Applied, ApplyLoad

(* A step of Apply touches the file of its own server only, which then     *)
(* holds the version of the call.                                          *)
LEMMA ApplyStepFacts ==
  ASSUME TypeOK, NEW at, NEW ver \in Versions \cup {Null}, NEW c, c.at = at, c.ver = ver,
         NEW m \in Targets, ApplyStep(c, m)
  PROVE  /\ cache' \in [Targets -> Versions \cup {Null, NoFile}]
         /\ \A t \in Targets : t # m => cache'[t] = cache[t]
         /\ at = "write" => cache'[m] = ver
         /\ at # "write" => cache' = cache
         /\ at \in {"load", "write"}
         /\ \A t \in Targets : cache[t] # NoFile => cache'[t] # NoFile
BY VersionFacts DEF TypeOK, ApplyStep

-----------------------------------------------------------------------------
(* Types, runs and cache files *)

(* What the proofs about runs and cache files rest on. *)
BaseInv == TypeOK /\ RunInv /\ WriteInv

(* Nothing is cached, staged or running at first. *)
LEMMA BaseInit == Init => BaseInv
<1> SUFFICES ASSUME Init PROVE BaseInv
  OBVIOUS
<1> USE VersionFacts, OrderFacts DEF Init
<1>1. TypeOK
  <2>1. run \in [at : {"idle", "claimed", "stage", "wait", "finish"}, change : Ops,
                 ver : Versions \cup {Null}, next : 1..Len(Order) + 1]
    BY NoRunType
  <2>2. push \in Call /\ orphan \in Call
    BY DEF NoCall, Call, ApplySteps
  <2>3. /\ agent \in [Members -> [at : ApplySteps \cup {"fetch"}, ver : Versions \cup {Null}]]
        /\ reader \in [Readers -> [at : {"idle", "write"}, server : Targets \cup {Self}]]
    BY DEF NoWork, NoRead, ApplySteps
  <2>4. /\ pending \in [Targets -> Versions \cup {Null, NoFile}]
        /\ cache \in [Targets -> Versions \cup {Null, NoFile}]
    OBVIOUS
  <2>5. changes \in 0..MaxChanges /\ mishaps \in 0..MaxMishaps
    OBVIOUS
  <2> QED BY <2>1, <2>2, <2>3, <2>4, <2>5 DEF TypeOK
<1>2. RunInv
  BY DEF RunInv, NoRun, NoCall, NoRead
<1>3. WriteInv
  BY DEF WriteInv, NoCall, NoWork, Members
<1> QED BY <1>1, <1>2, <1>3 DEF BaseInv

(* A committed write of the source. *)
LEMMA BaseChange == ASSUME BaseInv, NEW op \in Ops, Change(op) PROVE BaseInv'
<1> USE VersionFacts DEF BaseInv, Change
<1>1. TypeOK'
  <2>1. overlapped' \in BOOLEAN
    BY DEF TypeOK, Settled
  <2> QED BY <2>1 DEF TypeOK, Settled
<1>2. RunInv'
  BY DEF RunInv, Target
<1>3. WriteInv'
  BY DEF WriteInv
<1> QED BY <1>1, <1>2, <1>3

(* The change agent's own steps: claim, build, stage, finish. *)
LEMMA BaseRun ==
  ASSUME BaseInv, (\E op \in Ops : Claim(op)) \/ BuildItem \/ Stage \/ Finish
  PROVE  BaseInv'
<1> USE VersionFacts, OrderFacts DEF BaseInv
<1>1. CASE \E op \in Ops : Claim(op)
  <2>1. PICK op \in Ops : Claim(op)
    BY <1>1
  <2> USE <2>1 DEF Claim
  <2>2. run' = [at |-> "claimed", change |-> op, ver |-> Null, next |-> 1]
    BY DEF NoRun
  <2>3. TypeOK'
    BY <2>2 DEF TypeOK
  <2>4. RunInv'
    BY <2>2 DEF RunInv, NoRun, NoCall, Target
  <2>5. WriteInv'
    BY DEF WriteInv
  <2> QED BY <2>3, <2>4, <2>5
<1>2. CASE BuildItem
  <2> USE <1>2 DEF BuildItem
  <2>1. TypeOK'
    BY DEF TypeOK
  <2>2. RunInv'
    BY DEF RunInv, TypeOK, NoRun, NoCall, Target
  <2>3. WriteInv'
    BY DEF WriteInv
  <2> QED BY <2>1, <2>2, <2>3
<1>3. CASE Stage
  <2> USE <1>3 DEF Stage
  <2>0. Target \in Targets
    BY DEF RunInv, Target
  <2>1. TypeOK'
    BY <2>0 DEF TypeOK, Call, ApplySteps
  <2>2. RunInv'
    <3>1. Target' = Target
      BY DEF TypeOK, Target
    <3> QED BY <2>0, <3>1 DEF RunInv, TypeOK, NoRun, NoCall
  <2>3. WriteInv'
    BY DEF WriteInv
  <2> QED BY <2>1, <2>2, <2>3
<1>4. CASE Finish
  <2> USE <1>4 DEF Finish
  <2>1. TypeOK'
    BY NoRunType DEF TypeOK
  <2>2. RunInv'
    BY DEF RunInv, NoRun, NoCall, Target
  <2>3. WriteInv'
    BY DEF WriteInv
  <2> QED BY <2>1, <2>2, <2>3
<1> QED BY <1>1, <1>2, <1>3, <1>4

(* A push, acknowledged or lost, a handler left alone, and a kill. *)
LEMMA BasePush ==
  ASSUME BaseInv, PushStep \/ Acknowledged \/ PushFails \/ ReplyLost \/ OrphanStep \/ Crash
  PROVE  BaseInv'
<1> USE VersionFacts, OrderFacts DEF BaseInv
<1>1. CASE PushStep
  <2> USE <1>1 DEF PushStep
  <2>0. /\ run.at = "wait"
        /\ push.server = Target
        /\ Target \in Targets
        /\ push.at \in {"load", "write"}
    BY DEF RunInv, NoCall, ApplyStep, Target
  <2>1. PICK c : c = push /\ c \in Call /\ c.at \in {"load", "write"} /\ c.server \in Targets
    BY <2>0 DEF TypeOK
  <2>2. ApplyStep(c, c.server) /\ c.ver \in Versions \cup {Null}
    BY <2>1 DEF Call
  <2>3. /\ cache' \in [Targets -> Versions \cup {Null, NoFile}]
        /\ \A t \in Targets : cache[t] # NoFile => cache'[t] # NoFile
    BY <2>1, <2>2, ApplyStepFacts
  <2>4. /\ push' \in Call
        /\ push'.ver = push.ver
        /\ push'.server = push.server
        /\ push'.at \in {"write", "done"}
        /\ push'.at = "write" => cache[push.server] # NoFile
    BY <2>1, AppliedFacts
  <2>5. TypeOK'
    BY <2>3, <2>4 DEF TypeOK
  <2>6. RunInv'
    <3>1. Target' = Target
      BY DEF Target
    <3> QED BY <2>0, <2>4, <3>1 DEF RunInv
  <2>7. WriteInv'
    BY <2>0, <2>3, <2>4 DEF WriteInv, TypeOK, RunInv, Members
  <2> QED BY <2>5, <2>6, <2>7
<1>2. CASE Acknowledged
  <2> USE <1>2 DEF Acknowledged
  <2>0. run.at = "wait"
    OBVIOUS
  <2>1. TypeOK'
    BY <2>0, NextTargetFacts DEF TypeOK, NoCall, Call, ApplySteps
  <2>2. RunInv'
    BY <2>0, NextTargetFacts DEF RunInv, NoCall
  <2>3. WriteInv'
    BY DEF WriteInv, NoCall
  <2> QED BY <2>1, <2>2, <2>3
<1>3. CASE PushFails
  <2> USE <1>3 DEF PushFails, Mishap
  <2>0. run.at = "wait"
    OBVIOUS
  <2>1. TypeOK'
    BY <2>0, NextTargetFacts DEF TypeOK, NoCall, Call, ApplySteps
  <2>2. RunInv'
    BY <2>0, NextTargetFacts DEF RunInv, NoCall
  <2>3. WriteInv'
    BY DEF WriteInv, NoCall
  <2> QED BY <2>1, <2>2, <2>3
<1>4. CASE ReplyLost
  <2> USE <1>4 DEF ReplyLost, Mishap
  <2>0. run.at = "wait"
    OBVIOUS
  <2>1. TypeOK'
    BY <2>0, NextTargetFacts DEF TypeOK, NoCall, Call, ApplySteps
  <2>2. RunInv'
    BY <2>0, NextTargetFacts DEF RunInv, NoCall
  <2>3. WriteInv'
    BY DEF WriteInv, NoCall
  <2> QED BY <2>1, <2>2, <2>3
<1>5. CASE OrphanStep
  <2> USE <1>5 DEF OrphanStep
  <2>0. orphan.at \in {"load", "write"} /\ orphan.server \in Targets
    BY DEF ApplyStep, RunInv
  <2>1. PICK c : c = orphan /\ c \in Call /\ c.at \in {"load", "write"} /\ c.server \in Targets
    BY <2>0 DEF TypeOK
  <2>2. ApplyStep(c, c.server) /\ c.ver \in Versions \cup {Null}
    BY <2>1 DEF Call
  <2>3. /\ cache' \in [Targets -> Versions \cup {Null, NoFile}]
        /\ \A t \in Targets : cache[t] # NoFile => cache'[t] # NoFile
    BY <2>1, <2>2, ApplyStepFacts
  <2>4. \/ orphan' = NoCall
        \/ /\ orphan' \in Call
           /\ orphan'.server = orphan.server
           /\ orphan'.at = "write"
           /\ cache[orphan.server] # NoFile
    BY <2>1, AppliedFacts
  <2>5. TypeOK'
    BY <2>3, <2>4 DEF TypeOK, NoCall, Call, ApplySteps
  <2>6. RunInv'
    BY <2>0, <2>4 DEF RunInv, NoCall, Target
  <2>7. WriteInv'
    BY <2>0, <2>3, <2>4 DEF WriteInv, TypeOK, RunInv, Members, NoCall, Target
  <2> QED BY <2>5, <2>6, <2>7
<1>6. CASE Crash
  <2> USE <1>6 DEF Crash, Mishap
  <2>0. push.at \in {"load", "write"} => push.server \in Targets
    BY DEF RunInv, NoCall, Target
  <2>1. TypeOK'
    BY DEF TypeOK, NoCall, NoRun, NoRead, Call, ApplySteps, Ops
  <2>2. RunInv'
    <3>1. \A r \in Readers : reader'[r].at = "write" => reader'[r].server \in Targets
      BY DEF RunInv, NoRead
    <3> QED BY <2>0, <3>1 DEF RunInv, NoCall, NoRun
  <2>3. WriteInv'
    BY DEF WriteInv, NoCall
  <2> QED BY <2>1, <2>2, <2>3
<1> QED BY <1>1, <1>2, <1>3, <1>4, <1>5, <1>6

(* A member's cache agent. *)
LEMMA BaseAgent ==
  ASSUME BaseInv, NEW m \in Members,
         CheckIn(m) \/ FetchWorkItem(m) \/ AgentApply(m) \/ Complete(m) \/ AgentFails(m)
  PROVE  BaseInv'
<1> USE VersionFacts DEF BaseInv
<1>0. m \in Targets
  BY DEF Members
<1>1. CASE CheckIn(m)
  <2> USE <1>1 DEF CheckIn
  <2>1. TypeOK'
    BY DEF TypeOK, NoWork
  <2>2. RunInv'
    BY DEF RunInv, Target
  <2>3. WriteInv'
    BY DEF WriteInv, TypeOK
  <2> QED BY <2>1, <2>2, <2>3
<1>2. CASE FetchWorkItem(m)
  <2> USE <1>2 DEF FetchWorkItem
  <2>1. TypeOK'
    BY <1>0 DEF TypeOK, NoWork, ApplySteps
  <2>2. RunInv'
    BY DEF RunInv, Target
  <2>3. WriteInv'
    BY DEF WriteInv, TypeOK, NoWork
  <2> QED BY <2>1, <2>2, <2>3
<1>3. CASE AgentApply(m)
  <2> USE <1>3 DEF AgentApply
  <2>1. PICK c : c = agent[m]
    OBVIOUS
  <2>2. /\ c \in [at : ApplySteps \cup {"fetch"}, ver : Versions \cup {Null}]
        /\ ApplyStep(c, m)
        /\ c.at \in {"load", "write"}
    BY <2>1 DEF TypeOK, ApplyStep
  <2>3. /\ cache' \in [Targets -> Versions \cup {Null, NoFile}]
        /\ \A t \in Targets : cache[t] # NoFile => cache'[t] # NoFile
    BY <1>0, <2>2, ApplyStepFacts
  <2>4. /\ Applied(c, m) \in [at : ApplySteps \cup {"fetch"}, ver : Versions \cup {Null}]
        /\ Applied(c, m).at = "write" => cache[m] # NoFile
    BY <2>2, AppliedWorkFacts
  <2>5. agent' = [agent EXCEPT ![m] = Applied(c, m)]
    BY <2>1
  <2>6. TypeOK'
    BY <2>3, <2>4, <2>5 DEF TypeOK
  <2>7. RunInv'
    BY DEF RunInv, Target
  <2>8. WriteInv'
    BY <1>0, <2>3, <2>4, <2>5, OrderFacts
       DEF WriteInv, TypeOK, RunInv, Members, NoCall, Target
  <2> QED BY <2>6, <2>7, <2>8
<1>4. CASE Complete(m)
  <2> USE <1>4 DEF Complete
  <2>1. TypeOK'
    BY <1>0 DEF TypeOK, NoWork, ApplySteps
  <2>2. RunInv'
    BY DEF RunInv, Target
  <2>3. WriteInv'
    BY DEF WriteInv, TypeOK, NoWork
  <2> QED BY <2>1, <2>2, <2>3
<1>5. CASE AgentFails(m)
  <2> USE <1>5 DEF AgentFails, Mishap
  <2>1. TypeOK'
    BY DEF TypeOK, NoWork, ApplySteps
  <2>2. RunInv'
    BY DEF RunInv, Target
  <2>3. WriteInv'
    BY DEF WriteInv, TypeOK, NoWork
  <2> QED BY <2>1, <2>2, <2>3
<1> QED BY <1>1, <1>2, <1>3, <1>4, <1>5

(* A read that finds no cache file and leaves a stub. *)
LEMMA BaseRead ==
  ASSUME BaseInv, NEW r \in Readers, EnsureStub(r) \/ \E m \in Targets : ReadAbsent(r, m)
  PROVE  BaseInv'
<1> USE VersionFacts DEF BaseInv
<1>1. CASE EnsureStub(r)
  <2> USE <1>1 DEF EnsureStub
  <2>0. PICK m : m = reader[r].server /\ m \in Targets
    BY DEF RunInv
  <2>1. cache' = [cache EXCEPT ![m] = Null]
    BY <2>0
  <2>2. /\ cache' \in [Targets -> Versions \cup {Null, NoFile}]
        /\ \A t \in Targets : cache[t] # NoFile => cache'[t] # NoFile
    BY <2>0, <2>1 DEF TypeOK
  <2>3. stubbed' \subseteq Targets
    BY <2>0 DEF TypeOK
  <2>4. TypeOK'
    BY <2>2, <2>3 DEF TypeOK, NoRead
  <2>5. RunInv'
    BY DEF RunInv, TypeOK, NoRead, Target
  <2>6. WriteInv'
    BY <2>2, OrderFacts DEF WriteInv, TypeOK, RunInv, Members, NoCall, Target
  <2> QED BY <2>4, <2>5, <2>6
<1>2. CASE \E m \in Targets : ReadAbsent(r, m)
  <2>1. PICK m \in Targets : ReadAbsent(r, m)
    BY <1>2
  <2> USE <2>1 DEF ReadAbsent
  <2>2. TypeOK'
    BY DEF TypeOK
  <2>3. RunInv'
    BY DEF RunInv, TypeOK, Target
  <2>4. WriteInv'
    BY DEF WriteInv
  <2> QED BY <2>2, <2>3, <2>4
<1> QED BY <1>1, <1>2

(* A step that changes nothing. *)
LEMMA BaseStutter == ASSUME BaseInv, UNCHANGED vars PROVE BaseInv'
BY DEF BaseInv, vars, TypeOK, RunInv, WriteInv, Target

(* Every step keeps the types, the run and the files to write. *)
LEMMA BaseStep == BaseInv /\ [Next]_vars => BaseInv'
<1> SUFFICES ASSUME BaseInv, [Next]_vars PROVE BaseInv'
  OBVIOUS
<1> QED
  BY BaseChange, BaseRun, BasePush, BaseAgent, BaseRead, BaseStutter DEF Next

-----------------------------------------------------------------------------
(* Changes that do not overlap *)

(* A run that has not staged anything has passed no server. *)
LEMMA NotPassedFacts ==
  ASSUME run.next = 1, run.at # "wait", NEW m PROVE ~Passed(m)
BY OrderFacts DEF Passed

(* A run at the end of the list has passed every server. *)
LEMMA AllPassed ==
  ASSUME run.next = Len(Order) + 1, NEW m \in Targets PROVE Passed(m)
BY OrderFacts DEF Passed

(* Moving on to the next target passes no server that was not passed.      *)
LEMMA MovePassesNone ==
  ASSUME TypeOK, RunInv, run.at = "wait", run' = NextTarget, NEW m, Passed(m)'
  PROVE  Passed(m)
<1>1. PICK i \in DOMAIN Order :
        Order[i] = m /\ (i < run'.next \/ (i = run'.next /\ run'.at = "wait"))
  BY DEF Passed
<1>2. run'.at # "wait" /\ run'.next = run.next + 1
  BY NextTargetFacts
<1>3. run.next \in Nat /\ i \in Nat
  BY OrderFacts DEF TypeOK
<1>4. i < run.next \/ i = run.next
  BY <1>1, <1>2, <1>3
<1> QED BY <1>1, <1>4 DEF Passed

(* Writing the live version where a file is, or nowhere, makes no server   *)
(* fall behind.                                                            *)
LEMMA ApplyKeepsUpToDate ==
  ASSUME UNCHANGED <<live, had, stubbed>>, NEW m \in Targets,
         \A t \in Targets : t # m => cache'[t] = cache[t],
         cache'[m] \in {cache[m], live}
  PROVE  \A t \in Targets : /\ UpToDate(t) => UpToDate(t)'
                            /\ Done(t) => Done(t)'
BY DEF UpToDate, Done

(* At first there is nothing to distribute. *)
LEMMA CalmInit == Init => CalmInv
<1> SUFFICES ASSUME Init PROVE Calm
  BY DEF CalmInv
<1>1. \A m \in Targets : UpToDate(m)
  BY DEF Init, UpToDate
<1> QED BY <1>1 DEF Init, Calm, NoRun, NoCall, NoWork

(* A write that finds all distributed starts over. *)
LEMMA CalmChange == ASSUME BaseInv, CalmInv, NEW op \in Ops, Change(op) PROVE CalmInv'
<1> SUFFICES ASSUME ~overlapped' PROVE Calm'
  BY DEF CalmInv
<1> USE VersionFacts DEF Change
<1>1. Settled
  OBVIOUS
<1>2. queue' \cup taken' = {op} /\ (op = "delete" <=> live' = Null)
  BY <1>1 DEF Settled, BaseInv, TypeOK
<1>3. run' = NoRun /\ orphan' = NoCall /\ push' = NoCall
  BY <1>1 DEF Settled, BaseInv, RunInv, NoRun
<1>4. \A m \in Targets : ~Passed(m)'
  BY <1>3, OrderFacts DEF Passed, NoRun
<1>5. \A m \in Targets : pending'[m] = NoFile
  BY <1>1 DEF Settled
<1>6. \A m \in Members : agent'[m] = NoWork
  BY <1>1 DEF Settled
<1> QED BY <1>2, <1>3, <1>4, <1>5, <1>6 DEF Calm, NoRun, NoCall, NoWork

(* The change agent's own steps. *)
LEMMA CalmRun ==
  ASSUME BaseInv, CalmInv, (\E op \in Ops : Claim(op)) \/ BuildItem \/ Stage \/ Finish
  PROVE  CalmInv'
<1> SUFFICES ASSUME ~overlapped' PROVE Calm'
  BY DEF CalmInv
<1>0. Calm /\ UNCHANGED <<live, cache, orphan, agent, had, stubbed>>
  BY DEF CalmInv, Claim, BuildItem, Stage, Finish
<1>U. \A m \in Targets : (UpToDate(m) <=> UpToDate(m)') /\ (Done(m) <=> Done(m)')
  BY <1>0 DEF UpToDate, Done
<1>M. \A m \in Members : m \in Targets
  BY DEF Members
<1>1. CASE \E op \in Ops : Claim(op)
  <2>1. PICK op \in Ops : Claim(op)
    BY <1>1
  <2>2. /\ run'.at = "claimed" /\ run'.next = 1
        /\ run.at = "idle" /\ run.next = 1
        /\ push' = NoCall
        /\ pending' = pending
    BY <2>1 DEF Claim, NoRun, BaseInv, RunInv
  <2>3. \A m \in Targets : ~Passed(m)'
    BY <2>2, OrderFacts DEF Passed
  <2>4. queue' \cup taken' = queue \cup taken
    BY <2>1 DEF Claim
  <2>5. \A m \in Targets : ~Passed(m)
    BY <2>2, OrderFacts DEF Passed
  <2> QED BY <1>0, <1>U, <1>M, <2>2, <2>3, <2>4, <2>5 DEF Calm, NoCall
<1>2. CASE BuildItem
  <2> USE <1>2 DEF BuildItem
  <2>1. run.change \in taken /\ run.next = 1 /\ push' = NoCall
    BY DEF BaseInv, RunInv
  <2>2. Order # <<>> => run'.at = "stage" /\ run'.ver = live /\ run'.next = 1
    BY <1>0, <2>1 DEF Calm, BaseInv, TypeOK
  <2>3. Order = <<>> => run'.at = "finish" /\ run'.next = Len(Order) + 1
    BY <2>1 DEF BaseInv, TypeOK
  <2>4. \A m \in Targets : ~Passed(m)' /\ ~Passed(m)
    BY <2>1, <2>2, <2>3, OrderFacts DEF Passed, BaseInv, TypeOK
  <2> QED BY <1>0, <1>U, <1>M, <2>1, <2>2, <2>3, <2>4 DEF Calm, NoCall
<1>3. CASE Stage
  <2> USE <1>3 DEF Stage
  <2>1. Target \in Targets /\ run.ver = live
    BY <1>0, OrderFacts DEF BaseInv, RunInv, Target, Calm
  <2>2. /\ pending'[Target] = live
        /\ \A m \in Targets : m # Target => pending'[m] = pending[m]
    BY <2>1 DEF BaseInv, TypeOK
  <2>3. run'.at = "wait" /\ run'.ver = live /\ run'.next = run.next
    BY <2>1 DEF BaseInv, TypeOK
  <2>4. \A m \in Targets : m # Target /\ Passed(m)' => Passed(m)
    BY <2>3 DEF Passed, Target
  <2>5. live # NoFile
    BY VersionFacts DEF BaseInv, TypeOK
  <2>6. push'.at # "done"
    OBVIOUS
  <2>7. \A m \in Targets :
          /\ pending'[m] \in {NoFile, live'}
          /\ \/ UpToDate(m)'
             \/ pending'[m] # NoFile
             \/ queue' \cup taken' # {} /\ ~Passed(m)'
    BY <1>0, <1>U, <2>1, <2>2, <2>4, <2>5 DEF Calm
  <2> QED BY <1>0, <1>U, <1>M, <2>3, <2>6, <2>7 DEF Calm
<1>4. CASE Finish
  <2> USE <1>4 DEF Finish
  <2>1. run.next = Len(Order) + 1 /\ push' = NoCall
    BY <1>0 DEF Calm, BaseInv, RunInv
  <2>2. \A m \in Targets : Passed(m)
    BY <2>1, AllPassed
  <2> QED BY <1>0, <1>U, <1>M, <2>1, <2>2 DEF Calm, NoRun, NoCall
<1> QED BY <1>1, <1>2, <1>3, <1>4

(* A step of a call for m that carries the live version: servers stay up   *)
(* to date, and when the call is done m is.                                *)
LEMMA ApplyHeeds ==
  ASSUME BaseInv, UNCHANGED <<live, had, stubbed>>, NEW m \in Targets,
         NEW c, NEW at, c.at = at, c.ver = live, ApplyStep(c, m)
  PROVE  /\ \A t \in Targets : (UpToDate(t) => UpToDate(t)') /\ (Done(t) => Done(t)')
         /\ at = "write" => Done(m)'
         /\ at = "load" /\ (cache[m] = NoFile \/ cache[m] = live) => Done(m)'
<1>1. live \in Versions \cup {Null} /\ TypeOK /\ WriteInv
  BY DEF BaseInv, TypeOK
<1>2. PICK ver \in Versions \cup {Null} : ver = live
  BY <1>1
<1>3. /\ \A t \in Targets : t # m => cache'[t] = cache[t]
      /\ at = "write" => cache'[m] = ver
      /\ at # "write" => cache' = cache
      /\ at \in {"load", "write"}
  BY <1>1, <1>2, ApplyStepFacts
<1>4. cache'[m] \in {cache[m], live}
  BY <1>2, <1>3
<1>5. \A t \in Targets : (UpToDate(t) => UpToDate(t)') /\ (Done(t) => Done(t)')
  BY <1>3, <1>4, ApplyKeepsUpToDate
<1>6. at = "write" => Done(m)'
  BY <1>2, <1>3 DEF Done, UpToDate
<1>7. at = "load" /\ (cache[m] = NoFile \/ cache[m] = live) => Done(m)'
  BY <1>1, <1>3 DEF Done, UpToDate, WriteInv
<1> QED BY <1>5, <1>6, <1>7

(* The push of a run. *)
LEMMA CalmPush ==
  ASSUME BaseInv, CalmInv, PushStep \/ Acknowledged \/ PushFails \/ ReplyLost
  PROVE  CalmInv'
<1> SUFFICES ASSUME ~overlapped' PROVE Calm'
  BY DEF CalmInv
<1>0. /\ Calm /\ TypeOK /\ RunInv
      /\ UNCHANGED <<live, queue, taken, agent, had, stubbed>>
  BY DEF CalmInv, PushStep, Acknowledged, PushFails, ReplyLost, BaseInv
<1>M. \A m \in Members : m \in Targets
  BY DEF Members
<1>1. CASE PushStep
  <2> USE <1>1 DEF PushStep
  <2>0. /\ run.at = "wait"
        /\ push.server = Target
        /\ Target \in Targets
        /\ push.ver = live
        /\ push.at \in {"load", "write"}
        /\ push \in Call
    BY <1>0, OrderFacts DEF RunInv, NoCall, ApplyStep, Target, Calm, TypeOK
  <2>1. PICK c : c = push
    OBVIOUS
  <2>2. /\ c \in Call /\ c.at \in {"load", "write"} /\ c.server \in Targets
        /\ ApplyStep(c, c.server) /\ c.ver = live
    BY <2>0, <2>1
  <2>3. /\ \A t \in Targets : (UpToDate(t) => UpToDate(t)') /\ (Done(t) => Done(t)')
        /\ c.at = "write" => Done(c.server)'
        /\ c.at = "load" /\ (cache[c.server] = NoFile \/ cache[c.server] = live)
             => Done(c.server)'
    BY <1>0, <2>2, ApplyHeeds
  <2>4. /\ push'.ver = c.ver
        /\ push'.server = c.server
        /\ c.at = "load" /\ push'.at = "done" =>
               cache[c.server] = NoFile \/ cache[c.server] = c.ver
    BY <2>1, <2>2, AppliedFacts
  <2>5. push'.at = "done" => Done(c.server)'
    BY <2>2, <2>3, <2>4
  <2>6. push'.at = "done" => Done(push.server)'
    BY <2>5, <2>4, <2>1 DEF Done, UpToDate
  <2>7. \A m \in Targets : Passed(m)' <=> Passed(m)
    BY DEF Passed
  <2> QED BY <1>0, <1>M, <2>3, <2>6, <2>7 DEF Calm
<1>2. CASE Acknowledged \/ PushFails \/ ReplyLost
  <2>1. /\ run.at = "wait" /\ run' = NextTarget /\ push' = NoCall
        /\ cache' = cache
    BY <1>2 DEF Acknowledged, PushFails, ReplyLost
  <2>2. /\ run'.ver = live
        /\ run'.at \in {"stage", "finish"}
        /\ run'.at = "finish" => run'.next = Len(Order) + 1
        /\ Target \in Targets
    BY <1>0, <2>1, NextTargetFacts DEF Calm
  <2>3. \A m \in Targets : Passed(m)' => Passed(m)
    BY <1>0, <2>1, MovePassesNone
  <2>4. \A m \in Targets : (UpToDate(m) <=> UpToDate(m)') /\ (Done(m) <=> Done(m)')
    BY <1>0, <2>1 DEF UpToDate, Done
  <2>5. \A m \in Targets :
          \/ pending'[m] = pending[m]
          \/ pending'[m] = NoFile /\ UpToDate(m)
    <3>1. CASE Acknowledged
      <4>1. push.server = Target /\ Done(push.server)
        BY <1>0, <3>1 DEF Acknowledged, RunInv, Calm
      <4>2. UpToDate(Target)
        BY <4>1 DEF Done, UpToDate
      <4> QED BY <1>0, <2>2, <3>1, <4>2 DEF Acknowledged, TypeOK
    <3>2. CASE PushFails \/ ReplyLost
      BY <3>2 DEF PushFails, ReplyLost
    <3> QED BY <1>2, <3>1, <3>2
  <2>6. orphan'.at # "idle" => orphan'.ver = live
    <3>1. CASE Acknowledged \/ PushFails
      BY <1>0, <3>1 DEF Acknowledged, PushFails, Calm
    <3>2. CASE ReplyLost
      BY <1>0, <3>2 DEF ReplyLost, Calm, RunInv
    <3> QED BY <1>2, <3>1, <3>2
  <2>7. \A m \in Targets :
          /\ pending'[m] \in {NoFile, live'}
          /\ \/ UpToDate(m)'
             \/ pending'[m] # NoFile
             \/ queue' \cup taken' # {} /\ ~Passed(m)'
    BY <1>0, <2>3, <2>4, <2>5 DEF Calm
  <2> QED BY <1>0, <1>M, <2>1, <2>2, <2>4, <2>6, <2>7 DEF Calm, NoCall
<1> QED BY <1>1, <1>2

(* A handler whose client has gone, and a kill of the SOT. *)
LEMMA CalmOrphan == ASSUME BaseInv, CalmInv, OrphanStep \/ Crash PROVE CalmInv'
<1> SUFFICES ASSUME ~overlapped' PROVE Calm'
  BY DEF CalmInv
<1>0. /\ Calm /\ TypeOK /\ RunInv
      /\ UNCHANGED <<live, queue, taken, pending, agent, had, stubbed>>
  BY DEF CalmInv, OrphanStep, Crash, BaseInv
<1>M. \A m \in Members : m \in Targets
  BY DEF Members
<1>1. CASE OrphanStep
  <2>0. /\ orphan.at \in {"load", "write"}
        /\ orphan.server \in Targets
        /\ orphan.ver = live
        /\ orphan \in Call
        /\ ApplyStep(orphan, orphan.server)
        /\ orphan' \in {NoCall, Applied(orphan, orphan.server)}
        /\ push' = push /\ run' = run
    BY <1>0, <1>1 DEF OrphanStep, ApplyStep, RunInv, Calm, TypeOK
  <2>1. PICK c : c = orphan
    OBVIOUS
  <2>2. /\ c \in Call /\ c.at \in {"load", "write"} /\ c.server \in Targets
        /\ ApplyStep(c, c.server) /\ c.ver = live
    BY <2>0, <2>1
  <2>3. \A t \in Targets : (UpToDate(t) => UpToDate(t)') /\ (Done(t) => Done(t)')
    BY <1>0, <2>2, ApplyHeeds
  <2>4. orphan'.at # "idle" => orphan'.ver = live
    BY <2>0, <2>1, <2>2, AppliedFacts DEF NoCall
  <2>5. push.at = "done" => push.server \in Targets
    BY <1>0, OrderFacts DEF RunInv, NoCall, Target
  <2>6. push'.at = "done" => Done(push.server)'
    BY <1>0, <2>0, <2>3, <2>5 DEF Calm, Done, UpToDate
  <2>7. \A m \in Targets : Passed(m)' <=> Passed(m)
    BY <2>0 DEF Passed
  <2> QED BY <1>0, <1>M, <2>0, <2>3, <2>4, <2>6, <2>7 DEF Calm
<1>2. CASE Crash
  <2>1. /\ run' = NoRun /\ push' = NoCall /\ cache' = cache
        /\ run # NoRun
        /\ orphan' = orphan \/ (orphan' = push /\ push.at # "idle" /\ push.at # "done")
    BY <1>2 DEF Crash
  <2>2. taken # {}
    BY <1>0, <2>1 DEF RunInv
  <2>3. \A m \in Targets : ~Passed(m)'
    BY <2>1, OrderFacts DEF Passed, NoRun
  <2>4. \A m \in Targets : (UpToDate(m) <=> UpToDate(m)') /\ (Done(m) <=> Done(m)')
    BY <1>0, <2>1 DEF UpToDate, Done
  <2>5. orphan'.at # "idle" => orphan'.ver = live
    BY <1>0, <2>1 DEF Calm, RunInv, NoCall
  <2> QED BY <1>0, <1>M, <2>1, <2>2, <2>3, <2>4, <2>5 DEF Calm, NoRun, NoCall
<1> QED BY <1>1, <1>2

(* A member's cache agent. *)
LEMMA CalmAgent ==
  ASSUME BaseInv, CalmInv, NEW m \in Members,
         CheckIn(m) \/ FetchWorkItem(m) \/ AgentApply(m) \/ Complete(m) \/ AgentFails(m)
  PROVE  CalmInv'
<1> SUFFICES ASSUME ~overlapped' PROVE Calm'
  BY DEF CalmInv
<1>0. /\ Calm /\ TypeOK /\ RunInv
      /\ UNCHANGED <<live, queue, taken, run, push, orphan, had, stubbed>>
  BY DEF CalmInv, CheckIn, FetchWorkItem, AgentApply, Complete, AgentFails, BaseInv
<1>M. \A t \in Members : t \in Targets
  BY DEF Members
<1>P. \A t \in Targets : Passed(t)' <=> Passed(t)
  BY <1>0 DEF Passed
<1>1. CASE AgentApply(m)
  <2>1. PICK c : c = agent[m]
    OBVIOUS
  <2>2. /\ c \in [at : ApplySteps \cup {"fetch"}, ver : Versions \cup {Null}]
        /\ ApplyStep(c, m)
        /\ c.at \in {"load", "write"}
        /\ c.ver = live
        /\ agent' = [agent EXCEPT ![m] = Applied(c, m)]
        /\ pending' = pending
    BY <1>0, <1>1, <2>1 DEF AgentApply, TypeOK, ApplyStep, Calm
  <2>3. /\ \A t \in Targets : (UpToDate(t) => UpToDate(t)') /\ (Done(t) => Done(t)')
        /\ c.at = "write" => Done(m)'
        /\ c.at = "load" /\ (cache[m] = NoFile \/ cache[m] = live) => Done(m)'
    BY <1>0, <1>M, <2>2, ApplyHeeds
  <2>4. /\ Applied(c, m).ver = live
        /\ c.at = "load" /\ Applied(c, m).at = "done" => cache[m] = NoFile \/ cache[m] = live
    BY <2>2, AppliedWorkFacts
  <2>5. Applied(c, m).at = "done" => Done(m)'
    BY <2>2, <2>3, <2>4
  <2>6. /\ agent'[m] = Applied(c, m)
        /\ \A t \in Members : t # m => agent'[t] = agent[t]
    BY <1>0, <2>2 DEF TypeOK
  <2>7. \A t \in Members :
          /\ agent'[t].at \in {"load", "write", "done"} => agent'[t].ver = live'
          /\ agent'[t].at = "done" => Done(t)'
    <3> TAKE t \in Members
    <3>1. CASE t = m
      BY <1>0, <2>4, <2>5, <2>6, <3>1
    <3>2. CASE t # m
      BY <1>0, <1>M, <2>3, <2>6, <3>2 DEF Calm
    <3> QED BY <3>1, <3>2
  <2>8. push.at = "done" => push.server \in Targets
    BY <1>0, OrderFacts DEF RunInv, NoCall, Target
  <2>9. push'.at = "done" => Done(push.server)'
    BY <1>0, <2>3, <2>8 DEF Calm, Done, UpToDate
  <2> QED BY <1>0, <1>P, <2>2, <2>3, <2>7, <2>9 DEF Calm
<1>2. CASE CheckIn(m) \/ FetchWorkItem(m) \/ Complete(m) \/ AgentFails(m)
  <2>1. cache' = cache
    BY <1>2 DEF CheckIn, FetchWorkItem, Complete, AgentFails
  <2>2. \A t \in Targets : (UpToDate(t) <=> UpToDate(t)') /\ (Done(t) <=> Done(t)')
    BY <1>0, <2>1 DEF UpToDate, Done
  <2>3. push'.at = "done" => Done(push.server)'
    BY <1>0, <2>1 DEF Calm, Done, UpToDate
  <2>4. /\ agent'[m].at \notin {"write", "done"}
        /\ agent'[m].at = "load" => agent'[m].ver = live
        /\ \A t \in Members : t # m => agent'[t] = agent[t]
    <3>1. CASE CheckIn(m)
      BY <1>0, <3>1 DEF CheckIn, NoWork, TypeOK
    <3>2. CASE FetchWorkItem(m)
      BY <1>0, <1>M, <3>2 DEF FetchWorkItem, NoWork, TypeOK, Calm
    <3>3. CASE Complete(m) \/ AgentFails(m)
      BY <1>0, <3>3 DEF Complete, AgentFails, NoWork, TypeOK
    <3> QED BY <1>2, <3>1, <3>2, <3>3
  <2>5. \A t \in Targets :
          \/ pending'[t] = pending[t]
          \/ pending'[t] = NoFile /\ UpToDate(t)
    <3>1. CASE Complete(m)
      <4>1. UpToDate(m)
        BY <1>0, <3>1 DEF Complete, Calm, Done
      <4> QED BY <1>0, <3>1, <4>1 DEF Complete, TypeOK
    <3>2. CASE CheckIn(m) \/ FetchWorkItem(m) \/ AgentFails(m)
      BY <3>2 DEF CheckIn, FetchWorkItem, AgentFails
    <3> QED BY <1>2, <3>1, <3>2
  <2>6. \A t \in Targets :
          /\ pending'[t] \in {NoFile, live'}
          /\ \/ UpToDate(t)'
             \/ pending'[t] # NoFile
             \/ queue' \cup taken' # {} /\ ~Passed(t)'
    BY <1>0, <1>P, <2>2, <2>5 DEF Calm
  <2>7. \A t \in Members :
          /\ agent'[t].at \in {"load", "write", "done"} => agent'[t].ver = live'
          /\ agent'[t].at = "done" => Done(t)'
    BY <1>0, <1>M, <2>2, <2>4 DEF Calm
  <2> QED BY <1>0, <2>3, <2>6, <2>7 DEF Calm
<1> QED BY <1>1, <1>2

(* A stub replaces a cache file only where that is recorded. *)
LEMMA CalmRead ==
  ASSUME BaseInv, CalmInv, NEW r \in Readers,
         EnsureStub(r) \/ \E m \in Targets : ReadAbsent(r, m)
  PROVE  CalmInv'
<1> SUFFICES ASSUME ~overlapped' PROVE Calm'
  BY DEF CalmInv
<1>0. /\ Calm /\ TypeOK /\ RunInv /\ WriteInv
      /\ UNCHANGED <<live, queue, taken, run, pending, push, orphan, agent, had>>
  BY DEF CalmInv, EnsureStub, ReadAbsent, BaseInv
<1>1. \A t \in Targets : (UpToDate(t) => UpToDate(t)') /\ (Done(t) => Done(t)')
  <2>1. CASE EnsureStub(r)
    <3>1. PICK m \in Targets :
            /\ cache' = [cache EXCEPT ![m] = Null]
            /\ stubbed' = IF cache[m] \in Versions THEN stubbed \cup {m} ELSE stubbed
      BY <1>0, <2>1 DEF EnsureStub, RunInv
    <3>2. /\ cache'[m] = Null
          /\ \A t \in Targets : t # m => cache'[t] = cache[t]
          /\ stubbed \subseteq stubbed'
      BY <1>0, <3>1 DEF TypeOK
    <3>3. (UpToDate(m) => UpToDate(m)') /\ (Done(m) => Done(m)')
      <4>1. CASE cache[m] \in Versions
        BY <3>1, <3>2, <4>1 DEF UpToDate, Done
      <4>2. CASE cache[m] = Null
        BY <1>0, <3>2, <4>2 DEF UpToDate, Done
      <4>3. CASE cache[m] = NoFile
        BY <1>0, <3>2, <4>3 DEF UpToDate, Done, WriteInv
      <4> QED BY <1>0, <4>1, <4>2, <4>3 DEF TypeOK
    <3>4. ASSUME NEW t \in Targets, t # m
          PROVE  (UpToDate(t) => UpToDate(t)') /\ (Done(t) => Done(t)')
      BY <1>0, <3>2, <3>4 DEF UpToDate, Done
    <3> QED BY <3>3, <3>4
  <2>2. CASE \E m \in Targets : ReadAbsent(r, m)
    BY <1>0, <2>2 DEF ReadAbsent, UpToDate, Done
  <2> QED BY <2>1, <2>2
<1>2. push.at = "done" => push.server \in Targets
  BY <1>0, OrderFacts DEF RunInv, NoCall, Target
<1>3. push'.at = "done" => Done(push.server)'
  BY <1>0, <1>1, <1>2 DEF Calm, Done, UpToDate
<1>4. \A t \in Targets : Passed(t)' <=> Passed(t)
  BY <1>0 DEF Passed
<1>5. \A t \in Members : t \in Targets
  BY DEF Members
<1> QED BY <1>0, <1>1, <1>3, <1>4, <1>5 DEF Calm

(* A step that changes nothing. *)
LEMMA CalmStutter == ASSUME CalmInv, UNCHANGED vars PROVE CalmInv'
BY DEF CalmInv, Calm, vars, Done, UpToDate, Passed

(* Every step keeps the inductive invariant. *)
LEMMA Step == IInv /\ [Next]_vars => IInv'
<1> SUFFICES ASSUME IInv, [Next]_vars PROVE IInv'
  OBVIOUS
<1>1. BaseInv /\ CalmInv
  BY DEF IInv, BaseInv
<1>2. BaseInv'
  BY <1>1, BaseStep
<1>3. CalmInv'
  BY <1>1, CalmChange, CalmRun, CalmPush, CalmOrphan, CalmAgent, CalmRead, CalmStutter
     DEF Next
<1> QED BY <1>2, <1>3 DEF IInv, BaseInv

-----------------------------------------------------------------------------
(* The theorems *)

(* The inductive invariant holds in every reachable state. *)
LEMMA Invariance == Spec => []IInv
<1>1. Init => IInv
  BY BaseInit, CalmInit DEF IInv, BaseInv
<1> QED BY <1>1, Step, PTL DEF Spec

(* Every variable keeps its type: the run never leaves the list of read    *)
(* servers, and no call is for a server outside it.                        *)
THEOREM TypeCorrect == Spec => []TypeOK
<1>1. IInv => TypeOK
  BY DEF IInv
<1> QED BY <1>1, Invariance, PTL

(* When all of a change has been distributed, every read server that had a *)
(* cache file at the write holds the source's version, or a null revision  *)
(* of a deleted source (distributeCache, Apply and the cache agent), for   *)
(* any list of servers and any failures in between.                        *)
THEOREM CachesCatchUp == Spec => []IsolatedCachesCatchUp
<1>1. IInv => IsolatedCachesCatchUp
  <2> SUFFICES ASSUME IInv, Settled, ~overlapped, NEW m \in had \ stubbed
               PROVE  cache[m] = live
    BY DEF IsolatedCachesCatchUp
  <2>1. m \in Targets /\ Calm
    BY DEF IInv, TypeOK, CalmInv
  <2>2. UpToDate(m)
    BY <2>1 DEF Calm, Settled
  <2> QED BY <2>2 DEF UpToDate
<1> QED BY <1>1, Invariance, PTL

(* A pending update is deleted, by the SOT on an acknowledgement or by     *)
(* handleCompletePendingCacheUpdate, only when its server has applied it,  *)
(* or has nothing to apply it to.                                          *)
THEOREM PendingUpdatesAreNotDropped == Spec => PendingUntilApplied
<1> DEFINE Kept == \A m \in Targets :
                     pending[m] # NoFile /\ pending'[m] = NoFile /\ ~overlapped =>
                        cache[m] \in {NoFile, Null, pending[m]}
<1>1. IInv /\ [Next]_vars => [Kept]_vars
  <2> SUFFICES ASSUME IInv, Next, NEW m \in Targets,
                      pending[m] # NoFile, pending'[m] = NoFile, ~overlapped
               PROVE  cache[m] \in {NoFile, Null, pending[m]}
    OBVIOUS
  <2>0. Calm /\ TypeOK /\ RunInv
    BY DEF IInv, CalmInv
  <2>1. pending[m] = live
    BY <2>0 DEF Calm
  <2>2. CASE Stage
    <3>1. run.ver = live /\ live # NoFile
      BY <2>0, <2>2, VersionFacts DEF Stage, Calm, TypeOK
    <3> QED BY <2>0, <2>2, <3>1 DEF Stage, TypeOK
  <2>3. CASE Acknowledged
    <3>1. push.server = Target /\ Done(push.server)
      BY <2>0, <2>3 DEF Acknowledged, RunInv, Calm
    <3>2. m = Target
      BY <2>0, <2>3 DEF Acknowledged, TypeOK
    <3>3. cache[m] \in {NoFile, Null, live}
      BY <3>1, <3>2 DEF Done
    <3> QED BY <2>1, <3>3
  <2>4. ASSUME NEW t \in Members, Complete(t)
        PROVE  cache[m] \in {NoFile, Null, pending[m]}
    <3>1. Done(t) /\ m = t
      BY <2>0, <2>4 DEF Complete, Calm, TypeOK
    <3> QED BY <2>1, <3>1 DEF Done
  <2>5. CASE pending' = pending
    BY <2>5
  <2> QED
    BY <2>2, <2>3, <2>4, <2>5
       DEF Next, Change, Claim, BuildItem, PushStep, PushFails, ReplyLost, OrphanStep,
           Finish, Crash, CheckIn, FetchWorkItem, AgentApply, AgentFails, EnsureStub,
           ReadAbsent
<1> QED BY <1>1, Invariance, PTL DEF Spec, PendingUntilApplied

(* Apply never creates a cache file: only EnsureStub does, for a read that *)
(* asked for the summary.                                                  *)
THEOREM UpdatesCreateNothing == Spec => OnlyReadsCreate
<1> DEFINE Asked == \A m \in Targets : cache[m] = NoFile /\ cache'[m] # NoFile =>
                      \E r \in Readers : reader[r] = [at |-> "write", server |-> m]
<1>1. IInv /\ [Next]_vars => [Asked]_vars
  <2> SUFFICES ASSUME IInv, Next, NEW m \in Targets,
                      cache[m] = NoFile, cache'[m] # NoFile
               PROVE  \E r \in Readers : reader[r] = [at |-> "write", server |-> m]
    OBVIOUS
  <2>0. TypeOK /\ RunInv /\ WriteInv
    BY DEF IInv
  <2>1. CASE PushStep
    BY <2>0, <2>1 DEF PushStep, ApplyStep, WriteInv, TypeOK
  <2>2. CASE OrphanStep
    BY <2>0, <2>2 DEF OrphanStep, ApplyStep, WriteInv, TypeOK
  <2>3. ASSUME NEW t \in Members, AgentApply(t) PROVE FALSE
    BY <2>0, <2>3 DEF AgentApply, ApplyStep, WriteInv, TypeOK
  <2>4. ASSUME NEW r \in Readers, EnsureStub(r)
        PROVE  reader[r] = [at |-> "write", server |-> m]
    <3>1. reader[r] \in [at : {"idle", "write"}, server : Targets \cup {Self}]
      BY <2>0 DEF TypeOK
    <3>2. reader[r].at = "write" /\ reader[r].server = m
      BY <2>0, <2>4 DEF EnsureStub, TypeOK
    <3> QED BY <3>1, <3>2
  <2>5. CASE cache' = cache
    BY <2>5
  <2> QED
    BY <2>1, <2>2, <2>3, <2>4, <2>5
       DEF Next, Change, Claim, BuildItem, Stage, Acknowledged, PushFails, ReplyLost,
           Finish, Crash, CheckIn, FetchWorkItem, Complete, AgentFails, ReadAbsent
<1> QED BY <1>1, Invariance, PTL DEF Spec, OnlyReadsCreate

=============================================================================

------------------------- MODULE ReplicationProofs --------------------------
(***************************************************************************)
(* Proofs about Replication, for any set of members and any number of      *)
(* writes and mishaps.                                                     *)
(***************************************************************************)
EXTENDS Replication, TLAPS

USE DEF NoDoc

-----------------------------------------------------------------------------
(* Type correctness *)

(* The document is absent at first; the numbers of writes are versions. *)
LEMMA VersionFacts == 0 \in Versions /\ Versions \subseteq Nat
BY ReplicationAssumption DEF Versions

(* Every variable starts with its type. *)
LEMMA TypeInit == Init => TypeOK
<1> SUFFICES ASSUME Init PROVE TypeOK
  OBVIOUS
<1> USE VersionFacts, ReplicationAssumption DEF Init
<1>1. catchup \in [Members -> [item : Item \cup {NoItem}, at : CatchupSteps]]
  BY DEF Idle, CatchupSteps
<1> QED BY <1>1 DEF TypeOK

(* A push that goes on is still a push. *)
LEMMA PushTypes ==
  ASSUME NEW p \in Push
  PROVE  /\ Released(p) \subseteq Push
         /\ \A at \in PushSteps : Moved(p, at) \subseteq Push
BY DEF Push, Released, Moved, PushSteps, ApplySteps, Outcomes

(* One step of Apply keeps the types of the member's files. *)
LEMMA ApplyTypes ==
  ASSUME TypeOK, NEW m \in Members, NEW i \in Item \cup {NoItem}, NEW at, NEW next,
         ApplyStep(m, i, at, next)
  PROVE  /\ mdoc' \in [Members -> Versions]
         /\ mprev' \in [Members -> Versions]
         /\ mishaps' \in Nat
<1> USE VersionFacts DEF TypeOK, SetDoc, KeepOldest, storeVars
<1>1. i.id \in Versions
  BY DEF Item, NoItem
<1>2. CASE UNCHANGED storeVars /\ mishaps' \in {mishaps, mishaps + 1}
  BY <1>2
<1>3. CASE /\ KeepOldest(m)
           /\ SetDoc(m, IF mprev[m] = 0 THEN 0 ELSE mdoc[m])
           /\ UNCHANGED mishaps
  BY <1>3
<1>4. CASE SetDoc(m, i.id) /\ UNCHANGED <<mprev, mishaps>>
  BY <1>1, <1>4
<1>5. CASE KeepOldest(m) /\ SetDoc(m, 0) /\ UNCHANGED mishaps
  BY <1>5
<1> QED BY <1>2, <1>3, <1>4, <1>5 DEF ApplyStep

(* Every step of the SOT, a member, a push or a kill keeps the types. *)
LEMMA TypeStep == TypeOK /\ [Next]_vars => TypeOK'
<1> SUFFICES ASSUME TypeOK, [Next]_vars PROVE TypeOK'
  OBVIOUS
<1> USE VersionFacts, ReplicationAssumption
<1> USE DEF TypeOK, sotVars, storeVars, readStateVars
<1>1. ASSUME NEW op \in Ops, Write(op) PROVE TypeOK'
  <2> DEFINE item == [op |-> op, id |-> writes + 1]
  <2>1. item \in Item /\ writes' \in Versions
    BY <1>1 DEF Write, Item, Versions
  <2>2. Result(item) \in Versions
    BY <2>1 DEF Result, Item
  <2>3. {[item |-> item, to |-> m, at |-> "read", waiting |-> TRUE] : m \in Members}
          \subseteq Push
    <3>1. ASSUME NEW m \in Members
          PROVE  [item |-> item, to |-> m, at |-> "read", waiting |-> TRUE] \in Push
      <4> HIDE DEF item
      <4> QED BY <2>1 DEF Push, PushSteps, ApplySteps
    <3> QED BY <3>1
  <2>4. isolated' \in BOOLEAN
    BY <1>1 DEF Write, Settled
  <2> QED BY <1>1, <2>1, <2>2, <2>3, <2>4 DEF Write
<1>2. ASSUME NEW p \in pushes, PushStep(p) PROVE TypeOK'
  <2>0. p \in Push
    OBVIOUS
  <2>1. p \in Push /\ p.item \in Item /\ p.to \in Members
    BY <2>0 DEF Push
  <2>2. Released(p) \subseteq Push /\ \A at \in PushSteps : Moved(p, at) \subseteq Push
    BY <2>1, PushTypes
  <2>3. CASE PushAcknowledged(p)
    BY <2>3 DEF PushAcknowledged
  <2>4. CASE PushFailed(p)
    BY <2>1, <2>2, <2>4 DEF PushFailed
  <2>5. CASE StagingFailed(p)
    <3>1. pushes' \subseteq Push
      BY <2>2, <2>5 DEF StagingFailed
    <3>2. mishaps' \in Nat
      BY <2>5 DEF StagingFailed
    <3>3. isolated' \in BOOLEAN
      BY <2>5 DEF StagingFailed
    <3>4. UNCHANGED <<sot, writes, pending, mdoc, mprev, catchup, failed, stale, flagged>>
      BY <2>5 DEF StagingFailed
    <3> QED BY <3>1, <3>2, <3>3, <3>4
  <2>6. CASE Lose(p)
    <3>1. "no" \in PushSteps
      BY DEF PushSteps, Outcomes
    <3> QED BY <2>2, <2>6, <3>1 DEF Lose
  <2>7. CASE PushApply(p)
    <3>1. PICK next \in ApplySteps \cup Outcomes :
            /\ ApplyStep(p.to, p.item, p.at, next)
            /\ pushes' = (pushes \ {p}) \cup Moved(p, next)
            /\ UNCHANGED <<sotVars, pending, catchup, readStateVars, isolated>>
      BY <2>7 DEF PushApply
    <3>2. Moved(p, next) \subseteq Push
      BY <2>2, <3>1 DEF PushSteps
    <3>3. /\ mdoc' \in [Members -> Versions]
          /\ mprev' \in [Members -> Versions]
          /\ mishaps' \in Nat
      BY <2>1, <3>1, ApplyTypes
    <3> QED BY <3>1, <3>2, <3>3
  <2> QED BY <1>2, <2>3, <2>4, <2>5, <2>6, <2>7 DEF PushStep
<1>3. ASSUME NEW m \in Members, CatchupStep(m) PROVE TypeOK'
  <2>1. CASE CheckInFails(m)
    <3>1. failed' \in [Members -> 0..StaleAfter]
      BY <2>1 DEF CheckInFails
    <3>2. stale' \in [Members -> BOOLEAN]
      BY <2>1 DEF CheckInFails
    <3> QED BY <2>1, <3>1, <3>2 DEF CheckInFails
  <2>2. CASE CheckIn(m)
    <3>1. catchup' \in [Members -> [item : Item \cup {NoItem}, at : CatchupSteps]]
      BY <2>2 DEF CheckIn, CatchupSteps
    <3> QED BY <2>2, <3>1 DEF CheckIn
  <2>3. CASE Fetch(m)
    <3>1. catchup' \in [Members -> [item : Item \cup {NoItem}, at : CatchupSteps]]
      BY <2>3 DEF Fetch, CatchupSteps, ApplySteps
    <3> QED BY <2>3, <3>1 DEF Fetch
  <2>4. CASE FetchFails(m)
    BY <2>4 DEF FetchFails, Idle, CatchupSteps
  <2>5. CASE CatchupApply(m)
    <3>1. PICK next \in ApplySteps \cup Outcomes :
            /\ ApplyStep(m, catchup[m].item, catchup[m].at, next)
            /\ catchup' = [catchup EXCEPT ![m].at = next]
            /\ UNCHANGED <<sotVars, pushes, pending, readStateVars, isolated>>
      BY <2>5 DEF CatchupApply
    <3>2. PICK c : c = catchup[m]
      OBVIOUS
    <3>3. ApplyStep(m, c.item, c.at, next) /\ c.item \in Item \cup {NoItem}
      BY <3>1, <3>2
    <3>4. /\ mdoc' \in [Members -> Versions]
          /\ mprev' \in [Members -> Versions]
          /\ mishaps' \in Nat
      BY <3>3, ApplyTypes
    <3>5. catchup' \in [Members -> [item : Item \cup {NoItem}, at : CatchupSteps]]
      BY <3>1 DEF CatchupSteps
    <3> QED BY <3>1, <3>4, <3>5
  <2>6. CASE Complete(m)
    BY <2>6 DEF Complete, EndItem, Idle, CatchupSteps
  <2>7. CASE GiveUp(m)
    BY <2>7 DEF GiveUp, EndItem, Idle, CatchupSteps
  <2> QED BY <1>3, <2>1, <2>2, <2>3, <2>4, <2>5, <2>6, <2>7 DEF CatchupStep
<1>4. ASSUME NEW m \in Members, MemberCrash(m) PROVE TypeOK'
  <2>1. \A p \in pushes : Moved(p, "no") \subseteq Push
    BY PushTypes DEF PushSteps, Outcomes
  <2>2. pushes' \subseteq Push
    BY <1>4, <2>1 DEF MemberCrash
  <2> QED BY <1>4, <2>2 DEF MemberCrash, Idle, CatchupSteps
<1>5. CASE SOTCrash
  <2>1. \A p \in pushes : Released(p) \subseteq Push
    BY PushTypes DEF PushSteps, Outcomes
  <2>2. pushes' \subseteq Push
    BY <1>5, <2>1 DEF SOTCrash
  <2> QED BY <1>5, <2>2 DEF SOTCrash
<1>6. CASE UNCHANGED vars
  BY <1>6 DEF vars
<1> QED BY <1>1, <1>2, <1>3, <1>4, <1>5, <1>6 DEF Next

(* Every variable of the SOT and of the members keeps its type. *)
THEOREM TypeCorrect == Spec => []TypeOK
BY TypeInit, TypeStep, PTL DEF Spec

-----------------------------------------------------------------------------
(* The inductive invariant *)

(* Nothing was written and nothing is on its way. *)
LEMMA InvInit == Init => IInv
<1> SUFFICES ASSUME Init PROVE IInv
  OBVIOUS
<1>1. OnlyWriteIs(NoItem)
  BY DEF Init, OnlyWriteIs, NoItem, Result, InHand, ApplySteps, Outcomes, Idle
<1> QED BY <1>1, TypeInit DEF Init, IInv

(* One step of Apply for the last write, on a member where that write is   *)
(* the only one about: the caller learns no more than is true, what the    *)
(* member already has of the write stays, and so what is known of any      *)
(* other Apply call of the same write on the same member does too.         *)
LEMMA ApplyKeeps ==
  ASSUME TypeOK, NEW m \in Members, NEW cur \in Item, NEW at, NEW next,
         Result(cur) = sot, sot' = sot,
         ApplyInv(m, cur, at),
         cur.op = "patch" /\ mdoc[m] = cur.id => mprev[m] # 0,
         ApplyStep(m, cur, at, next)
  PROVE  /\ ApplyInv(m, cur, next)'
         /\ mdoc[m] = sot => mdoc'[m] = sot
         /\ cur.op = "patch" /\ mdoc'[m] = cur.id => mprev'[m] # 0
         /\ mprev[m] # 0 => mprev'[m] # 0
         /\ \A n \in Members \ {m} : mdoc'[n] = mdoc[n] /\ mprev'[n] = mprev[n]
         /\ \A b : ApplyInv(m, cur, b) => ApplyInv(m, cur, b)'
<1> USE DEF TypeOK, SetDoc, KeepOldest, storeVars, Result
<1>0. cur.op \in Ops
  BY DEF Item
<1> DEFINE Kept == /\ ApplyInv(m, cur, next)'
                   /\ mdoc[m] = sot => mdoc'[m] = sot
                   /\ cur.op = "patch" /\ mdoc'[m] = cur.id => mprev'[m] # 0
                   /\ mprev[m] # 0 => mprev'[m] # 0
                   /\ \A n \in Members \ {m} : mdoc'[n] = mdoc[n] /\ mprev'[n] = mprev[n]
<1>1. ASSUME at = "read" PROVE Kept
  <2>1. UNCHANGED <<mdoc, mprev>> /\ next = Decide(m, cur)
    BY <1>1 DEF ApplyStep
  <2>2. ApplyInv(m, cur, next)'
    BY <1>0, <2>1 DEF Decide, ApplyInv, Ops
  <2> QED BY <2>1, <2>2
<1>2. ASSUME at = "preserve" PROVE Kept
  <2>1. cur.op = "patch"
    BY <1>2 DEF ApplyInv
  <2>2. CASE /\ mprev[m] # 0 \/ mdoc[m] # 0
             /\ next = "write"
             /\ KeepOldest(m)
             /\ SetDoc(m, IF mprev[m] = 0 THEN 0 ELSE mdoc[m])
    BY <2>1, <2>2 DEF ApplyInv
  <2>3. CASE next = "no" /\ UNCHANGED <<mdoc, mprev>>
    BY <2>3 DEF ApplyInv
  <2> QED BY <1>2, <2>2, <2>3 DEF ApplyStep
<1>3. ASSUME at = "write" PROVE Kept
  <2>1. CASE next = "verify" /\ SetDoc(m, cur.id) /\ UNCHANGED mprev
    BY <1>3, <2>1 DEF ApplyInv
  <2>2. CASE next = "no" /\ UNCHANGED <<mdoc, mprev>>
    BY <2>2 DEF ApplyInv
  <2> QED BY <1>3, <2>1, <2>2 DEF ApplyStep
<1>4. ASSUME at = "verify" PROVE Kept
  <2>1. UNCHANGED <<mdoc, mprev>> /\ next = IF mdoc[m] = cur.id THEN "yes" ELSE "no"
    BY <1>4 DEF ApplyStep
  <2> QED BY <1>4, <2>1 DEF ApplyInv
<1>5. ASSUME at = "remove" PROVE Kept
  <2>1. CASE /\ next = IF mdoc[m] = 0 THEN "no" ELSE "yes"
             /\ KeepOldest(m)
             /\ SetDoc(m, 0)
    BY <1>5, <2>1 DEF ApplyInv
  <2>2. CASE next = "no" /\ UNCHANGED <<mdoc, mprev>>
    BY <2>2 DEF ApplyInv
  <2> QED BY <1>5, <2>1, <2>2 DEF ApplyStep
<1>6. Kept
  BY <1>1, <1>2, <1>3, <1>4, <1>5 DEF ApplyStep
<1>7. \A b : ApplyInv(m, cur, b) => ApplyInv(m, cur, b)'
  BY <1>6 DEF ApplyInv
<1> QED BY <1>6, <1>7

(* What becomes of a push keeps its item and its target; while the SOT     *)
(* waits for it, it is not forgotten.                                      *)
LEMMA PushFacts ==
  ASSUME NEW p \in Push
  PROVE  /\ \A q \in Released(p) :
              q.item = p.item /\ q.to = p.to /\ q.at = p.at
         /\ \A at \in PushSteps : \A q \in Moved(p, at) :
              q.item = p.item /\ q.to = p.to /\ q.at = at
         /\ \A at \in PushSteps :
              p.waiting => \E q \in Moved(p, at) : q.to = p.to /\ q.waiting
BY DEF Push, Released, Moved

(* The steps of a push keep the last write the only one about: it is       *)
(* acknowledged only by a member that has it, or staged.                   *)
LEMMA PushInv ==
  ASSUME TypeOK, NEW cur \in Item \cup {NoItem}, OnlyWriteIs(cur), isolated',
         NEW p \in pushes, PushStep(p)
  PROVE  OnlyWriteIs(cur)'
<1> USE DEF sotVars, storeVars, readStateVars
<1>0. /\ p \in Push /\ p.item = cur /\ p.to \in Members /\ p.item \in Item
      /\ p.at \in PushSteps
  <2>1. p \in Push
    BY DEF TypeOK
  <2> QED BY <2>1 DEF OnlyWriteIs, Push
<1>1. /\ \A q \in Released(p) : q.item = cur /\ q.to = p.to /\ q.at = p.at
      /\ \A at \in PushSteps : \A q \in Moved(p, at) :
           q.item = cur /\ q.to = p.to /\ q.at = at
      /\ \A at \in PushSteps :
           p.waiting => \E q \in Moved(p, at) : q.to = p.to /\ q.waiting
  BY <1>0, PushFacts
<1>2. cur # NoItem
  BY <1>0 DEF Item, NoItem, Ops
<1>3. CASE PushAcknowledged(p)
  <2>1. mdoc[p.to] = sot
    BY <1>0, <1>3 DEF PushAcknowledged, OnlyWriteIs, ApplyInv
  <2>2. ASSUME NEW m \in Members, mdoc[m] # sot PROVE Owed(m)'
    <3>1. m # p.to /\ Owed(m)
      BY <2>1, <2>2 DEF OnlyWriteIs
    <3> QED BY <1>3, <3>1 DEF Owed, PushAcknowledged
  <2> QED BY <1>3, <2>2 DEF PushAcknowledged, OnlyWriteIs, ApplyInv
<1>4. CASE PushFailed(p)
  <2>1. \A q \in pushes' : q.item = cur /\ ApplyInv(q.to, cur, q.at)'
    BY <1>0, <1>1, <1>4 DEF PushFailed, OnlyWriteIs, ApplyInv
  <2>2. ASSUME NEW m \in Members PROVE pending'[m] \in {NoItem, cur}
    BY <1>0, <1>4 DEF PushFailed, OnlyWriteIs, TypeOK
  <2>3. ASSUME NEW m \in Members, mdoc[m] # sot PROVE Owed(m)'
    <3>1. CASE m = p.to
      BY <1>0, <1>2, <1>4, <3>1 DEF Owed, PushFailed, TypeOK
    <3>2. CASE m # p.to
      BY <1>0, <1>4, <2>3, <3>2 DEF Owed, PushFailed, TypeOK, OnlyWriteIs
    <3> QED BY <3>1, <3>2
  <2> QED BY <1>4, <2>1, <2>2, <2>3 DEF PushFailed, OnlyWriteIs, ApplyInv
<1>5. CASE StagingFailed(p)
  BY <1>5 DEF StagingFailed
<1>6. CASE Lose(p)
  <2>0. "no" \in PushSteps
    BY DEF PushSteps, Outcomes
  <2>1. \A q \in pushes' : q.item = cur /\ ApplyInv(q.to, cur, q.at)'
    BY <1>1, <1>6, <2>0 DEF Lose, OnlyWriteIs, ApplyInv
  <2>2. ASSUME NEW m \in Members, mdoc[m] # sot PROVE Owed(m)'
    BY <1>1, <1>6, <2>0, <2>2 DEF Owed, Lose, OnlyWriteIs
  <2> QED BY <1>6, <2>1, <2>2 DEF Lose, OnlyWriteIs, ApplyInv
<1>7. CASE PushApply(p)
  <2>1. PICK next \in ApplySteps \cup Outcomes :
          /\ ApplyStep(p.to, p.item, p.at, next)
          /\ pushes' = (pushes \ {p}) \cup Moved(p, next)
          /\ UNCHANGED <<sotVars, pending, catchup, readStateVars, isolated>>
    BY <1>7 DEF PushApply
  <2>2. next \in PushSteps /\ sot' = sot /\ writes' = writes
    BY <2>1 DEF PushSteps
  <2>3. ApplyStep(p.to, cur, p.at, next)
    BY <1>0, <2>1
  <2>4. /\ ApplyInv(p.to, cur, next)'
        /\ mdoc[p.to] = sot => mdoc'[p.to] = sot
        /\ cur.op = "patch" /\ mdoc'[p.to] = cur.id => mprev'[p.to] # 0
        /\ \A n \in Members \ {p.to} : mdoc'[n] = mdoc[n] /\ mprev'[n] = mprev[n]
        /\ \A b : ApplyInv(p.to, cur, b) => ApplyInv(p.to, cur, b)'
    BY <1>0, <2>2, <2>3, ApplyKeeps DEF OnlyWriteIs
  <2>5. ASSUME NEW n \in Members, NEW b, ApplyInv(n, cur, b) PROVE ApplyInv(n, cur, b)'
    <3>1. CASE n = p.to
      BY <2>4, <2>5, <3>1
    <3>2. CASE n # p.to
      BY <2>2, <2>4, <2>5, <3>2 DEF ApplyInv
    <3> QED BY <3>1, <3>2
  <2>6. \A q \in pushes' : q.item = cur /\ ApplyInv(q.to, cur, q.at)'
    <3>1. \A q \in pushes : q.to \in Members
      BY DEF TypeOK, Push
    <3> QED BY <1>1, <2>1, <2>2, <2>4, <2>5, <3>1 DEF OnlyWriteIs
  <2>7. ASSUME NEW m \in Members, mdoc'[m] # sot PROVE Owed(m)'
    <3>1. mdoc[m] # sot
      BY <2>4, <2>7
    <3> QED BY <1>1, <2>1, <2>2, <3>1 DEF Owed, OnlyWriteIs
  <2>8. ASSUME NEW m \in Members, catchup'[m].at \in InHand
        PROVE  catchup'[m].item = cur /\ ApplyInv(m, cur, catchup[m].at)'
    <3>1. PICK b : b = catchup[m].at
      OBVIOUS
    <3>2. catchup'[m].item = cur /\ ApplyInv(m, cur, b) /\ b = catchup'[m].at
      BY <2>1, <2>8, <3>1 DEF OnlyWriteIs
    <3>3. ApplyInv(m, cur, b)'
      BY <2>5, <3>2
    <3> QED BY <3>2, <3>3
  <2>9. ASSUME NEW m \in Members, cur.op = "patch", mdoc'[m] = cur.id
        PROVE  mprev'[m] # 0
    BY <2>4, <2>9 DEF OnlyWriteIs
  <2> QED BY <2>1, <2>2, <2>6, <2>7, <2>8, <2>9 DEF OnlyWriteIs
<1> QED BY <1>3, <1>4, <1>5, <1>6, <1>7 DEF PushStep

(* So do the steps of the catch-up agent: it completes an entry only when  *)
(* its own Apply said yes.                                                 *)
LEMMA CatchupInv ==
  ASSUME TypeOK, NEW cur \in Item \cup {NoItem}, OnlyWriteIs(cur),
         NEW m \in Members, CatchupStep(m)
  PROVE  OnlyWriteIs(cur)'
<1> USE DEF sotVars, storeVars, readStateVars, InHand
<1>1. CASE CheckInFails(m)
  BY <1>1 DEF CheckInFails, OnlyWriteIs, ApplyInv, Owed
<1>2. CASE CheckIn(m)
  <2>1. \A n \in Members : catchup'[n].at \in InHand => catchup'[n] = catchup[n]
    BY <1>2 DEF CheckIn, TypeOK, ApplySteps, Outcomes
  <2> QED BY <1>2, <2>1 DEF CheckIn, OnlyWriteIs, ApplyInv, Owed
<1>3. CASE Fetch(m)
  <2>1. ASSUME NEW n \in Members, catchup'[n].at \in InHand
        PROVE  catchup'[n].item = cur /\ ApplyInv(n, cur, catchup[n].at)'
    <3>1. CASE n = m
      <4>1. catchup'[m].item = cur /\ catchup'[m].at = "read"
        BY <1>3 DEF Fetch, OnlyWriteIs, TypeOK
      <4> QED BY <3>1, <4>1 DEF ApplyInv
    <3>2. CASE n # m
      BY <1>3, <2>1, <3>2 DEF Fetch, OnlyWriteIs, TypeOK, ApplyInv
    <3> QED BY <3>1, <3>2
  <2> QED BY <1>3, <2>1 DEF Fetch, OnlyWriteIs, ApplyInv, Owed
<1>4. CASE FetchFails(m)
  <2>1. \A n \in Members : catchup'[n].at \in InHand => catchup'[n] = catchup[n]
    BY <1>4 DEF FetchFails, Idle, TypeOK, ApplySteps, Outcomes
  <2> QED BY <1>4, <2>1 DEF FetchFails, OnlyWriteIs, ApplyInv, Owed
<1>5. CASE CatchupApply(m)
  <2>1. PICK next \in ApplySteps \cup Outcomes :
          /\ ApplyStep(m, catchup[m].item, catchup[m].at, next)
          /\ catchup' = [catchup EXCEPT ![m].at = next]
          /\ UNCHANGED <<sotVars, pushes, pending, readStateVars, isolated>>
    BY <1>5 DEF CatchupApply
  <2>2. sot' = sot /\ writes' = writes
    BY <2>1
  <2>3. PICK at : at = catchup[m].at
    OBVIOUS
  <2>4. at \in InHand
    BY <2>1, <2>3 DEF ApplyStep, ApplySteps
  <2>5. cur \in Item /\ catchup[m].item = cur /\ ApplyInv(m, cur, at)
    BY <2>3, <2>4 DEF OnlyWriteIs
  <2>6. ApplyStep(m, cur, at, next)
    BY <2>1, <2>3, <2>5
  <2>7. /\ ApplyInv(m, cur, next)'
        /\ mdoc[m] = sot => mdoc'[m] = sot
        /\ cur.op = "patch" /\ mdoc'[m] = cur.id => mprev'[m] # 0
        /\ \A n \in Members \ {m} : mdoc'[n] = mdoc[n] /\ mprev'[n] = mprev[n]
        /\ \A b : ApplyInv(m, cur, b) => ApplyInv(m, cur, b)'
    BY <2>2, <2>5, <2>6, ApplyKeeps DEF OnlyWriteIs
  <2>8. ASSUME NEW n \in Members, NEW b, ApplyInv(n, cur, b) PROVE ApplyInv(n, cur, b)'
    <3>1. CASE n = m
      BY <2>7, <2>8, <3>1
    <3>2. CASE n # m
      BY <2>2, <2>7, <2>8, <3>2 DEF ApplyInv
    <3> QED BY <3>1, <3>2
  <2>9. \A q \in pushes' : q.item = cur /\ ApplyInv(q.to, cur, q.at)'
    <3>1. \A q \in pushes : q.to \in Members
      BY DEF TypeOK, Push
    <3> QED BY <2>1, <2>8, <3>1 DEF OnlyWriteIs
  <2>10. ASSUME NEW n \in Members, mdoc'[n] # sot PROVE Owed(n)'
    <3>1. mdoc[n] # sot
      BY <2>7, <2>10
    <3> QED BY <2>1, <3>1 DEF Owed, OnlyWriteIs
  <2>11. ASSUME NEW n \in Members, catchup'[n].at \in InHand
         PROVE  /\ cur # NoItem
                /\ catchup'[n].item = cur
                /\ ApplyInv(n, cur, catchup[n].at)'
    <3>1. cur # NoItem
      BY <2>5 DEF Item, NoItem, Ops
    <3>2. CASE n = m
      <4>1. catchup'[m].item = cur /\ catchup'[m].at = next
        BY <2>1, <2>5 DEF TypeOK
      <4> QED BY <2>7, <3>1, <3>2, <4>1
    <3>3. CASE n # m
      <4>1. PICK b : b = catchup[n].at
        OBVIOUS
      <4>2. catchup'[n].item = cur /\ ApplyInv(n, cur, b) /\ b = catchup'[n].at
        BY <2>1, <2>11, <3>3, <4>1 DEF OnlyWriteIs, TypeOK
      <4>3. ApplyInv(n, cur, b)'
        BY <2>8, <4>2
      <4> QED BY <3>1, <4>2, <4>3
    <3> QED BY <3>2, <3>3
  <2>12. ASSUME NEW n \in Members, cur.op = "patch", mdoc'[n] = cur.id
         PROVE  mprev'[n] # 0
    BY <2>7, <2>12 DEF OnlyWriteIs
  <2> QED BY <2>1, <2>2, <2>9, <2>10, <2>11, <2>12 DEF OnlyWriteIs
<1>6. CASE Complete(m)
  <2>1. \A n \in Members : catchup'[n].at \in InHand => catchup'[n] = catchup[n]
    BY <1>6 DEF Complete, EndItem, Idle, TypeOK, ApplySteps, Outcomes
  <2>2. mdoc[m] = sot
    BY <1>6 DEF Complete, OnlyWriteIs, ApplyInv, Outcomes
  <2>3. ASSUME NEW n \in Members, mdoc[n] # sot PROVE Owed(n)'
    <3>1. n # m /\ Owed(n)
      BY <2>2, <2>3 DEF OnlyWriteIs
    <3> QED BY <1>6, <3>1 DEF Complete, Owed, TypeOK
  <2>4. \A n \in Members : pending'[n] \in {NoItem, cur}
    BY <1>6 DEF Complete, OnlyWriteIs, TypeOK
  <2> QED BY <1>6, <2>1, <2>3, <2>4 DEF Complete, OnlyWriteIs, ApplyInv
<1>7. CASE GiveUp(m)
  <2>1. \A n \in Members : catchup'[n].at \in InHand => catchup'[n] = catchup[n]
    BY <1>7 DEF GiveUp, EndItem, Idle, TypeOK, ApplySteps, Outcomes
  <2> QED BY <1>7, <2>1 DEF GiveUp, OnlyWriteIs, ApplyInv, Owed
<1> QED BY <1>1, <1>2, <1>3, <1>4, <1>5, <1>6, <1>7 DEF CatchupStep

(* A member's kill ends its Apply calls, but the SOT still waits for the   *)
(* pushes it waited for.                                                   *)
LEMMA MemberCrashInv ==
  ASSUME TypeOK, NEW cur \in Item \cup {NoItem}, OnlyWriteIs(cur),
         NEW m \in Members, MemberCrash(m)
  PROVE  OnlyWriteIs(cur)'
<1> USE DEF sotVars, storeVars, readStateVars, InHand
<1> DEFINE dead == {p \in pushes : p.to = m /\ p.at \in ApplySteps \ {"read"}}
<1>1. pushes' = (pushes \ dead) \cup UNION {Moved(p, "no") : p \in dead}
  BY DEF MemberCrash
<1>2. UNCHANGED <<sot, writes, pending, mdoc, mprev>>
  BY DEF MemberCrash
<1>3. \A p \in dead : /\ \A q \in Moved(p, "no") :
                           q.item = p.item /\ q.to = p.to /\ q.at = "no"
                      /\ p.waiting => \E q \in Moved(p, "no") : q.to = p.to /\ q.waiting
  <2>1. "no" \in PushSteps
    BY DEF PushSteps, Outcomes
  <2>2. \A p \in dead : p \in Push
    BY DEF TypeOK
  <2> QED BY <2>1, <2>2, PushFacts
<1>4. \A q \in pushes' : q.item = cur /\ ApplyInv(q.to, cur, q.at)'
  <2>1. ASSUME NEW q \in pushes' PROVE q.item = cur /\ ApplyInv(q.to, cur, q.at)
    <3>1. CASE q \in pushes
      BY <3>1 DEF OnlyWriteIs
    <3>2. CASE q \notin pushes
      <4>1. PICK p \in dead : q \in Moved(p, "no")
        BY <1>1, <3>2
      <4> QED BY <1>3, <4>1 DEF OnlyWriteIs, ApplyInv
    <3> QED BY <3>1, <3>2
  <2> QED BY <1>2, <2>1 DEF ApplyInv
<1>5. ASSUME NEW n \in Members, mdoc[n] # sot PROVE Owed(n)'
  <2>1. CASE pending[n] # NoItem
    BY <1>2, <2>1 DEF Owed
  <2>2. ASSUME NEW p \in pushes, p.to = n, p.waiting PROVE Owed(n)'
    <3>1. CASE p \in dead
      <4>1. PICK q \in Moved(p, "no") : q.to = p.to /\ q.waiting
        BY <1>3, <2>2, <3>1
      <4>2. q \in pushes'
        BY <1>1, <3>1, <4>1
      <4> QED BY <2>2, <4>1, <4>2 DEF Owed
    <3>2. CASE p \notin dead
      <4>1. p \in pushes'
        BY <1>1, <3>2
      <4> QED BY <2>2, <4>1 DEF Owed
    <3> QED BY <3>1, <3>2
  <2> QED BY <1>5, <2>1, <2>2 DEF OnlyWriteIs, Owed
<1>6. \A n \in Members : catchup'[n].at \in InHand => catchup'[n] = catchup[n]
  BY DEF MemberCrash, Idle, TypeOK, ApplySteps, Outcomes
<1> QED BY <1>2, <1>4, <1>5, <1>6 DEF OnlyWriteIs, ApplyInv

(* The SOT's kill leaves isolation intact only when it waited for nothing, *)
(* and then it forgets nothing.                                            *)
LEMMA SOTCrashInv ==
  ASSUME TypeOK, NEW cur \in Item \cup {NoItem}, OnlyWriteIs(cur), isolated', SOTCrash
  PROVE  OnlyWriteIs(cur)'
<1> USE DEF sotVars, storeVars, readStateVars
<1>1. UNCHANGED <<sot, writes, pending, mdoc, mprev, catchup>>
  BY DEF SOTCrash
<1>2. \A q \in pushes' : q.item = cur /\ ApplyInv(q.to, cur, q.at)'
  <2>1. ASSUME NEW q \in pushes' PROVE q.item = cur /\ ApplyInv(q.to, cur, q.at)
    <3>1. PICK p \in pushes : q \in Released(p)
      BY DEF SOTCrash
    <3>2. p \in Push
      BY DEF TypeOK
    <3>3. q.item = p.item /\ q.to = p.to /\ q.at = p.at
      BY <3>1, <3>2, PushFacts
    <3> QED BY <3>3 DEF OnlyWriteIs
  <2> QED BY <1>1, <2>1 DEF ApplyInv
<1>3. ASSUME NEW n \in Members, mdoc[n] # sot PROVE Owed(n)'
  BY <1>1, <1>3 DEF SOTCrash, OnlyWriteIs, Owed
<1> QED BY <1>1, <1>2, <1>3 DEF OnlyWriteIs, ApplyInv

(* A write that begins when everything is settled is the only one about,   *)
(* and every member is owed it.                                            *)
LEMMA WriteInv ==
  ASSUME TypeOK, sot <= writes, NEW cur \in Item \cup {NoItem}, OnlyWriteIs(cur),
         isolated', NEW op \in Ops, Write(op)
  PROVE  \E new \in Item \cup {NoItem} : OnlyWriteIs(new)'
<1> USE DEF sotVars, storeVars, readStateVars
<1>1. PICK new : new = [op |-> op, id |-> writes + 1]
  OBVIOUS
<1>2. new \in Item /\ new.id = writes' /\ Result(new) = sot' /\ new.op = op
  BY <1>1, ReplicationAssumption DEF Item, Write, Versions, TypeOK
<1>3. \A m \in Members : Settled(m)
  BY DEF Write
<1>4. pushes = {}
  BY <1>3 DEF TypeOK, Push, Settled
<1>5. pushes' = {[item |-> new, to |-> m, at |-> "read", waiting |-> TRUE] : m \in Members}
  BY <1>1, <1>4 DEF Write
<1>6. \A q \in pushes' : q.item = new /\ ApplyInv(q.to, new, q.at)'
  <2>1. \A q \in pushes' : q.item = new /\ q.at = "read"
    BY <1>5
  <2> QED BY <2>1 DEF ApplyInv
<1>7. ASSUME NEW m \in Members PROVE Owed(m)'
  <2>1. [item |-> new, to |-> m, at |-> "read", waiting |-> TRUE] \in pushes'
    BY <1>5
  <2> QED BY <2>1 DEF Owed
<1>8. ASSUME NEW m \in Members PROVE mdoc'[m] # new.id
  <2>1. mdoc[m] = sot
    BY <1>3, <1>4 DEF OnlyWriteIs, Owed, Settled
  <2> QED BY <1>1, <2>1 DEF Write, TypeOK, Versions
<1>9. ASSUME NEW m \in Members
      PROVE  pending'[m] = NoItem /\ catchup'[m].at \notin InHand
  BY <1>3 DEF Write, Settled, Idle, InHand, ApplySteps, Outcomes
<1>10. OnlyWriteIs(new)'
  BY <1>2, <1>6, <1>7, <1>8, <1>9 DEF OnlyWriteIs
<1> QED BY <1>2, <1>10

(* The invariant is inductive. *)
LEMMA InvStep == IInv /\ [Next]_vars => IInv'
<1> SUFFICES ASSUME IInv, [Next]_vars PROVE IInv'
  OBVIOUS
<1>1. TypeOK /\ TypeOK' /\ sot <= writes
  BY TypeStep DEF IInv
<1>2. (sot <= writes)'
  <2>1. ASSUME NEW op \in Ops, Write(op) PROVE sot' <= writes'
    BY <1>1, <2>1 DEF Write, Result, TypeOK, Versions
  <2>2. CASE UNCHANGED sotVars
    BY <1>1, <2>2 DEF sotVars
  <2>3. (\E op \in Ops : Write(op)) \/ UNCHANGED sotVars
    BY DEF Next, vars, sotVars, PushStep, CatchupStep, PushAcknowledged, PushFailed,
           StagingFailed, Lose, PushApply, CheckInFails, CheckIn, Fetch, FetchFails,
           CatchupApply, Complete, GiveUp, MemberCrash, SOTCrash
  <2> QED BY <2>1, <2>2, <2>3
<1>3. ASSUME isolated' PROVE \E new \in Item \cup {NoItem} : OnlyWriteIs(new)'
  <2>1. isolated
    BY <1>1, <1>3
       DEF Next, vars, PushStep, CatchupStep, PushAcknowledged, PushFailed, Write,
           StagingFailed, Lose, PushApply, CheckInFails, CheckIn, Fetch, FetchFails,
           CatchupApply, Complete, GiveUp, MemberCrash, SOTCrash, TypeOK
  <2>2. PICK cur \in Item \cup {NoItem} : OnlyWriteIs(cur)
    BY <2>1 DEF IInv
  <2>3. ASSUME NEW op \in Ops, Write(op)
        PROVE  \E new \in Item \cup {NoItem} : OnlyWriteIs(new)'
    BY <1>1, <1>3, <2>2, <2>3, WriteInv
  <2>4. ASSUME NEW p \in pushes, PushStep(p) PROVE OnlyWriteIs(cur)'
    BY <1>1, <1>3, <2>2, <2>4, PushInv
  <2>5. ASSUME NEW m \in Members, CatchupStep(m) PROVE OnlyWriteIs(cur)'
    BY <1>1, <2>2, <2>5, CatchupInv
  <2>6. ASSUME NEW m \in Members, MemberCrash(m) PROVE OnlyWriteIs(cur)'
    BY <1>1, <2>2, <2>6, MemberCrashInv
  <2>7. CASE SOTCrash
    <3>1. OnlyWriteIs(cur)'
      BY <1>1, <1>3, <2>2, <2>7, SOTCrashInv
    <3> QED BY <2>2, <3>1
  <2>8. CASE UNCHANGED vars
    <3>1. OnlyWriteIs(cur)'
      BY <2>2, <2>8 DEF vars, OnlyWriteIs, ApplyInv, Owed
    <3> QED BY <2>2, <3>1
  <2> QED BY <2>2, <2>3, <2>4, <2>5, <2>6, <2>7, <2>8 DEF Next
<1> QED BY <1>1, <1>2, <1>3 DEF IInv

(* When every write is settled everywhere before the next begins, a        *)
(* settled member holds what the SOT holds, for any number of members,     *)
(* lost messages, late requests, double applies, member kills and I/O      *)
(* errors.                                                                 *)
THEOREM IsolatedWritesReachEveryMember == Spec => []IsolatedWritesConverge
<1>1. IInv => IsolatedWritesConverge
  BY DEF IInv, OnlyWriteIs, Owed, IsolatedWritesConverge, Settled
<1> QED BY <1>1, InvInit, InvStep, PTL DEF Spec

-----------------------------------------------------------------------------
(* The refinement of Followers *)

(* One step of Apply for the last write moves the member's document to     *)
(* what the SOT has, or away in between, or not at all; and not if it is   *)
(* there.                                                                  *)
LEMMA ApplyFollows ==
  ASSUME TypeOK, NEW m \in Members, NEW cur \in Item, NEW at, NEW next,
         Result(cur) = sot, sot' = sot,
         ApplyInv(m, cur, at),
         cur.op = "patch" /\ mdoc[m] = cur.id => mprev[m] # 0,
         ApplyStep(m, cur, at, next)
  PROVE  \A n \in Members : mdoc'[n] # mdoc[n] => mdoc[n] # sot /\ mdoc'[n] \in {0, sot}
<1>1. /\ mdoc[m] = sot => mdoc'[m] = sot
      /\ \A n \in Members \ {m} : mdoc'[n] = mdoc[n]
  BY ApplyKeeps
<1>2. mdoc'[m] \in {mdoc[m], 0, sot}
  <2>1. CASE mdoc' = mdoc
    BY <2>1
  <2>2. CASE at = "preserve" /\ SetDoc(m, IF mprev[m] = 0 THEN 0 ELSE mdoc[m])
    BY <2>2 DEF SetDoc, TypeOK
  <2>3. CASE at = "write" /\ SetDoc(m, cur.id)
    BY <2>3 DEF SetDoc, TypeOK, ApplyInv, Result
  <2>4. CASE at = "remove" /\ SetDoc(m, 0)
    BY <2>4 DEF SetDoc, TypeOK
  <2> QED BY <2>1, <2>2, <2>3, <2>4 DEF ApplyStep, storeVars
<1> QED BY <1>1, <1>2

(* While it is calm and the SOT does not write, no step of a push, of a    *)
(* catch-up agent or of a killed process moves a member's document but to  *)
(* what the SOT has.                                                       *)
LEMMA StepFollows ==
  ASSUME TypeOK, NEW cur \in Item \cup {NoItem}, OnlyWriteIs(cur), Next,
         \A op \in Ops : ~Write(op)
  PROVE  /\ sot' = sot
         /\ \A n \in Members : mdoc'[n] # mdoc[n] => mdoc[n] # sot /\ mdoc'[n] \in {0, sot}
<1> DEFINE Followed == \A n \in Members : mdoc'[n] # mdoc[n] => mdoc[n] # sot /\ mdoc'[n] \in {0, sot}
<1>1. sot' = sot
  BY DEF Next, sotVars, PushStep, CatchupStep, PushAcknowledged, PushFailed,
         StagingFailed, Lose, PushApply, CheckInFails, CheckIn, Fetch, FetchFails,
         CatchupApply, Complete, GiveUp, MemberCrash, SOTCrash
<1>2. ASSUME NEW p \in pushes, PushApply(p) PROVE Followed
  <2>1. PICK next \in ApplySteps \cup Outcomes : ApplyStep(p.to, p.item, p.at, next)
    BY <1>2 DEF PushApply
  <2>2. p \in Push /\ p.to \in Members /\ p.item = cur /\ cur \in Item
    BY DEF TypeOK, OnlyWriteIs, Push
  <2>3. /\ Result(cur) = sot /\ ApplyInv(p.to, cur, p.at)
        /\ cur.op = "patch" /\ mdoc[p.to] = cur.id => mprev[p.to] # 0
    BY <2>2 DEF OnlyWriteIs
  <2> QED BY <1>1, <2>1, <2>2, <2>3, ApplyFollows
<1>3. ASSUME NEW m \in Members, CatchupApply(m) PROVE Followed
  <2>1. PICK next \in ApplySteps \cup Outcomes :
            ApplyStep(m, catchup[m].item, catchup[m].at, next)
    BY <1>3 DEF CatchupApply
  <2>2. catchup[m].at \in InHand
    BY <2>1 DEF ApplyStep, InHand, ApplySteps
  <2>3. catchup[m].item = cur /\ cur \in Item /\ ApplyInv(m, cur, catchup[m].at)
    BY <2>2 DEF OnlyWriteIs
  <2>4. /\ Result(cur) = sot
        /\ cur.op = "patch" /\ mdoc[m] = cur.id => mprev[m] # 0
    BY DEF OnlyWriteIs
  <2> QED BY <1>1, <2>1, <2>3, <2>4, ApplyFollows
<1>4. CASE mdoc' = mdoc
  BY <1>1, <1>4
<1>5. \/ mdoc' = mdoc
      \/ \E p \in pushes : PushApply(p)
      \/ \E m \in Members : CatchupApply(m)
  BY DEF Next, storeVars, PushStep, CatchupStep, PushAcknowledged, PushFailed,
         StagingFailed, Lose, CheckInFails, CheckIn, Fetch, FetchFails,
         Complete, GiveUp, MemberCrash, SOTCrash
<1> QED BY <1>1, <1>2, <1>3, <1>4, <1>5

(* The members start as the SOT does, without the document. *)
LEMMA FollowersInit == Init => F!Init
<1> SUFFICES ASSUME Init PROVE F!Init
  OBVIOUS
<1>1. sot = 0 /\ mdoc = [m \in Members |-> 0] /\ isolated = TRUE /\ 0 \in Versions
  BY VersionFacts DEF Init
<1> QED BY <1>1 DEF F!Init

(* Every step is a write that finds all members up to date, a member that  *)
(* moves on, a disturbance, or nothing to the followers.                   *)
LEMMA FollowersStep == IInv /\ IInv' /\ [Next]_vars => [F!Next]_(F!vars)
<1> SUFFICES ASSUME IInv, IInv', [Next]_vars PROVE [F!Next]_(F!vars)
  OBVIOUS
<1>1. PICK src : src = [m \in Members |-> sot]
  OBVIOUS
<1>2. PICK new : new = [m \in Members |-> sot']
  OBVIOUS
<1>3. /\ TypeOK /\ TypeOK'
      /\ src \in [Members -> Versions] /\ new \in [Members -> Versions]
      /\ mdoc \in [Members -> Versions] /\ mdoc' \in [Members -> Versions]
      /\ isolated \in BOOLEAN /\ isolated' \in BOOLEAN
  BY <1>1, <1>2 DEF IInv, TypeOK
<1>4. CASE ~isolated'
  <2>1. F!Disturbed
    BY <1>2, <1>3, <1>4 DEF F!Disturbed
  <2> QED BY <2>1 DEF F!Next
<1>5. CASE isolated' /\ UNCHANGED vars
  BY <1>5 DEF vars, F!vars
<1>6. CASE isolated' /\ Next
  <2>1. isolated = TRUE /\ isolated' = TRUE
    BY <1>3, <1>6
       DEF Next, PushStep, CatchupStep, PushAcknowledged, PushFailed, Write,
           StagingFailed, Lose, PushApply, CheckInFails, CheckIn, Fetch, FetchFails,
           CatchupApply, Complete, GiveUp, MemberCrash, SOTCrash
  <2>2. PICK cur \in Item \cup {NoItem} : OnlyWriteIs(cur)
    BY <2>1 DEF IInv
  <2>3. ASSUME NEW op \in Ops, Write(op) PROVE F!Write
    <3>1. mdoc' = mdoc /\ \A m \in Members : Settled(m)
      BY <2>1, <2>3 DEF Write, storeVars
    <3>2. \A m \in Members : mdoc[m] = sot
      BY <2>2, <3>1 DEF OnlyWriteIs, Owed, Settled
    <3>3. mdoc = src
      BY <1>1, <1>3, <3>2
    <3> QED BY <1>1, <1>2, <1>3, <2>1, <3>1, <3>3 DEF F!Write
  <2>4. CASE \A op \in Ops : ~Write(op)
    <3>1. /\ sot' = sot
          /\ \A n \in Members : mdoc'[n] # mdoc[n] => mdoc[n] # sot /\ mdoc'[n] \in {0, sot}
      BY <1>3, <1>6, <2>2, <2>4, StepFollows
    <3>2. F!Follow
      BY <1>3, <2>1, <3>1 DEF F!Follow
    <3> QED BY <3>2 DEF F!Next
  <2> QED BY <2>3, <2>4 DEF F!Next
<1> QED BY <1>3, <1>4, <1>5, <1>6

(* Pushes, staged entries, the catch-up agents and their appliers          *)
(* implement Followers, for any number of members, writes and mishaps:     *)
(* while writes do not overlap a member goes from one version to the next  *)
(* without ever going back, and keeps the version once it has it.          *)
THEOREM MembersFollow == Spec => RefinesFollowers
BY FollowersInit, FollowersStep, InvInit, InvStep, PTL DEF Spec, RefinesFollowers, F!Spec

=============================================================================

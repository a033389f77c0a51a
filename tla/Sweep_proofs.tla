---------------------------- MODULE Sweep_proofs -----------------------------
(***************************************************************************)
(* Proofs about Sweep, for any set of projects and requests and any bounds *)
(* on them: the types, and that no two scans reconcile the findings of one *)
(* project at the same time, which Findings takes for granted.             *)
(***************************************************************************)
EXTENDS Sweep, SequenceTheorems, FiniteSetTheorems, TLAPS

\* A scan that has flushed holds the manifest row of its project.
LockHeld == \A a \in Actor : Doing(a, "flushed") => lockM[job[a].target] = a

\* Every job but an idle one is about a target.
OnTarget == \A a \in Actor : ~Doing(a, "idle") => job[a].target \in Target

SweepInv == TypeOK /\ OnTarget /\ LockHeld

-----------------------------------------------------------------------------
(***************************************************************************)
(* The queue.                                                              *)
(***************************************************************************)

LEMMA WithoutTyped ==
  ASSUME NEW s \in Seq(Target), NEW t \in Target
  PROVE  Without(s, t) \in Seq(Target)
<1>1. CASE t \in Elements(s)
  <2> DEFINE i == CHOOSE i \in DOMAIN s : s[i] = t
  <2>1. i \in 1..Len(s) /\ Len(s) \in Nat
    BY <1>1, LenProperties DEF Elements
  <2> HIDE DEF i
  <2>2. i - 1 \in Nat /\ i - 1 <= Len(s) /\ i + 1 \in Nat \ {0}
    BY <2>1
  <2>3. /\ SubSeq(s, 1, i - 1) \in Seq(Target)
        /\ SubSeq(s, i + 1, Len(s)) \in Seq(Target)
    BY <2>1, <2>2
  <2>4. SubSeq(s, 1, i - 1) \o SubSeq(s, i + 1, Len(s)) \in Seq(Target)
    BY <2>3, ConcatProperties
  <2> QED
    BY <1>1, <2>4 DEF Without, i
<1>2. CASE t \notin Elements(s)
  BY <1>2 DEF Without
<1> QED
  BY <1>1, <1>2

LEMMA OrdersTyped ==
  ASSUME NEW S \in SUBSET Target, NEW s \in Orders(S)
  PROVE  s \in Seq(Target)
<1>1. IsFiniteSet(S)
  BY SweepAssumption, FS_Subset
<1>2. Cardinality(S) \in Nat
  BY <1>1, FS_CardinalityType
<1>3. s \in [1..Cardinality(S) -> Target]
  BY DEF Orders
<1> QED
  BY <1>2, <1>3

LEMMA FirstDueTyped ==
  ASSUME NEW s \in Seq(Target)
  PROVE  FirstDue(s) \in Seq(Target)
<1>1. Len(s) \in Nat /\ Limit \in Nat
  BY SweepAssumption, LenProperties
<1>2. \A n \in Nat : n <= Len(s) => SubSeq(s, 1, n) \in Seq(Target)
  BY <1>1
<1> QED
  BY <1>1, <1>2 DEF FirstDue

-----------------------------------------------------------------------------
(***************************************************************************)
(* The end of a transaction.                                               *)
(***************************************************************************)

LEMMA Actors ==
  /\ Worker \in Actor /\ Browser \subseteq Actor
  /\ "nobody" \notin Actor /\ Worker \notin Browser
  BY SweepAssumption DEF Actor

LEMMA IdleTyped == Idle \in Job /\ Idle.pc = "idle"
  BY DEF Idle, Job

\* Ending an actor's transaction frees its locks and leaves the other actors
\* and their locks as they were.
LEMMA Finished ==
  ASSUME SweepInv, NEW a \in Actor, Finish(a)
  PROVE  /\ job' \in [Actor -> Job]
         /\ lockM' \in [Target -> Actor \cup {"nobody"}]
         /\ lockT' \in [Target -> Actor \cup {"nobody"}]
         /\ job'[a].pc = "idle"
         /\ OnTarget' /\ LockHeld'
<1>1. /\ job \in [Actor -> Job]
      /\ lockM \in [Target -> Actor \cup {"nobody"}]
      /\ lockT \in [Target -> Actor \cup {"nobody"}]
  BY DEF SweepInv, TypeOK
<1>2. /\ job' = [job EXCEPT ![a] = Idle]
      /\ lockM' = [t \in Target |-> IF lockM[t] = a THEN "nobody" ELSE lockM[t]]
      /\ lockT' = [t \in Target |-> IF lockT[t] = a THEN "nobody" ELSE lockT[t]]
  BY DEF Finish
<1>3. job' \in [Actor -> Job] /\ job'[a] = Idle
  BY <1>1, <1>2, IdleTyped
<1>4. \A b \in Actor : b # a => job'[b] = job[b]
  BY <1>1, <1>2
<1>5. \A t \in Target : lockM[t] # a => lockM'[t] = lockM[t]
  BY <1>2
<1>6. OnTarget'
  BY <1>3, <1>4, IdleTyped DEF SweepInv, OnTarget, Doing
<1>7. LockHeld'
  <2> SUFFICES ASSUME NEW b \in Actor, job'[b].pc = "flushed"
               PROVE  lockM'[job'[b].target] = b
    BY DEF LockHeld, Doing
  <2>1. b # a
    BY <1>3, IdleTyped
  <2>2. job'[b] = job[b] /\ job[b].target \in Target /\ lockM[job[b].target] = b
    BY <1>4, <2>1 DEF SweepInv, OnTarget, LockHeld, Doing
  <2> QED
    BY <1>5, <2>1, <2>2
<1>8. /\ lockM' \in [Target -> Actor \cup {"nobody"}]
      /\ lockT' \in [Target -> Actor \cup {"nobody"}]
  BY <1>1, <1>2
<1> QED
  BY <1>3, <1>6, <1>7, <1>8, IdleTyped

\* What is left of the type invariant once the locks and the jobs are typed.
RestTyped ==
  /\ ~sweeping => batch = <<>> /\ ~expired /\ Doing(Worker, "idle")
  /\ content \in [Target -> Nat] /\ checked \in [Target -> Nat]
  /\ unset \subseteq Target
  /\ past \in Seq(Target)
  /\ outdated \subseteq Actor
  /\ sweeping \in BOOLEAN /\ expired \in BOOLEAN
  /\ batch \in Seq(Target)
  /\ snap \in [Target -> Nat]
  /\ requests \in Nat /\ faults \in Nat

LEMMA FinishedInv ==
  ASSUME SweepInv, NEW a \in Actor, Finish(a), RestTyped'
  PROVE  SweepInv'
  BY Finished DEF SweepInv, TypeOK, RestTyped

LEMMA FailsInv ==
  ASSUME SweepInv, NEW a \in Actor, Fails(a), UNCHANGED <<rows, requests>>, faults' \in Nat
  PROVE  SweepInv'
<1>1. Finish(a)
  BY DEF Fails, SweepDies
<1>2. RestTyped'
  <2>1. CASE a = Worker
    <3>1. job'[Worker].pc = "idle"
      BY <1>1, <2>1, Finished
    <3>2. /\ sweeping' = FALSE /\ batch' = <<>> /\ expired' = FALSE
          /\ snap' = [t \in Target |-> 0] /\ outdated' = outdated \ {Worker}
      BY <2>1 DEF Fails, SweepDies, SweepIsOver
    <3>3. snap' \in [Target -> Nat] /\ batch' \in Seq(Target)
      BY <3>2
    <3> QED
      BY <3>1, <3>2, <3>3 DEF SweepInv, TypeOK, RestTyped, rows, Doing
  <2>2. CASE a # Worker
    <3>1. job'[Worker] = job[Worker]
      BY <1>1, <2>2, Actors DEF Finish, SweepInv, TypeOK
    <3> QED
      BY <2>2, <3>1 DEF Fails, SweepInv, TypeOK, RestTyped, rows, sweep, Doing
  <2> QED
    BY <2>1, <2>2
<1> QED
  BY <1>1, <1>2, FinishedInv

-----------------------------------------------------------------------------
(***************************************************************************)
(* The inductive invariant.                                                *)
(***************************************************************************)

\* Moving a job along keeps its target.
LEMMA Moved ==
  ASSUME SweepInv, NEW a \in Actor, NEW pc, Now(a, pc),
         pc \in {"store", "storing", "start", "read", "flushed"}
  PROVE  /\ job' \in [Actor -> Job]
         /\ job'[a].pc = pc /\ job'[a].target = job[a].target
         /\ \A b \in Actor : b # a => job'[b] = job[b]
  BY DEF SweepInv, TypeOK, Now, Job

\* A new job about a target, which has not flushed anything.
LEMMA Started ==
  ASSUME SweepInv, NEW a \in Actor, NEW j \in Job, j.target \in Target,
         j.pc \in {"store", "start"}, job' = [job EXCEPT ![a] = j], UNCHANGED locks
  PROVE  /\ job' \in [Actor -> Job] /\ OnTarget' /\ LockHeld'
         /\ \A b \in Actor : b # a => job'[b] = job[b]
<1>1. /\ job' \in [Actor -> Job] /\ job'[a] = j
      /\ \A b \in Actor : b # a => job'[b] = job[b]
  BY DEF SweepInv, TypeOK
<1> QED
  BY <1>1 DEF SweepInv, OnTarget, LockHeld, Doing, locks

LEMMA InitSweep == Init => SweepInv
<1> SUFFICES ASSUME Init PROVE SweepInv
  OBVIOUS
<1>1. \A a \in Actor : job[a] = Idle
  BY DEF Init
<1>2. /\ job \in [Actor -> Job]
      /\ Doing(Worker, "idle")
  BY <1>1, Actors, IdleTyped DEF Init, Doing
<1>3. past \in Seq(Target) /\ batch \in Seq(Target)
  BY DEF Init
<1>4. TypeOK
  BY <1>2, <1>3, Actors DEF Init, TypeOK
<1>5. OnTarget /\ LockHeld
  BY <1>1, IdleTyped DEF OnTarget, LockHeld, Doing
<1> QED
  BY <1>4, <1>5 DEF SweepInv

\* The steps of the sweep itself.
LEMMA CycleStep ==
  ASSUME SweepInv, StartSweep \/ NextTarget \/ TouchExpired \/ EndSweep
  PROVE  SweepInv'
<1> USE DEF SweepInv
<1>1. CASE StartSweep
  <2>1. batch' \in Seq(Target)
    <3>1. PICK s \in Queues : batch' = FirstDue(s)
      BY <1>1 DEF StartSweep
    <3>2. PICK u \in Orders(unset) : s = u \o past
      BY <3>1 DEF Queues
    <3>3. s \in Seq(Target)
      BY <3>2, OrdersTyped, ConcatProperties DEF TypeOK
    <3> QED
      BY <3>1, <3>3, FirstDueTyped
  <2>2. snap' \in [Target -> Nat]
    BY <1>1 DEF StartSweep, TypeOK
  <2>3. TypeOK'
    BY <1>1, <2>1, <2>2 DEF StartSweep, TypeOK, rows, locks, counters
  <2> QED
    BY <1>1, <2>3 DEF StartSweep, OnTarget, LockHeld, Doing, locks
<1>2. CASE NextTarget
  <2>1. batch \in Seq(Target) /\ batch # <<>> /\ sweeping
    BY <1>2 DEF NextTarget, TypeOK
  <2>2. Head(batch) \in Target /\ Tail(batch) \in Seq(Target)
    BY <2>1
  <2> DEFINE j == [pc |-> "start", kind |-> "sweep", target |-> Head(batch),
                   version |-> snap[Head(batch)], wasUnset |-> FALSE]
  <2>3. j \in Job /\ j.target \in Target /\ j.pc = "start"
    BY <2>2 DEF Job, TypeOK
  <2>4. job' = [job EXCEPT ![Worker] = j] /\ UNCHANGED locks
    BY <1>2 DEF NextTarget
  <2> HIDE DEF j
  <2>5. job' \in [Actor -> Job] /\ OnTarget' /\ LockHeld'
    BY <2>3, <2>4, Started, Actors
  <2>6. TypeOK'
    BY <1>2, <2>1, <2>2, <2>5 DEF NextTarget, TypeOK, rows, locks, counters
  <2> QED
    BY <2>5, <2>6
<1>3. CASE TouchExpired
  <2>1. Fails(Worker) /\ UNCHANGED <<rows, requests>> /\ faults' \in Nat
    BY <1>3 DEF TouchExpired, Fails, counters, TypeOK
  <2> QED
    BY <2>1, FailsInv, Actors
<1>4. CASE EndSweep
  <2>1. /\ sweeping' = FALSE /\ batch' = <<>> /\ expired' = FALSE
        /\ snap' = [t \in Target |-> 0]
        /\ Doing(Worker, "idle") /\ UNCHANGED <<rows, locks, job, outdated, counters>>
    BY <1>4 DEF EndSweep, SweepIsOver
  <2>2. snap' \in [Target -> Nat] /\ batch' \in Seq(Target)
    BY <2>1
  <2>3. TypeOK'
    BY <2>1, <2>2 DEF TypeOK, rows, locks, counters, Doing
  <2> QED
    BY <2>1, <2>3 DEF OnTarget, LockHeld, Doing, locks
<1> QED
  BY <1>1, <1>2, <1>3, <1>4

\* The steps of a scan that go well.
LEMMA ScanStep ==
  ASSUME SweepInv, NEW a \in Actor, ReadDependencies(a) \/ Flush(a) \/ Commit(a)
  PROVE  SweepInv'
<1> USE DEF SweepInv
<1> DEFINE t == job[a].target
<1>1. sweeping \/ a # Worker
  BY DEF TypeOK, ReadDependencies, Flush, Commit, Doing
<1>2. t \in Target
  BY DEF OnTarget, ReadDependencies, Flush, Commit, Doing
<1>3. CASE ReadDependencies(a)
  <2>1. Now(a, "read") /\ UNCHANGED <<rows, locks, outdated, sweep, counters>>
    BY <1>3 DEF ReadDependencies
  <2>2. Doing(a, "start")
    BY <1>3 DEF ReadDependencies
  <2>3. /\ job' \in [Actor -> Job]
        /\ job'[a].pc = "read" /\ job'[a].target = job[a].target
        /\ \A b \in Actor : b # a => job'[b] = job[b]
    BY <2>1, Moved
  <2>4. TypeOK'
    BY <1>1, <2>1, <2>3, Actors DEF TypeOK, rows, locks, sweep, counters, Doing
  <2>5. OnTarget' /\ LockHeld'
    BY <1>2, <2>1, <2>3 DEF OnTarget, LockHeld, Doing, locks
  <2> QED
    BY <2>4, <2>5
<1>4. CASE Flush(a)
  <2>1. /\ Now(a, "flushed") /\ UNCHANGED <<rows, lockT, sweep, counters>>
        /\ lockM' = [lockM EXCEPT ![t] = a] /\ outdated' = outdated \ {a}
        /\ lockM[t] \in {"nobody", a}
    BY <1>4 DEF Flush, Free
  <2>2. /\ job' \in [Actor -> Job]
        /\ job'[a].pc = "flushed" /\ job'[a].target = job[a].target
        /\ \A b \in Actor : b # a => job'[b] = job[b]
    BY <2>1, Moved
  <2>3. TypeOK'
    BY <1>1, <2>1, <2>2, Actors DEF TypeOK, rows, sweep, counters, Doing
  <2>4. OnTarget'
    BY <1>2, <2>2 DEF OnTarget, Doing
  <2>5. LockHeld'
    <3> SUFFICES ASSUME NEW b \in Actor, job'[b].pc = "flushed"
                 PROVE  lockM'[job'[b].target] = b
      BY DEF LockHeld, Doing
    <3>1. lockM \in [Target -> Actor \cup {"nobody"}]
      BY DEF TypeOK
    <3>2. CASE b = a
      BY <1>2, <2>1, <2>2, <3>1, <3>2
    <3>3. CASE b # a
      <4>1. job'[b] = job[b] /\ lockM[job[b].target] = b /\ job[b].target \in Target
        BY <2>2, <3>3 DEF LockHeld, OnTarget, Doing
      <4>2. job[b].target # t
        BY <2>1, <3>3, <4>1, Actors
      <4> QED
        BY <2>1, <3>1, <4>1, <4>2
    <3> QED
      BY <3>2, <3>3
  <2> QED
    BY <2>3, <2>4, <2>5
<1>5. CASE Commit(a)
  <2>1. /\ Finish(a) /\ UNCHANGED <<sweep, counters>>
        /\ unset' = unset \ {t} /\ past' = Without(past, t)
        /\ checked' = [checked EXCEPT ![t] = job[a].version]
        /\ content' \in {content, [content EXCEPT ![t] = job[a].version]}
        /\ outdated' \subseteq Actor
    BY <1>5 DEF Commit, TypeOK
  <2>2. job[a].version \in Nat
    BY DEF TypeOK, Job
  <2>3. past' \in Seq(Target)
    BY <1>2, <2>1, WithoutTyped DEF TypeOK
  <2>4. content' \in [Target -> Nat] /\ checked' \in [Target -> Nat] /\ unset' \subseteq Target
    BY <1>2, <2>1, <2>2 DEF TypeOK
  <2>5. job'[Worker] = job[Worker] \/ a = Worker
    BY <2>1, Actors DEF Finish, TypeOK
  <2>6. RestTyped'
    BY <1>1, <2>1, <2>3, <2>4, <2>5 DEF RestTyped, TypeOK, sweep, counters, Doing
  <2> QED
    BY <2>1, <2>6, FinishedInv
<1> QED
  BY <1>3, <1>4, <1>5

\* The ways a scan or a request goes wrong.
LEMMA FailureStep ==
  ASSUME SweepInv, NEW a \in Actor,
         Conflict(a) \/ ScanBroken(a) \/ ScanRaises(a) \/ AbortVictim(a) \/ KillWorker
           \/ (a \in Browser /\ DropRequest(a))
  PROVE  SweepInv'
<1> USE DEF SweepInv
<1>1. CASE Conflict(a) \/ AbortVictim(a)
  <2>1. Fails(a) /\ UNCHANGED <<rows, requests>> /\ faults' \in Nat
    BY <1>1 DEF Conflict, AbortVictim, counters, TypeOK
  <2> QED
    BY <2>1, FailsInv
<1>2. CASE ScanBroken(a) \/ ScanRaises(a)
  <2>1. Raise(a) /\ requests' \in Nat /\ faults' \in Nat
    BY <1>2 DEF ScanBroken, ScanRaises, Fault, counters, TypeOK
  <2>2. Finish(a) /\ (sweeping \/ a # Worker)
    BY <2>1 DEF Raise, TypeOK, Doing
  <2>3. job'[Worker] = job[Worker] \/ a = Worker
    BY <2>2, Actors DEF Finish, TypeOK
  <2>4. RestTyped'
    BY <2>1, <2>2, <2>3 DEF Raise, RestTyped, TypeOK, rows, Doing
  <2> QED
    BY <2>2, <2>4, FinishedInv
<1>3. CASE KillWorker
  <2>1. Fails(Worker) /\ UNCHANGED <<rows, requests>> /\ faults' \in Nat
    BY <1>3 DEF KillWorker, Fails, Fault, TypeOK
  <2> QED
    BY <2>1, FailsInv, Actors
<1>4. CASE a \in Browser /\ DropRequest(a)
  <2>1. Fails(a) /\ UNCHANGED <<rows, requests>> /\ faults' \in Nat
    BY <1>4, Actors DEF DropRequest, Fails, Fault, TypeOK
  <2> QED
    BY <2>1, FailsInv
<1> QED
  BY <1>1, <1>2, <1>3, <1>4

\* The steps of a request that do not scan.
LEMMA RequestStep ==
  ASSUME SweepInv, NEW w \in Browser, Requested(w) \/ Store(w)
  PROVE  SweepInv'
<1> USE DEF SweepInv
<1>1. w \in Actor /\ w # Worker
  BY Actors
<1>2. ASSUME NEW j \in Job, j.target \in Target, j.pc \in {"store", "start"}, Begin(w, j)
      PROVE  SweepInv'
  <2>1. /\ job' = [job EXCEPT ![w] = j] /\ requests' = requests + 1
        /\ UNCHANGED <<rows, locks, outdated, sweep, faults>>
    BY <1>2 DEF Begin
  <2>2. /\ job' \in [Actor -> Job] /\ OnTarget' /\ LockHeld'
        /\ \A b \in Actor : b # w => job'[b] = job[b]
    BY <1>1, <1>2, <2>1, Started
  <2>3. TypeOK'
    BY <1>1, <2>1, <2>2, Actors DEF TypeOK, rows, locks, sweep, Doing
  <2> QED
    BY <2>2, <2>3
<1>3. CASE Requested(w)
  <2>1. PICK t \in Target : Rescan(w, t) \/ \E kind \in {"push", "upload"} : Send(w, t, kind)
    BY <1>3 DEF Requested
  <2>2. content[t] \in Nat /\ Fresh \in Nat /\ (t \in unset) \in BOOLEAN
    BY DEF TypeOK, Fresh
  <2>3. CASE Rescan(w, t)
    <3> DEFINE j == [pc |-> "start", kind |-> "rescan", target |-> t, version |-> content[t],
                     wasUnset |-> FALSE]
    <3>1. j \in Job /\ j.target \in Target /\ j.pc = "start"
      BY <2>2 DEF Job
    <3>2. Begin(w, j)
      BY <2>3 DEF Rescan
    <3> HIDE DEF j
    <3> QED
      BY <1>2, <3>1, <3>2
  <2>4. ASSUME NEW kind \in {"push", "upload"}, Send(w, t, kind)
        PROVE  SweepInv'
    <3> DEFINE j == [pc |-> "store", kind |-> kind, target |-> t, version |-> Fresh,
                     wasUnset |-> t \in unset]
    <3>1. j \in Job /\ j.target \in Target /\ j.pc = "store"
      BY <2>2 DEF Job
    <3>2. Begin(w, j)
      BY <2>4 DEF Send
    <3> HIDE DEF j
    <3> QED
      BY <1>2, <3>1, <3>2
  <2> QED
    BY <2>1, <2>3, <2>4
<1> DEFINE t == job[w].target
<1>4. Store(w) => t \in Target
  BY <1>1 DEF Store, StoreTarget, StorePushed, StoreUploaded, OnTarget, Doing
<1>5. CASE StoreTarget(w)
  <2>1. /\ Now(w, "storing") /\ lockT' = [lockT EXCEPT ![t] = w]
        /\ UNCHANGED <<rows, lockM, outdated, sweep, counters>>
    BY <1>5 DEF StoreTarget
  <2>2. /\ job' \in [Actor -> Job]
        /\ job'[w].pc = "storing" /\ job'[w].target = t
        /\ \A b \in Actor : b # w => job'[b] = job[b]
    BY <1>1, <2>1, Moved
  <2>3. TypeOK'
    BY <1>1, <2>1, <2>2, Actors DEF TypeOK, rows, sweep, counters, Doing
  <2>4. OnTarget' /\ LockHeld'
    BY <1>4, <1>5, <2>1, <2>2 DEF Store, OnTarget, LockHeld, Doing
  <2> QED
    BY <2>3, <2>4
<1>6. CASE StorePushed(w)
  <2>1. /\ Now(w, "start") /\ lockM' = [lockM EXCEPT ![t] = w]
        /\ lockM[t] \in {"nobody", w}
        /\ UNCHANGED <<rows, lockT, outdated, sweep, counters>>
    BY <1>6 DEF StorePushed, Free
  <2>2. /\ job' \in [Actor -> Job]
        /\ job'[w].pc = "start" /\ job'[w].target = t
        /\ \A b \in Actor : b # w => job'[b] = job[b]
    BY <1>1, <2>1, Moved
  <2>3. TypeOK'
    BY <1>1, <2>1, <2>2, Actors DEF TypeOK, rows, sweep, counters, Doing
  <2>4. OnTarget'
    BY <1>4, <1>6, <2>2 DEF Store, OnTarget, Doing
  <2>5. LockHeld'
    <3> SUFFICES ASSUME NEW b \in Actor, job'[b].pc = "flushed"
                 PROVE  lockM'[job'[b].target] = b
      BY DEF LockHeld, Doing
    <3>1. b # w
      BY <2>2
    <3>2. job'[b] = job[b] /\ lockM[job[b].target] = b /\ job[b].target \in Target
      BY <2>2, <3>1 DEF LockHeld, OnTarget, Doing
    <3>3. job[b].target # t
      BY <2>1, <3>1, <3>2, Actors
    <3> QED
      BY <2>1, <3>2, <3>3 DEF TypeOK
  <2> QED
    BY <2>3, <2>4, <2>5
<1>7. CASE StoreUploaded(w)
  <2>1. /\ Now(w, "start") /\ lockT' = [lockT EXCEPT ![t] = "nobody"]
        /\ content' = [content EXCEPT ![t] = job[w].version]
        /\ unset' \in {unset, unset \cup {t}} /\ past' \in {past, Without(past, t)}
        /\ UNCHANGED <<checked, lockM, outdated, sweep, counters>>
    BY <1>7 DEF StoreUploaded
  <2>2. /\ job' \in [Actor -> Job]
        /\ job'[w].pc = "start" /\ job'[w].target = t
        /\ \A b \in Actor : b # w => job'[b] = job[b]
    BY <1>1, <2>1, Moved
  <2>3. t \in Target /\ job[w].version \in Nat
    BY <1>1, <1>4, <1>7 DEF Store, TypeOK, Job
  <2>4. past' \in Seq(Target) /\ unset' \subseteq Target /\ content' \in [Target -> Nat]
    BY <2>1, <2>3, WithoutTyped DEF TypeOK
  <2>5. TypeOK'
    BY <1>1, <2>1, <2>2, <2>4, Actors DEF TypeOK, sweep, counters, Doing
  <2>6. OnTarget' /\ LockHeld'
    BY <2>1, <2>2, <2>3 DEF OnTarget, LockHeld, Doing
  <2> QED
    BY <2>5, <2>6
<1> QED
  BY <1>3, <1>5, <1>6, <1>7 DEF Store

LEMMA SweepStep == SweepInv /\ [Next]_vars => SweepInv'
<1> SUFFICES ASSUME SweepInv, [Next]_vars PROVE SweepInv'
  OBVIOUS
<1>1. ASSUME NEW t \in Target, Elapse(t) PROVE SweepInv'
  <2>1. past' \in Seq(Target)
    BY <1>1 DEF Elapse, SweepInv, TypeOK
  <2> QED
    BY <1>1, <2>1 DEF Elapse, SweepInv, TypeOK, OnTarget, LockHeld, Doing, locks, sweep, counters
<1>2. CASE Cycle
  BY <1>2, CycleStep, ScanStep, FailureStep, Actors DEF Cycle, Scan
<1>3. ASSUME NEW w \in Browser, Requested(w) \/ Scan(w) \/ Store(w) \/ DropRequest(w)
      PROVE  SweepInv'
  BY <1>3, RequestStep, ScanStep, FailureStep, Actors DEF Scan
<1>4. ASSUME NEW a \in Actor, ScanRaises(a) \/ AbortVictim(a) PROVE SweepInv'
  BY <1>4, FailureStep
<1>5. CASE KillWorker
  BY <1>5, FailureStep, Actors
<1>6. CASE UNCHANGED vars
  BY <1>6 DEF vars, rows, locks, sweep, counters, SweepInv, TypeOK, OnTarget, LockHeld, Doing
<1> QED
  BY <1>1, <1>2, <1>3, <1>4, <1>5, <1>6 DEF Next

LEMMA SweepInvariance == Spec => []SweepInv
  BY InitSweep, SweepStep, PTL DEF Spec

\* Every variable keeps its type, and nothing of a sweep outlives it.
THEOREM SweepTyped == Spec => []TypeOK
<1>1. SweepInv => TypeOK
  BY DEF SweepInv
<1> QED
  BY <1>1, SweepInvariance, PTL

\* No two scans reconcile the findings of one project at once: the update of
\* the manifest row in a scan's first flush keeps the others out until it ends.
THEOREM OneScanAtATime == Spec => []ScansExclude
<1>1. SweepInv => ScansExclude
  <2> SUFFICES ASSUME SweepInv, NEW a \in Actor, NEW b \in Actor, a # b,
                      Doing(a, "flushed"), Doing(b, "flushed")
               PROVE  job[a].target # job[b].target
    BY DEF ScansExclude
  <2>1. lockM[job[a].target] = a /\ lockM[job[b].target] = b
    BY DEF SweepInv, LockHeld
  <2> QED
    BY <2>1
<1> QED
  BY <1>1, SweepInvariance, PTL

=============================================================================

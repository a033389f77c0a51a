-------------------------- MODULE AdvisoryLock_proofs --------------------------
(***************************************************************************)
(* Proofs about AdvisoryLock, for any processes, pools, jobs and other     *)
(* sessions: a job that does not commit inside its locked block is never   *)
(* run by two processes at once.                                           *)
(***************************************************************************)
EXTENDS AdvisoryLock, SequenceTheorems, TLAPS

Distinct(s) == \A i, j \in DOMAIN s : s[i] = s[j] => i = j

\* The idle connections of a pool are its own, listed once, and not in use; a
\* session has a connection of its own process, and has it to itself.
PoolInv ==
  /\ pool \in [Process -> Seq(Conn)]
  /\ at \in [Session -> Conn \cup {"none"}]
  /\ \A p \in Process : Distinct(pool[p])
  /\ \A p \in Process, c \in Conn : c \in Elements(pool[p]) => PoolOf[c] = p /\ ~InUse(c)
  /\ \A s \in Session : at[s] # "none" => PoolOf[at[s]] = RunsIn[s]
  /\ \A s, u \in Session : at[s] = at[u] /\ at[s] # "none" => s = u

\* One server session has a lock; a job that has not committed since it took
\* its lock still has the connection it took it on.
OneHolder(h) ==
  \A k \in Key, c, d \in Conn : h[c][k] > 0 /\ h[d][k] > 0 => c = d

StillHolds ==
  \A t \in inside : KeyOf[t] \notin Committing =>
    at[t] # "none" /\ held[at[t]][KeyOf[t]] > 0

LockInv ==
  /\ held \in [Conn -> [Key -> Nat]]
  /\ aged \subseteq Conn /\ inside \subseteq Task /\ faults \in Nat
  /\ OneHolder(held)
  /\ StillHolds

IInv == PoolInv /\ LockInv

-----------------------------------------------------------------------------
(***************************************************************************)
(* The queue of idle connections.                                          *)
(***************************************************************************)

LEMMA TailDistinct ==
  ASSUME NEW s \in Seq(Conn), s # <<>>, Distinct(s)
  PROVE  /\ Tail(s) \in Seq(Conn) /\ Distinct(Tail(s))
         /\ Head(s) \in Conn /\ Head(s) \in Elements(s)
         /\ Head(s) \notin Elements(Tail(s))
         /\ \A c \in Conn : c \in Elements(Tail(s)) => c \in Elements(s)
<1>1. /\ Tail(s) \in Seq(Conn) /\ Len(Tail(s)) = Len(s) - 1
      /\ \A i \in 1..Len(Tail(s)) : Tail(s)[i] = s[i + 1]
  BY HeadTailProperties
<1>2. Head(s) \in Conn /\ Head(s) = s[1]
  BY HeadTailProperties
<1>3. Len(s) \in Nat /\ Len(s) # 0 /\ DOMAIN s = 1..Len(s)
  BY EmptySeq, LenProperties
<1>4. DOMAIN Tail(s) = 1..(Len(s) - 1)
  BY <1>1, LenProperties
<1>5. \A i \in DOMAIN Tail(s) : i + 1 \in DOMAIN s /\ i + 1 # 1 /\ i \in Nat
  BY <1>3, <1>4
<1>6. Distinct(Tail(s))
  BY <1>1, <1>3, <1>4, <1>5 DEF Distinct
<1>7. Head(s) \notin Elements(Tail(s))
  BY <1>1, <1>2, <1>3, <1>4, <1>5 DEF Distinct, Elements
<1>8. \A c \in Conn : c \in Elements(Tail(s)) => c \in Elements(s)
  BY <1>1, <1>4, <1>5 DEF Elements
<1>9. Head(s) \in Elements(s)
  BY <1>2, <1>3 DEF Elements
<1> QED
  BY <1>1, <1>2, <1>6, <1>7, <1>8, <1>9

LEMMA AppendDistinct ==
  ASSUME NEW s \in Seq(Conn), Distinct(s), NEW c \in Conn, c \notin Elements(s)
  PROVE  /\ Append(s, c) \in Seq(Conn) /\ Distinct(Append(s, c))
         /\ \A d \in Conn : d \in Elements(Append(s, c)) => d = c \/ d \in Elements(s)
<1>1. /\ Append(s, c) \in Seq(Conn) /\ Len(Append(s, c)) = Len(s) + 1
      /\ \A i \in 1..Len(s) : Append(s, c)[i] = s[i]
      /\ Append(s, c)[Len(s) + 1] = c
  BY AppendProperties
<1>2. Len(s) \in Nat /\ DOMAIN s = 1..Len(s) /\ DOMAIN Append(s, c) = 1..(Len(s) + 1)
  BY <1>1, LenProperties
<1>3. \A i \in DOMAIN Append(s, c) : i \in DOMAIN s \/ i = Len(s) + 1
  BY <1>2
<1>4. \A i \in DOMAIN s : s[i] # c
  BY DEF Elements
<1>5. Distinct(Append(s, c))
  BY <1>1, <1>2, <1>3, <1>4 DEF Distinct
<1>6. \A d \in Conn : d \in Elements(Append(s, c)) => d = c \/ d \in Elements(s)
  BY <1>1, <1>2, <1>3 DEF Elements
<1> QED
  BY <1>1, <1>5, <1>6

LEMMA ReturnedDistinct ==
  ASSUME NEW s \in Seq(Conn), Distinct(s), NEW c \in Conn, c \notin Elements(s),
         NEW r, r = Append(s, c) \/ r = s
  PROVE  /\ r \in Seq(Conn) /\ Distinct(r)
         /\ \A d \in Conn : d \in Elements(r) => d = c \/ d \in Elements(s)
<1>1. CASE r = Append(s, c)
  BY <1>1, AppendDistinct
<1>2. CASE r = s
  BY <1>2
<1> QED
  BY <1>1, <1>2

\* What a session is offered is a connection of its pool nobody uses, and it
\* is no longer among the idle ones.
LEMMA OfferedFacts ==
  ASSUME PoolInv, NEW p \in Process, NEW c \in Offered(p)
  PROVE  /\ c \in Conn /\ PoolOf[c] = p /\ ~InUse(c)
         /\ Remaining(p) \in Seq(Conn) /\ Distinct(Remaining(p))
         /\ c \notin Elements(Remaining(p))
         /\ \A d \in Conn : d \in Elements(Remaining(p)) => d \in Elements(pool[p])
<1>1. pool[p] \in Seq(Conn) /\ Distinct(pool[p])
  BY DEF PoolInv
<1>2. CASE pool[p] # <<>>
  <2>1. c = Head(pool[p]) /\ Remaining(p) = Tail(pool[p])
    BY <1>2 DEF Offered, Remaining
  <2> QED
    BY <1>1, <1>2, <2>1, TailDistinct DEF PoolInv
<1>3. CASE pool[p] = <<>>
  <2>1. c \in Conn /\ PoolOf[c] = p /\ ~InUse(c) /\ Remaining(p) = <<>>
    BY <1>3 DEF Offered, Remaining, Open
  <2>2. Elements(<<>>) = {} /\ Distinct(<<>>) /\ <<>> \in Seq(Conn)
    BY DEF Elements, Distinct
  <2> QED
    BY <2>1, <2>2
<1> QED
  BY <1>2, <1>3

-----------------------------------------------------------------------------
(***************************************************************************)
(* Checking a connection out and in.                                       *)
(***************************************************************************)

LEMMA CheckoutPools ==
  ASSUME PoolInv, NEW s \in Session, at[s] = "none", NEW c, Checkout(s, c)
  PROVE  PoolInv' /\ c \in Conn /\ ~InUse(c)
<1> DEFINE p == RunsIn[s]
<1>1. p \in Process /\ "none" \notin Conn
  BY AdvisoryLockAssumption
<1>2. /\ c \in Offered(p)
      /\ pool' = [pool EXCEPT ![p] = Remaining(p)]
      /\ at' = [at EXCEPT ![s] = c]
  BY DEF Checkout
<1>3. /\ c \in Conn /\ PoolOf[c] = p /\ ~InUse(c)
      /\ Remaining(p) \in Seq(Conn) /\ Distinct(Remaining(p))
      /\ c \notin Elements(Remaining(p))
      /\ \A d \in Conn : d \in Elements(Remaining(p)) => d \in Elements(pool[p])
  BY <1>1, <1>2, OfferedFacts
<1>4. /\ at \in [Session -> Conn \cup {"none"}] /\ pool \in [Process -> Seq(Conn)]
      /\ at'[s] = c /\ \A u \in Session : u # s => at'[u] = at[u]
      /\ pool'[p] = Remaining(p) /\ \A q \in Process : q # p => pool'[q] = pool[q]
  BY <1>1, <1>2 DEF PoolInv
<1>5. pool' \in [Process -> Seq(Conn)] /\ at' \in [Session -> Conn \cup {"none"}]
  BY <1>2, <1>3, <1>4
<1>6. \A q \in Process : Distinct(pool'[q])
  BY <1>3, <1>4 DEF PoolInv
<1>7. \A q \in Process, d \in Conn : d \in Elements(pool'[q]) =>
         d \in Elements(pool[q]) /\ d # c
  BY <1>3, <1>4 DEF PoolInv
<1>8. \A d \in Conn : InUse(d)' => d = c \/ InUse(d)
  BY <1>4 DEF InUse
<1>9. \A q \in Process, d \in Conn : d \in Elements(pool'[q]) =>
         PoolOf[d] = q /\ ~(InUse(d)')
  BY <1>7, <1>8 DEF PoolInv
<1>10. \A u \in Session : at'[u] # "none" => PoolOf[at'[u]] = RunsIn[u]
  BY <1>3, <1>4 DEF PoolInv
<1>11. \A u, v \in Session : at'[u] = at'[v] /\ at'[u] # "none" => u = v
  BY <1>3, <1>4 DEF PoolInv, InUse
<1>12. \A q \in Process : Distinct(pool[q])'
  BY <1>6 DEF Distinct
<1>13. \A q \in Process, d \in Conn : d \in Elements(pool[q])' => PoolOf[d] = q /\ ~(InUse(d)')
  BY <1>9 DEF Elements
<1> QED
  BY <1>3, <1>5, <1>12, <1>13, <1>10, <1>11 DEF PoolInv

LEMMA CheckinPools ==
  ASSUME PoolInv, NEW s \in Session, at[s] # "none", NEW h, Checkin(s, h)
  PROVE  PoolInv'
<1> DEFINE p == RunsIn[s]
           c == at[s]
<1>1. p \in Process /\ "none" \notin Conn
  BY AdvisoryLockAssumption
<1>2. /\ c \in Conn /\ PoolOf[c] = p /\ InUse(c)
      /\ at' = [at EXCEPT ![s] = "none"]
      /\ pool' = [pool EXCEPT ![p] = Append(pool[p], c)] \/ pool' = [pool EXCEPT ![p] = pool[p]]
  BY DEF Checkin, Return, PoolInv, InUse
<1>3. /\ at \in [Session -> Conn \cup {"none"}] /\ pool \in [Process -> Seq(Conn)]
      /\ at'[s] = "none" /\ \A u \in Session : u # s => at'[u] = at[u]
      /\ pool[p] \in Seq(Conn) /\ Distinct(pool[p]) /\ c \notin Elements(pool[p])
      /\ \A q \in Process : q # p => pool'[q] = pool[q]
  BY <1>1, <1>2 DEF PoolInv
<1>4. /\ pool'[p] \in Seq(Conn) /\ Distinct(pool'[p])
      /\ \A d \in Conn : d \in Elements(pool'[p]) => d = c \/ d \in Elements(pool[p])
  <2>1. pool'[p] = Append(pool[p], c) \/ pool'[p] = pool[p]
    BY <1>1, <1>2, <1>3
  <2> QED
    BY <1>2, <1>3, <2>1, ReturnedDistinct
<1>5. pool' \in [Process -> Seq(Conn)] /\ at' \in [Session -> Conn \cup {"none"}]
  BY <1>1, <1>2, <1>3, <1>4
<1>6. \A u \in Session : (at'[u] = at[u] /\ at'[u] # c) \/ at'[u] = "none"
  BY <1>2, <1>3 DEF PoolInv
<1>7. \A d \in Conn : InUse(d)' => d # c /\ InUse(d)
  BY <1>1, <1>2, <1>6 DEF InUse
<1>8. \A q \in Process, d \in Conn : d \in Elements(pool'[q]) => PoolOf[d] = q /\ ~(InUse(d)')
  BY <1>2, <1>3, <1>4, <1>7 DEF PoolInv
<1>9. \A u \in Session : at'[u] # "none" => PoolOf[at'[u]] = RunsIn[u]
  BY <1>6 DEF PoolInv
<1>10. \A u, v \in Session : at'[u] = at'[v] /\ at'[u] # "none" => u = v
  BY <1>6 DEF PoolInv
<1>11. \A q \in Process : Distinct(pool[q])'
  BY <1>3, <1>4 DEF PoolInv, Distinct
<1>12. \A q \in Process, d \in Conn : d \in Elements(pool[q])' => PoolOf[d] = q /\ ~(InUse(d)')
  BY <1>8 DEF Elements
<1> QED
  BY <1>5, <1>9, <1>10, <1>11, <1>12 DEF PoolInv

LEMMA DeclinePools ==
  ASSUME PoolInv, NEW t \in Task, NEW c \in Conn, Decline(t, c)
  PROVE  PoolInv' /\ ~InUse(c)
<1> DEFINE p == RunsIn[t]
<1>1. p \in Process
  BY AdvisoryLockAssumption DEF Session
<1>2. /\ c \in Offered(p) /\ at' = at
      /\ \/ pool' = [pool EXCEPT ![p] = Append(Remaining(p), c)]
         \/ pool' = [pool EXCEPT ![p] = Remaining(p)]
  BY DEF Decline, Ticks, Return
<1>3. /\ PoolOf[c] = p /\ ~InUse(c)
      /\ Remaining(p) \in Seq(Conn) /\ Distinct(Remaining(p))
      /\ c \notin Elements(Remaining(p))
      /\ \A d \in Conn : d \in Elements(Remaining(p)) => d \in Elements(pool[p])
  BY <1>1, <1>2, OfferedFacts
<1>4. /\ pool'[p] \in Seq(Conn) /\ Distinct(pool'[p])
      /\ \A d \in Conn : d \in Elements(pool'[p]) => d = c \/ d \in Elements(pool[p])
  <2>1. pool'[p] = Append(Remaining(p), c) \/ pool'[p] = Remaining(p)
    BY <1>1, <1>2 DEF PoolInv
  <2>2. /\ pool'[p] \in Seq(Conn) /\ Distinct(pool'[p])
        /\ \A d \in Conn : d \in Elements(pool'[p]) => d = c \/ d \in Elements(Remaining(p))
    BY <1>3, <2>1, ReturnedDistinct
  <2> QED
    BY <1>3, <2>2
<1>5. pool' \in [Process -> Seq(Conn)] /\ \A q \in Process : q # p => pool'[q] = pool[q]
  BY <1>1, <1>2, <1>4 DEF PoolInv
<1>6. \A d \in Conn : InUse(d)' <=> InUse(d)
  BY <1>2 DEF InUse
<1>7. \A q \in Process : Distinct(pool[q])'
  BY <1>4, <1>5 DEF PoolInv, Distinct
<1>8. \A q \in Process, d \in Conn : d \in Elements(pool'[q]) => PoolOf[d] = q /\ ~InUse(d)
  BY <1>3, <1>4, <1>5 DEF PoolInv
<1>9. \A q \in Process, d \in Conn : d \in Elements(pool[q])' => PoolOf[d] = q /\ ~(InUse(d)')
  BY <1>6, <1>8 DEF Elements
<1> QED
  BY <1>2, <1>3, <1>5, <1>7, <1>9 DEF PoolInv

LEMMA KillPools ==
  ASSUME PoolInv, NEW p \in Process, Kill(p)
  PROVE  PoolInv'
<1>1. /\ pool' = [pool EXCEPT ![p] = <<>>]
      /\ at' = [s \in Session |-> IF RunsIn[s] = p THEN "none" ELSE at[s]]
  BY DEF Kill
<1>2. \A s \in Session : at'[s] = at[s] \/ at'[s] = "none"
  BY <1>1
<1>3. /\ pool' \in [Process -> Seq(Conn)] /\ at' \in [Session -> Conn \cup {"none"}]
      /\ \A q \in Process : pool'[q] = pool[q] \/ pool'[q] = <<>>
  BY <1>1 DEF PoolInv
<1>4. Elements(<<>>) = {} /\ Distinct(<<>>)
  BY DEF Elements, Distinct
<1>5. \A d \in Conn : InUse(d)' => InUse(d)
  BY <1>2, AdvisoryLockAssumption DEF InUse
<1>6. \A q \in Process : Distinct(pool[q])'
  BY <1>3, <1>4 DEF PoolInv, Distinct
<1>7. \A q \in Process, d \in Conn : d \in Elements(pool'[q]) => PoolOf[d] = q /\ ~(InUse(d)')
  BY <1>3, <1>4, <1>5 DEF PoolInv
<1>8. \A q \in Process, d \in Conn : d \in Elements(pool[q])' => PoolOf[d] = q /\ ~(InUse(d)')
  BY <1>7 DEF Elements
<1>9. /\ \A u \in Session : at'[u] # "none" => PoolOf[at'[u]] = RunsIn[u]
      /\ \A u, v \in Session : at'[u] = at'[v] /\ at'[u] # "none" => u = v
  BY <1>2 DEF PoolInv
<1> QED
  BY <1>3, <1>6, <1>8, <1>9 DEF PoolInv

LEMMA PoolStep == PoolInv /\ [Next]_vars => PoolInv'
<1> SUFFICES ASSUME PoolInv, [Next]_vars PROVE PoolInv'
  OBVIOUS
<1>1. ASSUME NEW t \in Task, NEW c \in Conn, Take(t, c) \/ Resume(t, c) PROVE PoolInv'
  BY <1>1, CheckoutPools DEF Take, Ticks, Resume, Session
<1>2. ASSUME NEW t \in Task, NEW c \in Conn, Decline(t, c) PROVE PoolInv'
  BY <1>2, DeclinePools
<1>3. ASSUME NEW t \in Task, Commit(t) \/ Leave(t) \/ LeaveFailed(t) PROVE PoolInv'
  BY <1>3, CheckinPools DEF Commit, Leave, LeaveFailed, Session
<1>4. ASSUME NEW g \in Guest, Depart(g) PROVE PoolInv'
  BY <1>4, CheckinPools DEF Depart, Session
<1>5. ASSUME NEW g \in Guest, NEW c \in Conn, Visit(g, c) PROVE PoolInv'
  BY <1>5, CheckoutPools DEF Visit, Session
<1>6. CASE UNCHANGED <<pool, at>>
  BY <1>6 DEF PoolInv, InUse, Elements, Distinct
<1>7. ASSUME NEW p \in Process, Kill(p) PROVE PoolInv'
  BY <1>7, KillPools
<1> QED
  BY <1>1, <1>2, <1>3, <1>4, <1>5, <1>6, <1>7 DEF Next, Tick, Age, vars

-----------------------------------------------------------------------------
(***************************************************************************)
(* The locks.                                                              *)
(***************************************************************************)

Held == [Conn -> [Key -> Nat]]

LEMMA NoLocksTyped == NoLocks \in [Key -> Nat] /\ \A k \in Key : ~(NoLocks[k] > 0)
  BY DEF NoLocks

\* Closing a connection frees its locks and no others.
LEMMA ClosedFacts ==
  ASSUME NEW h \in Held, OneHolder(h), NEW c \in Conn,
         NEW g, g = h \/ g = [h EXCEPT ![c] = NoLocks]
  PROVE  /\ g \in Held /\ OneHolder(g)
         /\ \A d \in Conn : d # c => g[d] = h[d]
         /\ \A k \in Key : g[c][k] > 0 => h[c][k] > 0
<1>1. CASE g = h
  BY <1>1
<1>2. CASE g = [h EXCEPT ![c] = NoLocks]
  <2>1. g \in Held /\ g[c] = NoLocks /\ \A d \in Conn : d # c => g[d] = h[d]
    BY <1>2, NoLocksTyped DEF Held
  <2>2. \A k \in Key : ~(g[c][k] > 0)
    BY <2>1, NoLocksTyped
  <2>3. OneHolder(g)
    BY <2>1, <2>2 DEF OneHolder
  <2> QED
    BY <2>1, <2>2, <2>3
<1> QED
  BY <1>1, <1>2

LEMMA HeldAfterFacts ==
  ASSUME LockInv, NEW c \in Conn
  PROVE  /\ HeldAfter(c) \in Held /\ OneHolder(HeldAfter(c))
         /\ \A d \in Conn : d # c => HeldAfter(c)[d] = held[d]
         /\ \A k \in Key : HeldAfter(c)[c][k] > 0 => held[c][k] > 0
<1>1. HeldAfter(c) = held \/ HeldAfter(c) = [held EXCEPT ![c] = NoLocks]
  BY DEF HeldAfter
<1>2. held \in Held /\ OneHolder(held)
  BY DEF LockInv, Held
<1> QED
  BY <1>1, <1>2, ClosedFacts

LEMMA ReturnFacts ==
  ASSUME NEW h \in Held, OneHolder(h), NEW c \in Conn, NEW p, NEW q, Return(p, c, q, h)
  PROVE  /\ held' \in Held /\ OneHolder(held')
         /\ \A d \in Conn : d # c => held'[d] = h[d]
<1>1. held' = h \/ held' = [h EXCEPT ![c] = NoLocks]
  BY DEF Return
<1> QED
  BY <1>1, ClosedFacts

LEMMA Tasks == Task \subseteq Session /\ \A t \in Task : KeyOf[t] \in Key
  BY DEF Session, Key

\* Where only the lock of connection c may have changed, whoever is inside
\* and not at c still has its own.
LEMMA OthersKeepTheirs ==
  ASSUME IInv, NEW c \in Conn, inside' \subseteq Task,
         \A d \in Conn : d # c => held'[d] = held[d],
         NEW u \in inside, KeyOf[u] \notin Committing, at[u] # c, at'[u] = at[u]
  PROVE  at'[u] # "none" /\ held'[at'[u]][KeyOf[u]] > 0
<1>1. at[u] # "none" /\ held[at[u]][KeyOf[u]] > 0
  BY DEF IInv, LockInv, StillHolds
<1>2. at[u] \in Conn
  BY <1>1, Tasks DEF IInv, LockInv, PoolInv
<1> QED
  BY <1>1, <1>2

LEMMA CheckoutLocks ==
  ASSUME IInv, NEW s \in Session, at[s] = "none", NEW c \in Conn, Checkout(s, c),
         held' = HeldAfter(c), UNCHANGED <<inside, faults>>
  PROVE  LockInv'
<1>1. ~InUse(c) /\ \A u \in Session : u # s => at'[u] = at[u]
  BY CheckoutPools DEF IInv, Checkout, PoolInv
<1>2. /\ held' \in Held /\ OneHolder(held')
      /\ \A d \in Conn : d # c => held'[d] = held[d]
  BY HeldAfterFacts DEF IInv
<1>3. aged' \subseteq Conn /\ inside' \subseteq Task /\ faults' \in Nat
  BY DEF IInv, LockInv, Checkout
<1>4. ASSUME NEW u \in inside', KeyOf[u] \notin Committing
      PROVE  at'[u] # "none" /\ held'[at'[u]][KeyOf[u]] > 0
  <2>1. u \in inside /\ u \in Session
    BY <1>3, Tasks
  <2>2. at[u] # "none"
    BY <1>4, <2>1 DEF IInv, LockInv, StillHolds
  <2>3. u # s /\ at[u] # c
    BY <1>1, <2>1, <2>2 DEF InUse
  <2> QED
    BY <1>1, <1>2, <1>3, <1>4, <2>1, <2>3, OthersKeepTheirs
<1> QED
  BY <1>2, <1>3, <1>4 DEF LockInv, StillHolds, OneHolder, Held

LEMMA TakeLocks ==
  ASSUME IInv, NEW t \in Task, NEW c \in Conn, Take(t, c)
  PROVE  LockInv'
<1> DEFINE h == HeldAfter(c)
           k == KeyOf[t]
<1>1. /\ at[t] = "none" /\ t \notin inside /\ Checkout(t, c) /\ Granted(h, c, k)
      /\ held' = [h EXCEPT ![c][k] = @ + 1] /\ inside' = inside \cup {t} /\ faults' = faults
  BY DEF Take, Ticks
<1>2. /\ ~InUse(c) /\ at'[t] = c /\ "none" # c
      /\ \A u \in Session : u # t => at'[u] = at[u]
  BY <1>1, Tasks, CheckoutPools, AdvisoryLockAssumption DEF IInv, Checkout, PoolInv
<1>3. /\ h \in Held /\ OneHolder(h) /\ k \in Key
      /\ \A d \in Conn : d # c => h[d] = held[d]
  BY Tasks, HeldAfterFacts DEF IInv
<1> HIDE DEF h, k
<1>4. /\ held' \in Held
      /\ \A d \in Conn : d # c => held'[d] = h[d]
      /\ held'[c][k] = h[c][k] + 1
      /\ \A l \in Key : l # k => held'[c][l] = h[c][l]
  BY <1>1, <1>3 DEF Held
<1>5. OneHolder(held')
  BY <1>1, <1>3, <1>4 DEF OneHolder, Granted, Held
<1>6. aged' \subseteq Conn /\ inside' \subseteq Task /\ faults' \in Nat
  BY <1>1 DEF IInv, LockInv, Checkout
<1>7. ASSUME NEW u \in inside', KeyOf[u] \notin Committing
      PROVE  at'[u] # "none" /\ held'[at'[u]][KeyOf[u]] > 0
  <2>1. CASE u = t
    <3>1. h[c][k] \in Nat
      BY <1>3 DEF Held
    <3> QED
      BY <1>2, <1>4, <2>1, <3>1 DEF k
  <2>2. CASE u # t
    <3>1. u \in inside /\ u \in Session
      BY <1>1, <1>6, <2>2, Tasks
    <3>2. at[u] # "none"
      BY <1>7, <3>1 DEF IInv, LockInv, StillHolds
    <3>3. at[u] # c
      BY <1>2, <3>1 DEF InUse
    <3> QED
      BY <1>2, <1>3, <1>4, <1>6, <1>7, <2>2, <3>1, <3>3, OthersKeepTheirs
  <2> QED
    BY <2>1, <2>2
<1> QED
  BY <1>4, <1>5, <1>6, <1>7 DEF LockInv, StillHolds, OneHolder, Held

\* A session that ends its transaction and is not a job inside a block that
\* forbids that.
LEMMA CheckinLocks ==
  ASSUME IInv, NEW s \in Session, at[s] # "none",
         NEW h \in Held, OneHolder(h), \A d \in Conn : d # at[s] => h[d] = held[d],
         Checkin(s, h), inside' \subseteq inside,
         s \in inside' => KeyOf[s] \in Committing, faults' \in Nat
  PROVE  LockInv'
<1> DEFINE c == at[s]
<1>1. c \in Conn
  BY DEF IInv, PoolInv
<1>2. /\ held' \in Held /\ OneHolder(held')
      /\ \A d \in Conn : d # c => held'[d] = held[d]
  BY <1>1, ReturnFacts DEF Checkin
<1>3. aged' \subseteq Conn /\ inside' \subseteq Task
  BY DEF IInv, LockInv, Checkin
<1>4. \A u \in Session : u # s => at'[u] = at[u]
  BY DEF IInv, PoolInv, Checkin
<1>5. ASSUME NEW u \in inside', KeyOf[u] \notin Committing
      PROVE  at'[u] # "none" /\ held'[at'[u]][KeyOf[u]] > 0
  <2>1. u \in inside /\ u \in Session /\ u # s
    BY <1>3, <1>5, Tasks
  <2>2. at[u] # c
    BY <2>1 DEF IInv, PoolInv
  <2> HIDE DEF c
  <2> QED
    BY <1>1, <1>2, <1>3, <1>4, <1>5, <2>1, <2>2, OthersKeepTheirs
<1> QED
  BY <1>2, <1>3, <1>5 DEF LockInv, StillHolds, OneHolder, Held

LEMMA LeaveLocks ==
  ASSUME IInv, NEW t \in Task, Leave(t)
  PROVE  LockInv'
<1> DEFINE c == at[t]
           k == KeyOf[t]
           h == Unlocked(c, k)
<1>1. /\ t \in Session /\ t \in inside /\ c # "none" /\ Checkin(t, h)
      /\ inside' = inside \ {t} /\ faults' = faults
  BY Tasks DEF Leave
<1>2. c \in Conn /\ k \in Key /\ held \in Held
  BY <1>1, Tasks DEF IInv, PoolInv, LockInv, Held
<1> HIDE DEF c, k
<1> DEFINE v == IF held[c][k] = 0 THEN 0 ELSE held[c][k] - 1
<1>3. held[c] \in [Key -> Nat] /\ held[c][k] \in Nat /\ h = [held EXCEPT ![c][k] = v]
  BY <1>2 DEF Held, Unlocked
<1>4. v \in Nat /\ (v > 0 => held[c][k] > 0)
  BY <1>3
<1> HIDE DEF h, v
<1>5. h \in Held /\ h[c][k] = v
  BY <1>2, <1>3, <1>4 DEF Held
<1>6. \A d \in Conn, l \in Key : h[d][l] > 0 => held[d][l] > 0
  <2> SUFFICES ASSUME NEW d \in Conn, NEW l \in Key, h[d][l] > 0
               PROVE  held[d][l] > 0
    OBVIOUS
  <2>1. CASE d = c /\ l = k
    BY <2>1, <1>4, <1>5
  <2>2. CASE ~(d = c /\ l = k)
    BY <2>2, <1>2, <1>3 DEF Held
  <2> QED
    BY <2>1, <2>2
<1>7. \A d \in Conn : d # c => h[d] = held[d]
  BY <1>2, <1>3 DEF Held
<1>8. OneHolder(h)
  BY <1>6 DEF IInv, LockInv, OneHolder
<1>9. faults' \in Nat
  BY <1>1 DEF IInv, LockInv
<1> QED
  BY <1>1, <1>5, <1>6, <1>7, <1>8, <1>9, CheckinLocks DEF c

LEMMA DeclineLocks ==
  ASSUME IInv, NEW t \in Task, NEW c \in Conn, Decline(t, c)
  PROVE  LockInv'
<1> DEFINE h == HeldAfter(c)
<1>1. /\ Return(RunsIn[t], c, Remaining(RunsIn[t]), h)
      /\ aged' = aged \ {c} /\ UNCHANGED <<at, inside, faults>>
  BY DEF Decline
<1>2. ~InUse(c)
  BY DeclinePools DEF IInv
<1>3. /\ h \in Held /\ OneHolder(h)
      /\ \A d \in Conn : d # c => h[d] = held[d]
  BY HeldAfterFacts DEF IInv
<1> HIDE DEF h
<1>4. /\ held' \in Held /\ OneHolder(held')
      /\ \A d \in Conn : d # c => held'[d] = held[d]
  BY <1>1, <1>3, ReturnFacts
<1>5. aged' \subseteq Conn /\ inside' \subseteq Task /\ faults' \in Nat
  BY <1>1 DEF IInv, LockInv
<1>6. ASSUME NEW u \in inside', KeyOf[u] \notin Committing
      PROVE  at'[u] # "none" /\ held'[at'[u]][KeyOf[u]] > 0
  <2>1. u \in inside /\ u \in Session /\ at'[u] = at[u]
    BY <1>1, <1>5, Tasks
  <2>2. at[u] # c
    BY <1>2, <2>1 DEF InUse
  <2> QED
    BY <1>4, <1>5, <1>6, <2>1, <2>2, OthersKeepTheirs
<1> QED
  BY <1>4, <1>5, <1>6 DEF LockInv, StillHolds, OneHolder, Held

LEMMA KillLocks ==
  ASSUME IInv, NEW p \in Process, Kill(p)
  PROVE  LockInv'
<1>1. /\ held' = [c \in Conn |-> IF PoolOf[c] = p THEN NoLocks ELSE held[c]]
      /\ aged' = {c \in aged : PoolOf[c] # p}
      /\ at' = [s \in Session |-> IF RunsIn[s] = p THEN "none" ELSE at[s]]
      /\ inside' = {t \in inside : RunsIn[t] # p}
      /\ faults' = faults + 1
  BY DEF Kill, Fault
<1>2. held \in Held
  BY DEF IInv, LockInv, Held
<1>3. held' \in Held /\ \A c \in Conn, k \in Key : held'[c][k] > 0 => held[c][k] > 0
  BY <1>1, <1>2, NoLocksTyped DEF Held
<1>4. OneHolder(held')
  BY <1>3 DEF IInv, LockInv, OneHolder
<1>5. aged' \subseteq Conn /\ inside' \subseteq Task /\ faults' \in Nat
  BY <1>1 DEF IInv, LockInv
<1>6. ASSUME NEW u \in inside', KeyOf[u] \notin Committing
      PROVE  at'[u] # "none" /\ held'[at'[u]][KeyOf[u]] > 0
  <2>1. u \in inside /\ u \in Session /\ RunsIn[u] # p /\ at'[u] = at[u]
    BY <1>1, <1>5, Tasks
  <2>2. at[u] # "none" /\ held[at[u]][KeyOf[u]] > 0
    BY <1>6, <2>1 DEF IInv, LockInv, StillHolds
  <2>3. at[u] \in Conn /\ PoolOf[at[u]] # p
    BY <2>1, <2>2 DEF IInv, PoolInv
  <2> QED
    BY <1>1, <2>1, <2>2, <2>3
<1> QED
  BY <1>3, <1>4, <1>5, <1>6 DEF LockInv, StillHolds, OneHolder, Held

LEMMA LockStep == IInv /\ [Next]_vars => LockInv'
<1> SUFFICES ASSUME IInv, [Next]_vars PROVE LockInv'
  OBVIOUS
<1>1. held \in Held /\ OneHolder(held)
  BY DEF IInv, LockInv, Held
<1>2. ASSUME NEW t \in Task, NEW c \in Conn, Take(t, c) PROVE LockInv'
  BY <1>2, TakeLocks
<1>3. ASSUME NEW t \in Task, NEW c \in Conn, Decline(t, c) PROVE LockInv'
  BY <1>3, DeclineLocks
<1>4. ASSUME NEW t \in Task, NEW c \in Conn, Resume(t, c) PROVE LockInv'
  BY <1>4, CheckoutLocks, Tasks DEF Resume
<1>5. ASSUME NEW t \in Task, Commit(t) PROVE LockInv'
  <2>1. /\ at[t] # "none" /\ Checkin(t, held) /\ KeyOf[t] \in Committing
        /\ inside' = inside /\ faults' = faults
    BY <1>5 DEF Commit
  <2>2. faults' \in Nat
    BY <2>1 DEF IInv, LockInv
  <2> QED
    BY <1>1, <2>1, <2>2, CheckinLocks, Tasks
<1>6. ASSUME NEW t \in Task, Leave(t) PROVE LockInv'
  BY <1>6, LeaveLocks
<1>7. ASSUME NEW t \in Task, LeaveFailed(t) PROVE LockInv'
  <2>1. /\ at[t] # "none" /\ Checkin(t, held) /\ inside' = inside \ {t}
        /\ faults' = faults + 1
    BY <1>7 DEF LeaveFailed, Fault
  <2>2. faults' \in Nat
    BY <2>1 DEF IInv, LockInv
  <2> QED
    BY <1>1, <2>1, <2>2, CheckinLocks, Tasks
<1>8. ASSUME NEW g \in Guest, Depart(g) PROVE LockInv'
  <2>1. at[g] # "none" /\ Checkin(g, held) /\ inside' = inside /\ faults' = faults
    BY <1>8 DEF Depart
  <2>2. faults' \in Nat /\ g \notin inside /\ g \in Session
    BY <2>1, AdvisoryLockAssumption DEF IInv, LockInv, Session
  <2> QED
    BY <1>1, <2>1, <2>2, CheckinLocks
<1>9. ASSUME NEW g \in Guest, NEW c \in Conn, Visit(g, c) PROVE LockInv'
  BY <1>9, CheckoutLocks DEF Visit, Session
<1>10. ASSUME NEW c \in Conn, Age(c) PROVE LockInv'
  BY <1>10 DEF Age, IInv, LockInv, StillHolds, OneHolder
<1>11. ASSUME NEW p \in Process, Kill(p) PROVE LockInv'
  BY <1>11, KillLocks
<1>12. CASE UNCHANGED vars
  BY <1>12 DEF vars, IInv, LockInv, StillHolds, OneHolder
<1> QED
  BY <1>2, <1>3, <1>4, <1>5, <1>6, <1>7, <1>8, <1>9, <1>10, <1>11, <1>12 DEF Next, Tick

-----------------------------------------------------------------------------
(***************************************************************************)
(* The theorems.                                                           *)
(***************************************************************************)

LEMMA Initially == Init => IInv
<1> SUFFICES ASSUME Init PROVE IInv
  OBVIOUS
<1>1. Elements(<<>>) = {} /\ Distinct(<<>>)
  BY DEF Elements, Distinct
<1>2. PoolInv
  BY <1>1 DEF Init, PoolInv
<1>3. held \in Held /\ OneHolder(held)
  BY NoLocksTyped DEF Init, Held, OneHolder
<1>4. LockInv
  BY <1>3 DEF Init, LockInv, Held, StillHolds
<1> QED
  BY <1>2, <1>4 DEF IInv

LEMMA Invariance == Spec => []IInv
<1>1. IInv /\ [Next]_vars => IInv'
  BY PoolStep, LockStep DEF IInv
<1> QED
  BY <1>1, Initially, PTL DEF Spec

\* Every variable keeps its type.
THEOREM PoolsTyped == Spec => []TypeOK
<1>1. IInv => TypeOK
  BY DEF IInv, PoolInv, LockInv, TypeOK
<1> QED
  BY <1>1, Invariance, PTL

\* A job that does not commit inside its locked block excludes itself, in any
\* deployment: whoever is inside has a connection of its own that holds the
\* lock, and no two connections do.
THEOREM BackupsExclude == Spec => []UncommittedJobsExclude
<1>1. IInv => UncommittedJobsExclude
  <2> SUFFICES ASSUME IInv, NEW k \in Key \ Committing, NEW s \in inside, NEW t \in inside,
                      KeyOf[s] = k, KeyOf[t] = k
               PROVE  s = t
    BY DEF UncommittedJobsExclude, Overlap
  <2>1. /\ s \in Session /\ t \in Session
        /\ at[s] # "none" /\ at[t] # "none"
        /\ held[at[s]][k] > 0 /\ held[at[t]][k] > 0
    BY Tasks DEF IInv, LockInv, StillHolds
  <2>2. at[s] \in Conn /\ at[t] \in Conn
    BY <2>1 DEF IInv, PoolInv
  <2>3. at[s] = at[t]
    BY <2>1, <2>2 DEF IInv, LockInv, OneHolder
  <2> QED
    BY <2>1, <2>3 DEF IInv, PoolInv
<1> QED
  BY <1>1, Invariance, PTL

=============================================================================

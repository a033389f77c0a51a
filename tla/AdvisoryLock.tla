----------------------------- MODULE AdvisoryLock -----------------------------
(***************************************************************************)
(* The advisory locks that keep a background job to one process, and the   *)
(* connection pools they are taken through.                                *)
(*                                                                         *)
(* pg_try_advisory_lock belongs to the server session, that is to a pooled *)
(* connection.  A job's database session holds a connection from its first *)
(* statement to the next commit and may get another one afterwards: jobs   *)
(* that commit inside the locked block leave the lock behind on a          *)
(* connection anybody in the process may check out, find too old and       *)
(* replace, or close.                                                      *)
(***************************************************************************)
EXTENDS Integers, Sequences

CONSTANTS
  Process,     \* processes that run a scheduler, each with a pool of its own
  Conn,        \* the connections a pool may open at once, of all the pools
  PoolOf,      \* the process whose pool a connection is in
  Task,        \* one job function in one process: max_instances is 1
  Guest,       \* the other sessions of a process: requests, jobs without lock
  RunsIn,      \* the process of a task or guest
  KeyOf,       \* the lock a task takes
  Committing,  \* the keys whose tasks commit inside the locked block
  PoolSize,    \* connections a pool keeps open when they are returned
  MaxHeld,     \* bound: times a connection may take one lock
  MaxFaults    \* bound: failed transactions and killed processes

Key == {KeyOf[t] : t \in Task}
Session == Task \cup Guest

ASSUME AdvisoryLockAssumption ==
  /\ PoolOf \in [Conn -> Process]
  /\ RunsIn \in [Session -> Process]
  /\ Task \cap Guest = {}
  /\ "none" \notin Conn
  /\ DOMAIN KeyOf = Task
  /\ Committing \subseteq Key
  /\ PoolSize \in Nat \ {0}
  /\ MaxHeld \in Nat \ {0}
  /\ MaxFaults \in Nat

VARIABLES
  pool,    \* the idle connections of each process, the longest idle first
  held,    \* how often each connection's server session holds each lock
  aged,    \* the connections older than pool_recycle
  at,      \* the connection a session has checked out
  inside,  \* the tasks that are in their locked block
  faults   \* faults so far

vars == <<pool, held, aged, at, inside, faults>>

Elements(s) == {s[i] : i \in DOMAIN s}
InUse(c) == \E s \in Session : at[s] = c
Open(c) == InUse(c) \/ c \in Elements(pool[PoolOf[c]])
NoLocks == [k \in Key |-> 0]

-----------------------------------------------------------------------------
(***************************************************************************)
(* The pool.                                                               *)
(***************************************************************************)

\* The connection a session of p gets: the one idle for longest, or a new one.
Offered(p) ==
  IF pool[p] # <<>> THEN {Head(pool[p])}
  ELSE {c \in Conn : PoolOf[c] = p /\ ~Open(c)}

Remaining(p) == IF pool[p] # <<>> THEN Tail(pool[p]) ELSE <<>>

\* (Variant: connections are kept for ever.)
HeldForEver(c) == held

\* What is held once c is checked out: one that is too old is closed, with the
\* locks of its server session, and opened again.
HeldAfter(c) == IF c \in aged THEN [held EXCEPT ![c] = NoLocks] ELSE held

Checkout(s, c) ==
  /\ c \in Offered(RunsIn[s])
  /\ pool' = [pool EXCEPT ![RunsIn[s]] = Remaining(RunsIn[s])]
  /\ at' = [at EXCEPT ![s] = c]
  /\ aged' = aged \ {c}

\* Connection c of process p goes back to the idle ones q, where there is room
\* for it; else it is closed, with its locks.
Return(p, c, q, h) ==
  IF Len(q) < PoolSize
  THEN pool' = [pool EXCEPT ![p] = Append(q, c)] /\ held' = h
  ELSE pool' = [pool EXCEPT ![p] = q] /\ held' = [h EXCEPT ![c] = NoLocks]

Checkin(s, h) ==
  /\ Return(RunsIn[s], at[s], pool[RunsIn[s]], h)
  /\ aged' = IF Len(pool[RunsIn[s]]) < PoolSize THEN aged ELSE aged \ {at[s]}
  /\ at' = [at EXCEPT ![s] = "none"]

-----------------------------------------------------------------------------
(***************************************************************************)
(* A task: async with advisory_lock(db, key) as acquired: ...              *)
(***************************************************************************)

\* A session that holds the lock gets it again; another's is in the way.
Granted(h, c, k) == \A d \in Conn : d # c => h[d][k] = 0

Ticks(t, c) == t \notin inside /\ at[t] = "none" /\ c \in Offered(RunsIn[t])

Take(t, c) ==
  LET h == HeldAfter(c)
      k == KeyOf[t]
  IN
  /\ Ticks(t, c)
  /\ Granted(h, c, k) /\ h[c][k] < MaxHeld
  /\ Checkout(t, c)
  /\ held' = [h EXCEPT ![c][k] = @ + 1]
  /\ inside' = inside \cup {t}
  /\ UNCHANGED faults

\* Somebody else has it: the task is over for this tick.
Decline(t, c) ==
  LET h == HeldAfter(c) IN
  /\ Ticks(t, c)
  /\ ~Granted(h, c, KeyOf[t])
  /\ Return(RunsIn[t], c, Remaining(RunsIn[t]), h)
  /\ aged' = aged \ {c}
  /\ UNCHANGED <<at, inside, faults>>

\* (Variants: every job commits inside its block; a commit returns a connection
\* also when the session has none.)
CommitEverywhere(t) ==
  /\ t \in inside /\ at[t] # "none"
  /\ Checkin(t, held)
  /\ UNCHANGED <<inside, faults>>

CommitTwice(t) ==
  /\ t \in inside /\ KeyOf[t] \in Committing
  /\ Checkin(t, held)
  /\ UNCHANGED <<inside, faults>>

\* A commit inside the locked block.
Commit(t) ==
  /\ t \in inside /\ KeyOf[t] \in Committing /\ at[t] # "none"
  /\ Checkin(t, held)
  /\ UNCHANGED <<inside, faults>>

\* The next statement after a commit.
Resume(t, c) ==
  /\ t \in inside /\ at[t] = "none"
  /\ Checkout(t, c)
  /\ held' = HeldAfter(c)
  /\ UNCHANGED <<inside, faults>>

\* pg_advisory_unlock on a session that does not hold the lock is a warning.
Unlocked(c, k) == [held EXCEPT ![c][k] = IF @ = 0 THEN 0 ELSE @ - 1]

\* The block is left, normally or by an exception, and the session closed.
Leave(t) ==
  /\ t \in inside /\ at[t] # "none"
  /\ Checkin(t, Unlocked(at[t], KeyOf[t]))
  /\ inside' = inside \ {t}
  /\ UNCHANGED faults

Fault == faults < MaxFaults /\ faults' = faults + 1

\* The transaction has failed: the unlock raises too, and is not executed.
LeaveFailed(t) ==
  /\ t \in inside /\ at[t] # "none"
  /\ Fault
  /\ Checkin(t, held)
  /\ inside' = inside \ {t}

-----------------------------------------------------------------------------
(***************************************************************************)
(* Everything else that uses the pool.                                     *)
(***************************************************************************)

Visit(g, c) ==
  /\ at[g] = "none"
  /\ Checkout(g, c)
  /\ held' = HeldAfter(c)
  /\ UNCHANGED <<inside, faults>>

Depart(g) ==
  /\ at[g] # "none"
  /\ Checkin(g, held)
  /\ UNCHANGED <<inside, faults>>

\* pool_recycle passes since a connection was opened.
Age(c) ==
  /\ Open(c) /\ c \notin aged
  /\ aged' = aged \cup {c}
  /\ UNCHANGED <<pool, held, at, inside, faults>>

\* A process is killed and restarted: its connections are gone.
Kill(p) ==
  /\ Fault
  /\ pool' = [pool EXCEPT ![p] = <<>>]
  /\ held' = [c \in Conn |-> IF PoolOf[c] = p THEN NoLocks ELSE held[c]]
  /\ aged' = {c \in aged : PoolOf[c] # p}
  /\ at' = [s \in Session |-> IF RunsIn[s] = p THEN "none" ELSE at[s]]
  /\ inside' = {t \in inside : RunsIn[t] # p}

-----------------------------------------------------------------------------
Init ==
  /\ pool = [p \in Process |-> <<>>]
  /\ held = [c \in Conn |-> NoLocks]
  /\ aged = {}
  /\ at = [s \in Session |-> "none"]
  /\ inside = {}
  /\ faults = 0

Tick(t) == \E c \in Conn : Take(t, c) \/ Decline(t, c)

Next ==
  \/ \E t \in Task :
       \/ Tick(t)
       \/ \E c \in Conn : Resume(t, c)
       \/ Commit(t) \/ Leave(t) \/ LeaveFailed(t)
  \/ \E g \in Guest : Depart(g) \/ \E c \in Conn : Visit(g, c)
  \/ \E c \in Conn : Age(c)
  \/ \E p \in Process : Kill(p)

\* Jobs tick and come to their end, sessions are closed, and time passes; that
\* there are always more requests is not assumed.
Fairness ==
  /\ \A t \in Task :
       /\ WF_vars(Tick(t))
       /\ WF_vars(\E c \in Conn : Resume(t, c))
       /\ SF_vars(Leave(t))
  /\ \A g \in Guest : WF_vars(Depart(g))
  /\ \A c \in Conn : WF_vars(Age(c))

Spec == Init /\ [][Next]_vars /\ Fairness

-----------------------------------------------------------------------------
(***************************************************************************)
(* Properties.                                                             *)
(***************************************************************************)

\* The type of every variable.
TypeOK ==
  /\ pool \in [Process -> Seq(Conn)]
  /\ held \in [Conn -> [Key -> Nat]]
  /\ aged \subseteq Conn
  /\ at \in [Session -> Conn \cup {"none"}]
  /\ inside \subseteq Task
  /\ faults \in Nat

Overlap(k) ==
  \E s, t \in inside : s # t /\ KeyOf[s] = k /\ KeyOf[t] = k

\* A job that does not commit inside its block (backup_task) is never run by
\* two processes at once, whatever other jobs and requests do to the pool.
UncommittedJobsExclude == \A k \in Key \ Committing : ~Overlap(k)

\* A lock left behind on some connection does not stop a job for good: as the
\* pool hands out the connections in turn and replaces the old ones, a job of
\* every key gets to run again and again.
LeakedLocksWearOff ==
  \A k \in Key : []<>(\E t \in inside : KeyOf[t] = k)

\* tasks.py, README: "a second worker declines the tick rather than
\* double-scanning": no job runs in two processes at once.
SecondWorkerDeclines == \A k \in Key : ~Overlap(k)
=============================================================================

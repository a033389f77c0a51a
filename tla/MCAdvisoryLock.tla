---------------------------- MODULE MCAdvisoryLock ----------------------------
(* A web process and a worker that both run the jobs; the web process serves *)
(* requests, too.                                                            *)
EXTENDS AdvisoryLock, TLC

MCProcess == {"web", "worker"}
MCConn == {"a1", "a2", "a3", "b1"}
MCPoolOf == [c \in MCConn |-> IF c = "b1" THEN "worker" ELSE "web"]

MCTask == {"scan web", "backup web", "backup worker"}
MCGuest == {"request"}
MCRunsIn == [s \in MCTask \cup MCGuest |-> IF s = "backup worker" THEN "worker" ELSE "web"]
MCKeyOf == [t \in MCTask |-> IF t = "scan web" THEN "scan" ELSE "backup"]

\* The smallest deployment: two workers, which run nothing else.
TwoScans == {"scan web", "scan worker"}
TwoConns == {"a1", "b1"}
TwoPoolOf == [c \in TwoConns |-> IF c = "b1" THEN "worker" ELSE "web"]
TwoRunsIn == [s \in TwoScans |-> IF s = "scan worker" THEN "worker" ELSE "web"]
TwoKeyOf == [t \in TwoScans |-> "scan"]
=============================================================================

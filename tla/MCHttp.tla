---- MODULE MCHttp ----
(***************************************************************************)
(* Instances of Admission, RateLimit and FileStore for TLC.  The three     *)
(* share no variable, and within Admission whole products of passwords,    *)
(* logins and connections are large and say nothing new: every behaviour   *)
(* is about one part, chosen at the start.  The cancellations and the ends *)
(* of connections, which the fairness is about, are never held back.       *)
(***************************************************************************)
EXTENDS Admission, RateLimit, FileStore

CONSTANTS e1, e2, r1, r2, ip1, c1, c2, v1, v2, k1, k2, k3, f1, f2, d1, d2

VARIABLE part

OneIp == [r \in Reqs |-> ip1]

\* One login at a time, and none that is counted.
Alone == /\ \A r \in Reqs \ {r1} : login'[r] = IdleLogin
         /\ \A ip \in Ips : attempts'[ip].count = 0
OnePassword == minted' <= 1 /\ faults' = 0
Kept == /\ retired' = {} /\ restarts' = 0 /\ sessions \subseteq sessions'
        /\ \A i \in Ids : entries'[i].ttl \in {0, Never}

\* passwords: rotations, failed writes and restarts against old sessions.
\* connections: users and administrators coming, going and being cut.
\* logins: requests of one address together, against one password.
AdmissionPart ==
  /\ Next
  /\ \/ part = "passwords" /\ conns' = conns /\ Alone /\ \A s \in sessions' : s.role = "user"
     \/ part = "connections" /\ OnePassword /\ Alone
     \/ part = "logins" /\ conns' = conns /\ OnePassword /\ Kept

HttpInit ==
  /\ Init /\ adminVer = v1 /\ RLInit /\ FSInit
  /\ part \in {"passwords", "connections", "logins", "rate", "files"}

HttpNext ==
  /\ UNCHANGED part
  /\ \/ AdmissionPart /\ UNCHANGED <<buckets, fsVars>>
     \/ part = "rate" /\ RLNext /\ UNCHANGED <<vars, fsVars>>
     \/ part = "files" /\ FSNext /\ UNCHANGED <<vars, buckets>>

\* Where a part is not the chosen one, time changes nothing in it.
HttpSpec ==
  HttpInit /\ [][HttpNext]_<<vars, buckets, fsVars, part>> /\ Fairness

TypesOK == TypeOK /\ BucketsOK /\ FSTypeOK
====

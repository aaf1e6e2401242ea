----------------------------- MODULE Admission -----------------------------
(***************************************************************************)
(* Who gets in and who stays in: the connection passwords and their file   *)
(* (auth/connpass.rs, auth/secrets.rs), the sessions signed against them   *)
(* (auth/session.rs, auth/mod.rs), the login handler with its failure      *)
(* limiter (http/handlers.rs, auth/limiter.rs), and the registry of live   *)
(* connections the admin endpoint cuts (auth/mod.rs, http/server.rs).      *)
(*                                                                         *)
(* Time is kept as ages and remaining lifetimes, never as a date, so it is *)
(* unbounded.  A password is the serial number of its generation:          *)
(* generate() returns 142 random bits, so no two are equal.                *)
(***************************************************************************)
EXTENDS Integers, FiniteSets, FiniteSetsExt

CONSTANTS
  Ids,          \* ids create() can draw: 48 random bits, none drawn twice
  Reqs,         \* login requests in flight at once
  Ips,          \* client addresses
  IpOf,         \* [Reqs -> Ips]: the address a request comes from
  Conns,        \* /ws and /api/presence connections
  AdminVers,    \* fingerprints of the admin password hash a start may have
  MaxEntries,   \* MAX_ENTRIES
  MaxFail,      \* AuthLimiter.max
  Window,       \* AuthLimiter.window, in ticks
  Ttl,          \* the lifetime a Ttl::For gives, in ticks
  MaxMint,      \* bound: passwords generated
  MaxFaults,    \* bound: writes of the password file that fail
  MaxRestarts   \* bound: restarts of the server

ASSUME AdmissionAssumption ==
  /\ {MaxEntries, MaxFail, Window, Ttl} \subseteq Nat \ {0}
  /\ {MaxMint, MaxFaults, MaxRestarts} \subseteq Nat
  /\ IpOf \in [Reqs -> Ips] /\ IsFiniteSet(Reqs) /\ AdminVers # {}

VARIABLES
  entries,      \* connpass::Store.state: id -> Entry, NoEntry when absent
  disk,         \* connection-password.json
  drawn,        \* ids create() has drawn
  minted,       \* passwords generated so far
  known,        \* passwords a response has told the admin
  retired,      \* passwords replaced or revoked by a request answered Ok
  attempts,     \* AuthLimiter.attempts; a count of 0 is an absent key
  sweepAge,     \* ticks since last_sweep, Window when it is due
  login,        \* the login handlers
  sessions,     \* session cookies issued and not yet past their Max-Age
  conns,        \* the connections and their entry of the registry
  cutting,      \* tokens a disconnect has cloned and not yet cancelled
  adminVer,     \* App.admin_ver
  faults, restarts

store   == <<entries, disk, drawn, minted, known, retired, faults>>
limiter == <<attempts, sweepAge>>
live    == <<conns, cutting>>
server  == <<adminVer, restarts>>
vars == <<store, limiter, login, sessions, live, server>>

Never == Ttl + 1                  \* expires_at: None
Passwords == 1 .. MaxMint
Wrong == 0                        \* a guess that matches nothing
AdminPass == MaxMint + 1          \* the plaintext of APP_ADMIN_PASSWORD_HASH
Empty == MaxMint + 2              \* a form without a password

\* ttl is the time left: 0 is expired, Never does not run out.
Entry == [gen : 1 .. MaxMint, pass : Passwords, ttl : 0 .. Never]
NoEntry == [gen |-> 0, pass |-> 0, ttl |-> 0]
NoMatch == [id |-> "none", gen |-> 0, pass |-> 0]

\* What the cookie carries, and the password it was issued against.
UserSession(m) == [role |-> "user", id |-> m.id, gen |-> m.gen, pass |-> m.pass, ver |-> "none"]
AdminSession(v) == [role |-> "admin", id |-> "none", gen |-> 0, pass |-> AdminPass, ver |-> v]
NoSession == [role |-> "none", id |-> "none", gen |-> 0, pass |-> 0, ver |-> "none"]
Sessions == {UserSession([id |-> i, gen |-> g, pass |-> p]) :
               i \in Ids, g \in Passwords, p \in Passwords}
              \cup {AdminSession(v) : v \in AdminVers}

IdleLogin == [pc |-> "idle", guess |-> Wrong, match |-> NoMatch]
IdleConn == [pc |-> "idle", sess |-> NoSession, cancelled |-> FALSE]

TypeOK ==
  /\ entries \in [Ids -> Entry \cup {NoEntry}]
  /\ disk \in [Ids -> Entry \cup {NoEntry}]
  /\ drawn \subseteq Ids /\ minted \in 0 .. MaxMint
  /\ known \subseteq Passwords /\ retired \subseteq Passwords
  /\ attempts \in [Ips -> [count : Nat, age : 0 .. Window + 1]]
  /\ sweepAge \in 0 .. Window
  /\ login \in [Reqs -> [pc : {"idle", "form", "admin", "match"},
                         guess : 0 .. Empty,
                         match : [id : Ids \cup {"none"}, gen : 0 .. MaxMint, pass : 0 .. MaxMint]]]
  /\ sessions \subseteq Sessions
  /\ conns \in [Conns -> [pc : {"idle", "valid", "open"},
                          sess : Sessions \cup {NoSession}, cancelled : BOOLEAN]]
  /\ cutting \subseteq Conns
  /\ adminVer \in AdminVers
  /\ faults \in 0 .. MaxFaults /\ restarts \in 0 .. MaxRestarts

Init ==
  /\ entries = [i \in Ids |-> NoEntry] /\ disk = entries
  /\ drawn = {} /\ minted = 0 /\ known = {} /\ retired = {}
  /\ attempts = [ip \in Ips |-> [count |-> 0, age |-> 0]] /\ sweepAge = Window
  /\ login = [r \in Reqs |-> IdleLogin]
  /\ sessions = {}
  /\ conns = [c \in Conns |-> IdleConn] /\ cutting = {}
  /\ adminVer \in AdminVers
  /\ faults = 0 /\ restarts = 0

-----------------------------------------------------------------------------
(* Connection passwords.  Each mutation runs under the write lock to the    *)
(* end of the file write.  The write goes to a temporary file renamed over  *)
(* the old one, so the file holds the new list or, when any step fails, the *)
(* old one; the list in memory has changed either way.                      *)

Held == {i \in Ids : entries[i] # NoEntry}

\* What atomic_write leaves: the new file renamed over the old one, or the old.
Written(list, ok) == IF ok THEN list ELSE disk

\* Mutant: the list is written before it is changed.
PersistBefore(list, ok) ==
  entries' = list /\ disk' = Written(entries, ok) /\ UNCHANGED faults
Persist(list, ok) ==
  /\ entries' = list
  /\ disk' = Written(list, ok)
  /\ faults' = IF ok THEN faults ELSE faults + 1
  /\ ~ok => faults < MaxFaults

\* ttl_from_seconds and expiry_for: no expiry, disabled at once, or a lifetime.
Lifetimes == {Never, 0, Ttl}

Create(i, ttl, ok) ==
  /\ i \notin drawn /\ drawn' = drawn \cup {i}
  /\ minted < MaxMint /\ minted' = minted + 1
  /\ IF Cardinality(Held) >= MaxEntries
       THEN UNCHANGED <<entries, disk, faults, known>>    \* TooManyEntries
       ELSE /\ Persist([entries EXCEPT ![i] = [gen |-> 1, pass |-> minted', ttl |-> ttl]], ok)
            /\ known' = IF ok THEN known \cup {minted'} ELSE known
  /\ UNCHANGED <<retired, limiter, login, sessions, live, server>>

\* Mutant: the plaintext is replaced and the generation left alone.
RotateInPlace(i, ok) ==
  /\ entries[i] # NoEntry
  /\ minted < MaxMint /\ minted' = minted + 1
  /\ Persist([entries EXCEPT ![i].pass = minted'], ok)
  /\ known' = IF ok THEN known \cup {minted'} ELSE known
  /\ retired' = IF ok THEN retired \cup {entries[i].pass} ELSE retired
  /\ UNCHANGED <<drawn, limiter, login, sessions, live, server>>
Rotate(i, ok) ==
  /\ entries[i] # NoEntry
  /\ minted < MaxMint /\ minted' = minted + 1
  /\ Persist([entries EXCEPT ![i].gen = @ + 1, ![i].pass = minted'], ok)
  /\ known' = IF ok THEN known \cup {minted'} ELSE known
  /\ retired' = IF ok THEN retired \cup {entries[i].pass} ELSE retired
  /\ UNCHANGED <<drawn, limiter, login, sessions, live, server>>

Revoke(i, ok) ==
  /\ entries[i] # NoEntry
  /\ Persist([entries EXCEPT ![i] = NoEntry], ok)
  /\ retired' = IF ok THEN retired \cup {entries[i].pass} ELSE retired
  /\ UNCHANGED <<drawn, minted, known, limiter, login, sessions, live, server>>

SetTtl(i, ttl, ok) ==
  /\ entries[i] # NoEntry
  /\ Persist([entries EXCEPT ![i].ttl = ttl], ok)
  /\ UNCHANGED <<drawn, minted, known, retired, limiter, login, sessions, live, server>>

\* rename changes the label only, and writes the whole list: what an earlier
\* failed write left out of the file goes in with it.
Rename(i, ok) ==
  /\ entries[i] # NoEntry
  /\ Persist(entries, ok)
  /\ UNCHANGED <<drawn, minted, known, retired, limiter, login, sessions, live, server>>

-----------------------------------------------------------------------------
(* The failure limiter.                                                     *)

\* blocked_at: a window that has passed is forgotten first.
Stale(ip) == attempts[ip].count = 0 \/ attempts[ip].age > Window
\* Mutant: one failure more than max.
BlockedAbove(ip) == ~Stale(ip) /\ attempts[ip].count > MaxFail
Blocked(ip) == ~Stale(ip) /\ attempts[ip].count >= MaxFail
Forget(a, ip) == [a EXCEPT ![ip] = [count |-> 0, age |-> 0]]

\* fail_at: a sweep of every stale window, at most one per window, then the
\* failure counted in the address's window or opening a new one.
Swept == IF sweepAge >= Window
           THEN [ip \in Ips |-> IF Stale(ip) THEN [count |-> 0, age |-> 0] ELSE attempts[ip]]
           ELSE attempts
Fail(ip) ==
  /\ sweepAge' = IF sweepAge >= Window THEN 0 ELSE sweepAge
  /\ attempts' = [Swept EXCEPT ![ip] = IF Stale(ip) THEN [count |-> 1, age |-> 0]
                                                    ELSE [Swept[ip] EXCEPT !.count = @ + 1]]
Success(ip) == attempts' = Forget(attempts, ip) /\ UNCHANGED sweepAge

-----------------------------------------------------------------------------
(* POST /api/login: the check, the body (awaited), the admin hash           *)
(* (awaited), the verification against a copy of the entries, the outcome.  *)

LoginCheck(r) ==
  /\ login[r].pc = "idle"
  /\ attempts' = IF Stale(IpOf[r]) THEN Forget(attempts, IpOf[r]) ELSE attempts
  /\ login' = IF Blocked(IpOf[r]) THEN login ELSE [login EXCEPT ![r].pc = "form"]
  /\ UNCHANGED <<sweepAge, store, sessions, live, server>>

\* An unreadable body is answered 400 and not counted, an empty password is.
LoginForm(r) ==
  /\ login[r].pc = "form"
  /\ \/ login' = [login EXCEPT ![r] = IdleLogin] /\ UNCHANGED limiter
     \/ login' = [login EXCEPT ![r] = IdleLogin] /\ Fail(IpOf[r])
     \/ /\ \E g \in known \cup {Wrong, AdminPass} :
              login' = [login EXCEPT ![r].pc = "admin", ![r].guess = g]
        /\ UNCHANGED limiter
  /\ UNCHANGED <<store, sessions, live, server>>

\* The admin password; else the entries are cloned and the guess verified.
Verify(g) ==
  LET hit == {i \in Held : entries[i].ttl > 0 /\ entries[i].pass = g}
  IN  IF hit = {} THEN NoMatch
                  ELSE LET i == CHOOSE j \in hit : TRUE
                       IN  [id |-> i, gen |-> entries[i].gen, pass |-> g]
LoginAdmin(r) ==
  /\ login[r].pc = "admin"
  /\ \/ /\ login[r].guess = AdminPass
        /\ Success(IpOf[r])
        /\ sessions' = sessions \cup {AdminSession(adminVer)}
        /\ login' = [login EXCEPT ![r] = IdleLogin]
     \/ /\ login[r].guess # AdminPass
        /\ login' = [login EXCEPT ![r].pc = "match", ![r].match = Verify(login[r].guess)]
        /\ UNCHANGED <<limiter, sessions>>
  /\ UNCHANGED <<store, live, server>>

LoginMatch(r) ==
  /\ login[r].pc = "match"
  /\ IF login[r].match = NoMatch
       THEN Fail(IpOf[r]) /\ UNCHANGED sessions
       ELSE Success(IpOf[r]) /\ sessions' = sessions \cup {UserSession(login[r].match)}
  /\ login' = [login EXCEPT ![r] = IdleLogin]
  /\ UNCHANGED <<store, live, server>>

\* The client goes away: the handler is dropped at an await.
LoginDropped(r) ==
  /\ login[r].pc \in {"form", "admin"}
  /\ login' = [login EXCEPT ![r] = IdleLogin]
  /\ UNCHANGED <<store, limiter, sessions, live, server>>

-----------------------------------------------------------------------------
(* Sessions and the connections opened with them.                           *)

\* The generation of an entry that is there and has not expired, or 0.
EntryGeneration(i) == IF entries[i].ttl > 0 THEN entries[i].gen ELSE 0

\* valid_session: a user's entry has the session's generation; an
\* administrator's fingerprint is the running one.
Valid(s) ==
  \/ s.role = "user" /\ EntryGeneration(s.id) = s.gen
  \/ s.role = "admin" /\ s.ver = adminVer

CookieExpires(s) ==
  /\ s \in sessions /\ sessions' = sessions \ {s}
  /\ UNCHANGED <<store, limiter, login, live, server>>

\* The session is checked when the request arrives ...
Validate(c, s) ==
  /\ conns[c].pc = "idle" /\ s \in sessions /\ Valid(s)
  /\ conns' = [conns EXCEPT ![c] = [pc |-> "valid", sess |-> s, cancelled |-> FALSE]]
  /\ UNCHANGED <<store, limiter, login, sessions, cutting, server>>

\* ... and the connection is registered once the upgrade is done; an upgrade
\* that fails registers nothing.
Register(c) ==
  /\ conns[c].pc = "valid"
  /\ conns' = [conns EXCEPT ![c].pc = "open"]
  /\ UNCHANGED <<store, limiter, login, sessions, cutting, server>>
UpgradeFails(c) ==
  /\ conns[c].pc = "valid"
  /\ conns' = [conns EXCEPT ![c] = IdleConn]
  /\ UNCHANGED <<store, limiter, login, sessions, cutting, server>>

\* serve_ws or the stream ends, for a cancelled token or on its own, and the
\* registry's entry is removed.  A token cloned before is cancelled in vain.
EndConn(c) ==
  /\ conns[c].pc = "open"
  /\ conns' = [conns EXCEPT ![c] = IdleConn]
  /\ cutting' = cutting \ {c}
  /\ UNCHANGED <<store, limiter, login, sessions, server>>

\* disconnect: the tokens are cloned under the lock and cancelled outside it.
DisconnectUsers ==
  /\ cutting' = cutting \cup {c \in Conns : conns[c].pc = "open" /\ conns[c].sess.role = "user"}
  /\ UNCHANGED <<store, limiter, login, sessions, conns, server>>
\* Mutant: the clone that is cancelled is not the connection's token.
CancelCopy(c) ==
  /\ c \in cutting /\ cutting' = cutting \ {c}
  /\ UNCHANGED <<store, limiter, login, sessions, conns, server>>
CancelNext(c) ==
  /\ c \in cutting
  /\ conns' = [conns EXCEPT ![c].cancelled = TRUE]
  /\ cutting' = cutting \ {c}
  /\ UNCHANGED <<store, limiter, login, sessions, server>>

-----------------------------------------------------------------------------
\* The server stops and starts again: what is in memory is lost, the file is
\* read back, and the admin hash may have been changed in the environment.
Restart ==
  /\ restarts < MaxRestarts /\ restarts' = restarts + 1
  /\ entries' = disk
  /\ adminVer' \in AdminVers
  /\ attempts' = [ip \in Ips |-> [count |-> 0, age |-> 0]] /\ sweepAge' = Window
  /\ login' = [r \in Reqs |-> IdleLogin]
  /\ conns' = [c \in Conns |-> IdleConn] /\ cutting' = {}
  /\ UNCHANGED <<disk, drawn, minted, known, retired, faults, sessions>>

Older(list) == [i \in Ids |-> IF list[i].ttl \in {0, Never} THEN list[i]
                                                          ELSE [list[i] EXCEPT !.ttl = @ - 1]]
Tick ==
  /\ attempts' = [ip \in Ips |-> IF attempts[ip].count = 0 THEN attempts[ip]
                                   ELSE [attempts[ip] EXCEPT !.age = Min({@ + 1, Window + 1})]]
  /\ sweepAge' = Min({sweepAge + 1, Window})
  /\ entries' = Older(entries) /\ disk' = Older(disk)
  /\ UNCHANGED <<drawn, minted, known, retired, faults, login, sessions, live, server>>

ConnPassStep(i) == \E ok \in BOOLEAN :
  \/ \E ttl \in Lifetimes : Create(i, ttl, ok) \/ SetTtl(i, ttl, ok)
  \/ Rotate(i, ok)
  \/ Revoke(i, ok)
  \/ Rename(i, ok)

LoginStep(r) == LoginCheck(r) \/ LoginForm(r) \/ LoginAdmin(r) \/ LoginMatch(r) \/ LoginDropped(r)

ConnStep(c) ==
  \/ \E s \in sessions : Validate(c, s)
  \/ Register(c)
  \/ UpgradeFails(c)
  \/ EndConn(c)
  \/ CancelNext(c)

Next ==
  \/ \E i \in Ids : ConnPassStep(i)
  \/ \E r \in Reqs : LoginStep(r)
  \/ \E c \in Conns : ConnStep(c)
  \/ \E s \in sessions : CookieExpires(s)
  \/ DisconnectUsers
  \/ Restart
  \/ Tick

\* A disconnect goes through the tokens it cloned; a connection
\* whose token is cancelled leaves its select! and ends.
Fairness ==
  \A c \in Conns : WF_vars(CancelNext(c)) /\ WF_vars(conns[c].cancelled /\ EndConn(c))

Spec == Init /\ [][Next]_vars /\ Fairness

-----------------------------------------------------------------------------
(* Properties                                                               *)

\* A user session is accepted only while the password it was issued against is
\* the entry's password: generations are never reused for another password,
\* whatever writes fail and whenever the server restarts (rotate in
\* connpass.rs, valid_session in auth/mod.rs).
ValidIsCurrent ==
  \A s \in sessions : s.role = "user" /\ Valid(s) => entries[s.id].pass = s.pass

\* A password whose rotate or revoke was answered Ok never opens the door
\* again, in memory or in what a restart would read back (mutate, revoke and
\* persist in connpass.rs).
RetiredStaysRetired ==
  \A i \in Ids : {entries[i].pass, disk[i].pass} \cap retired = {}

\* The limiter is read before the body and counted after the hash, so requests
\* in flight together all pass the check: an address gets at most one extra
\* failure for each of them, not more (login in handlers.rs, limiter.rs).
FailuresBounded ==
  \A ip \in Ips :
    attempts[ip].count <= MaxFail - 1 + Cardinality({r \in Reqs : IpOf[r] = ip})

\* A connection a disconnect picked ends (disconnect in auth/mod.rs, the cancel
\* branch of serve_ws and of the presence stream).
CutConnsEnd ==
  \A c \in Conns : (c \in cutting \/ conns[c].cancelled) ~> conns[c].pc = "idle"
=============================================================================

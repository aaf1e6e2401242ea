-------------------------- MODULE Admission_proofs --------------------------
(***************************************************************************)
(* Who gets in, for any number of entries, sessions, requests, failed      *)
(* writes and restarts: a session is accepted only for the password it was *)
(* issued against, a retired password never comes back, and an address is  *)
(* given few guesses more than the limit.                                  *)
(***************************************************************************)
EXTENDS Admission, FiniteSetTheorems, TLAPS

-----------------------------------------------------------------------------
(* The invariant.                                                          *)

\* What the store holds, with the serial numbers bounded by what was minted.
StoreOK ==
    /\ entries \in [Ids -> Entry \cup {NoEntry}] /\ disk \in [Ids -> Entry \cup {NoEntry}]
    /\ drawn \subseteq Ids /\ minted \in 0 .. MaxMint /\ faults \in 0 .. MaxFaults
    /\ known \subseteq 1 .. minted /\ retired \subseteq 1 .. minted
    /\ \A i \in Ids : /\ entries[i].gen <= minted /\ entries[i].pass <= minted
                      /\ disk[i].gen <= minted /\ disk[i].pass <= minted
                      /\ i \notin drawn => entries[i] = NoEntry /\ disk[i] = NoEntry

\* A password the admin was told is in the file as long as it is in use: it was
\* told after the write, and every later write of the entry replaced it.
KnownOnDisk ==
    \A i \in Ids : entries[i].pass \in known =>
        disk[i].gen = entries[i].gen /\ disk[i].pass = entries[i].pass

\* No two ids share a password, in memory or in the file.
OneHolder ==
    \A i, j \in Ids : i # j =>
        {entries[i].pass, disk[i].pass} \cap {entries[j].pass, disk[j].pass} \subseteq {0}

StoreInv == StoreOK /\ KnownOnDisk /\ OneHolder /\ RetiredStaysRetired

\* The list has gone past generation g of i, or has it still, with password p.
Past(list, i, g, p) == list[i] = NoEntry \/ list[i].gen > g \/ (list[i].gen = g /\ list[i].pass = p)

\* What a login proved: generation g of i has password p, here and after any restart.
Proved(i, g, p) == i \in drawn /\ Past(entries, i, g, p) /\ Past(disk, i, g, p)

Matched == [id : Ids, gen : Passwords, pass : Passwords]

LoginsProved ==
    \A r \in Reqs :
        /\ login[r].match \in Matched \cup {NoMatch}
        /\ login[r].match # NoMatch =>
               Proved(login[r].match.id, login[r].match.gen, login[r].match.pass)
        /\ login[r].pc = "admin" => login[r].guess \in known \cup {Wrong, AdminPass}

SessionsProved ==
    \A s \in sessions : s.role = "user" => Proved(s.id, s.gen, s.pass)

OthersOK ==
    /\ login \in [Reqs -> [pc : {"idle", "form", "admin", "match"}, guess : 0 .. Empty,
                           match : [id : Ids \cup {"none"}, gen : 0 .. MaxMint, pass : 0 .. MaxMint]]]
    /\ sessions \subseteq Sessions
    /\ conns \in [Conns -> [pc : {"idle", "valid", "open"},
                            sess : Sessions \cup {NoSession}, cancelled : BOOLEAN]]
    /\ cutting \subseteq Conns /\ adminVer \in AdminVers /\ restarts \in 0 .. MaxRestarts

EntryInv == StoreInv /\ OthersOK /\ LoginsProved /\ SessionsProved

-----------------------------------------------------------------------------
(* The store.                                                              *)

LEMMA EntryFields ==
    ASSUME NEW e \in Entry \cup {NoEntry}
    PROVE  /\ e.gen \in 0 .. MaxMint /\ e.pass \in 0 .. MaxMint /\ e.ttl \in 0 .. Never
           /\ e = NoEntry <=> e.gen = 0
           /\ e = NoEntry <=> e.pass = 0
           /\ e # NoEntry => e \in Entry
  BY AdmissionAssumption DEF Entry, NoEntry, Passwords, Never

\* A mutation replaces the entry of i: by nothing, by one of the same
\* generation and password, or by a later generation with a new password.
Mutated(i, e, ok) ==
    /\ entries' = [entries EXCEPT ![i] = e]
    /\ disk' = Written(entries', ok)
    /\ \/ e = NoEntry
       \/ e.gen = entries[i].gen /\ e.pass = entries[i].pass
       \/ /\ e.pass = minted + 1 /\ minted' = minted + 1
          /\ e.gen = entries[i].gen + 1
          /\ entries[i] = NoEntry => i \notin drawn
    /\ minted' \in {minted, minted + 1}
    /\ drawn' = drawn \cup {i}
    /\ known \subseteq known' /\ known' \subseteq known \cup (IF ok THEN {minted'} ELSE {})
    /\ known' # known => minted' = minted + 1
    /\ retired \subseteq retired'
    /\ retired' \subseteq retired \cup (IF ok /\ entries[i] # NoEntry /\ e.pass # entries[i].pass
                                         THEN {entries[i].pass} ELSE {})

LEMMA MutatedKeeps ==
    ASSUME StoreInv, NEW i \in Ids, NEW e \in Entry \cup {NoEntry}, NEW ok \in BOOLEAN,
           Mutated(i, e, ok), minted' \in 0 .. MaxMint, faults' \in 0 .. MaxFaults
    PROVE  StoreInv' /\ \A j \in Ids, g \in Nat, p \in Nat : Proved(j, g, p) => Proved(j, g, p)'
  <1> USE DEF StoreInv
  <1>t. entries \in [Ids -> Entry \cup {NoEntry}] /\ disk \in [Ids -> Entry \cup {NoEntry}]
    BY DEF StoreOK
  <1>1. /\ \A j \in Ids : entries'[j] = IF j = i THEN e ELSE entries[j]
        /\ disk' = entries' \/ disk' = disk
        /\ ok => disk' = entries'
        /\ ~ok => disk' = disk /\ known' = known /\ retired' = retired
    BY <1>t DEF Mutated, Written
  <1>2. \A j \in Ids : /\ entries[j].gen \in Nat /\ entries[j].pass \in Nat
                       /\ disk[j].gen \in Nat /\ disk[j].pass \in Nat
                       /\ entries[j] \in Entry \cup {NoEntry} /\ disk[j] \in Entry \cup {NoEntry}
    BY <1>t, EntryFields
  <1>3. minted \in Nat /\ minted' \in Nat /\ minted <= minted'
        /\ e.gen \in Nat /\ e.pass \in Nat /\ e.gen <= minted' /\ e.pass <= minted'
    <2>1. entries[i].gen <= minted /\ entries[i].pass <= minted /\ minted \in 0 .. MaxMint
      BY DEF StoreOK
    <2>2. e.gen \in Nat /\ e.pass \in Nat /\ (e = NoEntry => e.gen = 0 /\ e.pass = 0)
      BY EntryFields
    <2> QED BY <1>2, <2>1, <2>2 DEF Mutated
  <1>4. StoreOK'
    <2>1. entries' \in [Ids -> Entry \cup {NoEntry}] /\ disk' \in [Ids -> Entry \cup {NoEntry}]
      BY <1>t, <1>1 DEF Mutated
    <2>2. known' \subseteq 1 .. minted' /\ drawn' \subseteq Ids
      BY <1>3 DEF Mutated, StoreOK
    <2>3. retired' \subseteq 1 .. minted'
      <3>1. entries[i] # NoEntry => entries[i].pass \in 1 .. minted
        BY <1>2, EntryFields DEF StoreOK
      <3> QED BY <1>3, <3>1 DEF Mutated, StoreOK
    <2>4. ASSUME NEW j \in Ids
          PROVE  /\ entries'[j].gen <= minted' /\ entries'[j].pass <= minted'
                 /\ disk'[j].gen <= minted' /\ disk'[j].pass <= minted'
                 /\ j \notin drawn' => entries'[j] = NoEntry /\ disk'[j] = NoEntry
      <3>1. entries[j].gen <= minted' /\ entries[j].pass <= minted' /\ disk[j].gen <= minted' /\ disk[j].pass <= minted'
        BY <1>2, <1>3 DEF StoreOK
      <3>2. j \notin drawn' => j \notin drawn /\ j # i
        BY DEF Mutated
      <3> QED BY <1>1, <1>3, <3>1, <3>2 DEF StoreOK
    <2> QED BY <2>1, <2>2, <2>3, <2>4 DEF StoreOK
  <1>5. KnownOnDisk'
    <2>1. CASE ok
      BY <1>1, <2>1 DEF KnownOnDisk
    <2>2. CASE ~ok
      <3>1. disk' = disk /\ known' = known
        BY <1>1, <2>2
      <3>2. ASSUME e.pass \in known
            PROVE  disk[i].gen = e.gen /\ disk[i].pass = e.pass
        <4>1. e.pass \in 1 .. minted
          BY <3>2 DEF StoreOK
        <4>2. e # NoEntry /\ e.pass # minted + 1
          BY <1>3, <4>1, EntryFields
        <4> QED BY <3>2, <4>2 DEF Mutated, KnownOnDisk
      <3> QED BY <1>1, <3>1, <3>2 DEF KnownOnDisk
    <2> QED BY <2>1, <2>2
  <1>6. e.pass \in {0, minted + 1, entries[i].pass}
    BY EntryFields DEF Mutated
  <1>7. OneHolder'
    <2>1. ASSUME NEW j \in Ids, j # i PROVE {e.pass, disk[i].pass} \cap {entries[j].pass, disk[j].pass} \subseteq {0}
      <3>1. entries[j].pass <= minted /\ disk[j].pass <= minted
        BY DEF StoreOK
      <3>2. {entries[i].pass, disk[i].pass} \cap {entries[j].pass, disk[j].pass} \subseteq {0}
        BY <2>1 DEF OneHolder
      <3> QED BY <1>2, <1>3, <1>6, <3>1, <3>2
    <2>2. ASSUME NEW j \in Ids, NEW k \in Ids, j # k
          PROVE  {entries'[j].pass, disk'[j].pass} \cap {entries'[k].pass, disk'[k].pass} \subseteq {0}
      <3>1. {entries[j].pass, disk[j].pass} \cap {entries[k].pass, disk[k].pass} \subseteq {0}
        BY <2>2 DEF OneHolder
      <3> QED BY <1>1, <2>1, <2>2, <3>1
    <2> QED BY <2>2 DEF OneHolder
  <1>8. RetiredStaysRetired'
    <2>1. e.pass \notin retired
      BY <1>3, <1>6 DEF StoreOK, RetiredStaysRetired
    <2>2. CASE ~ok
      BY <1>1, <2>1, <2>2 DEF RetiredStaysRetired
    <2>3. CASE ok
      <3>1. ASSUME NEW j \in Ids PROVE entries'[j].pass \notin retired'
        <4>1. CASE j = i
          BY <1>1, <2>1, <4>1 DEF Mutated
        <4>2. CASE j # i
          <5>1. entries[j].pass \notin retired /\ entries'[j] = entries[j]
            BY <1>1, <4>2 DEF RetiredStaysRetired
          <5>2. entries[i] # NoEntry => entries[j].pass # entries[i].pass
            BY <1>2, <4>2, EntryFields DEF OneHolder
          <5> QED BY <5>1, <5>2 DEF Mutated
        <4> QED BY <4>1, <4>2
      <3> QED BY <1>1, <2>3, <3>1 DEF RetiredStaysRetired
    <2> QED BY <2>2, <2>3
  <1>9. ASSUME NEW j \in Ids, NEW g \in Nat, NEW p \in Nat, Proved(j, g, p) PROVE Proved(j, g, p)'
    <2>1. j \in drawn' /\ Past(entries, j, g, p) /\ Past(disk, j, g, p)
      BY <1>9 DEF Proved, Mutated
    <2>2. Past(entries', j, g, p)
      <3>1. CASE j # i
        BY <1>1, <2>1, <3>1 DEF Past
      <3>2. CASE j = i
        <4>1. CASE e = NoEntry
          BY <1>1, <3>2, <4>1 DEF Past
        <4>2. CASE e # NoEntry /\ e.gen = entries[i].gen /\ e.pass = entries[i].pass
          <5>1. entries[i] # NoEntry
            BY <1>2, <4>2, EntryFields
          <5> QED BY <1>1, <2>1, <3>2, <4>2, <5>1 DEF Past
        <4>3. CASE e.gen = entries[i].gen + 1 /\ (entries[i] = NoEntry => i \notin drawn)
          <5>1. entries[i] # NoEntry /\ entries[i].gen >= g
            BY <1>2, <1>9, <2>1, <3>2, <4>3 DEF Past, Proved
          <5> QED BY <1>1, <1>2, <3>2, <4>3, <5>1 DEF Past
        <4> QED BY <4>1, <4>2, <4>3 DEF Mutated
      <3> QED BY <3>1, <3>2
    <2>3. Past(disk', j, g, p)
      BY <1>1, <2>1, <2>2 DEF Past
    <2> QED BY <2>1, <2>2, <2>3 DEF Proved
  <1> QED BY <1>4, <1>5, <1>7, <1>8, <1>9

\* Every operation on the passwords is such a mutation, or a refused creation.
LEMMA ConnPassMutates ==
    ASSUME StoreInv, NEW i \in Ids, ConnPassStep(i)
    PROVE  /\ StoreInv'
           /\ \A j \in Ids, g \in Nat, p \in Nat : Proved(j, g, p) => Proved(j, g, p)'
           /\ known \subseteq known'
           /\ UNCHANGED <<limiter, login, sessions, live, server>>
  <1> USE DEF StoreInv
  <1>t. /\ entries \in [Ids -> Entry \cup {NoEntry}] /\ minted \in 0 .. MaxMint /\ faults \in 0 .. MaxFaults
        /\ entries[i] \in Entry \cup {NoEntry}
        /\ entries[i].gen \in 0 .. MaxMint /\ entries[i].pass \in 0 .. MaxMint /\ entries[i].gen <= minted
        /\ entries[i].ttl \in 0 .. Never
    BY EntryFields DEF StoreOK
  <1>u. UNCHANGED <<limiter, login, sessions, live, server>> /\ known \subseteq known'
    BY DEF ConnPassStep, Create, Rotate, Revoke, SetTtl, Rename
  <1> SUFFICES StoreInv' /\ \A j \in Ids, g \in Nat, p \in Nat : Proved(j, g, p) => Proved(j, g, p)'
    BY <1>u
  <1> DEFINE Kept == StoreInv' /\ \A j \in Ids, g \in Nat, p \in Nat : Proved(j, g, p) => Proved(j, g, p)'
  <1>d. entries[i] # NoEntry => drawn = drawn \cup {i}
    BY DEF StoreOK
  <1>f. ASSUME NEW list, NEW ok \in BOOLEAN, Persist(list, ok)
        PROVE  /\ entries' = list /\ disk' = Written(entries', ok) /\ faults' \in 0 .. MaxFaults
    BY <1>f, <1>t, AdmissionAssumption DEF Persist
  <1>1. ASSUME NEW ttl \in Lifetimes, NEW ok \in BOOLEAN, Create(i, ttl, ok) PROVE Kept
    <2>1. minted' = minted + 1 /\ minted' \in 0 .. MaxMint /\ i \notin drawn /\ drawn' = drawn \cup {i}
          /\ retired' = retired
      BY <1>1, <1>t, AdmissionAssumption DEF Create
    <2>2. CASE Cardinality(Held) >= MaxEntries
      <3>1. UNCHANGED <<entries, disk, faults, known>>
        BY <1>1, <2>2 DEF Create
      <3>2. StoreOK'
        BY <2>1, <3>1, <1>t DEF StoreOK, Entry, NoEntry, Passwords
      <3> QED BY <2>1, <3>1, <3>2 DEF KnownOnDisk, OneHolder, RetiredStaysRetired, Proved, Past
    <2>3. CASE ~ Cardinality(Held) >= MaxEntries
      <3> DEFINE e == [gen |-> 1, pass |-> minted', ttl |-> ttl]
      <3>1. Persist([entries EXCEPT ![i] = e], ok) /\ known' = IF ok THEN known \cup {minted'} ELSE known
        BY <1>1, <2>3 DEF Create
      <3>2. ttl \in 0 .. Never /\ MaxMint >= 1 /\ minted' \in Passwords
        BY <2>1, <1>t, AdmissionAssumption DEF Lifetimes, Never, Passwords
      <3>3. e \in Entry
        BY <2>1, <3>2, AdmissionAssumption DEF Entry
      <3>4. entries[i] = NoEntry /\ entries[i].gen = 0
        BY <2>1 DEF StoreOK, NoEntry
      <3>5. Mutated(i, e, ok)
        BY <1>f, <2>1, <3>1, <3>4 DEF Mutated
      <3> QED BY <1>f, <2>1, <3>1, <3>3, <3>5, MutatedKeeps
    <2> QED BY <2>2, <2>3
  <1>2. ASSUME NEW ok \in BOOLEAN, Rotate(i, ok) PROVE Kept
    <2> DEFINE e == [entries[i] EXCEPT !.gen = @ + 1, !.pass = minted']
    <2>1. minted' = minted + 1 /\ minted' \in 0 .. MaxMint /\ entries[i] # NoEntry /\ drawn' = drawn
      BY <1>2, <1>t, AdmissionAssumption DEF Rotate
    <2>2. Persist([entries EXCEPT ![i] = e], ok) /\ known' = (IF ok THEN known \cup {minted'} ELSE known)
          /\ retired' = (IF ok THEN retired \cup {entries[i].pass} ELSE retired)
      BY <1>2, <1>t DEF Rotate
    <2>3. entries[i] \in Entry
      BY <1>t, <2>1
    <2>4. e \in Entry /\ e.gen = entries[i].gen + 1 /\ e.pass = minted'
      <3>1. entries[i].gen + 1 \in 1 .. MaxMint /\ minted' \in Passwords
        BY <2>1, <1>t, AdmissionAssumption DEF Passwords
      <3> QED BY <2>3, <3>1 DEF Entry
    <2> HIDE DEF e
    <2>5. entries[i].pass # e.pass
      BY <2>1, <2>4, <1>t DEF StoreOK
    <2>6. Mutated(i, e, ok)
      BY <1>d, <1>f, <2>1, <2>2, <2>4, <2>5 DEF Mutated
    <2> QED BY <1>f, <2>1, <2>2, <2>4, <2>6, MutatedKeeps
  <1>3. ASSUME NEW ok \in BOOLEAN, Revoke(i, ok) PROVE Kept
    <2>1. Persist([entries EXCEPT ![i] = NoEntry], ok) /\ UNCHANGED <<drawn, minted, known>> /\ entries[i] # NoEntry
          /\ retired' = (IF ok THEN retired \cup {entries[i].pass} ELSE retired)
      BY <1>3 DEF Revoke
    <2>2. entries[i].pass # NoEntry.pass
      BY <1>t, <2>1, EntryFields DEF NoEntry
    <2>3. Mutated(i, NoEntry, ok)
      BY <1>d, <1>f, <1>t, <2>1, <2>2 DEF Mutated
    <2> QED BY <1>f, <1>t, <2>1, <2>3, MutatedKeeps
  <1>4. ASSUME NEW ttl \in Lifetimes, NEW ok \in BOOLEAN, SetTtl(i, ttl, ok) PROVE Kept
    <2> DEFINE e == [entries[i] EXCEPT !.ttl = ttl]
    <2>1. Persist([entries EXCEPT ![i] = e], ok) /\ UNCHANGED <<drawn, minted, known, retired>> /\ entries[i] # NoEntry
      BY <1>4, <1>t DEF SetTtl
    <2>2. entries[i] \in Entry /\ ttl \in 0 .. Never
      BY <1>t, <2>1, AdmissionAssumption DEF Lifetimes, Never
    <2>3. e \in Entry /\ e.gen = entries[i].gen /\ e.pass = entries[i].pass
      BY <2>2 DEF Entry
    <2> HIDE DEF e
    <2>4. Mutated(i, e, ok)
      BY <1>d, <1>f, <1>t, <2>1, <2>3 DEF Mutated
    <2> QED BY <1>f, <1>t, <2>1, <2>3, <2>4, MutatedKeeps
  <1>5. ASSUME NEW ok \in BOOLEAN, Rename(i, ok) PROVE Kept
    <2>1. Persist(entries, ok) /\ UNCHANGED <<drawn, minted, known, retired>> /\ entries[i] # NoEntry
      BY <1>5 DEF Rename
    <2>2. entries = [entries EXCEPT ![i] = entries[i]]
      BY <1>t
    <2>3. Mutated(i, entries[i], ok)
      BY <1>d, <1>f, <1>t, <2>1, <2>2 DEF Mutated
    <2> QED BY <1>f, <1>t, <2>1, <2>3, MutatedKeeps
  <1> QED BY <1>1, <1>2, <1>3, <1>4, <1>5 DEF ConnPassStep

\* A restart goes back to the file.
LEMMA RestartKeeps ==
    ASSUME StoreInv, entries' = disk, UNCHANGED <<disk, drawn, minted, known, retired, faults>>
    PROVE  StoreInv' /\ \A j \in Ids, g \in Nat, p \in Nat : Proved(j, g, p) => Proved(j, g, p)'
  <1>1. StoreOK'
    BY DEF StoreInv, StoreOK
  <1>2. KnownOnDisk' /\ OneHolder' /\ RetiredStaysRetired'
    BY DEF StoreInv, KnownOnDisk, OneHolder, RetiredStaysRetired
  <1>3. ASSUME NEW j \in Ids, NEW g \in Nat, NEW p \in Nat, Proved(j, g, p) PROVE Proved(j, g, p)'
    BY <1>3 DEF Proved, Past
  <1> QED BY <1>1, <1>2, <1>3 DEF StoreInv

\* Time changes no password and no generation.
LEMMA OlderSame ==
    ASSUME NEW list \in [Ids -> Entry \cup {NoEntry}]
    PROVE  /\ Older(list) \in [Ids -> Entry \cup {NoEntry}]
           /\ \A i \in Ids : /\ Older(list)[i].gen = list[i].gen /\ Older(list)[i].pass = list[i].pass
                             /\ Older(list)[i] = NoEntry <=> list[i] = NoEntry
  <1>1. ASSUME NEW i \in Ids
        PROVE  /\ Older(list)[i] \in Entry \cup {NoEntry}
               /\ Older(list)[i].gen = list[i].gen /\ Older(list)[i].pass = list[i].pass
               /\ Older(list)[i] = NoEntry <=> list[i] = NoEntry
    <2>1. CASE list[i].ttl \in {0, Never}
      BY <2>1 DEF Older
    <2>2. CASE list[i].ttl \notin {0, Never}
      <3>1. list[i] \in Entry
        BY <2>2 DEF NoEntry
      <3>2. list[i].ttl - 1 \in 0 .. Never
        BY <2>2, <3>1, AdmissionAssumption DEF Entry, Never
      <3>3. Older(list)[i] = [list[i] EXCEPT !.ttl = @ - 1]
        BY <2>2 DEF Older
      <3>4. Older(list)[i] \in Entry /\ Older(list)[i].gen = list[i].gen /\ Older(list)[i].pass = list[i].pass
        BY <3>1, <3>2, <3>3 DEF Entry
      <3> QED BY <3>1, <3>4, EntryFields DEF Entry, NoEntry
    <2> QED BY <2>1, <2>2
  <1>2. Older(list) = [i \in Ids |-> Older(list)[i]]
    BY DEF Older
  <1> HIDE DEF Older
  <1> QED BY <1>1, <1>2

LEMMA TickKeeps ==
    ASSUME StoreInv, entries' = Older(entries), disk' = Older(disk),
           UNCHANGED <<drawn, minted, known, retired, faults>>
    PROVE  StoreInv' /\ \A j \in Ids, g \in Nat, p \in Nat : Proved(j, g, p) => Proved(j, g, p)'
  <1>0. /\ entries' \in [Ids -> Entry \cup {NoEntry}] /\ disk' \in [Ids -> Entry \cup {NoEntry}]
        /\ \A i \in Ids : /\ entries'[i].gen = entries[i].gen /\ entries'[i].pass = entries[i].pass
                          /\ entries'[i] = NoEntry <=> entries[i] = NoEntry
                          /\ disk'[i].gen = disk[i].gen /\ disk'[i].pass = disk[i].pass
                          /\ disk'[i] = NoEntry <=> disk[i] = NoEntry
    BY OlderSame DEF StoreInv, StoreOK
  <1>1. StoreOK'
    BY <1>0 DEF StoreInv, StoreOK
  <1>2. KnownOnDisk' /\ OneHolder' /\ RetiredStaysRetired'
    BY <1>0 DEF StoreInv, KnownOnDisk, OneHolder, RetiredStaysRetired
  <1>3. ASSUME NEW j \in Ids, NEW g \in Nat, NEW p \in Nat, Proved(j, g, p) PROVE Proved(j, g, p)'
    BY <1>0, <1>3 DEF Proved, Past
  <1> QED BY <1>1, <1>2, <1>3 DEF StoreInv

LEMMA SameStore ==
    ASSUME StoreInv, UNCHANGED store
    PROVE  StoreInv' /\ \A j \in Ids, g \in Nat, p \in Nat : Proved(j, g, p) => Proved(j, g, p)'
  BY DEF store, StoreInv, StoreOK, KnownOnDisk, OneHolder, RetiredStaysRetired, Proved, Past

-----------------------------------------------------------------------------
(* Logins and sessions.                                                    *)

\* Verifying a guess finds nothing, or an entry with the password, proved.
LEMMA VerifyProves ==
    ASSUME StoreInv, NEW g \in known \cup {Wrong}
    PROVE  /\ Verify(g) \in Matched \cup {NoMatch}
           /\ Verify(g) # NoMatch => Proved(Verify(g).id, Verify(g).gen, Verify(g).pass)
  <1> DEFINE hit == {i \in Held : entries[i].ttl > 0 /\ entries[i].pass = g}
             i == CHOOSE j \in hit : TRUE
  <1>1. CASE hit = {}
    BY <1>1 DEF Verify
  <1>2. CASE hit # {}
    <2>1. i \in hit
      BY <1>2
    <2>2. Verify(g) = [id |-> i, gen |-> entries[i].gen, pass |-> g]
      BY <1>2 DEF Verify
    <2>3. i \in Ids /\ entries[i] # NoEntry /\ entries[i].pass = g
      BY <2>1 DEF Held
    <2> HIDE DEF i, hit
    <2>4. entries[i] \in Entry
      BY <2>3 DEF StoreInv, StoreOK
    <2>5. Verify(g) \in Matched
      BY <2>2, <2>3, <2>4 DEF Matched, Entry, Passwords
    <2>6. g \in known
      BY <2>3, <2>4, AdmissionAssumption DEF Entry, Passwords, Wrong
    <2>7. i \in drawn /\ disk[i].gen = entries[i].gen /\ disk[i].pass = g
      BY <2>3, <2>6 DEF StoreInv, StoreOK, KnownOnDisk
    <2> QED BY <2>2, <2>3, <2>5, <2>7 DEF Proved, Past
  <1> QED BY <1>1, <1>2

\* What a step of the store leaves of what logins and sessions proved.
LEMMA StoreStepKeeps ==
    ASSUME EntryInv, StoreInv', known \subseteq known', OthersOK',
           \A j \in Ids, g \in Nat, p \in Nat : Proved(j, g, p) => Proved(j, g, p)',
           sessions' \subseteq sessions,
           \A r \in Reqs : \/ login'[r] = login[r]
                           \/ login'[r] = IdleLogin
    PROVE  EntryInv'
  <1>1. LoginsProved'
    <2> SUFFICES ASSUME NEW r \in Reqs
                 PROVE  /\ login'[r].match \in Matched \cup {NoMatch}
                        /\ login'[r].match # NoMatch =>
                               Proved(login[r].match.id, login[r].match.gen, login[r].match.pass)'
                        /\ login'[r].pc = "admin" => login'[r].guess \in known' \cup {Wrong, AdminPass}
      BY DEF LoginsProved
    <2>1. CASE login'[r] = IdleLogin
      BY <2>1 DEF IdleLogin
    <2>2. CASE login'[r] = login[r]
      <3>1. login[r].match # NoMatch => login[r].match.id \in Ids /\ login[r].match.gen \in Nat /\ login[r].match.pass \in Nat
        BY AdmissionAssumption DEF EntryInv, LoginsProved, Matched, Passwords
      <3> QED BY <2>2, <3>1 DEF EntryInv, LoginsProved
    <2> QED BY <2>1, <2>2
  <1>2. SessionsProved'
    <2> SUFFICES ASSUME NEW s \in sessions', s.role = "user"
                 PROVE  Proved(s.id, s.gen, s.pass)'
      BY DEF SessionsProved
    <2>1. s \in sessions /\ s \in Sessions
      BY DEF EntryInv, OthersOK
    <2>2. s.id \in Ids /\ s.gen \in Nat /\ s.pass \in Nat
      BY <2>1 DEF Sessions, UserSession, AdminSession, Passwords
    <2> QED BY <2>1, <2>2 DEF EntryInv, SessionsProved
  <1> QED BY <1>1, <1>2 DEF EntryInv

\* A step of a login that leaves the store alone.
LEMMA LoginKeeps ==
    ASSUME EntryInv, NEW r \in Reqs, LoginStep(r)
    PROVE  EntryInv'
  <1> USE DEF EntryInv
  <1>s. UNCHANGED <<store, conns, cutting, adminVer, restarts>>
    BY DEF LoginStep, LoginCheck, LoginForm, LoginAdmin, LoginMatch, LoginDropped, live, server
  <1>p. StoreInv' /\ (\A j \in Ids, g \in Nat, p \in Nat : Proved(j, g, p) => Proved(j, g, p)')
        /\ known' = known
    BY <1>s, SameStore DEF store
  <1>i. /\ IdleLogin \in [pc : {"idle", "form", "admin", "match"}, guess : 0 .. Empty,
                          match : [id : Ids \cup {"none"}, gen : 0 .. MaxMint, pass : 0 .. MaxMint]]
        /\ IdleLogin.match = NoMatch /\ IdleLogin.pc # "admin"
    BY AdmissionAssumption DEF IdleLogin, NoMatch, Wrong, Empty
  <1> DEFINE Types == [pc : {"idle", "form", "admin", "match"}, guess : 0 .. Empty,
                       match : [id : Ids \cup {"none"}, gen : 0 .. MaxMint, pass : 0 .. MaxMint]]
  <1>t. login[r] \in Types
    BY DEF OthersOK
  \* What is to be shown of the login and of the sessions.
  <1>g. ASSUME NEW l \in Types, login' = [login EXCEPT ![r] = l], l.match \in Matched \cup {NoMatch},
               l.match # NoMatch => Proved(l.match.id, l.match.gen, l.match.pass),
               l.pc = "admin" => l.guess \in known \cup {Wrong, AdminPass},
               sessions' \subseteq Sessions,
               \A s \in sessions' : s \in sessions \/ (s.role = "user" => Proved(s.id, s.gen, s.pass))
        PROVE  EntryInv'
    <2>1. OthersOK'
      BY <1>g, <1>s DEF OthersOK
    <2>2. LoginsProved'
      <3> SUFFICES ASSUME NEW q \in Reqs
                   PROVE  /\ login'[q].match \in Matched \cup {NoMatch}
                          /\ login'[q].match # NoMatch =>
                                 Proved(login[q].match.id, login[q].match.gen, login[q].match.pass)'
                          /\ login'[q].pc = "admin" => login'[q].guess \in known' \cup {Wrong, AdminPass}
        BY DEF LoginsProved
      <3>1. \A m \in Matched : m.id \in Ids /\ m.gen \in Nat /\ m.pass \in Nat
        BY AdmissionAssumption DEF Matched, Passwords
      <3>2. CASE q = r
        <4>1. login'[q] = l
          BY <1>g, <3>2 DEF OthersOK
        <4> QED BY <1>g, <1>p, <3>1, <4>1
      <3>3. CASE q # r
        <4>1. login'[q] = login[q]
          BY <1>g, <3>3 DEF OthersOK
        <4> QED BY <1>p, <3>1, <4>1 DEF LoginsProved
      <3> QED BY <3>2, <3>3
    <2>3. SessionsProved'
      <3> SUFFICES ASSUME NEW s \in sessions', s.role = "user" PROVE Proved(s.id, s.gen, s.pass)'
        BY DEF SessionsProved
      <3>1. s \in Sessions
        BY <1>g
      <3>2. s.id \in Ids /\ s.gen \in Nat /\ s.pass \in Nat
        BY <3>1 DEF Sessions, UserSession, AdminSession, Passwords
      <3>3. Proved(s.id, s.gen, s.pass)
        BY <1>g DEF SessionsProved
      <3> QED BY <1>p, <3>2, <3>3
    <2> QED BY <1>p, <2>1, <2>2, <2>3
  <1>h. sessions \subseteq Sessions
    BY DEF OthersOK
  <1>j. ASSUME login' = [login EXCEPT ![r] = IdleLogin], sessions' = sessions PROVE EntryInv'
    BY <1>g, <1>h, <1>i, <1>j
  <1>1. CASE LoginCheck(r)
    <2>1. sessions' = sessions
      BY <1>1 DEF LoginCheck
    <2>2. CASE Blocked(IpOf[r])
      <3>1. login' = [login EXCEPT ![r] = login[r]]
        BY <1>1, <2>2 DEF LoginCheck, OthersOK
      <3> QED BY <1>g, <1>h, <1>t, <2>1, <3>1 DEF LoginsProved
    <2>3. CASE ~Blocked(IpOf[r])
      <3> DEFINE l == [login[r] EXCEPT !.pc = "form"]
      <3>1. login' = [login EXCEPT ![r] = l]
        BY <1>1, <2>3 DEF LoginCheck, OthersOK
      <3>2. l \in Types /\ l.match = login[r].match /\ l.pc = "form"
        BY <1>t
      <3> HIDE DEF l
      <3> QED BY <1>g, <1>h, <2>1, <3>1, <3>2 DEF LoginsProved
    <2> QED BY <2>2, <2>3
  <1>2. CASE LoginForm(r)
    <2>1. sessions' = sessions
      BY <1>2 DEF LoginForm
    <2>2. CASE login' = [login EXCEPT ![r] = IdleLogin]
      BY <1>j, <2>1, <2>2
    <2>3. ASSUME NEW g \in known \cup {Wrong, AdminPass},
                 login' = [login EXCEPT ![r].pc = "admin", ![r].guess = g]
          PROVE  EntryInv'
      <3> DEFINE l == [login[r] EXCEPT !.pc = "admin", !.guess = g]
      <3>1. login' = [login EXCEPT ![r] = l]
        BY <2>3 DEF OthersOK
      <3>2. g \in 0 .. Empty
        <4>1. MaxMint \in Nat /\ minted \in 0 .. MaxMint /\ known \subseteq 1 .. minted
          BY AdmissionAssumption DEF StoreInv, StoreOK
        <4>2. g \in known \/ g = 0 \/ g = MaxMint + 1
          BY DEF Wrong, AdminPass
        <4> QED BY <4>1, <4>2 DEF Empty
      <3>3. l \in Types /\ l.match = login[r].match /\ l.guess = g
        BY <1>t, <3>2
      <3> HIDE DEF l
      <3> QED BY <1>g, <1>h, <2>1, <3>1, <3>3 DEF LoginsProved
    <2> QED BY <1>2, <2>2, <2>3 DEF LoginForm
  <1>3. CASE LoginAdmin(r)
    <2>1. CASE login[r].guess = AdminPass /\ sessions' = sessions \cup {AdminSession(adminVer)}
               /\ login' = [login EXCEPT ![r] = IdleLogin]
      <3>1. AdminSession(adminVer) \in Sessions /\ AdminSession(adminVer).role # "user"
        BY DEF OthersOK, Sessions, AdminSession
      <3> QED BY <1>g, <1>h, <1>i, <2>1, <3>1
    <2>2. CASE login[r].guess # AdminPass /\ sessions' = sessions
               /\ login' = [login EXCEPT ![r].pc = "match", ![r].match = Verify(login[r].guess)]
      <3> DEFINE v == Verify(login[r].guess)
                 l == [login[r] EXCEPT !.pc = "match", !.match = v]
      <3>1. login' = [login EXCEPT ![r] = l]
        BY <2>2 DEF OthersOK
      <3>2. login[r].guess \in known \cup {Wrong}
        BY <1>3, <2>2 DEF LoginAdmin, LoginsProved
      <3>3. v \in Matched \cup {NoMatch} /\ (v # NoMatch => Proved(v.id, v.gen, v.pass))
        BY <3>2, VerifyProves
      <3> HIDE DEF v
      <3>4. v \in [id : Ids \cup {"none"}, gen : 0 .. MaxMint, pass : 0 .. MaxMint]
        BY <3>3, AdmissionAssumption DEF Matched, NoMatch, Passwords
      <3>5. l \in Types /\ l.match = v /\ l.pc = "match"
        BY <1>t, <3>4
      <3> HIDE DEF l
      <3> QED BY <1>g, <1>h, <2>2, <3>1, <3>3, <3>5
    <2> QED BY <1>3, <2>1, <2>2 DEF LoginAdmin
  <1>4. CASE LoginMatch(r)
    <2>1. login' = [login EXCEPT ![r] = IdleLogin]
      BY <1>4 DEF LoginMatch
    <2>2. CASE login[r].match = NoMatch
      BY <1>4, <1>j, <2>1, <2>2 DEF LoginMatch
    <2>3. CASE login[r].match # NoMatch
      <3> DEFINE m == login[r].match
      <3>1. sessions' = sessions \cup {UserSession(m)}
        BY <1>4, <2>3 DEF LoginMatch
      <3>2. m \in Matched /\ Proved(m.id, m.gen, m.pass)
        BY <2>3 DEF LoginsProved
      <3>3. UserSession(m) \in Sessions
        BY <3>2 DEF Matched, Sessions, UserSession
      <3>4. UserSession(m).id = m.id /\ UserSession(m).gen = m.gen /\ UserSession(m).pass = m.pass
        BY DEF UserSession
      <3> QED BY <1>g, <1>h, <1>i, <2>1, <3>1, <3>2, <3>3, <3>4
    <2> QED BY <2>2, <2>3
  <1>5. CASE LoginDropped(r)
    BY <1>5, <1>j DEF LoginDropped
  <1> QED BY <1>1, <1>2, <1>3, <1>4, <1>5 DEF LoginStep

\* A step of a connection opens none with what is not a session.
LEMMA ConnKeeps ==
    ASSUME EntryInv, NEW c \in Conns, ConnStep(c)
    PROVE  EntryInv'
  <1> USE DEF EntryInv
  <1>1. UNCHANGED <<store, login, sessions, server>>
    BY DEF ConnStep, Validate, Register, UpgradeFails, EndConn, CancelNext
  <1>2. /\ conns' \in [Conns -> [pc : {"idle", "valid", "open"},
                                 sess : Sessions \cup {NoSession}, cancelled : BOOLEAN]]
        /\ cutting' \subseteq Conns
    <2> DEFINE Types == [pc : {"idle", "valid", "open"}, sess : Sessions \cup {NoSession}, cancelled : BOOLEAN]
    <2>0. conns \in [Conns -> Types] /\ cutting \subseteq Conns
      BY DEF OthersOK
    <2>1. ASSUME NEW s \in sessions, Validate(c, s) PROVE conns' \in [Conns -> Types] /\ cutting' = cutting
      <3>1. [pc |-> "valid", sess |-> s, cancelled |-> FALSE] \in Types
        BY DEF OthersOK
      <3> QED BY <2>0, <2>1, <3>1 DEF Validate
    <2>2. CASE Register(c) \/ CancelNext(c)
      BY <2>0, <2>2 DEF Register, CancelNext
    <2>3. CASE UpgradeFails(c) \/ EndConn(c)
      <3>1. IdleConn \in Types
        BY DEF IdleConn
      <3>2. conns' = [conns EXCEPT ![c] = IdleConn] /\ cutting' \subseteq cutting
        BY <2>3 DEF UpgradeFails, EndConn
      <3> QED BY <2>0, <3>1, <3>2
    <2> QED BY <2>0, <2>1, <2>2, <2>3 DEF ConnStep
  <1>3. OthersOK'
    BY <1>1, <1>2 DEF OthersOK, server
  <1>4. StoreInv' /\ (\A j \in Ids, g \in Nat, p \in Nat : Proved(j, g, p) => Proved(j, g, p)')
        /\ known' = known
    BY <1>1, SameStore DEF store
  <1> QED BY <1>1, <1>3, <1>4, StoreStepKeeps

LEMMA EntryStep == EntryInv /\ [Next]_vars => EntryInv'
  <1> SUFFICES ASSUME EntryInv, [Next]_vars PROVE EntryInv'
    OBVIOUS
  <1> USE DEF EntryInv
  <1>1. ASSUME NEW i \in Ids, ConnPassStep(i) PROVE EntryInv'
    <2>1. /\ StoreInv' /\ known \subseteq known' /\ UNCHANGED <<limiter, login, sessions, live, server>>
          /\ \A j \in Ids, g \in Nat, p \in Nat : Proved(j, g, p) => Proved(j, g, p)'
      BY <1>1, ConnPassMutates
    <2>2. OthersOK'
      BY <2>1 DEF OthersOK, live, server
    <2> QED BY <2>1, <2>2, StoreStepKeeps
  <1>2. ASSUME NEW r \in Reqs, LoginStep(r) PROVE EntryInv'
    BY <1>2, LoginKeeps
  <1>3. ASSUME NEW c \in Conns, ConnStep(c) PROVE EntryInv'
    BY <1>3, ConnKeeps
  <1>4. CASE UNCHANGED <<store, login>> /\ sessions' \subseteq sessions /\ OthersOK'
    <2>1. StoreInv' /\ (\A j \in Ids, g \in Nat, p \in Nat : Proved(j, g, p) => Proved(j, g, p)')
          /\ known' = known
      BY <1>4, SameStore DEF store
    <2> QED BY <1>4, <2>1, StoreStepKeeps
  <1>5. ASSUME NEW s \in sessions, CookieExpires(s) PROVE EntryInv'
    BY <1>4, <1>5 DEF CookieExpires, OthersOK, live, server
  <1>6. CASE DisconnectUsers \/ UNCHANGED vars
    BY <1>4, <1>6 DEF DisconnectUsers, OthersOK, vars, live, server
  <1>7. CASE Restart
    <2>1. entries' = disk /\ UNCHANGED <<disk, drawn, minted, known, retired, faults, sessions>>
          /\ login' = [r \in Reqs |-> IdleLogin]
      BY <1>7 DEF Restart
    <2>2. OthersOK'
      <3>1. IdleLogin \in [pc : {"idle", "form", "admin", "match"}, guess : 0 .. Empty,
                           match : [id : Ids \cup {"none"}, gen : 0 .. MaxMint, pass : 0 .. MaxMint]]
        BY AdmissionAssumption DEF IdleLogin, NoMatch, Wrong, Empty
      <3>2. IdleConn \in [pc : {"idle", "valid", "open"}, sess : Sessions \cup {NoSession}, cancelled : BOOLEAN]
        BY DEF IdleConn
      <3>3. restarts' \in 0 .. MaxRestarts
        BY <1>7, AdmissionAssumption DEF Restart, OthersOK
      <3> QED BY <1>7, <3>1, <3>2, <3>3 DEF Restart, OthersOK
    <2>3. StoreInv' /\ (\A j \in Ids, g \in Nat, p \in Nat : Proved(j, g, p) => Proved(j, g, p)')
      BY <2>1, RestartKeeps
    <2> QED BY <2>1, <2>2, <2>3, StoreStepKeeps
  <1>8. CASE Tick
    <2>1. entries' = Older(entries) /\ disk' = Older(disk)
          /\ UNCHANGED <<drawn, minted, known, retired, faults, login, sessions, live, server>>
      BY <1>8 DEF Tick
    <2>2. OthersOK'
      BY <2>1 DEF OthersOK, live, server
    <2>3. StoreInv' /\ (\A j \in Ids, g \in Nat, p \in Nat : Proved(j, g, p) => Proved(j, g, p)')
      BY <2>1, TickKeeps
    <2> QED BY <2>1, <2>2, <2>3, StoreStepKeeps
  <1> QED BY <1>1, <1>2, <1>3, <1>5, <1>6, <1>7, <1>8 DEF Next

LEMMA EntryStart == Init => EntryInv
  <1> SUFFICES ASSUME Init PROVE EntryInv
    OBVIOUS
  <1>1. StoreInv
    BY AdmissionAssumption DEF Init, StoreInv, StoreOK, KnownOnDisk, OneHolder, RetiredStaysRetired, NoEntry
  <1>2. IdleLogin \in [pc : {"idle", "form", "admin", "match"}, guess : 0 .. Empty,
                       match : [id : Ids \cup {"none"}, gen : 0 .. MaxMint, pass : 0 .. MaxMint]]
    BY AdmissionAssumption DEF IdleLogin, NoMatch, Wrong, Empty
  <1>3. OthersOK
    BY <1>2, AdmissionAssumption DEF Init, OthersOK, IdleConn
  <1>4. LoginsProved /\ SessionsProved
    BY DEF Init, LoginsProved, SessionsProved, IdleLogin
  <1> QED BY <1>1, <1>3, <1>4 DEF EntryInv

\* A user session is accepted only while the password it was issued against is the entry's:
\* generations are never reused for another password, whatever writes fail and whenever the
\* server restarts (rotate in connpass.rs, valid_session in auth/mod.rs).
THEOREM SessionsAreCurrent == Spec => []ValidIsCurrent
  <1>1. EntryInv => ValidIsCurrent
    <2> SUFFICES ASSUME EntryInv, NEW s \in sessions, s.role = "user", Valid(s)
                 PROVE  entries[s.id].pass = s.pass
      BY DEF ValidIsCurrent
    <2>1. s \in Sessions
      BY DEF EntryInv, OthersOK
    <2>2. s.id \in Ids /\ s.gen \in Passwords /\ s.pass \in Passwords
      BY <2>1 DEF Sessions, UserSession, AdminSession
    <2>3. EntryGeneration(s.id) = s.gen
      BY DEF Valid
    <2>4. entries[s.id].gen = s.gen
      BY <2>2, <2>3, AdmissionAssumption DEF EntryGeneration, Passwords
    <2>5. entries[s.id] # NoEntry
      BY <2>2, <2>4, AdmissionAssumption DEF NoEntry, Passwords
    <2>6. Past(entries, s.id, s.gen, s.pass)
      BY DEF EntryInv, SessionsProved, Proved
    <2> QED BY <2>2, <2>4, <2>5, <2>6, AdmissionAssumption DEF Past, Passwords
  <1> QED BY EntryStart, EntryStep, <1>1, PTL DEF Spec

\* A password whose rotate or revoke was answered Ok never opens the door again, in memory or
\* in what a restart would read back (mutate, revoke and persist in connpass.rs).
THEOREM RetiredForGood == Spec => []RetiredStaysRetired
  <1>1. EntryInv => RetiredStaysRetired
    BY DEF EntryInv, StoreInv
  <1> QED BY EntryStart, EntryStep, <1>1, PTL DEF Spec

-----------------------------------------------------------------------------
(* The failure limiter.                                                    *)

\* The login requests of an address, and those of them past the check.
From(ip) == {r \in Reqs : IpOf[r] = ip}
Busy(ip) == {r \in From(ip) : login[r].pc # "idle"}

\* A failure is a request that leaves: counted failures and requests that may
\* still fail stay together below the limit and one for each request but one.
LimitHolds == \A ip \in Ips : attempts[ip].count + Cardinality(Busy(ip)) <= MaxFail - 1 + Cardinality(From(ip))

LimiterOK ==
    /\ attempts \in [Ips -> [count : Nat, age : 0 .. Window + 1]] /\ sweepAge \in 0 .. Window
    /\ DOMAIN login = Reqs

LimitInv == LimiterOK /\ LimitHolds

LEMMA FiniteFrom ==
    ASSUME NEW ip \in Ips
    PROVE  /\ IsFiniteSet(From(ip)) /\ Cardinality(From(ip)) \in Nat
           /\ \A B \in SUBSET From(ip) :
                  IsFiniteSet(B) /\ Cardinality(B) \in Nat /\ Cardinality(B) <= Cardinality(From(ip))
  <1>1. From(ip) \in SUBSET Reqs /\ IsFiniteSet(Reqs)
    BY AdmissionAssumption DEF From
  <1>2. IsFiniteSet(From(ip))
    BY <1>1, FS_Subset
  <1> QED BY <1>2, FS_Subset, FS_CardinalityType

\* A request that is answered leaves its address one fewer.
LEMMA Leaving ==
    ASSUME LimitInv, NEW r \in Reqs, login[r].pc # "idle", login' = [login EXCEPT ![r] = IdleLogin],
           NEW ip \in Ips
    PROVE  Cardinality(Busy(ip)') = IF IpOf[r] = ip THEN Cardinality(Busy(ip)) - 1 ELSE Cardinality(Busy(ip))
  <1>1. CASE IpOf[r] = ip
    <2>1. Busy(ip)' = Busy(ip) \ {r} /\ r \in Busy(ip)
      BY <1>1 DEF Busy, From, LimitInv, LimiterOK, IdleLogin
    <2>2. IsFiniteSet(Busy(ip))
      BY FiniteFrom DEF Busy
    <2> QED BY <1>1, <2>1, <2>2, FS_RemoveElement
  <1>2. CASE IpOf[r] # ip
    <2>1. Busy(ip)' = Busy(ip)
      BY <1>2 DEF Busy, From, LimitInv, LimiterOK
    <2> QED BY <1>2, <2>1
  <1> QED BY <1>1, <1>2

\* fail_at adds one failure to its address at most, and to no other.
LEMMA FailAdds ==
    ASSUME LimiterOK, NEW at \in Ips, Fail(at)
    PROVE  /\ attempts' \in [Ips -> [count : Nat, age : 0 .. Window + 1]] /\ sweepAge' \in 0 .. Window
           /\ \A ip \in Ips : attempts'[ip].count <= IF ip = at THEN attempts[ip].count + 1 ELSE attempts[ip].count
  <1> DEFINE Types == [count : Nat, age : 0 .. Window + 1]
  <1>0. Window \in Nat \ {0} /\ MaxFail \in Nat \ {0}
    BY AdmissionAssumption
  <1>1. attempts \in [Ips -> Types]
    BY DEF LimiterOK
  <1>2. Swept \in [Ips -> Types] /\ \A ip \in Ips : Swept[ip].count <= attempts[ip].count
    <2>1. [count |-> 0, age |-> 0] \in Types
      BY <1>0
    <2>2. CASE sweepAge >= Window
      BY <1>1, <2>1, <2>2 DEF Swept
    <2>3. CASE ~ sweepAge >= Window
      BY <1>1, <2>3 DEF Swept
    <2> QED BY <2>2, <2>3
  <1>4. CASE Stale(at)
    <2>1. attempts' = [Swept EXCEPT ![at] = [count |-> 1, age |-> 0]]
      BY <1>2, <1>4 DEF Fail
    <2>2. [count |-> 1, age |-> 0] \in Types
      BY <1>0
    <2>3. attempts[at].count >= 0
      BY <1>1
    <2> QED BY <1>0, <1>1, <1>2, <2>1, <2>2, <2>3 DEF Fail, LimiterOK
  <1>5. CASE ~Stale(at)
    <2> DEFINE a == [Swept[at] EXCEPT !.count = Swept[at].count + 1]
    <2>1. attempts' = [Swept EXCEPT ![at] = a]
      BY <1>2, <1>5 DEF Fail
    <2>2. a \in Types /\ a.count = Swept[at].count + 1
      BY <1>2
    <2> HIDE DEF a
    <2>3. \A ip \in Ips : Swept[ip].count \in Nat /\ attempts[ip].count \in Nat
      BY <1>1, <1>2
    <2> QED BY <1>0, <1>1, <1>2, <2>1, <2>2, <2>3 DEF Fail, LimiterOK
  <1> QED BY <1>4, <1>5

\* Requests that only change what they wait for keep their address busy.
LEMMA Staying ==
    ASSUME LimitInv, NEW ip \in Ips, DOMAIN login' = Reqs,
           \A r \in Reqs : login'[r].pc = "idle" <=> login[r].pc = "idle"
    PROVE  Busy(ip)' = Busy(ip)
  BY DEF Busy, From

LEMMA LimitLogin ==
    ASSUME LimitInv, NEW r \in Reqs, LoginStep(r)
    PROVE  LimitInv'
  <1> USE DEF LimitInv
  <1> DEFINE Types == [count : Nat, age : 0 .. Window + 1]
  <1>0. /\ Window \in Nat \ {0} /\ MaxFail \in Nat \ {0} /\ IpOf[r] \in Ips
        /\ attempts \in [Ips -> Types] /\ sweepAge \in 0 .. Window /\ DOMAIN login = Reqs
    BY AdmissionAssumption DEF LimiterOK
  <1>d. DOMAIN login' = Reqs
    BY <1>0 DEF LoginStep, LoginCheck, LoginForm, LoginAdmin, LoginMatch, LoginDropped
  <1>b. \A ip \in Ips : /\ Cardinality(From(ip)) \in Nat /\ Cardinality(Busy(ip)) \in Nat
                        /\ Cardinality(Busy(ip)) <= Cardinality(From(ip))
                        /\ Cardinality(Busy(ip)') \in Nat /\ Cardinality(Busy(ip)') <= Cardinality(From(ip))
    <2>1. \A ip \in Ips : Busy(ip) \in SUBSET From(ip) /\ Busy(ip)' \in SUBSET From(ip)
      BY DEF Busy
    <2> QED BY <2>1, FiniteFrom
  <1>c. \A ip \in Ips : From(ip)' = From(ip)
    BY DEF From
  \* The cases: forgotten, failed, or as before; gone, or as busy as before.
  <1>s. ASSUME attempts' = Forget(attempts, IpOf[r]), sweepAge' = sweepAge
        PROVE  LimiterOK' /\ attempts'[IpOf[r]].count = 0
               /\ \A ip \in Ips : attempts'[ip].count <= attempts[ip].count /\ attempts'[ip].count \in Nat
    <2>1. [count |-> 0, age |-> 0] \in Types
      BY <1>0
    <2>2. attempts' = [attempts EXCEPT ![IpOf[r]] = [count |-> 0, age |-> 0]]
      BY <1>s DEF Forget
    <2>3. \A ip \in Ips : attempts[ip].count \in Nat
      BY <1>0
    <2> QED BY <1>0, <1>d, <1>s, <2>1, <2>2, <2>3 DEF LimiterOK
  <1>n. \A ip \in Ips : attempts[ip].count \in Nat
    BY <1>0
  <1>l. ASSUME login[r].pc # "idle", login' = [login EXCEPT ![r] = IdleLogin],
               \/ UNCHANGED limiter
               \/ Fail(IpOf[r])
               \/ Success(IpOf[r])
        PROVE  LimitInv'
    <2>1. LimiterOK' /\ \A ip \in Ips : attempts'[ip].count \in Nat
                          /\ attempts'[ip].count <= IF ip = IpOf[r] THEN attempts[ip].count + 1 ELSE attempts[ip].count
      <3>1. CASE UNCHANGED limiter
        BY <1>0, <1>d, <1>n, <3>1 DEF LimiterOK, limiter
      <3>2. CASE Fail(IpOf[r])
        <4>1. attempts' \in [Ips -> Types]
          BY <1>0, <3>2, FailAdds
        <4>2. \A ip \in Ips : attempts'[ip].count \in Nat
          BY <4>1
        <4> QED BY <1>0, <1>d, <3>2, <4>1, <4>2, FailAdds DEF LimiterOK
      <3>3. CASE Success(IpOf[r])
        BY <1>0, <1>n, <1>s, <3>3 DEF Success
      <3> QED BY <1>l, <3>1, <3>2, <3>3
    <2>2. LimitHolds'
      <3> SUFFICES ASSUME NEW ip \in Ips
                   PROVE  attempts'[ip].count + Cardinality(Busy(ip)') <= MaxFail - 1 + Cardinality(From(ip))
        BY <1>c DEF LimitHolds
      <3>1. Cardinality(Busy(ip)') = IF IpOf[r] = ip THEN Cardinality(Busy(ip)) - 1 ELSE Cardinality(Busy(ip))
        BY <1>l, Leaving
      <3>2. attempts[ip].count + Cardinality(Busy(ip)) <= MaxFail - 1 + Cardinality(From(ip))
        BY DEF LimitHolds
      <3>3. /\ attempts'[ip].count \in Nat /\ attempts[ip].count \in Nat
            /\ attempts'[ip].count <= IF ip = IpOf[r] THEN attempts[ip].count + 1 ELSE attempts[ip].count
        BY <1>n, <2>1
      <3>4. Cardinality(From(ip)) \in Nat /\ Cardinality(Busy(ip)) \in Nat
        BY <1>b
      <3> QED BY <1>0, <3>1, <3>2, <3>3, <3>4
    <2> QED BY <2>1, <2>2
  <1>k. ASSUME UNCHANGED limiter, \A q \in Reqs : login'[q].pc = "idle" <=> login[q].pc = "idle"
        PROVE  LimitInv'
    <2>1. LimiterOK'
      BY <1>0, <1>d, <1>k DEF LimiterOK, limiter
    <2>2. \A ip \in Ips : Busy(ip)' = Busy(ip)
      BY <1>d, <1>k, Staying
    <2> QED BY <1>c, <1>k, <2>1, <2>2 DEF LimitHolds, limiter
  <1>1. CASE LoginCheck(r)
    <2>1. CASE Blocked(IpOf[r])
      BY <1>1, <1>k, <2>1 DEF LoginCheck, Blocked, limiter
    <2>2. CASE ~Blocked(IpOf[r])
      <3>1. login[r].pc = "idle" /\ login' = [login EXCEPT ![r].pc = "form"] /\ sweepAge' = sweepAge
        BY <1>1, <2>2 DEF LoginCheck
      <3>2. LimiterOK' /\ \A ip \in Ips : attempts'[ip].count \in Nat /\ attempts'[ip].count <= attempts[ip].count
        <4>1. CASE Stale(IpOf[r])
          BY <1>1, <1>s, <3>1, <4>1 DEF LoginCheck
        <4>2. CASE ~Stale(IpOf[r])
          BY <1>0, <1>1, <1>d, <1>n, <3>1, <4>2 DEF LoginCheck, LimiterOK
        <4> QED BY <4>1, <4>2
      <3>3. attempts'[IpOf[r]].count <= MaxFail - 1
        <4>1. CASE Stale(IpOf[r])
          BY <1>0, <1>1, <1>s, <3>1, <4>1 DEF LoginCheck
        <4>2. CASE ~Stale(IpOf[r])
          <5>1. ~ (attempts[IpOf[r]].count >= MaxFail)
            BY <2>2, <4>2 DEF Blocked
          <5>2. attempts' = attempts
            BY <1>1, <4>2 DEF LoginCheck
          <5> QED BY <1>0, <1>n, <5>1, <5>2
        <4> QED BY <4>1, <4>2
      <3>4. \A ip \in Ips : ip # IpOf[r] => Busy(ip)' = Busy(ip)
        BY <1>0, <3>1 DEF Busy, From
      <3>5. LimitHolds'
        <4> SUFFICES ASSUME NEW ip \in Ips
                     PROVE  attempts'[ip].count + Cardinality(Busy(ip)') <= MaxFail - 1 + Cardinality(From(ip))
          BY <1>c DEF LimitHolds
        <4>1. CASE ip = IpOf[r]
          BY <1>0, <1>b, <3>2, <3>3, <4>1
        <4>2. CASE ip # IpOf[r]
          BY <1>0, <1>b, <1>n, <3>2, <3>4, <4>2 DEF LimitHolds
        <4> QED BY <4>1, <4>2
      <3> QED BY <3>2, <3>5
    <2> QED BY <2>1, <2>2
  <1>2. CASE LoginForm(r)
    <2>1. CASE login' = [login EXCEPT ![r] = IdleLogin]
      BY <1>2, <1>l, <2>1 DEF LoginForm
    <2>2. CASE UNCHANGED limiter /\ \E g \in known \cup {Wrong, AdminPass} :
                  login' = [login EXCEPT ![r].pc = "admin", ![r].guess = g]
      <3>1. \A q \in Reqs : login'[q].pc = "idle" <=> login[q].pc = "idle"
        <4>1. PICK g \in known \cup {Wrong, AdminPass} :
                  login' = [login EXCEPT ![r].pc = "admin", ![r].guess = g]
          BY <2>2
        <4>2. login[r].pc = "form"
          BY <1>2 DEF LoginForm
        <4> QED BY <1>0, <4>1, <4>2
      <3> QED BY <1>k, <2>2, <3>1
    <2> QED BY <1>2, <2>1, <2>2 DEF LoginForm
  <1>3. CASE LoginAdmin(r)
    <2>1. CASE login' = [login EXCEPT ![r] = IdleLogin] /\ Success(IpOf[r])
      BY <1>3, <1>l, <2>1 DEF LoginAdmin
    <2>2. CASE UNCHANGED limiter
               /\ login' = [login EXCEPT ![r].pc = "match", ![r].match = Verify(login[r].guess)]
      <3>1. \A q \in Reqs : login'[q].pc = "idle" <=> login[q].pc = "idle"
        BY <1>0, <1>3, <2>2 DEF LoginAdmin
      <3> QED BY <1>k, <2>2, <3>1
    <2> QED BY <1>3, <2>1, <2>2 DEF LoginAdmin
  <1>4. CASE LoginMatch(r)
    BY <1>4, <1>l DEF LoginMatch
  <1>5. CASE LoginDropped(r)
    BY <1>5, <1>l DEF LoginDropped
  <1> QED BY <1>1, <1>2, <1>3, <1>4, <1>5 DEF LoginStep

LEMMA LimitStep == LimitInv /\ [Next]_vars => LimitInv'
  <1> SUFFICES ASSUME LimitInv, [Next]_vars PROVE LimitInv'
    OBVIOUS
  <1> USE DEF LimitInv
  <1> DEFINE Types == [count : Nat, age : 0 .. Window + 1]
  <1>0. Window \in Nat \ {0} /\ MaxFail \in Nat \ {0} /\ attempts \in [Ips -> Types] /\ sweepAge \in 0 .. Window
    BY AdmissionAssumption DEF LimiterOK
  <1>c. \A ip \in Ips : From(ip)' = From(ip)
    BY DEF From
  <1>k. ASSUME UNCHANGED login, attempts' \in [Ips -> Types], sweepAge' \in 0 .. Window,
               \A ip \in Ips : attempts'[ip].count = attempts[ip].count
        PROVE  LimitInv'
    <2>1. \A ip \in Ips : Busy(ip)' = Busy(ip)
      BY <1>k DEF Busy, From
    <2> QED BY <1>c, <1>k, <2>1 DEF LimitHolds, LimiterOK
  <1>1. ASSUME NEW i \in Ids, ConnPassStep(i) PROVE LimitInv'
    <2>1. UNCHANGED <<limiter, login>>
      BY <1>1 DEF ConnPassStep, Create, Rotate, Revoke, SetTtl, Rename
    <2> QED BY <1>0, <1>k, <2>1 DEF limiter
  <1>2. ASSUME NEW r \in Reqs, LoginStep(r) PROVE LimitInv'
    BY <1>2, LimitLogin
  <1>3. ASSUME NEW c \in Conns, ConnStep(c) PROVE LimitInv'
    <2>1. UNCHANGED <<limiter, login>>
      BY <1>3 DEF ConnStep, Validate, Register, UpgradeFails, EndConn, CancelNext
    <2> QED BY <1>0, <1>k, <2>1 DEF limiter
  <1>4. ASSUME NEW s \in sessions, CookieExpires(s) PROVE LimitInv'
    BY <1>0, <1>k, <1>4 DEF CookieExpires, limiter
  <1>5. CASE DisconnectUsers \/ UNCHANGED vars
    BY <1>0, <1>k, <1>5 DEF DisconnectUsers, limiter, vars
  <1>6. CASE Restart
    <2>1. attempts' = [ip \in Ips |-> [count |-> 0, age |-> 0]] /\ sweepAge' = Window
          /\ login' = [r \in Reqs |-> IdleLogin]
      BY <1>6 DEF Restart
    <2>2. [count |-> 0, age |-> 0] \in Types
      BY <1>0
    <2>3. LimiterOK'
      BY <1>0, <2>1, <2>2 DEF LimiterOK
    <2>4. ASSUME NEW ip \in Ips
          PROVE  attempts'[ip].count + Cardinality(Busy(ip)') <= MaxFail - 1 + Cardinality(From(ip))
      <3>1. Busy(ip)' = {}
        BY <2>1 DEF Busy, From, IdleLogin
      <3>2. Cardinality(Busy(ip)') = 0
        BY <3>1, FS_EmptySet
      <3>3. Cardinality(From(ip)) \in Nat
        BY FiniteFrom
      <3> QED BY <1>0, <2>1, <3>2, <3>3
    <2> QED BY <1>c, <2>3, <2>4 DEF LimitHolds
  <1>7. CASE Tick
    <2>1. ASSUME NEW ip \in Ips
          PROVE  attempts'[ip] \in Types /\ attempts'[ip].count = attempts[ip].count
      <3>1. attempts[ip] \in Types
        BY <1>0
      <3>2. CASE attempts[ip].count = 0
        BY <1>7, <3>1, <3>2 DEF Tick
      <3>3. CASE attempts[ip].count # 0
        <4> DEFINE m == Min({attempts[ip].age + 1, Window + 1})
        <4>1. m \in 0 .. Window + 1
          BY <1>0, <3>1 DEF Min
        <4>2. attempts'[ip] = [attempts[ip] EXCEPT !.age = m]
          BY <1>7, <3>3 DEF Tick
        <4> HIDE DEF m
        <4> QED BY <3>1, <4>1, <4>2
      <3> QED BY <3>2, <3>3
    <2>2. attempts' \in [Ips -> Types]
      BY <1>7, <2>1 DEF Tick
    <2>3. sweepAge' \in 0 .. Window
      <3> DEFINE m == Min({sweepAge + 1, Window})
      <3>1. m \in 0 .. Window
        <4>1. sweepAge \in 0 .. Window /\ Window \in Nat
          BY <1>0
        <4>2. CASE sweepAge = Window
          <5>1. Window \in {sweepAge + 1, Window} /\ \A y \in {sweepAge + 1, Window} : Window <= y
            BY <4>1, <4>2
          <5> QED BY <4>1, <4>2, <5>1 DEF Min
        <4>3. CASE sweepAge # Window
          <5>1. sweepAge + 1 \in 0 .. Window
            BY <4>1, <4>3
          <5> QED BY <4>1, <5>1 DEF Min
        <4> QED BY <4>2, <4>3
      <3>2. sweepAge' = m
        BY <1>7 DEF Tick
      <3> QED BY <3>1, <3>2
    <2> QED BY <1>7, <1>k, <2>1, <2>2, <2>3 DEF Tick
  <1> QED BY <1>1, <1>2, <1>3, <1>4, <1>5, <1>6, <1>7 DEF Next

LEMMA LimitStart == Init => LimitInv
  <1> SUFFICES ASSUME Init PROVE LimitInv
    OBVIOUS
  <1>0. Window \in Nat \ {0} /\ MaxFail \in Nat \ {0}
    BY AdmissionAssumption
  <1>1. LimiterOK
    BY <1>0 DEF Init, LimiterOK
  <1>2. ASSUME NEW ip \in Ips
        PROVE  attempts[ip].count + Cardinality(Busy(ip)) <= MaxFail - 1 + Cardinality(From(ip))
    <2>1. Busy(ip) = {}
      BY DEF Init, Busy, From, IdleLogin
    <2>2. Cardinality(Busy(ip)) = 0 /\ Cardinality(From(ip)) \in Nat
      BY <2>1, FS_EmptySet, FiniteFrom
    <2> QED BY <1>0, <2>2 DEF Init
  <1> QED BY <1>1, <1>2 DEF LimitInv, LimitHolds

\* The limiter is read before the body and counted after the hash, so requests in flight
\* together all pass the check: an address gets at most one extra failure for each of them
\* (login in handlers.rs, limiter.rs).
THEOREM GuessesAreFew == Spec => []FailuresBounded
  <1>1. LimitInv => FailuresBounded
    <2> SUFFICES ASSUME LimitInv, NEW ip \in Ips
                 PROVE  attempts[ip].count <= MaxFail - 1 + Cardinality({r \in Reqs : IpOf[r] = ip})
      BY DEF FailuresBounded
    <2>1. Busy(ip) \in SUBSET From(ip)
      BY DEF Busy
    <2>2. Cardinality(Busy(ip)) \in Nat /\ Cardinality(From(ip)) \in Nat
      BY <2>1, FiniteFrom
    <2>3. attempts[ip].count \in Nat /\ MaxFail \in Nat
      BY AdmissionAssumption DEF LimitInv, LimiterOK
    <2>4. attempts[ip].count + Cardinality(Busy(ip)) <= MaxFail - 1 + Cardinality(From(ip))
      BY DEF LimitInv, LimitHolds
    <2> QED BY <2>2, <2>3, <2>4 DEF From
  <1> QED BY LimitStart, LimitStep, <1>1, PTL DEF Spec

LEMMA EntryTypes == EntryInv /\ LimitInv => TypeOK
  <1> SUFFICES ASSUME EntryInv, LimitInv PROVE TypeOK
    OBVIOUS
  <1>1. known \subseteq Passwords /\ retired \subseteq Passwords
    BY AdmissionAssumption DEF EntryInv, StoreInv, StoreOK, Passwords
  <1> QED BY <1>1 DEF TypeOK, EntryInv, StoreInv, StoreOK, OthersOK, LimitInv, LimiterOK

\* Every password, login, session, connection and failure count keeps its type.
THEOREM AdmissionTypes == Spec => []TypeOK
  BY EntryStart, EntryStep, LimitStart, LimitStep, EntryTypes, PTL DEF Spec
=============================================================================

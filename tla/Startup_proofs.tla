---------------------------- MODULE Startup_proofs ----------------------------
(***************************************************************************)
(* Proofs of Startup, for any number of processes and changes.             *)
(***************************************************************************)
EXTENDS Startup, TLAPS

Running == {"locked", "loaded", "generated", "certified", "made", "identified",
            "serving", "renaming"}
Usable == {"identified", "serving", "renaming"}

\* One process runs, the one that holds the lock.
Alone == \A l \in Launches : pc[l] \in Running <=> lock = l

\* How far the files have come.  While none is made, none has been shown.
Files ==
  /\ cert = Absent \/ (\E l \in Launches : pc[l] = "certified" /\ cert = l) \/ broken
       \/ (cert \in Launches /\ cert = key)
  /\ \A l \in Launches :
       /\ pc[l] = "generated" => cert = Absent
       /\ pc[l] = "certified" => cert = l /\ ~broken
       /\ pc[l] \in {"generated", "certified"} => \A k \in Launches : identity[k] = Absent
       /\ identity[l] # Absent => cert = identity[l] /\ key = identity[l]
  /\ cert = Absent => (key = Absent /\ ~broken)

Stored ==
  /\ config # Torn /\ config >= saved
  /\ \A l \in Launches :
       /\ pc[l] \in {"loaded", "generated", "certified", "made"} \cup Usable => settings[l] >= config
       /\ pc[l] = "renaming" => tmp = settings[l]

Inv == TypeOK /\ Alone /\ Files /\ Stored

-----------------------------------------------------------------------------
(* Each part of the invariant is kept by every step of a process           *)

LEMMA TypeStep ==
  ASSUME StartupAssumption, TypeOK, Stored, NEW l \in Launches, Start(l) \/ Save(l) \/ End(l)
  PROVE  TypeOK'
<1> USE DEF TypeOK, StartupAssumption, Stored
<1>1. CASE AcquireLock(l)
  BY <1>1 DEF AcquireLock, Go, identityFiles, store
<1>2. CASE LockTaken(l)
  BY <1>2 DEF LockTaken, Go, identityFiles, store, Ends
<1>3. CASE Load(l)
  BY <1>3 DEF Load, Go, identityFiles, store, Ends
<1>4. CASE FindIdentity(l)
  BY <1>4 DEF FindIdentity, Go, identityFiles, store
<1>5. CASE WriteCertificate(l)
  BY <1>5 DEF WriteCertificate, Go, identityFiles, store
<1>6. CASE WriteKey(l)
  BY <1>6 DEF WriteKey, Go, identityFiles, store
<1>7. CASE IdentityCutShort(l)
  BY <1>7 DEF IdentityCutShort, Go, identityFiles, store, Ends
<1>8. CASE LoadPair(l)
  BY <1>8 DEF LoadPair, Go, identityFiles, store
<1>9. CASE PairUnusable(l)
  BY <1>9 DEF PairUnusable, Go, identityFiles, store, Ends
<1>10. CASE Serve(l)
  BY <1>10 DEF Serve, Go, identityFiles, store
<1>11. CASE WriteTemp(l)
  BY <1>11 DEF WriteTemp, Go, identityFiles, store, Change
<1>12. CASE Rename(l)
  BY <1>12 DEF Rename, Go, identityFiles, store
<1>13. CASE RenameFails(l)
  BY <1>13 DEF RenameFails, Go, identityFiles, store
<1>14. CASE End(l)
  BY <1>14 DEF End, Go, identityFiles, store, Ends
<1> QED BY <1>1, <1>2, <1>3, <1>4, <1>5, <1>6, <1>7, <1>8, <1>9, <1>10, <1>11, <1>12, <1>13, <1>14 DEF Start, Save

LEMMA AloneStep ==
  ASSUME StartupAssumption, TypeOK, Alone, NEW l \in Launches, Start(l) \/ Save(l) \/ End(l)
  PROVE  Alone'
<1> USE DEF TypeOK, Alone, Running, StartupAssumption
<1>1. CASE AcquireLock(l)
  BY <1>1 DEF AcquireLock, Go, identityFiles, store
<1>2. CASE LockTaken(l)
  BY <1>2 DEF LockTaken, Go, identityFiles, store, Ends
<1>3. CASE Load(l)
  BY <1>3 DEF Load, Go, identityFiles, store, Ends
<1>4. CASE FindIdentity(l)
  BY <1>4 DEF FindIdentity, Go, identityFiles, store
<1>5. CASE WriteCertificate(l)
  BY <1>5 DEF WriteCertificate, Go, identityFiles, store
<1>6. CASE WriteKey(l)
  BY <1>6 DEF WriteKey, Go, identityFiles, store
<1>7. CASE IdentityCutShort(l)
  BY <1>7 DEF IdentityCutShort, Go, identityFiles, store, Ends
<1>8. CASE LoadPair(l)
  BY <1>8 DEF LoadPair, Go, identityFiles, store
<1>9. CASE PairUnusable(l)
  BY <1>9 DEF PairUnusable, Go, identityFiles, store, Ends
<1>10. CASE Serve(l)
  BY <1>10 DEF Serve, Go, identityFiles, store
<1>11. CASE WriteTemp(l)
  BY <1>11 DEF WriteTemp, Go, identityFiles, store, Change
<1>12. CASE Rename(l)
  BY <1>12 DEF Rename, Go, identityFiles, store
<1>13. CASE RenameFails(l)
  BY <1>13 DEF RenameFails, Go, identityFiles, store
<1>14. CASE End(l)
  BY <1>14 DEF End, Go, identityFiles, store, Ends
<1> QED BY <1>1, <1>2, <1>3, <1>4, <1>5, <1>6, <1>7, <1>8, <1>9, <1>10, <1>11, <1>12, <1>13, <1>14 DEF Start, Save

LEMMA FilesStep ==
  ASSUME StartupAssumption, TypeOK, Alone, Files, NEW l \in Launches, Start(l) \/ Save(l) \/ End(l)
  PROVE  Files'
<1> USE DEF TypeOK, Alone, Running, Files, StartupAssumption
<1>1. CASE AcquireLock(l)
  BY <1>1 DEF AcquireLock, Go, identityFiles, store
<1>2. CASE LockTaken(l)
  BY <1>2 DEF LockTaken, Go, identityFiles, store, Ends
<1>3. CASE Load(l)
  BY <1>3 DEF Load, Go, identityFiles, store, Ends
<1>4. CASE FindIdentity(l)
  BY <1>4 DEF FindIdentity, Go, identityFiles, store
<1>5. CASE WriteCertificate(l)
  BY <1>5 DEF WriteCertificate, Go, identityFiles, store
<1>6. CASE WriteKey(l)
  BY <1>6 DEF WriteKey, Go, identityFiles, store
<1>7. CASE IdentityCutShort(l)
  BY <1>7 DEF IdentityCutShort, Go, identityFiles, store, Ends
<1>8. CASE LoadPair(l)
  BY <1>8 DEF LoadPair, Go, identityFiles, store
<1>9. CASE PairUnusable(l)
  BY <1>9 DEF PairUnusable, Go, identityFiles, store, Ends
<1>10. CASE Serve(l)
  BY <1>10 DEF Serve, Go, identityFiles, store
<1>11. CASE WriteTemp(l)
  BY <1>11 DEF WriteTemp, Go, identityFiles, store, Change
<1>12. CASE Rename(l)
  BY <1>12 DEF Rename, Go, identityFiles, store
<1>13. CASE RenameFails(l)
  BY <1>13 DEF RenameFails, Go, identityFiles, store
<1>14. CASE End(l)
  BY <1>14 DEF End, Go, identityFiles, store, Ends
<1> QED BY <1>1, <1>2, <1>3, <1>4, <1>5, <1>6, <1>7, <1>8, <1>9, <1>10, <1>11, <1>12, <1>13, <1>14 DEF Start, Save

LEMMA StoredStep ==
  ASSUME StartupAssumption, TypeOK, Alone, Stored, NEW l \in Launches, Start(l) \/ Save(l) \/ End(l)
  PROVE  Stored'
<1> USE DEF TypeOK, Alone, Running, Usable, Stored, StartupAssumption
<1>1. CASE AcquireLock(l)
  BY <1>1 DEF AcquireLock, Go, identityFiles, store
<1>2. CASE LockTaken(l)
  BY <1>2 DEF LockTaken, Go, identityFiles, store, Ends
<1>3. CASE Load(l)
  BY <1>3 DEF Load, Go, identityFiles, store, Ends
<1>4. CASE FindIdentity(l)
  BY <1>4 DEF FindIdentity, Go, identityFiles, store
<1>5. CASE WriteCertificate(l)
  BY <1>5 DEF WriteCertificate, Go, identityFiles, store
<1>6. CASE WriteKey(l)
  BY <1>6 DEF WriteKey, Go, identityFiles, store
<1>7. CASE IdentityCutShort(l)
  BY <1>7 DEF IdentityCutShort, Go, identityFiles, store, Ends
<1>8. CASE LoadPair(l)
  BY <1>8 DEF LoadPair, Go, identityFiles, store
<1>9. CASE PairUnusable(l)
  BY <1>9 DEF PairUnusable, Go, identityFiles, store, Ends
<1>10. CASE Serve(l)
  BY <1>10 DEF Serve, Go, identityFiles, store
<1>11. CASE WriteTemp(l)
  BY <1>11 DEF WriteTemp, Go, identityFiles, store, Change
<1>12. CASE Rename(l)
  BY <1>12 DEF Rename, Go, identityFiles, store
<1>13. CASE RenameFails(l)
  BY <1>13 DEF RenameFails, Go, identityFiles, store
<1>14. CASE End(l)
  BY <1>14 DEF End, Go, identityFiles, store, Ends
<1> QED BY <1>1, <1>2, <1>3, <1>4, <1>5, <1>6, <1>7, <1>8, <1>9, <1>10, <1>11, <1>12, <1>13, <1>14 DEF Start, Save

-----------------------------------------------------------------------------
(* The theorems                                                            *)

LEMMA InvInit == ASSUME StartupAssumption, Init PROVE Inv
<1> USE DEF Init, StartupAssumption
<1>1. TypeOK
  <2>1. 0 \in 0..0 /\ 0 \in 0..MaxChanges
    OBVIOUS
  <2>2. settings \in [Launches -> 0..changes] /\ {tmp, config} \subseteq (0..changes) \cup {Torn}
    BY <2>1
  <2>3. changes \in 0..MaxChanges /\ saved \in 0..changes
    BY <2>1
  <2> QED BY <2>2, <2>3 DEF TypeOK
<1>2. Alone
  BY DEF Alone, Running
<1>3. Files
  BY DEF Files
<1>4. Stored
  BY DEF Stored, Usable
<1> QED BY <1>1, <1>2, <1>3, <1>4 DEF Inv

LEMMA InvStep == ASSUME StartupAssumption, Inv, [Next]_vars PROVE Inv'
<1>1. ASSUME NEW l \in Launches, Start(l) \/ Save(l) \/ End(l) PROVE Inv'
  BY <1>1, TypeStep, AloneStep, FilesStep, StoredStep DEF Inv
<1>2. CASE UNCHANGED vars
  BY <1>2 DEF vars, identityFiles, store, Inv, TypeOK, Alone, Files, Stored
<1> QED BY <1>1, <1>2 DEF Next

\* The inductive invariant: the running process is the one that holds the lock,
\* the files of the identity are as far as it has come with them, nobody has
\* shown an identity while one is being made, and what it is about to rename is
\* what it holds in memory.
THEOREM StartupInvariant == Spec => []Inv
<1>1. Init => Inv
  BY InvInit, StartupAssumption
<1>2. Inv /\ [Next]_vars => Inv'
  BY InvStep, StartupAssumption
<1> QED BY <1>1, <1>2, PTL DEF Spec

\* Startup is type correct for any number of processes and changes.
THEOREM StartupTypeCorrect == Spec => []TypeOK
<1>1. Inv => TypeOK
  BY DEF Inv
<1> QED BY <1>1, StartupInvariant, PTL

\* Every identity ever shown is the one in the files, however many processes are
\* launched, and wherever each of them ends.
THEOREM IdentityIsKept == Spec => []OneIdentity
<1>1. Inv => OneIdentity
  BY DEF Inv, Files, OneIdentity
<1> QED BY <1>1, StartupInvariant, PTL

\* Unless the making of the identity was cut short, the next process can use it
\* or make one.
THEOREM PairAlwaysFits == Spec => []PairFits
<1>1. Inv => PairFits
  BY StartupAssumption DEF Inv, Files, PairFits, StartupAssumption
<1> QED BY <1>1, StartupInvariant, PTL

\* No save that failed or was cut short loses settings saved before it.
THEOREM SavedSettingsAreKept == Spec => []SavedSettingsKept
<1>1. Inv => SavedSettingsKept
  BY DEF Inv, Stored, Usable, SavedSettingsKept
<1> QED BY <1>1, StartupInvariant, PTL

\* What is about to be renamed is newer than config.json.
NewerWaits == \A l \in Launches : pc[l] = "renaming" => settings[l] > config

LEMMA NewerStep ==
  ASSUME StartupAssumption, Inv, NewerWaits, NEW l \in Launches, Start(l) \/ Save(l) \/ End(l)
  PROVE  NewerWaits'
<1> USE DEF Inv, TypeOK, NewerWaits
<1>1. CASE Start(l) \/ RenameFails(l) \/ End(l)
  <2>1. config' = config /\ \A k \in Launches : pc'[k] = "renaming" => pc[k] = "renaming"
    BY <1>1 DEF Start, AcquireLock, LockTaken, Load, FindIdentity, WriteCertificate, WriteKey,
                IdentityCutShort, LoadPair, PairUnusable, Serve, RenameFails, End, Ends, Go, store
  <2>2. \A k \in Launches : pc[k] = "renaming" => settings'[k] = settings[k]
    <3>1. CASE Load(l)
      BY <3>1 DEF Load, Ends, Go
    <3>2. CASE ~Load(l)
      BY <1>1, <3>2 DEF Start, AcquireLock, LockTaken, FindIdentity, WriteCertificate, WriteKey,
                IdentityCutShort, LoadPair, PairUnusable, Serve, RenameFails, End
    <3> QED BY <3>1, <3>2
  <2> QED BY <2>1, <2>2
<1>2. CASE WriteTemp(l)
  <2>1. config' = config /\ settings' = [settings EXCEPT ![l] = changes + 1]
        /\ \A k \in Launches : k # l => pc'[k] = pc[k]
    BY <1>2 DEF WriteTemp, Change, Go
  <2>2. config \in Nat /\ config <= changes /\ changes \in Nat
    BY DEF Stored, StartupAssumption
  <2>3. settings'[l] > config
    BY <2>1, <2>2
  <2> QED BY <2>1, <2>3
<1>3. CASE Rename(l)
  <2>1. pc'[l] = "serving" /\ pc[l] = "renaming" /\ \A k \in Launches : k # l => pc'[k] = pc[k]
    BY <1>3 DEF Rename, Go
  <2>2. \A k \in Launches : k # l => pc[k] # "renaming"
    BY <2>1 DEF Alone, Running
  <2> QED BY <2>1, <2>2
<1> QED BY <1>1, <1>2, <1>3 DEF Save

LEMMA ForwardStep ==
  ASSUME StartupAssumption, Inv, NewerWaits, NEW l \in Launches, Start(l) \/ Save(l) \/ End(l),
         config' # config
  PROVE  lock \in Launches /\ config' = settings[lock] /\ config' > config
<1>1. Rename(l)
  BY DEF Start, Save, AcquireLock, LockTaken, Load, FindIdentity, WriteCertificate, WriteKey,
         IdentityCutShort, LoadPair, PairUnusable, Serve, WriteTemp, RenameFails, End, store
<1>2. pc[l] = "renaming" /\ config' = tmp
  BY <1>1 DEF Rename, Go
<1>3. lock = l
  BY <1>2 DEF Inv, Alone, Running
<1> QED BY <1>2, <1>3 DEF Inv, Stored, NewerWaits

\* Every change of config.json is by the process with the lock, to newer settings
\* that it works on, for any number of processes and changes.
THEOREM ConfigOnlyGoesForward == Spec => ConfigGoesForward
<1>1. Init => NewerWaits
  BY DEF Init, NewerWaits
<1>2. Inv /\ NewerWaits /\ [Next]_vars => NewerWaits'
  <2> SUFFICES ASSUME Inv, NewerWaits, [Next]_vars PROVE NewerWaits'
    OBVIOUS
  <2>1. CASE UNCHANGED vars
    BY <2>1 DEF vars, store, NewerWaits
  <2> QED BY <2>1, NewerStep, StartupAssumption DEF Next
<1>3. Inv /\ NewerWaits /\ [Next]_vars =>
        [config' # config =>
           lock \in Launches /\ config' = settings[lock] /\ config' > config]_vars
  BY ForwardStep, StartupAssumption DEF Next
<1> QED BY <1>1, <1>2, <1>3, StartupInvariant, PTL DEF Spec, ConfigGoesForward
=============================================================================

------------------------------- MODULE Startup -------------------------------
(***************************************************************************)
(* One machine's files and the processes that use them, one after another  *)
(* or launched at once (cmd/mouseshare/main.go, app.New,                   *)
(* security.EnsureCertificate, config.Store): the instance lock, the       *)
(* identity made at the first start, the settings written on every change. *)
(* A process may end between any two steps, and any file may fail to be    *)
(* written.                                                                *)
(*                                                                         *)
(* An identity is named for the process that made it; settings are         *)
(* numbered in the order in which they came to be.  The lock is a bound    *)
(* port, released with the process.                                        *)
(***************************************************************************)
EXTENDS Naturals

CONSTANTS
  Launches,    \* the processes; bounds how often MouseShare is started
  MaxChanges,  \* bounds the changes of the settings
  Absent,      \* no file, no process
  Torn         \* a file written in part, or empty

ASSUME StartupAssumption ==
  /\ {Absent, Torn} \cap Launches = {} /\ Absent # Torn
  /\ MaxChanges \in Nat /\ Torn \notin Nat

VARIABLES
  pc,        \* pc[l]: how far process l has come
  lock,      \* the process that holds the instance lock
  cert,      \* identity.pem
  key,       \* identity-key.pem
  tmp,       \* config.json.tmp
  config,    \* config.json
  identity,  \* identity[l]: what process l shows and answers with
  settings,  \* settings[l]: s.settings in process l
  changes,   \* the number of the latest settings
  saved,     \* the latest settings whose save was reported to have worked
  broken     \* the making of the identity was cut short, a part of it on disk

identityFiles == <<cert, key, broken>>
store == <<tmp, config, saved>>
vars == <<pc, lock, identityFiles, store, identity, settings, changes>>

Init ==
  /\ pc = [l \in Launches |-> "launched"] /\ lock = Absent
  /\ cert = Absent /\ key = Absent /\ broken = FALSE
  /\ tmp = 0 /\ config = 0 /\ saved = 0 /\ changes = 0
  /\ identity = [l \in Launches |-> Absent]
  /\ settings = [l \in Launches |-> 0]

Go(l, from, to) == pc[l] = from /\ pc' = [pc EXCEPT ![l] = to]

\* log.Fatal, a signal or a crash.
Ends(l) ==
  /\ pc' = [pc EXCEPT ![l] = "ended"]
  /\ lock' = IF lock = l THEN Absent ELSE lock

-----------------------------------------------------------------------------
(* main, app.New                                                           *)

AcquireLock(l) ==
  /\ lock = Absent /\ lock' = l
  /\ Go(l, "launched", "locked")
  /\ UNCHANGED <<identityFiles, store, identity, settings, changes>>

\* Bug: a second process says so and goes on.
LockTaken_GoesOn(l) ==
  /\ lock # Absent
  /\ Go(l, "launched", "locked") /\ UNCHANGED lock
  /\ UNCHANGED <<identityFiles, store, identity, settings, changes>>

LockTaken(l) ==
  /\ lock # Absent
  /\ pc[l] = "launched" /\ Ends(l)
  /\ UNCHANGED <<identityFiles, store, identity, settings, changes>>

\* A config.json that cannot be decoded ends the process.
Load(l) ==
  /\ pc[l] = "locked"
  /\ IF config = Torn
       THEN Ends(l) /\ UNCHANGED settings
       ELSE Go(l, "locked", "loaded") /\ settings' = [settings EXCEPT ![l] = config]
              /\ UNCHANGED lock
  /\ UNCHANGED <<identityFiles, store, identity, changes>>

-----------------------------------------------------------------------------
(* EnsureCertificate                                                       *)

\* Only identity.pem is looked for.
FindIdentity(l) ==
  /\ Go(l, "loaded", IF cert = Absent THEN "generated" ELSE "made")
  /\ UNCHANGED <<lock, identityFiles, store, identity, settings, changes>>

WriteCertificate(l) ==
  /\ Go(l, "generated", "certified")
  /\ cert' = l
  /\ UNCHANGED <<lock, key, broken, store, identity, settings, changes>>

\* Bug: the error of the write is not looked at.
WriteKey_IgnoresError(l) ==
  /\ Go(l, "certified", "made")
  /\ key' \in {l, Torn}
  /\ UNCHANGED <<lock, cert, broken, store, identity, settings, changes>>

WriteKey(l) ==
  /\ Go(l, "certified", "made")
  /\ key' = l
  /\ UNCHANGED <<lock, cert, broken, store, identity, settings, changes>>

\* The file cannot be written, or the process ends over it.
IdentityCutShort(l) ==
  /\ \/ pc[l] = "generated" /\ cert' \in {Absent, Torn} /\ UNCHANGED key
     \/ pc[l] = "certified" /\ key' \in {Absent, Torn} /\ UNCHANGED cert
  /\ broken' = (broken \/ cert' # Absent)
  /\ Ends(l)
  /\ UNCHANGED <<store, identity, settings, changes>>

\* Bug: the certificate is taken as it is.
LoadPair_NoCheck(l) ==
  /\ identity' = [identity EXCEPT ![l] = cert]
  /\ Go(l, "made", "identified")
  /\ UNCHANGED <<lock, identityFiles, store, settings, changes>>

\* tls.LoadX509KeyPair: the key must be that of the certificate.
LoadPair(l) ==
  /\ cert \in Launches /\ cert = key
  /\ identity' = [identity EXCEPT ![l] = cert]
  /\ Go(l, "made", "identified")
  /\ UNCHANGED <<lock, identityFiles, store, settings, changes>>

\* Nothing is made anew.
PairUnusable(l) ==
  /\ ~(cert \in Launches /\ cert = key)
  /\ pc[l] = "made" /\ Ends(l)
  /\ UNCHANGED <<identityFiles, store, identity, settings, changes>>

\* Service.Start and the web UI; every port may be taken by another program.
Serve(l) ==
  /\ Go(l, "identified", "serving")
  /\ UNCHANGED <<lock, identityFiles, store, identity, settings, changes>>

-----------------------------------------------------------------------------
(* Store.Save, called with s.mu held                                       *)

Change(l) ==
  /\ changes < MaxChanges /\ changes' = changes + 1
  /\ settings' = [settings EXCEPT ![l] = changes + 1]

\* Bug: config.json itself is written.
WriteTemp_InPlace(l) ==
  /\ Change(l)
  /\ \/ Go(l, "serving", "renaming") /\ tmp' = changes + 1 /\ config' = changes + 1
     \/ Go(l, "serving", "serving") /\ UNCHANGED tmp /\ config' = Torn
  /\ UNCHANGED <<lock, identityFiles, saved, identity>>

\* The settings change in memory whether or not they can be written.
WriteTemp(l) ==
  /\ Change(l)
  /\ \/ Go(l, "serving", "renaming") /\ tmp' = changes + 1
     \/ Go(l, "serving", "serving") /\ tmp' \in {tmp, Torn}
  /\ UNCHANGED <<lock, identityFiles, config, saved, identity>>

Rename(l) ==
  /\ Go(l, "renaming", "serving")
  /\ config' = tmp /\ saved' = settings[l]
  /\ UNCHANGED <<lock, identityFiles, tmp, identity, settings, changes>>

RenameFails(l) ==
  /\ Go(l, "renaming", "serving")
  /\ UNCHANGED <<lock, identityFiles, store, identity, settings, changes>>

-----------------------------------------------------------------------------
\* Anywhere else the process may end as well: a signal, a crash, a port taken.
End(l) ==
  /\ pc[l] \in {"locked", "loaded", "made", "identified", "serving", "renaming"}
  /\ Ends(l)
  /\ UNCHANGED <<identityFiles, store, identity, settings, changes>>

Start(l) ==
  \/ AcquireLock(l) \/ LockTaken(l) \/ Load(l)
  \/ FindIdentity(l) \/ WriteCertificate(l) \/ WriteKey(l) \/ IdentityCutShort(l)
  \/ LoadPair(l) \/ PairUnusable(l) \/ Serve(l)

Save(l) == WriteTemp(l) \/ Rename(l) \/ RenameFails(l)

Next == \E l \in Launches : Start(l) \/ Save(l) \/ End(l)

Spec == Init /\ [][Next]_vars

-----------------------------------------------------------------------------
(* Properties                                                              *)

\* Every variable holds values of the type it stands for.
TypeOK ==
  /\ pc \in [Launches -> {"launched", "locked", "loaded", "generated", "certified", "made",
                          "identified", "serving", "renaming", "ended"}]
  /\ lock \in Launches \cup {Absent} /\ broken \in BOOLEAN
  /\ {cert, key} \subseteq Launches \cup {Absent, Torn}
  /\ identity \in [Launches -> Launches \cup {Absent}]
  /\ changes \in 0..MaxChanges /\ saved \in 0..changes
  /\ {tmp, config} \subseteq (0..changes) \cup {Torn} /\ settings \in [Launches -> 0..changes]

\* "Trusted peer identities persist across restarts" (docs/PRD.md:33): what a
\* process has once shown and answered with is the identity in the files, so
\* every process after it shows the same, even when two are launched at once on
\* a machine that has none yet, and whatever ends in between.
OneIdentity ==
  \A l \in Launches : identity[l] # Absent => identity[l] = cert /\ identity[l] = key

\* The certificate and the key are made together: unless the process that made
\* them was cut short between the two files, there is a pair that fits or
\* nothing, and the next process starts.
PairFits ==
  ~broken /\ (\A l \in Launches : pc[l] # "certified") => cert = key /\ cert # Torn

\* config.json can always be decoded and is as new as the last save that was
\* reported to have worked, and no process works on older settings than the
\* file: a save that fails half way, or a process that ends in it, loses only
\* what it was to save.
SavedSettingsKept ==
  /\ config # Torn /\ config >= saved
  /\ \A l \in Launches : pc[l] \in {"serving", "renaming"} => settings[l] >= config

\* config.json changes only by the process that holds the lock, to the settings
\* that process works on, which are newer: no rename of one save publishes the
\* temporary file of another, and a file written in part never takes its place.
ConfigGoesForward ==
  [][config' # config =>
       lock \in Launches /\ config' = settings[lock] /\ config' > config]_vars
=============================================================================

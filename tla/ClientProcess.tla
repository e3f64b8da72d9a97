--------------------------- MODULE ClientProcess ---------------------------
(***************************************************************************)
(* The core process of a client device: locking and unlocking, the device  *)
(* key, and the state it keeps on disk.  Code:                             *)
(* app/client/core_process/src/server.ts and redux_store.ts,               *)
(* handlers/client_device.ts, and app/core/src/lib/client_store.           *)
(*                                                                         *)
(* Several front ends (the UI, the CLI) send actions to the process.       *)
(* Everything between two awaits of I/O or of the crypto workers is one    *)
(* step; what waits for a worker is a job of the pool, in the order the    *)
(* jobs were posted.  The state of a store is the set of actions applied   *)
(* to it and the two settings that lock the device.                        *)
(***************************************************************************)
EXTENDS Naturals, Sequences, FiniteSets

CONSTANTS
  Actions,   \* actions that take a while (requests to the server)
  Workers,   \* size of the pool of crypto workers
  MaxKey,    \* bound: device keys made
  MaxGen,    \* bound: stores made
  MaxJobs    \* bound: jobs of the pool at a time

ASSUME PoolAssumption ==
  Workers \in Nat \ {0} /\ MaxKey \in Nat \ {0} /\ MaxGen \in Nat \ {0} /\ MaxJobs \in Nat

VARIABLES
  file,    \* the file store: a state, the key it is encrypted with
  devKey,  \* the device key: encryptedKey present (sealed), key present (open)
  running, \* the process is up
  locked,  \* the flag of key_store.ts
  redux,   \* the variable reduxStore of server.ts
  act,     \* the actions: where each is and the store it was dispatched to
  jobs,    \* the crypto jobs in progress
  gens,    \* number of stores made
  keys,    \* number of device keys made
  owed,    \* history: acknowledged actions whose effect nothing excuses losing
  dropped  \* history: the device key when the store was last dropped by a lock

vars == <<file, devKey, running, locked, redux, act, jobs, gens, keys, owed, dropped>>

NoStore == [gen |-> 0, loaded |-> FALSE, done |-> {}, pass |-> FALSE, lockout |-> FALSE]
NewStore(g, isLoaded) == [NoStore EXCEPT !.gen = g, !.loaded = isLoaded]
HasStore == redux # NoStore

\* encryptSymmetricWithKey of a state: `stale` when it is not the newest (see Overtaken)
\* or comes from a store that was not yet loaded.
CommitJob(s, k) ==
  [type |-> "commit", done |-> s.done, pass |-> s.pass, lockout |-> s.lockout, key |-> k, stale |-> ~s.loaded]
DeriveJob(k)  == [type |-> "derive", key |-> k]              \* decryptSymmetricWithPassphrase
SealJob       == [type |-> "seal"]                           \* encryptSymmetricWithPassphrase
MergeJob(f, k) == [type |-> "merge", snap |-> f, key |-> k]   \* decryptSymmetricWithKey of the file

NoFile == [done |-> {}, pass |-> FALSE, lockout |-> FALSE, key |-> 0, stale |-> FALSE]
\* The key decrypts the file; no file is no persisted state.
Opens(k, f) == f.key \in {0, k}
Pending(t) == {i \in DOMAIN jobs : jobs[i].type = t}
Unlocking == Pending("derive") \cup Pending("merge") # {}

\* Mutant: a state is written with the key of the file, not the device's.
PersistedOldKey(s) == IF devKey'.open THEN <<CommitJob(s, file.key)>> ELSE <<>>
\* queuePersistState: the queue is empty whenever a state is pushed, as its head is
\* shifted before the put is awaited, so each put starts at once; put is a no-op
\* without an open device key.
Persisted(s) == IF devKey'.open THEN <<CommitJob(s, devKey'.key)>> ELSE <<>>

\* Jobs that a worker has taken; the rest waits in the pool's queue.
Taken == {i \in DOMAIN jobs : i <= Workers}
\* A commit that finishes first leaves the older ones to overwrite it.
Overtaken(i) == [j \in DOMAIN jobs |->
  IF j < i /\ jobs[j].type = "commit" THEN [jobs[j] EXCEPT !.stale = TRUE] ELSE jobs[j]]
Without(s, i) == SubSeq(s, 1, i - 1) \o SubSeq(s, i + 1, Len(s))

Init ==
  /\ file = NoFile
  /\ devKey = [key |-> 1, sealed |-> FALSE, open |-> TRUE]
  /\ running = TRUE /\ locked = FALSE
  /\ redux = NewStore(1, TRUE)
  /\ act = [a \in Actions |-> [pc |-> "new", gen |-> 0]]
  /\ jobs = <<CommitJob(NewStore(1, TRUE), 1)>>
  /\ gens = 1 /\ keys = 1
  /\ owed = {} /\ dropped = "no"

-----------------------------------------------------------------------------
(* Requests of the front ends: the handler of /action. *)

\* Not locked, and the store is there: otherwise 403 and 500.
Serving == running /\ ~locked /\ HasStore
Room == Len(jobs) < MaxJobs
KeysLeft == keys + Cardinality(Pending("seal")) < MaxKey

\* An action is dispatched to the default store, and its request sent.
StartAction(a) ==
  /\ Serving /\ act[a].pc = "new"
  /\ act' = [act EXCEPT ![a] = [pc |-> "running", gen |-> redux.gen]]
  /\ UNCHANGED <<file, devKey, running, locked, redux, jobs, gens, keys, owed, dropped>>

\* The answer is applied to the store the action was dispatched to; reduxStore, which
\* may be another one by now, is persisted.  The effect is owed unless the store was
\* replaced, or will be by an unlock in progress.
FinishAction(a) ==
  LET same == redux.gen = act[a].gen
      after == IF same THEN [redux EXCEPT !.done = @ \cup {a}] ELSE redux IN
  /\ running /\ act[a].pc = "running" /\ HasStore /\ Room
  /\ act' = [act EXCEPT ![a].pc = "acked"]
  /\ redux' = after
  /\ owed' = IF same /\ redux.loaded /\ ~Unlocking THEN owed \cup {a} ELSE owed
  /\ UNCHANGED <<file, devKey, running, locked, gens, keys, dropped>>
  /\ jobs' = jobs \o Persisted(after)

\* The store is gone when the answer arrives: reading reduxStore throws, 500.
LoseAction(a) ==
  /\ running /\ act[a].pc = "running" /\ ~HasStore
  /\ act' = [act EXCEPT ![a].pc = "failed"]
  /\ UNCHANGED <<file, devKey, running, locked, redux, jobs, gens, keys, owed, dropped>>

\* The producer of CLEAR_DEVICE_PASSPHRASE deletes requiresPassphrase and nothing else.
PassphraseCleared(s) == [s EXCEPT !.pass = FALSE]

\* The new key is made while the workers seal it with the passphrase; the setting is
\* changed at once.
SetPassphrase ==
  /\ Serving /\ Room /\ KeysLeft /\ Pending("seal") = {}
  /\ redux' = [redux EXCEPT !.pass = TRUE]
  /\ jobs' = Append(jobs, SealJob)
  /\ UNCHANGED <<file, devKey, running, locked, act, gens, keys, owed, dropped>>

ClearPassphrase ==
  /\ Serving /\ Room /\ KeysLeft /\ redux.pass
  /\ redux' = PassphraseCleared(redux)
  /\ keys' = keys + 1
  /\ devKey' = [key |-> keys + 1, sealed |-> FALSE, open |-> TRUE]
  /\ UNCHANGED <<file, running, locked, act, gens, owed, dropped>>
  /\ jobs' = jobs \o Persisted(redux')

\* SET_DEVICE_LOCKOUT, which the front ends send only with a passphrase set, and
\* CLEAR_DEVICE_LOCKOUT.
SetLockout(on) ==
  /\ Serving /\ Room /\ redux.lockout # on /\ (on => redux.pass)
  /\ redux' = [redux EXCEPT !.lockout = on]
  /\ UNCHANGED <<file, devKey, running, locked, act, gens, keys, owed, dropped>>
  /\ jobs' = jobs \o Persisted(redux')

-----------------------------------------------------------------------------
(* Locking and unlocking. *)

\* Mutant: lock() forgets to set the flag.
LockDeviceUnflagged ==
  /\ redux' = NoStore
  /\ devKey' = IF devKey.sealed THEN [devKey EXCEPT !.open = FALSE] ELSE devKey
  /\ dropped' = IF Pending("seal") # {} THEN "sealing" ELSE IF devKey.sealed THEN "sealed" ELSE "unsealed"
  /\ UNCHANGED <<file, running, locked, act, jobs, gens, keys, owed>>

\* lockDevice drops the store first; lock() then drops the key, if it is sealed.
LockDevice ==
  /\ redux' = NoStore
  /\ devKey' = IF devKey.sealed THEN [devKey EXCEPT !.open = FALSE] ELSE devKey
  /\ locked' = devKey.sealed
  /\ dropped' = IF Pending("seal") # {} THEN "sealing" ELSE IF devKey.sealed THEN "sealed" ELSE "unsealed"
  /\ UNCHANGED <<file, running, act, jobs, gens, keys, owed>>

LockRequested == Serving /\ redux.pass /\ LockDevice

\* The lockout timer, the heartbeat loop or the middleware: none looks at the passphrase.
Lockout == Serving /\ redux.lockout /\ LockDevice

UnlockDevice ==
  /\ running /\ locked /\ Room
  /\ jobs' = Append(jobs, DeriveJob(devKey.key))
  /\ UNCHANGED <<file, devKey, running, locked, redux, act, gens, keys, owed, dropped>>

\* LOAD_RECOVERY_KEY on a locked device: init(true) gives up key and state.
ResetDevice ==
  /\ running /\ locked /\ Room /\ KeysLeft /\ gens < MaxGen
  /\ keys' = keys + 1 /\ gens' = gens + 1
  /\ devKey' = [key |-> keys + 1, sealed |-> FALSE, open |-> TRUE]
  /\ locked' = FALSE
  /\ redux' = NewStore(gens + 1, TRUE)
  /\ owed' = {}
  /\ UNCHANGED <<file, running, act, dropped>>
  /\ jobs' = jobs \o Persisted(redux')

-----------------------------------------------------------------------------
(* Jobs that finish. *)

FinishCommit(i) ==
  /\ jobs[i].type = "commit"
  /\ file' = [done |-> jobs[i].done, pass |-> jobs[i].pass, lockout |-> jobs[i].lockout,
              key |-> jobs[i].key, stale |-> jobs[i].stale]
  /\ jobs' = Without(Overtaken(i), i)
  /\ UNCHANGED <<devKey, running, locked, redux, act, gens, keys, owed, dropped>>

\* The rest of SET_DEVICE_PASSPHRASE: the key is replaced and the device unlocked; the
\* answer fails when the store is gone.
FinishSeal(i) ==
  /\ jobs[i].type = "seal"
  /\ keys' = keys + 1
  /\ devKey' = [key |-> keys + 1, sealed |-> TRUE, open |-> TRUE]
  /\ locked' = FALSE
  /\ UNCHANGED <<file, running, redux, act, gens, owed, dropped>>
  /\ jobs' = Without(jobs, i) \o (IF HasStore THEN Persisted(redux) ELSE <<>>)

\* unlock() and, at once, the first half of initReduxStore: a new store, the file read.
\* No put is waited for: what is only in one on its way is lost with this read, even if
\* the put ends a moment later, and so is what the file lacks after an overtaken put.
FinishDerive(i) ==
  /\ jobs[i].type = "derive" /\ gens < MaxGen
  /\ gens' = gens + 1
  /\ devKey' = [key |-> jobs[i].key, sealed |-> TRUE, open |-> TRUE]
  /\ locked' = FALSE
  /\ redux' = NewStore(gens + 1, FALSE)
  /\ jobs' = Append(Without(jobs, i), MergeJob(file, jobs[i].key))
  /\ owed' = IF file.stale \/ Pending("commit") # {} THEN owed \cap file.done ELSE owed
  /\ UNCHANGED <<file, running, act, keys, dropped>>

\* Mutant: one of the keys of STATE_PERSISTENCE_KEYS is missing.
LoadedSettings(s, f) == IF f.key = 0 THEN [s EXCEPT !.loaded = TRUE]
  ELSE [s EXCEPT !.loaded = TRUE, !.pass = f.pass, !.lockout = f.lockout]
Loaded(s, f) == IF f.key = 0 THEN [s EXCEPT !.loaded = TRUE]
  ELSE [s EXCEPT !.loaded = TRUE, !.done = f.done, !.pass = f.pass, !.lockout = f.lockout]

\* MERGE_PERSISTED into the store of the moment, then UNLOCK_DEVICE itself is dispatched
\* and the state persisted; a file in another key fails the unlock with 403.
FinishMerge(i) ==
  /\ jobs[i].type = "merge"
  /\ IF Opens(jobs[i].key, jobs[i].snap) /\ HasStore
     THEN /\ redux' = Loaded(redux, jobs[i].snap)
          /\ UNCHANGED <<file, devKey, running, locked, act, gens, keys, owed, dropped>>
          /\ jobs' = Without(jobs, i) \o Persisted(redux')
     ELSE /\ jobs' = Without(jobs, i)
          /\ UNCHANGED <<file, devKey, running, locked, redux, act, gens, keys, owed, dropped>>

-----------------------------------------------------------------------------
(* The end of the process and its start. *)

\* A crash or gracefulShutdown, whose second run of the queue finds it empty, returns,
\* and exits before any put in progress is done.  Owed are what the file has, what it
\* should have had, but not what was still on its way.
Exit ==
  LET onTheWay == UNION {jobs[i].done : i \in Pending("commit")} IN
  /\ running
  /\ running' = FALSE /\ redux' = NoStore /\ jobs' = <<>> /\ locked' = FALSE
  /\ act' = [a \in Actions |-> IF act[a].pc = "running" THEN [act[a] EXCEPT !.pc = "failed"] ELSE act[a]]
  /\ owed' = IF file.stale THEN owed \cap file.done ELSE owed \ (onTheWay \ file.done)
  /\ UNCHANGED <<file, devKey, gens, keys, dropped>>

\* init: with the key open the file is read, and start fails when it cannot be; a locked
\* device starts on an empty store.
Start ==
  /\ ~running /\ gens < MaxGen
  /\ devKey.open => Opens(devKey.key, file)
  /\ running' = TRUE /\ gens' = gens + 1
  /\ redux' = IF devKey.open THEN Loaded(NewStore(gens + 1, FALSE), file) ELSE NewStore(gens + 1, FALSE)
  /\ locked' = ~devKey.open
  /\ UNCHANGED <<file, devKey, act, jobs, keys, owed, dropped>>

Next ==
  \/ \E a \in Actions : StartAction(a) \/ FinishAction(a) \/ LoseAction(a)
  \/ SetPassphrase \/ ClearPassphrase \/ \E on \in BOOLEAN : SetLockout(on)
  \/ LockRequested \/ Lockout \/ UnlockDevice \/ ResetDevice
  \/ \E i \in Taken : FinishCommit(i) \/ FinishSeal(i) \/ FinishDerive(i) \/ FinishMerge(i)
  \/ Exit \/ Start

Spec == Init /\ [][Next]_vars

-----------------------------------------------------------------------------
StateType == [done : SUBSET Actions, pass : BOOLEAN, lockout : BOOLEAN, key : 0..MaxKey, stale : BOOLEAN]

\* Types: a locked process holds no open key, and one that is down has no store or jobs.
TypeOK ==
  /\ file \in StateType
  /\ devKey \in [key : 1..MaxKey, sealed : BOOLEAN, open : BOOLEAN] /\ (devKey.open \/ devKey.sealed)
  /\ redux \in [gen : 0..MaxGen, loaded : BOOLEAN, done : SUBSET Actions, pass : BOOLEAN, lockout : BOOLEAN]
  /\ act \in [Actions -> [pc : {"new", "running", "acked", "failed"}, gen : 0..MaxGen]]
  /\ gens \in 1..MaxGen /\ keys \in 1..MaxKey /\ owed \subseteq Actions
  /\ dropped \in {"no", "sealed", "unsealed", "sealing"}
  /\ running => locked = ~devKey.open
  /\ ~running => jobs = <<>> /\ ~HasStore

Quiet == Pending("commit") \cup Pending("seal") = {} /\ ~Unlocking

\* The effect of an acknowledged action is in memory and on disk, as far as it is owed.
\* No longer owed, because the code does lose it, is what was (1) only in a put on its
\* way when the process exited (Exit), or (2) when an unlock read the file, that is,
\* answered just before a lock that was followed by an unlock (FinishDerive);
\* (3) undone by an older put that ended last (file.stale); (4) applied to a store that
\* an unlock or a reset replaced meanwhile or had not yet loaded (FinishAction, ResetDevice).
AckedKept ==
  /\ Pending("commit") = {} /\ ~file.stale => owed \subseteq file.done
  /\ HasStore /\ redux.loaded => owed \subseteq redux.done

\* A device with a loaded store and no work in progress has a file that its key opens,
\* so that the process can start again, because every new key is followed by a put in it.
\* The exception is file.stale, a file whose last put was not the newest or came from a
\* store not yet loaded: a put in the old key that ends after the one in the new key does
\* leave a file that nothing opens, and the process does not start again.
FileReadable ==
  running /\ redux.loaded /\ Quiet /\ ~file.stale => Opens(devKey.key, file)

\* The process is unlocked without a store, so that it answers 500 to everything and can
\* be neither unlocked nor locked, only when it was locked out without a passphrase, or
\* while one was being set.
StuckOnlyUnsealed ==
  running /\ ~locked /\ ~HasStore => dropped \in {"unsealed", "sealing"}
=============================================================================

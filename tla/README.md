# EnvKey in TLA+

EnvKey stores configuration and secrets, end-to-end encrypted. An *org* is a graph of
objects (users, devices, apps, blocks, environments, groups, grants, invites, encrypted
key records) in one MySQL table; clients hold the part of the graph they may see and
change it by *actions* posted to an API server. These modules specify how the parts of
the system behave when several of them are at work at once.

All paths below are under `src/public/`.

## The system

| component | state | operations | interacts with | hard |
|---|---|---|---|---|
| API request pipeline (`app/api/shared/src/handler.ts`, `auth.ts`, `db.ts`, `graph.ts`) | the `objects` table, row locks, one connection per request | `handleAction`: authenticate, read graph, authorize, run handler, put changed rows, notify | clients by HTTP, MySQL, socket server | reads before the locks, unlocked writers, errors under locks, timestamps as versions |
| API handlers (`api_handlers/*.ts`: invites, devices, sessions, orgs, apps, envs, crypto, recovery keys ...) | none of their own | a function from graph to graph per action | pipeline | copies of rows taken at authentication |
| Encrypted keys and blobs (`blob.ts`, `core/src/lib/graph/current_encrypted_keys.ts`) | key and blob records beside the graph | required, deleted and re-encrypted keys of an access change | pipeline | two sub-actions of a bulk action on one row |
| Email queues (`memory_queue.ts`, `email.ts`) | two in-memory queues | enqueue, batches, backoff, exit | handlers, SMTP | one loop, lost wake-ups, process exit |
| Web socket server (`app/api/runtimes/express/src/socket.ts`, `socket_cluster.ts`) | `connections[org][user][device]` | register, replace, close, clear, send | pipeline, devices, cluster peers | events of old sockets, restarts, lost posts |
| Client core process: sockets (`app/client/core_process/src/org_sockets.ts`, `connection_status.ts`) | `sockets`, `retryTimeouts`, reachability | connect, retry, clear, check | socket server, dispatch | overlapping sleeping calls, timers, events |
| Client core process: dispatch (`handler.ts`, `handlers/*`, `refresh_sessions.ts`) | graph and version per account | post an action, apply diffs or graph, refresh, retry | API, sockets | reordered responses, outdated retries |
| Client core process: device lock and persistence (`server.ts`, `core/src/lib/client_store`) | store, lockout timer, file | lock, unlock, persist, shut down | everything in the process | loops that outlive the store, concurrent writes |
| Client environments and trust (`lib/envs`, `lib/trust`, `core/src/lib/client`) | pending updates, trusted keys | commit, conflict, verify, re-encrypt, revoke | dispatch | conflicts, revocation against use |
| Core library (`app/core/src/lib`) | none | permissions, user graphs, deletions, expiry | both sides | pure algorithms |
| ENVKEY fetch client (`sdks/envkey-fetch`, Go) | cache files | fetch, fail over, retry, cache | API, S3, other processes | torn and stale files |
| CLI, UI, Electron, other SDKs, infrastructure | - | presentation, wrappers, deployment | core process, fetch client | not modelled |

What makes each of them correct:

- *pipeline*: no committed change is lost or half visible, what a client is told is
  consistent with the version it is told, refusals leave no trace, every request ends;
- *invites and grants*: used once, never after revocation or expiry;
- *email queues*: one batch of a queue is sent at a time, nothing is forgotten silently;
- *sockets*: a device that is up is connected by exactly one socket the server knows;
- *graph sync*: a client that is connected ends up with the current graph;
- *device lock*: nothing decrypted is used while locked;
- *trust*: a revoked key signs nothing that is accepted afterwards.

`PROJECT.json` lists the components with what is and is not modelled of them, and under
`hazards` each place where something hard to test can go wrong.

## Modules

| module | models | checked by |
|---|---|---|
| `OrgTransactions` | the request pipeline over one org graph | `MCOrgTransactions` with three configurations |
| `SerialGraph` | abstract: a serial store of rows, one commit at a time | as `ImplementsSerialGraph` of `OrgTransactions` |
| `OrgTransactions_proofs` | theorems about what commits keep, the refinement, and which writes and versions can go wrong | TLAPS |
| `MemoryQueue` | the two email queues | `MCMemoryQueue` with two configurations |
| `MemoryQueue_proofs` | theorems about `MemoryQueue` | TLAPS |
| `OrgSockets` | device sockets: both ends and the network | `MCOrgSockets` |
| `OutdatedRetry` | a client's dispatches when its graph is outdated, and the revocations they trigger | `MCOutdatedRetry` |
| `OutdatedRetry_proofs` | theorems about `OutdatedRetry` | TLAPS |
| `GraphSync` | a client's graph and its version against the server's | `MCGraphSync` |
| `GraphSync_proofs` | theorems about `GraphSync` | TLAPS |
| `ClientProcess` | the core process: its store, its files, lock, lockout, passphrase, shutdown | `MCClientProcess` |
| `Client_proofs` | theorems about `ClientProcess` and `OrgSockets`, the parts of one client | TLAPS |
| `EnvKeys` | the blob and the keys of one environment, on the server and at its devices | `MCEnvKeys` |
| `EnvKeys_proofs` | theorems about `EnvKeys` | TLAPS |
| `EnvkeyFetch` | processes that fetch one ENVKEY and share a cache file | `MCEnvkeyFetch` |
| `EnvkeyFetch_proofs` | theorems about `EnvkeyFetch` | TLAPS |
| `RootTrust` | how the root of trust is replaced and how its holders follow | `MCRootTrust` |
| `RootTrust_proofs` | theorems about `RootTrust` | TLAPS |

Definitions named `...` after a comment that starts with `Mutant:` are plausible bugs of
the definition below them. No specification uses them: substituted for that definition
they make the property named in `PROJECT.json` fail, which shows that the property
depends on what the code does there.

### OrgTransactions

One action per step of `handleAction` that another request can observe or come before:

| code | action |
|---|---|
| `Date.now()` in `handleAction` | `Tick`, `Arrive` (the request keeps that time as its stamp) |
| `authenticate`: org and invite side by side, then the user | `ReadOrg`, `ReadInvite`, `ReadUser`, `RefuseAuth` |
| `getConnection`, `START TRANSACTION` | `Begin` |
| `getOrgGraph`, with `FOR UPDATE` for org actions only | `GetOrgGraph` |
| version check and `graphAuthorizer` in `getActionRes`, which call `apiErr` | `Refuse` |
| handler, `deleteExpiredAuthObjects`, `getGraphTransactionItems`, stamping the org row, `executeTransactionStatements` | `Commit` (with `Written`, `Removed`, `Source`, `Updated`, `Put`) |
| the same statements when somebody else has ended the transaction | `Store`, `StoreRow`, `StoreOrg` |
| any other throw, a lost connection, a crash | `FailAuth`, `Fail`, `FailStore` |
| the `catch` of `handleAction`: `apiErr`, for a refusal once more | `Unwind` |

A row is the set of requests whose writes its content reflects, so a lost write is a
missing member. `Source` says which copy a rewritten row is spread from: `auth.invite`
and `auth.user`, read before the locks, or the graph. `RbacStamp` is the field
`rbacUpdatedAt` of the org's row, kept as a row of its own because its source is another:
every action that writes puts back that of `auth.org` (`handler.ts:1006-1013`), and only an
action configured as `rbacUpdate` a new one. (No action registered at this commit is, so that
the field never changes in practice; the branch is modelled as it stands.) Requests have one of six kinds,
by the way they use the graph: any locked action (`org`), the three actions on invites,
and the two reads (`FETCH_ENVS`, which is a graph action and may sweep expired invites,
and `GET_SESSION`). Client versions (`Bases`) are any version the server has given out.
Device grants follow the invites' code line by line and are the same rows here.
READ COMMITTED isolation is what `GetOrgGraph` assumes: one query sees one committed
state, and a locking read sees the state at the moment it has the locks.

A connection is one MySQL session (`Sessions`), with at most one transaction (`txn`: by
whom it was started; `lock`: the session that has the row locks). `free` says how often a
session is on the pool's list of free connections. It can be there twice: `apiErr`, called
where a request is refused, rolls back, releases the connection and throws, and the `catch`
of `handleAction` calls it again with the same connection (`handler.ts:176-192`,
`422-452`), as it does when a `postUpdateAction` throws after the release at `386`. Two later
requests then share a session. `START TRANSACTION` of the second commits what the first has
done and frees its locks; `COMMIT` or `ROLLBACK` of either ends the transaction of both; and
what is written after that is committed statement by statement (`Store` and what follows).

Left out: rows that are created, the grants `REVOKE_INVITE` deletes along with the user,
log rows, encrypted keys, external-auth invites, the actions outside `graphAction` that
write single rows (tokens, trusted roots) and those of ENVKEYs, which take no connection of
their own. The statements of a transaction are one packet (`maxPacketSize`), so that no other
request's statement comes between them while they are in a transaction. The pool (`mysql2`)
and the row locks of InnoDB are external: a released connection goes to the list of free ones
or to whoever waits, and a locking read or a write waits for the locks of another session.

### MemoryQueue

Node is single threaded: a step is what runs between two awaits. `Enqueue` on an idle
queue starts the loop in the same step; the loop then waits for its batch (`BatchDone`)
and, in the bulk queue, pauses (`PauseOver`). `TaskFails` is the `catch` of a task with
`reenqueue`, `BackoffOver` the end of its five-second wait. `Exit` can happen at any time.

### OrgSockets

A socket is a slot with a client end, a server end and a network that is up or not. The
ends learn of each other only by events, which may be late and come in any order.
`NewSocket` is the second half of `connectSocket`, after the jitter wait during which
anything may happen (`pending` counts the calls in it). `OnConnection` includes the
`TypeError` of a registration whose user map was deleted by `clearDeviceSocket`, which
the upgrade handler answers by destroying the socket. Slots are reused when both ends
are done with them.

### OutdatedRetry

`dispatch` (`core_process/src/handler.ts`) is recursive: an API action that is refused
with "client graph outdated" dispatches a refresh, waits, and dispatches the action
again; `handleSuccess` of every client action dispatches `PROCESS_REVOCATION_REQUESTS`
when the graph has requests and none are being processed, awaits it and returns its
failure. `handleSuccess` of an API request that is dispatched itself does not
(`handler.ts:224-230`), which is how `REVOKE_DEVICE` (`devices.ts:619`), `REMOVE_FROM_ORG`
(`orgs.ts:156`) and `DELETE_CLI_USER` (`cli_users.ts:267`) create their requests: `direct` is
the set of actors whose action is one of these, any subset of them. A thread of a client (the user's action, or the refresh a socket message
triggers) is a stack of frames, one per dispatch that waits:

| code | action |
|---|---|
| a client action posts its API action; the server commits, refuses or fails | `UserAction`; `CommitAction`, `Refuse`, `Break` |
| `REVOKE_TRUSTED_PUBKEYS` commits | `CommitRevocation` |
| 400 "client graph outdated": refresh in the same context | `Outdated`, `Session` |
| `handleSuccess`: `processRevocationRequestsIfNeeded`, and what it returned | `Check`, `Result` |
| the handler of `PROCESS_REVOCATION_REQUESTS` throws (`crypto.ts:174`, `crypto.ts:268`) | `Throw` |
| after the refresh: `context.rootClientAction ?? action` again | `Retry` |
| `dispatchFailure` | `Failure` |
| the debounced timer of `RECEIVED_ORG_SOCKET_MESSAGE` | `SocketMessage` |

`rooted` is whether the context of a dispatch holds the user's action as
`rootClientAction`: everything dispatched on the way of a retried action inherits it.
Of a graph there are its revocation requests, of its version only whether it is the
server's: `OrgTransactions` is about what the version check misses. Every session the
client fetches and every user action that commits is followed by `Check`, in which a direct
request finds nothing `Needed`; the nested dispatches between (`verifyCurrentUser`) are left
out, and so is re-encryption: a direct request after which environments are to be encrypted
again dispatches that instead, a client action of its own. `Throw` is awaited at
`handler.ts:534` with nothing around it: no failure of that dispatch is dispatched, so that
`isProcessingRevocationRequests` stays set (`jammed`), and the error ends in the `catch` of
the dispatch whose success had triggered it, which fails.

### GraphSync

Clients meet only at the server, so the module has one client and, as `OtherCommits`, the
commits of all others. The graph is the set of the versions it contains.

| code | action |
|---|---|
| `dispatch` of an update with the client's `graphUpdatedAt`; outdated, refresh, retry | `UserUpdate`, `Outdated`, `Retry` |
| `authenticate` reads `auth.org`; the session's graph is read after it | `Authenticate`, `GetSession` |
| version check against `auth.org`, commit on the current graph, diffs of the commit | `Commit`, `Refuse` |
| `postUpdateActions`, `resolveSocketUpdates`, `sendOrgUpdate`, the post to cluster peers | `Announce`, `NotAnnounced` |
| reducers of `GET_SESSION` and of diffs | `ReceiveGraph`, `ReceiveDiffs` |
| `RECEIVED_ORG_SOCKET_MESSAGE` and its timer | `Deliver`, `TimerOver` |
| `refreshSessions`: process start, after suspension, host reachable again | `RefreshSession`, `ComeBack` |
| the socket closes; it is open again | `GoDown`, `Reconnect` |

A client that was suspended and one that could not reach the host do the same when they
are back, so both are `away`. `missed` records what went wrong since the client's graph
was last complete, `raced` two races in the whole history: an update committed on a graph
newer than the version that was compared (`LatestGraphForced`), and an answer that
overwrote a newer graph. Left out: patches that do not apply to the graph they meet,
messages for some users only, fetched environments.

### ClientProcess

One client process serves the CLI and the UI over HTTP; it keeps everything in one Redux
store and writes it, encrypted, to files. The store is what the process remembers of the
actions it has answered (`owed` are those it must not forget), a file is such a store and
the key that it was sealed with.

| code (`server.ts`, `redux_store.ts`, `handlers/client_device.ts`, `client_store/*`) | action |
|---|---|
| the `/action` handler, before and after the action's awaits, or a crash of it | `StartAction`, `FinishAction`, `LoseAction` |
| `SET_DEVICE_PASSPHRASE`: the setting, then the key that is derived and sealed | `SetPassphrase`, `FinishSeal` |
| `CLEAR_DEVICE_PASSPHRASE`, `SET_DEVICE_LOCKOUT` | `ClearPassphrase`, `SetLockout` |
| `LOCK_DEVICE`, the lockout timer and `lock()` | `LockRequested`, `Lockout`, `LockDevice` |
| `UNLOCK_DEVICE`: the key is derived, the file is read, `MERGE_PERSISTED` | `UnlockDevice`, `FinishDerive`, `FinishMerge` |
| `LOAD_RECOVERY_KEY` with `init(true)` | `ResetDevice` |
| `processPersistStateQueue` and the put in a worker | `FinishCommit` |
| `gracefulShutdown`, or a crash; `init` | `Exit`, `Start` |

Puts are jobs of a pool: the first `Workers` of them run and end in any order. Which
file a put writes with which key is decided when it is queued, which is what makes a late
one dangerous. Left out: the loops that outlive a lock with their own copies of the store,
and the key chain, whose accesses are one step.

### EnvKeys

One environment on the server is a blob and one encrypted key for each device that has
access; a key that is made anew goes with a blob that is encrypted again.

| code | action |
|---|---|
| `COMMIT_ENVS`, `REENCRYPT_PERMITTED_ENVS` encrypt from a captured state | `PrepareUpdate`, `PrepareReencrypt` |
| actions that grant or remove access (`GRANT_APP_ACCESS`, `REMOVE_APP_ACCESS`), with the keys for whoever gets it | `PrepareGrant`, `PrepareRevoke` |
| `dispatch` labels the request with the store's version; `authenticate` reads the org's | `Send` |
| `getActionRes` with the graph locked: version check, authorization, new blob, keys deleted and required, re-encryption queued | `Commit`, `Refuse` |
| the answer reaches the client or is lost | `Succeed`, `LoseAnswer` |
| `FETCH_ENVS`: keys and blobs by two queries, decryption, `envsFetchedAt` | `StartFetch`, `FetchKey`, `FetchBlob`, `EndFetch` |
| `GET_SESSION`, also after a socket message | `Refresh` |

The blob is the set of updates it contains. `Slips` names the three ways in which a
commit gets past the check of `graphUpdatedAt` although its client computed it from
something older: the org's version was read before the lock; the store's version had
moved on between the encryption and the request; `envsFetchedAt` was taken from a store
that had moved on while the fetch was decrypted. Each of the three violates all of
`MembersCanRead`, `NoUpdateLost` and `RemovedCannotRead`, and without them they hold.
Left out: several environments, blocks and locals, changesets (which
`handlers/envs.ts` merges), queued blobs of other environments.

### EnvkeyFetch

Processes fetch the same ENVKEY, each with an endpoint, backups in S3, retries, and one
cache file for all.

| code (`fetch/fetch.go`, `cache/cache.go`) | action |
|---|---|
| `Fetch`, `fetchEnv` | `Start` |
| `getJson` with `httpGetAsync`: 200, 404 with a `Delete` that may fail, an error, the failover, a URL that `http.NewRequest` refuses | `AskOk`, `AskMissing`, `AskError`, `AskFailover`, `AskMalformed` |
| `getJson`: an answer from the main endpoint or the pre-signed URL that is not JSON | `Garbled` |
| the pre-signed URL of a response | `LoadSigned`, `LoadSignedError` |
| `cache.Read` when every endpoint failed | `ReadCache` |
| `response.Parse` and, when it fails, `Delete` after the write | `ParseOk`, `ParseError`, `CleanUp` |
| the goroutine of `cache.Write`: create or truncate the file, write it, tell `Done` | `OpenFile`, `WriteFile`, `WriteError` |
| the process exits; the ENVKEY is removed; its backup in S3 expires | `Exit`, `Remove`, `DropBackup` |

`done` is the channel of the cache, on which a read or a delete may have left a token before
the write does. Left out: the update of the trusted root after a fetch (in
`RootTrust`), the length of the backoff, client name and other headers.

### RootTrust

Every device trusts a root key and verifies the others by chains of signatures that end
at it. When the root is revoked, the device that processes its revocation becomes the
root; every other holder of a signed trusted root (devices, pending invites, ENVKEYs)
owes an acknowledgement, and a device's actions are refused while it does.

| code | action |
|---|---|
| `GET_SESSION`; `CREATE_SESSION`, which trusts what the device once signed | `GetSession`, `SignIn` |
| `PROCESS_ROOT_PUBKEY_REPLACEMENTS`: verify each, trust it, sign, post | `Process` |
| `FETCH_ENVKEY` and the verification in `parser.go` | `Fetch` |
| `updateTrustedRoot`, without a lock: read the rows, write them whole; or an error | `AckRead`, `AckWrite`, `AckFail` |
| `REVOKE_DEVICE` and `deleteDevice` | `SendRevoke`, `CommitRevoke` |
| `PROCESS_REVOCATION_REQUESTS`, `REVOKE_TRUSTED_PUBKEYS` | `PrepareReplace`, `Send`, `CommitReplace` |
| `LOAD_INVITE`, `ACCEPT_INVITE` | `LoadInvite`, `Send`, `CommitAccept` |
| refusal, error, displaced retry | `GiveUp` |

A key is its device, and a trust chain the key it begins with and the one it ends at: what
is between was signed again whenever a signer was revoked. `Put` is what every graph
action does in the end, `clearOrphanedRootPubkeyReplacements` included. `slipped` and
`reasked` say whose row or acknowledgement was overwritten by another's stale copy. Left
out: device grants and recovery keys, which follow the invites' code; CLI users, which
follow the devices'; revocation of invites and users; envs encrypted by another device
than the root, which an ENVKEY that follows a replacement cannot verify until they are
encrypted again (`parser.go` keeps the last root only).

## Runs

| run | bounds | shows |
|---|---|---|
| `org_transactions` | 3 requests of any kind over 2 connections, 5 rows, one row per action, one millisecond | the safety properties and the refinement |
| `org_transactions_live` | 2 requests over 2 connections, an expired and a newer invite, clock 1..2, two rows per action | every request ends, unless the pool has run dry; sweeping of expired invites |
| `org_transactions_latest` | 2 requests over 2 connections, clock 1..2 | *violated*: `LatestGraphForced` |
| `memory_queue` | 4 emails, batches of 2 | one batch at a time, wake-ups, exit, progress |
| `memory_queue_retry` | 3 emails | *violated*: `CompletedOrReenqueued` |
| `org_sockets` | 2 devices of 1 user, 3 slots and 2 sleeping calls each, 1 fault | entries agree with sockets; every device ends up connected |
| `outdated_retry` | 2 clients that may revoke, one of them acts, through a client action or directly, 2 requests, 2 commits of the action, 1 fault | an action is committed once and its failure is true, with the exceptions below; no request is forgotten; every action ends |
| `graph_sync` | 2 commits after the first version, 1 fault | when a client is stale, when it does not know it, and that it catches up after an outage |
| `client_process` | 2 actions, 2 workers, 3 keys, 3 stores, 3 queued puts | what was answered survives a restart, and the file can be read, except as below; where the process gets stuck |
| `env_keys` | 3 devices, calls of 2 of them, 4 commits | who can read the blob, which updates it keeps, whom a new key keeps out |
| `envkey_fetch` | 2 processes, each with a good ENVKEY, a wrong password or a malformed URL, a failover, a retry | what a 404, a crash and a shared file do to the cache; every fetch returns |
| `root_trust` | 3 devices, one of them invited, a process of an ENVKEY, 5 commits | everyone can follow the replacements; what was revoked stays out |

Why the bounds are enough: a lost write takes a reader, a writer and the one that puts the
stale copy, and an acceptance after a revocation takes the load before them, so three
requests show each and the theorems speak of any number. Three requests are also what it
takes to share a connection and to suffer from it: one is refused, two get what it released
twice. All three arrive in the same millisecond, which is the harder case for everything but
`ReadLabelNotAhead`: that speaks of different stamps, so that TLC sees it with one commit
beside a read, and the theorem `ReadLabelCorrect` has it for any number. Four emails fill a batch, the next one and leave one to be queued during
each await. Two devices are needed because the server's maps are shared by the devices of a
user; the deepest interleavings found need three sockets of one device and one fault; with
two faults the invariants hold as well (2.8 million states, not kept as a run for its
length). In `OutdatedRetry` two requests let one appear while another is being processed,
two clients race to revoke the same one, and a second commit of the same action is the first
that is too many; commits being bounded, nobody makes a client's graph outdated for ever,
which is all that `EveryActionEnds` needs. A hole in a client's graph takes two commits (one
that is missing, one above it), and a stale client one commit and one fault or three
requests side by side, which `GraphSync` has; with two faults the invariants hold as well
(630,000 states; the liveness property would be beyond the length of a run).

In `ClientProcess` two workers let a later put overtake an earlier one, two actions let
one be answered and one be in flight when the device locks, and three keys and stores
cover a lock, an unlock and a reset. In `EnvKeys` a third device has access that the
others give and take; four commits are an update, a removal, a grant and the re-encryption
between; its states end where a commit slips through (`Unraced` in `MCEnvKeys`), as every
property excuses what follows. Of the two processes of `EnvkeyFetch` one meets a file that
the other writes or deletes, whatever ENVKEY each was given. In `RootTrust` five commits are an acceptance and
two replacements of the root, so that a holder follows a chain of two, and three devices
leave one that is neither revoked nor the revoker. One process fetches the ENVKEY; with
two the invariants hold as well for three commits (4.1 million states).

Deadlock is not checked: each model comes to rest when all requests are answered, all emails
are out, all devices are connected, nothing is left to dispatch, the last version is out or
every process has returned.

The type invariants of `OrgTransactions`, `MemoryQueue`, `GraphSync` and `EnvKeys` are
theorems, and checked in their runs. Those of `OrgSockets` (`SocketsTypeOK`; its
specification is `SocketsSpec`, as it is proved about beside `ClientProcess`),
`OutdatedRetry`, `ClientProcess` and `RootTrust` are theorems or parts of the invariants
below, hold on the same instances and document the variables.

Fairness: `Serve` of each request, because every step of a request is an `await` of a
database call that returns or throws (`Fail` is not fair, nothing has to fail), except that a
request that queries the pool beside its own connection is not served while the pool is empty
(`mysql2` waits without a timeout); the
tasks, timers and loop of the queue; in `OrgSockets` timers, the delivery
of a close over a network that is up, the server's pings, and `connectionStatusLoop`, which
runs every 20 seconds; that a client notices a network that is gone is not fair, as nothing
in its code looks for it. The faults are never fair.

In `OutdatedRetry` every step of a dispatch is fair, because a request is answered or
times out, and so are timers. In `GraphSync` outages end (`ComeBack`, `Reconnect`, which
`OrgSockets` shows): for a client that stays away nothing can be said. In `EnvkeyFetch` a call
and a cache write go on as long as their process runs: requests have timeouts.
`ClientProcess`, `EnvKeys` and `RootTrust` have safety properties only.

What the two violated properties say:

- `LatestGraphForced` (`handler.ts:630`: "force latest graph for all graph actions"): the
  version compared is that of `auth.org`, read before the locks. Two clients on the same
  version can both pass the check, and the second works on a graph it has never seen.
  `NoLostWrites` holds nevertheless, because the second works on the locked copy.
- `CompletedOrReenqueued` (`memory_queue.ts:80`, `email.ts:98`): `reenqueue` does not push
  the item, so a failed email is never retried.

Where the passing properties need an exception:

In `OrgTransactions` it is the connection that was released twice. The rows that a request
wrote outside its own transaction are `Exposed`, the request is `torn`: `NoLostWrites`,
`LostOnlyToUnlockedCopy`, `ReadLabelNotAhead` and the refinement say nothing of such rows, and
`RevokedNeverAccepted` nothing of such an acceptance. There the code does lose writes, and does
accept a revoked invite; everything else the shared sessions do (a transaction committed early
by the other's `START TRANSACTION`, locks freed too soon) is in the model and covered.

`LostOnlyToUnlockedCopy` names the writes that can be lost without any error: among them the
`rbacUpdatedAt` of a commit that came between the authentication of another action and its
own commit.

`EveryRequestEnds` has the exception `Starved`: the handlers of loaded invites and of
fetched envs, and some org actions (`invites.ts:112`, `orgs.ts:205`), query the pool while
they hold a connection. When all connections are held by such requests, each waits for another
one, and everybody else for them.

`CanFollow` excuses a replacement of the root with an empty trust chain (`Broken`), which
the code posts on a second attempt (`core_process/src/handlers/crypto.ts:225` says that "the
replacement trust chain should end at the *previous* root"): the client adds its own key to
its trusted root before it posts the replacement, and leaves it there when that fails.
`getTrustChain` then finds the own key trusted and stops at once. The server accepts the
empty chain, and no other device, invite or ENVKEY can verify it, so that the actions of
every device are refused from then on.

`CanFollow` has three more. `ACCEPT_INVITE` can be committed on a graph with a replacement
that its client did not see, and counts the invite's as processed. `updateTrustedRoot`
puts whole rows it read without a lock: the acknowledgement of a device may undo that of
another, which is asked again although its client has forgotten the replacement
(`reasked`), and may undo a deactivation or a newer trusted root of its own row (`slipped`).
`RequestedStaysOut` and `SignerExists` have the second exception; the latter also excuses a
revoker that was deleted itself while its revocation was on the way.

`StuckOnlyUnsealed`: `device_settings.tsx:85` says that clearing the passphrase clears the
lockout, but `CLEAR_DEVICE_PASSPHRASE` deletes only the passphrase. When the timer then
fires, the store is dropped but a key that is not sealed cannot be locked: the process
answers with errors until it is restarted. The same happens between the setting of a
passphrase and the sealing of its key.

`ProcessingIsTrue`: what the handler of `PROCESS_REVOCATION_REQUESTS` throws leaves
`isProcessingRevocationRequests` set while nothing processes (`Throw` above); the client
processes no request after it until it is restarted.

`NoRequestForgotten`: the client that dispatched a request directly does not look at what it
left to revoke; the others that may revoke do when the socket tells them, and then it is
forgotten only if a revocation was under way in each of them, on the way of its user's
action, and failed: the socket's refresh skipped the requests because of it. When no other
client may revoke, the request stays until its client's next success. Besides, a client whose graph became outdated while it processed a request has
the user's action dispatched again in the place of the revocation (as in
`OnceUnlessDisplaced`). When that is refused, nobody looks at the requests again: the
socket's message came while the client was processing, and
`processRevocationRequestsIfNeeded` returned at once. The request stays until the next
change of the graph. It takes a third request to be left over, so that TLC does not meet it
in `outdated_retry`; the proof stopped at it, and TLC finds it when the property is checked
without the exception with three requests and one revoker beside another client.

`AckedKept`: an answered action is lost

- when the process ends before its put, also in `gracefulShutdown`, which waits for a run of
  the queue and not for the put in flight (`Exit`);
- when the device is locked before its put has ended and unlocked again: the unlock drops
  the store and reads the file without waiting for puts (`server.ts:361-371`, `461-476`), so
  that the new store lacks the action, and so will every later put (`FinishDerive`);
- when an older put ends after a newer one (`file.stale`);
- when its store was replaced while it ran, was not yet loaded, or the device was reset
  (`FinishAction`, `ResetDevice`).

These are no longer `owed`; the property says that nothing else is lost.

`FileReadable` has the exception `file.stale`: the last put to end was not the newest one, or
came from a store not yet loaded. If that put was in a key that has been replaced since
(`SET_DEVICE_PASSPHRASE` and `CLEAR_DEVICE_PASSPHRASE` make a new key), nothing opens the
file, and the process does not start again.

`RemovedIsRefused` and `CacheServes` name two error paths of `getJson`. A 404 clears the
cache, but the error of `Delete` is ignored (`fetch.go:493`; `os.Remove` needs a directory
that can be written, reading and rewriting the file does not): a retry that meets errors
only is then served the removed config (`kept`). And an answer of status 200 that is not
JSON, as a proxy may give, fails in `json.Unmarshal` after the place where the cache is
read (`fetch.go:560`): the attempt fails although the cache is good (`garbled`, when it is
the last attempt).

`WriteSettled` excuses calls that found an older token in the cache's channel, although
`fetch.go:141` says "Wait for cache write to finish". `EveryFetchReturns` excuses a
malformed URL: its error is sent on a channel without a buffer before anyone receives
(`fetch.go:285`).

`FailureIsTrue`: `lib/trust/index.ts:406` says that processing revocation requests is
"intended to be called asynchronously by the handler after graph updates, not awaited". It
is awaited at `handler.ts:232`, and when it fails the action, which is committed, is
reported as failed.

In `EnvKeys`, `Permitted` follows `handler.ts:881`, which calls `authorizeEnvsUpdate` only for
actions with a `graphAuthorizer`; `api_handlers/envs.ts:35` says that blob updates are
"authorized at the handler level".

`OnceUnlessDisplaced`: An action that is retried, or the refresh on
its way, triggers a revocation in the context of the retry. If that revocation is
outdated in its turn, `handler.ts:755` dispatches the root of that context in its place,
which is the user's action: it is committed a second time where the server allows it.

`StaleOnlyIfMissed` names what leaves a connected client that is at rest with an old
graph, until the next message or update: an announcement that was not sent (an error after
the commit, a cluster peer that was not reached) or not received (committed while the
socket was down, since nothing is fetched when it opens; the refresh of a client that was
away may be answered before), a lost answer, or an older session answer that arrives last.
The last needs no fault: a client that fetches a session and commits an update meanwhile
may be left without its own change. `HolesNeedRaces` says when a client does not even
know: only after one of two races can its label promise a version that it does not have.

`EventuallyConnected` has two exceptions. `Overlap`: calls of `connectSocket` that overlap
in their jitter waits each open a socket and overwrite the entry; the close of the one
without an entry clears the other. With unlucky timing this goes on for ever. `HalfOpen`:
when the network of a socket goes away without a word, the server's pings find out
(`socket.ts:45-70`) and it forgets the device, but the client of `org_sockets.ts` neither
pings nor expects pings: its entry looks connected, and it hears of nothing until
`connectionStatusLoop` finds its host unreachable, or its system gives the connection up.

## Proofs

`OrgTransactions_proofs` proves for any set of requests, invites and rows, any expiry
times and any clock, from the assumptions on the constants only:

- `TypeCorrect`: `Spec => []TypeOK`;
- `NoLostWritesCorrect`: `Spec => []NoLostWrites`;
- `RevokedNeverAcceptedCorrect`: `Spec => []RevokedNeverAccepted`;
- `Refinement`: `Spec => ImplementsSerialGraph`;
- `Invariance`, on which the last three rest.

The inductive invariant `IInv` adds to these properties what they depend on. It has to be
true of requests that share a session and end each other's transactions, so it cannot speak
of a request that holds the locks. It speaks of a transaction that is still the request's own
(`txn`): as long as it is, nobody has ended it, and the session has the locks that the request
took. `TxnOK` and `LockOK` say so: the owner of a transaction is at work on that session,
the holder of the locks is a session in a transaction, and an org action that has read its
graph, in a transaction that is still its own, has the locks (`Intact`) and the committed
rows, since nobody else can put a row while it has them. So what an org action adds to a plain
row in its own transaction it adds to all that was there, which is `NoLostWrites`; and when
an acceptance commits there, its authorizer has looked at the current invite. An action whose
transaction is no longer its own becomes `torn` when it writes. `RevokedGone`: what a committed
revocation deleted stays deleted, because a put does not reset `deletedAt`. `CallOK`, `ConnOK`
and `GraphOK` relate the rows, the connection and the copy of a request to its kind and to
where it is, and `LogOK` says that committed requests are over but for their last statements,
so what they wrote does not change. The step lemmas (`TxnStep`, `LockStep`, `LogStep`,
`NoLostStep`, `RevokedStep`) have a step per action, and `NextActs` reduces the actions to
what they do to the history: enter it (`EntersFacts`) or store what is in it (`SettlesFacts`).
The refinement maps a row to its content and each request to the graph it answers with;
`StepRefines` maps `GetOrgGraph` to `Read`, a commit in its own transaction to `Write` or
`Record`, one outside of it to `Spoil`, an error to `Drop`, and the rest to stuttering. A row
that was spoilt is empty from then on in the abstract store.

`OrgTransactions_proofs` also proves `LostOnlyToUnlockedCopyCorrect` and `ReadLabelCorrect`.
The first: a commit that drops a write of a row must have put it from a copy without that
write, and a locked copy of the graph has them all, so the copy was an unlocked one (or, for
`RbacStamp`, that of `auth.org`). The
second: every version of the org is the stamp of a commit, and the log has the commits in
their order; with distinct stamps in that order, a graph read after its label contains every
commit up to the label.

`GraphSync_proofs` proves for any number of versions and faults `TypeCorrect`,
`HolesCorrect` (`Spec => []HolesNeedRaces`) and `StaleCorrect`. The invariant has to speak
of requests on their way (`Sound`, `Fits`): an update was sent for a version the client has
everything of, and it still has when the diffs arrive, because without an overtaking answer
its graph only grows; the diffs are those of the next version, because without the other
race the commit was made on the version compared; a session's graph has all its label
promises, because the label was read first. `StaleCorrect` rests on an invariant of its own,
`AllComing`: as long as nothing was missed, each version the client lacks is still to be
announced, or the client is about to fetch, or the answer of a request under way has it; at
rest none of these is left, so nothing is lacking.

`MemoryQueue_proofs` proves `TypesHold`, `OneBatchAlways`, `NoEmailStranded` and `ExitNamesThem`
for any emails and batch size. The invariant says that the queue holds each email once
and that queued, running and finished ones are apart; a batch is a prefix of the queue that
is cut off in one step, which keeps them so, and is no larger than the batch size.

`EnvKeys_proofs` proves `TypesHold`, `MembersRead`, `UpdatesKept` and `RemovedKeptOut` for any
devices and any number of concurrent calls, fetches and commits. Its core is the meaning
of a label: as long as nothing slipped, a copy of the environment that carries the present
version is the present one. So a commit that passes the check was computed from the
present blob, the present keys and the present members. The invariant has a part for each
place a copy is in: the store, a fetch between its two queries, a prepared call, a sent
one.

`EnvkeyFetch_proofs` proves `RemovedRefused`, `WriteAwaited` and `CacheBacksUp` for any
processes and any faults. The invariant is per call: it has no writer of its own while it
still tries; after a 404 the ENVKEY is gone, and the cache holds nothing good unless it was
written again since or could not be deleted; a token that no earlier step left is the
writer's; a cache that was good when the call began is good until the call meets a 404 or
another process disturbs it, so that it fails before then only by an answer that is not JSON.

`RootTrust_proofs` proves `RequestedStaysOut`, `SignerExists` and `OwesWhatItKnows` for any
devices, revocations, replacements and acknowledgements. The invariant adds to them what a
copy read by an acknowledgement says (its holder was active then, so a copy of a row whose
revocation was requested since differs from the row, and writing it is recorded in
`slipped`), that no device asks for its own revocation, and that no client is on a version
that is not committed: so whoever is on the present version has committed or read it, and
`OwesWhatItKnows` holds of devices that are not active too.

`CanFollowAlways` (`Spec => []CanFollow`) takes more (`FInv`). The roots of the past are all
different and each replacement's chain ends at the one before it (`Chain`, `Offers`). What a
holder owes is always a run of replacements that begins right after a root it trusts and
ends at the present one (`Following`), so that it can verify them one after the other. The
hard part is what clients hold of it: the pending replacements in a store, and the ids that
an acknowledgement read before its write, are runs that may begin earlier and end earlier
than what the holder owes by now (`StoreTracks`, `AckTracks`), and the other holders' rows
in the same write owe no less than they did (`OwedKept`).

`OutdatedRetry_proofs` proves `ProcessingIsTrue`, `OnceUnlessDisplaced`, `FailureIsTrue`,
`NoRequestForgotten` and the types for any clients, requests, commits and faults, and for
dispatches nested to any depth (the type invariant sets no bound on a stack). Its first
section says what the actions do to a stack: move its top, push, pop, replace the top. Five
invariants stand on each other. `Shape`: each frame waits in a phase that fits the frame
above it. `OneActive`: over both threads of a client one frame at most processes requests,
the flag says whether there is one, and no frame above it has a revocation settled. `Told`:
until a rooted revocation was displaced, the action is at the bottom of its thread only and
never at work again once it was committed; until any mishap, no frame has failed. `Views`: a
current graph has the server's requests, and without faults an old one has a message or a
refresh on its way. `Kept`: without faults some client that may revoke is a keeper: it has
asked for nothing that is gone, and while a request is pending it is notified, processing or
about to check. A committed revocation makes its own client the keeper, because that client
checks again afterwards. When the keeper itself commits a direct request it need not be one
any more: then all others are told, and each of them works or has failed a revocation of its
user's (`Watch`), for one of the socket's fails only if the client is told of another graph
meanwhile (`SocketSound`).

`Client_proofs` proves `AckedKept`, `FileReadable` and `StuckOnlyUnsealed` of
`ClientProcess` for any actions and any numbers of workers, keys, stores and jobs. The
properties speak of moments without writes; the invariant speaks of the writes in progress
(`Writes`): each that is not stale has every effect that is due, or a later write has it,
and the same holds of the file; a file that an unlock has read has what is due; the newest
write is in the device's key (`Keyed`). A write that finishes makes the older ones stale,
which is what keeps this true whatever order the workers finish in. The second conjunct of
`AckedKept` was strengthened on the way: a loaded store has what is due also during an
unlock. `JobsOK` keeps a key for the one passphrase that may be being set, `StoresOK` says
that a locked device has no loaded store.

Of `OrgSockets`, `Client_proofs` proves `EventsClearTheirOwn`, `EntryIsLive`, `RetryPending`
and the types. The invariant is one per device: the server's map names exactly the
registered socket; the client's entry is open and has no retry timer beside it; and a timer
that fired has a call that waits, so that clearing the timer of another call loses no retry.
A step of one device leaves the others' entries alone (`OneDevice`).

The assumptions are those on the constants in the modules: bounds are positive where the
initial state already uses one (`MaxPending`, `MaxKey`, `MaxGen`, the first version), there
is a worker, names do not collide, and actors are clients. None says more than the code's
start does.

Only model-checked, because they are out of the prover's reach: the liveness properties
`EveryRequestEnds` and its like, which need fairness. Every safety property of a passing run
is also a theorem.

## Plan

Done: `OrgTransactions`, `SerialGraph`, `MemoryQueue`, `OrgSockets`, `OutdatedRetry`,
`GraphSync`, `ClientProcess`, `EnvKeys`, `EnvkeyFetch`, `RootTrust`, and the proofs above.
Left, in this order:

1. bulk actions on one row (`handler.ts:257`, `blob.ts:1520`) and the key sets of an access change
   (`current_encrypted_keys.ts`, `key_set.ts`) as operators against a reference definition;
2. pending updates and conflicts (`handlers/envs.ts`, `conflicts.ts`);
3. the handlers that look up a grant by the graph's version (`devices.ts:117`), on top of
   `GraphSync`; the loops that outlive a lock, in `ClientProcess`;
4. device grants, recovery keys and tokens against revocation.

## Not modelled

The cryptography (a signature or ciphertext is what it should be), SQL text, HTTP,
migrations, deployment, CLI, UI and the SDK wrappers: I/O and presentation without a
protocol of their own. Log queries (`models/logs.ts`) build SQL from filters.

Most of the repository's lines are of that kind: the modules cover the protocols, which are
a few thousand of about a hundred thousand lines, the rest being React components and
their styles, type declarations, command parsing, log and access queries, role tables and
deployment. Permissions (`core/src/lib/graph/authz`) are pure functions of a graph with
dozens of object types: the modules take their answer as a choice or as the one condition
that matters, and do not restate them.

Two places that no module decides, noted while reading: `current_encrypted_keys.ts:241`
does not count `app_read_own_locals` where `encrypted_keys.ts:240`, `invites.ts:211` and
`auth.ts:991` do; and the parts of a composite id at `key_set.ts:526` are in another order
than at `key_set.ts:680`.

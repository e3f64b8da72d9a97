------------------------------ MODULE EnvKeys ------------------------------
(***************************************************************************)
(* The keys of one environment: its encrypted blob, the encrypted key each *)
(* device has, and what becomes of both while devices update it, are given *)
(* access and lose it.  Code: app/api/shared/src/handler.ts (getActionRes),*)
(* auth.ts, blob.ts, graph.ts and api_handlers/envs.ts, crypto.ts on the   *)
(* server; app/client/core_process/src/handler.ts, handlers/envs.ts and    *)
(* crypto.ts, lib/envs/* on the client; app/core/src/lib/client/envs.ts.   *)
(*                                                                         *)
(* The server never sees a key: that what a client posts fits what is      *)
(* stored is up to the client's copy and the check of graphUpdatedAt.  A   *)
(* version stands for the time of a commit, and names the key that was     *)
(* made and the update that was written in it; the content of a blob is    *)
(* the set of updates in it.                                               *)
(***************************************************************************)
EXTENDS Naturals, FiniteSets

CONSTANTS
  Devices,  \* devices of the organisation
  Members,  \* those that have access to the environment at first
  Calls,    \* client actions in progress: several per device
  Client,   \* the device of each
  MaxAt     \* bound: versions of the graph

ASSUME MembersAssumption == Members \subseteq Devices
ASSUME ClientAssumption == Client \in [Calls -> Devices]
ASSUME MaxAtAssumption == MaxAt \in Nat \ {0}

VARIABLES
  graph,    \* the org graph: version, access, envsOrLocalsUpdatedAt, reencryptionRequiredAt
  blob,     \* the encrypted blob: content, and the key it is encrypted with
  row,      \* the encrypted key of each device, 0 for none
  copy,     \* each client's store: graph, envs and envsFetchedAt
  call,     \* the actions
  given,    \* history: keys each device was ever given
  written,  \* history: updates committed
  raced     \* history: a commit slipped through the check of graphUpdatedAt

vars == <<graph, blob, row, copy, call, given, written, raced>>

NoEnv == [content |-> {}, key |-> 0, of |-> 0]
FirstEnv == [content |-> {}, key |-> 1, of |-> 1]
FirstGraph == [at |-> 1, access |-> Members, envAt |-> 1, queuedAt |-> 0]
Idle == [pc |-> "idle", kind |-> "none", target |-> {}, env |-> NoEnv, key |-> 0, to |-> {},
         from |-> 0, label |-> 0, orgAt |-> 0, fetchedAt |-> 0, graph |-> FirstGraph, todo |-> {}]

Init ==
  /\ graph = FirstGraph
  /\ blob = [content |-> {}, key |-> 1]
  /\ row = [d \in Devices |-> IF d \in Members THEN 1 ELSE 0]
  /\ copy = [d \in Devices |-> [graph |-> FirstGraph, fetchedAt |-> IF d \in Members THEN 1 ELSE 0,
                                env |-> IF d \in Members THEN FirstEnv ELSE NoEnv]]
  /\ call = [c \in Calls |-> Idle]
  /\ given = [d \in Devices |-> IF d \in Members THEN {1} ELSE {}]
  /\ written = {} /\ raced = FALSE

Newer(g, h) == IF h.at > g.at THEN h ELSE g
Mine(c) == copy[Client[c]]

\* Mutant: what was fetched once is never fetched again.
NeedsFirstFetch(s) == s.fetchedAt = 0
\* envsNeedFetch: by the graph of the store, whatever the copy is really of.
NeedsFetch(s) == s.graph.envAt > s.fetchedAt

-----------------------------------------------------------------------------
(* The client: the action is computed from the store of the moment. *)

\* ensureEnvsFetched holds, and the client has access as far as it knows.  What it
\* computes is wrong when envsFetchedAt is ahead of the copy: fetchedAt keeps what it was.
Ready(c) ==
  /\ call[c].pc = "idle"
  /\ Client[c] \in Mine(c).graph.access
  /\ ~NeedsFetch(Mine(c))
Prepared(c, kind) ==
  [Idle EXCEPT !.pc = "prepared", !.kind = kind, !.env = Mine(c).env, !.key = Mine(c).env.key,
               !.from = Mine(c).graph.at, !.fetchedAt = Mine(c).fetchedAt]

\* COMMIT_ENVS: the blob is encrypted with the key of the copy, and no key is posted.
PrepareUpdate(c) ==
  /\ Ready(c) /\ Mine(c).env.key # 0
  /\ call' = [call EXCEPT ![c] = Prepared(c, "update")]
  /\ UNCHANGED <<graph, blob, row, copy, given, written, raced>>

\* REENCRYPT_PERMITTED_ENVS: a new key, posted for every device the client's graph
\* permits; one at a time per client.
PrepareReencrypt(c) ==
  /\ Ready(c) /\ Mine(c).env.key # 0 /\ Mine(c).graph.queuedAt # 0
  /\ \A o \in Calls : Client[o] = Client[c] => call[o].kind # "reencrypt"
  /\ call' = [call EXCEPT ![c] = [Prepared(c, "reencrypt") EXCEPT !.to = Mine(c).graph.access]]
  /\ UNCHANGED <<graph, blob, row, copy, given, written, raced>>

\* GRANT_APP_ACCESS: the key of the copy is posted for the new device, if there is one.
PrepareGrant(c, d) ==
  /\ Ready(c) /\ d \notin Mine(c).graph.access
  /\ call' = [call EXCEPT ![c] = [Prepared(c, "grant") EXCEPT !.target = {d}]]
  /\ UNCHANGED <<graph, blob, row, copy, given, written, raced>>

\* REMOVE_APP_ACCESS posts no key.
PrepareRevoke(c, d) ==
  /\ call[c].pc = "idle"
  /\ {d, Client[c]} \subseteq Mine(c).graph.access /\ d # Client[c]
  /\ call' = [call EXCEPT ![c] = [Prepared(c, "revoke") EXCEPT !.target = {d}, !.fetchedAt = 0]]
  /\ UNCHANGED <<graph, blob, row, copy, given, written, raced>>

\* The request is labelled and sent, and the server authenticates it, which reads the
\* org's version.  Blobs take their label from the store after they were encrypted;
\* a graphProposer's keys are made after the label is taken.
Send(c) ==
  LET r == call[c] IN
  /\ r.pc = "prepared"
  /\ call' = [call EXCEPT ![c].pc = "sent", ![c].orgAt = graph.at,
       ![c].label = IF r.kind \in {"update", "reencrypt"} THEN Mine(c).graph.at ELSE r.from]
  /\ UNCHANGED <<graph, blob, row, copy, given, written, raced>>

-----------------------------------------------------------------------------
(* The server: getActionRes, with the graph locked. *)

\* Mutant: skipGraphUpdatedAtCheck.
AnyLabel(r) == TRUE
\* The check of graphUpdatedAt: against the org that authentication read, without a lock.
UpToDate(r) == r.label = r.orgAt

\* The authorizers, authorizeEnvsUpdate and requireEncryptedKeys; UPDATE_ENVS and
\* REENCRYPT_ENVS have no graphAuthorizer, without which authorizeEnvsUpdate is skipped.
Permitted(c, r) == r.kind \in {"grant", "revoke"} =>
  /\ Client[c] \in graph.access
  /\ r.kind = "grant" <=> r.target \cap graph.access = {}
  /\ r.kind = "grant" => r.key # 0

\* Mutant: a re-encryption does not set envsOrLocalsUpdatedAt.
RegraphedUnstamped(r, n) ==
  CASE r.kind = "update"    -> [graph EXCEPT !.at = n, !.envAt = n]
    [] r.kind = "reencrypt" -> [graph EXCEPT !.at = n, !.queuedAt = 0]
    [] r.kind = "grant"     -> [graph EXCEPT !.at = n, !.access = @ \cup r.target]
    [] r.kind = "revoke"    -> [graph EXCEPT !.at = n, !.access = @ \ r.target, !.queuedAt = n]
\* Mutant: the keys deleted on a removal do not queue the environment.
RegraphedUnqueued(r, n) ==
  CASE r.kind = "update"    -> [graph EXCEPT !.at = n, !.envAt = n]
    [] r.kind = "reencrypt" -> [graph EXCEPT !.at = n, !.envAt = n, !.queuedAt = 0]
    [] r.kind = "grant"     -> [graph EXCEPT !.at = n, !.access = @ \cup r.target]
    [] r.kind = "revoke"    -> [graph EXCEPT !.at = n, !.access = @ \ r.target]
\* setEnvsUpdatedFields, the end of the queue mark, the grant, and the queue mark that
\* the deletion of keys sets.
Regraphed(r, n) ==
  CASE r.kind = "update"    -> [graph EXCEPT !.at = n, !.envAt = n]
    [] r.kind = "reencrypt" -> [graph EXCEPT !.at = n, !.envAt = n, !.queuedAt = 0]
    [] r.kind = "grant"     -> [graph EXCEPT !.at = n, !.access = @ \cup r.target]
    [] r.kind = "revoke"    -> [graph EXCEPT !.at = n, !.access = @ \ r.target, !.queuedAt = n]

\* The blob posted, with the updates in it.
Posted(r, n) ==
  CASE r.kind = "update"    -> [content |-> r.env.content \cup {n}, key |-> r.key]
    [] r.kind = "reencrypt" -> [content |-> r.env.content, key |-> n]
    [] OTHER                -> blob
\* The keys posted, and those deleted.
Rows(r, n) ==
  CASE r.kind = "update"    -> row
    [] r.kind = "reencrypt" -> [d \in Devices |-> IF d \in r.to THEN n ELSE row[d]]
    [] r.kind = "grant"     -> [d \in Devices |-> IF d \in r.target THEN r.key ELSE row[d]]
    [] r.kind = "revoke"    -> [d \in Devices |-> IF d \in r.target THEN 0 ELSE row[d]]

\* What the check of graphUpdatedAt cannot see: a commit since the org was read, a label
\* newer than the graph that the request was computed from, and a copy older than its
\* envsFetchedAt.
Slips(r) == r.orgAt # graph.at \/ r.label # r.from \/ r.fetchedAt > r.env.of

Commit(c) ==
  LET r == call[c]
      n == graph.at + 1 IN
  /\ r.pc = "sent" /\ n <= MaxAt
  /\ UpToDate(r) /\ Permitted(c, r)
  /\ graph' = Regraphed(r, n)
  /\ blob' = Posted(r, n)
  /\ row' = Rows(r, n)
  /\ given' = [d \in Devices |-> given[d] \cup ({row'[d]} \ {0})]
  /\ written' = IF r.kind = "update" THEN written \cup {n} ELSE written
  /\ raced' = (raced \/ Slips(r))
  /\ call' = [call EXCEPT ![c] = [Idle EXCEPT !.pc = "committed", !.kind = r.kind, !.graph = graph',
                          !.env = [content |-> blob'.content, key |-> blob'.key, of |-> graph'.envAt]]]
  /\ UNCHANGED copy

\* An error of the server, or a request that is lost.
Refuse(c) ==
  /\ call[c].pc = "sent"
  /\ call' = [call EXCEPT ![c] = Idle]
  /\ UNCHANGED <<graph, blob, row, copy, given, written, raced>>

-----------------------------------------------------------------------------
(* The client again: answers, fetches, refreshes. *)

\* The graph of the answer is applied and, after what else the success leads to, the
\* success of the client action: envsFetchedAt comes from the store's graph by then.
Succeed(c) ==
  LET r == call[c]
      g == Newer(Mine(c).graph, r.graph) IN
  /\ r.pc = "committed"
  /\ copy' = [copy EXCEPT ![Client[c]] =
       IF r.kind \in {"update", "reencrypt"} THEN [graph |-> g, env |-> r.env, fetchedAt |-> g.envAt]
                                             ELSE [@ EXCEPT !.graph = g]]
  /\ call' = [call EXCEPT ![c] = Idle]
  /\ UNCHANGED <<graph, blob, row, given, written, raced>>

\* The answer is lost, and the client action fails.
LoseAnswer(c) ==
  /\ call[c].pc = "committed"
  /\ call' = [call EXCEPT ![c] = Idle]
  /\ UNCHANGED <<graph, blob, row, copy, given, written, raced>>

\* FETCH_ENVS reads the graph without a lock; then the keys and the blobs, in any order.
StartFetch(c) ==
  /\ call[c].pc = "idle" /\ NeedsFetch(Mine(c)) /\ Client[c] \in graph.access
  /\ call' = [call EXCEPT ![c] = [Idle EXCEPT !.pc = "fetching", !.graph = graph, !.todo = {"key", "blob"}]]
  /\ UNCHANGED <<graph, blob, row, copy, given, written, raced>>

FetchKey(c) ==
  /\ "key" \in call[c].todo
  /\ call' = [call EXCEPT ![c].todo = @ \ {"key"}, ![c].key = row[Client[c]]]
  /\ UNCHANGED <<graph, blob, row, copy, given, written, raced>>

FetchBlob(c) ==
  /\ "blob" \in call[c].todo
  /\ call' = [call EXCEPT ![c].todo = @ \ {"blob"},
                          ![c].env = [content |-> blob.content, key |-> blob.key, of |-> graph.envAt]]
  /\ UNCHANGED <<graph, blob, row, copy, given, written, raced>>

\* The graph of the answer is applied, then the envs when they are decrypted: without a
\* key the answer has no blob and the envs are cleared; a key of another blob throws.
EndFetch(c) ==
  LET r == call[c]
      g == Newer(Mine(c).graph, r.graph) IN
  /\ r.pc = "fetching" /\ r.todo = {}
  /\ copy' = [copy EXCEPT ![Client[c]] =
       IF r.key = 0 THEN [@ EXCEPT !.graph = g, !.env = NoEnv]
       ELSE IF r.key = r.env.key THEN [graph |-> g, env |-> r.env, fetchedAt |-> g.envAt]
       ELSE [@ EXCEPT !.graph = g]]
  /\ call' = [call EXCEPT ![c] = Idle]
  /\ UNCHANGED <<graph, blob, row, given, written, raced>>

\* GET_SESSION, or a message on the socket.
Refresh(d) ==
  /\ copy[d].graph # graph
  /\ copy' = [copy EXCEPT ![d].graph = graph]
  /\ UNCHANGED <<graph, blob, row, call, given, written, raced>>

Next ==
  \/ \E c \in Calls :
       \/ PrepareUpdate(c) \/ PrepareReencrypt(c)
       \/ \E d \in Devices : PrepareGrant(c, d) \/ PrepareRevoke(c, d)
       \/ Send(c) \/ Commit(c) \/ Refuse(c) \/ Succeed(c) \/ LoseAnswer(c)
       \/ StartFetch(c) \/ FetchKey(c) \/ FetchBlob(c) \/ EndFetch(c)
  \/ \E c \in Calls : Refresh(Client[c])

Spec == Init /\ [][Next]_vars

-----------------------------------------------------------------------------
Versions == 0..MaxAt
GraphType == [at : Versions, access : SUBSET Devices, envAt : Versions, queuedAt : Versions]
EnvType == [content : SUBSET Versions, key : Versions, of : Versions]

\* Types, and no device is ever given a key that was not yet made.
TypeOK ==
  /\ graph \in GraphType /\ graph.envAt <= graph.at
  /\ blob \in [content : SUBSET Versions, key : Versions \ {0}] /\ blob.key <= graph.envAt
  /\ row \in [Devices -> 0..graph.envAt]
  /\ copy \in [Devices -> [graph : GraphType, env : EnvType, fetchedAt : Versions]]
  /\ \A c \in Calls : call[c].pc \in {"idle", "prepared", "sent", "committed", "fetching"}
  /\ \A d \in Devices : row[d] \in given[d] \cup {0} /\ given[d] \subseteq 1..graph.envAt

\* Unless a commit slipped through the check, every device with access has the key of
\* the blob: an update is in the key everyone has, a new key goes to everyone, and a
\* grant passes on the key of the present blob.
MembersCanRead == raced \/ \A d \in graph.access : row[d] = blob.key

\* Unless a commit slipped through the check, no committed update is overwritten: not
\* by an update or a re-encryption that was computed from an older copy.
NoUpdateLost == raced \/ written \subseteq blob.content

\* Unless a commit slipped through the check, a device that lost access was never given
\* the key of the present blob, or the environment is queued for re-encryption.
RemovedCannotRead ==
  raced \/ graph.queuedAt # 0 \/ \A d \in Devices \ graph.access : row[d] = 0 /\ blob.key \notin given[d]
=============================================================================

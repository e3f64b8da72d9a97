--------------------------- MODULE EnvKeys_proofs ---------------------------
(***************************************************************************)
(* The invariants of EnvKeys hold for every organisation, any number of    *)
(* concurrent actions and any length of history.                           *)
(*                                                                         *)
(* The inductive invariant says what the check of graphUpdatedAt relies    *)
(* on: a copy of the graph or of the blob that carries the present version *)
(* is the present one, and so is what was computed from it, as long as     *)
(* envsFetchedAt was not ahead of the copy.                                *)
(***************************************************************************)
EXTENDS EnvKeys, TLAPS

CallType ==
  [pc : {"idle", "prepared", "sent", "committed", "fetching"},
   kind : {"none", "update", "reencrypt", "grant", "revoke"},
   target : SUBSET Devices, env : EnvType, key : Versions, to : SUBSET Devices,
   from : Versions, label : Versions, orgAt : Versions, fetchedAt : Versions,
   graph : GraphType, todo : SUBSET {"key", "blob"}]
StoreType == [graph : GraphType, env : EnvType, fetchedAt : Versions]

\* A copy of the graph, and a copy of the blob as of some version of the envs.
GraphCopy(g) == g \in GraphType /\ g.at <= graph.at /\ g.envAt <= graph.envAt /\ (g.at = graph.at => g = graph)
EnvCopy(e) ==
  /\ e \in EnvType /\ e.of <= graph.envAt /\ e.key <= graph.envAt
  /\ e.of = graph.envAt => e.content = blob.content /\ e.key = blob.key

\* What was computed from the present graph, and not from a copy older than it says.
Computed(r) ==
  /\ r.kind # "none" /\ r.from <= graph.at /\ r.key <= graph.envAt
  /\ r.kind = "update" => r.key # 0
  /\ r.from = graph.at /\ r.fetchedAt <= r.env.of /\ r.kind # "revoke" =>
       r.env.of = graph.envAt /\ r.key = r.env.key
  /\ r.from = graph.at /\ r.kind = "reencrypt" => r.to = graph.access

StoreOK(s) == s \in StoreType /\ GraphCopy(s.graph) /\ EnvCopy(s.env)
CallOK(r) ==
  /\ r \in CallType /\ GraphCopy(r.graph) /\ EnvCopy(r.env)
  /\ r.pc \in {"prepared", "sent"} => Computed(r)
  /\ r.todo # {} => r.pc = "fetching"

ServerOK ==
  /\ graph \in GraphType /\ 1 <= graph.envAt /\ graph.envAt <= graph.at
  /\ graph.at = 1 => graph = FirstGraph
  /\ blob \in [content : SUBSET Versions, key : Versions] /\ 1 <= blob.key /\ blob.key <= graph.envAt
  /\ row \in [Devices -> 0..graph.envAt]
  /\ given \in [Devices -> SUBSET (1..graph.envAt)]
  /\ \A d \in Devices : row[d] \in given[d] \cup {0}
  /\ written \in SUBSET Versions

Safe ==
  \/ raced
  \/ /\ \A d \in graph.access : row[d] = blob.key
     /\ \A d \in Devices \ graph.access : row[d] = 0
     /\ graph.queuedAt # 0 \/ \A d \in Devices \ graph.access : blob.key \notin given[d]
     /\ written \subseteq blob.content

Copies ==
  /\ copy \in [Devices -> StoreType] /\ \A d \in Devices : StoreOK(copy[d])
  /\ call \in [Calls -> CallType] /\ \A c \in Calls : CallOK(call[c])

IInv == ServerOK /\ Copies /\ Safe

USE DEF Versions

-----------------------------------------------------------------------------
LEMMA IdleOK == ASSUME ServerOK PROVE CallOK(Idle)
<1>1. 1 \in 0..MaxAt /\ 0 \in 0..MaxAt
  BY MaxAtAssumption
<1>2. FirstGraph \in GraphType /\ NoEnv \in EnvType
  BY <1>1, MembersAssumption DEF FirstGraph, NoEnv, GraphType, EnvType
<1>3. Idle \in CallType
  BY <1>1, <1>2 DEF Idle, CallType
<1>4. GraphCopy(FirstGraph)
  BY <1>2, MaxAtAssumption DEF GraphCopy, FirstGraph, ServerOK, GraphType
<1>5. EnvCopy(NoEnv)
  BY <1>2, MaxAtAssumption DEF EnvCopy, NoEnv, ServerOK, GraphType
<1> QED
  BY <1>3, <1>4, <1>5 DEF CallOK, Idle

LEMMA InitIInv == Init => IInv
<1> SUFFICES ASSUME Init PROVE IInv
  OBVIOUS
<1>1. 1 \in 0..MaxAt /\ 0 \in 0..MaxAt
  BY MaxAtAssumption
<1>2. FirstGraph \in GraphType /\ NoEnv \in EnvType /\ FirstEnv \in EnvType
  BY <1>1, MembersAssumption DEF FirstGraph, NoEnv, FirstEnv, GraphType, EnvType
<1>3. ServerOK
  BY <1>1, <1>2, MembersAssumption DEF Init, ServerOK, FirstGraph
<1>4. Safe
  BY MembersAssumption DEF Init, Safe, FirstGraph
<1>5. copy \in [Devices -> StoreType]
  BY <1>1, <1>2 DEF Init, StoreType
<1>6. ASSUME NEW d \in Devices PROVE StoreOK(copy[d])
  <2>1. copy[d].graph = graph /\ copy[d].env \in {NoEnv, FirstEnv}
    BY DEF Init
  <2>2. EnvCopy(NoEnv) /\ EnvCopy(FirstEnv)
    BY <1>2 DEF Init, EnvCopy, NoEnv, FirstEnv, FirstGraph
  <2>3. GraphCopy(graph)
    BY <1>3, MaxAtAssumption DEF GraphCopy, ServerOK, GraphType
  <2> QED
    BY <1>5, <2>1, <2>2, <2>3 DEF StoreOK
<1>7. call \in [Calls -> CallType] /\ \A c \in Calls : CallOK(call[c])
  BY <1>3, IdleOK DEF Init, CallOK
<1> QED
  BY <1>3, <1>4, <1>5, <1>6, <1>7 DEF IInv, Copies

-----------------------------------------------------------------------------
(* Steps that leave the server alone. *)

\* The server's variables, and what they say of copies, stay as they are.
LEMMA ServerKept ==
  ASSUME ServerOK, Safe, UNCHANGED <<graph, blob, row, given, written, raced>>
  PROVE  /\ ServerOK' /\ Safe'
         /\ \A r : CallOK(r) => CallOK(r)'
         /\ \A s : StoreOK(s) => StoreOK(s)'
<1>1. ServerOK'
  BY DEF ServerOK
<1>2. Safe'
  BY DEF Safe
<1>3. \A r : CallOK(r) => CallOK(r)'
  BY DEF CallOK, GraphCopy, EnvCopy, Computed
<1>4. \A s : StoreOK(s) => StoreOK(s)'
  BY DEF StoreOK, GraphCopy, EnvCopy
<1> QED
  BY <1>1, <1>2, <1>3, <1>4

LEMMA CallStep ==
  ASSUME IInv, NEW c \in Calls, NEW r, CallOK(r), call' = [call EXCEPT ![c] = r],
         UNCHANGED <<graph, blob, row, copy, given, written, raced>>
  PROVE  IInv'
<1>1. ServerOK' /\ Safe' /\ (\A q : CallOK(q) => CallOK(q)') /\ (\A s : StoreOK(s) => StoreOK(s)')
  BY ServerKept DEF IInv
<1>2. r \in CallType
  BY DEF CallOK
<1>3. call' \in [Calls -> CallType]
  BY <1>2 DEF IInv, Copies
<1>4. ASSUME NEW o \in Calls PROVE CallOK(call[o])' 
  <2>1. call'[o] = IF o = c THEN r ELSE call[o]
    BY DEF IInv, Copies
  <2>2. CallOK(call'[o])
    BY <2>1 DEF IInv, Copies
  <2> QED
    BY <2>2, <1>1 DEF CallOK, GraphCopy, EnvCopy, Computed
<1>5. copy' \in [Devices -> StoreType] /\ \A d \in Devices : StoreOK(copy[d])'
  BY <1>1 DEF IInv, Copies, StoreOK, GraphCopy, EnvCopy
<1> QED
  BY <1>1, <1>3, <1>4, <1>5 DEF IInv, Copies

LEMMA StoreStep ==
  ASSUME IInv, NEW d \in Devices, NEW s, StoreOK(s), copy' = [copy EXCEPT ![d] = s],
         \/ call' = call
         \/ \E c \in Calls : call' = [call EXCEPT ![c] = Idle],
         UNCHANGED <<graph, blob, row, given, written, raced>>
  PROVE  IInv'
<1>1. ServerOK' /\ Safe' /\ (\A q : CallOK(q) => CallOK(q)') /\ (\A t : StoreOK(t) => StoreOK(t)')
  BY ServerKept DEF IInv
<1>2. s \in StoreType
  BY DEF StoreOK
<1>3. copy' \in [Devices -> StoreType]
  BY <1>2 DEF IInv, Copies
<1>4. ASSUME NEW e \in Devices PROVE StoreOK(copy[e])'
  <2>1. copy'[e] = IF e = d THEN s ELSE copy[e]
    BY DEF IInv, Copies
  <2>2. StoreOK(copy'[e])
    BY <2>1 DEF IInv, Copies
  <2> QED
    BY <2>2 DEF StoreOK, GraphCopy, EnvCopy
<1>5. Idle \in CallType /\ CallOK(Idle)
  BY IdleOK DEF IInv, CallOK
<1>6. call' \in [Calls -> CallType] /\ \A o \in Calls : call'[o] \in {call[o], Idle}
  BY <1>5 DEF IInv, Copies
<1>7. ASSUME NEW o \in Calls PROVE CallOK(call[o])'
  <2>1. CallOK(call'[o])
    BY <1>5, <1>6 DEF IInv, Copies
  <2> QED
    BY <2>1 DEF CallOK, GraphCopy, EnvCopy, Computed
<1> QED
  BY <1>1, <1>3, <1>4, <1>6, <1>7 DEF IInv, Copies

-----------------------------------------------------------------------------
(* The client computes and sends. *)

\* What a client that is ready computes from the present graph is computed from the
\* present blob, if its copy is as new as envsFetchedAt says.
LEMMA ReadyOK ==
  ASSUME IInv, NEW c \in Calls, Ready(c)
  PROVE  LET s == Mine(c) IN
         /\ s \in StoreType /\ GraphCopy(s.graph) /\ EnvCopy(s.env)
         /\ s.graph.at = graph.at => s.graph = graph
         /\ s.graph.at = graph.at /\ s.fetchedAt <= s.env.of => s.env.of = graph.envAt
<1> DEFINE s == Mine(c)
<1>1. StoreOK(s)
  BY ClientAssumption DEF IInv, Copies, Mine
<1>2. s \in StoreType /\ GraphCopy(s.graph) /\ EnvCopy(s.env)
  BY <1>1 DEF StoreOK
<1>3. s.graph.envAt \in Nat /\ s.fetchedAt \in Nat /\ s.env.of \in Nat /\ graph.envAt \in Nat
  BY <1>2, MaxAtAssumption DEF StoreType, GraphType, EnvType, GraphCopy, EnvCopy, IInv, ServerOK
<1>4. s.graph.envAt <= s.fetchedAt
  BY <1>3 DEF Ready, NeedsFetch
<1> QED
  BY <1>2, <1>3, <1>4 DEF GraphCopy, EnvCopy

\* A record with the fields that a prepared action has is one that CallOK admits.
LEMMA PreparedOK ==
  ASSUME IInv, NEW c \in Calls, NEW r \in CallType,
         NEW kind \in {"update", "reencrypt", "grant", "revoke"}, kind # "revoke" => Ready(c),
         r.pc = "prepared", r.kind = kind, r.graph = FirstGraph, r.todo = {},
         r.env = Mine(c).env, r.key = Mine(c).env.key, r.from = Mine(c).graph.at,
         kind # "revoke" => r.fetchedAt = Mine(c).fetchedAt,
         kind = "update" => r.key # 0,
         kind = "reencrypt" => r.to = Mine(c).graph.access
  PROVE  CallOK(r)
<1> DEFINE s == Mine(c)
<1>1. StoreOK(s)
  BY ClientAssumption DEF IInv, Copies, Mine
<1>2. CallOK(Idle) /\ ServerOK
  BY IdleOK DEF IInv
<1>3. GraphCopy(r.graph) /\ EnvCopy(r.env)
  BY <1>1, <1>2 DEF CallOK, Idle, StoreOK
<1>4. r.from <= graph.at /\ r.key <= graph.envAt
  BY <1>1 DEF StoreOK, GraphCopy, EnvCopy
<1>5. ASSUME r.from = graph.at, r.fetchedAt <= r.env.of, kind # "revoke"
      PROVE  r.env.of = graph.envAt /\ r.key = r.env.key
  BY <1>5, ReadyOK
<1>6. ASSUME r.from = graph.at, kind = "reencrypt" PROVE r.to = graph.access
  BY <1>6, ReadyOK
<1> QED
  BY <1>3, <1>4, <1>5, <1>6 DEF CallOK, Computed

\* The fields of a prepared action.
LEMMA PreparedFields ==
  ASSUME IInv, NEW c \in Calls, NEW kind \in {"update", "reencrypt", "grant", "revoke"}
  PROVE  LET r == Prepared(c, kind) IN
         /\ r \in CallType
         /\ r.pc = "prepared" /\ r.kind = kind /\ r.graph = FirstGraph /\ r.todo = {}
         /\ r.env = Mine(c).env /\ r.key = Mine(c).env.key
         /\ r.from = Mine(c).graph.at /\ r.fetchedAt = Mine(c).fetchedAt
<1> DEFINE s == Mine(c)
<1>1. s \in StoreType
  BY ClientAssumption DEF IInv, Copies, Mine
<1>2. Idle \in CallType
  BY IdleOK DEF IInv, CallOK
<1>3. s.env \in EnvType /\ s.fetchedAt \in 0..MaxAt /\ s.env.key \in 0..MaxAt /\ s.graph.at \in 0..MaxAt
  BY <1>1 DEF StoreType, EnvType, GraphType
<1>4. Prepared(c, kind) \in CallType
  BY <1>2, <1>3 DEF Prepared, CallType
<1> QED
  BY <1>4 DEF Prepared, Idle

LEMMA PrepareStep ==
  ASSUME IInv, NEW c \in Calls, NEW d \in Devices,
         PrepareUpdate(c) \/ PrepareReencrypt(c) \/ PrepareGrant(c, d) \/ PrepareRevoke(c, d)
  PROVE  IInv'
<1>1. CASE PrepareUpdate(c)
  <2>1. CallOK(Prepared(c, "update"))
    BY <1>1, PreparedFields, PreparedOK DEF PrepareUpdate
  <2> QED
    BY <1>1, <2>1, CallStep DEF PrepareUpdate
<1>2. CASE PrepareReencrypt(c)
  <2> DEFINE p == Prepared(c, "reencrypt")
  <2> DEFINE r == [p EXCEPT !.to = Mine(c).graph.access]
  <2>1. Mine(c).graph.access \in SUBSET Devices
    BY <1>2, ReadyOK DEF PrepareReencrypt, StoreType, GraphType
  <2>2. p \in CallType
    BY PreparedFields
  <2>3. /\ r \in CallType /\ r.pc = p.pc /\ r.kind = p.kind /\ r.graph = p.graph /\ r.todo = p.todo
        /\ r.env = p.env /\ r.key = p.key /\ r.from = p.from /\ r.fetchedAt = p.fetchedAt
        /\ r.to = Mine(c).graph.access
    BY <2>1, <2>2 DEF CallType
  <2>4. /\ p.pc = "prepared" /\ p.kind = "reencrypt" /\ p.graph = FirstGraph /\ p.todo = {}
        /\ p.env = Mine(c).env /\ p.key = Mine(c).env.key
        /\ p.from = Mine(c).graph.at /\ p.fetchedAt = Mine(c).fetchedAt
    BY PreparedFields
  <2>5. Ready(c) /\ call' = [call EXCEPT ![c] = r]
    BY <1>2 DEF PrepareReencrypt
  <2>6. CallOK(r)
    <3> HIDE DEF r, p
    <3> QED
      BY <2>3, <2>4, <2>5, PreparedOK
  <2> QED
    <3> HIDE DEF r, p
    <3> QED
      BY <1>2, <2>5, <2>6, CallStep DEF PrepareReencrypt
<1>3. CASE PrepareGrant(c, d)
  <2> DEFINE p == Prepared(c, "grant")
  <2> DEFINE r == [p EXCEPT !.target = {d}]
  <2>2. p \in CallType
    BY PreparedFields
  <2>3. /\ r \in CallType /\ r.pc = p.pc /\ r.kind = p.kind /\ r.graph = p.graph /\ r.todo = p.todo
        /\ r.env = p.env /\ r.key = p.key /\ r.from = p.from /\ r.fetchedAt = p.fetchedAt
    BY <2>2 DEF CallType
  <2>4. /\ p.pc = "prepared" /\ p.kind = "grant" /\ p.graph = FirstGraph /\ p.todo = {}
        /\ p.env = Mine(c).env /\ p.key = Mine(c).env.key
        /\ p.from = Mine(c).graph.at /\ p.fetchedAt = Mine(c).fetchedAt
    BY PreparedFields
  <2>5. Ready(c) /\ call' = [call EXCEPT ![c] = r]
    BY <1>3 DEF PrepareGrant
  <2>6. CallOK(r)
    <3> HIDE DEF r, p
    <3> QED
      BY <2>3, <2>4, <2>5, PreparedOK
  <2> QED
    <3> HIDE DEF r, p
    <3> QED
      BY <1>3, <2>5, <2>6, CallStep DEF PrepareGrant
<1>4. CASE PrepareRevoke(c, d)
  <2> DEFINE p == Prepared(c, "revoke")
  <2> DEFINE r == [p EXCEPT !.target = {d}, !.fetchedAt = 0]
  <2>2. p \in CallType /\ 0 \in 0..MaxAt
    BY PreparedFields, MaxAtAssumption
  <2>3. /\ r \in CallType /\ r.pc = p.pc /\ r.kind = p.kind /\ r.graph = p.graph /\ r.todo = p.todo
        /\ r.env = p.env /\ r.key = p.key /\ r.from = p.from
    BY <2>2 DEF CallType
  <2>4. /\ p.pc = "prepared" /\ p.kind = "revoke" /\ p.graph = FirstGraph /\ p.todo = {}
        /\ p.env = Mine(c).env /\ p.key = Mine(c).env.key /\ p.from = Mine(c).graph.at
    BY PreparedFields
  <2>5. call' = [call EXCEPT ![c] = r]
    BY <1>4 DEF PrepareRevoke
  <2>6. CallOK(r)
    <3> HIDE DEF r, p
    <3> QED
      BY <2>3, <2>4, PreparedOK
  <2> QED
    <3> HIDE DEF r, p
    <3> QED
      BY <1>4, <2>5, <2>6, CallStep DEF PrepareRevoke
<1> QED
  BY <1>1, <1>2, <1>3, <1>4

\* The label does not matter to what was computed.
LEMMA SendStep ==
  ASSUME IInv, NEW c \in Calls, Send(c)
  PROVE  IInv'
<1> DEFINE l == IF call[c].kind \in {"update", "reencrypt"} THEN Mine(c).graph.at ELSE call[c].from
<1> DEFINE q == call[c]
<1> DEFINE r == [q EXCEPT !.pc = "sent", !.orgAt = graph.at, !.label = l]
<1>1. q \in CallType /\ CallOK(q) /\ Mine(c) \in StoreType /\ graph.at \in 0..MaxAt
  BY ClientAssumption DEF IInv, Copies, Mine, ServerOK, GraphType
<1>2. l \in 0..MaxAt
  BY <1>1 DEF CallType, StoreType, GraphType
<1>3. q.pc = "prepared" /\ call' = [call EXCEPT ![c] = r]
  BY DEF Send, IInv, Copies
<1>4. /\ r \in CallType /\ r.pc = "sent" /\ r.kind = q.kind /\ r.graph = q.graph /\ r.todo = q.todo
      /\ r.env = q.env /\ r.key = q.key /\ r.from = q.from /\ r.fetchedAt = q.fetchedAt /\ r.to = q.to
  <2> HIDE DEF l
  <2> QED
    BY <1>1, <1>2 DEF CallType
<1>5. CallOK(r)
  <2> HIDE DEF r, q
  <2> QED
    BY <1>1, <1>3, <1>4 DEF CallOK, Computed
<1> HIDE DEF r
<1> QED
  BY <1>3, <1>5, CallStep DEF Send

-----------------------------------------------------------------------------
(* Answers, fetches and refreshes. *)

LEMMA ForgetStep ==
  ASSUME IInv, NEW c \in Calls, Refuse(c) \/ LoseAnswer(c)
  PROVE  IInv'
BY IdleOK, CallStep DEF Refuse, LoseAnswer, IInv

LEMMA GraphIsCopy == ASSUME ServerOK PROVE GraphCopy(graph)
BY MaxAtAssumption DEF ServerOK, GraphCopy, GraphType

LEMMA NewerOK ==
  ASSUME NEW g, NEW h, GraphCopy(g), GraphCopy(h)
  PROVE  GraphCopy(Newer(g, h))
BY DEF Newer

LEMMA FetchStep ==
  ASSUME IInv, NEW c \in Calls, StartFetch(c) \/ FetchKey(c) \/ FetchBlob(c)
  PROVE  IInv'
<1> DEFINE q == call[c]
<1>1. q \in CallType /\ CallOK(q) /\ ServerOK
  BY DEF IInv, Copies
<1>2. CASE StartFetch(c)
  <2> DEFINE r == [Idle EXCEPT !.pc = "fetching", !.graph = graph, !.todo = {"key", "blob"}]
  <2>1. CallOK(Idle) /\ Idle \in CallType /\ graph \in GraphType
    BY <1>1, IdleOK DEF CallOK, ServerOK
  <2>2. r \in CallType /\ r.pc = "fetching" /\ r.graph = graph /\ r.env = Idle.env
    BY <2>1 DEF CallType
  <2>3. CallOK(r)
    <3> HIDE DEF r
    <3> QED
      BY <1>1, <2>1, <2>2, GraphIsCopy DEF CallOK
  <2>4. call' = [call EXCEPT ![c] = r]
    BY <1>2 DEF StartFetch
  <2> HIDE DEF r
  <2> QED
    BY <1>2, <2>3, <2>4, CallStep DEF StartFetch
<1>3. CASE FetchKey(c)
  <2> DEFINE r == [q EXCEPT !.todo = @ \ {"key"}, !.key = row[Client[c]]]
  <2>1. row[Client[c]] \in 0..MaxAt
    BY <1>1, ClientAssumption, MaxAtAssumption DEF ServerOK, GraphType
  <2>2. q.pc = "fetching"
    BY <1>1, <1>3 DEF FetchKey, CallOK
  <2>3. r \in CallType /\ r.pc = q.pc /\ r.graph = q.graph /\ r.env = q.env
    BY <1>1, <2>1 DEF CallType
  <2>4. CallOK(r)
    <3> HIDE DEF r, q
    <3> QED
      BY <1>1, <2>2, <2>3 DEF CallOK
  <2>5. call' = [call EXCEPT ![c] = r]
    BY <1>3 DEF FetchKey, IInv, Copies
  <2> HIDE DEF r
  <2> QED
    BY <1>3, <2>4, <2>5, CallStep DEF FetchKey
<1>4. CASE FetchBlob(c)
  <2> DEFINE e == [content |-> blob.content, key |-> blob.key, of |-> graph.envAt]
  <2> DEFINE r == [q EXCEPT !.todo = @ \ {"blob"}, !.env = e]
  <2>1. EnvCopy(e) /\ e \in EnvType
    BY <1>1, MaxAtAssumption DEF ServerOK, GraphType, EnvCopy, EnvType
  <2>2. q.pc = "fetching"
    BY <1>1, <1>4 DEF FetchBlob, CallOK
  <2>3. r \in CallType /\ r.pc = q.pc /\ r.graph = q.graph /\ r.env = e
    <3> HIDE DEF e
    <3> QED
      BY <1>1, <2>1 DEF CallType
  <2>4. CallOK(r)
    <3> HIDE DEF r, q, e
    <3> QED
      BY <1>1, <2>1, <2>2, <2>3 DEF CallOK
  <2>5. call' = [call EXCEPT ![c] = r]
    BY <1>4 DEF FetchBlob, IInv, Copies
  <2> HIDE DEF r
  <2> QED
    BY <1>4, <2>4, <2>5, CallStep DEF FetchBlob
<1> QED
  BY <1>2, <1>3, <1>4

LEMMA AnswerStep ==
  ASSUME IInv, NEW c \in Calls, Succeed(c) \/ EndFetch(c)
  PROVE  IInv'
<1> DEFINE q == call[c]
<1> DEFINE s == Mine(c)
<1> DEFINE g == Newer(s.graph, q.graph)
<1>1. /\ CallOK(q) /\ StoreOK(s) /\ s \in StoreType /\ ServerOK /\ Client[c] \in Devices
      /\ s = copy[Client[c]] /\ copy \in [Devices -> StoreType]
  BY ClientAssumption DEF IInv, Copies, Mine
<1>2. GraphCopy(g) /\ g \in GraphType /\ g.envAt \in 0..MaxAt
  <2>1. GraphCopy(g)
    BY <1>1, NewerOK DEF CallOK, StoreOK
  <2> QED
    BY <2>1 DEF GraphCopy, GraphType
<1>3. EnvCopy(q.env) /\ q.env \in EnvType
  BY <1>1 DEF CallOK, EnvCopy
<1>4. EnvCopy(NoEnv) /\ NoEnv \in EnvType
  BY <1>1, IdleOK DEF CallOK, EnvCopy, Idle
<1> DEFINE s1 == [graph |-> g, env |-> q.env, fetchedAt |-> g.envAt]
<1> DEFINE s2 == [s EXCEPT !.graph = g]
<1> DEFINE s3 == [s EXCEPT !.graph = g, !.env = NoEnv]
<1>5. StoreOK(s1)
  <2>1. s1 \in StoreType /\ s1.graph = g /\ s1.env = q.env
    <3> HIDE DEF g
    <3> QED
      BY <1>2, <1>3 DEF StoreType
  <2> HIDE DEF s1, g
  <2> QED
    BY <1>2, <1>3, <2>1 DEF StoreOK
<1>6. StoreOK(s2)
  <2>1. s2 \in StoreType /\ s2.graph = g /\ s2.env = s.env
    <3> HIDE DEF g
    <3> QED
      BY <1>1, <1>2 DEF StoreType
  <2> HIDE DEF s2, g
  <2> QED
    BY <1>1, <1>2, <2>1 DEF StoreOK
<1>7. StoreOK(s3)
  <2>1. s3 \in StoreType /\ s3.graph = g /\ s3.env = NoEnv
    <3> HIDE DEF g
    <3> QED
      BY <1>1, <1>2, <1>4 DEF StoreType
  <2> HIDE DEF s3, g
  <2> QED
    BY <1>2, <1>4, <2>1 DEF StoreOK
<1>8. \E t \in {s1, s2, s3} : copy' = [copy EXCEPT ![Client[c]] = t]
  <2>1. CASE Succeed(c)
    BY <1>1, <2>1 DEF Succeed
  <2>2. CASE EndFetch(c)
    <3>1. CASE q.key = 0
      <4>1. copy' = [copy EXCEPT ![Client[c]] = s3]
        BY <1>1, <2>2, <3>1 DEF EndFetch
      <4> QED
        BY <4>1
    <3>2. CASE q.key # 0 /\ q.key = q.env.key
      <4>1. copy' = [copy EXCEPT ![Client[c]] = s1]
        BY <1>1, <2>2, <3>2 DEF EndFetch
      <4> QED
        BY <4>1
    <3>3. CASE q.key # 0 /\ q.key # q.env.key
      <4>1. copy' = [copy EXCEPT ![Client[c]] = s2]
        BY <1>1, <2>2, <3>3 DEF EndFetch
      <4> QED
        BY <4>1
    <3> QED
      BY <3>1, <3>2, <3>3
  <2> QED
    BY <2>1, <2>2
<1>9. call' = [call EXCEPT ![c] = Idle] /\ UNCHANGED <<graph, blob, row, given, written, raced>>
  BY DEF Succeed, EndFetch
<1> HIDE DEF s1, s2, s3, g, s, q
<1>10. PICK t : StoreOK(t) /\ copy' = [copy EXCEPT ![Client[c]] = t]
  BY <1>5, <1>6, <1>7, <1>8
<1> QED
  BY <1>1, <1>9, <1>10, StoreStep

LEMMA RefreshStep ==
  ASSUME IInv, NEW d \in Devices, Refresh(d)
  PROVE  IInv'
<1> DEFINE t == [copy[d] EXCEPT !.graph = graph]
<1>1. StoreOK(copy[d]) /\ copy[d] \in StoreType /\ ServerOK
  BY DEF IInv, Copies
<1>2. t \in StoreType /\ t.graph = graph /\ t.env = copy[d].env
  BY <1>1 DEF StoreType, ServerOK
<1>3. copy' = [copy EXCEPT ![d] = t]
  BY DEF Refresh, IInv, Copies
<1> HIDE DEF t
<1>4. StoreOK(t)
  BY <1>1, <1>2, GraphIsCopy DEF StoreOK
<1> QED
  BY <1>3, <1>4, StoreStep DEF Refresh

-----------------------------------------------------------------------------
(* The server commits. *)

\* A commit makes every copy of the graph old, and every copy of the blob or none.
LEMMA CopiesAged ==
  ASSUME ServerOK, graph'.at = graph.at + 1, graph'.at \in 0..MaxAt,
         \/ graph'.envAt = graph'.at
         \/ graph'.envAt = graph.envAt /\ blob' = blob
  PROVE  /\ \A r : CallOK(r) => CallOK(r)'
         /\ \A s : StoreOK(s) => StoreOK(s)'
<1>1. graph.at \in Nat /\ graph.envAt \in Nat /\ graph.envAt <= graph.at
  BY DEF ServerOK, GraphType
<1>2. graph'.envAt \in Nat /\ graph.envAt <= graph'.envAt
  BY <1>1
<1>3. ASSUME NEW g, GraphCopy(g) PROVE GraphCopy(g)'
  <2>1. g.at \in Nat /\ g.envAt \in Nat
    BY <1>3 DEF GraphCopy, GraphType
  <2> QED
    BY <1>1, <1>2, <1>3, <2>1 DEF GraphCopy
<1>4. ASSUME NEW e, EnvCopy(e) PROVE EnvCopy(e)'
  <2>1. e.of \in Nat /\ e.key \in Nat
    BY <1>4 DEF EnvCopy, EnvType
  <2> QED
    BY <1>1, <1>2, <1>4, <2>1 DEF EnvCopy
<1>5. ASSUME NEW r, r \in CallType, Computed(r) PROVE Computed(r)'
  <2>1. r.from \in Nat /\ r.key \in Nat
    BY <1>5 DEF CallType
  <2> QED
    BY <1>1, <1>2, <1>5, <2>1 DEF Computed
<1>6. \A r : CallOK(r) => CallOK(r)'
  BY <1>3, <1>4, <1>5 DEF CallOK
<1>7. \A s : StoreOK(s) => StoreOK(s)'
  BY <1>3, <1>4 DEF StoreOK
<1> QED
  BY <1>6, <1>7

\* What a commit makes of the server's state.
LEMMA CommitServer ==
  ASSUME IInv, NEW c \in Calls, Commit(c)
  PROVE  /\ ServerOK'
         /\ graph'.at = graph.at + 1 /\ graph'.at \in 0..MaxAt
         /\ \/ graph'.envAt = graph'.at
            \/ graph'.envAt = graph.envAt /\ blob' = blob
<1> DEFINE r == call[c]
<1> DEFINE n == graph.at + 1
<1>1. /\ ServerOK /\ r \in CallType /\ Computed(r)
      /\ r.env.content \in SUBSET (0..MaxAt) /\ r.key \in Nat /\ r.key <= graph.envAt
  BY DEF IInv, Copies, CallOK, Commit, EnvCopy, EnvType, CallType, Computed
<1>2. /\ graph.at \in Nat /\ graph.envAt \in Nat /\ 1 <= graph.envAt /\ graph.envAt <= graph.at
      /\ n \in 0..MaxAt /\ graph.access \subseteq Devices /\ graph.queuedAt \in 0..MaxAt
      /\ graph \in GraphType /\ MaxAt \in Nat
  BY <1>1, MaxAtAssumption DEF ServerOK, GraphType, Commit
<1>3. /\ graph' = Regraphed(r, n) /\ blob' = Posted(r, n) /\ row' = Rows(r, n)
      /\ given' = [d \in Devices |-> given[d] \cup ({row'[d]} \ {0})]
      /\ written' = IF r.kind = "update" THEN written \cup {n} ELSE written
      /\ Permitted(c, r)
  BY DEF Commit
<1>4. r.kind \in {"update", "reencrypt", "grant", "revoke"}
  BY <1>1 DEF CallType, Computed
<1>5. /\ graph' \in GraphType /\ graph'.at = n
      /\ graph'.envAt = IF r.kind \in {"update", "reencrypt"} THEN n ELSE graph.envAt
  <2>1. r.target \in SUBSET Devices
    BY <1>1 DEF CallType
  <2>2. CASE r.kind = "update"
    BY <1>2, <1>3, <2>2 DEF Regraphed, GraphType
  <2>3. CASE r.kind = "reencrypt"
    <3>1. graph' = [graph EXCEPT !.at = n, !.envAt = n, !.queuedAt = 0]
      BY <1>3, <2>3 DEF Regraphed
    <3>2. 0 \in 0..MaxAt
      BY <1>2
    <3>3. graph' \in GraphType /\ graph'.at = n /\ graph'.envAt = n
      BY <1>2, <3>1, <3>2 DEF GraphType
    <3> QED
      BY <2>3, <3>3
  <2>4. CASE r.kind = "grant"
    BY <1>2, <1>3, <2>1, <2>4 DEF Regraphed, GraphType
  <2>5. CASE r.kind = "revoke"
    BY <1>2, <1>3, <2>1, <2>5 DEF Regraphed, GraphType
  <2> QED
    BY <1>4, <2>2, <2>3, <2>4, <2>5
<1>6. /\ blob' \in [content : SUBSET (0..MaxAt), key : 0..MaxAt]
      /\ 1 <= blob'.key /\ blob'.key <= graph'.envAt
      /\ r.kind \in {"grant", "revoke"} => blob' = blob
  <2>1. CASE r.kind = "update"
    <3>1. r.key # 0
      BY <1>1, <2>1 DEF Computed
    <3>2. blob' = [content |-> r.env.content \cup {n}, key |-> r.key]
      BY <1>3, <2>1 DEF Posted
    <3>3. r.key \in 0..MaxAt /\ 1 <= r.key /\ r.key <= graph'.envAt
      BY <1>1, <1>2, <1>5, <2>1, <3>1
    <3>4. r.env.content \cup {n} \in SUBSET (0..MaxAt)
      BY <1>1, <1>2
    <3> QED
      BY <2>1, <3>2, <3>3, <3>4
  <2>2. CASE r.kind = "reencrypt"
    <3>1. blob' = [content |-> r.env.content, key |-> n]
      BY <1>3, <2>2 DEF Posted
    <3> QED
      BY <1>1, <1>2, <1>5, <2>2, <3>1
  <2>3. CASE r.kind \in {"grant", "revoke"}
    <3>1. blob' = blob
      BY <1>3, <2>3 DEF Posted
    <3> QED
      BY <1>1, <1>2, <1>5, <2>3, <3>1 DEF ServerOK
  <2> QED
    BY <1>4, <2>1, <2>2, <2>3
<1>7. row' \in [Devices -> 0..graph'.envAt]
  <2>1. row \in [Devices -> 0..graph.envAt]
    BY <1>1 DEF ServerOK
  <2>2. CASE r.kind = "update"
    BY <1>2, <1>3, <1>5, <2>1, <2>2 DEF Rows
  <2>3. CASE r.kind = "reencrypt"
    BY <1>2, <1>3, <1>5, <2>1, <2>3 DEF Rows
  <2>4. CASE r.kind = "grant"
    BY <1>1, <1>2, <1>3, <1>5, <2>1, <2>4 DEF Rows
  <2>5. CASE r.kind = "revoke"
    BY <1>2, <1>3, <1>5, <2>1, <2>5 DEF Rows
  <2> QED
    BY <1>4, <2>2, <2>3, <2>4, <2>5
<1>8. graph.envAt <= graph'.envAt /\ graph'.envAt \in Nat
  BY <1>2, <1>5
<1>9. ASSUME NEW d \in Devices
      PROVE  given'[d] \in SUBSET (1..graph'.envAt) /\ row'[d] \in given'[d] \cup {0}
  <2>1. given'[d] = given[d] \cup ({row'[d]} \ {0}) /\ row'[d] \in 0..graph'.envAt
    BY <1>3, <1>7
  <2>2. given[d] \in SUBSET (1..graph.envAt)
    BY <1>1 DEF ServerOK
  <2> QED
    BY <1>2, <1>8, <2>1, <2>2
<1>10. given' \in [Devices -> SUBSET (1..graph'.envAt)]
  BY <1>3, <1>9
<1>11. written' \in SUBSET (0..MaxAt)
  BY <1>1, <1>2, <1>3 DEF ServerOK
<1>12. graph'.at # 1
  BY <1>2, <1>5
<1>13. 1 <= graph'.envAt /\ graph'.envAt <= graph'.at
  BY <1>2, <1>5
<1>14. ServerOK'
  BY <1>5, <1>6, <1>7, <1>9, <1>10, <1>11, <1>12, <1>13 DEF ServerOK
<1> QED
  BY <1>2, <1>4, <1>5, <1>6, <1>14

\* A commit that did not slip through the check was computed from the present graph
\* and the present blob.
LEMMA CommitSafe ==
  ASSUME IInv, NEW c \in Calls, Commit(c)
  PROVE  Safe'
<1> DEFINE r == call[c]
<1> DEFINE n == graph.at + 1
<1>1. CASE raced'
  BY <1>1 DEF Safe
<1>2. CASE ~raced'
  <2>1. ~raced /\ ~Slips(r) /\ r.label = r.orgAt
    BY <1>2 DEF Commit, UpToDate
  <2>2. ServerOK /\ r \in CallType /\ Computed(r) /\ CallOK(r)
    BY DEF IInv, Copies, CallOK, Commit
  <2>3. r.from = graph.at /\ r.fetchedAt <= r.env.of
    BY <2>1, <2>2 DEF Slips, CallType, EnvType
  <2>4. r.kind \in {"update", "reencrypt", "grant"} =>
          /\ r.env.of = graph.envAt /\ r.key = r.env.key
          /\ r.key = blob.key /\ r.env.content = blob.content
    BY <2>2, <2>3 DEF Computed, CallOK, EnvCopy
  <2>5. /\ \A d \in graph.access : row[d] = blob.key
        /\ \A d \in Devices \ graph.access : row[d] = 0
        /\ graph.queuedAt # 0 \/ \A d \in Devices \ graph.access : blob.key \notin given[d]
        /\ written \subseteq blob.content
    BY <2>1 DEF IInv, Safe
  <2>6. /\ graph' = Regraphed(r, n) /\ blob' = Posted(r, n) /\ row' = Rows(r, n)
        /\ given' = [d \in Devices |-> given[d] \cup ({row'[d]} \ {0})]
        /\ written' = IF r.kind = "update" THEN written \cup {n} ELSE written
    BY DEF Commit
  <2>7. /\ n \in Nat /\ n # 0 /\ graph \in GraphType /\ graph.access \subseteq Devices
        /\ n \notin 0..graph.envAt /\ row \in [Devices -> 0..graph.envAt]
        /\ \A d \in Devices : given[d] \subseteq 1..graph.envAt
    BY <2>2 DEF ServerOK, GraphType
  <2>8. CASE r.kind = "update"
    <3>1. graph'.access = graph.access /\ graph'.queuedAt = graph.queuedAt
      BY <2>6, <2>7, <2>8 DEF Regraphed, GraphType
    <3>2. row' = row /\ blob'.key = blob.key /\ blob'.content = blob.content \cup {n} /\ written' = written \cup {n}
      BY <2>4, <2>6, <2>8 DEF Posted, Rows
    <3>3. \A d \in Devices \ graph.access : given'[d] = given[d]
      BY <2>5, <2>6, <3>2
    <3> QED
      BY <2>5, <3>1, <3>2, <3>3 DEF Safe
  <2>9. CASE r.kind = "reencrypt"
    <3>1. graph'.access = graph.access /\ r.to = graph.access
      BY <2>2, <2>3, <2>6, <2>7, <2>9 DEF Regraphed, GraphType, Computed
    <3>2. blob'.key = n /\ blob'.content = blob.content /\ written' = written
      BY <2>4, <2>6, <2>9 DEF Posted
    <3>3. row' = [d \in Devices |-> IF d \in graph.access THEN n ELSE row[d]]
      BY <2>6, <2>9, <3>1 DEF Rows
    <3>4. \A d \in Devices \ graph.access : given'[d] = given[d]
      BY <2>5, <2>6, <3>3
    <3>5. \A d \in Devices \ graph.access : n \notin given'[d]
      BY <2>7, <3>4
    <3> QED
      BY <2>5, <2>7, <3>1, <3>2, <3>3, <3>5 DEF Safe
  <2>10. CASE r.kind = "grant"
    <3>1. graph'.access = graph.access \cup r.target /\ graph'.queuedAt = graph.queuedAt
      BY <2>6, <2>7, <2>10 DEF Regraphed, GraphType
    <3>2. blob' = blob /\ written' = written
      BY <2>6, <2>10 DEF Posted
    <3>3. row' = [d \in Devices |-> IF d \in r.target THEN blob.key ELSE row[d]]
      BY <2>4, <2>6, <2>10 DEF Rows
    <3>4. \A d \in Devices \ graph'.access : row'[d] = 0 /\ given'[d] = given[d]
      BY <2>5, <2>6, <3>1, <3>3
    <3>5. \A d \in graph'.access : row'[d] = blob.key
      BY <2>2, <2>5, <2>7, <3>1, <3>3 DEF CallType
    <3> QED
      BY <2>5, <3>1, <3>2, <3>4, <3>5 DEF Safe
  <2>11. CASE r.kind = "revoke"
    <3>1. graph'.access = graph.access \ r.target /\ graph'.queuedAt = n
      BY <2>6, <2>7, <2>11 DEF Regraphed, GraphType
    <3>2. blob' = blob /\ written' = written
      BY <2>6, <2>11 DEF Posted
    <3>3. row' = [d \in Devices |-> IF d \in r.target THEN 0 ELSE row[d]]
      BY <2>6, <2>11 DEF Rows
    <3> QED
      BY <2>5, <2>7, <3>1, <3>2, <3>3 DEF Safe
  <2> QED
    BY <2>2, <2>8, <2>9, <2>10, <2>11 DEF CallType, Computed
<1> QED
  BY <1>1, <1>2

LEMMA CommitStep ==
  ASSUME IInv, NEW c \in Calls, Commit(c)
  PROVE  IInv'
<1>1. ServerOK' /\ Safe'
  BY CommitServer, CommitSafe
<1>2. (\A o : CallOK(o) => CallOK(o)') /\ (\A s : StoreOK(s) => StoreOK(s)')
  BY CommitServer, CopiesAged DEF IInv
<1>3. PICK r \in CallType :
        /\ call' = [call EXCEPT ![c] = r]
        /\ r.pc = "committed" /\ r.graph = graph' /\ r.todo = {}
        /\ r.env = [content |-> blob'.content, key |-> blob'.key, of |-> graph'.envAt]
  <2> DEFINE q == call[c]
  <2> DEFINE e == [content |-> blob'.content, key |-> blob'.key, of |-> graph'.envAt]
  <2> DEFINE s == [Idle EXCEPT !.pc = "committed", !.kind = q.kind, !.graph = graph', !.env = e]
  <2>1. q \in CallType /\ Idle \in CallType
    BY IdleOK DEF IInv, Copies, CallOK
  <2>2. graph' \in GraphType /\ e \in EnvType
    BY <1>1 DEF ServerOK, GraphType, EnvType
  <2>3. s \in CallType /\ s.pc = "committed" /\ s.graph = graph' /\ s.env = e /\ s.todo = Idle.todo
    <3> HIDE DEF e
    <3> QED
      BY <2>1, <2>2 DEF CallType
  <2>4. Idle.todo = {}
    BY DEF Idle
  <2>5. call' = [call EXCEPT ![c] = s]
    BY DEF Commit
  <2> HIDE DEF s
  <2> QED
    BY <2>3, <2>4, <2>5
<1>4. GraphCopy(r.graph)'
  BY <1>1, <1>3, MaxAtAssumption DEF ServerOK, GraphCopy, GraphType
<1>5. EnvCopy(r.env)'
  BY <1>1, <1>3, MaxAtAssumption DEF ServerOK, EnvCopy, CallType, GraphType
<1>6. CallOK(r)'
  BY <1>3, <1>4, <1>5 DEF CallOK
<1>7. call' \in [Calls -> CallType] /\ copy' = copy
  BY <1>3 DEF Commit, IInv, Copies
<1>8. ASSUME NEW o \in Calls PROVE CallOK(call[o])'
  <2>1. call'[o] = IF o = c THEN r ELSE call[o]
    BY <1>3 DEF IInv, Copies
  <2>2. PICK t : t = call[o]
    OBVIOUS
  <2>3. CallOK(t)
    BY <2>2 DEF IInv, Copies
  <2>4. CallOK(t)' /\ (call'[o] = t \/ call'[o] = r)
    BY <1>2, <2>1, <2>2, <2>3
  <2> QED
    BY <1>6, <2>4 DEF CallOK, GraphCopy, EnvCopy, Computed
<1>9. \A d \in Devices : StoreOK(copy[d])'
  BY <1>2, <1>7 DEF IInv, Copies
<1> QED
  BY <1>1, <1>7, <1>8, <1>9 DEF IInv, Copies

-----------------------------------------------------------------------------
(* The theorems. *)

LEMMA NextIInv == IInv /\ [Next]_vars => IInv'
<1> SUFFICES ASSUME IInv, [Next]_vars PROVE IInv'
  OBVIOUS
<1>1. CASE UNCHANGED vars
  BY <1>1 DEF vars, IInv, ServerOK, Copies, Safe, StoreOK, CallOK, GraphCopy, EnvCopy, Computed
<1>2. ASSUME NEW c \in Calls, NEW d \in Devices,
             PrepareUpdate(c) \/ PrepareReencrypt(c) \/ PrepareGrant(c, d) \/ PrepareRevoke(c, d)
      PROVE  IInv'
  BY <1>2, PrepareStep
<1>3. ASSUME NEW c \in Calls,
             \/ Send(c) \/ Commit(c) \/ Refuse(c) \/ Succeed(c) \/ LoseAnswer(c)
             \/ StartFetch(c) \/ FetchKey(c) \/ FetchBlob(c) \/ EndFetch(c)
      PROVE  IInv'
  BY <1>3, SendStep, CommitStep, ForgetStep, AnswerStep, FetchStep
<1>4. ASSUME NEW c \in Calls, Refresh(Client[c]) PROVE IInv'
  BY <1>4, ClientAssumption, RefreshStep
<1>5. ASSUME NEW c \in Calls PROVE Client[c] \in Devices
  BY ClientAssumption
<1> QED
  BY <1>1, <1>2, <1>3, <1>4, <1>5 DEF Next

LEMMA SpecIInv == Spec => []IInv
<1> QED
  BY InitIInv, NextIInv, PTL DEF Spec

\* The types, and no device is ever given a key that was not yet made.
THEOREM TypesHold == Spec => []TypeOK
<1>1. IInv => TypeOK
  <2> SUFFICES ASSUME IInv PROVE TypeOK
    OBVIOUS
  <2>1. graph \in GraphType /\ graph.envAt <= graph.at /\ row \in [Devices -> 0..graph.envAt]
    BY DEF IInv, ServerOK
  <2>2. blob \in [content : SUBSET Versions, key : Versions \ {0}] /\ blob.key <= graph.envAt
    BY DEF IInv, ServerOK
  <2>3. copy \in [Devices -> [graph : GraphType, env : EnvType, fetchedAt : Versions]]
    BY DEF IInv, Copies, StoreType
  <2>4. \A c \in Calls : call[c].pc \in {"idle", "prepared", "sent", "committed", "fetching"}
    BY DEF IInv, Copies, CallType
  <2>5. \A d \in Devices : row[d] \in given[d] \cup {0} /\ given[d] \subseteq 1..graph.envAt
    BY DEF IInv, ServerOK
  <2> QED
    BY <2>1, <2>2, <2>3, <2>4, <2>5 DEF TypeOK
<1> QED
  BY <1>1, SpecIInv, PTL

\* For every organisation and any number of concurrent actions: unless a commit slipped
\* through the check of graphUpdatedAt, every device with access has the key of the blob.
THEOREM MembersRead == Spec => []MembersCanRead
<1>1. IInv => MembersCanRead
  BY DEF IInv, Safe, MembersCanRead
<1> QED
  BY <1>1, SpecIInv, PTL

\* Unless a commit slipped through the check, the blob holds every update committed.
THEOREM UpdatesKept == Spec => []NoUpdateLost
<1>1. IInv => NoUpdateLost
  BY DEF IInv, Safe, NoUpdateLost
<1> QED
  BY <1>1, SpecIInv, PTL

\* Unless a commit slipped through the check, no device without access was ever given the
\* key of the blob, while the environment is not queued for re-encryption.
THEOREM RemovedKeptOut == Spec => []RemovedCannotRead
<1>1. IInv => RemovedCannotRead
  BY DEF IInv, Safe, RemovedCannotRead
<1> QED
  BY <1>1, SpecIInv, PTL
=============================================================================

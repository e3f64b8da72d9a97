---------------------- MODULE OrgTransactions_proofs ----------------------
(***************************************************************************)
(* Proofs about OrgTransactions, for any number of requests, connections   *)
(* and rows: its type invariant, that no write to a plain row is lost but  *)
(* to a request that writes outside its transaction, that no acceptance in *)
(* its own transaction follows a revocation, that the plain rows implement *)
(* the serial store of SerialGraph, which writes of the other rows can be  *)
(* lost, and what the version that a client was given promises.            *)
(***************************************************************************)
EXTENDS OrgTransactions, SequenceTheorems, TLAPS

AuthReads == [version : Nat, stamp : SUBSET Requests,
              invite : SUBSET Requests, user : SUBSET Requests]

\* A request is about rows its kind can be about.
CallOK == \A r \in Requests : call[r].rows \in Targets(call[r].kind)

\* The requests that have a connection, and those with nothing of the graph yet.
Connected == {"reading", "handling", "storing", "unwinding"}
ConnOK == \A r \in Requests : pc[r] \in Connected => conn[r] \in Sessions
GraphOK ==
  \A r \in Requests : pc[r] \in {"idle", "authenticating", "reading"} => graph[r] = EmptyDb

\* A transaction belongs to a request that works on its session and has not ended
\* it, and only a session in a transaction holds the row locks.  None is begun
\* while a request stores row by row.
TxnOK ==
  /\ \A s \in Sessions : txn[s] # NoRequest =>
       conn[txn[s]] = s /\ pc[txn[s]] \in {"reading", "handling"}
  /\ lock # NoSession => txn[lock] # NoRequest
  /\ \A r \in Requests : pc[r] = "storing" => txn[conn[r]] = NoRequest

\* The transaction of request r is the one it started.
Intact(r) == conn[r] \in Sessions /\ txn[conn[r]] = r
Locked(r) == pc[r] = "handling" /\ call[r].kind \in OrgActions /\ Intact(r)

\* An org action in its own transaction holds the row locks, and nothing is
\* committed under them but by itself: it works on the committed graph.
LockOK == \A r \in Requests : Locked(r) => lock = conn[r] /\ graph[r] = db

\* The history holds requests that wrote, the torn ones are in it, and a request
\* that stores row by row is torn and stores what it is to write.
Logged == {log[i] : i \in DOMAIN log}
LogOK ==
  /\ \A q \in Logged : pc[q] \in {"storing", "unwinding", "answered", "failed"}
  /\ torn \subseteq Logged
  /\ \A r \in Requests : pc[r] = "storing" => r \in torn /\ pending[r] \subseteq Written(r)

\* What a committed revocation deleted stays deleted.
RevokedGone ==
  \A i \in DOMAIN log :
    call[log[i]].kind = "revoke" => call[log[i]].rows \subseteq db.deleted

IInv ==
  /\ TypeOK /\ CallOK /\ ConnOK /\ GraphOK /\ TxnOK /\ LockOK /\ LogOK
  /\ RevokedGone /\ NoLostWrites /\ RevokedNeverAccepted

-----------------------------------------------------------------------------
\* Plain rows are neither the org's row or stamp, nor invites, nor their users.
LEMMA PlainRowsFacts ==
  /\ PlainRows \subseteq OtherRows
  /\ PlainRows \subseteq Rows
  /\ OrgRow \notin PlainRows /\ RbacStamp \notin PlainRows
  /\ PlainRows \cap Invites = {}
  /\ \A i \in Invites : Invitee[i] \notin PlainRows
  /\ \A i \in Invites : Invitee[i] \in Rows
  /\ OrgRow \in Rows /\ RbacStamp \in Rows
BY RowAssumption DEF PlainRows, Rows

\* The rows a request writes and removes are rows of the graph.
LEMMA WrittenRows ==
  ASSUME TypeOK, NEW r \in Requests
  PROVE  Written(r) \subseteq Rows /\ Removed(r) \subseteq Rows
<1>1. call[r].rows \subseteq Rows
  BY DEF TypeOK
<1>2. InviteeOf(r) \subseteq Rows
  BY PlainRowsFacts DEF InviteeOf
<1>3. Surplus(graph[r], call[r].now) \subseteq Rows
  BY DEF Surplus, Expired, Rows
<1> QED
  BY <1>1, <1>2, <1>3 DEF Written, Removed

\* The graph a handler computes is a graph.
LEMMA UpdatedType ==
  ASSUME TypeOK, NEW r \in Requests
  PROVE  Updated(r) \in Snapshot
<1>1. \A x \in Rows : Source(r, x) \in SUBSET Requests
  BY DEF TypeOK, Source, Snapshot
<1>2. graph[r].rows \in [Rows -> SUBSET Requests] /\ graph[r].deleted \in SUBSET Rows
      /\ graph[r].version \in Nat /\ call[r].now \in Nat /\ auth[r].stamp \in SUBSET Requests
  BY DEF TypeOK, Snapshot
<1> QED
  BY <1>1, <1>2, WrittenRows DEF Updated, Snapshot

\* The parts of the committed graph.
LEMMA DbParts ==
  ASSUME TypeOK
  PROVE  /\ db.rows \in [Rows -> SUBSET Requests] /\ db.deleted \in SUBSET Rows
         /\ db.version \in Nat
BY DEF TypeOK, Snapshot

\* The statements of a request, whether committed together or one by one, store a graph.
LEMMA CommittedType ==
  ASSUME TypeOK, NEW r \in Requests,
         Commit(r) \/ Store(r) \/ StoreRow(r) \/ StoreOrg(r)
  PROVE  db' \in Snapshot
<1>1. Updated(r).rows \in [Rows -> SUBSET Requests]
  BY UpdatedType DEF Snapshot
<1>2. graph[r].rows \in [Rows -> SUBSET Requests] /\ call[r].now \in Nat
  BY DEF TypeOK, Snapshot
<1>3. CASE Commit(r)
  BY <1>1, <1>2, <1>3, DbParts, WrittenRows DEF Commit, Snapshot
<1>4. CASE Store(r)
  <2>1. db' = [db EXCEPT !.deleted = @ \cup Removed(r)]
    BY <1>4 DEF Store
  <2>2. db \in [rows : [Rows -> SUBSET Requests], deleted : SUBSET Rows, version : Nat]
    BY DEF TypeOK, Snapshot
  <2>3. db' = [rows |-> db.rows, deleted |-> db.deleted \cup Removed(r), version |-> db.version]
    BY <2>1, <2>2
  <2> QED
    BY <2>3, DbParts, WrittenRows DEF Snapshot
<1>5. CASE StoreRow(r)
  <2>1. PICK x \in pending[r] : db' = [db EXCEPT !.rows = [@ EXCEPT ![x] = graph[r].rows[x]]]
    BY <1>5 DEF StoreRow
  <2>2. db \in [rows : [Rows -> SUBSET Requests], deleted : SUBSET Rows, version : Nat]
    BY DEF TypeOK, Snapshot
  <2> DEFINE new == [db.rows EXCEPT ![x] = graph[r].rows[x]]
  <2>3. db' = [rows |-> new, deleted |-> db.deleted, version |-> db.version]
    BY <2>1, <2>2
  <2>4. new \in [Rows -> SUBSET Requests]
    BY <1>2, DbParts
  <2> HIDE DEF new
  <2> QED
    BY <2>3, <2>4, DbParts DEF Snapshot
<1>6. CASE StoreOrg(r)
  BY <1>2, <1>6, DbParts DEF StoreOrg, Snapshot
<1> QED
  BY <1>3, <1>4, <1>5, <1>6

\* The parts of the state that belong to the pool and its sessions.
SessionType ==
  /\ lock \in Sessions \cup {NoSession}
  /\ free \in [Sessions -> Nat]
  /\ txn \in [Sessions -> Requests \cup {NoRequest}]

\* Ending a transaction keeps the shape of the sessions.
LEMMA EndType ==
  ASSUME SessionType, NEW s, EndTransaction(s)
  PROVE  SessionType'
<1>1. CASE s \in Sessions
  <2>1. free' = [free EXCEPT ![s] = @ + 1] /\ free \in [Sessions -> Nat] /\ free[s] + 1 \in Nat
    BY <1>1 DEF EndTransaction, SessionType
  <2>2. free' \in [Sessions -> Nat]
    BY <1>1, <2>1
  <2> QED
    BY <1>1, <2>2 DEF EndTransaction, SessionType
<1>2. CASE s \notin Sessions
  <2>1. free' = free /\ txn' = txn
    BY <1>2, Zenon DEF EndTransaction, SessionType
  <2> QED
    BY <2>1 DEF EndTransaction, SessionType
<1> QED
  BY <1>1, <1>2

\* Forgetting a request keeps the shape of what is kept of it.
LEMMA ForgetType ==
  ASSUME TypeOK, NEW r \in Requests, Forget(r)
  PROVE  /\ call' \in [Requests -> [kind : Kinds, rows : SUBSET Rows, base : Nat, now : Nat]]
         /\ pending' \in [Requests -> SUBSET ({"org", "invite", "user"} \cup Rows)]
         /\ auth' \in [Requests -> AuthReads]
         /\ graph' \in [Requests -> Snapshot]
         /\ UNCHANGED <<clock, db, log, torn>>
BY DEF TypeOK, AuthReads, Forget, NoCall, NoAuth, EmptyDb, Snapshot, Kinds

\* The initial state has the right shape.
LEMMA InitType == Init => TypeOK
BY RequestAssumption DEF Init, TypeOK, Snapshot, EmptyDb, NoCall, NoAuth, Kinds

\* The steps of authentication keep the shape of the state.
LEMMA AuthType ==
  ASSUME TypeOK, NEW r \in Requests, ReadOrg(r) \/ ReadInvite(r) \/ ReadUser(r)
  PROVE  TypeOK'
<1> USE DEF TypeOK
<1>3. ASSUME ReadOrg(r) PROVE TypeOK'
  <2>1. auth[r] \in AuthReads /\ db.version \in Nat /\ db.rows[RbacStamp] \in SUBSET Requests
    BY PlainRowsFacts DEF Snapshot, AuthReads
  <2> DEFINE one == [auth[r] EXCEPT !.version = db.version]
             new == [one EXCEPT !.stamp = db.rows[RbacStamp]]
  <2>2. one \in AuthReads
    BY ONLY <2>1 DEF AuthReads
  <2>4. auth' = [auth EXCEPT ![r] = new]
    BY <1>3, Zenon DEF ReadOrg
  <2> HIDE DEF one
  <2>3. new \in AuthReads
    BY ONLY <2>1, <2>2 DEF AuthReads
  <2> HIDE DEF new
  <2>5. auth' \in [Requests -> AuthReads]
    BY <2>3, <2>4 DEF AuthReads
  <2> QED
    BY <1>3, <2>5 DEF ReadOrg, AuthReads, session
<1>4. ASSUME ReadInvite(r) PROVE TypeOK'
  <2>1. PICK i \in call[r].rows : auth' = [auth EXCEPT ![r] = [@ EXCEPT !.invite = db.rows[i]]]
    BY <1>4 DEF ReadInvite
  <2>2. auth[r] \in AuthReads /\ db.rows[i] \subseteq Requests
    BY DEF Snapshot, AuthReads
  <2>3. [auth[r] EXCEPT !.invite = db.rows[i]] \in AuthReads
    BY ONLY <2>2 DEF AuthReads
  <2>4. auth' \in [Requests -> AuthReads]
    BY <2>1, <2>3 DEF AuthReads
  <2> QED
    BY <1>4, <2>4 DEF ReadInvite, AuthReads, session
<1>5. ASSUME ReadUser(r) PROVE TypeOK'
  <2>1. PICK u \in InviteeOf(r) : auth' = [auth EXCEPT ![r] = [@ EXCEPT !.user = db.rows[u]]]
    BY <1>5 DEF ReadUser
  <2>2. auth[r] \in AuthReads /\ db.rows[u] \subseteq Requests
    BY PlainRowsFacts DEF Snapshot, AuthReads, InviteeOf
  <2>3. [auth[r] EXCEPT !.user = db.rows[u]] \in AuthReads
    BY ONLY <2>2 DEF AuthReads
  <2>4. auth' \in [Requests -> AuthReads]
    BY <2>1, <2>3 DEF AuthReads
  <2> QED
    BY <1>5, <2>4 DEF ReadUser, AuthReads, session
<1> QED
  BY <1>3, <1>4, <1>5

\* Every step keeps the shape of the state.
LEMMA NextType ==
  ASSUME TypeOK, [Next]_vars
  PROVE  TypeOK'
<1> USE DEF TypeOK
<1>0. SessionType
  BY DEF SessionType
<1>1. CASE Tick
  BY <1>1 DEF Tick, session
<1>2. ASSUME NEW r \in Requests, NEW kind \in Kinds, NEW rows \in Targets(kind),
             NEW base \in Bases(kind), Arrive(r, kind, rows, base)
      PROVE  TypeOK'
  <2>1. rows \subseteq Rows
    BY <1>2 DEF Targets, Rows
  <2>2. base \in Nat
    BY <1>2 DEF Bases
  <2> QED
    BY <1>2, <2>1, <2>2 DEF Arrive, session
<1>3. ASSUME NEW r \in Requests, ReadOrg(r) \/ ReadInvite(r) \/ ReadUser(r) PROVE TypeOK'
  BY <1>3, AuthType
<1>4. ASSUME NEW r \in Requests, RefuseAuth(r) \/ FailAuth(r) PROVE TypeOK'
  <2>1. Forget(r) /\ UNCHANGED session /\ pc' = [pc EXCEPT ![r] = "failed"]
    BY <1>4 DEF RefuseAuth, FailAuth
  <2> QED
    BY <2>1, ForgetType DEF session, AuthReads
<1>5. ASSUME NEW r \in Requests, Begin(r) PROVE TypeOK'
  <2>1. PICK s \in Sessions : /\ free[s] > 0
                              /\ free' = [free EXCEPT ![s] = @ - 1]
                              /\ conn' = [conn EXCEPT ![r] = s]
                              /\ txn' = [txn EXCEPT ![s] = r]
                              /\ lock' = IF lock = s THEN NoSession ELSE lock
    BY <1>5 DEF Begin
  <2>2. free' \in [Sessions -> Nat]
    BY <2>1
  <2> QED
    BY <1>5, <2>1, <2>2 DEF Begin
<1>6. ASSUME NEW r \in Requests, GetOrgGraph(r) PROVE TypeOK'
  BY <1>6 DEF GetOrgGraph
<1>7. ASSUME NEW r \in Requests, Refuse(r) \/ Fail(r) PROVE TypeOK'
  <2>1. EndTransaction(conn[r]) /\ Forget(r)
    BY <1>7 DEF Refuse, Fail
  <2>2. SessionType'
    BY <1>0, <2>1, EndType
  <2>3. /\ pc' \in {[pc EXCEPT ![r] = "unwinding"], [pc EXCEPT ![r] = "failed"]}
        /\ conn' \in {conn, [conn EXCEPT ![r] = NoSession]}
    BY <1>7 DEF Refuse, Fail
  <2> QED
    BY <2>1, <2>2, <2>3, ForgetType DEF SessionType, AuthReads
<1>8. ASSUME NEW r \in Requests, Unwind(r) \/ FailStore(r) PROVE TypeOK'
  <2>1. SessionType'
    BY <1>0, <1>8, EndType DEF Unwind, FailStore
  <2>2. EmptyDb \in Snapshot
    BY DEF EmptyDb, Snapshot
  <2>3. CASE Unwind(r)
    <3>1. /\ conn' \in [Requests -> Sessions \cup {NoSession}]
          /\ graph' \in [Requests -> Snapshot]
      BY <2>2, <2>3 DEF Unwind
    <3> QED
      BY <2>1, <2>3, <3>1 DEF SessionType, Unwind
  <2>4. CASE FailStore(r)
    <3>1. graph' \in [Requests -> Snapshot]
      BY <2>2, <2>4 DEF FailStore
    <3> QED
      BY <2>1, <2>4, <3>1 DEF SessionType, FailStore
  <2> QED
    BY <1>8, <2>3, <2>4
<1>9. ASSUME NEW r \in Requests, Finish(r)
      PROVE  /\ SessionType'
             /\ conn' \in [Requests -> Sessions \cup {NoSession}]
             /\ pc' \in [Requests -> {"idle", "authenticating", "reading", "handling", "storing",
                                      "unwinding", "answered", "failed"}]
  BY <1>0, <1>9, EndType DEF Finish
<1>10. ASSUME NEW r \in Requests, Commit(r) PROVE TypeOK'
  <2>1. Finish(r) /\ db' \in Snapshot /\ Updated(r) \in Snapshot
    BY <1>10, CommittedType, UpdatedType DEF Commit
  <2>2. log' \in Seq(Requests) /\ torn' \in SUBSET Requests
    BY <1>10, AppendProperties DEF Commit
  <2> QED
    BY <1>9, <1>10, <2>1, <2>2 DEF Commit, SessionType
<1>11. ASSUME NEW r \in Requests, Store(r) PROVE TypeOK'
  <2>1. db' \in Snapshot /\ Updated(r) \in Snapshot /\ Written(r) \subseteq Rows
    BY <1>11, CommittedType, UpdatedType, WrittenRows
  <2>2. log' \in Seq(Requests)
    BY <1>11, AppendProperties DEF Store
  <2> QED
    BY <1>11, <2>1, <2>2 DEF Store, session
<1>12. ASSUME NEW r \in Requests, StoreRow(r) PROVE TypeOK'
  <2>1. db' \in Snapshot
    BY <1>12, CommittedType
  <2> QED
    BY <1>12, <2>1 DEF StoreRow, session
<1>13. ASSUME NEW r \in Requests, StoreOrg(r) PROVE TypeOK'
  <2>1. db' \in Snapshot /\ Finish(r)
    BY <1>13, CommittedType DEF StoreOrg
  <2> QED
    BY <1>9, <1>13, <2>1 DEF StoreOrg, SessionType
<1>14. CASE UNCHANGED vars
  BY <1>14 DEF vars, session
<1> QED
  BY <1>1, <1>2, <1>3, <1>4, <1>5, <1>6, <1>7, <1>8, <1>10, <1>11, <1>12, <1>13, <1>14
  DEF Next, Serve

\* The state keeps its shape, whatever the requests do.
THEOREM TypeCorrect == Spec => []TypeOK
BY InitType, NextType, PTL DEF Spec

-----------------------------------------------------------------------------
\* The steps of one request, and what they leave of another.
Acts(r) ==
  \/ \E kind \in Kinds : \E rows \in Targets(kind), base \in Bases(kind) : Arrive(r, kind, rows, base)
  \/ Serve(r) \/ FailAuth(r) \/ Fail(r) \/ FailStore(r)
Alone(p) ==
  /\ pc'[p] = pc[p] /\ call'[p] = call[p] /\ auth'[p] = auth[p]
  /\ graph'[p] = graph[p] /\ pending'[p] = pending[p] /\ conn'[p] = conn[p]
Still == UNCHANGED <<db, session, pc, call, pending, auth, graph, log, torn>>

\* A step is a tick, or that of one request.
LEMMA NextActs ==
  ASSUME [Next]_vars
  PROVE  Still \/ \E r \in Requests : Acts(r)
BY DEF Next, Tick, vars, Still, Acts

\* Forgetting a request changes nothing of the others.
LEMMA ForgetAlone ==
  ASSUME TypeOK, NEW r \in Requests, Forget(r)
  PROVE  \A p \in Requests \ {r} : /\ call'[p] = call[p] /\ auth'[p] = auth[p]
                                   /\ graph'[p] = graph[p] /\ pending'[p] = pending[p]
BY DEF TypeOK, Forget

\* Nor does the end of its statements.
LEMMA FinishAlone ==
  ASSUME TypeOK, NEW r \in Requests, Finish(r)
  PROVE  /\ \A p \in Requests \ {r} : pc'[p] = pc[p] /\ conn'[p] = conn[p]
         /\ pc'[r] \in {"answered", "unwinding"}
         /\ EndTransaction(conn[r])
BY DEF TypeOK, Finish

\* The requests work beside each other: what each keeps is its own.
LEMMA OthersAlone ==
  ASSUME TypeOK, NEW r \in Requests, Acts(r)
  PROVE  \A p \in Requests \ {r} : Alone(p)
<1> USE DEF Alone
<1>1. ASSUME NEW kind \in Kinds, NEW rows \in Targets(kind), NEW base \in Bases(kind),
             Arrive(r, kind, rows, base)
      PROVE  \A p \in Requests \ {r} : Alone(p)
  BY <1>1 DEF TypeOK, Arrive, session
<1>2. CASE ReadOrg(r) \/ ReadInvite(r) \/ ReadUser(r)
  BY <1>2 DEF TypeOK, ReadOrg, ReadInvite, ReadUser, session
<1>3. CASE RefuseAuth(r) \/ FailAuth(r)
  <2>1. Forget(r) /\ UNCHANGED session /\ pc' = [pc EXCEPT ![r] = "failed"]
    BY <1>3 DEF RefuseAuth, FailAuth
  <2> QED
    BY <2>1, ForgetAlone DEF TypeOK, session
<1>4. CASE Begin(r)
  BY <1>4 DEF TypeOK, Begin
<1>5. CASE GetOrgGraph(r)
  BY <1>5 DEF TypeOK, GetOrgGraph
<1>6. CASE Refuse(r) \/ Fail(r)
  <2>1. /\ Forget(r)
        /\ pc' \in {[pc EXCEPT ![r] = "unwinding"], [pc EXCEPT ![r] = "failed"]}
        /\ conn' \in {conn, [conn EXCEPT ![r] = NoSession]}
    BY <1>6 DEF Refuse, Fail
  <2>2. \A p \in Requests \ {r} : pc'[p] = pc[p] /\ conn'[p] = conn[p]
    BY <2>1 DEF TypeOK
  <2> QED
    BY <2>1, <2>2, ForgetAlone
<1>7. CASE Unwind(r)
  BY <1>7 DEF TypeOK, Unwind
<1>8. CASE FailStore(r)
  BY <1>8 DEF TypeOK, FailStore
<1>9. CASE Commit(r)
  <2>1. /\ Finish(r) /\ call' = call /\ auth' = auth /\ pending' = pending
        /\ graph' = [graph EXCEPT ![r] = Updated(r)]
    BY <1>9 DEF Commit
  <2> QED
    BY <2>1, FinishAlone DEF TypeOK
<1>10. CASE Store(r)
  <2>1. /\ call' = call /\ auth' = auth /\ conn' = conn
        /\ pc' = [pc EXCEPT ![r] = "storing"]
        /\ pending' = [pending EXCEPT ![r] = Written(r) \ {OrgRow, RbacStamp}]
        /\ graph' = [graph EXCEPT ![r] = Updated(r)]
    BY <1>10 DEF Store, session
  <2> QED
    BY <2>1 DEF TypeOK
<1>11. CASE StoreRow(r)
  <2>1. PICK x \in pending[r] : pending' = [pending EXCEPT ![r] = @ \ {x}]
    BY <1>11 DEF StoreRow
  <2> QED
    BY <1>11, <2>1 DEF TypeOK, StoreRow, session
<1>12. CASE StoreOrg(r)
  <2>1. Finish(r) /\ UNCHANGED <<call, pending, auth, graph>>
    BY <1>12 DEF StoreOrg
  <2> QED
    BY <2>1, FinishAlone
<1> QED
  BY <1>1, <1>2, <1>3, <1>4, <1>5, <1>6, <1>7, <1>8, <1>9, <1>10, <1>11, <1>12 DEF Acts, Serve

Late == {"storing", "unwinding", "answered", "failed"}

\* A request that is past its handler keeps what it asked for and what it read, and
\* stays there.
LEMMA LateStays ==
  ASSUME TypeOK, NEW r \in Requests, Acts(r), pc[r] \in Late
  PROVE  /\ Unwind(r) \/ FailStore(r) \/ StoreRow(r) \/ StoreOrg(r)
         /\ pc'[r] \in Late /\ call' = call /\ auth' = auth
<1>1. Unwind(r) \/ FailStore(r) \/ StoreRow(r) \/ StoreOrg(r)
  BY DEF Late, Acts, Serve, Arrive, ReadOrg, ReadInvite, ReadUser, RefuseAuth, FailAuth, Begin,
         GetOrgGraph, Refuse, Fail, Commit, Store
<1>2. CASE Unwind(r) \/ FailStore(r)
  BY <1>2 DEF TypeOK, Late, Unwind, FailStore
<1>3. CASE StoreRow(r)
  BY <1>3 DEF Late, StoreRow
<1>4. CASE StoreOrg(r)
  BY <1>4, FinishAlone DEF Late, StoreOrg
<1> QED
  BY <1>1, <1>2, <1>3, <1>4

\* Requests in the history are left alone, so what they wrote does not change.
LEMMA LoggedKept ==
  ASSUME TypeOK, LogOK, [Next]_vars, NEW q \in Logged
  PROVE  /\ q \in Requests /\ pc[q] \in Late /\ pc'[q] \in Late
         /\ call'[q] = call[q] /\ auth'[q] = auth[q]
         /\ Written(q)' = Written(q) /\ InviteeOf(q)' = InviteeOf(q)
<1>1. q \in Requests /\ pc[q] \in Late
  BY ElementOfSeq, LenProperties DEF TypeOK, LogOK, Logged, Late
<1>2. pc'[q] \in Late /\ call'[q] = call[q] /\ auth'[q] = auth[q]
  <2>1. CASE Still
    BY <1>1, <2>1 DEF Still
  <2>2. ASSUME NEW r \in Requests, Acts(r) PROVE pc'[q] \in Late /\ call'[q] = call[q] /\ auth'[q] = auth[q]
    <3>1. CASE r = q
      BY <1>1, <2>2, <3>1, LateStays
    <3>2. CASE r # q
      BY <1>1, <2>2, <3>2, OthersAlone DEF Alone
    <3> QED
      BY <3>1, <3>2
  <2> QED
    BY <2>1, <2>2, NextActs
<1> QED
  BY <1>1, <1>2 DEF Written, InviteeOf

-----------------------------------------------------------------------------
\* What a request writes of the plain rows it writes from the graph it read.
LEMMA PlainWrites ==
  ASSUME TypeOK, CallOK, NEW r \in Requests
  PROVE  /\ call[r].kind # "org" => Written(r) \cap PlainRows = {}
         /\ call[r].kind \in OrgActions => HasItems(r)
         /\ \A x \in PlainRows :
              Updated(r).rows[x] = IF x \in Written(r) THEN graph[r].rows[x] \cup {r}
                                   ELSE graph[r].rows[x]
<1>1. call[r].kind \in Kinds /\ call[r].rows \in Targets(call[r].kind)
  BY DEF TypeOK, CallOK
<1>2. call[r].kind \in InviteActions => call[r].rows \subseteq Invites /\ call[r].rows # {}
  BY <1>1 DEF Targets, InviteActions
<1>3. call[r].kind = "org" => call[r].rows # {}
  BY <1>1 DEF Targets
<1>4. InviteeOf(r) \cap PlainRows = {}
  BY PlainRowsFacts DEF InviteeOf
<1>5. call[r].kind # "org" => Written(r) \cap PlainRows = {}
  BY <1>2, <1>4, PlainRowsFacts DEF Written, InviteActions
<1>6. call[r].kind \in OrgActions => HasItems(r)
  BY <1>2, <1>3 DEF HasItems, Written, Removed, OrgActions, InviteActions
<1>7. ASSUME NEW x \in PlainRows, x \in Written(r)
      PROVE  Source(r, x) = graph[r].rows[x]
  BY <1>5, <1>7 DEF Source, InviteAuth
<1> QED
  BY <1>5, <1>6, <1>7, PlainRowsFacts DEF Updated

\* The steps by which a request comes into the history, and those by which it
\* stores on after that.
Enters(r)  == (Commit(r) /\ HasItems(r)) \/ Store(r)
Settles(r) == StoreRow(r) \/ StoreOrg(r)
Touched(r) == Written(r) \cup {OrgRow, RbacStamp}

\* A commit of a request without items changes nothing.
LEMMA EmptyCommit ==
  ASSUME TypeOK, NEW r \in Requests, Commit(r), ~HasItems(r)
  PROVE  db' = db /\ log' = log /\ torn' = torn
<1>1. Put(r) = {} /\ Removed(r) = {}
  BY DEF HasItems, Put
<1>2. db \in Snapshot /\ db' = [rows |-> [x \in Rows |-> db.rows[x]],
                                deleted |-> db.deleted, version |-> db.version]
  BY <1>1 DEF TypeOK, Commit
<1> QED
  BY <1>2 DEF Snapshot, Commit

\* Every step leaves database and history alone, or one request enters the history,
\* or one that has entered it stores on.
LEMMA StepKinds ==
  ASSUME TypeOK, [Next]_vars
  PROVE  \/ db' = db /\ log' = log /\ torn' = torn
         \/ \E r \in Requests : Acts(r) /\ (Enters(r) \/ Settles(r))
<1> DEFINE Kept == db' = db /\ log' = log /\ torn' = torn
<1>1. CASE Still
  BY <1>1 DEF Still
<1>2. ASSUME NEW r \in Requests, Acts(r) PROVE Kept \/ Enters(r) \/ Settles(r)
  <2>1. CASE Commit(r)
    BY <2>1, EmptyCommit DEF Enters
  <2>2. CASE Store(r) \/ StoreRow(r) \/ StoreOrg(r)
    BY <2>2 DEF Enters, Settles
  <2> QED
    BY <1>2, <2>1, <2>2 DEF Acts, Serve, Arrive, ReadOrg, ReadInvite, ReadUser, RefuseAuth, FailAuth,
       Begin, GetOrgGraph, Refuse, Unwind, Fail, FailStore, Forget
<1> QED
  BY <1>1, <1>2, NextActs

\* What a request that enters the history does.
LEMMA EntersFacts ==
  ASSUME TypeOK, CallOK, ConnOK, LogOK, NEW r \in Requests, Enters(r)
  PROVE  /\ pc[r] = "handling" /\ pc'[r] \in Late /\ r \notin Logged
         /\ call' = call /\ auth' = auth /\ log' = Append(log, r)
         /\ torn' = (IF Intact(r) THEN torn ELSE torn \cup {r})
         /\ db'.deleted = db.deleted \cup Removed(r)
         /\ graph' = [graph EXCEPT ![r] = Updated(r)]
         /\ Authorized(r) /\ HasItems(r)
         /\ Unlocked(r)
         /\ \A x \in Rows \ Touched(r) : db'.rows[x] = db.rows[x]
         /\ Intact(r) =>
              \A x \in Rows : db'.rows[x] = IF x \in Put(r) THEN Updated(r).rows[x] ELSE db.rows[x]
<1>1. pc[r] = "handling" /\ conn[r] \in Sessions
  BY DEF Enters, Commit, Store, ConnOK, Connected
<1>2. r \notin Logged
  BY <1>1 DEF LogOK
<1>3. pc'[r] \in Late
  BY FinishAlone DEF TypeOK, Late, Enters, Commit, Store
<1>4. CASE Commit(r) /\ HasItems(r)
  <2>1. \A x \in Rows : db'.rows[x] = IF x \in Put(r) THEN Updated(r).rows[x] ELSE db.rows[x]
    BY <1>4 DEF Commit
  <2>2. Put(r) = Touched(r)
    BY <1>4 DEF Put, Touched
  <2> QED
    BY <1>1, <1>2, <1>3, <1>4, <2>1, <2>2 DEF Commit, Intact
<1>5. CASE Store(r)
  <2>1. ~Intact(r)
    BY <1>5, RequestAssumption DEF Store, Intact
  <2>2. db'.rows = db.rows /\ db'.deleted = db.deleted \cup Removed(r)
    <3>1. db' = [db EXCEPT !.deleted = @ \cup Removed(r)]
      BY <1>5 DEF Store
    <3>2. db \in [rows : [Rows -> SUBSET Requests], deleted : SUBSET Rows, version : Nat]
      BY DEF TypeOK, Snapshot
    <3> QED
      BY <3>1, <3>2
  <2> QED
    BY <1>1, <1>2, <1>3, <1>5, <2>1, <2>2 DEF Store
<1> QED
  BY <1>4, <1>5 DEF Enters

\* What a request does that stores on.
LEMMA SettlesFacts ==
  ASSUME TypeOK, LogOK, NEW r \in Requests, Settles(r)
  PROVE  /\ pc[r] = "storing" /\ r \in torn /\ r \in Logged
         /\ UNCHANGED <<call, auth, graph, log, torn>>
         /\ db'.deleted = db.deleted
         /\ Unlocked(r)
         /\ \A x \in Rows \ Exposed : db'.rows[x] = db.rows[x]
<1>1. pc[r] = "storing" /\ UNCHANGED <<call, auth, graph, log, torn>> /\ Unlocked(r)
  BY DEF Settles, StoreRow, StoreOrg
<1>2. r \in torn /\ r \in Logged /\ pending[r] \subseteq Written(r)
  BY <1>1 DEF LogOK
<1>3. Touched(r) \subseteq Exposed
  BY <1>2 DEF Touched, Exposed
<1>4. CASE StoreRow(r)
  <2>1. PICK x \in pending[r] : db' = [db EXCEPT !.rows = [@ EXCEPT ![x] = graph[r].rows[x]]]
    BY <1>4 DEF StoreRow
  <2>2. db \in [rows : [Rows -> SUBSET Requests], deleted : SUBSET Rows, version : Nat]
    BY DEF TypeOK, Snapshot
  <2>3. db'.rows = [db.rows EXCEPT ![x] = graph[r].rows[x]] /\ db'.deleted = db.deleted
    BY <2>1, <2>2
  <2>4. x \in Exposed
    BY <1>2, <1>3 DEF Touched
  <2> QED
    BY <1>1, <1>2, <2>2, <2>3, <2>4
<1>5. CASE StoreOrg(r)
  <2>1. \A x \in Rows : db'.rows[x] = IF x \in {OrgRow, RbacStamp} THEN graph[r].rows[x] ELSE db.rows[x]
    BY <1>5 DEF StoreOrg
  <2>2. db'.deleted = db.deleted
    BY <1>5 DEF StoreOrg
  <2> QED
    BY <1>1, <1>2, <1>3, <2>1, <2>2 DEF Touched
<1> QED
  BY <1>4, <1>5 DEF Settles

\* Appending to a sequence.
LEMMA Appended ==
  ASSUME NEW S, NEW s \in Seq(S), NEW e \in S
  PROVE  LET t == Append(s, e) IN
         /\ Len(s) \in Nat /\ Len(t) = Len(s) + 1
         /\ DOMAIN s = 1 .. Len(s) /\ DOMAIN t = 1 .. Len(s) + 1
         /\ t[Len(s) + 1] = e /\ \A i \in 1 .. Len(s) : t[i] = s[i]
BY AppendProperties, LenProperties

\* The history grows by the request that enters it.
LEMMA LogGrows ==
  ASSUME TypeOK, NEW r \in Requests, log' = Append(log, r)
  PROVE  /\ Logged' = Logged \cup {r}
         /\ Len(log) \in Nat /\ Len(log') = Len(log) + 1
         /\ DOMAIN log = 1 .. Len(log) /\ DOMAIN log' = 1 .. Len(log) + 1
         /\ log'[Len(log) + 1] = r /\ \A i \in 1 .. Len(log) : log'[i] = log[i]
<1>1. log \in Seq(Requests)
  BY DEF TypeOK
<1>2. /\ Len(log) \in Nat /\ Len(log') = Len(log) + 1
      /\ DOMAIN log = 1 .. Len(log) /\ DOMAIN log' = 1 .. Len(log) + 1
      /\ log'[Len(log) + 1] = r /\ \A i \in 1 .. Len(log) : log'[i] = log[i]
  BY <1>1, Appended
<1> QED
  BY <1>2 DEF Logged

\* What was exposed stays so, and nothing more is while nobody gets torn.
LEMMA ExposedKept ==
  ASSUME TypeOK, LogOK, [Next]_vars
  PROVE  /\ \A q \in torn : (Written(q) \cup {OrgRow, RbacStamp})' = Touched(q)
         /\ torn \subseteq torn' => Exposed \subseteq Exposed'
         /\ torn' = torn => Exposed' = Exposed
<1>1. \A q \in torn : Written(q)' = Written(q)
  BY LoggedKept DEF LogOK
<1>2. \A q \in torn : (Written(q) \cup {OrgRow, RbacStamp})' = Touched(q)
  BY <1>1 DEF Touched
<1> QED
  BY <1>1, <1>2 DEF Exposed, Touched

\* The writers of a row do not change unless a request enters the history, ...
LEMMA WritersKept ==
  ASSUME TypeOK, LogOK, [Next]_vars, log' = log
  PROVE  \A x \in Rows : WritersOf(x)' = WritersOf(x)
<1>1. \A i \in DOMAIN log : log[i] \in Logged
  BY DEF Logged
<1>2. \A q \in Logged : Written(q)' = Written(q)
  BY LoggedKept
<1> QED
  BY <1>1, <1>2 DEF WritersOf

\* ... and then they are the old ones and, if it writes the row, the request.
LEMMA WritersGrow ==
  ASSUME TypeOK, LogOK, [Next]_vars, NEW r \in Requests, log' = Append(log, r), call' = call
  PROVE  \A x \in Rows :
           WritersOf(x)' = IF x \in Written(r) THEN WritersOf(x) \cup {r} ELSE WritersOf(x)
<1>1. \A i \in DOMAIN log : log[i] \in Logged
  BY DEF Logged
<1>2. \A q \in Logged : Written(q)' = Written(q)
  BY LoggedKept
<1>3. Written(r)' = Written(r)
  BY DEF Written, InviteeOf
<1>4. /\ log' = Append(log, r)
      /\ DOMAIN log = 1 .. Len(log) /\ DOMAIN log' = 1 .. Len(log) + 1 /\ Len(log) \in Nat
      /\ \A i \in 1 .. Len(log) : log'[i] = log[i]
      /\ log'[Len(log) + 1] = r
  BY LogGrows
<1> QED
  BY <1>1, <1>2, <1>3, <1>4 DEF WritersOf

-----------------------------------------------------------------------------
\* Init establishes every part of the invariant.
LEMMA InitInv == Init => IInv
<1> SUFFICES ASSUME Init PROVE IInv
  OBVIOUS
<1>1. TypeOK
  BY InitType
<1>2. CallOK /\ ConnOK /\ GraphOK
  BY DEF Init, CallOK, ConnOK, Connected, GraphOK, NoCall, Targets, InviteActions
<1>3. TxnOK /\ LockOK
  BY DEF Init, TxnOK, LockOK, Locked
<1>4. LogOK /\ RevokedGone /\ RevokedNeverAccepted
  BY DEF Init, LogOK, Logged, RevokedGone, RevokedNeverAccepted
<1>5. NoLostWrites
  BY PlainRowsFacts DEF Init, NoLostWrites, WritersOf, EmptyDb, Exposed
<1> QED
  BY <1>1, <1>2, <1>3, <1>4, <1>5 DEF IInv

\* What the request that acts is left with.
LEMMA OwnState ==
  ASSUME TypeOK, CallOK, ConnOK, GraphOK, LogOK, NEW r \in Requests, Acts(r)
  PROVE  /\ pc'[r] \in Connected => conn'[r] \in Sessions
         /\ pc'[r] \in {"idle", "authenticating", "reading"} => graph'[r] = EmptyDb
         /\ call'[r].rows \in Targets(call'[r].kind)
         /\ pc'[r] = "storing" => r \in torn' /\ pending'[r] \subseteq Written(r)'
<1> DEFINE Goal == /\ pc'[r] \in Connected => conn'[r] \in Sessions
                   /\ pc'[r] \in {"idle", "authenticating", "reading"} => graph'[r] = EmptyDb
                   /\ call'[r].rows \in Targets(call'[r].kind)
                   /\ pc'[r] = "storing" => r \in torn' /\ pending'[r] \subseteq Written(r)'
<1>1. call[r].rows \in Targets(call[r].kind)
  BY DEF CallOK
<1>2. NoCall.rows \in Targets(NoCall.kind)
  BY DEF NoCall, Targets, InviteActions
<1>3. ASSUME NEW kind \in Kinds, NEW rows \in Targets(kind), NEW base \in Bases(kind),
             Arrive(r, kind, rows, base)
      PROVE  Goal
  <2>1. pc[r] = "idle" /\ pc'[r] = "authenticating" /\ graph' = graph
        /\ call'[r] = [kind |-> kind, rows |-> rows, base |-> base, now |-> clock]
    BY <1>3 DEF TypeOK, Arrive
  <2> QED
    BY <2>1 DEF Connected, GraphOK
<1>4. CASE ReadOrg(r) \/ ReadInvite(r) \/ ReadUser(r)
  <2>1. pc[r] = "authenticating" /\ UNCHANGED <<pc, call, graph>>
    BY <1>4 DEF ReadOrg, ReadInvite, ReadUser
  <2> QED
    BY <1>1, <2>1 DEF Connected, GraphOK
<1>5. CASE RefuseAuth(r) \/ FailAuth(r)
  <2>1. pc'[r] = "failed" /\ call'[r] = NoCall
    BY <1>5 DEF TypeOK, RefuseAuth, FailAuth, Forget
  <2> QED
    BY <1>2, <2>1 DEF Connected
<1>6. CASE Begin(r)
  <2>1. pc[r] = "authenticating" /\ pc'[r] = "reading" /\ conn'[r] \in Sessions /\ UNCHANGED <<call, graph>>
    BY <1>6 DEF TypeOK, Begin
  <2> QED
    BY <1>1, <2>1 DEF GraphOK
<1>7. CASE GetOrgGraph(r)
  <2>1. pc[r] = "reading" /\ pc'[r] = "handling" /\ UNCHANGED <<conn, call>>
    BY <1>7 DEF TypeOK, GetOrgGraph
  <2> QED
    BY <1>1, <2>1 DEF ConnOK, Connected
<1>8. CASE Refuse(r) \/ Fail(r)
  <2>1. pc[r] \in Connected /\ call'[r] = NoCall
    BY <1>8 DEF TypeOK, Refuse, Fail, Forget, Connected
  <2>2. (pc'[r] = "unwinding" /\ conn' = conn) \/ pc'[r] = "failed"
    BY <1>8 DEF TypeOK, Refuse, Fail
  <2> QED
    BY <1>2, <2>1, <2>2 DEF ConnOK, Connected
<1>9. CASE Unwind(r)
  <2>1. pc'[r] = "failed" /\ call' = call
    BY <1>9 DEF TypeOK, Unwind
  <2> QED
    BY <1>1, <2>1 DEF Connected
<1>10. CASE FailStore(r)
  <2>1. pc[r] = "storing" /\ pc'[r] = "unwinding" /\ UNCHANGED <<call, conn>>
    BY <1>10 DEF TypeOK, FailStore
  <2> QED
    BY <1>1, <2>1 DEF ConnOK, Connected
<1>11. CASE Commit(r) \/ StoreOrg(r)
  <2>1. pc[r] \in Connected /\ Finish(r) /\ call' = call
    BY <1>11 DEF Commit, StoreOrg, Connected
  <2>2. (pc'[r] = "unwinding" /\ conn' = conn) \/ pc'[r] = "answered"
    BY <2>1 DEF TypeOK, Finish
  <2> QED
    BY <1>1, <2>1, <2>2 DEF ConnOK, Connected
<1>12. CASE Store(r)
  <2>1. /\ pc[r] = "handling" /\ pc'[r] = "storing" /\ UNCHANGED <<conn, call>>
        /\ torn' = torn \cup {r} /\ pending'[r] = Written(r) \ {OrgRow, RbacStamp}
    BY <1>12 DEF TypeOK, Store, session
  <2>2. Written(r)' = Written(r)
    BY <2>1 DEF Written, InviteeOf
  <2> QED
    BY <1>1, <2>1, <2>2 DEF ConnOK, Connected
<1>13. CASE StoreRow(r)
  <2>1. /\ pc[r] = "storing" /\ UNCHANGED <<conn, call, pc, torn>>
        /\ pending'[r] \subseteq pending[r]
    BY <1>13 DEF TypeOK, StoreRow, session
  <2>2. Written(r)' = Written(r)
    BY <2>1 DEF Written, InviteeOf
  <2> QED
    BY <1>1, <2>1, <2>2 DEF ConnOK, Connected, LogOK
<1> QED
  BY <1>3, <1>4, <1>5, <1>6, <1>7, <1>8, <1>9, <1>10, <1>11, <1>12, <1>13 DEF Acts, Serve

\* What a step does to the sessions.
LEMMA SessionSteps ==
  ASSUME TypeOK, ConnOK, NEW r \in Requests, Acts(r)
  PROVE  \/ /\ UNCHANGED <<lock, txn, conn>>
            /\ pc[r] \in {"reading", "handling"} => Store(r)
            /\ pc'[r] = "storing" => txn[conn[r]] = NoRequest \/ pc[r] = "storing"
         \/ /\ conn[r] \in Sessions /\ EndTransaction(conn[r]) /\ pc'[r] # "storing"
         \/ Begin(r) \/ GetOrgGraph(r)
<1>1. CASE \E kind \in Kinds : \E rows \in Targets(kind), base \in Bases(kind) : Arrive(r, kind, rows, base)
  BY <1>1 DEF TypeOK, Arrive, session
<1>2. CASE ReadOrg(r) \/ ReadInvite(r) \/ ReadUser(r)
  BY <1>2 DEF ReadOrg, ReadInvite, ReadUser, session
<1>3. CASE RefuseAuth(r) \/ FailAuth(r)
  BY <1>3 DEF TypeOK, RefuseAuth, FailAuth, session
<1>4. CASE Refuse(r) \/ Fail(r) \/ Unwind(r) \/ FailStore(r)
  <2>1. EndTransaction(conn[r]) /\ pc[r] \in Connected
    BY <1>4 DEF Refuse, Fail, Unwind, FailStore, Connected
  <2>2. pc'[r] # "storing"
    BY <1>4 DEF TypeOK, Refuse, Fail, Unwind, FailStore
  <2> QED
    BY <2>1, <2>2 DEF ConnOK
<1>5. CASE Commit(r) \/ StoreOrg(r)
  <2>1. Finish(r) /\ pc[r] \in Connected
    BY <1>5 DEF Commit, StoreOrg, Connected
  <2> QED
    BY <2>1, FinishAlone DEF ConnOK
<1>6. CASE Store(r)
  BY <1>6 DEF Store, session
<1>7. CASE StoreRow(r)
  BY <1>7 DEF StoreRow, session
<1> QED
  BY <1>1, <1>2, <1>3, <1>4, <1>5, <1>6, <1>7 DEF Acts, Serve

\* Transactions belong to the requests that started them, and locks to transactions.
LEMMA TxnStep ==
  ASSUME TypeOK, ConnOK, TxnOK, NEW r \in Requests, Acts(r)
  PROVE  TxnOK'
<1>1. \A p \in Requests \ {r} : Alone(p)
  BY OthersAlone
<1>2. /\ txn \in [Sessions -> Requests \cup {NoRequest}] /\ NoRequest \notin Requests
      /\ NoSession \notin Sessions /\ lock \in Sessions \cup {NoSession}
  BY RequestAssumption DEF TypeOK
<1> USE DEF TxnOK
<1>3. CASE /\ UNCHANGED <<lock, txn, conn>>
           /\ pc[r] \in {"reading", "handling"} => Store(r)
           /\ pc'[r] = "storing" => txn[conn[r]] = NoRequest \/ pc[r] = "storing"
  <2>1. ASSUME NEW s \in Sessions, txn[s] # NoRequest
        PROVE  conn[txn[s]] = s /\ pc'[txn[s]] \in {"reading", "handling"}
    <3>1. txn[s] \in Requests /\ conn[txn[s]] = s /\ pc[txn[s]] \in {"reading", "handling"}
      BY <1>2, <2>1
    <3>2. txn[s] # r
      BY <1>3, <2>1, <3>1 DEF Store
    <3> QED
      BY <1>1, <3>1, <3>2 DEF Alone
  <2>2. ASSUME NEW q \in Requests, pc'[q] = "storing" PROVE txn[conn[q]] = NoRequest
    BY <1>1, <1>3, <2>2 DEF Alone
  <2> QED
    BY <1>3, <2>1, <2>2
<1>4. CASE conn[r] \in Sessions /\ EndTransaction(conn[r]) /\ pc'[r] # "storing"
  <2>1. /\ txn' = [txn EXCEPT ![conn[r]] = NoRequest]
        /\ lock' = IF lock = conn[r] THEN NoSession ELSE lock
    BY <1>4 DEF EndTransaction
  <2>2. ASSUME NEW s \in Sessions, txn'[s] # NoRequest
        PROVE  conn'[txn'[s]] = s /\ pc'[txn'[s]] \in {"reading", "handling"}
    <3>1. s # conn[r] /\ txn'[s] = txn[s]
      BY <1>2, <1>4, <2>1, <2>2
    <3>2. txn[s] \in Requests /\ conn[txn[s]] = s /\ pc[txn[s]] \in {"reading", "handling"}
      BY <1>2, <2>2, <3>1
    <3> QED
      BY <1>1, <3>1, <3>2 DEF Alone
  <2>3. lock' # NoSession => txn'[lock'] # NoRequest
    BY <1>2, <2>1
  <2>4. ASSUME NEW q \in Requests, pc'[q] = "storing" PROVE txn'[conn'[q]] = NoRequest
    <3>1. q # r
      BY <1>4, <2>4
    <3>2. pc[q] = "storing" /\ conn'[q] = conn[q]
      BY <1>1, <2>4, <3>1 DEF Alone
    <3>3. conn[q] \in Sessions /\ txn[conn[q]] = NoRequest
      BY <3>2 DEF ConnOK, Connected
    <3> QED
      BY <1>2, <2>1, <3>2, <3>3
  <2> QED
    BY <2>2, <2>3, <2>4
<1>5. CASE Begin(r)
  <2>1. PICK s \in Sessions : /\ Ready(r, s)
                              /\ conn' = [conn EXCEPT ![r] = s]
                              /\ txn' = [txn EXCEPT ![s] = r]
                              /\ lock' = IF lock = s THEN NoSession ELSE lock
    BY <1>5 DEF Begin
  <2>2. pc[r] = "authenticating" /\ pc'[r] = "reading" /\ conn'[r] = s
    BY <1>5, <2>1 DEF TypeOK, Begin
  <2>3. ASSUME NEW t \in Sessions, txn'[t] # NoRequest
        PROVE  conn'[txn'[t]] = t /\ pc'[txn'[t]] \in {"reading", "handling"}
    <3>1. CASE t = s
      BY <1>2, <2>1, <2>2, <3>1
    <3>2. CASE t # s
      <4>1. txn'[t] = txn[t]
        BY <1>2, <2>1, <3>2
      <4>2. txn[t] \in Requests /\ conn[txn[t]] = t /\ pc[txn[t]] \in {"reading", "handling"}
        BY <1>2, <2>3, <4>1
      <4>3. txn[t] # r
        BY <2>2, <4>2
      <4> QED
        BY <1>1, <4>1, <4>2, <4>3 DEF Alone
    <3> QED
      BY <3>1, <3>2
  <2>4. lock' # NoSession => txn'[lock'] # NoRequest
    BY <1>2, <2>1
  <2>5. ASSUME NEW q \in Requests, pc'[q] = "storing" PROVE txn'[conn'[q]] = NoRequest
    <3>1. q # r
      BY <2>2, <2>5
    <3>2. pc[q] = "storing" /\ conn'[q] = conn[q]
      BY <1>1, <2>5, <3>1 DEF Alone
    <3>3. conn[q] \in Sessions /\ txn[conn[q]] = NoRequest
      BY <3>2 DEF ConnOK, Connected
    <3>4. conn[q] # s
      BY <2>1, <3>1, <3>2 DEF Ready
    <3> QED
      BY <1>2, <2>1, <3>2, <3>3, <3>4
  <2> QED
    BY <2>3, <2>4, <2>5
<1>6. CASE GetOrgGraph(r)
  <2>1. /\ pc[r] = "reading" /\ pc'[r] = "handling" /\ UNCHANGED <<txn, conn>>
        /\ lock' = lock \/ (lock' = conn[r] /\ txn[conn[r]] # NoRequest)
    BY <1>6 DEF TypeOK, GetOrgGraph
  <2>2. ASSUME NEW s \in Sessions, txn[s] # NoRequest
        PROVE  conn[txn[s]] = s /\ pc'[txn[s]] \in {"reading", "handling"}
    <3>1. txn[s] \in Requests /\ conn[txn[s]] = s /\ pc[txn[s]] \in {"reading", "handling"}
      BY <1>2, <2>2
    <3> QED
      BY <1>1, <2>1, <3>1 DEF Alone
  <2>3. ASSUME NEW q \in Requests, pc'[q] = "storing" PROVE txn[conn[q]] = NoRequest
    BY <1>1, <2>1, <2>3 DEF Alone
  <2> QED
    BY <2>1, <2>2, <2>3
<1> QED
  BY <1>3, <1>4, <1>5, <1>6, SessionSteps

\* An org action in its own transaction keeps the locks, and its copy is current.
LEMMA LockStep ==
  ASSUME TypeOK, CallOK, ConnOK, TxnOK, LogOK, LockOK, NEW r \in Requests, Acts(r), [Next]_vars
  PROVE  LockOK'
<1>1. \A p \in Requests \ {r} : Alone(p)
  BY OthersAlone
<1>2. /\ txn \in [Sessions -> Requests \cup {NoRequest}] /\ NoRequest \notin Requests
      /\ NoSession \notin Sessions /\ lock \in Sessions \cup {NoSession}
  BY RequestAssumption DEF TypeOK
<1> SUFFICES ASSUME NEW q \in Requests, Locked(q)' PROVE lock' = conn'[q] /\ graph'[q] = db'
  BY DEF LockOK
<1>3. pc'[q] = "handling" /\ call'[q].kind \in OrgActions /\ conn'[q] \in Sessions /\ txn'[conn'[q]] = q
  BY DEF Locked, Intact
<1>4. CASE q = r
  <2>1. CASE GetOrgGraph(r)
    BY <1>3, <1>4, <2>1, RequestAssumption DEF TypeOK, GetOrgGraph
  <2>2. CASE ~GetOrgGraph(r)
    <3>2. ASSUME NEW kind, NEW rows, NEW base, Arrive(r, kind, rows, base) PROVE FALSE
      BY <1>3, <1>4, <3>2 DEF TypeOK, Arrive
    <3>3. ASSUME ReadOrg(r) \/ ReadInvite(r) \/ ReadUser(r) PROVE FALSE
      BY <1>3, <1>4, <3>3 DEF ReadOrg, ReadInvite, ReadUser
    <3>4. ASSUME RefuseAuth(r) \/ FailAuth(r) \/ Begin(r) \/ Refuse(r) \/ Fail(r) \/ Unwind(r)
                 \/ FailStore(r) PROVE FALSE
      BY <1>3, <1>4, <3>4 DEF TypeOK, RefuseAuth, FailAuth, Begin, Refuse, Fail, Unwind, FailStore
    <3>5. ASSUME Commit(r) \/ StoreOrg(r) PROVE FALSE
      BY <1>3, <1>4, <3>5, FinishAlone DEF Commit, StoreOrg
    <3>6. ASSUME Store(r) \/ StoreRow(r) PROVE FALSE
      BY <1>3, <1>4, <3>6 DEF TypeOK, Store, StoreRow
    <3> QED
      BY <2>2, <3>2, <3>3, <3>4, <3>5, <3>6 DEF Acts, Serve
  <2> QED
    BY <2>1, <2>2
<1>5. CASE q # r
  <2>1. pc[q] = "handling" /\ call[q].kind \in OrgActions /\ conn'[q] = conn[q] /\ graph'[q] = graph[q]
        /\ conn[q] \in Sessions /\ txn'[conn[q]] = q
    BY <1>1, <1>3, <1>5 DEF Alone
  <2>2. txn[conn[q]] = q /\ (lock = conn[q] => lock' = lock)
    <3>1. CASE UNCHANGED <<lock, txn, conn>>
      BY <2>1, <3>1
    <3>2. CASE conn[r] \in Sessions /\ EndTransaction(conn[r])
      BY <1>2, <2>1, <3>2 DEF EndTransaction
    <3>3. CASE Begin(r)
      <4>1. PICK s \in Sessions : /\ txn' = [txn EXCEPT ![s] = r]
                                  /\ lock' = IF lock = s THEN NoSession ELSE lock
        BY <3>3 DEF Begin
      <4> QED
        BY <1>2, <1>5, <2>1, <4>1
    <3>4. CASE GetOrgGraph(r)
      BY <1>2, <2>1, <3>4 DEF GetOrgGraph, Unlocked
    <3> QED
      BY <3>1, <3>2, <3>3, <3>4, SessionSteps
  <2>3. lock = conn[q] /\ graph[q] = db
    BY <2>1, <2>2 DEF LockOK, Locked, Intact
  <2>4. ASSUME NEW p \in Requests, Acts(p), Enters(p) \/ Settles(p) PROVE FALSE
    <3>1. Unlocked(p) /\ pc[p] \in Connected
      BY <2>4 DEF Enters, Settles, Commit, Store, StoreRow, StoreOrg, Connected, HasItems
    <3>2. conn[p] = conn[q]
      BY <1>2, <2>1, <2>3, <3>1 DEF Unlocked
    <3>3. CASE Commit(p) \/ StoreOrg(p)
      <4>1. EndTransaction(conn[q])
        BY <3>2, <3>3 DEF Commit, StoreOrg, Finish
      <4> QED
        BY <1>2, <2>1, <4>1 DEF EndTransaction
    <3>4. CASE Store(p)
      BY <1>2, <2>2, <3>2, <3>4 DEF Store
    <3>5. CASE StoreRow(p)
      BY <1>2, <2>2, <3>2, <3>5 DEF StoreRow, TxnOK
    <3> QED
      BY <2>4, <3>3, <3>4, <3>5 DEF Enters, Settles
  <2>5. db' = db
    BY <2>4, StepKinds
  <2> QED
    BY <2>1, <2>2, <2>3, <2>5
<1> QED
  BY <1>4, <1>5

\* The history holds requests past their handler, the torn ones among them.
LEMMA LogStep ==
  ASSUME IInv, [Next]_vars
  PROVE  LogOK'
<1> USE DEF IInv
<1>1. \A q \in Logged : pc'[q] \in Late
  BY LoggedKept
<1>2. (\A q \in Logged' : pc'[q] \in Late) /\ torn' \subseteq Logged' /\ torn \subseteq torn'
  <2>1. CASE log' = log /\ torn' = torn
    BY <1>1, <2>1 DEF LogOK, Logged
  <2>2. ASSUME NEW r \in Requests, Enters(r)
        PROVE  (\A q \in Logged' : pc'[q] \in Late) /\ torn' \subseteq Logged' /\ torn \subseteq torn'
    <3>1. pc'[r] \in Late /\ log' = Append(log, r) /\ torn \subseteq torn' /\ torn' \subseteq torn \cup {r}
      BY <2>2, EntersFacts
    <3>2. Logged' = Logged \cup {r}
      BY <3>1, LogGrows
    <3> QED
      BY <1>1, <3>1, <3>2 DEF LogOK
  <2>3. ASSUME NEW r \in Requests, Settles(r) PROVE log' = log /\ torn' = torn
    BY <2>3, SettlesFacts
  <2> QED
    BY <2>1, <2>2, <2>3, StepKinds
<1>3. ASSUME NEW q \in Requests, pc'[q] = "storing"
      PROVE  q \in torn' /\ pending'[q] \subseteq Written(q)'
  <2>1. ASSUME pc[q] = "storing", call'[q] = call[q], pending'[q] = pending[q]
        PROVE  q \in torn' /\ pending'[q] \subseteq Written(q)'
    <3>1. Written(q)' = Written(q)
      BY <2>1 DEF Written, InviteeOf
    <3> QED
      BY <1>2, <2>1, <3>1 DEF LogOK
  <2>2. CASE Still
    BY <1>3, <2>1, <2>2 DEF Still
  <2>3. ASSUME NEW r \in Requests, Acts(r) PROVE q \in torn' /\ pending'[q] \subseteq Written(q)'
    <3>1. CASE q = r
      BY <1>3, <2>3, <3>1, OwnState
    <3>2. CASE q # r
      BY <1>3, <2>1, <2>3, <3>2, OthersAlone DEF Alone
    <3> QED
      BY <3>1, <3>2
  <2> QED
    BY <2>2, <2>3, NextActs
<1> QED
  BY <1>2, <1>3 DEF LogOK, Late

\* What an org action in its own transaction works on is the committed graph.
LEMMA IntactCurrent ==
  ASSUME IInv, NEW r \in Requests, Enters(r), Intact(r), call[r].kind \in OrgActions
  PROVE  graph[r] = db
BY DEF IInv, LockOK, Locked, Enters, Commit, Store

\* A row that stays unexposed is put, if at all, on what it holds.
LEMMA EntersPlain ==
  ASSUME IInv, [Next]_vars, NEW r \in Requests, Enters(r), NEW x \in PlainRows \ Exposed'
  PROVE  /\ x \notin Exposed
         /\ db'.rows[x] = IF x \in Written(r) THEN db.rows[x] \cup {r} ELSE db.rows[x]
<1> USE DEF IInv
<1>1. x \in Rows /\ x # OrgRow /\ x # RbacStamp
  BY PlainRowsFacts
<1>2. torn \subseteq torn' /\ call' = call /\ torn' = (IF Intact(r) THEN torn ELSE torn \cup {r})
  BY EntersFacts
<1>3. x \notin Exposed
  BY <1>2, ExposedKept
<1>4. Written(r)' = Written(r)
  BY <1>2 DEF Written, InviteeOf
<1>5. ~Intact(r) => x \notin Written(r)
  BY <1>2, <1>4 DEF Exposed
<1>6. x \in Touched(r) <=> x \in Written(r)
  BY <1>1 DEF Touched
<1>7. x \in Written(r) => call[r].kind \in OrgActions
  BY PlainWrites DEF OrgActions
<1>8. CASE x \notin Written(r)
  <2>1. db'.rows[x] = db.rows[x]
    BY <1>1, <1>6, <1>8, EntersFacts
  <2> QED
    BY <1>3, <1>8, <2>1
<1>9. CASE x \in Written(r)
  <2>1. graph[r] = db /\ Intact(r)
    BY <1>5, <1>7, <1>9, IntactCurrent
  <2>2. x \in Put(r)
    BY <1>9, EntersFacts DEF Put
  <2>3. db'.rows[x] = Updated(r).rows[x]
    BY <1>1, <2>1, <2>2, EntersFacts
  <2>4. Updated(r).rows[x] = graph[r].rows[x] \cup {r}
    BY <1>9, PlainWrites
  <2> QED
    BY <1>3, <1>9, <2>1, <2>3, <2>4
<1> QED
  BY <1>8, <1>9

\* Every unexposed plain row keeps reflecting its writers and nothing else.
LEMMA NoLostStep ==
  ASSUME IInv, [Next]_vars
  PROVE  NoLostWrites'
<1> USE DEF IInv
<1>1. CASE db' = db /\ log' = log /\ torn' = torn
  <2>1. Exposed' = Exposed /\ \A x \in Rows : WritersOf(x)' = WritersOf(x)
    BY <1>1, ExposedKept, WritersKept
  <2> QED
    BY <1>1, <2>1, PlainRowsFacts DEF NoLostWrites
<1>2. ASSUME NEW r \in Requests, Enters(r) PROVE NoLostWrites'
  <2> SUFFICES ASSUME NEW x \in PlainRows \ Exposed' PROVE db'.rows[x] = WritersOf(x)'
    BY DEF NoLostWrites
  <2>1. db.rows[x] = WritersOf(x) /\ x \in Rows
    BY <1>2, EntersPlain, PlainRowsFacts DEF NoLostWrites
  <2>2. log' = Append(log, r) /\ call' = call
    BY <1>2, EntersFacts
  <2>3. WritersOf(x)' = IF x \in Written(r) THEN WritersOf(x) \cup {r} ELSE WritersOf(x)
    BY <2>1, <2>2, WritersGrow
  <2> QED
    BY <1>2, <2>1, <2>3, EntersPlain
<1>3. ASSUME NEW r \in Requests, Settles(r) PROVE NoLostWrites'
  <2>1. log' = log /\ torn' = torn /\ \A x \in Rows \ Exposed : db'.rows[x] = db.rows[x]
    BY <1>3, SettlesFacts
  <2>2. Exposed' = Exposed /\ \A x \in Rows : WritersOf(x)' = WritersOf(x)
    BY <2>1, ExposedKept, WritersKept
  <2> QED
    BY <2>1, <2>2, PlainRowsFacts DEF NoLostWrites
<1> QED
  BY <1>1, <1>2, <1>3, StepKinds

\* What a revocation deleted is not accepted in a transaction of its own.
LEMMA RevokedStep ==
  ASSUME IInv, [Next]_vars
  PROVE  RevokedGone' /\ RevokedNeverAccepted'
<1> USE DEF IInv
<1>1. \A i \in DOMAIN log : call'[log[i]] = call[log[i]]
  BY LoggedKept DEF Logged
<1>2. ASSUME log' = log, torn' = torn, db'.deleted = db.deleted
      PROVE  RevokedGone' /\ RevokedNeverAccepted'
  BY <1>1, <1>2 DEF RevokedGone, RevokedNeverAccepted
<1>3. ASSUME NEW r \in Requests, Enters(r) PROVE RevokedGone' /\ RevokedNeverAccepted'
  <2>1. /\ call' = call /\ log' = Append(log, r) /\ db'.deleted = db.deleted \cup Removed(r)
        /\ torn' = (IF Intact(r) THEN torn ELSE torn \cup {r})
        /\ Authorized(r)
    BY <1>3, EntersFacts
  <2>2. /\ DOMAIN log = 1 .. Len(log) /\ DOMAIN log' = 1 .. Len(log) + 1 /\ Len(log) \in Nat
        /\ \A i \in 1 .. Len(log) : log'[i] = log[i]
        /\ log'[Len(log) + 1] = r
    BY <2>1, LogGrows
  <2>3. RevokedGone'
    <3>1. call[r].kind = "revoke" => call[r].rows \subseteq Removed(r)
      BY DEF Removed
    <3> QED
      BY <1>1, <2>1, <2>2, <3>1 DEF RevokedGone
  <2>4. ASSUME call[r].kind = "accept", Intact(r), NEW i \in DOMAIN log, call[log[i]].kind = "revoke"
        PROVE  call[log[i]].rows # call[r].rows
    <3>1. call[log[i]].rows \subseteq db.deleted
      BY <2>4 DEF RevokedGone
    <3>2. graph[r] = db
      BY <1>3, <2>4, IntactCurrent DEF OrgActions
    <3>3. call[r].rows \cap db.deleted = {}
      BY <2>1, <3>2 DEF Authorized
    <3>4. call[r].rows # {}
      <4>1. call[r].rows \in Targets("accept")
        BY <2>4 DEF CallOK
      <4> QED
        BY <4>1 DEF Targets, InviteActions
    <3> QED
      BY <3>1, <3>3, <3>4
  <2>5. RevokedNeverAccepted'
    <3> SUFFICES ASSUME NEW i \in DOMAIN log', NEW j \in DOMAIN log', i < j, log'[j] \notin torn',
                        call[log'[i]].kind = "revoke", call[log'[j]].kind = "accept"
                 PROVE  call[log'[i]].rows # call[log'[j]].rows
      BY <2>1 DEF RevokedNeverAccepted
    <3>1. CASE j = Len(log) + 1
      <4>1. log'[j] = r /\ i \in DOMAIN log /\ log'[i] = log[i] /\ Intact(r)
        BY <2>1, <2>2, <3>1
      <4> QED
        BY <2>4, <4>1
    <3>2. CASE j # Len(log) + 1
      <4>1. i \in DOMAIN log /\ j \in DOMAIN log /\ log'[i] = log[i] /\ log'[j] = log[j] /\ log[j] \notin torn
        BY <2>1, <2>2, <3>2
      <4> QED
        BY <4>1 DEF RevokedNeverAccepted
    <3> QED
      BY <3>1, <3>2
  <2> QED
    BY <2>3, <2>5
<1>4. ASSUME NEW r \in Requests, Settles(r) PROVE RevokedGone' /\ RevokedNeverAccepted'
  BY <1>2, <1>4, SettlesFacts
<1> QED
  BY <1>2, <1>3, <1>4, StepKinds

\* Every step preserves the invariant.
LEMMA NextInv ==
  ASSUME IInv, [Next]_vars
  PROVE  IInv'
<1> USE DEF IInv
<1>1. TypeOK'
  BY NextType
<1>2. CallOK' /\ ConnOK' /\ GraphOK' /\ TxnOK' /\ LockOK'
  <2>1. CASE Still
    BY <2>1 DEF Still, session, CallOK, ConnOK, GraphOK, TxnOK, LockOK, Locked, Intact
  <2>2. ASSUME NEW r \in Requests, Acts(r) PROVE CallOK' /\ ConnOK' /\ GraphOK' /\ TxnOK' /\ LockOK'
    <3>1. \A p \in Requests \ {r} : Alone(p)
      BY <2>2, OthersAlone
    <3>2. CallOK'
      BY <2>2, <3>1, OwnState DEF CallOK, Alone
    <3>3. ConnOK'
      BY <2>2, <3>1, OwnState DEF ConnOK, Alone
    <3>4. GraphOK'
      BY <2>2, <3>1, OwnState DEF GraphOK, Alone
    <3> QED
      BY <2>2, <3>2, <3>3, <3>4, TxnStep, LockStep
  <2> QED
    BY <2>1, <2>2, NextActs
<1> QED
  BY <1>1, <1>2, LogStep, NoLostStep, RevokedStep

\* The inductive invariant holds in every reachable state, for any number of
\* requests, connections, rows and invites.
THEOREM Invariance == Spec => []IInv
BY InitInv, NextInv, PTL DEF Spec

\* No write to a row that is rewritten under its locks is lost, unless a request wrote
\* the row after another one had ended its transaction (handler.ts:176-192).
THEOREM NoLostWritesCorrect == Spec => []NoLostWrites
<1>1. IInv => NoLostWrites
  BY DEF IInv
<1> QED
  BY <1>1, Invariance, PTL

\* No acceptance commits in its own transaction after the revocation of its invite.
THEOREM RevokedNeverAcceptedCorrect == Spec => []RevokedNeverAccepted
<1>1. IInv => RevokedNeverAccepted
  BY DEF IInv
<1> QED
  BY <1>1, Invariance, PTL

-----------------------------------------------------------------------------
(***************************************************************************)
(* The plain rows implement the serial store.  A read of the graph is Read, *)
(* the commit of an org action in its own transaction is Write, that of    *)
(* any other request Record, a request that enters the history outside its *)
(* transaction is Spoil, and one that fails is Drop.                       *)
(***************************************************************************)
Content == [x \in PlainRows |-> IF x \in Exposed THEN {} ELSE db.rows[x]]
AnswerOf(r) == [x \in PlainRows |-> IF x \in Exposed THEN {} ELSE graph[r].rows[x]]
Answers == [r \in Requests |-> AnswerOf(r)]
Spoilt == Exposed \cap PlainRows

\* Reads and drops of the serial store in these terms.
LEMMA SerialState ==
  ASSUME NEW r \in Requests, UNCHANGED <<Content, log, Spoilt>>
  PROVE  /\ Answers[r] = Serial!Nothing /\ Answers' = [Answers EXCEPT ![r] = Content] => Serial!Read(r)
         /\ Answers' = [Answers EXCEPT ![r] = Serial!Nothing] => Serial!Drop(r)
BY DEF Serial!Read, Serial!Drop, Content, Answers, AnswerOf, Spoilt, Shown

\* The empty org graph is the empty serial store.
LEMMA InitRefines == Init => Serial!Init
BY PlainRowsFacts DEF Init, Serial!Init, Serial!Nothing, Shown, EmptyDb, Exposed

\* A step that changes the copy of one request changes its answer at most.
LEMMA AnswersKept ==
  ASSUME NEW r \in Requests, Exposed' = Exposed,
         \A q \in Requests \ {r} : graph'[q] = graph[q]
  PROVE  Answers' = [Answers EXCEPT ![r] = AnswerOf(r)']
<1>1. \A q \in Requests \ {r} : AnswerOf(q)' = AnswerOf(q)
  BY DEF AnswerOf
<1> QED
  BY <1>1 DEF Answers

\* What becomes of the copy of a request that neither enters the history nor stores.
LEMMA CopyKinds ==
  ASSUME IInv, NEW r \in Requests, Acts(r), ~Enters(r), ~Settles(r)
  PROVE  \/ \A x \in PlainRows : graph'[r].rows[x] = graph[r].rows[x]
         \/ graph'[r] = EmptyDb
         \/ graph[r] = EmptyDb /\ graph'[r] = db
<1> USE DEF IInv
<1>1. CASE \E kind \in Kinds : \E rows \in Targets(kind), base \in Bases(kind) : Arrive(r, kind, rows, base)
  BY <1>1 DEF Arrive
<1>2. CASE ReadOrg(r) \/ ReadInvite(r) \/ ReadUser(r) \/ Begin(r)
  BY <1>2 DEF ReadOrg, ReadInvite, ReadUser, Begin
<1>3. CASE RefuseAuth(r) \/ FailAuth(r) \/ Refuse(r) \/ Fail(r)
  BY <1>3 DEF TypeOK, RefuseAuth, FailAuth, Refuse, Fail, Forget
<1>4. CASE Unwind(r) \/ FailStore(r)
  BY <1>4 DEF TypeOK, Unwind, FailStore
<1>5. CASE GetOrgGraph(r)
  BY <1>5 DEF TypeOK, GetOrgGraph, GraphOK
<1>6. CASE Commit(r)
  <2>1. Written(r) = {} /\ graph'[r] = Updated(r)
    BY <1>6 DEF TypeOK, Commit, Enters, HasItems
  <2> QED
    BY <2>1, PlainWrites
<1> QED
  BY <1>1, <1>2, <1>3, <1>4, <1>5, <1>6 DEF Acts, Serve, Enters, Settles

\* Such a step is a read or a drop of the serial store, or not seen there.
LEMMA QuietRefines ==
  ASSUME IInv, [Next]_vars, NEW r \in Requests, Acts(r), ~Enters(r), ~Settles(r),
         db' = db, log' = log, torn' = torn
  PROVE  [Serial!Next]_(Serial!serialVars)
<1> USE DEF IInv
<1>1. Exposed' = Exposed
  BY ExposedKept
<1>2. UNCHANGED <<Content, log, Spoilt>>
  BY <1>1 DEF Content, Spoilt
<1>3. \A q \in Requests \ {r} : graph'[q] = graph[q]
  BY OthersAlone DEF Alone
<1>4. Answers' = [Answers EXCEPT ![r] = AnswerOf(r)']
  BY <1>1, <1>3, AnswersKept
<1>5. \A x \in PlainRows : EmptyDb.rows[x] = {}
  BY PlainRowsFacts DEF EmptyDb
<1>6. CASE \A x \in PlainRows : graph'[r].rows[x] = graph[r].rows[x]
  <2>1. AnswerOf(r)' = AnswerOf(r)
    BY <1>1, <1>6 DEF AnswerOf
  <2>2. Answers' = Answers
    BY <1>4, <2>1 DEF Answers
  <2> QED
    BY <1>2, <2>2 DEF Serial!serialVars, Content, Answers, AnswerOf, Spoilt, Shown
<1>7. CASE graph'[r] = EmptyDb
  <2>1. AnswerOf(r)' = Serial!Nothing
    BY <1>5, <1>7 DEF AnswerOf, Serial!Nothing
  <2> QED
    BY <1>2, <1>4, <2>1, SerialState DEF Serial!Next
<1>8. CASE graph[r] = EmptyDb /\ graph'[r] = db
  <2>1. Answers[r] = Serial!Nothing
    BY <1>5, <1>8 DEF Answers, AnswerOf, Serial!Nothing
  <2>2. AnswerOf(r)' = Content
    BY <1>1, <1>8 DEF AnswerOf, Content
  <2> QED
    BY <1>2, <1>4, <2>1, <2>2, SerialState DEF Serial!Next
<1> QED
  BY <1>6, <1>7, <1>8, CopyKinds

\* A request that enters the history in its own transaction writes or is recorded.
LEMMA WriteRefines ==
  ASSUME IInv, [Next]_vars, NEW r \in Requests, Acts(r), Enters(r), Intact(r)
  PROVE  [Serial!Next]_(Serial!serialVars)
<1> USE DEF IInv
<1>1. /\ r \notin Logged /\ log' = Append(log, r) /\ torn' = torn
      /\ graph' = [graph EXCEPT ![r] = Updated(r)]
  BY EntersFacts
<1>2. Exposed' = Exposed
  BY <1>1, ExposedKept
<1>3. Spoilt' = Spoilt
  BY <1>2 DEF Spoilt
<1>4. \A i \in DOMAIN log : log[i] # r
  BY <1>1 DEF Logged
<1>5. graph'[r] = Updated(r) /\ \A q \in Requests \ {r} : graph'[q] = graph[q]
  BY <1>1 DEF TypeOK
<1>6. Answers' = [Answers EXCEPT ![r] = AnswerOf(r)']
  BY <1>2, <1>5, AnswersKept
<1>7. \A x \in PlainRows \ Exposed :
        db'.rows[x] = IF x \in Written(r) THEN db.rows[x] \cup {r} ELSE db.rows[x]
  BY <1>2, EntersPlain
<1>8. CASE call[r].kind \in OrgActions
  <2> DEFINE S == (Written(r) \cap PlainRows) \ Exposed
  <2>1. graph[r] = db
    BY <1>8, IntactCurrent
  <2>2. S \in SUBSET (PlainRows \ Spoilt)
    BY DEF Spoilt
  <2>3. Content' = [x \in PlainRows |-> IF x \in S THEN Content[x] \cup {r} ELSE Content[x]]
    BY <1>2, <1>7 DEF Content
  <2>4. AnswerOf(r)' = Content'
    BY <1>2, <1>5, <1>7, <2>1, PlainWrites DEF AnswerOf, Content
  <2>5. Answers' = [Answers EXCEPT ![r] = Content']
    BY <1>6, <2>4
  <2> HIDE DEF S
  <2>6. Serial!Write(r)
    BY <1>1, <1>3, <1>4, <2>2, <2>3, <2>5
    DEF Serial!Write, Content, Answers, AnswerOf, Spoilt, Shown
  <2> QED
    BY <2>6 DEF Serial!Next
<1>9. CASE call[r].kind \notin OrgActions
  <2>1. Written(r) \cap PlainRows = {}
    BY <1>9, PlainWrites DEF OrgActions
  <2>2. Content' = Content
    BY <1>2, <1>7, <2>1 DEF Content
  <2>3. AnswerOf(r)' = AnswerOf(r)
    BY <1>2, <1>5, <2>1, PlainWrites DEF AnswerOf
  <2>4. Answers' = Answers
    BY <1>6, <2>3 DEF Answers
  <2>5. Serial!Record(r)
    BY <1>1, <1>3, <1>4, <2>2, <2>4
    DEF Serial!Record, Content, Answers, AnswerOf, Spoilt, Shown
  <2> QED
    BY <2>5 DEF Serial!Next
<1> QED
  BY <1>8, <1>9

\* A request that enters the history outside its own transaction spoils what it writes.
LEMMA SpoilRefines ==
  ASSUME IInv, [Next]_vars, NEW r \in Requests, Acts(r), Enters(r), ~Intact(r)
  PROVE  [Serial!Next]_(Serial!serialVars)
<1> USE DEF IInv
<1>1. /\ r \notin Logged /\ log' = Append(log, r) /\ torn' = torn \cup {r} /\ call' = call
      /\ graph' = [graph EXCEPT ![r] = Updated(r)]
  BY EntersFacts
<1>2. \A i \in DOMAIN log : log[i] # r
  BY <1>1 DEF Logged
<1>3. Written(r)' = Written(r)
  BY <1>1 DEF Written, InviteeOf
<1>4. \A q \in torn : Written(q)' = Written(q)
  BY LoggedKept DEF LogOK
<1>5. Spoilt' = Spoilt \cup (Written(r) \cap PlainRows)
  BY <1>1, <1>3, <1>4, PlainRowsFacts DEF Spoilt, Exposed
<1>6. graph'[r] = Updated(r) /\ \A q \in Requests \ {r} : graph'[q] = graph[q]
  BY <1>1 DEF TypeOK
<1>7. \A x \in PlainRows : x \in Exposed' <=> x \in Spoilt'
  BY DEF Spoilt
<1>8. \A x \in PlainRows : x \notin Spoilt' => x \notin Exposed /\ x \notin Written(r)
  BY <1>5 DEF Spoilt
<1>9. Content' = [x \in PlainRows |-> IF x \in Spoilt' THEN {} ELSE Content[x]]
  BY <1>7, <1>8, EntersPlain DEF Content
<1>10. Answers' = [q \in Requests |-> [x \in PlainRows |-> IF x \in Spoilt' THEN {} ELSE Answers[q][x]]]
  <2>1. ASSUME NEW q \in Requests
        PROVE  AnswerOf(q)' = [x \in PlainRows |-> IF x \in Spoilt' THEN {} ELSE AnswerOf(q)[x]]
    <3>1. \A x \in PlainRows : x \notin Written(r) => graph'[q].rows[x] = graph[q].rows[x]
      <4>1. \A x \in PlainRows : x \notin Written(r) => Updated(r).rows[x] = graph[r].rows[x]
        BY PlainWrites
      <4> HIDE DEF IInv
      <4>2. CASE q = r
        BY <1>6, <4>1, <4>2
      <4>3. CASE q # r
        BY <1>6, <4>3
      <4> QED
        BY <4>2, <4>3
    <3> QED
      BY <1>7, <1>8, <3>1 DEF AnswerOf
  <2> QED
    BY <2>1 DEF Answers
<1>11. Serial!Spoil(r)
  <2>1. \E S \in SUBSET PlainRows : Spoilt' = Spoilt \cup S
    BY <1>5
  <2> QED
    BY <1>1, <1>2, <1>9, <1>10, <2>1
    DEF Serial!Spoil, Content, Answers, AnswerOf, Spoilt, Shown
<1> QED
  BY <1>11 DEF Serial!Next

\* Every step of the pipeline is a step of the serial store, or changes nothing there.
LEMMA StepRefines ==
  ASSUME IInv, [Next]_vars
  PROVE  [Serial!Next]_(Serial!serialVars)
<1> USE DEF IInv
<1>1. CASE Still
  <2>1. UNCHANGED <<db, call, graph, log, torn>>
    BY <1>1 DEF Still
  <2>2. Exposed' = Exposed
    BY <2>1, ExposedKept
  <2> QED
    BY <2>1, <2>2 DEF Serial!serialVars, Shown
<1>2. ASSUME NEW r \in Requests, Acts(r), Settles(r) PROVE [Serial!Next]_(Serial!serialVars)
  <2>1. UNCHANGED <<graph, log, torn>> /\ \A x \in Rows \ Exposed : db'.rows[x] = db.rows[x]
    BY <1>2, SettlesFacts
  <2>2. Exposed' = Exposed
    BY <2>1, ExposedKept
  <2>3. Content' = Content /\ Answers' = Answers /\ Spoilt' = Spoilt
    BY <2>1, <2>2, PlainRowsFacts DEF Content, Answers, AnswerOf, Spoilt
  <2> QED
    BY <2>1, <2>3 DEF Serial!serialVars, Content, Answers, AnswerOf, Spoilt, Shown
<1>3. ASSUME NEW r \in Requests, Acts(r), ~Enters(r), ~Settles(r)
      PROVE  [Serial!Next]_(Serial!serialVars)
  <2>1. db' = db /\ log' = log /\ torn' = torn
    <3>1. CASE Commit(r)
      BY <1>3, <3>1, EmptyCommit DEF Enters
    <3>2. CASE ~Commit(r)
      BY <1>3, <3>2 DEF Enters, Settles, Acts, Serve, Arrive, ReadOrg, ReadInvite, ReadUser,
         RefuseAuth, FailAuth, Begin, GetOrgGraph, Refuse, Unwind, Fail, FailStore, Forget
    <3> QED
      BY <3>1, <3>2
  <2> QED
    BY <1>3, <2>1, QuietRefines
<1> QED
  BY <1>1, <1>2, <1>3, NextActs, WriteRefines, SpoilRefines

\* Whatever the interleaving, clients see plain rows change one commit at a time and
\* are answered with the graph of one instant, but for the rows that a request outside
\* its transaction has spoilt.
THEOREM Refinement == Spec => ImplementsSerialGraph
BY InitRefines, StepRefines, Invariance, PTL DEF Spec, ImplementsSerialGraph, Serial!Spec

-----------------------------------------------------------------------------
(***************************************************************************)
(* What can be lost and what a version promises: claims about the whole    *)
(* history of commits, proved by looking at the request that enters it:    *)
(* what it puts from a copy that is not the committed row, and whether its *)
(* stamp can be a version that a request was given before.                 *)
(***************************************************************************)

\* Request r may take what q wrote out of row x.
MayLose(q, r, x) ==
  \/ x \in call[r].rows /\ call[r].kind = "load"
  \/ x \in call[r].rows /\ call[r].kind = "accept" /\ call[q].kind = "load"
  \/ call[r].kind = "accept" /\ x \in InviteeOf(r)
  \/ x = OrgRow /\ call[r].kind \in {"load", "fetch"}
  \/ x = RbacStamp /\ q \notin auth[r].stamp

\* LostOnlyToUnlockedCopy in these terms.
LEMMA LostByMayLose ==
  LostOnlyToUnlockedCopy <=>
    \A i \in DOMAIN log : \A x \in Written(log[i]) \ Exposed : log[i] \notin db.rows[x] =>
      \E j \in i+1 .. Len(log) : MayLose(log[i], log[j], x)
BY DEF LostOnlyToUnlockedCopy, MayLose

\* The places of the history, and what stays of the requests in it.
LEMMA LogPlaces ==
  ASSUME IInv, [Next]_vars
  PROVE  /\ DOMAIN log = 1 .. Len(log) /\ Len(log) \in Nat
         /\ \A i \in DOMAIN log : log[i] \in Requests /\ log[i] \in Logged
         /\ \A q \in Logged : /\ call'[q] = call[q] /\ auth'[q] = auth[q]
                              /\ Written(q)' = Written(q) /\ InviteeOf(q)' = InviteeOf(q)
<1>1. \A i \in DOMAIN log : log[i] \in Logged
  BY DEF Logged
<1>2. log \in Seq(Requests)
  BY DEF IInv, TypeOK
<1>3. DOMAIN log = 1 .. Len(log) /\ Len(log) \in Nat
  BY <1>2, LenProperties
<1> QED
  BY <1>1, <1>3, LoggedKept DEF IInv

\* Who may have lost what does not change for the requests in the history.
LEMMA MayLoseKept ==
  ASSUME IInv, [Next]_vars, NEW q \in Logged, NEW r \in Logged, NEW x, MayLose(q, r, x)
  PROVE  MayLose(q, r, x)'
<1>1. /\ call'[q] = call[q] /\ call'[r] = call[r] /\ auth'[r] = auth[r]
      /\ InviteeOf(r)' = InviteeOf(r)
  BY LogPlaces
<1> QED
  BY <1>1 DEF MayLose

\* Where the unexposed rows and the history stay, nothing is lost.
LEMMA LostKept ==
  ASSUME IInv, LostOnlyToUnlockedCopy, [Next]_vars, log' = log, torn' = torn,
         \A x \in Rows \ Exposed : db'.rows[x] = db.rows[x]
  PROVE  LostOnlyToUnlockedCopy'
<1>1. Exposed' = Exposed
  BY ExposedKept DEF IInv
<1>2. \A i \in DOMAIN log : Written(log[i])' = Written(log[i])
  BY LogPlaces
<1> SUFFICES ASSUME NEW i \in DOMAIN log, NEW x \in Written(log[i])' \ Exposed', log[i] \notin db'.rows[x]
             PROVE  \E j \in i+1 .. Len(log) : MayLose(log[i], log[j], x)'
  BY DEF LostOnlyToUnlockedCopy, MayLose
<1>3. x \in Written(log[i]) \ Exposed
  BY <1>1, <1>2
<1>4. x \in Rows
  BY <1>3, LogPlaces, WrittenRows DEF IInv
<1>5. log[i] \notin db.rows[x]
  BY <1>3, <1>4
<1>6. PICK j \in i+1 .. Len(log) : MayLose(log[i], log[j], x)
  BY <1>3, <1>5, LostByMayLose
<1>7. j \in DOMAIN log
  BY <1>6, LogPlaces
<1> QED
  BY <1>6, <1>7, LogPlaces, MayLoseKept

\* A request that takes a write out of a row put the row from an unlocked copy.
LEMMA EntersLoses ==
  ASSUME IInv, NEW r \in Requests, Enters(r), Intact(r), NEW q \in Requests, NEW x \in Written(q),
         q \in db.rows[x], q \notin db'.rows[x]
  PROVE  MayLose(q, r, x)
<1> USE DEF IInv
<1>1. x \in Rows
  BY WrittenRows
<1>2. x \in Put(r) /\ q \notin Updated(r).rows[x]
  BY <1>1, EntersFacts
<1>3. HasItems(r) /\ Authorized(r)
  BY EntersFacts
<1>4. Updated(r).rows[x] = IF x \in Written(r) THEN Source(r, x) \cup {r}
                           ELSE IF x = RbacStamp THEN auth[r].stamp ELSE graph[r].rows[x]
  BY <1>1, <1>3 DEF Updated
<1>5. call[r].kind \in Kinds /\ call[r].rows \in Targets(call[r].kind)
      /\ (x \in Written(r) \/ x = OrgRow \/ x = RbacStamp)
  BY <1>2 DEF TypeOK, CallOK, Put
<1>6. CASE x = RbacStamp /\ x \notin Written(r)
  BY <1>2, <1>4, <1>6 DEF MayLose
<1>7. CASE x # RbacStamp \/ x \in Written(r)
  <2>1. call[r].kind \in OrgActions => graph[r] = db
    BY IntactCurrent
  <2>2. call[r].kind \in OrgActions => x \in Written(r) /\ Source(r, x) # graph[r].rows[x]
    BY <1>2, <1>4, <1>7, <2>1
  <2>3. x \in Written(r) \/ x = OrgRow
    BY <1>5, <1>7
  <2>7. CASE call[r].kind = "org" \/ call[r].kind = "revoke"
    BY <2>2, <2>7 DEF Source, InviteAuth, OrgActions
  <2>8. CASE call[r].kind = "accept"
    <3>1. (x \in call[r].rows /\ x \in Invites) \/ x \in InviteeOf(r)
      BY <2>2, <2>8 DEF Source, OrgActions, Written
    <3>2. ASSUME x \in call[r].rows, x \in Invites PROVE call[q].kind = "load"
      <4>1. call[q].kind \in Kinds /\ call[q].rows \in Targets(call[q].kind)
        BY DEF TypeOK, CallOK
      <4>2. x \notin OtherRows /\ x \notin {OrgRow, RbacStamp} /\ x \notin InviteeOf(q)
        BY <3>2, RowAssumption DEF InviteeOf
      <4>3. call[q].kind \in {"accept", "load"}
        <5>1. call[q].kind \in {"org", "accept", "load"} /\ x \in call[q].rows
          BY <4>2 DEF Written
        <5>2. call[q].kind = "org" => call[q].rows \subseteq OtherRows \cup {OrgRow, RbacStamp}
          BY <4>1 DEF Targets
        <5> QED
          BY <4>2, <5>1, <5>2
      <4>4. ~Accepted(db.rows[x])
        BY <1>3, <2>1, <2>8, <3>2 DEF Authorized, Live, OrgActions, InviteActions
      <4> QED
        BY <4>3, <4>4 DEF Accepted
    <3> QED
      BY <2>8, <3>1, <3>2 DEF MayLose
  <2>9. CASE call[r].kind = "load"
    BY <2>3, <2>9 DEF Written, MayLose
  <2>10. CASE call[r].kind = "fetch"
    BY <2>3, <2>10 DEF Written, MayLose
  <2>11. CASE call[r].kind = "session"
    BY <1>3, <2>11 DEF HasItems, Written, Removed, GraphActions, OrgActions
  <2> QED
    BY <1>5, <2>7, <2>8, <2>9, <2>10, <2>11 DEF Kinds, GraphActions, OrgActions
<1> QED
  BY <1>6, <1>7

\* What a request that enters the history takes out of a row it may lose.
LEMMA LostEnters ==
  ASSUME IInv, LostOnlyToUnlockedCopy, [Next]_vars, NEW r \in Requests, Enters(r)
  PROVE  LostOnlyToUnlockedCopy'
<1> USE DEF IInv
<1>1. /\ log' = Append(log, r) /\ call' = call /\ auth' = auth /\ HasItems(r)
      /\ torn' = (IF Intact(r) THEN torn ELSE torn \cup {r})
      /\ \A x \in Rows \ Touched(r) : db'.rows[x] = db.rows[x]
  BY EntersFacts
<1>2. /\ DOMAIN log = 1 .. Len(log) /\ Len(log) \in Nat
      /\ DOMAIN log' = 1 .. Len(log) + 1 /\ Len(log') = Len(log) + 1
      /\ \A i \in 1 .. Len(log) : log'[i] = log[i]
      /\ log'[Len(log) + 1] = r
  BY <1>1, LogGrows
<1>3. \A q : Written(q)' = Written(q) /\ InviteeOf(q)' = InviteeOf(q)
  BY <1>1 DEF Written, InviteeOf
<1>5. Exposed \subseteq Exposed' /\ (~Intact(r) => Touched(r) \subseteq Exposed')
  <2>1. Exposed \subseteq Exposed'
    BY <1>1, ExposedKept
  <2> QED
    BY <1>1, <1>3, <2>1 DEF Exposed, Touched
<1> SUFFICES ASSUME NEW i \in DOMAIN log', NEW x \in Written(log[i])' \ Exposed', log'[i] \notin db'.rows[x]
             PROVE  \E j \in i+1 .. Len(log') : MayLose(log[i], log[j], x)'
  BY DEF LostOnlyToUnlockedCopy, MayLose
<1>6. x \in Written(log'[i]) /\ x \notin Exposed /\ x \notin Exposed'
  BY <1>1, <1>5 DEF Written, InviteeOf
<1>7. CASE i = Len(log) + 1
  <2>1. x \in Written(r) /\ r \notin db'.rows[x] /\ Intact(r)
    BY <1>2, <1>5, <1>6, <1>7 DEF Touched
  <2>2. x \in Rows /\ x \in Put(r)
    BY <1>1, <2>1, WrittenRows DEF Put
  <2>3. db'.rows[x] = Updated(r).rows[x]
    BY <2>1, <2>2, EntersFacts
  <2>4. r \in Updated(r).rows[x]
    BY <2>1, <2>2 DEF Updated
  <2> QED
    BY <2>1, <2>3, <2>4
<1>8. CASE i \in 1 .. Len(log)
  <2>1. log'[i] = log[i] /\ log[i] \in Requests /\ x \in Written(log[i])
    BY <1>2, <1>6, <1>8, LogPlaces
  <2>2. CASE log[i] \notin db.rows[x]
    <3>1. PICK j \in i+1 .. Len(log) : MayLose(log[i], log[j], x)
      BY <1>2, <1>6, <1>8, <2>1, <2>2, LostByMayLose
    <3>2. j \in 1 .. Len(log) /\ j \in i+1 .. Len(log') /\ log'[j] = log[j]
      BY <1>2, <1>8
    <3>3. MayLose(log'[i], log'[j], x)
      BY <2>1, <3>1, <3>2
    <3>4. MayLose(log[i], log[j], x)'
      BY <1>1, <1>3, <3>3 DEF MayLose
    <3> QED
      BY <3>2, <3>4
  <2>3. CASE log[i] \in db.rows[x]
    <3>0. x \in Rows /\ Intact(r)
      <4>1. x \in Rows
        BY <2>1, WrittenRows
      <4>2. x \in Touched(r)
        BY <1>1, <2>1, <2>3, <4>1
      <4> QED
        BY <1>5, <1>6, <4>1, <4>2
    <3>1. MayLose(log[i], r, x)
      BY <2>1, <2>3, <3>0, EntersLoses
    <3>2. PICK n \in DOMAIN log' : n \in i+1 .. Len(log') /\ log'[n] = r
      BY <1>2, <1>8
    <3>3. MayLose(log'[i], log'[n], x)
      BY <2>1, <3>1, <3>2
    <3>4. MayLose(log[i], log[n], x)'
      BY <1>1, <1>3, <3>3 DEF MayLose
    <3> QED
      BY <3>2, <3>4
  <2> QED
    BY <2>2, <2>3
<1> QED
  BY <1>2, <1>7, <1>8

\* A write that is missing from its row was lost to a later LOAD_INVITE, ACCEPT_INVITE or
\* unlocked graph action that put the row from a copy read outside its locks, to the
\* stamp that any action writes back from auth.org (handler.ts:1006-1013), or to a
\* request outside its transaction that exposed the row.
THEOREM LostOnlyToUnlockedCopyCorrect == Spec => []LostOnlyToUnlockedCopy
<1>1. Init => LostOnlyToUnlockedCopy
  BY DEF Init, LostOnlyToUnlockedCopy
<1>2. IInv /\ LostOnlyToUnlockedCopy /\ [Next]_vars => LostOnlyToUnlockedCopy'
  <2> SUFFICES ASSUME IInv, LostOnlyToUnlockedCopy, [Next]_vars PROVE LostOnlyToUnlockedCopy'
    OBVIOUS
  <2>1. ASSUME NEW r \in Requests, Settles(r) PROVE LostOnlyToUnlockedCopy'
    BY <2>1, SettlesFacts, LostKept DEF IInv
  <2>2. CASE db' = db /\ log' = log /\ torn' = torn
    BY <2>2, LostKept
  <2>3. TypeOK
    BY DEF IInv
  <2> QED
    BY <2>1, <2>2, <2>3, StepKinds, LostEnters
<1> QED
  BY <1>1, <1>2, Invariance, PTL DEF Spec

-----------------------------------------------------------------------------
(* Versions. *)

Stamp(i) == call[log[i]].now

\* Time starts after the creation of the org, whose version no request has.
Clocked ==
  clock >= 1 /\ \A r \in Requests :
    pc[r] \in {"authenticating", "reading", "handling"} => call[r].now >= 1

\* Every version was the stamp of a commit, or is that of the org's creation.
Known(v) == v = 0 \/ \E i \in DOMAIN log : Stamp(i) = v
VersionsKnown == Known(db.version) /\ \A r \in Requests : Known(auth[r].version)

Reads == {"session", "fetch"}

\* The graph of request r has what its label stands for.
Fresh(r) ==
  \A i \in DOMAIN log : Stamp(i) = auth[r].version /\ r \notin Logged =>
    \A k \in 1 .. i : \A x \in Written(log[k]) \cap (PlainRows \ Exposed) :
      log[k] \in graph[r].rows[x]
FreshReads ==
  DistinctStamps =>
    \A r \in Requests : pc[r] \in {"handling", "answered"} /\ call[r].kind \in Reads => Fresh(r)

LabelInv == Clocked /\ VersionsKnown /\ FreshReads

\* At the start nothing is committed and every version is that of the org's creation.
LEMMA InitLabel == Init => LabelInv
BY DEF Init, LabelInv, Clocked, VersionsKnown, Known, FreshReads, NoAuth, EmptyDb

\* A request is left alone by the steps of the others.
LEMMA LeftAlone ==
  ASSUME IInv, [Next]_vars, NEW r \in Requests
  PROVE  Alone(r) \/ Acts(r)
<1>1. CASE Still
  BY <1>1 DEF Still, Alone, session
<1>2. ASSUME NEW q \in Requests, Acts(q) PROVE Alone(r) \/ Acts(r)
  BY <1>2, OthersAlone DEF IInv
<1> QED
  BY <1>1, <1>2, NextActs

\* The timestamp of a request at work is later than the creation of the org.
LEMMA ClockedStep ==
  ASSUME IInv, Clocked, [Next]_vars
  PROVE  Clocked'
<1> USE DEF IInv, TypeOK
<1>1. clock' >= 1
  <2>1. clock' = clock \/ clock' = clock + 1
    BY DEF Next, Serve, Tick, Arrive, ReadOrg, ReadInvite, ReadUser, RefuseAuth, FailAuth, Begin,
           GetOrgGraph, Refuse, Unwind, Fail, FailStore, Forget, Commit, Store, StoreRow, StoreOrg, vars
  <2> QED
    BY <2>1 DEF Clocked
<1>2. ASSUME NEW r \in Requests, pc'[r] \in {"authenticating", "reading", "handling"}
      PROVE  call'[r].now >= 1
  <2>1. ASSUME NEW kind \in Kinds, NEW rows \in Targets(kind), NEW base \in Bases(kind),
               Arrive(r, kind, rows, base)
        PROVE  call'[r].now >= 1
    BY <2>1 DEF Arrive, Clocked
  <2>2. CASE ReadOrg(r) \/ ReadInvite(r) \/ ReadUser(r) \/ Begin(r) \/ GetOrgGraph(r)
    <3>1. call' = call /\ pc[r] \in {"authenticating", "reading"}
      BY <2>2 DEF ReadOrg, ReadInvite, ReadUser, Begin, GetOrgGraph
    <3> QED
      BY <3>1 DEF Clocked
  <2>3. ASSUME RefuseAuth(r) \/ FailAuth(r) \/ Refuse(r) \/ Fail(r) \/ Unwind(r) \/ FailStore(r)
        PROVE FALSE
    BY <1>2, <2>3 DEF RefuseAuth, FailAuth, Refuse, Fail, Unwind, FailStore
  <2>4. ASSUME Commit(r) \/ StoreOrg(r) PROVE FALSE
    BY <1>2, <2>4, FinishAlone DEF Commit, StoreOrg
  <2>5. ASSUME Store(r) \/ StoreRow(r) PROVE FALSE
    BY <1>2, <2>5 DEF Store, StoreRow
  <2>6. CASE Alone(r)
    BY <1>2, <2>6 DEF Alone, Clocked
  <2> QED
    BY <2>1, <2>2, <2>3, <2>4, <2>5, <2>6, LeftAlone DEF Acts, Serve
<1> QED
  BY <1>1, <1>2 DEF Clocked

\* How the history grows: what was in it keeps its place, its stamp and its writes.
LEMMA LogKept ==
  ASSUME IInv, [Next]_vars
  PROVE  /\ DOMAIN log = 1 .. Len(log) /\ DOMAIN log' = 1 .. Len(log')
         /\ Len(log) \in Nat /\ Len(log') \in Nat /\ Len(log) <= Len(log')
         /\ torn \subseteq torn'
         /\ \A i \in DOMAIN log : /\ log'[i] = log[i] /\ log[i] \in Logged
                                  /\ Stamp(i)' = Stamp(i) /\ Written(log[i])' = Written(log[i])
         /\ \/ log' = log
            \/ \E q \in Requests : /\ Enters(q) /\ pc[q] = "handling" /\ call' = call
                                   /\ Len(log') = Len(log) + 1 /\ log'[Len(log) + 1] = q
<1>1. /\ DOMAIN log = 1 .. Len(log) /\ Len(log) \in Nat
      /\ \A i \in DOMAIN log : log[i] \in Logged
      /\ \A q \in Logged : call'[q] = call[q] /\ Written(q)' = Written(q)
  BY LogPlaces
<1>2. CASE log' = log /\ torn' = torn
  BY <1>1, <1>2 DEF Stamp
<1>3. ASSUME NEW q \in Requests, Enters(q)
      PROVE  /\ DOMAIN log' = 1 .. Len(log) + 1 /\ Len(log') = Len(log) + 1
             /\ torn \subseteq torn' /\ pc[q] = "handling" /\ call' = call
             /\ \A i \in 1 .. Len(log) : log'[i] = log[i]
             /\ log'[Len(log) + 1] = q
  <2>1. log' = Append(log, q) /\ call' = call /\ pc[q] = "handling" /\ torn \subseteq torn'
    BY <1>3, EntersFacts DEF IInv
  <2>2. TypeOK
    BY DEF IInv
  <2> QED
    BY <2>1, <2>2, LogGrows
<1>4. ASSUME NEW q \in Requests, Enters(q)
      PROVE  \A i \in DOMAIN log : Stamp(i)' = Stamp(i) /\ Written(log[i])' = Written(log[i])
  <2>1. \A i \in DOMAIN log : log'[i] = log[i]
    BY <1>1, <1>3, <1>4
  <2>2. call' = call
    BY <1>3, <1>4
  <2> QED
    BY <1>1, <2>1, <2>2 DEF Stamp, Written, InviteeOf
<1>5. ASSUME NEW q \in Requests, Settles(q) PROVE log' = log /\ torn' = torn
  BY <1>5, SettlesFacts DEF IInv
<1>6. CASE \E q \in Requests : Enters(q)
  <2>1. PICK q \in Requests : Enters(q)
    BY <1>6
  <2>2. Len(log') \in Nat /\ Len(log) <= Len(log') /\ DOMAIN log' = 1 .. Len(log')
    BY <1>1, <1>3, <2>1
  <2>3. torn \subseteq torn' /\ \A i \in DOMAIN log : log'[i] = log[i]
    BY <1>1, <1>3, <2>1
  <2> QED
    BY <1>1, <1>3, <1>4, <2>1, <2>2, <2>3
<1> QED
  BY <1>2, <1>5, <1>6, StepKinds DEF IInv

\* What is known stays known: the history only grows, and its stamps do not change.
LEMMA KnownKept ==
  ASSUME IInv, [Next]_vars, NEW v, Known(v)
  PROVE  Known(v)'
<1>1. \A i \in DOMAIN log : i \in DOMAIN log' /\ Stamp(i)' = Stamp(i)
  BY LogKept
<1> QED
  BY <1>1 DEF Known

\* Every version stays that of the creation or of a commit.
LEMMA VersionsStep ==
  ASSUME IInv, VersionsKnown, [Next]_vars
  PROVE  VersionsKnown'
<1> USE DEF IInv, TypeOK
<1>1. Known(db.version)'
  <2>1. Known(db.version)
    BY DEF VersionsKnown
  <2>2. ASSUME db'.version = db.version PROVE Known(db.version)'
    <3>1. \A v : Known(v) => Known(v)'
      BY KnownKept
    <3> QED
      BY <2>1, <2>2, <3>1 DEF Known
  <2>3. ASSUME NEW r \in Requests, r \in Logged', db'.version = call'[r].now PROVE Known(db.version)'
    BY <2>3 DEF Known, Stamp, Logged
  <2>4. ASSUME NEW r \in Requests, Commit(r), HasItems(r) PROVE Known(db.version)'
    <3>1. db'.version = call[r].now /\ log' = Append(log, r) /\ call' = call
      BY <2>4 DEF Commit
    <3>2. r \in Logged'
      BY <3>1, LogGrows
    <3> QED
      BY <2>3, <3>1, <3>2
  <2>5. ASSUME NEW r \in Requests, Store(r) PROVE Known(db.version)'
    <3>1. db' = [db EXCEPT !.deleted = @ \cup Removed(r)]
      BY <2>5 DEF Store
    <3>2. db \in [rows : [Rows -> SUBSET Requests], deleted : SUBSET Rows, version : Nat]
      BY DEF Snapshot
    <3> QED
      BY <2>2, <3>1, <3>2
  <2>6. ASSUME NEW r \in Requests, StoreRow(r) PROVE Known(db.version)'
    <3>1. PICK x \in pending[r] : db' = [db EXCEPT !.rows = [@ EXCEPT ![x] = graph[r].rows[x]]]
      BY <2>6 DEF StoreRow
    <3>2. db \in [rows : [Rows -> SUBSET Requests], deleted : SUBSET Rows, version : Nat]
      BY DEF Snapshot
    <3> QED
      BY <2>2, <3>1, <3>2
  <2>7. ASSUME NEW r \in Requests, StoreOrg(r) PROVE Known(db.version)'
    <3>1. db'.version = call[r].now /\ call' = call /\ log' = log /\ pc[r] = "storing"
      BY <2>7 DEF StoreOrg
    <3>2. r \in Logged'
      BY <3>1 DEF LogOK, Logged
    <3> QED
      BY <2>3, <3>1, <3>2
  <2>8. CASE db' = db
    BY <2>2, <2>8
  <2> QED
    BY <2>4, <2>5, <2>6, <2>7, <2>8, StepKinds DEF Enters, Settles
<1>2. ASSUME NEW r \in Requests PROVE Known(auth[r].version)'
  <2>1. auth'[r].version \in {auth[r].version, db.version, 0}
    <3>1. ASSUME NEW kind \in Kinds, NEW rows \in Targets(kind), NEW base \in Bases(kind),
                 Arrive(r, kind, rows, base)
          PROVE  auth' = auth
      BY <3>1 DEF Arrive
    <3>2. CASE ReadOrg(r)
      <4> DEFINE one == [auth[r] EXCEPT !.version = db.version]
                 new == [one EXCEPT !.stamp = db.rows[RbacStamp]]
      <4>1. auth'[r] = new
        BY <3>2, Zenon DEF ReadOrg
      <4>2. auth[r] \in AuthReads
        BY DEF AuthReads
      <4>3. one.version = db.version
        BY ONLY <4>2 DEF AuthReads
      <4>4. one = [version |-> db.version, stamp |-> auth[r].stamp,
                   invite |-> auth[r].invite, user |-> auth[r].user]
        BY ONLY <4>2 DEF AuthReads
      <4> HIDE DEF one
      <4>5. new.version = one.version
        BY <4>4
      <4> QED
        BY <4>1, <4>3, <4>5
    <3>3. CASE ReadInvite(r)
      BY <3>3 DEF ReadInvite
    <3>4. CASE ReadUser(r)
      BY <3>4 DEF ReadUser
    <3>5. ASSUME RefuseAuth(r) \/ FailAuth(r) \/ Refuse(r) \/ Fail(r) PROVE auth'[r].version = 0
      BY <3>5 DEF RefuseAuth, FailAuth, Refuse, Fail, Forget, NoAuth
    <3>6. CASE Begin(r) \/ GetOrgGraph(r) \/ Unwind(r) \/ FailStore(r) \/ Commit(r) \/ Store(r)
               \/ StoreRow(r) \/ StoreOrg(r)
      BY <3>6 DEF Begin, GetOrgGraph, Unwind, FailStore, Commit, Store, StoreRow, StoreOrg
    <3> QED
      BY <3>1, <3>2, <3>3, <3>4, <3>5, <3>6, LeftAlone DEF Acts, Serve, Alone
  <2>2. Known(auth[r].version) /\ Known(db.version) /\ Known(0)
    BY DEF VersionsKnown, Known
  <2>3. ASSUME NEW v, v = auth'[r].version, Known(v) PROVE Known(auth[r].version)'
    <3>1. Known(v)'
      BY <2>3, KnownKept
    <3> QED
      BY <2>3, <3>1 DEF Known
  <2> QED
    BY <2>1, <2>2, <2>3
<1> QED
  BY <1>1, <1>2 DEF VersionsKnown

\* A graph read now has every committed write to the rows that are not exposed.
LEMMA FreshNow ==
  ASSUME IInv, NEW k \in DOMAIN log, NEW x \in Written(log[k]) \cap (PlainRows \ Exposed)
  PROVE  log[k] \in db.rows[x]
BY DEF IInv, NoLostWrites, WritersOf

\* The copy of a reading request, once it has one, keeps its plain rows.
LEMMA ReadCopy ==
  ASSUME IInv, [Next]_vars, NEW r \in Requests, pc'[r] \in {"handling", "answered"},
         call'[r].kind \in Reads, r \notin Logged, NEW x \in PlainRows
  PROVE  /\ auth'[r] = auth[r] /\ call'[r] = call[r]
         /\ \/ pc[r] \in {"handling", "answered"} /\ graph'[r].rows[x] = graph[r].rows[x]
            \/ log' = log /\ torn' = torn /\ graph'[r] = db
<1> USE DEF IInv, TypeOK
<1>2. ASSUME NEW kind \in Kinds, NEW rows \in Targets(kind), NEW base \in Bases(kind),
             Arrive(r, kind, rows, base)
      PROVE  FALSE
  BY <1>2 DEF Arrive
<1>3. ASSUME RefuseAuth(r) \/ FailAuth(r) \/ Begin(r) \/ Refuse(r) \/ Fail(r) \/ Unwind(r)
             \/ FailStore(r) \/ Store(r)
      PROVE FALSE
  BY <1>3 DEF RefuseAuth, FailAuth, Begin, Refuse, Fail, Unwind, FailStore, Store
<1>4. ASSUME ReadOrg(r) \/ ReadInvite(r) \/ ReadUser(r) PROVE FALSE
  BY <1>4 DEF ReadOrg, ReadInvite, ReadUser
<1>5. ASSUME StoreRow(r) \/ StoreOrg(r) PROVE FALSE
  BY <1>5 DEF StoreRow, StoreOrg, LogOK
<1>6. CASE GetOrgGraph(r)
  BY <1>6 DEF GetOrgGraph
<1>7. CASE Commit(r)
  <2>1. /\ call' = call /\ auth' = auth /\ pc[r] = "handling"
        /\ graph' = [graph EXCEPT ![r] = Updated(r)]
    BY <1>7 DEF Commit
  <2>2. x \notin Written(r)
    BY <2>1 DEF Written, Reads
  <2>3. Updated(r).rows[x] = graph[r].rows[x]
    BY <2>2, PlainWrites
  <2> QED
    BY <2>1, <2>3
<1>8. CASE Alone(r)
  BY <1>8 DEF Alone
<1> QED
  BY <1>2, <1>3, <1>4, <1>5, <1>6, <1>7, <1>8, LeftAlone DEF Acts, Serve

\* A version that was read before is not the stamp of a request that enters now.
LEMMA LabelIsOld ==
  ASSUME IInv, LabelInv, [Next]_vars, DistinctStamps', NEW r \in Requests,
         NEW i \in DOMAIN log', Stamp(i)' = auth[r].version
  PROVE  i \in DOMAIN log
<1> SUFFICES ASSUME i \notin DOMAIN log PROVE FALSE
  OBVIOUS
<1>1. /\ DOMAIN log = 1 .. Len(log) /\ DOMAIN log' = 1 .. Len(log')
      /\ Len(log) \in Nat /\ Len(log') \in Nat
  BY LogKept
<1>2. PICK q \in Requests : /\ pc[q] = "handling" /\ call' = call
                            /\ Len(log') = Len(log) + 1 /\ log'[Len(log) + 1] = q
  BY LogKept
<1>3. i = Len(log) + 1
  BY <1>1, <1>2
<1>4. Stamp(i)' = call[q].now /\ call[q].now >= 1
  BY <1>2, <1>3 DEF Stamp, LabelInv, Clocked
<1>5. PICK j \in DOMAIN log : Stamp(j) = auth[r].version
  <2>1. auth[r].version # 0
    BY <1>4
  <2> QED
    BY <2>1 DEF LabelInv, VersionsKnown, Known
<1>6. j \in DOMAIN log' /\ j # i
  BY <1>1, <1>2, <1>3, <1>5
<1>7. Stamp(j)' = Stamp(i)'
  BY <1>5, LogKept
<1> QED
  BY <1>6, <1>7 DEF DistinctStamps, Stamp

\* The graph of a reading request keeps what its label stands for.
LEMMA FreshStep ==
  ASSUME IInv, LabelInv, [Next]_vars
  PROVE  FreshReads'
<1>1. DistinctStamps' => DistinctStamps
  <2>1. \A i \in DOMAIN log : i \in DOMAIN log' /\ call'[log'[i]].now = call[log[i]].now
    BY LogKept DEF Stamp
  <2> QED
    BY <2>1 DEF DistinctStamps
<1> SUFFICES ASSUME DistinctStamps', NEW r \in Requests, pc'[r] \in {"handling", "answered"},
                    call'[r].kind \in Reads, NEW i \in DOMAIN log', Stamp(i)' = auth'[r].version,
                    r \notin Logged', NEW k \in 1 .. i,
                    NEW x \in Written(log[k])' \cap (PlainRows \ Exposed')
             PROVE  log'[k] \in graph'[r].rows[x]
  BY DEF FreshReads, Fresh
<1>2. r \notin Logged /\ x \in PlainRows
  BY LogKept DEF Logged
<1>3. auth'[r] = auth[r] /\ call'[r] = call[r]
  BY <1>2, ReadCopy
<1>4. i \in DOMAIN log
  BY <1>3, LabelIsOld
<1>5. k \in DOMAIN log
  BY <1>4, LogKept
<1>6. Exposed \subseteq Exposed'
  BY LogKept, ExposedKept DEF IInv
<1>7. log'[k] = log[k] /\ x \in Written(log[k]) \cap (PlainRows \ Exposed)
  BY <1>5, <1>6, LogKept
<1>8. CASE graph'[r] = db
  BY <1>5, <1>7, <1>8, FreshNow
<1>9. CASE pc[r] \in {"handling", "answered"} /\ graph'[r].rows[x] = graph[r].rows[x]
  <2>1. Stamp(i) = auth[r].version
    BY <1>3, <1>4, LogKept
  <2>2. Fresh(r)
    BY <1>1, <1>3, <1>9 DEF LabelInv, FreshReads
  <2>3. log[k] \in graph[r].rows[x]
    BY <1>2, <1>4, <1>7, <2>1, <2>2 DEF Fresh
  <2> QED
    BY <1>7, <1>9, <2>3
<1> QED
  BY <1>2, <1>8, <1>9, ReadCopy

\* Where stamps differ, the graph that GET_SESSION and FETCH_ENVS answer with has every
\* write up to the version they label it with, in the rows that nobody wrote outside
\* a transaction: authenticate reads the version before the graph.
THEOREM ReadLabelCorrect == Spec => []ReadLabelNotAhead
<1>1. IInv /\ LabelInv /\ [Next]_vars => LabelInv'
  BY ClockedStep, VersionsStep, FreshStep DEF LabelInv
<1>2. LabelInv => ReadLabelNotAhead
  <2> SUFFICES ASSUME LabelInv, DistinctStamps, NEW r \in Requests, pc[r] = "answered",
                      call[r].kind \in {"session", "fetch"}, NEW i \in DOMAIN log,
                      call[log[i]].now = auth[r].version, \A j \in DOMAIN log : log[j] # r,
                      NEW k \in 1 .. i, NEW x \in Written(log[k]) \cap (PlainRows \ Exposed)
               PROVE  log[k] \in graph[r].rows[x]
    BY DEF ReadLabelNotAhead
  <2>1. r \notin Logged
    BY DEF Logged
  <2>2. Fresh(r)
    BY DEF LabelInv, FreshReads, Reads
  <2> QED
    BY <2>1, <2>2 DEF Fresh, Stamp
<1> QED
  BY <1>1, <1>2, InitLabel, Invariance, PTL DEF Spec

=============================================================================

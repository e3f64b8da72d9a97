------------------------- MODULE OrgTransactions -------------------------
(***************************************************************************)
(* The request pipeline of the EnvKey API server for the graph of one      *)
(* organisation (app/api/shared/src/handler.ts, auth.ts, db.ts, graph.ts). *)
(*                                                                         *)
(* The graph is a table of rows: the org's own row, the rows of invites    *)
(* (device grants are handled alike) and the rows of everything else       *)
(* (users, apps, grants, groups ...).  A row is abstracted to the set of   *)
(* requests whose write its content reflects, so that a write lost to a    *)
(* concurrent one shows as a missing member.  The one field kept apart is  *)
(* graphUpdatedAt of the org's row, the version clients are checked with.  *)
(*                                                                         *)
(* One request is one run of handleAction: it takes its timestamp, reads   *)
(* what it authenticates with outside any transaction, reads the graph     *)
(* (under row locks when it is an org action), runs its handler on that    *)
(* copy, and writes back the rows that changed.  All but the reads of       *)
(* authentication happens on one connection of the pool, a MySQL session,  *)
(* whose transaction the request starts and ends.  The error path gives    *)
(* that connection back twice, so that two requests can get the same one:  *)
(* each then ends the other's transaction with its own.                    *)
(***************************************************************************)
EXTENDS Naturals, FiniteSets, Sequences

CONSTANTS
  Requests,    \* the requests the server serves
  Sessions,    \* the connections of the pool, each a session of the database
  OrgRow,      \* the row of the org object
  RbacStamp,   \* its field rbacUpdatedAt, as a row of its own
  Invites,     \* the rows of the org's invites
  OtherRows,   \* the other rows of the org graph
  Invitee,     \* the user row each invite belongs to
  ExpiresAt,   \* the time each invite expires
  MaxRows,     \* bound: rows one org action rewrites
  MaxClock,    \* bound: the last value of the server's clock
  NoRequest,   \* the owner of no transaction
  NoSession    \* the connection of a request without one

Rows == {OrgRow, RbacStamp} \cup Invites \cup OtherRows

\* Rows that nobody rewrites from a copy read outside its own locks.
PlainRows == OtherRows \ {Invitee[i] : i \in Invites}

ASSUME RowAssumption ==
  /\ Invites \cap OtherRows = {}
  /\ OrgRow \notin Invites \cup OtherRows
  /\ RbacStamp \notin {OrgRow} \cup Invites \cup OtherRows
  /\ Invitee \in [Invites -> OtherRows]

ASSUME NumberAssumption ==
  /\ ExpiresAt \in [Invites -> Nat]
  /\ MaxRows \in Nat
  /\ MaxClock \in Nat

ASSUME RequestAssumption == NoRequest \notin Requests /\ NoSession \notin Sessions

(***************************************************************************)
(* The actions of the API, by the way they use the graph:                  *)
(*   org      any other action with loggableType orgAction, single or bulk *)
(*            (with RbacStamp among its rows: one configured as rbacUpdate)  *)
(*   revoke   REVOKE_INVITE                                                *)
(*   accept   ACCEPT_INVITE                                                *)
(*   load     LOAD_INVITE                                                  *)
(*   fetch    FETCH_ENVS                                                   *)
(*   session  GET_SESSION                                                  *)
(***************************************************************************)
OrgActions    == {"org", "revoke", "accept"}
GraphActions  == OrgActions \cup {"load", "fetch"}
PoolReaders   == {"org", "load", "fetch"}  \* may query the pool beside their connection
InviteActions == {"revoke", "accept", "load"}
InviteAuth    == {"accept", "load"}
Kinds         == GraphActions \cup {"session"}

\* The rows a request of each kind is about.
Targets(kind) ==
  IF kind = "org"
  THEN {S \in SUBSET (OtherRows \cup {OrgRow, RbacStamp}) : S # {} /\ Cardinality(S) <= MaxRows}
  ELSE IF kind \in InviteActions THEN {{i} : i \in Invites} ELSE {{}}

VARIABLES
  clock,    \* Date.now()
  db,       \* the committed rows: content, soft-deleted rows, graphUpdatedAt
  lock,     \* the session that holds the row locks of SELECT ... FOR UPDATE
  free,     \* how often each session is on the pool's list of free connections
  txn,      \* the request whose START TRANSACTION opened the session's transaction
  conn,     \* the session each request works on
  pc,       \* where each request is in handleAction
  call,     \* what each request asks for, and the time it arrived at
  pending,  \* the reads of authenticate(), then the rows to store, still to come
  auth,     \* what authenticate() read: the org's version and stamp, the invite, its user
  graph,    \* the org graph each request works on
  log,      \* history: the requests whose writes were committed, in order
  torn      \* history: those of them that wrote outside their own transaction

session == <<lock, free, txn, conn>>
vars == <<clock, db, session, pc, call, pending, auth, graph, log, torn>>

EmptyDb == [rows |-> [x \in Rows |-> {}], deleted |-> {}, version |-> 0]
NoCall  == [kind |-> "session", rows |-> {}, base |-> 0, now |-> 0]
NoAuth  == [version |-> 0, stamp |-> {}, invite |-> {}, user |-> {}]

Init ==
  /\ clock = 1    \* the org was created at time 0
  /\ db = EmptyDb
  /\ lock = NoSession
  /\ free = [s \in Sessions |-> 1]
  /\ txn = [s \in Sessions |-> NoRequest]
  /\ conn = [r \in Requests |-> NoSession]
  /\ pc = [r \in Requests |-> "idle"]
  /\ call = [r \in Requests |-> NoCall]
  /\ pending = [r \in Requests |-> {}]
  /\ auth = [r \in Requests |-> NoAuth]
  /\ graph = [r \in Requests |-> EmptyDb]
  /\ log = <<>>
  /\ torn = {}

\* The versions a client can have been given: that of the org when it was created
\* and those of the commits.  Only the checked actions look at what is sent.
Bases(kind) ==
  IF kind \in OrgActions THEN {0} \cup {call[log[i]].now : i \in DOMAIN log} ELSE {0}

-----------------------------------------------------------------------------
(***************************************************************************)
(* What a handler sees in a row, and what it computes.                     *)
(***************************************************************************)
Accepted(row) == \E q \in row : call[q].kind = "accept"
Loaded(row)   == \E q \in row : call[q].kind = "load"

\* An invite that can still be used, in a copy g of the graph at time t.
Live(g, i, t) == i \notin g.deleted /\ ~Accepted(g.rows[i]) /\ t < ExpiresAt[i]

\* deleteExpiredAuthObjects: of the expired invites of a user, all but the last.
Expired(g, t) ==
  {i \in Invites \ g.deleted : ~Accepted(g.rows[i]) /\ t >= ExpiresAt[i]}
Surplus(g, t) ==
  {i \in Expired(g, t) :
     \E j \in Expired(g, t) : Invitee[j] = Invitee[i] /\ ExpiresAt[j] > ExpiresAt[i]}

InviteeOf(r) == {Invitee[i] : i \in call[r].rows \cap Invites}

\* Mutant: the authorizer trusts the invite that authenticate() has checked.
AuthorizedOnce(r) ==
  /\ call[r].kind \notin InviteActions => call[r].rows \cap graph[r].deleted = {}
  /\ call[r].kind = "accept" => \A i \in call[r].rows : Loaded(graph[r].rows[i])

\* The version check, then the authorizer of each kind on the graph just read.
Current(r) == call[r].kind \in OrgActions => call[r].base = auth[r].version
Authorized(r) ==
  LET g == graph[r] IN
  /\ call[r].rows \cap g.deleted = {}
  /\ call[r].kind \in InviteActions =>
       \A i \in call[r].rows : Live(g, i, call[r].now)
  /\ call[r].kind = "accept" => \A i \in call[r].rows : Loaded(g.rows[i])

\* Rows the handler rewrites, and rows it soft-deletes.
Written(r) ==
  (IF call[r].kind \in {"org", "accept", "load"} THEN call[r].rows ELSE {})
    \cup (IF call[r].kind = "accept" THEN InviteeOf(r) ELSE {})
Removed(r) ==
  (IF call[r].kind = "revoke" THEN call[r].rows \cup InviteeOf(r) ELSE {})
    \cup (IF call[r].kind \in GraphActions THEN Surplus(graph[r], call[r].now) ELSE {})
HasItems(r) == Written(r) \cup Removed(r) # {}

\* The copy a rewritten row is spread from: authenticate()'s for the invite and
\* its user, the graph's for any other.  A new stamp stands for all before it.
Source(r, x) ==
  IF call[r].kind \in InviteAuth /\ x \in Invites THEN auth[r].invite
  ELSE IF call[r].kind = "accept" /\ x \in InviteeOf(r) THEN auth[r].user
  ELSE graph[r].rows[x]

\* The graph after the handler.  If anything changed the org row is stamped, and
\* but for an rbacUpdate its rbacUpdatedAt is the one authenticate() read.
Updated(r) ==
  [rows    |-> [x \in Rows |-> IF x \in Written(r) THEN Source(r, x) \cup {r}
                               ELSE IF x = RbacStamp /\ HasItems(r) THEN auth[r].stamp
                               ELSE graph[r].rows[x]],
   deleted |-> graph[r].deleted \cup Removed(r),
   version |-> IF HasItems(r) THEN call[r].now ELSE graph[r].version]

\* Mutant: the transaction puts every row of the graph it worked on.
PutWholeGraph(r) == IF HasItems(r) THEN Rows ELSE {}

\* The rows the transaction puts: those that changed, and the whole org row.
Put(r) == IF HasItems(r) THEN Written(r) \cup {OrgRow, RbacStamp} ELSE {}

-----------------------------------------------------------------------------
(***************************************************************************)
(* The session of a request.                                               *)
(***************************************************************************)
\* Another request's packet of statements is not at work on session s.
Ready(r, s) == \A q \in Requests \ {r} : conn[q] = s => pc[q] # "storing"

\* The rows are locked by no other session than that of r.
Unlocked(r) == lock \in {conn[r], NoSession}

\* Mutant: the connection is given back in the middle of its transaction.
LeaveTransaction(s) ==
  /\ UNCHANGED <<txn, lock>>
  /\ free' = [free EXCEPT ![s] = @ + 1]

\* COMMIT or ROLLBACK ends the transaction the session is in, whoever started it,
\* and frees its locks; then the connection is released to the pool.
EndTransaction(s) ==
  /\ txn' = [txn EXCEPT ![s] = NoRequest]
  /\ lock' = IF lock = s THEN NoSession ELSE lock
  /\ free' = [free EXCEPT ![s] = @ + 1]

\* A request that failed before it wrote leaves nothing behind.
Forget(r) ==
  /\ call' = [call EXCEPT ![r] = NoCall]
  /\ pending' = [pending EXCEPT ![r] = {}]
  /\ auth' = [auth EXCEPT ![r] = NoAuth]
  /\ graph' = [graph EXCEPT ![r] = EmptyDb]
  /\ UNCHANGED <<clock, db, log, torn>>

-----------------------------------------------------------------------------
(***************************************************************************)
(* handleAction.                                                           *)
(***************************************************************************)
Tick == clock < MaxClock /\ clock' = clock + 1
        /\ UNCHANGED <<db, session, pc, call, pending, auth, graph, log, torn>>

\* Mutant: a server whose clock is behind the one that created the org.
ArriveBehind(r, kind, rows, base) ==
  /\ pc[r] = "idle"
  /\ call' = [call EXCEPT ![r] = [kind |-> kind, rows |-> rows, base |-> base, now |-> clock - 2]]
  /\ pc' = [pc EXCEPT ![r] = "authenticating"]
  /\ pending' = [pending EXCEPT ![r] =
       IF kind \in InviteAuth THEN {"org", "invite", "user"} ELSE {"org"}]
  /\ UNCHANGED <<clock, db, session, auth, graph, log, torn>>

Arrive(r, kind, rows, base) ==
  /\ pc[r] = "idle"
  /\ call' = [call EXCEPT ![r] = [kind |-> kind, rows |-> rows, base |-> base, now |-> clock]]
  /\ pc' = [pc EXCEPT ![r] = "authenticating"]
  /\ pending' = [pending EXCEPT ![r] =
       IF kind \in InviteAuth THEN {"org", "invite", "user"} ELSE {"org"}]
  /\ UNCHANGED <<clock, db, session, auth, graph, log, torn>>

\* authenticate() reads the org and the invite side by side, then the user.
ReadOrg(r) ==
  /\ pc[r] = "authenticating" /\ "org" \in pending[r]
  /\ auth' = [auth EXCEPT ![r] =
       [@ EXCEPT !.version = db.version, !.stamp = db.rows[RbacStamp]]]
  /\ pending' = [pending EXCEPT ![r] = @ \ {"org"}]
  /\ UNCHANGED <<clock, db, session, pc, call, graph, log, torn>>

ReadInvite(r) ==
  /\ pc[r] = "authenticating" /\ "invite" \in pending[r]
  /\ \E i \in call[r].rows :
       /\ Live(db, i, call[r].now)
       /\ auth' = [auth EXCEPT ![r] = [@ EXCEPT !.invite = db.rows[i]]]
  /\ pending' = [pending EXCEPT ![r] = @ \ {"invite"}]
  /\ UNCHANGED <<clock, db, session, pc, call, graph, log, torn>>

ReadUser(r) ==
  /\ pc[r] = "authenticating" /\ pending[r] = {"user"}
  /\ \E u \in InviteeOf(r) :
       /\ u \notin db.deleted
       /\ auth' = [auth EXCEPT ![r] = [@ EXCEPT !.user = db.rows[u]]]
  /\ pending' = [pending EXCEPT ![r] = {}]
  /\ UNCHANGED <<clock, db, session, pc, call, graph, log, torn>>

\* The invite is gone, used or expired, or its user is gone: 404 or 401, before
\* the request has a connection.
RefuseAuth(r) ==
  /\ pc[r] = "authenticating"
  /\ \/ "invite" \in pending[r] /\ \E i \in call[r].rows : ~Live(db, i, call[r].now)
     \/ pending[r] = {"user"} /\ InviteeOf(r) \cap db.deleted # {}
  /\ pc' = [pc EXCEPT ![r] = "failed"]
  /\ Forget(r)
  /\ UNCHANGED session

\* getConnection takes a connection from the free list.  START TRANSACTION commits
\* the transaction that is open on it, if any, and frees its locks.
Begin(r) ==
  /\ pc[r] = "authenticating" /\ pending[r] = {}
  /\ \E s \in Sessions :
       /\ free[s] > 0 /\ Ready(r, s)
       /\ free' = [free EXCEPT ![s] = @ - 1]
       /\ conn' = [conn EXCEPT ![r] = s]
       /\ txn' = [txn EXCEPT ![s] = r]
       /\ lock' = IF lock = s THEN NoSession ELSE lock
  /\ pc' = [pc EXCEPT ![r] = "reading"]
  /\ UNCHANGED <<clock, db, call, pending, auth, graph, log, torn>>

\* Mutant: the rows are read without FOR UPDATE.
GetOrgGraphUnlocked(r) ==
  /\ pc[r] = "reading" /\ Ready(r, conn[r])
  /\ graph' = [graph EXCEPT ![r] = db]
  /\ pc' = [pc EXCEPT ![r] = "handling"]
  /\ UNCHANGED <<clock, db, session, call, pending, auth, log, torn>>

\* getOrgGraph: FOR UPDATE waits for the row locks and, in a transaction, takes them.
GetOrgGraph(r) ==
  /\ pc[r] = "reading" /\ Ready(r, conn[r])
  /\ IF call[r].kind \in OrgActions
     THEN Unlocked(r) /\ lock' = IF txn[conn[r]] # NoRequest THEN conn[r] ELSE lock
     ELSE UNCHANGED lock
  /\ graph' = [graph EXCEPT ![r] = db]
  /\ pc' = [pc EXCEPT ![r] = "handling"]
  /\ UNCHANGED <<clock, db, free, txn, conn, call, pending, auth, log, torn>>

\* "client graph outdated" (400) or "Unauthorized" (403): apiErr ends the transaction
\* and releases the connection, and the catch of handleAction has yet to.
Refuse(r) ==
  /\ pc[r] = "handling" /\ Ready(r, conn[r])
  /\ ~(Current(r) /\ Authorized(r))
  /\ EndTransaction(conn[r])
  /\ pc' = [pc EXCEPT ![r] = "unwinding"]
  /\ Forget(r)
  /\ UNCHANGED conn

\* The catch of handleAction: apiErr once more, on a connection that was released.
Unwind(r) ==
  /\ pc[r] = "unwinding" /\ Ready(r, conn[r])
  /\ EndTransaction(conn[r])
  /\ conn' = [conn EXCEPT ![r] = NoSession]
  /\ pc' = [pc EXCEPT ![r] = "failed"]
  /\ graph' = [graph EXCEPT ![r] = EmptyDb]
  /\ UNCHANGED <<clock, db, call, pending, auth, log, torn>>

\* After its last statement a request releases its connection.  Its response is
\* sent, or a postUpdateAction throws and handleAction catches that.
Finish(r) ==
  /\ EndTransaction(conn[r])
  /\ \/ /\ pc' = [pc EXCEPT ![r] = "answered"]
        /\ conn' = [conn EXCEPT ![r] = NoSession]
     \/ /\ pc' = [pc EXCEPT ![r] = "unwinding"]
        /\ UNCHANGED conn

\* Mutant: the answer is labelled with the version the org has at the end.
CommitRelabelled(r) ==
  /\ pc[r] = "handling" /\ Ready(r, conn[r])
  /\ Current(r) /\ Authorized(r)
  /\ HasItems(r) => Unlocked(r) /\ txn[conn[r]] # NoRequest
  /\ db' = [rows    |-> [x \in Rows |-> IF x \in Put(r) THEN Updated(r).rows[x] ELSE db.rows[x]],
            deleted |-> db.deleted \cup Removed(r),
            version |-> IF HasItems(r) THEN call[r].now ELSE db.version]
  /\ log' = IF HasItems(r) THEN Append(log, r) ELSE log
  /\ torn' = IF HasItems(r) /\ txn[conn[r]] # r THEN torn \cup {r} ELSE torn
  /\ graph' = [graph EXCEPT ![r] = Updated(r)]
  /\ Finish(r)
  /\ auth' = [auth EXCEPT ![r] = [@ EXCEPT !.version = db.version]]
  /\ UNCHANGED <<clock, call, pending>>

\* executeTransactionStatements in a transaction: the statements need the row locks
\* of what they write, and COMMIT makes them visible at once and frees the locks.
Commit(r) ==
  /\ pc[r] = "handling" /\ Ready(r, conn[r])
  /\ Current(r) /\ Authorized(r)
  /\ HasItems(r) => Unlocked(r) /\ txn[conn[r]] # NoRequest
  /\ db' = [rows    |-> [x \in Rows |-> IF x \in Put(r) THEN Updated(r).rows[x] ELSE db.rows[x]],
            deleted |-> db.deleted \cup Removed(r),
            version |-> IF HasItems(r) THEN call[r].now ELSE db.version]
  /\ log' = IF HasItems(r) THEN Append(log, r) ELSE log
  /\ torn' = IF HasItems(r) /\ txn[conn[r]] # r THEN torn \cup {r} ELSE torn
  /\ graph' = [graph EXCEPT ![r] = Updated(r)]
  /\ Finish(r)
  /\ UNCHANGED <<clock, call, pending, auth>>

\* executeTransactionStatements when another request has ended the transaction: the
\* session commits each statement by itself, first those that soft-delete, ...
Store(r) ==
  /\ pc[r] = "handling" /\ Ready(r, conn[r])
  /\ Current(r) /\ Authorized(r)
  /\ HasItems(r) /\ Unlocked(r) /\ txn[conn[r]] = NoRequest
  /\ db' = [db EXCEPT !.deleted = @ \cup Removed(r)]
  /\ log' = Append(log, r)
  /\ torn' = torn \cup {r}
  /\ graph' = [graph EXCEPT ![r] = Updated(r)]
  /\ pending' = [pending EXCEPT ![r] = Written(r) \ {OrgRow, RbacStamp}]
  /\ pc' = [pc EXCEPT ![r] = "storing"]
  /\ UNCHANGED <<clock, session, call, auth>>

\* ... then the puts of the rows that changed ...
StoreRow(r) ==
  /\ pc[r] = "storing" /\ Unlocked(r)
  /\ \E x \in pending[r] :
       /\ db' = [db EXCEPT !.rows = [@ EXCEPT ![x] = graph[r].rows[x]]]
       /\ pending' = [pending EXCEPT ![r] = @ \ {x}]
  /\ UNCHANGED <<clock, session, pc, call, auth, graph, log, torn>>

\* ... and last the org row with the version.
StoreOrg(r) ==
  /\ pc[r] = "storing" /\ Unlocked(r) /\ pending[r] = {}
  /\ db' = [rows    |-> [x \in Rows |-> IF x \in {OrgRow, RbacStamp} THEN graph[r].rows[x]
                                        ELSE db.rows[x]],
            deleted |-> db.deleted,
            version |-> call[r].now]
  /\ Finish(r)
  /\ UNCHANGED <<clock, call, pending, auth, graph, log, torn>>

\* A request fails before it has a connection.
FailAuth(r) ==
  /\ pc[r] = "authenticating"
  /\ pc' = [pc EXCEPT ![r] = "failed"]
  /\ Forget(r)
  /\ UNCHANGED session

\* It fails before its statements: by a throw that only handleAction turns into an
\* apiErr, or by an apiErr of its own, which handleAction repeats.
Fail(r) ==
  /\ pc[r] \in {"reading", "handling"} /\ Ready(r, conn[r])
  /\ EndTransaction(conn[r])
  /\ \/ pc' = [pc EXCEPT ![r] = "unwinding"] /\ UNCHANGED conn
     \/ pc' = [pc EXCEPT ![r] = "failed"] /\ conn' = [conn EXCEPT ![r] = NoSession]
  /\ Forget(r)

\* One of the statements that are committed by themselves fails.
FailStore(r) ==
  /\ pc[r] = "storing"
  /\ EndTransaction(conn[r])
  /\ pc' = [pc EXCEPT ![r] = "unwinding"]
  /\ pending' = [pending EXCEPT ![r] = {}]
  /\ graph' = [graph EXCEPT ![r] = EmptyDb]
  /\ UNCHANGED <<clock, db, conn, call, auth, log, torn>>

Serve(r) ==
  \/ ReadOrg(r) \/ ReadInvite(r) \/ ReadUser(r) \/ RefuseAuth(r)
  \/ Begin(r) \/ GetOrgGraph(r) \/ Refuse(r) \/ Unwind(r)
  \/ Commit(r) \/ Store(r) \/ StoreRow(r) \/ StoreOrg(r)

Next ==
  \/ Tick
  \/ \E r \in Requests :
       \/ \E kind \in Kinds : \E rows \in Targets(kind), base \in Bases(kind) :
            Arrive(r, kind, rows, base)
       \/ Serve(r)
       \/ FailAuth(r) \/ Fail(r) \/ FailStore(r)

\* Reads beside the request's connection wait until the pool has one to spare.
QueriesPool(r) ==
  pc[r] = "authenticating" \/ (pc[r] = "handling" /\ call[r].kind \in PoolReaders)
PoolEmpty == \A s \in Sessions : free[s] = 0

\* Every asynchronous step of a request ends: it returns or it throws.
Fairness == \A r \in Requests : WF_vars(Serve(r) /\ (QueriesPool(r) => ~PoolEmpty))

Spec     == Init /\ [][Next]_vars
FairSpec == Spec /\ Fairness

-----------------------------------------------------------------------------
Snapshot == [rows : [Rows -> SUBSET Requests], deleted : SUBSET Rows, version : Nat]

\* The shape of the state.
TypeOK ==
  /\ clock \in Nat
  /\ db \in Snapshot
  /\ lock \in Sessions \cup {NoSession}
  /\ free \in [Sessions -> Nat]
  /\ txn \in [Sessions -> Requests \cup {NoRequest}]
  /\ conn \in [Requests -> Sessions \cup {NoSession}]
  /\ pc \in [Requests -> {"idle", "authenticating", "reading", "handling", "storing",
                          "unwinding", "answered", "failed"}]
  /\ call \in [Requests -> [kind : Kinds, rows : SUBSET Rows, base : Nat, now : Nat]]
  /\ pending \in [Requests -> SUBSET ({"org", "invite", "user"} \cup Rows)]
  /\ auth \in [Requests -> [version : Nat, stamp : SUBSET Requests,
                            invite : SUBSET Requests, user : SUBSET Requests]]
  /\ graph \in [Requests -> Snapshot]
  /\ log \in Seq(Requests)
  /\ torn \in SUBSET Requests

\* Who wrote row x, by the history of commits.
WritersOf(x) == {log[i] : i \in {j \in DOMAIN log : x \in Written(log[j])}}

\* Rows that a request put outside its own transaction, after another request on
\* the same session had ended that (two requests share a session after an error).
Exposed == UNION {Written(q) \cup {OrgRow, RbacStamp} : q \in torn}

\* A row that is only ever rewritten under its locks reflects every committed
\* write to it and nothing else, however the requests interleave: FOR UPDATE
\* serialises the org actions, and the unlocked ones put only rows they changed.
\* Only a request that wrote it outside its own transaction can spoil a row.
NoLostWrites == \A x \in PlainRows \ Exposed : db.rows[x] = WritersOf(x)

\* Where a committed write can be lost, only a later request that spread the row
\* from a copy read outside its locks can have lost it: LOAD_INVITE anything in
\* the invite (it spreads auth.invite), ACCEPT_INVITE that the invite was loaded
\* and anything in the invited user (it spreads auth.user), an unlocked graph
\* action anything in the org row, which is put whole, and any action the stamp of
\* an rbacUpdate that was committed after it had read auth.org.
LostOnlyToUnlockedCopy ==
  \A i \in DOMAIN log : \A x \in Written(log[i]) \ Exposed : log[i] \notin db.rows[x] =>
    \E j \in i+1 .. Len(log) :
      \/ x \in call[log[j]].rows /\ call[log[j]].kind = "load"
      \/ x \in call[log[j]].rows /\ call[log[j]].kind = "accept" /\ call[log[i]].kind = "load"
      \/ call[log[j]].kind = "accept" /\ x \in InviteeOf(log[j])
      \/ x = OrgRow /\ call[log[j]].kind \in {"load", "fetch"}
      \/ x = RbacStamp /\ log[i] \notin auth[log[j]].stamp

\* Once the revocation of an invite is committed no acceptance of it commits,
\* although the accepting request was authenticated before (REVOKE_INVITE and
\* ACCEPT_INVITE race), and although a racing LOAD_INVITE puts the row again:
\* unless another request had ended the accepting one's transaction.
RevokedNeverAccepted ==
  \A i, j \in DOMAIN log :
    /\ i < j /\ log[j] \notin torn
    /\ call[log[i]].kind = "revoke" /\ call[log[j]].kind = "accept"
    => call[log[i]].rows # call[log[j]].rows

\* Requests stamped in the same millisecond get the same version.
DistinctStamps ==
  \A i, j \in DOMAIN log : i # j => call[log[i]].now # call[log[j]].now

\* GET_SESSION and FETCH_ENVS label a graph with a version read before it, so the
\* graph holds at least what the version stands for (in the rows that were written
\* in their transactions): a client can be told it is outdated when it is not,
\* never the opposite.
ReadLabelNotAhead ==
  DistinctStamps =>
    \A r \in Requests : pc[r] = "answered" /\ call[r].kind \in {"session", "fetch"} =>
      \A i \in DOMAIN log :
        call[log[i]].now = auth[r].version /\ (\A j \in DOMAIN log : log[j] # r) =>
          \A k \in 1 .. i : \A x \in Written(log[k]) \cap (PlainRows \ Exposed) :
            log[k] \in graph[r].rows[x]

\* handler.ts:630: "force latest graph for all graph actions (unless they
\* explicitly opt-out)": a checked action commits only on the graph version its
\* client had.
LatestGraphForced ==
  [][\A r \in Requests : Commit(r) /\ call[r].kind \in OrgActions =>
       call[r].base = graph[r].version]_vars

\* The pool has run dry: every request that holds a connection waits for another
\* one, or for the locks of one that does.
Starved ==
  PoolEmpty /\ \A r \in Requests : conn[r] # NoSession => QueriesPool(r) \/ ~Unlocked(r)

\* Whatever fails on the way, no request that reached the server waits for the
\* row locks for ever: every way out of a transaction frees them.  It can wait for
\* ever for a connection, once all are held by requests that wait for one more.
EveryRequestEnds ==
  \A r \in Requests :
    pc[r] = "authenticating" ~> pc[r] \in {"answered", "failed"} \/ Starved

\* What the plain rows promise: they change one commit at a time, and every
\* answer shows the graph of one instant (SerialGraph).
Shown(g) == [x \in PlainRows |-> IF x \in Exposed THEN {} ELSE g.rows[x]]

Serial == INSTANCE SerialGraph WITH
  content <- Shown(db),
  answer  <- [r \in Requests |-> Shown(graph[r])],
  spoilt  <- Exposed \cap PlainRows

ImplementsSerialGraph == Serial!Spec
=============================================================================

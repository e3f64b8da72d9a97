----------------------------- MODULE GraphSync -----------------------------
(***************************************************************************)
(* How the graph of a client follows the server's: answers to its updates  *)
(* carry diffs (dispatch and the reducer of core_process/src/handler.ts),  *)
(* those to GET_SESSION a whole graph (handlers/sessions.ts).  After a     *)
(* commit the server tells the other clients that are connected            *)
(* (resolveSocketUpdates, sendOrgUpdate), and they fetch a session a       *)
(* moment later (handlers/socket.ts).  A client also fetches one when the  *)
(* process starts, was suspended, or reaches the host again                *)
(* (refresh_sessions.ts, connection_status.ts), but not when its socket is *)
(* open again (org_sockets.ts).                                            *)
(*                                                                         *)
(* Clients meet only at the server, so there is one client, and the        *)
(* commits of all others.  The graph is the set of the versions that are   *)
(* in it.  A request reads the org, which tells the version, before it     *)
(* reads the graph; what is one step here is several in OrgTransactions.   *)
(***************************************************************************)
EXTENDS Naturals

CONSTANTS
  MaxVersion,   \* bound: the last version
  MaxFaults     \* bound: outages and lost answers or messages

ASSUME SyncAssumption == MaxVersion \in Nat \ {0} /\ MaxFaults \in Nat

VARIABLES
  version,      \* graphUpdatedAt of the server's org
  announcing,   \* commits of others that are not yet announced
  graph,        \* the client's graph
  label,        \* its graphUpdatedAt
  calls,        \* its requests
  notice,       \* a socket message is on its way
  timer,        \* fetchTimeouts: the client is about to fetch because of a message
  due,          \* refreshSessions is about to fetch
  outage,       \* why the socket is down: the network, or the client is or was away
  away,         \* the client is suspended or cannot reach the host
  missed,       \* history: what went wrong since the graph was last complete
  raced,        \* history: an update was committed on a newer graph than the one it
                \* was checked against, an answer overwrote a newer graph
  faults        \* bound

clientState == <<graph, label, missed, raced>>
connection == <<notice, timer, due, outage, away>>
vars == <<version, announcing, clientState, calls, connection, faults>>

\* The user's update with its refreshes, the fetch after a message, and that of
\* refreshSessions go on side by side.
Slots == {"user", "socket", "resume"}
Server == 1 .. version

\* base: the version the request was sent with.  label: the version the server read, then
\* the one of its answer.  content: the versions in the answer.
Call(ph, kind, base) == [ph |-> ph, kind |-> kind, base |-> base, label |-> 0, content |-> {}]
Idle == Call("idle", "session", 0)
Session == Call("sent", "session", 0)
Update == Call("sent", "update", label)
Jitter == Call("jitter", "update", 0)
Served(s, ph, l, content) ==
  [ph |-> ph, kind |-> calls[s].kind, base |-> calls[s].base, label |-> l, content |-> content]

Init ==
  /\ version = 1 /\ announcing = {}
  /\ graph = Server /\ label = version /\ missed = {} /\ raced = {}
  /\ calls = [s \in Slots |-> Idle]
  /\ notice = FALSE /\ timer = FALSE
  /\ due = TRUE                        \* the process has just started
  /\ outage = "none" /\ away = FALSE
  /\ faults = 0

-----------------------------------------------------------------------------
At(s, ph) == calls[s].ph = ph
Goto(s, call) == calls' = [calls EXCEPT ![s] = call]
Fault == faults < MaxFaults /\ faults' = faults + 1
Misses(why) == missed' = IF graph = Server THEN missed ELSE missed \cup {why}

\* Another client commits; its request has then still to announce it.
OtherCommits ==
  /\ version < MaxVersion
  /\ version' = version + 1
  /\ announcing' = announcing \cup {version'}
  /\ UNCHANGED <<clientState, calls, connection, faults>>

\* Mutant: clients that fetch are not told.
AnnounceToIdle(v) ==
  /\ v \in announcing
  /\ announcing' = announcing \ {v}
  /\ IF outage = "none" THEN /\ notice' = (notice \/ At("socket", "idle")) /\ UNCHANGED missed
                        ELSE /\ UNCHANGED notice /\ Misses(outage)
  /\ UNCHANGED <<version, graph, label, raced, calls, timer, due, outage, away, faults>>

\* Mutant: the message is queued for a socket that is down.
AnnounceToAll(v) ==
  /\ v \in announcing
  /\ announcing' = announcing \ {v} /\ notice' = TRUE
  /\ UNCHANGED <<version, clientState, calls, timer, due, outage, away, faults>>

\* resolveSocketUpdates, to the devices that are connected by now.
Announce(v) ==
  /\ v \in announcing
  /\ announcing' = announcing \ {v}
  /\ IF outage = "none" THEN notice' = TRUE /\ UNCHANGED missed
                        ELSE UNCHANGED notice /\ Misses(outage)
  /\ UNCHANGED <<version, graph, label, raced, calls, timer, due, outage, away, faults>>

\* postUpdateActions fail, or the post to a peer of the cluster.
NotAnnounced(v) ==
  /\ v \in announcing /\ Fault
  /\ announcing' = announcing \ {v}
  /\ Misses("unsent")
  /\ UNCHANGED <<version, graph, label, raced, calls, connection>>

-----------------------------------------------------------------------------
\* The user's action, dispatched with the version the client has.
UserUpdate ==
  /\ ~away /\ At("user", "idle") /\ version < MaxVersion
  /\ Goto("user", Update)
  /\ UNCHANGED <<version, announcing, clientState, connection, faults>>

\* authenticate reads the org.
Authenticate(s) ==
  /\ At(s, "sent")
  /\ Goto(s, Served(s, "read", version, {}))
  /\ UNCHANGED <<version, announcing, clientState, connection, faults>>

\* GET_SESSION reads the graph.
GetSession(s) ==
  /\ At(s, "read") /\ calls[s].kind = "session"
  /\ Goto(s, Served(s, "graph", calls[s].label, Server))
  /\ UNCHANGED <<version, announcing, clientState, connection, faults>>

Races(how, happens) == raced' = IF happens THEN raced \cup {how} ELSE raced

\* Mutant: the version is not compared.
CommitUnchecked(s) ==
  /\ At(s, "read") /\ calls[s].kind = "update" /\ version < MaxVersion
  /\ version' = version + 1
  /\ Races("unlocked", version # calls[s].label)
  /\ Goto(s, Served(s, "diffs", version', {version'}))
  /\ UNCHANGED <<missed, faults, announcing, graph, label, connection>>

\* An update is committed on the server's graph, whatever the version compared.  When
\* postUpdateActions fail, the client is told of an error.
Commit(s) ==
  /\ At(s, "read") /\ calls[s].kind = "update" /\ calls[s].base = calls[s].label
  /\ version < MaxVersion
  /\ version' = version + 1
  /\ Races("unlocked", version # calls[s].label)
  /\ \/ Goto(s, Served(s, "diffs", version', {version'})) /\ UNCHANGED <<missed, faults>>
     \/ Fault /\ Goto(s, Idle) /\ missed' = missed \cup {"lost"}
  /\ UNCHANGED <<announcing, graph, label, connection>>

\* The server refuses: the user is told.
Refuse(s) ==
  /\ At(s, "read") /\ calls[s].kind = "update" /\ calls[s].base = calls[s].label
  /\ version = MaxVersion
  /\ Goto(s, Idle)
  /\ UNCHANGED <<version, announcing, clientState, connection, faults>>

\* "client graph outdated": the client refreshes its session.
Outdated(s) ==
  /\ ~away /\ At(s, "read") /\ calls[s].kind = "update" /\ calls[s].base # calls[s].label
  /\ Goto(s, Session)
  /\ UNCHANGED <<version, announcing, clientState, connection, faults>>

\* After the refresh and the jitter.
Retry(s) ==
  /\ ~away /\ At(s, "jitter")
  /\ Goto(s, Update)
  /\ UNCHANGED <<version, announcing, clientState, connection, faults>>

\* The client's graph is g from now on.
Becomes(g, l) ==
  /\ graph' = g /\ label' = l
  /\ missed' = IF g = Server THEN {}
               ELSE IF graph \subseteq g THEN missed ELSE missed \cup {"overtaken"}
  /\ Races("overtaken", ~(graph \subseteq g))

\* GET_SESSION succeeds; in the user's slot it is the refresh before a retry.
ReceiveGraph(s) ==
  /\ ~away /\ At(s, "graph")
  /\ Becomes(calls[s].content, calls[s].label)
  /\ Goto(s, IF s = "user" THEN Jitter ELSE Idle)
  /\ UNCHANGED <<version, announcing, connection, faults>>

\* The diffs are those of the commit alone, and applied to the graph the client has by
\* now.
ReceiveDiffs(s) ==
  /\ ~away /\ At(s, "diffs")
  /\ Becomes(graph \cup calls[s].content, calls[s].label)
  /\ Goto(s, Idle)
  /\ UNCHANGED <<version, announcing, connection, faults>>

\* An answer is lost or an error.
Lose(s) ==
  /\ calls[s].ph \in {"graph", "diffs"} /\ Fault
  /\ Goto(s, Idle)
  /\ Misses("lost")
  /\ UNCHANGED <<version, announcing, graph, label, raced, connection>>

-----------------------------------------------------------------------------
\* RECEIVED_ORG_SOCKET_MESSAGE sets the timer, again if it was set.
Deliver ==
  /\ ~away /\ notice
  /\ notice' = FALSE /\ timer' = TRUE
  /\ UNCHANGED <<version, announcing, clientState, calls, due, outage, away, faults>>

\* Bound: one fetch of a kind at a time.
TimerOver ==
  /\ ~away /\ timer /\ At("socket", "idle")
  /\ timer' = FALSE /\ Goto("socket", Session)
  /\ UNCHANGED <<version, announcing, clientState, notice, due, outage, away, faults>>

RefreshSession ==
  /\ ~away /\ due /\ At("resume", "idle")
  /\ due' = FALSE /\ Goto("resume", Session)
  /\ UNCHANGED <<version, announcing, clientState, notice, timer, outage, away, faults>>

\* The socket closes for itself, because the host is out of reach, or the process sleeps.
GoDown(why) ==
  /\ outage = "none" /\ Fault
  /\ outage' = why /\ away' = (why # "dropped")
  /\ notice' = FALSE
  /\ IF notice THEN Misses(why) ELSE UNCHANGED missed
  /\ UNCHANGED <<version, announcing, graph, label, raced, calls, timer, due>>

\* Mutant: nothing is fetched by a client that was away.
ComeBackQuietly ==
  /\ away
  /\ away' = FALSE
  /\ UNCHANGED <<version, announcing, clientState, calls, notice, timer, due, outage, faults>>

\* connectionCheck finds the host reachable, or checkSuspendedLoop that time has passed.
ComeBack ==
  /\ away
  /\ away' = FALSE /\ due' = TRUE
  /\ UNCHANGED <<version, announcing, clientState, calls, notice, timer, outage, faults>>

\* The socket is open again: nothing is fetched.
Reconnect ==
  /\ ~away /\ outage # "none"
  /\ outage' = "none"
  /\ UNCHANGED <<version, announcing, clientState, calls, notice, timer, due, away, faults>>

Handle(s) == Authenticate(s) \/ GetSession(s) \/ Commit(s) \/ Refuse(s) \/ Outdated(s)
Receive(s) == ReceiveGraph(s) \/ ReceiveDiffs(s) \/ Retry(s)

Next ==
  \/ OtherCommits \/ \E v \in announcing : Announce(v) \/ NotAnnounced(v)
  \/ UserUpdate \/ \E s \in Slots : Handle(s) \/ Receive(s) \/ Lose(s)
  \/ Deliver \/ TimerOver \/ RefreshSession
  \/ \E why \in {"dropped", "away"} : GoDown(why)
  \/ ComeBack \/ Reconnect

\* Requests are handled, timers fire, outages end.
Spec ==
  /\ Init /\ [][Next]_vars
  /\ WF_vars(\E v \in announcing : Announce(v))
  /\ WF_vars(Deliver) /\ WF_vars(TimerOver) /\ WF_vars(RefreshSession)
  /\ WF_vars(ComeBack) /\ WF_vars(Reconnect)
  /\ \A s \in Slots : WF_vars(Handle(s)) /\ WF_vars(Receive(s))

-----------------------------------------------------------------------------
Calls ==
  [ph : {"idle", "sent", "read", "graph", "diffs", "jitter"}, kind : {"update", "session"},
   base : 0 .. MaxVersion, label : 0 .. MaxVersion, content : SUBSET (1 .. MaxVersion)]

\* The shape of the state; a client that is away has no socket.
TypeOK ==
  /\ version \in 1 .. MaxVersion /\ announcing \subseteq Server
  /\ graph \subseteq Server /\ label \in graph
  /\ missed \subseteq {"dropped", "away", "unsent", "lost", "overtaken"}
  /\ calls \in [Slots -> Calls]
  /\ raced \subseteq {"unlocked", "overtaken"}
  /\ notice \in BOOLEAN /\ timer \in BOOLEAN /\ due \in BOOLEAN /\ away \in BOOLEAN
  /\ outage \in {"none", "dropped", "away"}
  /\ (away => outage # "none") /\ (notice => outage = "none")
  /\ faults \in 0 .. MaxFaults

\* Nothing that concerns the client is on its way.
Quiet ==
  /\ announcing = {} /\ ~notice /\ ~timer /\ ~due /\ outage = "none"
  /\ \A s \in Slots : At(s, "idle")

\* A client at rest has the server's graph, unless a message or an answer did not reach
\* it, or an older answer overwrote what it had.
StaleOnlyIfMissed == Quiet /\ missed = {} => graph = Server

\* The graph has all that its label promises, unless one of the two races has happened:
\* then the client may lack a change and yet be accepted as current by the server.
HolesNeedRaces == raced = {} => 1 .. label \subseteq graph

\* What was committed while a client was away reaches it when it is back.
CatchesUp == \A v \in 1 .. MaxVersion :
  away /\ v <= version ~> v \in graph \/ missed \cap {"lost", "overtaken"} # {}
=============================================================================

---------------------------- MODULE OrgSockets ----------------------------
(***************************************************************************)
(* The web sockets that tell devices their org changed: the client side of *)
(* app/client/core_process/src/org_sockets.ts and the server side of       *)
(* app/api/runtimes/express/src/socket.ts.                                 *)
(*                                                                         *)
(* Each device has one account.  A socket is a slot with its two endpoints *)
(* and the network between them; the endpoints learn of each other's end   *)
(* only by events, in any order.  On the client the entries sockets[...]   *)
(* and retryTimeouts[...] decide whether a new socket is opened, on the    *)
(* server connections[org][user][device] is the socket updates go to.      *)
(***************************************************************************)
EXTENDS Naturals, FiniteSets

CONSTANTS
  Devices,
  UserOf,      \* the user each device belongs to
  Slots,       \* bound: sockets of one device at a time
  None,        \* no socket
  MaxPending,  \* bound: calls of connectSocket that sleep side by side
  MaxFaults    \* bound: broken networks, refusals, restarts, forced closes

ASSUME SocketAssumption ==
  /\ None \notin Slots
  /\ MaxPending \in Nat \ {0} /\ MaxFaults \in Nat

VARIABLES
  sock,       \* sockets[userId] of each client
  timer,      \* retryTimeouts[userId]: none, armed, or fired and not yet deleted
  pending,    \* calls of connectSocket that are in their jitter wait
  reachable,  \* whether the client believes its host can be reached
  link,       \* the sockets: client end, server end, and whether the network is up
  conns,      \* connections[org][user][device] of the server
  gaveUp,     \* history: a 401 ended the client's last attempt to connect
  faults      \* bound

socketsVars == <<sock, timer, pending, reachable, link, conns, gaveUp, faults>>

Unused == [client |-> "closed", server |-> "ended", up |-> FALSE]
Fresh  == [client |-> "open", server |-> "none", up |-> TRUE]

\* Both ends are done with the socket, or the server never saw it.
Dead(l) == l.client = "closed" /\ (l.server \in {"ended", "refused"} \/ (l.server = "none" /\ ~l.up))
Reuse(links) == [s \in Slots |-> IF Dead(links[s]) THEN Unused ELSE links[s]]

SocketsInit ==
  /\ sock = [d \in Devices |-> None]
  /\ timer = [d \in Devices |-> "none"]
  /\ pending = [d \in Devices |-> 1]     \* initSocketsAndTimers
  /\ reachable = [d \in Devices |-> TRUE]
  /\ link = [d \in Devices |-> [s \in Slots |-> Unused]]
  /\ conns = [d \in Devices |-> None]
  /\ gaveUp = [d \in Devices |-> FALSE]
  /\ faults = 0

-----------------------------------------------------------------------------
(* The client. *)

\* Mutant: the retry timer is not cleared by the socket it opened.
NewSocketKeepsTimer(d) ==
  \E s \in Slots :
    /\ link[d][s] = Unused
    /\ link' = [link EXCEPT ![d][s] = Fresh]
    /\ sock' = [sock EXCEPT ![d] = s]
    /\ gaveUp' = [gaveUp EXCEPT ![d] = FALSE]
    /\ UNCHANGED timer

\* The second half of connectSocket: sockets[...] is overwritten, whatever it held.
NewSocket(d) ==
  \E s \in Slots :
    /\ link[d][s] = Unused
    /\ link' = [link EXCEPT ![d][s] = Fresh]
    /\ sock' = [sock EXCEPT ![d] = s]
    /\ timer' = [timer EXCEPT ![d] = "none"]
    /\ gaveUp' = [gaveUp EXCEPT ![d] = FALSE]

\* clearSocket: the socket of the entry is closed and its listeners are removed.
Cleared(d) == [s \in Slots |-> IF s = sock[d] THEN [link[d][s] EXCEPT !.client = "closed"]
                               ELSE link[d][s]]

CanConnect(d) == sock[d] = None /\ timer[d] = "none" /\ reachable[d]

\* resolveOrgSockets after a dispatched action: no jitter.
ConnectNow(d) ==
  /\ CanConnect(d)
  /\ NewSocket(d)
  /\ UNCHANGED <<pending, reachable, conns, faults>>

JitterOver(d) ==
  /\ pending[d] > 0
  /\ NewSocket(d)
  /\ pending' = [pending EXCEPT ![d] = @ - 1]
  /\ UNCHANGED <<reachable, conns, faults>>

\* setTimeout runs connectSocket, with jitter; the entry stays until the new socket.
RetryTimeout(d) ==
  /\ timer[d] = "armed" /\ pending[d] < MaxPending
  /\ timer' = [timer EXCEPT ![d] = "fired"]
  /\ pending' = [pending EXCEPT ![d] = @ + 1]
  /\ UNCHANGED <<sock, reachable, link, conns, gaveUp, faults>>

\* Mutant: only the entry's socket arms the retry timer when it closes.
OnSocketClosedOwn(d, s) ==
  /\ link[d][s].client = "open"
  /\ link[d][s].server \in {"ended", "refused"} \/ ~link[d][s].up
  /\ LET stop == link[d][s].server = "refused" /\ s = sock[d] IN
     /\ timer' = [timer EXCEPT ![d] = IF stop THEN "none" ELSE IF s = sock[d] THEN "armed" ELSE @]
     /\ gaveUp' = [gaveUp EXCEPT ![d] = stop]
  /\ link' = [link EXCEPT ![d] = Reuse([Cleared(d) EXCEPT ![s].client = "closed"])]
  /\ sock' = [sock EXCEPT ![d] = None]
  /\ UNCHANGED <<pending, reachable, conns, faults>>

\* getOnSocketClosed, on "close" or "error" of any socket that was not cleared: it
\* clears the entry's socket, which may be another one, and arms the retry timer
\* unless the error is a 401.  A socket that is not the entry's keeps its listeners,
\* so its "close" event, which follows the 401, retries all the same.
OnSocketClosed(d, s) ==
  /\ link[d][s].client = "open"
  /\ link[d][s].server \in {"ended", "refused"} \/ ~link[d][s].up
  /\ LET stop == link[d][s].server = "refused" /\ s = sock[d] IN
     /\ timer' = [timer EXCEPT ![d] = IF stop THEN "none" ELSE "armed"]
     /\ gaveUp' = [gaveUp EXCEPT ![d] = stop]
  /\ link' = [link EXCEPT ![d] = Reuse([Cleared(d) EXCEPT ![s].client = "closed"])]
  /\ sock' = [sock EXCEPT ![d] = None]
  /\ UNCHANGED <<pending, reachable, conns, faults>>

\* connectionCheck finds the host or the whole network unreachable.  The latter only
\* goes through the sockets, so the timer of an account without one keeps running.
GoUnreachable(d, network) ==
  /\ reachable[d] /\ faults < MaxFaults
  /\ reachable' = [reachable EXCEPT ![d] = FALSE]
  /\ timer' = [timer EXCEPT ![d] = IF network /\ sock[d] = None THEN @ ELSE "none"]
  /\ link' = [link EXCEPT ![d] = Reuse(Cleared(d))]
  /\ sock' = [sock EXCEPT ![d] = None]
  /\ faults' = faults + 1
  /\ UNCHANGED <<pending, conns, gaveUp>>

\* Mutant: nobody resolves the sockets when a host is reachable again.
GoReachableOnly(d) ==
  /\ ~reachable[d]
  /\ reachable' = [reachable EXCEPT ![d] = TRUE]
  /\ UNCHANGED <<sock, timer, pending, link, conns, gaveUp, faults>>

\* Reachable again: resolveOrgSockets, with jitter.
GoReachable(d) ==
  /\ ~reachable[d] /\ pending[d] < MaxPending
  /\ reachable' = [reachable EXCEPT ![d] = TRUE]
  /\ pending' = [pending EXCEPT ![d] =
       IF sock[d] = None /\ timer[d] = "none" THEN @ + 1 ELSE @]
  /\ UNCHANGED <<sock, timer, link, conns, gaveUp, faults>>

-----------------------------------------------------------------------------
(* The server. *)

\* Mutant: the replaced socket keeps its listeners and stays open.
DroppedSilently(d) == link[d]

\* clearDeviceSocket on the sockets of d: the registered one loses its listeners and
\* is closed.
Dropped(d) == [s \in Slots |-> IF s = conns[d] THEN [link[d][s] EXCEPT !.server = "ended"]
                               ELSE link[d][s]]

\* The device's old socket is the last one of its user, so that clearing it deletes
\* the user's map, into which the new socket is to be put.
MapDeleted(d) ==
  conns[d] # None /\ \A e \in Devices : UserOf[e] = UserOf[d] /\ conns[e] # None => e = d

\* authenticate() succeeds and the "connection" handler replaces the device's socket.
\* The TypeError of a deleted map is caught as if authentication had failed, after
\* the handshake: the new socket is destroyed.
OnConnection(d, s) ==
  /\ link[d][s].server = "none" /\ link[d][s].up
  /\ LET end == IF MapDeleted(d) THEN "ended" ELSE "registered" IN
     /\ link' = [link EXCEPT ![d] = Reuse([Dropped(d) EXCEPT ![s].server = end])]
     /\ conns' = [conns EXCEPT ![d] = IF MapDeleted(d) THEN None ELSE s]
  /\ UNCHANGED <<sock, timer, pending, reachable, gaveUp, faults>>

\* authenticate() throws: 401, whatever the error was.
SocketAuthErr(d, s) ==
  /\ link[d][s].server = "none" /\ link[d][s].up /\ faults < MaxFaults
  /\ link' = [link EXCEPT ![d] = Reuse([@ EXCEPT ![s].server = "refused"])]
  /\ faults' = faults + 1
  /\ UNCHANGED <<sock, timer, pending, reachable, conns, gaveUp>>

\* getClearSocketFn: "close" or "error" on a socket that kept its listeners clears
\* whatever socket its device has.
OnServerSocketClosed(d, s) ==
  /\ link[d][s].server = "registered"
  /\ link[d][s].client = "closed" \/ ~link[d][s].up
  /\ link' = [link EXCEPT ![d] = Reuse(Dropped(d))]
  /\ conns' = [conns EXCEPT ![d] = None]
  /\ UNCHANGED <<sock, timer, pending, reachable, gaveUp, faults>>

\* clearDeviceSocket, clearUserSockets, clearOrgSockets: a handler cleared a session.
ClearDeviceSocket(d) ==
  /\ conns[d] # None /\ faults < MaxFaults
  /\ link' = [link EXCEPT ![d] = Reuse(Dropped(d))]
  /\ conns' = [conns EXCEPT ![d] = None]
  /\ faults' = faults + 1
  /\ UNCHANGED <<sock, timer, pending, reachable, gaveUp>>

Restart ==
  /\ faults < MaxFaults
  /\ link' = [d \in Devices |-> Reuse([s \in Slots |-> [link[d][s] EXCEPT !.server = "ended"]])]
  /\ conns' = [d \in Devices |-> None]
  /\ faults' = faults + 1
  /\ UNCHANGED <<sock, timer, pending, reachable, gaveUp>>

\* The network between the two ends goes away.  The server notices, because it pings
\* its sockets and terminates those that do not answer; the client, which neither
\* sends nor expects pings, may hear nothing for ever.
Break(d, s) ==
  /\ link[d][s].up /\ faults < MaxFaults
  /\ link' = [link EXCEPT ![d] = Reuse([@ EXCEPT ![s].up = FALSE])]
  /\ faults' = faults + 1
  /\ UNCHANGED <<sock, timer, pending, reachable, conns, gaveUp>>

-----------------------------------------------------------------------------
Client(d) ==
  \/ JitterOver(d) \/ RetryTimeout(d) \/ GoReachable(d)
  \/ \E s \in Slots : OnSocketClosed(d, s)
Server(d) == \E s \in Slots : OnConnection(d, s) \/ OnServerSocketClosed(d, s)
Fault(d) ==
  \/ \E network \in BOOLEAN : GoUnreachable(d, network)
  \/ \E s \in Slots : SocketAuthErr(d, s) \/ Break(d, s)
  \/ ClearDeviceSocket(d)

SocketsNext ==
  \/ \E d \in Devices : ConnectNow(d) \/ Client(d) \/ Server(d) \/ Fault(d)
  \/ Restart

\* The end of a socket reaches the client while the network carries it.
CloseDelivered(d, s) == link[d][s].up /\ OnSocketClosed(d, s)

\* Timers fire, connections are handled, connectionStatusLoop finds a host that is back,
\* a close is delivered over a network that is up, and the server's pings find every
\* dead connection.  Nothing makes the client notice one: OnSocketClosed is not fair
\* when the network is gone.
Fairness ==
  \A d \in Devices :
    /\ WF_socketsVars(JitterOver(d)) /\ WF_socketsVars(RetryTimeout(d)) /\ WF_socketsVars(GoReachable(d))
    /\ \A s \in Slots :
         WF_socketsVars(CloseDelivered(d, s)) /\ WF_socketsVars(OnConnection(d, s))
         /\ WF_socketsVars(OnServerSocketClosed(d, s))

SocketsSpec == SocketsInit /\ [][SocketsNext]_socketsVars /\ Fairness

-----------------------------------------------------------------------------
Ends == [client : {"open", "closed"}, server : {"none", "registered", "ended", "refused"},
         up : BOOLEAN]

\* The shape of the state.
SocketsTypeOK ==
  /\ sock \in [Devices -> Slots \cup {None}]
  /\ timer \in [Devices -> {"none", "armed", "fired"}]
  /\ pending \in [Devices -> 0 .. MaxPending]
  /\ reachable \in [Devices -> BOOLEAN]
  /\ link \in [Devices -> [Slots -> Ends]]
  /\ conns \in [Devices -> Slots \cup {None}]
  /\ gaveUp \in [Devices -> BOOLEAN]
  /\ faults \in 0 .. MaxFaults

\* The handlers of the server name a device and not a socket, but the event of an old
\* connection never clears a newer one: a socket with listeners is the device's entry.
EventsClearTheirOwn ==
  \A d \in Devices, s \in Slots : link[d][s].server = "registered" <=> conns[d] = s

\* The client's entry is a socket it listens to, and it never waits for two retries.
EntryIsLive ==
  \A d \in Devices : sock[d] # None =>
    link[d][sock[d]].client = "open" /\ timer[d] # "fired"

\* A client that has no socket is going to open one, unless its host is unreachable
\* or a 401 ended its last attempt: no retry is lost to the timers, sleeping
\* calls and events that clear each other's entries.
RetryPending ==
  \A d \in Devices : sock[d] = None /\ reachable[d] /\ ~gaveUp[d] =>
    timer[d] = "armed" \/ pending[d] > 0

Connected(d) ==
  /\ sock[d] # None /\ conns[d] = sock[d] /\ link[d][sock[d]].up
  /\ \A s \in Slots \ {sock[d]} : link[d][s].client = "closed"

Overlap(d) == Cardinality({s \in Slots : link[d][s].client = "open"}) > 1

\* The client believes in a socket whose network is gone.
HalfOpen(d) == sock[d] # None /\ ~link[d][sock[d]].up

\* When faults end, every device ends up with one socket, which the server sends its
\* updates to, or was turned away by a 401 and waits for the user's next action: a
\* replaced or destroyed socket costs a retry.  Two kinds of clients may never get there:
\* one that opens overlapping sockets again and again, each closing the other, and one
\* that is left with a half-open socket, of which the server has long taken its leave.
EventuallyConnected ==
  \A d \in Devices :
    \/ []<>Overlap(d)
    \/ <>[](\/ Connected(d)
            \/ gaveUp[d] /\ sock[d] = None
            \/ HalfOpen(d) /\ conns[d] = None)
=============================================================================

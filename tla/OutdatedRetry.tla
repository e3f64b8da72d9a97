--------------------------- MODULE OutdatedRetry ---------------------------
(***************************************************************************)
(* What a client does when the server calls its graph outdated, as in      *)
(* dispatch of app/client/core_process/src/handler.ts: it refreshes its    *)
(* session and dispatches the action again.  A dispatch that succeeds also *)
(* processes the revocation requests that are pending in the graph         *)
(* (lib/trust, handlers/crypto.ts), which is an action on the same graph,  *)
(* awaited, and dispatched in the context of what succeeded.               *)
(*                                                                         *)
(* A thread of a client is a stack of dispatches that wait for each other. *)
(* Of a graph there are the revocation requests in it, and of its version  *)
(* whether it is the server's.  A request is answered in one step; what    *)
(* happens within the server, and equal versions, are the subject of       *)
(* OrgTransactions.                                                        *)
(***************************************************************************)
EXTENDS Naturals, Sequences, FiniteSets

CONSTANTS
  Clients,
  Actors,      \* the clients whose user does something
  Revokers,    \* the clients that may revoke the targets of the requests
  Requests,    \* pubkeyRevocationRequests
  MaxCommits,  \* bound: the server refuses an action it committed so often
  MaxFaults    \* bound: requests that fail or whose answer is lost, and errors thrown

ASSUME RetryAssumption ==
  Actors \cup Revokers \subseteq Clients /\ MaxCommits \in Nat \ {0} /\ MaxFaults \in Nat

VARIABLES
  born,        \* history: requests that were ever created
  pending,     \* requests in the server's graph
  view,        \* the graph of each client
  processing,  \* isProcessingRevocationRequests of each client
  stack,       \* the dispatches under way: the user's action and the socket's refresh
  direct,      \* the actors that dispatch a request to the server itself
  jammed,      \* history: clients whose revocations ended in an error nothing handled
  notified,    \* clients whose timer for a socket message runs
  reported,    \* what the user was told of the action
  commits,     \* history: how often the server has committed the user's action
  mishaps,     \* history: what befell the user's action
  faults       \* bound

server == <<born, pending>>
vars == <<born, pending, view, processing, stack, direct, jammed, notified, reported, commits,
          mishaps, faults>>

Threads == {"user", "socket"}

\* The server's graph as c sees it.
Graph(c, requests) ==
  [current |-> TRUE, requests |-> IF c \in Revokers THEN requests ELSE {}]

\* rooted: context.rootClientAction is the user's action.  current: the request was
\* sent with the version the server has.
Frame(op, rooted, g) ==
  [op |-> op, rooted |-> rooted, ph |-> "sent", current |-> g.current,
   asked |-> IF op = "process" THEN g.requests ELSE {}]

Init ==
  /\ born \in SUBSET Requests
  /\ pending = born
  /\ view = [c \in Clients |-> Graph(c, pending)]
  /\ processing = [c \in Clients |-> FALSE]
  /\ stack = [c \in Clients |-> [th \in Threads |-> <<>>]]
  /\ direct \in SUBSET Actors /\ jammed = {}
  /\ notified = Clients                 \* refreshSessions when the process starts
  /\ reported = [c \in Clients |-> "none"]
  /\ commits = [c \in Clients |-> 0]
  /\ mishaps = [c \in Clients |-> {}]
  /\ faults = 0

-----------------------------------------------------------------------------
Depth(c, th) == Len(stack[c][th])
Top(c, th) == stack[c][th][Depth(c, th)]
Running(c, th, phase) == Depth(c, th) > 0 /\ Top(c, th).ph = phase
Awaits(c, th, ops) == Running(c, th, "sent") /\ Top(c, th).op \in ops

\* A stack whose top frame enters another phase, and frames put upon it.
Moved(frames, phase, above) ==
  [frames EXCEPT ![Len(frames)].ph = phase, ![Len(frames)].current = FALSE] \o above
Goto(c, th, phase, above) == stack' = [stack EXCEPT ![c][th] = Moved(@, phase, above)]

\* Mutant: the result of the awaited revocation is tested the wrong way round.
ResumedSwapped(f, ok) ==
  CASE f.ph = "refresh" -> IF ~ok THEN "failed" ELSE IF f.op = "message" THEN "check" ELSE "again"
    [] f.ph = "root" -> IF ok THEN "check" ELSE "failed"
    [] f.ph = "revoking" -> IF ok THEN "err" ELSE "ok"

\* What the dispatch that waits does next when the one it waits for is over.
Resumed(f, ok) ==
  CASE f.ph = "refresh" -> IF ~ok THEN "failed" ELSE IF f.op = "message" THEN "check" ELSE "again"
    [] f.ph = "root" -> IF ok THEN "check" ELSE "failed"
    [] f.ph = "revoking" -> IF ok THEN "ok" ELSE "err"

Return(c, th, ok) ==
  /\ stack' = [stack EXCEPT ![c][th] =
       LET rest == SubSeq(@, 1, Len(@) - 1) IN
       IF rest = <<>> THEN rest ELSE [rest EXCEPT ![Len(rest)].ph = Resumed(rest[Len(rest)], ok)]]
  /\ reported' = IF th = "user" /\ Depth(c, th) = 1
                 THEN [reported EXCEPT ![c] = IF ok THEN "ok" ELSE "failed"] ELSE reported

Mishap(c, th, what) ==
  mishaps' = IF th = "user" THEN [mishaps EXCEPT ![c] = @ \cup {what}] ELSE mishaps

-----------------------------------------------------------------------------
\* The user's client action, through its apiActionCreator, or a direct request.
UserAction(c) ==
  /\ c \in Actors /\ reported[c] = "none" /\ stack[c]["user"] = <<>>
  /\ stack' = [stack EXCEPT ![c]["user"] = <<Frame("act", FALSE, view[c])>>]
  /\ UNCHANGED <<server, view, processing, direct, jammed, notified, reported, commits, mishaps, faults>>

\* RECEIVED_ORG_SOCKET_MESSAGE, when its timer is over.
SocketMessage(c) ==
  /\ c \in notified /\ stack[c]["socket"] = <<>>
  /\ notified' = notified \ {c}
  /\ stack' = [stack EXCEPT ![c]["socket"] =
       Moved(<<Frame("message", FALSE, view[c])>>, "refresh", <<Frame("session", FALSE, view[c])>>)]
  /\ UNCHANGED <<server, view, processing, direct, jammed, reported, commits, mishaps, faults>>

\* Mutant: other devices are not told of a commit.
CommittedQuietly(c, th, requests) ==
  /\ pending' = requests
  /\ UNCHANGED <<notified, mishaps, faults>>
  /\ view' = [d \in Clients |-> IF d = c THEN Graph(c, requests)
                                ELSE [view[d] EXCEPT !.current = FALSE]]
  /\ stack' = [d \in Clients |-> [t \in Threads |->
       IF d = c /\ t = th THEN Moved(stack[d][t], "check", <<>>)
       ELSE [i \in DOMAIN stack[d][t] |-> [stack[d][t][i] EXCEPT !.current = FALSE]]]]

\* A commit makes every other version old.  Its answer arrives, or is lost or
\* replaced by an error.
Committed(c, th, requests) ==
  /\ pending' = requests
  /\ notified' = notified \cup (Clients \ {c})
  /\ \E answered \in BOOLEAN :
       /\ answered \/ faults < MaxFaults
       /\ view' = [d \in Clients |-> IF d = c /\ answered THEN Graph(c, requests)
                                     ELSE [view[d] EXCEPT !.current = FALSE]]
       /\ stack' = [d \in Clients |-> [t \in Threads |->
            IF d = c /\ t = th THEN Moved(stack[d][t], IF answered THEN "check" ELSE "failed", <<>>)
            ELSE [i \in DOMAIN stack[d][t] |-> [stack[d][t][i] EXCEPT !.current = FALSE]]]]
       /\ IF answered THEN UNCHANGED <<mishaps, faults>>
                      ELSE Mishap(c, th, "lost") /\ faults' = faults + 1

CommitAction(c, th) ==
  /\ Awaits(c, th, {"act"}) /\ Top(c, th).current
  /\ commits[c] < MaxCommits
  /\ commits' = [commits EXCEPT ![c] = @ + 1]
  /\ \E new \in SUBSET (Requests \ born) :
       /\ Cardinality(new) <= 1
       /\ born' = born \cup new
       /\ Committed(c, th, pending \cup new)
  /\ UNCHANGED <<processing, direct, jammed, reported>>

\* REVOKE_TRUSTED_PUBKEYS of requests that are still there.
CommitRevocation(c, th) ==
  /\ Awaits(c, th, {"process"}) /\ Top(c, th).current
  /\ Top(c, th).asked \subseteq pending
  /\ Committed(c, th, pending \ Top(c, th).asked)
  /\ UNCHANGED <<born, processing, direct, jammed, reported, commits>>

\* Mutant: the action is dispatched again without a refresh.
OutdatedAtOnce(c, th) ==
  /\ Awaits(c, th, {"act", "process"}) /\ ~Top(c, th).current
  /\ Goto(c, th, "again", <<>>)
  /\ UNCHANGED <<server, view, processing, direct, jammed, notified, reported, commits, mishaps, faults>>

\* "client graph outdated": refresh in the same context, which for a client action
\* includes the action as the root.
Outdated(c, th) ==
  /\ Awaits(c, th, {"act", "process"}) /\ ~Top(c, th).current
  /\ LET f == Top(c, th) IN
     /\ Goto(c, th, "refresh", <<Frame("session", (f.op = "act" /\ c \notin direct) \/ f.rooted,
                                       view[c])>>)
     /\ IF f.op = "process" /\ f.rooted THEN Mishap(c, th, "displaced") ELSE UNCHANGED mishaps
  /\ UNCHANGED <<server, view, processing, direct, jammed, notified, reported, commits, faults>>

\* The authorizer refuses: requests that are gone, an action that is not possible (again).
Refuse(c, th) ==
  /\ Awaits(c, th, {"act", "process"}) /\ Top(c, th).current
  /\ Top(c, th).op = "process" => ~(Top(c, th).asked \subseteq pending)
  /\ Goto(c, th, "failed", <<>>)
  /\ UNCHANGED <<server, view, processing, direct, jammed, notified, reported, commits, mishaps, faults>>

\* A request fails before it changes anything.
Break(c, th) ==
  /\ Running(c, th, "sent") /\ faults < MaxFaults
  /\ Goto(c, th, "failed", <<>>)
  /\ faults' = faults + 1
  /\ UNCHANGED <<server, view, processing, direct, jammed, notified, reported, commits, mishaps>>

Session(c, th) ==
  /\ Awaits(c, th, {"session"})
  /\ view' = [view EXCEPT ![c] = Graph(c, pending)]
  /\ Goto(c, th, "check", <<>>)
  /\ UNCHANGED <<server, processing, direct, jammed, notified, reported, commits, mishaps, faults>>

\* A dispatch that processes is over when it succeeds, before it looks for more.
Busy(c, f) == processing[c] /\ f.op # "process"

\* processRevocationRequestsIfNeeded, which handleSuccess leaves out after a request
\* that was dispatched directly.
Needed(c, f) == view[c].requests # {} /\ ~Busy(c, f) /\ ~(f.op = "act" /\ c \in direct)

\* handleSuccess.
Check(c, th) ==
  /\ Running(c, th, "check")
  /\ LET f == Top(c, th) IN
     IF Needed(c, f)
     THEN /\ processing' = [processing EXCEPT ![c] = TRUE]
          /\ Goto(c, th, "revoking", <<Frame("process", f.rooted, view[c])>>)
          /\ UNCHANGED reported
     ELSE /\ processing' = [processing EXCEPT ![c] = Busy(c, f)]
          /\ Return(c, th, TRUE)
  /\ UNCHANGED <<server, view, direct, jammed, notified, commits, mishaps, faults>>

\* The handler of PROCESS_REVOCATION_REQUESTS throws, before its request.  Nothing
\* dispatches the failure of that dispatch, only of the one that waits for it.
Throw(c, th) ==
  /\ Running(c, th, "check") /\ Needed(c, Top(c, th)) /\ faults < MaxFaults
  /\ processing' = [processing EXCEPT ![c] = TRUE]
  /\ Goto(c, th, "failed", <<>>)
  /\ jammed' = IF Top(c, th).op = "process" THEN jammed ELSE jammed \cup {c}
  /\ Mishap(c, th, "revocation")
  /\ faults' = faults + 1
  /\ UNCHANGED <<server, view, direct, notified, reported, commits>>

\* After the refresh and the jitter: the root action is dispatched again, if there is one.
Retry(c, th) ==
  /\ Running(c, th, "again")
  /\ LET f == Top(c, th)
         Again(g) == stack' = [stack EXCEPT ![c][th][Depth(c, th)] = g]
     IN IF f.op = "act" THEN Again(Frame("act", c \notin direct, view[c]))
        ELSE IF f.rooted THEN Goto(c, th, "root", <<Frame("act", TRUE, view[c])>>)
        ELSE Again([Frame(f.op, FALSE, view[c]) EXCEPT !.asked = f.asked])
  /\ UNCHANGED <<server, view, processing, direct, jammed, notified, reported, commits, mishaps, faults>>

\* Mutant: an action is dispatched again after any error.
FailureRetries(c, th) ==
  /\ Running(c, th, "failed")
  /\ IF Top(c, th).op = "act" THEN Goto(c, th, "again", <<>>) /\ UNCHANGED reported
                              ELSE Return(c, th, FALSE)
  /\ processing' = [processing EXCEPT ![c] = @ /\ Top(c, th).op # "process"]
  /\ UNCHANGED <<server, view, direct, jammed, notified, commits, mishaps, faults>>

\* Mutant: a failure leaves isProcessingRevocationRequests set.
FailureKeepsProcessing(c, th) ==
  /\ Running(c, th, "failed")
  /\ Return(c, th, FALSE)
  /\ UNCHANGED <<server, view, processing, direct, jammed, notified, commits, mishaps, faults>>

\* dispatchFailure.
Failure(c, th) ==
  /\ Running(c, th, "failed")
  /\ IF Top(c, th).op = "process"
     THEN processing' = [processing EXCEPT ![c] = FALSE] /\ Mishap(c, th, "revocation")
     ELSE UNCHANGED <<processing, mishaps>>
  /\ Return(c, th, FALSE)
  /\ UNCHANGED <<server, view, direct, jammed, notified, commits, faults>>

\* handleSuccess returns what the revocation it awaited returned.
Result(c, th) ==
  /\ Running(c, th, "ok") \/ Running(c, th, "err")
  /\ Return(c, th, Running(c, th, "ok"))
  /\ UNCHANGED <<server, view, processing, direct, jammed, notified, commits, mishaps, faults>>

Step(c, th) ==
  \/ CommitAction(c, th) \/ CommitRevocation(c, th) \/ Outdated(c, th) \/ Refuse(c, th)
  \/ Break(c, th) \/ Session(c, th) \/ Check(c, th) \/ Throw(c, th) \/ Retry(c, th)
  \/ Failure(c, th) \/ Result(c, th)

Next == \E c \in Clients : UserAction(c) \/ SocketMessage(c) \/ \E th \in Threads : Step(c, th)

\* Requests are answered, if only by their timeout; timers fire.
Spec ==
  /\ Init /\ [][Next]_vars
  /\ \A c \in Clients : WF_vars(SocketMessage(c)) /\ \A th \in Threads : WF_vars(Step(c, th))

-----------------------------------------------------------------------------
Frames ==
  [op : {"act", "session", "process", "message"}, rooted : BOOLEAN, current : BOOLEAN,
   ph : {"sent", "refresh", "again", "root", "check", "revoking", "failed", "ok", "err"},
   asked : SUBSET Requests]

\* The shape of the state; a dispatch and those above it that it waits for are a stack.
TypeOK ==
  /\ pending \subseteq born /\ born \subseteq Requests
  /\ view \in [Clients -> [current : BOOLEAN, requests : SUBSET born]]
  /\ processing \in [Clients -> BOOLEAN]
  /\ stack \in [Clients -> [Threads -> Seq(Frames)]]
  /\ direct \subseteq Actors /\ jammed \cup notified \subseteq Clients
  /\ reported \in [Clients -> {"none", "ok", "failed"}]
  /\ commits \in [Clients -> 0 .. MaxCommits]
  /\ mishaps \in [Clients -> SUBSET {"lost", "displaced", "revocation"}]
  /\ faults \in 0 .. MaxFaults

\* The user's action is committed once, however often it is dispatched, unless a
\* revocation that was processed on its way was outdated: then its root, the user's
\* action, is dispatched in its place.
OnceUnlessDisplaced ==
  \A c \in Clients : commits[c] > 1 => "displaced" \in mishaps[c]

\* An action whose failure is reported was not committed, unless its answer was lost
\* or a revocation that was awaited on its way failed (which lib/trust/index.ts:406 says
\* is "called asynchronously by the handler after graph updates, not awaited").
FailureIsTrue ==
  \A c \in Clients : reported[c] = "failed" /\ commits[c] > 0 => mishaps[c] # {}

\* isProcessingRevocationRequests is set exactly while a dispatch of the client
\* processes them, and then no second one does: no failure that is dispatched leaves it
\* set.  The exception: an error that the handler throws is no such failure (it is
\* awaited at handler.ts:534 with nothing around it), and leaves it set for good.
ProcessingIsTrue ==
  \A c \in Clients : processing[c] <=>
    \/ c \in jammed
    \/ \E th \in Threads : \E i \in 1 .. Depth(c, th) :
         stack[c][th][i].op = "process" /\ stack[c][th][i].ph \notin {"revoking", "ok", "err"}

Idle == notified = {} /\ \A c \in Clients, th \in Threads : stack[c][th] = <<>>

\* No request is left behind when everything is quiet and some client may revoke,
\* although clients race to process the same requests, and skip those that appear
\* while they do.  Two exceptions: the user's action was dispatched again in the place
\* of an outdated revocation, and was refused; or a request was dispatched directly,
\* whose client does not look at what it left to revoke, and every other client that
\* may revoke had a revocation fail on the way of its user's action: while that was
\* under way it skipped what it was told of.
NoRequestForgotten ==
  Idle /\ faults = 0 /\ Revokers # {} =>
    \/ pending = {}
    \/ \E c \in Clients : {"displaced", "revocation"} \subseteq mishaps[c]
    \/ \E c \in direct : /\ commits[c] > 0
                         /\ \A d \in Revokers \ {c} : "revocation" \in mishaps[d]

\* Every action ends, also under contention.
EveryActionEnds == \A c \in Clients : stack[c]["user"] # <<>> ~> stack[c]["user"] = <<>>
=============================================================================

-------------------------- MODULE GraphSync_proofs --------------------------
(***************************************************************************)
(* Proofs about GraphSync, for any number of versions and faults: the      *)
(* state keeps its shape, and a client's graph has all that its label      *)
(* promises unless one of two races has happened.                          *)
(***************************************************************************)
EXTENDS GraphSync, TLAPS

\* What every request carries: versions that exist, and the graph its label promises.
Sound(call, v) ==
  /\ call.content \subseteq 1 .. v /\ call.label <= v
  /\ call.ph \in {"read", "graph", "diffs"} => call.label >= 1
  /\ call.ph = "graph" => 1 .. call.label \subseteq call.content
  /\ call.ph = "diffs" => call.content = {call.label}

\* A request fits the graph g of its client: an update was sent for what g has, and g
\* has all that diffs leave out.
Fits(call, g) ==
  /\ call.kind = "update" /\ call.ph \in {"sent", "read"} => 1 .. call.base \subseteq g
  /\ call.ph = "diffs" => 1 .. (call.label - 1) \subseteq g

Complete == 1 .. label \subseteq graph /\ \A s \in Slots : Fits(calls[s], graph)

\* The inductive invariant.
IInv ==
  /\ TypeOK
  /\ \A s \in Slots : Sound(calls[s], version)
  /\ raced = {} => Complete

\* Initially all is there.
LEMMA InitIInv == Init => IInv
<1> SUFFICES ASSUME Init PROVE IInv
  OBVIOUS
<1> USE SyncAssumption DEF Init
<1>1. Idle \in Calls /\ Sound(Idle, 1) /\ Fits(Idle, graph)
  BY DEF Idle, Call, Calls, Sound, Fits
<1>2. TypeOK
  <2>1. version \in 1 .. MaxVersion /\ graph \subseteq Server /\ label \in graph /\ faults \in 0 .. MaxFaults
    BY DEF Server
  <2>2. calls \in [Slots -> Calls]
    BY <1>1
  <2>3. notice \in BOOLEAN /\ timer \in BOOLEAN /\ due \in BOOLEAN /\ away \in BOOLEAN /\ (away => outage # "none") /\ (notice => outage = "none")
    OBVIOUS
  <2> QED
    BY <2>1, <2>2, <2>3 DEF TypeOK
<1>3. Complete
  BY <1>1 DEF Complete, Server
<1> QED
  BY <1>1, <1>2, <1>3 DEF IInv

\* One request changes.
LEMMA OneCall ==
  ASSUME NEW s \in Slots, NEW call, calls' = [calls EXCEPT ![s] = call],
         calls \in [Slots -> Calls], call \in Calls
  PROVE  /\ calls' \in [Slots -> Calls]
         /\ \A t \in Slots : calls'[t] = IF t = s THEN call ELSE calls[t]
  OBVIOUS

\* Requests that are sent or over are sound and, if they carry the client's label, fit.
LEMMA NewCalls ==
  ASSUME TypeOK
  PROVE  /\ \A call \in {Idle, Session, Update, Jitter} : call \in Calls /\ Sound(call, version)
         /\ \A call \in {Idle, Session, Jitter} : Fits(call, graph)
         /\ 1 .. label \subseteq graph => Fits(Update, graph)
  BY SyncAssumption
  DEF TypeOK, Server, Calls, Call, Idle, Session, Update, Jitter, Sound, Fits

\* What stays sound and fits when versions are added and the graph grows.
LEMMA Monotone ==
  ASSUME NEW call \in Calls, NEW v \in Nat, NEW w \in Nat, v <= w, NEW g, NEW h, g \subseteq h
  PROVE  (Sound(call, v) => Sound(call, w)) /\ (Fits(call, g) => Fits(call, h))
  BY DEF Sound, Fits, Calls

\* A step that replaces one request, adds versions, and lets the graph grow.
LEMMA CallStep ==
  ASSUME IInv, NEW s \in Slots, NEW call \in Calls, calls' = [calls EXCEPT ![s] = call],
         version' \in version .. MaxVersion, Sound(call, version')
  PROVE  /\ calls' \in [Slots -> Calls]
         /\ \A t \in Slots : Sound(calls'[t], version')
         /\ raced = {} /\ graph \subseteq graph' /\ Fits(call, graph') =>
              \A t \in Slots : Fits(calls'[t], graph')
<1>1. version \in Nat /\ version' \in Nat /\ version <= version'
  BY SyncAssumption DEF IInv, TypeOK
<1>2. calls' \in [Slots -> Calls] /\ \A t \in Slots : calls'[t] = IF t = s THEN call ELSE calls[t]
  BY OneCall DEF IInv, TypeOK
<1>3. \A t \in Slots : calls[t] \in Calls /\ Sound(calls[t], version)
  BY DEF IInv, TypeOK
<1>4. \A t \in Slots : Sound(calls'[t], version')
  BY <1>1, <1>2, <1>3, Monotone
<1>5. ASSUME raced = {}, graph \subseteq graph', Fits(call, graph')
      PROVE  \A t \in Slots : Fits(calls'[t], graph')
  <2>1. \A t \in Slots : Fits(calls[t], graph)
    BY <1>5 DEF IInv, Complete
  <2> QED
    BY <1>1, <1>2, <1>3, <1>5, <2>1, Monotone
<1> QED
  BY <1>2, <1>4, <1>5

\* The parts of TypeOK that are not about the client's requests.
Bounds ==
  /\ version \in 1 .. MaxVersion /\ announcing \subseteq Server
  /\ graph \subseteq Server /\ label \in graph
  /\ missed \subseteq {"dropped", "away", "unsent", "lost", "overtaken"}
  /\ raced \subseteq {"unlocked", "overtaken"} /\ faults \in 0 .. MaxFaults
Flags ==
  /\ notice \in BOOLEAN /\ timer \in BOOLEAN /\ due \in BOOLEAN /\ away \in BOOLEAN
  /\ outage \in {"none", "dropped", "away"}
  /\ (away => outage # "none") /\ (notice => outage = "none")

LEMMA Shape == TypeOK <=> Bounds /\ Flags /\ calls \in [Slots -> Calls]
  BY DEF TypeOK, Bounds, Flags

\* A request of the client that asks for something, or is over: nothing else changes of
\* what the client and the server have.
LEMMA AskStep ==
  ASSUME IInv, NEW s \in Slots, NEW call \in {Idle, Session, Update, Jitter},
         calls' = [calls EXCEPT ![s] = call],
         UNCHANGED <<version, announcing, graph, label, raced>>, Bounds', Flags'
  PROVE  IInv'
<1>1. call \in Calls /\ Sound(call, version') /\ version' \in version .. MaxVersion
  BY NewCalls DEF IInv, TypeOK
<1>2. calls' \in [Slots -> Calls] /\ \A t \in Slots : Sound(calls'[t], version')
  BY <1>1, CallStep
<1>3. ASSUME raced' = {} PROVE Complete'
  <2>1. 1 .. label \subseteq graph
    BY <1>3 DEF IInv, Complete
  <2>2. Fits(call, graph')
    BY <2>1, NewCalls DEF IInv
  <2> QED
    BY <1>1, <1>3, <2>1, <2>2, CallStep DEF Complete
<1>4. TypeOK'
  BY <1>2 DEF TypeOK, Bounds, Flags
<1> QED
  BY <1>2, <1>3, <1>4 DEF IInv

\* A step that changes no request and nothing of the client's graph.
LEMMA ElseStep ==
  ASSUME IInv, UNCHANGED <<calls, graph, label, raced>>, version' \in version .. MaxVersion,
         Bounds', Flags'
  PROVE  IInv'
<1>1. version \in Nat /\ version' \in Nat /\ version <= version'
  BY SyncAssumption DEF IInv, TypeOK
<1>2. \A t \in Slots : Sound(calls'[t], version')
  BY <1>1, Monotone DEF IInv, TypeOK
<1>3. TypeOK'
  BY DEF IInv, TypeOK, Bounds, Flags
<1> QED
  BY <1>2, <1>3 DEF IInv, Complete

\* The server works on a request.
LEMMA WorkStep ==
  ASSUME IInv, NEW s \in Slots, NEW call \in Calls, calls' = [calls EXCEPT ![s] = call],
         UNCHANGED <<version, announcing, clientState, connection, faults>>,
         Sound(call, version), Fits(calls[s], graph) => Fits(call, graph)
  PROVE  IInv'
<1> USE DEF clientState, connection
<1>1. version' \in version .. MaxVersion /\ Sound(call, version')
  BY SyncAssumption DEF IInv, TypeOK
<1>2. calls' \in [Slots -> Calls] /\ \A t \in Slots : Sound(calls'[t], version')
  BY <1>1, CallStep
<1>3. ASSUME raced' = {} PROVE Complete'
  <2>1. Complete
    BY <1>3 DEF IInv
  <2>2. Fits(call, graph)
    BY <2>1 DEF Complete
  <2> QED
    BY <1>1, <1>3, <2>1, <2>2, CallStep DEF Complete
<1>4. TypeOK'
  BY <1>2 DEF IInv, TypeOK, Server
<1> QED
  BY <1>2, <1>3, <1>4 DEF IInv

\* An answer with the graph g and the label l arrives.
LEMMA ReceiveStep ==
  ASSUME IInv, NEW s \in Slots, NEW g, NEW l, Becomes(g, l),
         calls' = [calls EXCEPT ![s] = Idle] \/ calls' = [calls EXCEPT ![s] = Jitter],
         UNCHANGED <<version, announcing, connection, faults>>,
         g \subseteq Server, l \in g, raced = {} => 1 .. l \subseteq g
  PROVE  IInv'
<1>1. /\ graph' = g /\ label' = l
      /\ missed' = {} \/ missed' = missed \/ missed' = missed \cup {"overtaken"}
      /\ raced' = IF graph \subseteq g THEN raced ELSE raced \cup {"overtaken"}
  BY DEF Becomes, Races
<1>2. TypeOK /\ version' \in version .. MaxVersion /\ version' = version
  BY SyncAssumption DEF IInv, TypeOK
<1>3. \A call \in {Idle, Jitter} : call \in Calls /\ Sound(call, version') /\ Fits(call, g)
  <2>1. \A call \in {Idle, Jitter} : call \in Calls /\ Sound(call, version)
    BY <1>2, NewCalls
  <2>2. \A call \in {Idle, Jitter} : Fits(call, g)
    BY DEF Idle, Jitter, Call, Fits
  <2> QED
    BY <1>2, <2>1, <2>2
<1>4. calls' \in [Slots -> Calls] /\ \A t \in Slots : Sound(calls'[t], version')
  BY <1>2, <1>3, CallStep
<1>5. ASSUME raced' = {} PROVE Complete'
  <2>1. raced = {} /\ graph \subseteq graph' /\ 1 .. label' \subseteq graph'
    BY <1>1, <1>5
  <2> QED
    BY <1>1, <1>2, <1>3, <2>1, CallStep DEF Complete
<1>6. Bounds'
  BY <1>1, <1>2 DEF TypeOK, Bounds, Server
<1>7. Flags'
  BY <1>2 DEF TypeOK, Flags, connection
<1> QED
  BY <1>4, <1>5, <1>6, <1>7 DEF IInv, TypeOK, Bounds, Flags

\* Every step preserves the invariant.
LEMMA StepIInv ==
  ASSUME IInv, Next
  PROVE  IInv'
<1> USE SyncAssumption DEF clientState, connection
<1>0. /\ Bounds /\ Flags /\ calls \in [Slots -> Calls]
      /\ version \in Nat /\ version \in version .. MaxVersion
  BY Shape DEF IInv, Bounds
<1>1. CASE OtherCommits
  <2>1. Bounds' /\ Flags' /\ version' \in version .. MaxVersion
    BY <1>0, <1>1 DEF OtherCommits, Bounds, Flags, Server
  <2> QED
    BY <1>1, <2>1, ElseStep DEF OtherCommits
<1>2. ASSUME NEW v \in announcing, Announce(v) PROVE IInv'
  <2>1. Bounds'
    BY <1>0, <1>2 DEF Announce, Bounds, Server, Misses, Flags
  <2>2. Flags'
    BY <1>0, <1>2 DEF Announce, Flags
  <2> QED
    BY <1>0, <1>2, <2>1, <2>2, ElseStep DEF Announce
<1>3. ASSUME NEW v \in announcing, NotAnnounced(v) PROVE IInv'
  <2>1. Bounds' /\ Flags'
    BY <1>0, <1>3 DEF NotAnnounced, Bounds, Flags, Server, Misses, Fault
  <2> QED
    BY <1>0, <1>3, <2>1, ElseStep DEF NotAnnounced
<1>4. CASE UserUpdate
  <2>1. Bounds' /\ Flags'
    BY <1>0, <1>4 DEF UserUpdate, Bounds, Flags, Server
  <2> QED
    BY <1>4, <2>1, AskStep DEF UserUpdate, Goto, Slots
<1>5. ASSUME NEW s \in Slots, Authenticate(s) PROVE IInv'
  <2> DEFINE call == Served(s, "read", version, {})
  <2>1. UNCHANGED <<version, announcing, clientState, connection, faults>> /\ At(s, "sent")
        /\ calls' = [calls EXCEPT ![s] = call]
    BY <1>5 DEF Authenticate, Goto
  <2>2. calls[s] \in Calls /\ Sound(calls[s], version) /\ calls[s].ph = "sent"
    BY <1>0, <2>1 DEF IInv, At
  <2>3. call \in Calls /\ Sound(call, version) /\ (Fits(calls[s], graph) => Fits(call, graph))
    BY <1>0, <2>2 DEF Served, Calls, Sound, Fits, Bounds
  <2> QED
    BY <1>0, <2>1, <2>3, WorkStep
<1>6. ASSUME NEW s \in Slots, GetSession(s) PROVE IInv'
  <2> DEFINE call == Served(s, "graph", calls[s].label, Server)
  <2>1. UNCHANGED <<version, announcing, clientState, connection, faults>> /\ At(s, "read")
        /\ calls' = [calls EXCEPT ![s] = call]
    BY <1>6 DEF GetSession, Goto
  <2>2. calls[s] \in Calls /\ Sound(calls[s], version) /\ calls[s].ph = "read"
    BY <1>0, <2>1 DEF IInv, At
  <2>3. call \in Calls /\ Sound(call, version) /\ Fits(call, graph)
    BY <1>0, <2>2 DEF Served, Calls, Sound, Fits, Bounds, Server
  <2> QED
    BY <1>0, <2>1, <2>3, WorkStep
<1>7. ASSUME NEW s \in Slots, Commit(s) PROVE IInv'
  <2> DEFINE call == Served(s, "diffs", version', {version'})
  <2>1. /\ version' = version + 1 /\ version' \in version .. MaxVersion
        /\ UNCHANGED <<announcing, graph, label, connection>>
        /\ calls[s].ph = "read" /\ calls[s].kind = "update" /\ calls[s].base = calls[s].label
        /\ raced' = IF version # calls[s].label THEN raced \cup {"unlocked"} ELSE raced
    BY <1>0, <1>7 DEF Commit, At, Races, Bounds
  <2>2. /\ missed' = missed \/ missed' = missed \cup {"lost"}
        /\ faults' \in 0 .. MaxFaults
        /\ calls' = [calls EXCEPT ![s] = call] \/ calls' = [calls EXCEPT ![s] = Idle]
    BY <1>0, <1>7 DEF Commit, Fault, Goto, Bounds
  <2>3. Bounds' /\ Flags'
    <3>0. Server \subseteq Server' /\ version' \in 1 .. MaxVersion
      BY <1>0, <2>1 DEF Server
    <3>1. Bounds'
      <4>1. raced' = raced \/ raced' = raced \cup {"unlocked"}
        BY <2>1
      <4>2. UNCHANGED <<announcing, graph, label>>
        BY <2>1
      <4> QED
        BY <1>0, <2>2, <3>0, <4>1, <4>2 DEF Bounds
    <3> QED
      BY <1>0, <2>1, <3>1 DEF Flags
  <2>4. calls[s] \in Calls /\ Sound(calls[s], version)
    BY <1>0 DEF IInv
  <2>5. call \in Calls /\ Sound(call, version')
    BY <1>0, <2>1, <2>4 DEF Served, Calls, Sound, Bounds
  <2>6. Idle \in Calls /\ Sound(Idle, version') /\ Fits(Idle, graph)
    BY <1>0, <2>1 DEF Idle, Call, Calls, Sound, Fits
  <2>7. ASSUME raced' = {} PROVE raced = {} /\ Fits(call, graph) /\ 1 .. label \subseteq graph
    <3>1. raced = {} /\ version = calls[s].label
      BY <2>1, <2>7
    <3>2. Fits(calls[s], graph) /\ 1 .. label \subseteq graph
      BY <3>1 DEF IInv, Complete
    <3>3. 1 .. version \subseteq graph
      BY <2>1, <3>1, <3>2 DEF Fits
    <3>4. call.ph = "diffs" /\ call.label - 1 = version
      BY <1>0, <2>1, <2>4 DEF Served, Calls
    <3> QED
      BY <3>1, <3>2, <3>3, <3>4 DEF Fits
  <2>8. calls' \in [Slots -> Calls] /\ \A t \in Slots : Sound(calls'[t], version')
    BY <2>1, <2>2, <2>5, <2>6, CallStep
  <2>9. ASSUME raced' = {} PROVE Complete'
    BY <2>1, <2>2, <2>5, <2>6, <2>7, <2>9, CallStep DEF Complete
  <2> QED
    BY <2>3, <2>8, <2>9 DEF IInv, TypeOK, Bounds, Flags
<1>8. ASSUME NEW s \in Slots, Refuse(s) \/ Outdated(s) \/ Retry(s) PROVE IInv'
  <2>1. UNCHANGED <<version, announcing, clientState, connection, faults>>
    BY <1>8 DEF Refuse, Outdated, Retry
  <2>2. Bounds' /\ Flags'
    BY <1>0, <2>1 DEF Bounds, Flags, Server
  <2> QED
    BY <1>8, <2>1, <2>2, AskStep DEF Refuse, Outdated, Retry, Goto
<1>9. ASSUME NEW s \in Slots, ReceiveGraph(s) PROVE IInv'
  <2>1. /\ UNCHANGED <<version, announcing, connection, faults>>
        /\ Becomes(calls[s].content, calls[s].label)
        /\ calls' = [calls EXCEPT ![s] = IF s = "user" THEN Jitter ELSE Idle]
        /\ calls[s].ph = "graph"
    BY <1>9 DEF ReceiveGraph, Goto, At
  <2>2. /\ calls[s].content \subseteq Server
        /\ calls[s].label \in calls[s].content
        /\ 1 .. calls[s].label \subseteq calls[s].content
    BY <1>0, <2>1 DEF IInv, Sound, Server, Calls
  <2> QED
    BY <1>0, <2>1, <2>2, ReceiveStep
<1>10. ASSUME NEW s \in Slots, ReceiveDiffs(s) PROVE IInv'
  <2> DEFINE g == graph \cup calls[s].content
  <2>1. /\ UNCHANGED <<version, announcing, connection, faults>>
        /\ Becomes(g, calls[s].label)
        /\ calls' = [calls EXCEPT ![s] = Idle]
        /\ calls[s].ph = "diffs"
    BY <1>10 DEF ReceiveDiffs, Goto, At
  <2>2. /\ g \subseteq Server /\ calls[s].content = {calls[s].label} /\ calls[s].label \in Nat
        /\ calls[s].label \in g
    <3>1. calls[s] \in Calls /\ Sound(calls[s], version)
      BY <1>0 DEF IInv
    <3>2. /\ calls[s].content = {calls[s].label} /\ calls[s].label \in Nat
          /\ calls[s].content \subseteq 1 .. version
      BY <2>1, <3>1 DEF Sound, Calls
    <3> QED
      BY <1>0, <3>2 DEF Server, Bounds
  <2>3. ASSUME raced = {} PROVE 1 .. calls[s].label \subseteq g
    <3>1. 1 .. (calls[s].label - 1) \subseteq graph
      BY <2>1, <2>3 DEF IInv, Complete, Fits
    <3> QED
      BY <2>2, <3>1
  <2> QED
    BY <1>0, <2>1, <2>2, <2>3, ReceiveStep
<1>11. ASSUME NEW s \in Slots, Lose(s) PROVE IInv'
  <2>1. Bounds' /\ Flags'
    BY <1>0, <1>11 DEF Lose, Bounds, Flags, Server, Misses, Fault
  <2> QED
    BY <1>11, <2>1, AskStep DEF Lose, Goto
<1>12. CASE Deliver \/ ComeBack \/ Reconnect
  <2>1. UNCHANGED <<version, announcing, clientState, calls, faults>>
    BY <1>12 DEF Deliver, ComeBack, Reconnect
  <2>2. Bounds'
    BY <1>0, <2>1 DEF Bounds, Server
  <2>3. Flags'
    <3>1. CASE Deliver
      BY <1>0, <3>1 DEF Deliver, Flags
    <3>2. CASE ComeBack
      BY <1>0, <3>2 DEF ComeBack, Flags
    <3>3. CASE Reconnect
      BY <1>0, <3>3 DEF Reconnect, Flags
    <3> QED
      BY <1>12, <3>1, <3>2, <3>3
  <2> QED
    BY <1>0, <2>1, <2>2, <2>3, ElseStep
<1>13. CASE TimerOver \/ RefreshSession
  <2>1. UNCHANGED <<version, announcing, clientState, notice, outage, away, faults>>
    BY <1>13 DEF TimerOver, RefreshSession
  <2>2. Bounds'
    BY <1>0, <2>1 DEF Bounds, Server
  <2>3. Flags'
    <3>1. CASE TimerOver
      BY <1>0, <3>1 DEF TimerOver, Flags
    <3>2. CASE RefreshSession
      BY <1>0, <3>2 DEF RefreshSession, Flags
    <3> QED
      BY <1>13, <3>1, <3>2
  <2> QED
    BY <1>13, <2>1, <2>2, <2>3, AskStep DEF TimerOver, RefreshSession, Goto, Slots
<1>14. ASSUME NEW why \in {"dropped", "away"}, GoDown(why) PROVE IInv'
  <2>1. Bounds'
    <3>1. missed' = missed \/ missed' = missed \cup {why}
      BY <1>14 DEF GoDown, Misses
    <3>2. UNCHANGED <<version, announcing, graph, label, raced>> /\ faults' \in 0 .. MaxFaults
      BY <1>0, <1>14 DEF GoDown, Fault, Bounds
    <3> QED
      BY <1>0, <3>1, <3>2 DEF Bounds, Server
  <2>2. Flags'
    BY <1>0, <1>14 DEF GoDown, Flags
  <2> QED
    BY <1>0, <1>14, <2>1, <2>2, ElseStep DEF GoDown
<1> QED
  BY <1>1, <1>2, <1>3, <1>4, <1>5, <1>6, <1>7, <1>8, <1>9, <1>10, <1>11, <1>12, <1>13, <1>14
  DEF Next, Handle, Receive

\* The inductive invariant holds in every behaviour.
THEOREM Invariance == Spec => []IInv
<1>1. ASSUME IInv, UNCHANGED vars PROVE IInv'
  BY <1>1 DEF IInv, TypeOK, Complete, Server, vars, clientState, connection
<1> QED
  BY InitIInv, StepIInv, <1>1, PTL DEF Spec

\* The state of a client, its requests and its connection keeps its shape.
THEOREM TypeCorrect == Spec => []TypeOK
<1>1. IInv => TypeOK
  BY DEF IInv
<1> QED
  BY <1>1, Invariance, PTL

\* As long as no update is committed on a newer graph than the one whose version was
\* checked, and no answer overwrites a newer one, the client's graph has everything up
\* to its label: the version check of the server then keeps it from working on less.
THEOREM HolesCorrect == Spec => []HolesNeedRaces
<1>1. IInv => HolesNeedRaces
  BY DEF IInv, Complete, HolesNeedRaces
<1> QED
  BY <1>1, Invariance, PTL
-----------------------------------------------------------------------------
(* What the client lacks is on its way. *)

\* The answer to a request will have v: it reads the graph later, or has read v.
Answers(call, v) ==
  \/ call.kind = "session" /\ call.ph \in {"sent", "read"}
  \/ call.ph \in {"graph", "diffs"} /\ v \in call.content

WillFetch == notice \/ timer \/ due
Coming(v) == v \in announcing \/ WillFetch \/ \E s \in Slots : Answers(calls[s], v)

\* Unless something was missed, each version that the client lacks is still to be announced
\* to it, or it is about to fetch, or an answer on its way has the version.
AllComing == missed = {} => \A v \in Server \ graph : Coming(v)

LEMMA SessionAnswers == \A v : Answers(Session, v)
  BY DEF Answers, Session, Call

\* A request changes to one that answers as much of what the client still lacks.
LEMMA ComingStep ==
  ASSUME IInv, AllComing, NEW s \in Slots, NEW call, calls' = [calls EXCEPT ![s] = call],
         missed' = {} => \/ missed = {} /\ graph \subseteq graph'
                         \/ Server' \subseteq graph',
         announcing \subseteq announcing',
         WillFetch => WillFetch' \/ \A v : Answers(call, v),
         \A v \in Server' \ graph' : v \notin Server \/ Answers(calls[s], v) => Answers(call, v)
  PROVE  AllComing'
<1> SUFFICES ASSUME missed' = {}, NEW v \in Server', v \notin graph' PROVE Coming(v)'
  BY DEF AllComing
<1>1. calls'[s] = call /\ \A t \in Slots \ {s} : calls'[t] = calls[t]
  BY DEF IInv, TypeOK
<1>2. CASE v \notin Server
  BY <1>1, <1>2 DEF Coming
<1>3. CASE v \in Server
  <2>1. v \notin graph /\ missed = {}
    OBVIOUS
  <2>2. Coming(v)
    BY <1>3, <2>1 DEF AllComing
  <2>3. ASSUME NEW t \in Slots, Answers(calls[t], v) PROVE Coming(v)'
    BY <1>1, <2>3 DEF Coming
  <2> QED
    BY <1>1, <2>2, <2>3 DEF Coming
<1> QED
  BY <1>2, <1>3

\* An answer that is received has become the client's graph; if that lacks what the client
\* had, or becomes complete, `missed` says so.
LEMMA ComingReceived ==
  ASSUME IInv, AllComing, NEW s \in Slots, NEW g, NEW l, Becomes(g, l), calls[s].content \subseteq g,
         calls[s].ph \in {"graph", "diffs"},
         calls' = [calls EXCEPT ![s] = Idle] \/ calls' = [calls EXCEPT ![s] = Jitter],
         UNCHANGED <<version, announcing, connection, faults>>
  PROVE  AllComing'
<1>1. Server' = Server /\ announcing' = announcing /\ WillFetch' = WillFetch
  BY DEF connection, WillFetch, Server
<1>2. missed' = {} => \/ missed = {} /\ graph \subseteq graph'
                      \/ Server' \subseteq graph'
  BY <1>1 DEF Becomes
<1>3. \A v \in Server' \ graph' : v \in Server /\ ~Answers(calls[s], v)
  BY <1>1 DEF Becomes, Answers
<1> QED
  BY <1>1, <1>2, <1>3, ComingStep

LEMMA StepComing ==
  ASSUME IInv, AllComing, Next
  PROVE  AllComing'
<1> USE SyncAssumption DEF clientState, connection
<1>0. Server \subseteq 1 .. MaxVersion /\ graph \subseteq Server /\ version \in Nat
  BY DEF IInv, TypeOK, Server
<1>1. CASE OtherCommits
  <2>1. Server' = Server \cup {version'} /\ announcing' = announcing \cup {version'}
        /\ UNCHANGED <<missed, graph, calls, notice, timer, due>>
    BY <1>0, <1>1 DEF OtherCommits, Server
  <2> QED
    BY <2>1 DEF AllComing, Coming, WillFetch
<1>2. ASSUME NEW w \in announcing, Announce(w) \/ NotAnnounced(w) PROVE AllComing'
  <2>1. /\ Server' = Server /\ UNCHANGED <<graph, calls, timer, due>>
        /\ announcing' = announcing \ {w} /\ (notice => notice')
        /\ notice' \/ graph = Server \/ missed' # {}
        /\ missed' = {} => missed = {}
    BY <1>2 DEF Announce, NotAnnounced, Server, Misses, Fault
  <2> QED
    BY <2>1 DEF AllComing, Coming, WillFetch
<1>3. ASSUME NEW s \in Slots, Authenticate(s) \/ GetSession(s) PROVE AllComing'
  <2>1. PICK call : /\ calls' = [calls EXCEPT ![s] = call]
                    /\ \A v \in Server : Answers(calls[s], v) => Answers(call, v)
    <3>1. CASE Authenticate(s)
      <4> DEFINE call == Served(s, "read", version, {})
      <4>1. calls' = [calls EXCEPT ![s] = call] /\ \A v : Answers(calls[s], v) => Answers(call, v)
        BY <3>1 DEF Authenticate, Goto, Served, Answers, At
      <4> QED
        BY <4>1
    <3>2. CASE GetSession(s)
      <4> DEFINE call == Served(s, "graph", calls[s].label, Server)
      <4>1. calls' = [calls EXCEPT ![s] = call] /\ \A v \in Server : Answers(call, v)
        BY <3>2 DEF GetSession, Goto, Served, Answers
      <4> QED
        BY <4>1
    <3> QED
      BY <1>3, <3>1, <3>2
  <2>2. /\ UNCHANGED <<version, announcing, missed, graph, notice, timer, due>>
        /\ Server' = Server /\ WillFetch' = WillFetch
    BY <1>3 DEF Authenticate, GetSession, Server, WillFetch
  <2> QED
    BY <2>1, <2>2, ComingStep
<1>4. ASSUME NEW s \in Slots, Commit(s) PROVE AllComing'
  <2>1. /\ UNCHANGED <<announcing, graph, notice, timer, due>> /\ WillFetch' = WillFetch
        /\ Server' = Server \cup {version'}
        /\ calls[s].ph = "read" /\ calls[s].kind = "update"
    BY <1>0, <1>4 DEF Commit, At, Server, WillFetch
  <2>2. \A v : ~Answers(calls[s], v)
    BY <2>1 DEF Answers
  <2>3. CASE missed' # {}
    BY <2>3 DEF AllComing
  <2>4. CASE missed' = {}
    <3> DEFINE call == Served(s, "diffs", version', {version'})
    <3>1. calls' = [calls EXCEPT ![s] = call] /\ missed' = missed
      BY <1>4, <2>4 DEF Commit, Goto
    <3>2. Answers(call, version')
      BY DEF Answers, Served
    <3> HIDE DEF call
    <3> QED
      BY <2>1, <2>2, <3>1, <3>2, ComingStep
  <2> QED
    BY <2>3, <2>4
<1>5. ASSUME NEW s \in Slots, UserUpdate \/ Refuse(s) \/ Outdated(s) \/ Retry(s) PROVE AllComing'
  <2>1. PICK t \in Slots : \E call :
          calls' = [calls EXCEPT ![t] = call] /\ \A v : Answers(calls[t], v) => Answers(call, v)
    <3>1. CASE UserUpdate
      BY <3>1 DEF UserUpdate, Goto, Slots, At, Answers
    <3>2. CASE Refuse(s) \/ Outdated(s) \/ Retry(s)
      <4>1. \A v : ~Answers(calls[s], v)
        BY <3>2 DEF Refuse, Outdated, Retry, At, Answers
      <4> QED
        BY <3>2, <4>1 DEF Refuse, Outdated, Retry, Goto
    <3> QED
      BY <1>5, <3>1, <3>2
  <2>2. PICK call :
          calls' = [calls EXCEPT ![t] = call] /\ \A v : Answers(calls[t], v) => Answers(call, v)
    BY <2>1
  <2>3. /\ UNCHANGED <<version, announcing, missed, graph, notice, timer, due>>
        /\ Server' = Server /\ WillFetch' = WillFetch
    BY <1>5 DEF UserUpdate, Refuse, Outdated, Retry, Server, WillFetch
  <2> QED
    BY <2>2, <2>3, ComingStep
<1>6. ASSUME NEW s \in Slots, ReceiveGraph(s) \/ ReceiveDiffs(s) PROVE AllComing'
  <2>1. UNCHANGED <<version, announcing, connection, faults>>
    BY <1>6 DEF ReceiveGraph, ReceiveDiffs
  <2>2. CASE ReceiveGraph(s)
    BY <2>1, <2>2, ComingReceived DEF ReceiveGraph, Goto, At
  <2>3. CASE ReceiveDiffs(s)
    BY <2>1, <2>3, ComingReceived DEF ReceiveDiffs, Goto, At
  <2> QED
    BY <1>6, <2>2, <2>3
<1>7. ASSUME NEW s \in Slots, Lose(s) PROVE AllComing'
  <2>1. Server' = Server /\ graph' = graph /\ (graph = Server \/ missed' # {})
    BY <1>7 DEF Lose, Misses, Server
  <2> QED
    BY <2>1 DEF AllComing
<1>8. CASE Deliver \/ ComeBack \/ Reconnect
  <2>1. /\ Server' = Server /\ UNCHANGED <<announcing, missed, graph, calls>>
        /\ WillFetch => WillFetch'
    BY <1>8 DEF Deliver, ComeBack, Reconnect, Server, WillFetch
  <2> QED
    BY <2>1 DEF AllComing, Coming
<1>9. CASE TimerOver \/ RefreshSession
  <2>1. PICK s \in Slots : calls' = [calls EXCEPT ![s] = Session]
    BY <1>9 DEF TimerOver, RefreshSession, Goto, Slots
  <2>2. Server' = Server /\ UNCHANGED <<announcing, missed, graph>>
    BY <1>9 DEF TimerOver, RefreshSession, Server
  <2> QED
    BY <2>1, <2>2, SessionAnswers, ComingStep
<1>10. ASSUME NEW why \in {"dropped", "away"}, GoDown(why) PROVE AllComing'
  <2>1. /\ Server' = Server /\ UNCHANGED <<announcing, graph, calls, timer, due>>
        /\ notice => graph = Server \/ missed' # {}
        /\ missed' = {} => missed = {}
    BY <1>10 DEF GoDown, Misses, Server
  <2> QED
    BY <2>1 DEF AllComing, Coming, WillFetch
<1> QED
  BY <1>1, <1>2, <1>3, <1>4, <1>5, <1>6, <1>7, <1>8, <1>9, <1>10 DEF Next, Handle, Receive, Slots

\* A client at rest lacks nothing that it did not miss: announcements that overtake fetches,
\* fetches that run side by side and messages to sockets that open and close lose nothing
\* which `missed` does not record.
THEOREM StaleCorrect == Spec => []StaleOnlyIfMissed
<1>1. Init => AllComing
  BY DEF Init, AllComing
<1>2. IInv /\ AllComing /\ [Next]_vars => AllComing'
  <2>1. ASSUME AllComing, UNCHANGED vars PROVE AllComing'
    BY <2>1 DEF AllComing, Coming, WillFetch, Server, vars, clientState, connection
  <2> QED
    BY <2>1, StepComing
<1>3. IInv /\ AllComing => StaleOnlyIfMissed
  <2> SUFFICES ASSUME IInv, AllComing, Quiet, missed = {} PROVE graph = Server
    BY DEF StaleOnlyIfMissed
  <2>1. \A v : ~Coming(v)
    BY DEF Quiet, Coming, WillFetch, At, Answers
  <2> QED
    BY <2>1 DEF AllComing, IInv, TypeOK
<1> QED
  BY <1>1, <1>2, <1>3, Invariance, PTL DEF Spec
=============================================================================

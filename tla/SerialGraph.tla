--------------------------- MODULE SerialGraph ---------------------------
(***************************************************************************)
(* What the API promises about the rows of an org graph that are rewritten *)
(* only under their locks: a serial store.  Writes happen one request at a *)
(* time on the current content, and a request is answered with the content *)
(* of one instant: its own write's, or that of an earlier read.  A row can  *)
(* be spoilt for good, by a write without the locks: of it nothing is said. *)
(***************************************************************************)
EXTENDS Sequences

CONSTANTS Requests, PlainRows

VARIABLES
  content,  \* the requests whose write each row reflects
  log,      \* the requests that were committed, in order
  answer,   \* the content each request is answered with
  spoilt    \* the rows of which nothing is promised any more, shown empty

serialVars == <<content, log, answer, spoilt>>

Nothing == [x \in PlainRows |-> {}]

Init ==
  /\ content = Nothing
  /\ log = <<>>
  /\ answer = [r \in Requests |-> Nothing]
  /\ spoilt = {}

\* A request that does not lock the graph takes a snapshot of it.
Read(r) ==
  /\ answer[r] = Nothing
  /\ answer' = [answer EXCEPT ![r] = content]
  /\ UNCHANGED <<content, log, spoilt>>

\* A request rewrites some rows and is answered with the result.
Write(r) ==
  /\ \A i \in DOMAIN log : log[i] # r
  /\ \E S \in SUBSET (PlainRows \ spoilt) :
       content' = [x \in PlainRows |-> IF x \in S THEN content[x] \cup {r} ELSE content[x]]
  /\ log' = Append(log, r)
  /\ answer' = [answer EXCEPT ![r] = content']
  /\ UNCHANGED spoilt

\* A request that answers an earlier snapshot commits writes to other rows only.
Record(r) ==
  /\ \A i \in DOMAIN log : log[i] # r
  /\ log' = Append(log, r)
  /\ UNCHANGED <<content, answer, spoilt>>

\* A request commits writes to some rows without their locks and spoils those.
Spoil(r) ==
  LET Without(c) == [x \in PlainRows |-> IF x \in spoilt' THEN {} ELSE c[x]] IN
  /\ \A i \in DOMAIN log : log[i] # r
  /\ \E S \in SUBSET PlainRows : spoilt' = spoilt \cup S
  /\ content' = Without(content)
  /\ answer' = [q \in Requests |-> Without(answer[q])]
  /\ log' = Append(log, r)

\* A request fails after its snapshot: nobody sees it.
Drop(r) ==
  /\ answer' = [answer EXCEPT ![r] = Nothing]
  /\ UNCHANGED <<content, log, spoilt>>

Next == \E r \in Requests : Read(r) \/ Write(r) \/ Record(r) \/ Spoil(r) \/ Drop(r)

Spec == Init /\ [][Next]_serialVars
=============================================================================

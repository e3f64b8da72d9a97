------------------------- MODULE MemoryQueue_proofs -------------------------
(***************************************************************************)
(* The invariants of MemoryQueue hold for any number of emails, any batch  *)
(* size and any number of retries.                                         *)
(*                                                                         *)
(* The heart is that the queue holds each email once, as long as only new  *)
(* emails are pushed, and that a batch is a prefix of it cut off in one    *)
(* step: cutting keeps the two parts apart.                                *)
(***************************************************************************)
EXTENDS MemoryQueue, FiniteSetTheorems, SequenceTheorems, TLAPS

Status == {"new", "sending", "queued", "running", "backing off", "sent", "gave up"}

Once(q) == \A i, j \in 1..Len(q) : q[i] = q[j] => i = j

\* The queue is made of the emails that wait.
Agrees(q, st) ==
  /\ q \in Seq(Emails) /\ st \in [Emails -> Status]
  /\ Once(q)
  /\ \A m \in Emails : st[m] = "queued" <=> m \in Members(q)

IInv ==
  /\ TypeOK
  /\ Agrees(queue, status)
  /\ InFlight \subseteq batch
  /\ IsFiniteSet(batch) /\ Cardinality(batch) <= BatchSize
  /\ bulk => \A m \in Emails : status[m] # "sending"
  /\ loop # "batch" => batch = {}
  /\ queue # <<>> => loop # "idle"
  /\ Alive \/ Members(queue) \cup batch \subseteq logged[1]

-----------------------------------------------------------------------------
(* Lemmas about the queue as a sequence. *)

LEMMA MembersType ==
  ASSUME NEW q \in Seq(Emails)
  PROVE  /\ Members(q) = {q[i] : i \in 1..Len(q)}
         /\ Members(q) \in SUBSET Emails
         /\ Members(q) = {} <=> Len(q) = 0
<1>1. DOMAIN q = 1..Len(q) /\ Len(q) \in Nat /\ \A i \in 1..Len(q) : q[i] \in Emails
  OBVIOUS
<1>2. Members(q) = {q[i] : i \in 1..Len(q)}
  BY <1>1 DEF Members
<1>3. Len(q) # 0 => 1 \in 1..Len(q)
  BY <1>1
<1> QED
  BY <1>1, <1>2, <1>3

LEMMA MembersCount ==
  ASSUME NEW q \in Seq(Emails)
  PROVE  /\ IsFiniteSet(Members(q)) /\ Cardinality(Members(q)) <= Len(q)
         /\ Once(q) => Cardinality(Members(q)) = Len(q)
<1>1. Members(q) = {q[i] : i \in 1..Len(q)} /\ Len(q) \in Nat
  BY MembersType
<1>2. IsFiniteSet(1..Len(q)) /\ Cardinality(1..Len(q)) = Len(q)
  BY <1>1, FS_Interval
<1>3. q \in Surjection(1..Len(q), Members(q))
  BY <1>1 DEF Surjection
<1>4. Once(q) => q \in Injection(1..Len(q), Members(q))
  BY <1>3 DEF Once, Injection, IsInjective, Surjection
<1> QED
  BY <1>2, <1>3, <1>4, FS_Surjection

LEMMA Pushed ==
  ASSUME NEW q \in Seq(Emails), NEW m \in Emails
  PROVE  /\ Append(q, m) \in Seq(Emails) /\ Append(q, m) # <<>>
         /\ Members(Append(q, m)) = Members(q) \cup {m}
         /\ Once(q) /\ m \notin Members(q) => Once(Append(q, m))
<1> DEFINE r == Append(q, m)
<1>1. /\ r \in Seq(Emails) /\ r # <<>> /\ Len(r) = Len(q) + 1 /\ Len(q) \in Nat
      /\ r[Len(q) + 1] = m /\ \A i \in 1..Len(q) : r[i] = q[i]
  OBVIOUS
<1> HIDE DEF r
<1>2. Members(r) = {r[i] : i \in 1..Len(r)} /\ Members(q) = {q[i] : i \in 1..Len(q)}
  BY <1>1, MembersType
<1>3. 1..Len(r) = (1..Len(q)) \cup {Len(q) + 1}
  BY <1>1
<1>4. Members(r) = Members(q) \cup {m}
  BY <1>1, <1>2, <1>3
<1>5. ASSUME Once(q), m \notin Members(q) PROVE Once(r)
  BY <1>1, <1>2, <1>3, <1>5 DEF Once
<1> QED
  BY <1>1, <1>4, <1>5 DEF r

\* Cutting a queue in two.
LEMMA Cut ==
  ASSUME NEW q \in Seq(Emails), Once(q), NEW n \in 0..Len(q)
  PROVE  LET a == SubSeq(q, 1, n)
             b == SubSeq(q, n + 1, Len(q))
         IN /\ a \in Seq(Emails) /\ Len(a) = n
            /\ b \in Seq(Emails) /\ Len(b) = Len(q) - n /\ Once(b)
            /\ Members(q) = Members(a) \cup Members(b)
            /\ Members(a) \cap Members(b) = {}
<1> DEFINE a == SubSeq(q, 1, n)
           b == SubSeq(q, n + 1, Len(q))
<1>1. Len(q) \in Nat /\ n \in Nat /\ n <= Len(q) /\ \A i \in 1..Len(q) : q[i] \in Emails
  OBVIOUS
<1>2. a \in Seq(Emails) /\ Len(a) = n /\ \A i \in 1..n : a[i] = q[i]
  BY <1>1, SubSeqProperties
<1>3. b \in Seq(Emails) /\ Len(b) = Len(q) - n /\ \A i \in 1..(Len(q) - n) : b[i] = q[n + i]
  <2>1. \A i \in (n + 1)..Len(q) : q[i] \in Emails
    BY <1>1
  <2>2. n + 1 \in Int /\ Len(q) \in Int
    BY <1>1
  <2>3. /\ b \in Seq(Emails)
        /\ Len(b) = IF n + 1 <= Len(q) THEN Len(q) - (n + 1) + 1 ELSE 0
        /\ \A i \in 1..(Len(q) - (n + 1) + 1) : b[i] = q[n + 1 + i - 1]
    BY <2>1, <2>2, SubSeqProperties
  <2> QED
    BY <1>1, <2>3
<1> HIDE DEF a, b
<1>4. /\ Members(a) = {a[i] : i \in 1..Len(a)} /\ Members(b) = {b[i] : i \in 1..Len(b)}
      /\ Members(q) = {q[i] : i \in 1..Len(q)}
  BY <1>2, <1>3, MembersType
<1>5. Once(b)
  <2> SUFFICES ASSUME NEW i \in 1..Len(b), NEW j \in 1..Len(b), b[i] = b[j] PROVE i = j
    BY DEF Once
  <2>1. n + i \in 1..Len(q) /\ n + j \in 1..Len(q) /\ q[n + i] = q[n + j]
    BY <1>1, <1>3
  <2>2. n + i = n + j
    BY <2>1 DEF Once
  <2> QED
    BY <1>1, <2>2
<1>6. Members(a) \subseteq Members(q) /\ Members(b) \subseteq Members(q)
  <2>1. ASSUME NEW i \in 1..Len(a) PROVE a[i] \in Members(q)
    BY <1>1, <1>2, <1>4
  <2>2. ASSUME NEW i \in 1..Len(b) PROVE b[i] \in Members(q)
    <3>1. n + i \in 1..Len(q) /\ b[i] = q[n + i]
      BY <1>1, <1>3
    <3> QED
      BY <1>4, <3>1
  <2> QED
    BY <1>4, <2>1, <2>2
<1>7. ASSUME NEW k \in 1..Len(q) PROVE q[k] \in Members(a) \cup Members(b)
  <2>1. CASE k <= n
    BY <1>1, <1>2, <1>4, <2>1
  <2>2. CASE k > n
    <3>1. k - n \in 1..Len(b) /\ b[k - n] = q[n + (k - n)] /\ n + (k - n) = k
      BY <1>1, <1>3, <2>2
    <3> QED
      BY <1>4, <3>1
  <2> QED
    BY <1>1, <2>1, <2>2
<1>8. Members(a) \cap Members(b) = {}
  <2> SUFFICES ASSUME NEW i \in 1..Len(a), NEW j \in 1..Len(b), a[i] = b[j] PROVE FALSE
    BY <1>4
  <2>1. i \in 1..Len(q) /\ n + j \in 1..Len(q) /\ q[i] = q[n + j] /\ i <= n /\ n < n + j
    BY <1>1, <1>2, <1>3
  <2>2. i = n + j
    BY <2>1 DEF Once
  <2> QED
    BY <1>1, <2>1, <2>2
<1> QED
  BY <1>2, <1>3, <1>4, <1>5, <1>6, <1>7, <1>8 DEF a, b

LEMMA Count ==
  ASSUME NEW f \in [Emails -> Nat], NEW S
  PROVE  [m \in Emails |-> IF m \in S THEN f[m] + 1 ELSE f[m]] \in [Emails -> Nat]
OBVIOUS

LEMMA BatchLength ==
  ASSUME NEW n \in Nat
  PROVE  LET size == IF n < BatchSize THEN n ELSE BatchSize
         IN size \in 0..n /\ size <= BatchSize /\ (size = 0 => n = 0)
BY QueueAssumption

\* What the loop takes from a queue is a batch, and it leaves the rest.
LEMMA CutBatch ==
  ASSUME NEW q \in Seq(Emails), Once(q)
  PROVE  LET size == IF Len(q) < BatchSize THEN Len(q) ELSE BatchSize
             a == SubSeq(q, 1, size)
             b == SubSeq(q, size + 1, Len(q))
         IN /\ Members(a) \in SUBSET Emails
            /\ IsFiniteSet(Members(a)) /\ Cardinality(Members(a)) <= BatchSize
            /\ b \in Seq(Emails) /\ Once(b)
            /\ Members(q) = Members(a) \cup Members(b) /\ Members(a) \cap Members(b) = {}
            /\ Members(a) = {} => b = <<>>
<1> DEFINE size == IF Len(q) < BatchSize THEN Len(q) ELSE BatchSize
           a == SubSeq(q, 1, size)
           b == SubSeq(q, size + 1, Len(q))
<1>1. Len(q) \in Nat
  OBVIOUS
<1>2. size \in 0..Len(q) /\ size <= BatchSize /\ (size = 0 => Len(q) = 0)
  BY <1>1, BatchLength
<1> HIDE DEF size
<1>3. /\ a \in Seq(Emails) /\ Len(a) = size
      /\ b \in Seq(Emails) /\ Len(b) = Len(q) - size /\ Once(b)
      /\ Members(q) = Members(a) \cup Members(b) /\ Members(a) \cap Members(b) = {}
  BY <1>2, Cut
<1> HIDE DEF a, b
<1>4. Members(a) \in SUBSET Emails /\ (Members(a) = {} <=> size = 0)
  BY <1>3, MembersType
<1>5. IsFiniteSet(Members(a)) /\ Cardinality(Members(a)) <= BatchSize
  <2>1. IsFiniteSet(Members(a)) /\ Cardinality(Members(a)) <= size
    BY <1>3, MembersCount
  <2>2. Cardinality(Members(a)) \in Nat
    BY <2>1, FS_CardinalityType
  <2> QED
    BY <1>1, <1>2, <2>1, <2>2, QueueAssumption
<1>6. size = 0 => b = <<>>
  <2>1. size = 0 => Len(b) = 0
    BY <1>1, <1>2, <1>3
  <2> QED
    BY <1>3, <2>1, EmptySeq
<1> QED
  BY <1>3, <1>4, <1>5, <1>6 DEF size, a, b

-----------------------------------------------------------------------------
LEMMA InitIInv == Init => IInv
<1> SUFFICES ASSUME Init PROVE IInv
  OBVIOUS
<1>1. TypeOK
  BY DEF Init, TypeOK, Alive
<1>2. Members(queue) = {} /\ Once(queue) /\ queue \in Seq(Emails)
  BY DEF Init, Members, Once
<1>3. Agrees(queue, status)
  BY <1>2 DEF Init, Agrees, Status
<1>4. InFlight = {}
  BY DEF Init, InFlight
<1>5. IsFiniteSet(batch) /\ Cardinality(batch) <= BatchSize
  BY FS_EmptySet, QueueAssumption DEF Init
<1> QED
  BY <1>1, <1>3, <1>4, <1>5 DEF Init, IInv, Alive

\* A batch is started from a queue that agrees with the status, when nothing is in
\* flight.
LEMMA StartBatchStep ==
  ASSUME IInv, Alive, NEW q \in Seq(Emails), NEW st \in [Emails -> Status], Agrees(q, st),
         \A m \in Emails : st[m] \notin {"running", "backing off"},
         bulk => \A m \in Emails : st[m] # "sending",
         StartBatch(q, st), bulk' = bulk, logged' = logged
  PROVE  IInv'
<1> DEFINE size == IF Len(q) < BatchSize THEN Len(q) ELSE BatchSize
           a == SubSeq(q, 1, size)
           b == SubSeq(q, size + 1, Len(q))
<1>1. /\ batch' = Members(a) /\ queue' = b
      /\ runs' = [m \in Emails |-> IF m \in Members(a) THEN runs[m] + 1 ELSE runs[m]]
      /\ status' = [m \in Emails |-> IF m \in Members(a) THEN "running" ELSE st[m]]
      /\ loop' = IF Members(a) = {} THEN "idle" ELSE "batch"
  BY DEF StartBatch
<1>2. Once(q)
  BY DEF Agrees
<1>3. /\ Members(a) \in SUBSET Emails
      /\ IsFiniteSet(Members(a)) /\ Cardinality(Members(a)) <= BatchSize
      /\ b \in Seq(Emails) /\ Once(b)
      /\ Members(q) = Members(a) \cup Members(b) /\ Members(a) \cap Members(b) = {}
      /\ Members(a) = {} => b = <<>>
  BY <1>2, CutBatch
<1> HIDE DEF size, a, b
<1>4. status' \in [Emails -> Status]
  BY <1>1 DEF Status
<1>5. runs' \in [Emails -> Nat]
  BY <1>1, Count DEF IInv, TypeOK
<1>6. TypeOK'
  BY <1>1, <1>3, <1>4, <1>5 DEF IInv, TypeOK, Status, Alive
<1>7. Agrees(queue', status')
  <2>1. ASSUME NEW m \in Emails PROVE status'[m] = "queued" <=> m \in Members(b)
    BY <1>1, <1>3, <2>1 DEF Agrees
  <2> QED
    BY <1>1, <1>3, <1>4, <2>1 DEF Agrees
<1>8. InFlight' \subseteq batch'
  BY <1>1 DEF InFlight
<1>9. IsFiniteSet(batch') /\ Cardinality(batch') <= BatchSize
  BY <1>1, <1>3
<1>10. (loop' # "batch" => batch' = {}) /\ (queue' # <<>> => loop' # "idle")
  BY <1>1, <1>3
<1>11. bulk' => \A m \in Emails : status'[m] # "sending"
  BY <1>1
<1> QED
  BY <1>6, <1>7, <1>8, <1>9, <1>10, <1>11 DEF IInv, Alive

LEMMA EnqueueStep ==
  ASSUME IInv, Alive, NEW m \in Emails, status[m] \in {"new", "sending"},
         Enqueue(m), bulk' = bulk, logged' = logged
  PROVE  IInv'
<1> DEFINE q == Append(queue, m)
           st == [status EXCEPT ![m] = "queued"]
<1>1. Agrees(queue, status)
  BY DEF IInv
<1>2. m \notin Members(queue)
  BY <1>1 DEF Agrees
<1>3. q \in Seq(Emails) /\ q # <<>> /\ Members(q) = Members(queue) \cup {m} /\ Once(q)
  BY <1>1, <1>2, Pushed DEF Agrees
<1>4. st \in [Emails -> Status] /\ \A k \in Emails : st[k] = IF k = m THEN "queued" ELSE status[k]
  BY <1>1 DEF Agrees, Status
<1> HIDE DEF q, st
<1>5. Agrees(q, st)
  BY <1>1, <1>3, <1>4 DEF Agrees
<1>8. bulk => \A k \in Emails : st[k] # "sending"
  BY <1>4 DEF IInv
<1>6. CASE loop = "idle"
  <2>1. StartBatch(q, st)
    BY <1>6 DEF Enqueue, q, st
  <2>2. \A k \in Emails : status[k] \notin {"running", "backing off"}
    BY <1>6 DEF IInv, InFlight
  <2>3. \A k \in Emails : st[k] \notin {"running", "backing off"}
    BY <1>4, <2>2
  <2> QED
    BY <1>3, <1>4, <1>5, <1>8, <2>1, <2>3, StartBatchStep
<1>7. CASE loop # "idle"
  <2>1. queue' = q /\ status' = st /\ runs' = runs /\ batch' = batch /\ loop' = loop
    BY <1>7 DEF Enqueue, q, st
  <2>2. TypeOK'
    BY <1>3, <1>4, <2>1 DEF IInv, TypeOK, Status, Alive
  <2>3. InFlight' \subseteq batch'
    BY <1>4, <2>1 DEF IInv, InFlight
  <2>4. bulk' => \A k \in Emails : status'[k] # "sending"
    BY <1>8, <2>1
  <2> QED
    BY <1>3, <1>5, <1>7, <2>1, <2>2, <2>3, <2>4 DEF IInv, Alive
<1> QED
  BY <1>6, <1>7

\* An email that is not in the queue goes on: its status changes and nothing else.
LEMMA EmailStep ==
  ASSUME IInv, Alive, NEW m \in Emails, NEW s \in Status \ {"queued"},
         status[m] # "queued", s \in {"running", "backing off"} => m \in batch,
         s = "sending" => ~bulk,
         status' = [status EXCEPT ![m] = s],
         UNCHANGED <<bulk, runs, queue, batch, loop, logged>>
  PROVE  IInv'
<1>1. Agrees(queue, status) /\ status \in [Emails -> Status]
  BY DEF IInv, Agrees
<1>2. status' \in [Emails -> Status] /\ \A k \in Emails : status'[k] = IF k = m THEN s ELSE status[k]
  BY <1>1
<1>3. TypeOK'
  BY <1>2 DEF IInv, TypeOK, Status, Alive
<1>4. Agrees(queue', status')
  BY <1>1, <1>2 DEF Agrees
<1>5. InFlight' \subseteq batch'
  BY <1>2 DEF IInv, InFlight
<1>6. bulk' => \A k \in Emails : status'[k] # "sending"
  BY <1>2 DEF IInv
<1> QED
  BY <1>3, <1>4, <1>5, <1>6 DEF IInv, Alive

LEMMA LoopStep ==
  ASSUME IInv, BatchDone \/ PauseOver
  PROVE  IInv'
<1>1. Alive /\ bulk' = bulk /\ logged' = logged /\ Agrees(queue, status)
  BY DEF BatchDone, PauseOver, IInv
<1>2. \A m \in Emails : status[m] \notin {"running", "backing off"}
  <2>1. CASE BatchDone
    BY <2>1 DEF BatchDone, IInv, InFlight
  <2>2. CASE PauseOver
    BY <2>2 DEF PauseOver, IInv, InFlight
  <2> QED
    BY <2>1, <2>2
<1>3. CASE BatchDone /\ bulk
  <2>1. batch' = {} /\ loop' = "pause" /\ status' = status /\ runs' = runs /\ queue' = queue
    BY <1>3 DEF BatchDone
  <2>2. TypeOK'
    BY <1>1, <2>1 DEF IInv, TypeOK, Alive
  <2>3. InFlight' = {}
    BY <1>2, <2>1 DEF InFlight
  <2>4. IsFiniteSet({}) /\ Cardinality({}) <= BatchSize
    BY FS_EmptySet, QueueAssumption
  <2> QED
    BY <1>1, <2>1, <2>2, <2>3, <2>4 DEF IInv, Alive
<1>4. CASE (BatchDone /\ ~bulk) \/ PauseOver
  <2>1. StartBatch(queue, status)
    BY <1>4 DEF BatchDone, PauseOver
  <2> QED
    BY <1>1, <1>2, <2>1, StartBatchStep DEF Agrees, IInv
<1> QED
  BY <1>3, <1>4

LEMMA ExitStep ==
  ASSUME IInv, Exit
  PROVE  IInv'
<1>1. /\ logged' = <<Members(queue) \cup batch>>
      /\ UNCHANGED <<bulk, status, runs, queue, batch, loop>>
  BY DEF Exit
<1>2. logged'[1] = Members(queue) \cup batch
  BY <1>1
<1>3. Members(queue) \in SUBSET Emails
  BY MembersType DEF IInv, TypeOK
<1>4. TypeOK'
  BY <1>1, <1>2, <1>3 DEF IInv, TypeOK
<1>5. InFlight' = InFlight
  BY <1>1 DEF InFlight
<1> QED
  BY <1>1, <1>2, <1>4, <1>5 DEF IInv

LEMMA NextIInv == IInv /\ [Next]_vars => IInv'
<1> SUFFICES ASSUME IInv, [Next]_vars PROVE IInv'
  OBVIOUS
<1>0. /\ "sending" \in Status \ {"queued"} /\ "sent" \in Status \ {"queued"}
      /\ "backing off" \in Status \ {"queued"} /\ "gave up" \in Status \ {"queued"}
      /\ "sending" \notin {"running", "backing off"} /\ "sent" \notin {"running", "backing off"}
      /\ "gave up" \notin {"running", "backing off"}
  BY DEF Status
<1>1. ASSUME NEW m \in Emails, SendEmail(m) PROVE IInv'
  BY <1>0, <1>1, EmailStep DEF SendEmail
<1>2. ASSUME NEW m \in Emails, FirstTrySent(m) PROVE IInv'
  BY <1>0, <1>2, EmailStep DEF FirstTrySent
<1>3. ASSUME NEW m \in Emails, FirstTryFails(m) PROVE IInv'
  BY <1>3, EnqueueStep DEF FirstTryFails
<1>4. ASSUME NEW m \in Emails, SendBulkEmail(m) PROVE IInv'
  BY <1>4, EnqueueStep DEF SendBulkEmail
<1>5. ASSUME NEW m \in Emails, TaskDone(m) PROVE IInv'
  BY <1>0, <1>5, EmailStep DEF TaskDone
<1>6. ASSUME NEW m \in Emails, TaskFails(m) PROVE IInv'
  <2>1. m \in batch
    BY <1>6 DEF IInv, InFlight, TaskFails
  <2> QED
    BY <1>0, <1>6, <2>1, EmailStep DEF TaskFails
<1>7. ASSUME NEW m \in Emails, BackoffOver(m) PROVE IInv'
  BY <1>0, <1>7, EmailStep DEF BackoffOver
<1>8. CASE UNCHANGED vars
  <2>1. TypeOK' /\ InFlight' = InFlight /\ Members(queue)' = Members(queue)
    BY <1>8 DEF IInv, TypeOK, InFlight, vars, Alive, Members
  <2> QED
    BY <1>8, <2>1 DEF IInv, vars, Alive, Agrees
<1> QED
  BY <1>1, <1>2, <1>3, <1>4, <1>5, <1>6, <1>7, <1>8, LoopStep, ExitStep DEF Next

LEMMA SpecIInv == Spec => []IInv
  BY InitIInv, NextIInv, PTL DEF Spec

-----------------------------------------------------------------------------
\* The variables of the queue have their types, for every number of emails.
THEOREM TypesHold == Spec => []TypeOK
<1>1. IInv => TypeOK
  BY DEF IInv
<1> QED
  BY SpecIInv, <1>1, PTL

\* One loop runs at a time, so that a queue never runs more than the batchSize emails
\* of its batch (maybeLoopQueue of memory_queue.ts); all that is with the mail server
\* in the case of the bulk queue, while the retry queue has first attempts beside it.
THEOREM OneBatchAlways == Spec => []OneBatchAtATime
<1>1. IInv => OneBatchAtATime
  BY DEF IInv, OneBatchAtATime
<1> QED
  BY SpecIInv, <1>1, PTL

\* An email that is pushed while a loop runs is met by that loop: none waits for a
\* loop that has ended (enqueue and maybeLoopQueue of memory_queue.ts).
THEOREM NoEmailStranded == Spec => []NobodyStranded
<1>1. IInv => NobodyStranded
  <2> SUFFICES ASSUME IInv PROVE NobodyStranded
    OBVIOUS
  <2>1. queue \in Seq(Emails) /\ Once(queue)
    BY DEF IInv, Agrees
  <2>2. Waiting = Members(queue)
    BY <2>1, MembersType DEF IInv, Agrees, Waiting
  <2> QED
    BY <2>1, <2>2, MembersCount DEF IInv, NobodyStranded
<1> QED
  BY SpecIInv, <1>1, PTL

\* Whatever is not settled when the process ends is in the queue or in the running
\* batch, and the exit handler logs both (exitHandler of memory_queue.ts).
THEOREM ExitNamesThem == Spec => []ExitNamesUnsettled
<1>1. IInv => ExitNamesUnsettled
  <2> SUFFICES ASSUME IInv PROVE ExitNamesUnsettled
    OBVIOUS
  <2>1. Waiting = Members(queue)
    BY MembersType DEF IInv, Agrees, Waiting
  <2> QED
    BY <2>1 DEF IInv, ExitNamesUnsettled
<1> QED
  BY SpecIInv, <1>1, PTL

=============================================================================

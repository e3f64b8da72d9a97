--------------------------- MODULE MemoryQueue ---------------------------
(***************************************************************************)
(* The in-memory queue through which the API server sends emails           *)
(* (app/api/shared/src/memory_queue.ts), with the two ways into it of      *)
(* email.ts: sendEmail tries at once and queues what fails, sendBulkEmail  *)
(* queues everything and paces the batches.                                *)
(*                                                                         *)
(* The server is single threaded: a step runs from one await to the next,  *)
(* so queueing an email on an idle queue and starting its batch is one     *)
(* step, while an email can be queued between any two steps of a loop.     *)
(***************************************************************************)
EXTENDS Naturals, Sequences, FiniteSets

CONSTANTS
  Emails,
  BatchSize,   \* batchSize: emails sent side by side
  MaxRetries   \* maxRetries

ASSUME QueueAssumption == BatchSize \in Nat \ {0} /\ MaxRetries \in Nat

VARIABLES
  bulk,     \* which of the two queues this is: "email-bulk-queue" or "email-retry-queue"
  status,   \* where each email is
  runs,     \* runCounter: how often the queue ran the task of each email
  queue,    \* the emails waiting to be run
  batch,    \* currentlyRunning
  loop,     \* maybeLoopQueue: not looping, awaiting a batch, or pausing after one
  logged    \* the emails named by the "exit" handler, or none while alive

vars == <<bulk, status, runs, queue, batch, loop, logged>>

Alive == logged = <<>>

Init ==
  /\ bulk \in BOOLEAN
  /\ status = [m \in Emails |-> "new"]
  /\ runs = [m \in Emails |-> 0]
  /\ queue = <<>>
  /\ batch = {}
  /\ loop = "idle"
  /\ logged = <<>>

Members(q) == {q[i] : i \in DOMAIN q}

\* One turn of the while loop, up to its first await.
StartBatch(q, st) ==
  LET size == IF Len(q) < BatchSize THEN Len(q) ELSE BatchSize
      next == Members(SubSeq(q, 1, size))
  IN /\ batch' = next
     /\ queue' = SubSeq(q, size + 1, Len(q))
     /\ runs' = [m \in Emails |-> IF m \in next THEN runs[m] + 1 ELSE runs[m]]
     /\ status' = [m \in Emails |-> IF m \in next THEN "running" ELSE st[m]]
     /\ loop' = IF next = {} THEN "idle" ELSE "batch"

\* Mutant: queueing an email starts a batch whether or not the queue is looping.
EnqueueAlwaysLoops(m) == StartBatch(Append(queue, m), [status EXCEPT ![m] = "queued"])

\* enqueue: push, then maybeLoopQueue, which returns at once while it is looping.
Enqueue(m) ==
  LET st == [status EXCEPT ![m] = "queued"] IN
  IF loop = "idle" THEN StartBatch(Append(queue, m), st)
  ELSE /\ queue' = Append(queue, m)
       /\ status' = st
       /\ UNCHANGED <<runs, batch, loop>>

-----------------------------------------------------------------------------
\* sendEmail: the first attempt does not go through the queue.
SendEmail(m) ==
  /\ Alive /\ ~bulk /\ status[m] = "new"
  /\ status' = [status EXCEPT ![m] = "sending"]
  /\ UNCHANGED <<bulk, runs, queue, batch, loop, logged>>

FirstTrySent(m) ==
  /\ Alive /\ status[m] = "sending"
  /\ status' = [status EXCEPT ![m] = "sent"]
  /\ UNCHANGED <<bulk, runs, queue, batch, loop, logged>>

FirstTryFails(m) ==
  /\ Alive /\ status[m] = "sending"
  /\ Enqueue(m)
  /\ UNCHANGED <<bulk, logged>>

SendBulkEmail(m) ==
  /\ Alive /\ bulk /\ status[m] = "new"
  /\ Enqueue(m)
  /\ UNCHANGED <<bulk, logged>>

TaskDone(m) ==
  /\ Alive /\ status[m] = "running"
  /\ status' = [status EXCEPT ![m] = "sent"]
  /\ UNCHANGED <<bulk, runs, queue, batch, loop, logged>>

\* The catch of a task.  reenqueue does not push the item: with retries left it
\* only calls maybeLoopQueue, which returns because this loop is looping.
TaskFails(m) ==
  /\ Alive /\ status[m] = "running"
  /\ status' = [status EXCEPT ![m] = "backing off"]
  /\ UNCHANGED <<bulk, runs, queue, batch, loop, logged>>

\* wait(queuePauseOnFailure): 5 seconds in both queues.
BackoffOver(m) ==
  /\ Alive /\ status[m] = "backing off"
  /\ status' = [status EXCEPT ![m] = "gave up"]
  /\ UNCHANGED <<bulk, runs, queue, batch, loop, logged>>

\* Mutant: the loop ends with its batch.
BatchDoneStops ==
  /\ Alive /\ loop = "batch"
  /\ \A m \in batch : status[m] \in {"sent", "gave up"}
  /\ batch' = {} /\ loop' = "idle"
  /\ UNCHANGED <<bulk, status, runs, queue, logged>>

\* Promise.all of the batch resolves; the bulk queue pauses between batches.
BatchDone ==
  /\ Alive /\ loop = "batch"
  /\ \A m \in batch : status[m] \in {"sent", "gave up"}
  /\ IF bulk THEN /\ batch' = {} /\ loop' = "pause"
                  /\ UNCHANGED <<status, runs, queue>>
     ELSE StartBatch(queue, status)
  /\ UNCHANGED <<bulk, logged>>

\* Mutant: the loop ends after a pause.
PauseOverStops ==
  /\ Alive /\ loop = "pause"
  /\ loop' = "idle"
  /\ UNCHANGED <<bulk, status, runs, queue, batch, logged>>

PauseOver ==
  /\ Alive /\ loop = "pause"
  /\ StartBatch(queue, status)
  /\ UNCHANGED <<bulk, logged>>

\* Mutant: the batch is logged as one element instead of being spread.
ExitNested ==
  /\ Alive
  /\ logged' = <<Members(queue) \cup {batch}>>
  /\ UNCHANGED <<bulk, status, runs, queue, batch, loop>>

\* Mutant: only the emails still in the queue are logged.
ExitWithoutRunning ==
  /\ Alive
  /\ logged' = <<Members(queue)>>
  /\ UNCHANGED <<bulk, status, runs, queue, batch, loop>>

\* The process ends: the "exit" handler logs what it may lose.
Exit ==
  /\ Alive
  /\ logged' = <<Members(queue) \cup batch>>
  /\ UNCHANGED <<bulk, status, runs, queue, batch, loop>>

Next ==
  \/ \E m \in Emails : \/ SendEmail(m) \/ FirstTrySent(m) \/ FirstTryFails(m)
                       \/ SendBulkEmail(m)
                       \/ TaskDone(m) \/ TaskFails(m) \/ BackoffOver(m)
  \/ BatchDone \/ PauseOver \/ Exit

\* sendMail settles, one way or the other, and timers fire.
Fairness ==
  /\ \A m \in Emails : WF_vars(FirstTrySent(m) \/ FirstTryFails(m))
                       /\ WF_vars(TaskDone(m) \/ TaskFails(m))
                       /\ WF_vars(BackoffOver(m))
  /\ WF_vars(BatchDone) /\ WF_vars(PauseOver)

Spec     == Init /\ [][Next]_vars
FairSpec == Spec /\ Fairness

-----------------------------------------------------------------------------
InFlight == {m \in Emails : status[m] \in {"running", "backing off"}}
Waiting  == {m \in Emails : status[m] = "queued"}

\* The shape of the state.
TypeOK ==
  /\ bulk \in BOOLEAN
  /\ status \in [Emails -> {"new", "sending", "queued", "running", "backing off",
                            "sent", "gave up"}]
  /\ runs \in [Emails -> Nat]
  /\ queue \in Seq(Emails)
  /\ batch \in SUBSET Emails
  /\ loop \in {"idle", "batch", "pause"}
  /\ Alive \/ logged[1] \in SUBSET Emails

\* However emails are queued while a batch is sent, backs off or pauses, a queue
\* has one loop: what it runs is of its current batch, never more than batchSize
\* emails.  For the bulk queue, which sends nothing past the loop, these are all
\* the emails with the mail server.  Not so for the retry queue: the first
\* attempts of sendEmail are not counted, and nothing limits them (nor is there a
\* pause between its batches), so this is no bound on the server's sending rate.
OneBatchAtATime ==
  /\ InFlight \subseteq batch
  /\ Cardinality(batch) <= BatchSize
  /\ bulk => \A m \in Emails : status[m] # "sending"

\* No wake-up is lost: an email waits only while the loop will come back to the
\* queue, and it waits there once.
NobodyStranded ==
  /\ Waiting = Members(queue) /\ Cardinality(Waiting) = Len(queue)
  /\ queue # <<>> => loop # "idle"

\* The "exit" handler names every queued email the server has neither sent nor
\* given up when it dies.
ExitNamesUnsettled == Alive \/ Waiting \cup InFlight \subseteq logged[1]

\* Every email taken into the queue is run, unless the server dies first.
EveryEmailRuns ==
  \A m \in Emails : status[m] = "queued" ~> (runs[m] > 0 \/ ~Alive)

\* memory_queue.ts:80 "all tasks completed or were re-enqueued", and email.ts:98
\* "sendEmail will immediately attempt to send the mail, then queue retries if it
\* fails": when a batch is over each of its emails was sent, or is queued again,
\* or has used its retries.
CompletedOrReenqueued ==
  [][\A m \in batch : m \notin batch' =>
       status[m] = "sent" \/ m \in Members(queue) \/ runs[m] > MaxRetries]_vars
=============================================================================

---------------------------- MODULE EnvkeyFetch ----------------------------
(***************************************************************************)
(* Processes that fetch the config of one ENVKEY and share its cache file: *)
(* failover, retries, the cache as a backup, and its writer, which runs    *)
(* beside the decryption.  Code: sdks/envkey-fetch/fetch/fetch.go (Fetch,  *)
(* fetchEnv, getJson) and cache/cache.go.                                  *)
(*                                                                         *)
(* Every Fetch has a Cache with a channel Done of capacity one, on which   *)
(* Write, Read and Delete report without blocking: `done` is true when     *)
(* the channel holds a token.  A body is the encrypted config, which the   *)
(* right password decrypts; what else is in it does not matter here.       *)
(***************************************************************************)
EXTENDS Naturals, FiniteSets

CONSTANTS
  Fetches,      \* calls of Fetch, each in a process of its own
  NumFailovers, \* failover endpoints, tried in order after the main one
  Retries       \* options.Retries

ASSUME RetriesAssumption == NumFailovers \in Nat /\ Retries \in Nat

VARIABLES
  gone,    \* the ENVKEY was removed on the server, for good
  backup,  \* the failover bucket has a body
  file,    \* the cache file: its state and inode
  fetch,   \* the calls, and the ENVKEY of each
  writer,  \* the goroutine of each that writes the cache
  done,    \* the channel Done of each
  seen     \* history: what each met

vars == <<gone, backup, file, fetch, writer, done, seen>>

\* A good ENVKEY, one whose password does not decrypt the body, and one that makes a
\* URL which http.NewRequest refuses.
Envkeys == {"good", "wrong", "malformed"}

\* An inode is named for the process that created it.
NoFile == [state |-> "none", ino |-> {}]

Init ==
  /\ gone = FALSE /\ backup \in BOOLEAN
  /\ file = NoFile
  /\ fetch \in [Fetches -> [pc : {"new"}, envkey : Envkeys, endpoint : {0}, retry : {0},
                            source : {"none"}]]
  /\ writer = [p \in Fetches |-> [pc |-> "none", ino |-> {}]]
  /\ done = [p \in Fetches |-> FALSE]
  /\ seen = [p \in Fetches |-> [cached |-> FALSE, missing |-> FALSE, kept |-> FALSE,
                                rewritten |-> FALSE, disturbed |-> FALSE,
                                garbled |-> FALSE, stale |-> FALSE]]

\* Someone else changed the file.
Disturbed(p) == [q \in Fetches |-> [seen[q] EXCEPT !.disturbed = @ \/ q # p]]

Start(p) ==
  /\ fetch[p].pc = "new"
  /\ fetch' = [fetch EXCEPT ![p].pc = "ask"]
  /\ seen' = [seen EXCEPT ![p].cached = file.state = "good", ![p].disturbed = FALSE]
  /\ UNCHANGED <<gone, backup, file, writer, done>>

-----------------------------------------------------------------------------
(* getJson, and the loop of fetchEnv around it. *)

\* An error of getJson: the next attempt starts over, after a pause, or Fetch fails.
Fails(p) ==
  IF fetch[p].retry < Retries THEN [fetch[p] EXCEPT !.pc = "ask", !.endpoint = 0, !.retry = @ + 1]
                              ELSE [fetch[p] EXCEPT !.pc = "failed"]

\* A body: its write to the cache is started even when it came from there.
Receive(p, src) ==
  /\ fetch' = [fetch EXCEPT ![p].pc = "parse", ![p].source = src]
  /\ writer' = [writer EXCEPT ![p].pc = "due"]

\* httpGetAsync sends the error of NewRequest on a channel nobody receives from yet.
AskMalformed(p) ==
  /\ fetch[p].pc = "ask" /\ fetch[p].envkey = "malformed"
  /\ fetch' = [fetch EXCEPT ![p].pc = "stuck"]
  /\ UNCHANGED <<gone, backup, file, writer, done, seen>>

Asking(p) == fetch[p].pc = "ask" /\ fetch[p].envkey # "malformed"

\* 200: the body from the main endpoint, a signed url of the bucket from the others.
AskOk(p) ==
  /\ Asking(p) /\ ~gone
  /\ IF fetch[p].endpoint = 0
     THEN /\ Receive(p, "server")
          /\ seen' = [seen EXCEPT ![p].stale = done[p]]
     ELSE /\ fetch' = [fetch EXCEPT ![p].pc = "signed"]
          /\ UNCHANGED <<writer, seen>>
  /\ UNCHANGED <<gone, backup, file, done>>

\* A 200 that is not JSON from the main endpoint, or anything below 400 that is not JSON
\* from the signed url: the error of Unmarshal comes after the cache would be read.
Garbled(p) ==
  /\ (Asking(p) /\ fetch[p].endpoint = 0) \/ fetch[p].pc = "signed"
  /\ fetch' = [fetch EXCEPT ![p] = Fails(p)]
  /\ seen' = [seen EXCEPT ![p].garbled = fetch'[p].pc = "failed"]
  /\ UNCHANGED <<gone, backup, file, writer, done>>

\* Told 404, with the file deleted or, when os.Remove fails, kept.
Told(p, kept) ==
  LET told == IF kept THEN seen ELSE Disturbed(p) IN
  [told EXCEPT ![p].missing = TRUE, ![p].rewritten = FALSE, ![p].kept = kept /\ file.state = "good"]

\* Mutant: the cache is left alone.
AskMissingKept(p) ==
  /\ Asking(p) /\ gone
  /\ done' = [done EXCEPT ![p] = TRUE]
  /\ seen' = Told(p, FALSE)
  /\ fetch' = [fetch EXCEPT ![p] = Fails(p)]
  /\ UNCHANGED <<gone, backup, file, writer>>

\* 404: the permission may have been removed, so the cache is cleared; the error of
\* Delete is ignored.
AskMissing(p) ==
  /\ Asking(p) /\ gone
  /\ \/ file' = NoFile /\ seen' = Told(p, FALSE)
     \/ file # NoFile /\ file' = file /\ seen' = Told(p, TRUE)
  /\ done' = [done EXCEPT ![p] = TRUE]
  /\ fetch' = [fetch EXCEPT ![p] = Fails(p)]
  /\ UNCHANGED <<gone, backup, writer>>

\* No answer in time, or another status: the next endpoint, and then the cache.
AskError(p) ==
  /\ Asking(p)
  /\ IF fetch[p].endpoint < NumFailovers THEN fetch' = [fetch EXCEPT ![p].endpoint = @ + 1]
                                         ELSE fetch' = [fetch EXCEPT ![p].pc = "cache"]
  /\ UNCHANGED <<gone, backup, file, writer, done, seen>>

\* A failover endpoint that does not know yet that the ENVKEY is gone.
AskFailover(p) ==
  /\ Asking(p) /\ gone /\ fetch[p].endpoint > 0
  /\ fetch' = [fetch EXCEPT ![p].pc = "signed"]
  /\ UNCHANGED <<gone, backup, file, writer, done, seen>>

LoadSigned(p) ==
  /\ fetch[p].pc = "signed" /\ backup
  /\ Receive(p, "failover")
  /\ seen' = [seen EXCEPT ![p].stale = done[p]]
  /\ UNCHANGED <<gone, backup, file, done>>

\* Mutant: the cache is read only when the endpoints themselves fail.
LoadSignedFinalError(p) ==
  /\ fetch[p].pc = "signed"
  /\ fetch' = [fetch EXCEPT ![p] = Fails(p)]
  /\ UNCHANGED <<gone, backup, file, writer, done, seen>>
LoadSignedError(p) ==
  /\ fetch[p].pc = "signed"
  /\ fetch' = [fetch EXCEPT ![p].pc = "cache"]
  /\ UNCHANGED <<gone, backup, file, writer, done, seen>>

\* A broken file does not parse as JSON: an error like a missing one.
ReadCache(p) ==
  /\ fetch[p].pc = "cache"
  /\ done' = [done EXCEPT ![p] = TRUE]
  /\ IF file.state = "good"
     THEN /\ Receive(p, "cache")
          /\ seen' = [seen EXCEPT ![p].stale = TRUE]
     ELSE /\ fetch' = [fetch EXCEPT ![p] = Fails(p)]
          /\ UNCHANGED <<writer, seen>>
  /\ UNCHANGED <<gone, backup, file>>

-----------------------------------------------------------------------------
(* The rest of Fetch. *)

\* The token of the writer is taken if it is there, and not waited for.
ParseOk(p) ==
  /\ fetch[p].pc = "parse" /\ fetch[p].envkey # "wrong"
  /\ fetch' = [fetch EXCEPT ![p].pc = "ok"]
  /\ done' = [done EXCEPT ![p] = FALSE]
  /\ UNCHANGED <<gone, backup, file, writer, seen>>

ParseError(p) ==
  /\ fetch[p].pc = "parse" /\ fetch[p].envkey = "wrong"
  /\ fetch' = [fetch EXCEPT ![p].pc = "await"]
  /\ UNCHANGED <<gone, backup, file, writer, done, seen>>

\* Mutant: the write of the cache is not awaited.
CleanUpAtOnce(p) ==
  /\ fetch[p].pc = "await"
  /\ fetch' = [fetch EXCEPT ![p].pc = "invalid"]
  /\ file' = NoFile
  /\ done' = [done EXCEPT ![p] = FALSE]
  /\ seen' = Disturbed(p)
  /\ UNCHANGED <<gone, backup, writer>>
\* A token, from whatever reported it; then Delete, which leaves a token even when it
\* fails, and that one.
CleanUp(p) ==
  /\ fetch[p].pc = "await" /\ done[p]
  /\ fetch' = [fetch EXCEPT ![p].pc = "invalid"]
  /\ \/ file' = NoFile /\ seen' = Disturbed(p)
     \/ UNCHANGED <<file, seen>>
  /\ done' = [done EXCEPT ![p] = FALSE]
  /\ UNCHANGED <<gone, backup, writer>>

-----------------------------------------------------------------------------
(* cache.Write: WriteFile truncates the file, then writes it. *)

OpenFile(p) ==
  /\ writer[p].pc = "due"
  /\ file' = [state |-> "empty", ino |-> IF file = NoFile THEN {p} ELSE file.ino]
  /\ writer' = [writer EXCEPT ![p] = [pc |-> "open", ino |-> file'.ino]]
  /\ seen' = Disturbed(p)
  /\ UNCHANGED <<gone, backup, fetch, done>>

\* The body goes to the inode, which may have been unlinked meanwhile; over another body
\* it may leave the end of that one.
WriteFile(p) ==
  /\ writer[p].pc = "open"
  /\ IF file.ino = writer[p].ino
     THEN /\ \E s \in {"good", "bad"} : /\ file' = [file EXCEPT !.state = s]
                                        /\ file.state = "empty" => s = "good"
          /\ seen' = [q \in Fetches |-> [Disturbed(p)[q] EXCEPT !.rewritten = @ \/ q # p]]
     ELSE UNCHANGED <<file, seen>>
  /\ writer' = [writer EXCEPT ![p].pc = "done"]
  /\ done' = [done EXCEPT ![p] = TRUE]
  /\ UNCHANGED <<gone, backup, fetch>>

\* Mutant: an error returns before Done is told.
WriteErrorUntold(p) ==
  /\ writer[p].pc = "due"
  /\ writer' = [writer EXCEPT ![p].pc = "done"]
  /\ UNCHANGED <<gone, backup, file, fetch, done, seen>>
\* The directory or the file cannot be made.
WriteError(p) ==
  /\ writer[p].pc = "due"
  /\ writer' = [writer EXCEPT ![p].pc = "done"]
  /\ done' = [done EXCEPT ![p] = TRUE]
  /\ UNCHANGED <<gone, backup, file, fetch, seen>>

-----------------------------------------------------------------------------
(* The world. *)

Returned == {"ok", "invalid", "failed"}

\* The process ends, when Fetch has returned (os.Exit of the command) or earlier, and
\* takes the writer with it.
Exit(p) ==
  /\ fetch[p].pc # "new"
  /\ fetch[p].pc \in Returned => writer[p].pc \in {"due", "open"}
  /\ fetch' = [fetch EXCEPT ![p].pc = IF @ \in Returned THEN @ ELSE "killed"]
  /\ writer' = [writer EXCEPT ![p].pc = IF @ \in {"due", "open"} THEN "killed" ELSE @]
  /\ UNCHANGED <<gone, backup, file, done, seen>>

Remove ==
  /\ ~gone
  /\ gone' = TRUE
  /\ UNCHANGED <<backup, file, fetch, writer, done, seen>>

DropBackup ==
  /\ gone /\ backup
  /\ backup' = FALSE
  /\ UNCHANGED <<gone, file, fetch, writer, done, seen>>

Call(p) ==
  \/ Start(p) \/ AskMalformed(p) \/ AskOk(p) \/ AskMissing(p) \/ AskError(p) \/ AskFailover(p)
  \/ Garbled(p)
  \/ LoadSigned(p) \/ LoadSignedError(p) \/ ReadCache(p)
  \/ ParseOk(p) \/ ParseError(p) \/ CleanUp(p)
Write(p) == OpenFile(p) \/ WriteFile(p) \/ WriteError(p)

Next ==
  \/ \E p \in Fetches : Call(p) \/ Write(p) \/ Exit(p)
  \/ Remove \/ DropBackup

\* A request ends in an answer, an error or a timeout, and the scheduler runs both
\* goroutines of a process while it is up.
Fairness == \A p \in Fetches : WF_vars(Call(p)) /\ WF_vars(Write(p))

Spec == Init /\ [][Next]_vars /\ Fairness

-----------------------------------------------------------------------------
\* A call that was told 404 does not return a config after all, by a retry, except one
\* from the failover bucket, one that another process put back into the cache, or one
\* that stayed there because the error of Delete is ignored.
RemovedIsRefused ==
  \A p \in Fetches : fetch[p].pc = "ok" /\ seen[p].missing =>
    fetch[p].source = "failover" \/ seen[p].rewritten \/ seen[p].kept

\* A call that cannot decrypt the body returns only when its own write of the cache is
\* over, so that nothing it wrote stays; except when its channel held a token of an
\* earlier Read or Delete.
WriteSettled ==
  \A p \in Fetches : fetch[p].pc = "invalid" /\ ~seen[p].stale => writer[p].pc \in {"done", "killed"}

\* With a good cache a call fails only when it was told 404, another process changed
\* the file meanwhile, or its last attempt met an answer that is not JSON, after which
\* the cache is not read.
CacheServes ==
  \A p \in Fetches : fetch[p].pc = "failed" /\ seen[p].cached =>
    seen[p].missing \/ seen[p].disturbed \/ seen[p].garbled

\* Every call returns, whatever the channel and the writer do, if its URL is one.
EveryFetchReturns ==
  \A p \in Fetches :
    Asking(p) ~> fetch[p].pc \in Returned \cup {"killed"}
=============================================================================

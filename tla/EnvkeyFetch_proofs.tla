------------------------- MODULE EnvkeyFetch_proofs -------------------------
(***************************************************************************)
(* The invariants of EnvkeyFetch hold for any number of processes, of      *)
(* endpoints and of retries.                                               *)
(*                                                                         *)
(* They rest on what a call has not done yet: while it still asks it has   *)
(* no writer, so that a good file was left by another process, or was      *)
(* there when the call began.                                              *)
(***************************************************************************)
EXTENDS EnvkeyFetch, TLAPS

FetchType ==
  [pc : {"new", "ask", "signed", "cache", "parse", "await", "ok", "invalid", "failed", "stuck", "killed"},
   envkey : Envkeys, endpoint : Nat, retry : Nat, source : {"none", "server", "failover", "cache"}]
WriterType == [pc : {"none", "due", "open", "done", "killed"}, ino : SUBSET Fetches]
SeenType == [cached : BOOLEAN, missing : BOOLEAN, kept : BOOLEAN, rewritten : BOOLEAN,
             disturbed : BOOLEAN, garbled : BOOLEAN, stale : BOOLEAN]

Types ==
  /\ gone \in BOOLEAN /\ backup \in BOOLEAN
  /\ file \in [state : {"none", "empty", "good", "bad"}, ino : SUBSET Fetches]
  /\ fetch \in [Fetches -> FetchType]
  /\ writer \in [Fetches -> WriterType]
  /\ done \in [Fetches -> BOOLEAN]
  /\ seen \in [Fetches -> SeenType]

Trying(p) == fetch[p].pc \in {"ask", "signed", "cache"}

\* Nothing is written before a body was received.
NoWriterYet(p) == fetch[p].pc = "new" \/ Trying(p) => writer[p].pc = "none"

\* After a 404 the call finds nothing but what others put back, what could not be deleted,
\* and the failover bucket.
AfterMissing(p) ==
  /\ fetch[p].pc = "new" => ~seen[p].missing
  /\ seen[p].missing /\ ~seen[p].rewritten /\ ~seen[p].kept =>
       /\ gone
       /\ Trying(p) => file.state # "good"
       /\ fetch[p].pc \in {"parse", "await", "ok"} => fetch[p].source = "failover"

\* A token without an earlier one is the writer's.
TokenOfWriter(p) ==
  /\ fetch[p].pc \in {"parse", "await"} /\ ~seen[p].stale /\ done[p] => writer[p].pc \in {"done", "killed"}
  /\ fetch[p].pc = "invalid" /\ ~seen[p].stale => writer[p].pc \in {"done", "killed"}

\* A good file stays until the call is told 404 or another process interferes.
CacheStays(p) ==
  seen[p].cached /\ ~seen[p].missing /\ ~seen[p].disturbed =>
    /\ Trying(p) => file.state = "good"
    /\ fetch[p].pc = "failed" => seen[p].garbled

CallInv(p) == NoWriterYet(p) /\ AfterMissing(p) /\ TokenOfWriter(p) /\ CacheStays(p)
IInv == Types /\ \A p \in Fetches : CallInv(p)

-----------------------------------------------------------------------------
LEMMA InitIInv == Init => IInv
<1> SUFFICES ASSUME Init PROVE IInv
  OBVIOUS
<1>1. Types
  <2>1. fetch \in [Fetches -> FetchType]
    <3>1. [pc : {"new"}, envkey : Envkeys, endpoint : {0}, retry : {0}, source : {"none"}] \subseteq FetchType
      BY DEF FetchType
    <3> QED
      BY <3>1 DEF Init
  <2> QED
    BY <2>1 DEF Init, Types, NoFile, WriterType, SeenType
<1>2. ASSUME NEW p \in Fetches PROVE CallInv(p)
  BY DEF Init, CallInv, NoWriterYet, AfterMissing, TokenOfWriter, CacheStays, Trying
<1> QED
  BY <1>1, <1>2 DEF IInv

LEMMA FailsType ==
  ASSUME Types, NEW p \in Fetches
  PROVE  /\ Fails(p) \in FetchType
         /\ Fails(p).pc \in {"ask", "failed"} /\ Fails(p).source = fetch[p].source
<1>1. fetch[p] \in FetchType
  BY DEF Types
<1>2. CASE fetch[p].retry < Retries
  <2>1. Fails(p) = [fetch[p] EXCEPT !.pc = "ask", !.endpoint = 0, !.retry = fetch[p].retry + 1]
    BY <1>2 DEF Fails
  <2>2. fetch[p].retry + 1 \in Nat
    BY <1>1 DEF FetchType
  <2>3. Fails(p) = [pc |-> "ask", envkey |-> fetch[p].envkey, endpoint |-> 0, retry |-> fetch[p].retry + 1, source |-> fetch[p].source]
    BY <1>1, <2>1 DEF FetchType
  <2>4. fetch[p].source \in {"none", "server", "failover", "cache"} /\ fetch[p].envkey \in Envkeys
    BY <1>1 DEF FetchType
  <2> QED
    BY <2>2, <2>3, <2>4 DEF FetchType
<1>3. CASE ~(fetch[p].retry < Retries)
  BY <1>1, <1>3 DEF Fails, FetchType
<1> QED
  BY <1>2, <1>3

LEMMA DisturbedType ==
  ASSUME Types, NEW p \in Fetches
  PROVE  /\ Disturbed(p) \in [Fetches -> SeenType]
         /\ \A q \in Fetches : /\ Disturbed(p)[q].cached = seen[q].cached
                            /\ Disturbed(p)[q].kept = seen[q].kept
                            /\ Disturbed(p)[q].garbled = seen[q].garbled
                               /\ Disturbed(p)[q].kept = seen[q].kept
                               /\ Disturbed(p)[q].garbled = seen[q].garbled
                               /\ Disturbed(p)[q].missing = seen[q].missing
                               /\ Disturbed(p)[q].rewritten = seen[q].rewritten
                               /\ Disturbed(p)[q].stale = seen[q].stale
                               /\ Disturbed(p)[q].disturbed = (seen[q].disturbed \/ q # p)
BY DEF Types, Disturbed, SeenType

\* What a step of one call does to the others: nothing, or it changes the file and
\* they are told.
LEMMA Others ==
  ASSUME IInv, NEW q \in Fetches,
         fetch'[q] = fetch[q], writer'[q] = writer[q], done'[q] = done[q], gone => gone',
         /\ seen'[q].cached = seen[q].cached /\ seen'[q].missing = seen[q].missing
         /\ seen'[q].stale = seen[q].stale /\ seen'[q].kept = seen[q].kept
         /\ seen'[q].garbled = seen[q].garbled
         /\ seen[q].rewritten => seen'[q].rewritten
         /\ seen[q].disturbed => seen'[q].disturbed,
         \/ file' = file
         \/ seen'[q].disturbed /\ (seen'[q].rewritten \/ file'.state # "good")
  PROVE  CallInv(q)'
<1> USE DEF Trying
<1>1. CallInv(q)
  BY DEF IInv
<1>2. NoWriterYet(q)'
  BY <1>1 DEF CallInv, NoWriterYet
<1>3. AfterMissing(q)'
  BY <1>1 DEF CallInv, AfterMissing
<1>4. TokenOfWriter(q)'
  BY <1>1 DEF CallInv, TokenOfWriter
<1>5. CacheStays(q)'
  BY <1>1 DEF CallInv, CacheStays
<1> QED
  BY <1>2, <1>3, <1>4, <1>5 DEF CallInv

-----------------------------------------------------------------------------
(* Steps that leave the file alone. *)

LEMMA StartStep ==
  ASSUME IInv, NEW p \in Fetches, Start(p)
  PROVE  IInv'
<1>1. /\ Types /\ CallInv(p) /\ fetch[p] \in FetchType /\ writer[p] \in WriterType
      /\ seen[p] \in SeenType /\ done[p] \in BOOLEAN
  BY DEF IInv, Types
<1>2. Types'
  BY <1>1 DEF Start, Types, FetchType, SeenType
<1>3. ASSUME NEW q \in Fetches, q # p PROVE CallInv(q)'
  <2>1. /\ fetch'[q] = fetch[q] /\ writer'[q] = writer[q] /\ done'[q] = done[q] /\ seen'[q] = seen[q]
        /\ gone' = gone /\ file' = file
    BY <1>1, <1>3 DEF Start, Types
  <2> QED
    BY <2>1, Others
<1>4. CallInv(p)'
  <2>1. /\ fetch[p].pc = "new" /\ fetch'[p].pc = "ask" /\ writer'[p] = writer[p]
        /\ seen'[p].cached = (file.state = "good") /\ seen'[p].missing = seen[p].missing
        /\ seen'[p].rewritten = seen[p].rewritten /\ seen'[p].kept = seen[p].kept
        /\ gone' = gone /\ file' = file
    BY <1>1 DEF Start, Types, FetchType, SeenType
  <2> QED
    BY <1>1, <2>1 DEF CallInv, NoWriterYet, AfterMissing, TokenOfWriter, CacheStays, Trying
<1> QED
  BY <1>2, <1>3, <1>4 DEF IInv

LEMMA AskMalformedStep ==
  ASSUME IInv, NEW p \in Fetches, AskMalformed(p)
  PROVE  IInv'
<1>1. /\ Types /\ CallInv(p) /\ fetch[p] \in FetchType /\ writer[p] \in WriterType
      /\ seen[p] \in SeenType /\ done[p] \in BOOLEAN
  BY DEF IInv, Types
<1>2. Types'
  BY <1>1 DEF AskMalformed, Types, FetchType
<1>3. ASSUME NEW q \in Fetches, q # p PROVE CallInv(q)'
  <2>1. /\ fetch'[q] = fetch[q] /\ writer'[q] = writer[q] /\ done'[q] = done[q] /\ seen'[q] = seen[q]
        /\ gone' = gone /\ file' = file
    BY <1>1, <1>3 DEF AskMalformed, Types
  <2> QED
    BY <2>1, Others
<1>4. CallInv(p)'
  <2>1. /\ fetch'[p].pc = "stuck" /\ writer'[p] = writer[p] /\ seen'[p] = seen[p]
        /\ gone' = gone /\ file' = file
    BY <1>1 DEF AskMalformed, Types, FetchType
  <2> QED
    BY <1>1, <2>1 DEF CallInv, NoWriterYet, AfterMissing, TokenOfWriter, CacheStays, Trying
<1> QED
  BY <1>2, <1>3, <1>4 DEF IInv

LEMMA GarbledStep ==
  ASSUME IInv, NEW p \in Fetches, Garbled(p)
  PROVE  IInv'
<1>1. /\ Types /\ CallInv(p) /\ fetch[p] \in FetchType /\ writer[p] \in WriterType
      /\ seen[p] \in SeenType /\ done[p] \in BOOLEAN
  BY DEF IInv, Types
<1>2. /\ fetch' = [fetch EXCEPT ![p] = Fails(p)] /\ fetch[p].pc \in {"ask", "signed"}
      /\ seen' = [seen EXCEPT ![p].garbled = fetch'[p].pc = "failed"]
      /\ gone' = gone /\ backup' = backup /\ file' = file /\ writer' = writer /\ done' = done
  BY DEF Garbled, Asking
<1>3. Fails(p) \in FetchType /\ Fails(p).pc \in {"ask", "failed"}
  BY <1>1, FailsType
<1>4. fetch'[p].pc \in {"ask", "failed"} /\ fetch' \in [Fetches -> FetchType]
  BY <1>1, <1>2, <1>3 DEF Types
<1>5. seen' \in [Fetches -> SeenType]
  BY <1>1, <1>2 DEF Types, SeenType
<1>6. Types'
  BY <1>1, <1>2, <1>4, <1>5 DEF Types
<1>7. ASSUME NEW q \in Fetches, q # p PROVE CallInv(q)'
  BY <1>1, <1>2, <1>7, Others DEF Types
<1>8. CallInv(p)'
  <2>1. /\ seen'[p].cached = seen[p].cached /\ seen'[p].missing = seen[p].missing
        /\ seen'[p].rewritten = seen[p].rewritten /\ seen'[p].kept = seen[p].kept
        /\ seen'[p].disturbed = seen[p].disturbed
        /\ fetch'[p].pc = "failed" => seen'[p].garbled
    BY <1>1, <1>2 DEF Types, SeenType
  <2> QED
    BY <1>1, <1>2, <1>4, <2>1 DEF CallInv, NoWriterYet, AfterMissing, TokenOfWriter, CacheStays, Trying
<1> QED
  BY <1>6, <1>7, <1>8 DEF IInv

LEMMA AskErrorStep ==
  ASSUME IInv, NEW p \in Fetches, AskError(p)
  PROVE  IInv'
<1>1. /\ Types /\ CallInv(p) /\ fetch[p] \in FetchType /\ writer[p] \in WriterType
      /\ seen[p] \in SeenType /\ done[p] \in BOOLEAN
  BY DEF IInv, Types
<1>2. Types'
  BY <1>1, RetriesAssumption DEF AskError, Types, FetchType, Asking
<1>3. ASSUME NEW q \in Fetches, q # p PROVE CallInv(q)'
  <2>1. /\ fetch'[q] = fetch[q] /\ writer'[q] = writer[q] /\ done'[q] = done[q] /\ seen'[q] = seen[q]
        /\ gone' = gone /\ file' = file
    BY <1>1, <1>3 DEF AskError, Types, Asking
  <2> QED
    BY <2>1, Others
<1>4. CallInv(p)'
  <2>1. /\ fetch[p].pc = "ask" /\ fetch'[p].pc \in {"ask", "cache"} /\ writer'[p] = writer[p]
        /\ seen'[p] = seen[p]
        /\ gone' = gone /\ file' = file
    BY <1>1, RetriesAssumption DEF AskError, Types, FetchType, Asking
  <2> QED
    BY <1>1, <2>1 DEF CallInv, NoWriterYet, AfterMissing, TokenOfWriter, CacheStays, Trying
<1> QED
  BY <1>2, <1>3, <1>4 DEF IInv

LEMMA AskFailoverStep ==
  ASSUME IInv, NEW p \in Fetches, AskFailover(p)
  PROVE  IInv'
<1>1. /\ Types /\ CallInv(p) /\ fetch[p] \in FetchType /\ writer[p] \in WriterType
      /\ seen[p] \in SeenType /\ done[p] \in BOOLEAN
  BY DEF IInv, Types
<1>2. Types'
  BY <1>1 DEF AskFailover, Types, FetchType, Asking
<1>3. ASSUME NEW q \in Fetches, q # p PROVE CallInv(q)'
  <2>1. /\ fetch'[q] = fetch[q] /\ writer'[q] = writer[q] /\ done'[q] = done[q] /\ seen'[q] = seen[q]
        /\ gone' = gone /\ file' = file
    BY <1>1, <1>3 DEF AskFailover, Types, Asking
  <2> QED
    BY <2>1, Others
<1>4. CallInv(p)'
  <2>1. /\ fetch[p].pc = "ask" /\ fetch'[p].pc = "signed" /\ writer'[p] = writer[p]
        /\ seen'[p] = seen[p]
        /\ gone' = gone /\ file' = file
    BY <1>1 DEF AskFailover, Types, FetchType, Asking
  <2> QED
    BY <1>1, <2>1 DEF CallInv, NoWriterYet, AfterMissing, TokenOfWriter, CacheStays, Trying
<1> QED
  BY <1>2, <1>3, <1>4 DEF IInv

LEMMA LoadSignedErrorStep ==
  ASSUME IInv, NEW p \in Fetches, LoadSignedError(p)
  PROVE  IInv'
<1>1. /\ Types /\ CallInv(p) /\ fetch[p] \in FetchType /\ writer[p] \in WriterType
      /\ seen[p] \in SeenType /\ done[p] \in BOOLEAN
  BY DEF IInv, Types
<1>2. Types'
  BY <1>1 DEF LoadSignedError, Types, FetchType
<1>3. ASSUME NEW q \in Fetches, q # p PROVE CallInv(q)'
  <2>1. /\ fetch'[q] = fetch[q] /\ writer'[q] = writer[q] /\ done'[q] = done[q] /\ seen'[q] = seen[q]
        /\ gone' = gone /\ file' = file
    BY <1>1, <1>3 DEF LoadSignedError, Types
  <2> QED
    BY <2>1, Others
<1>4. CallInv(p)'
  <2>1. /\ fetch[p].pc = "signed" /\ fetch'[p].pc = "cache" /\ writer'[p] = writer[p]
        /\ seen'[p] = seen[p]
        /\ gone' = gone /\ file' = file
    BY <1>1 DEF LoadSignedError, Types, FetchType
  <2> QED
    BY <1>1, <2>1 DEF CallInv, NoWriterYet, AfterMissing, TokenOfWriter, CacheStays, Trying
<1> QED
  BY <1>2, <1>3, <1>4 DEF IInv

LEMMA LoadSignedStep ==
  ASSUME IInv, NEW p \in Fetches, LoadSigned(p)
  PROVE  IInv'
<1>1. /\ Types /\ CallInv(p) /\ fetch[p] \in FetchType /\ writer[p] \in WriterType
      /\ seen[p] \in SeenType /\ done[p] \in BOOLEAN
  BY DEF IInv, Types
<1>2. Types'
  BY <1>1 DEF LoadSigned, Types, FetchType, WriterType, SeenType, Receive
<1>3. ASSUME NEW q \in Fetches, q # p PROVE CallInv(q)'
  <2>1. /\ fetch'[q] = fetch[q] /\ writer'[q] = writer[q] /\ done'[q] = done[q] /\ seen'[q] = seen[q]
        /\ gone' = gone /\ file' = file
    BY <1>1, <1>3 DEF LoadSigned, Types, Receive
  <2> QED
    BY <2>1, Others
<1>4. CallInv(p)'
  <2>1. /\ fetch[p].pc = "signed" /\ fetch'[p].pc = "parse" /\ fetch'[p].source = "failover"
        /\ writer'[p].pc = "due" /\ done'[p] = done[p] /\ seen'[p].stale = done[p]
        /\ seen'[p].cached = seen[p].cached /\ seen'[p].missing = seen[p].missing
        /\ seen'[p].rewritten = seen[p].rewritten /\ seen'[p].disturbed = seen[p].disturbed
        /\ seen'[p].kept = seen[p].kept /\ seen'[p].garbled = seen[p].garbled
        /\ gone' = gone /\ file' = file
    BY <1>1 DEF LoadSigned, Types, FetchType, WriterType, SeenType, Receive
  <2> QED
    BY <1>1, <2>1 DEF CallInv, NoWriterYet, AfterMissing, TokenOfWriter, CacheStays, Trying
<1> QED
  BY <1>2, <1>3, <1>4 DEF IInv

LEMMA AskOkStep ==
  ASSUME IInv, NEW p \in Fetches, AskOk(p)
  PROVE  IInv'
<1>1. /\ Types /\ CallInv(p) /\ fetch[p] \in FetchType /\ writer[p] \in WriterType
      /\ seen[p] \in SeenType /\ done[p] \in BOOLEAN
  BY DEF IInv, Types
<1>a. fetch[p].pc = "ask" /\ ~gone /\ done' = done /\ gone' = gone /\ backup' = backup /\ file' = file
  BY DEF AskOk, Asking
<1>b. CASE fetch[p].endpoint = 0
  <2>1. /\ fetch' = [fetch EXCEPT ![p].pc = "parse", ![p].source = "server"]
        /\ writer' = [writer EXCEPT ![p].pc = "due"] /\ seen' = [seen EXCEPT ![p].stale = done[p]]
    BY <1>b DEF AskOk, Receive
  <2>2. Types'
    BY <1>1, <1>a, <2>1 DEF Types, FetchType, WriterType, SeenType
  <2>3. ASSUME NEW q \in Fetches, q # p PROVE CallInv(q)'
    BY <1>1, <1>a, <2>1, <2>3, Others DEF Types
  <2>4. /\ fetch'[p].pc = "parse" /\ writer'[p].pc = "due" /\ seen'[p].stale = done'[p]
        /\ seen'[p].cached = seen[p].cached /\ seen'[p].missing = seen[p].missing
        /\ seen'[p].rewritten = seen[p].rewritten /\ seen'[p].disturbed = seen[p].disturbed
        /\ seen'[p].kept = seen[p].kept /\ seen'[p].garbled = seen[p].garbled
    BY <1>1, <1>a, <2>1 DEF Types, FetchType, WriterType, SeenType
  <2>5. CallInv(p)'
    BY <1>1, <1>a, <2>4 DEF CallInv, NoWriterYet, AfterMissing, TokenOfWriter, CacheStays, Trying
  <2> QED
    BY <2>2, <2>3, <2>5 DEF IInv
<1>c. CASE fetch[p].endpoint # 0
  <2>1. fetch' = [fetch EXCEPT ![p].pc = "signed"] /\ writer' = writer /\ seen' = seen
    BY <1>c DEF AskOk
  <2>2. Types'
    BY <1>1, <1>a, <2>1 DEF Types, FetchType
  <2>3. ASSUME NEW q \in Fetches, q # p PROVE CallInv(q)'
    BY <1>1, <1>a, <2>1, <2>3, Others DEF Types
  <2>4. fetch'[p].pc = "signed"
    BY <1>1, <2>1 DEF Types, FetchType
  <2>5. CallInv(p)'
    BY <1>1, <1>a, <2>1, <2>4 DEF CallInv, NoWriterYet, AfterMissing, TokenOfWriter, CacheStays, Trying
  <2> QED
    BY <2>2, <2>3, <2>5 DEF IInv
<1> QED
  BY <1>b, <1>c

LEMMA ReadCacheStep ==
  ASSUME IInv, NEW p \in Fetches, ReadCache(p)
  PROVE  IInv'
<1>1. /\ Types /\ CallInv(p) /\ fetch[p] \in FetchType /\ writer[p] \in WriterType
      /\ seen[p] \in SeenType /\ done[p] \in BOOLEAN
  BY DEF IInv, Types
<1>a. fetch[p].pc = "cache" /\ gone' = gone /\ backup' = backup /\ file' = file
      /\ done' = [done EXCEPT ![p] = TRUE]
  BY DEF ReadCache
<1>b. CASE file.state = "good"
  <2>1. /\ fetch' = [fetch EXCEPT ![p].pc = "parse", ![p].source = "cache"]
        /\ writer' = [writer EXCEPT ![p].pc = "due"] /\ seen' = [seen EXCEPT ![p].stale = TRUE]
    BY <1>b DEF ReadCache, Receive
  <2>2. Types'
    BY <1>1, <1>a, <2>1 DEF Types, FetchType, WriterType, SeenType
  <2>3. ASSUME NEW q \in Fetches, q # p PROVE CallInv(q)'
    BY <1>1, <1>a, <2>1, <2>3, Others DEF Types
  <2>4. /\ fetch'[p].pc = "parse" /\ writer'[p].pc = "due" /\ seen'[p].stale
        /\ seen'[p].cached = seen[p].cached /\ seen'[p].missing = seen[p].missing
        /\ seen'[p].rewritten = seen[p].rewritten /\ seen'[p].disturbed = seen[p].disturbed
        /\ seen'[p].kept = seen[p].kept /\ seen'[p].garbled = seen[p].garbled
    BY <1>1, <1>a, <2>1 DEF Types, FetchType, WriterType, SeenType
  <2>5. CallInv(p)'
    BY <1>1, <1>a, <1>b, <2>4 DEF CallInv, NoWriterYet, AfterMissing, TokenOfWriter, CacheStays, Trying
  <2> QED
    BY <2>2, <2>3, <2>5 DEF IInv
<1>c. CASE file.state # "good"
  <2>1. fetch' = [fetch EXCEPT ![p] = Fails(p)] /\ writer' = writer /\ seen' = seen
    BY <1>c DEF ReadCache
  <2>2. Fails(p) \in FetchType /\ Fails(p).pc \in {"ask", "failed"}
    BY <1>1, FailsType
  <2>3. Types'
    BY <1>1, <1>a, <2>1, <2>2 DEF Types
  <2>4. ASSUME NEW q \in Fetches, q # p PROVE CallInv(q)'
    BY <1>1, <1>a, <2>1, <2>4, Others DEF Types
  <2>5. fetch'[p].pc \in {"ask", "failed"}
    BY <1>1, <2>1, <2>2 DEF Types
  <2>6. CallInv(p)'
    BY <1>1, <1>a, <1>c, <2>1, <2>5 DEF CallInv, NoWriterYet, AfterMissing, TokenOfWriter, CacheStays, Trying
  <2> QED
    BY <2>3, <2>4, <2>6 DEF IInv
<1> QED
  BY <1>b, <1>c

LEMMA ParseOkStep ==
  ASSUME IInv, NEW p \in Fetches, ParseOk(p)
  PROVE  IInv'
<1>1. /\ Types /\ CallInv(p) /\ fetch[p] \in FetchType /\ writer[p] \in WriterType
      /\ seen[p] \in SeenType /\ done[p] \in BOOLEAN
  BY DEF IInv, Types
<1>2. Types'
  BY <1>1 DEF ParseOk, Types, FetchType
<1>3. ASSUME NEW q \in Fetches, q # p PROVE CallInv(q)'
  <2>1. /\ fetch'[q] = fetch[q] /\ writer'[q] = writer[q] /\ done'[q] = done[q] /\ seen'[q] = seen[q]
        /\ gone' = gone /\ file' = file
    BY <1>1, <1>3 DEF ParseOk, Types
  <2> QED
    BY <2>1, Others
<1>4. CallInv(p)'
  <2>1. /\ fetch[p].pc = "parse" /\ fetch'[p].pc = "ok" /\ fetch'[p].source = fetch[p].source
        /\ writer'[p] = writer[p] /\ seen'[p] = seen[p] /\ gone' = gone /\ file' = file
    BY <1>1 DEF ParseOk, Types, FetchType
  <2> QED
    BY <1>1, <2>1 DEF CallInv, NoWriterYet, AfterMissing, TokenOfWriter, CacheStays, Trying
<1> QED
  BY <1>2, <1>3, <1>4 DEF IInv

LEMMA ParseErrorStep ==
  ASSUME IInv, NEW p \in Fetches, ParseError(p)
  PROVE  IInv'
<1>1. /\ Types /\ CallInv(p) /\ fetch[p] \in FetchType /\ writer[p] \in WriterType
      /\ seen[p] \in SeenType /\ done[p] \in BOOLEAN
  BY DEF IInv, Types
<1>2. Types'
  BY <1>1 DEF ParseError, Types, FetchType
<1>3. ASSUME NEW q \in Fetches, q # p PROVE CallInv(q)'
  <2>1. /\ fetch'[q] = fetch[q] /\ writer'[q] = writer[q] /\ done'[q] = done[q] /\ seen'[q] = seen[q]
        /\ gone' = gone /\ file' = file
    BY <1>1, <1>3 DEF ParseError, Types
  <2> QED
    BY <2>1, Others
<1>4. CallInv(p)'
  <2>1. /\ fetch[p].pc = "parse" /\ fetch'[p].pc = "await" /\ fetch'[p].source = fetch[p].source
        /\ writer'[p] = writer[p] /\ seen'[p] = seen[p] /\ done'[p] = done[p]
        /\ gone' = gone /\ file' = file
    BY <1>1 DEF ParseError, Types, FetchType
  <2> QED
    BY <1>1, <2>1 DEF CallInv, NoWriterYet, AfterMissing, TokenOfWriter, CacheStays, Trying
<1> QED
  BY <1>2, <1>3, <1>4 DEF IInv

LEMMA WriteErrorStep ==
  ASSUME IInv, NEW p \in Fetches, WriteError(p)
  PROVE  IInv'
<1>1. /\ Types /\ CallInv(p) /\ fetch[p] \in FetchType /\ writer[p] \in WriterType
      /\ seen[p] \in SeenType /\ done[p] \in BOOLEAN
  BY DEF IInv, Types
<1>2. Types'
  BY <1>1 DEF WriteError, Types, WriterType
<1>3. ASSUME NEW q \in Fetches, q # p PROVE CallInv(q)'
  <2>1. /\ fetch'[q] = fetch[q] /\ writer'[q] = writer[q] /\ done'[q] = done[q] /\ seen'[q] = seen[q]
        /\ gone' = gone /\ file' = file
    BY <1>1, <1>3 DEF WriteError, Types
  <2> QED
    BY <2>1, Others
<1>4. CallInv(p)'
  <2>1. /\ writer[p].pc = "due" /\ writer'[p].pc = "done" /\ fetch'[p] = fetch[p] /\ seen'[p] = seen[p]
        /\ gone' = gone /\ file' = file
    BY <1>1 DEF WriteError, Types, WriterType
  <2> QED
    BY <1>1, <2>1 DEF CallInv, NoWriterYet, AfterMissing, TokenOfWriter, CacheStays, Trying
<1> QED
  BY <1>2, <1>3, <1>4 DEF IInv

LEMMA ExitStep ==
  ASSUME IInv, NEW p \in Fetches, Exit(p)
  PROVE  IInv'
<1>1. /\ Types /\ CallInv(p) /\ fetch[p] \in FetchType /\ writer[p] \in WriterType
      /\ seen[p] \in SeenType /\ done[p] \in BOOLEAN
  BY DEF IInv, Types
<1>2. Types'
  BY <1>1 DEF Exit, Types, FetchType, WriterType, Returned
<1>3. ASSUME NEW q \in Fetches, q # p PROVE CallInv(q)'
  <2>1. /\ fetch'[q] = fetch[q] /\ writer'[q] = writer[q] /\ done'[q] = done[q] /\ seen'[q] = seen[q]
        /\ gone' = gone /\ file' = file
    BY <1>1, <1>3 DEF Exit, Types, Returned
  <2> QED
    BY <2>1, Others
<1>4. CallInv(p)'
  <2>1. /\ fetch[p].pc # "new" /\ fetch'[p].source = fetch[p].source
        /\ \/ fetch'[p].pc = fetch[p].pc /\ fetch[p].pc \in {"ok", "invalid", "failed"}
           \/ fetch'[p].pc = "killed"
        /\ writer'[p].pc = writer[p].pc \/ writer'[p].pc = "killed"
        /\ seen'[p] = seen[p] /\ gone' = gone /\ file' = file
    BY <1>1 DEF Exit, Types, FetchType, WriterType, Returned
  <2> QED
    BY <1>1, <2>1 DEF CallInv, NoWriterYet, AfterMissing, TokenOfWriter, CacheStays, Trying
<1> QED
  BY <1>2, <1>3, <1>4 DEF IInv

-----------------------------------------------------------------------------
(* Steps that change the file. *)

LEMMA ToldType ==
  ASSUME Types, NEW p \in Fetches, NEW k \in BOOLEAN
  PROVE  /\ Told(p, k) \in [Fetches -> SeenType]
         /\ \A q \in Fetches : /\ Told(p, k)[q].cached = seen[q].cached
                               /\ Told(p, k)[q].stale = seen[q].stale
                               /\ Told(p, k)[q].garbled = seen[q].garbled
                               /\ q # p => /\ Told(p, k)[q].missing = seen[q].missing
                                           /\ Told(p, k)[q].kept = seen[q].kept
                                           /\ Told(p, k)[q].rewritten = seen[q].rewritten
                                           /\ seen[q].disturbed \/ ~k => Told(p, k)[q].disturbed
         /\ Told(p, k)[p].missing /\ ~Told(p, k)[p].rewritten
         /\ Told(p, k)[p].kept = (k /\ file.state = "good")
<1> DEFINE t == IF k THEN seen ELSE Disturbed(p)
           v == [t[p] EXCEPT !.missing = TRUE, !.rewritten = FALSE, !.kept = k /\ file.state = "good"]
<1>1. /\ t \in [Fetches -> SeenType]
      /\ \A q \in Fetches : /\ t[q].cached = seen[q].cached /\ t[q].stale = seen[q].stale
                            /\ t[q].garbled = seen[q].garbled /\ t[q].missing = seen[q].missing
                            /\ t[q].kept = seen[q].kept /\ t[q].rewritten = seen[q].rewritten
                            /\ q # p /\ (seen[q].disturbed \/ ~k) => t[q].disturbed
  <2>1. CASE k
    BY <2>1 DEF Types
  <2>2. CASE ~k
    BY <2>2, DisturbedType
  <2> QED
    BY <2>1, <2>2
<1>2. Told(p, k) = [t EXCEPT ![p] = v]
  BY DEF Told
<1> HIDE DEF t
<1>3. t[p] \in SeenType /\ (k /\ file.state = "good") \in BOOLEAN
  BY <1>1
<1>4. /\ v \in SeenType /\ v.missing /\ ~v.rewritten /\ v.kept = (k /\ file.state = "good")
      /\ v.cached = t[p].cached /\ v.stale = t[p].stale /\ v.garbled = t[p].garbled
  BY <1>3 DEF SeenType
<1> HIDE DEF v
<1>5. Told(p, k) \in [Fetches -> SeenType] /\ Told(p, k)[p] = v
  BY <1>1, <1>2, <1>4
<1>6. \A q \in Fetches : q # p => Told(p, k)[q] = t[q]
  BY <1>1, <1>2
<1> QED
  BY <1>1, <1>4, <1>5, <1>6

LEMMA AskMissingStep ==
  ASSUME IInv, NEW p \in Fetches, AskMissing(p)
  PROVE  IInv'
<1>1. /\ Types /\ CallInv(p) /\ fetch[p] \in FetchType /\ writer[p] \in WriterType
      /\ seen[p] \in SeenType /\ done[p] \in BOOLEAN
  BY DEF IInv, Types
<1>2. PICK k \in BOOLEAN : seen' = Told(p, k) /\ file' = IF k THEN file ELSE NoFile
  BY DEF AskMissing
<1>3. /\ Told(p, k) \in [Fetches -> SeenType]
      /\ \A q \in Fetches : /\ Told(p, k)[q].cached = seen[q].cached
                            /\ Told(p, k)[q].stale = seen[q].stale
                            /\ Told(p, k)[q].garbled = seen[q].garbled
                            /\ q # p => /\ Told(p, k)[q].missing = seen[q].missing
                                        /\ Told(p, k)[q].kept = seen[q].kept
                                        /\ Told(p, k)[q].rewritten = seen[q].rewritten
                                        /\ seen[q].disturbed \/ ~k => Told(p, k)[q].disturbed
      /\ Told(p, k)[p].missing /\ ~Told(p, k)[p].rewritten
      /\ Told(p, k)[p].kept = (k /\ file.state = "good")
  BY <1>1, ToldType
<1>4. /\ fetch' = [fetch EXCEPT ![p] = Fails(p)] /\ done' = [done EXCEPT ![p] = TRUE]
      /\ gone' = gone /\ backup' = backup /\ writer' = writer /\ gone /\ fetch[p].pc = "ask"
  BY DEF AskMissing, Asking
<1>5. Fails(p) \in FetchType /\ Fails(p).pc \in {"ask", "failed"}
  BY <1>1, FailsType
<1>6. NoFile.state # "good" /\ NoFile \in [state : {"none", "empty", "good", "bad"}, ino : SUBSET Fetches]
  BY DEF NoFile
<1>7. Types'
  BY <1>1, <1>2, <1>3, <1>4, <1>5, <1>6 DEF Types
<1>8. ASSUME NEW q \in Fetches, q # p PROVE CallInv(q)'
  <2>1. fetch'[q] = fetch[q] /\ writer'[q] = writer[q] /\ done'[q] = done[q]
    BY <1>1, <1>4, <1>8 DEF Types
  <2>2. /\ seen'[q].cached = seen[q].cached /\ seen'[q].missing = seen[q].missing
        /\ seen'[q].stale = seen[q].stale /\ seen'[q].kept = seen[q].kept
        /\ seen'[q].garbled = seen[q].garbled
        /\ seen'[q].rewritten = seen[q].rewritten
        /\ seen[q].disturbed => seen'[q].disturbed
        /\ file' = file \/ (seen'[q].disturbed /\ file'.state # "good")
    BY <1>2, <1>3, <1>6, <1>8
  <2> QED
    BY <1>4, <2>1, <2>2, Others
<1>9. CallInv(p)'
  <2>1. fetch'[p].pc \in {"ask", "failed"} /\ writer'[p] = writer[p] /\ gone'
    BY <1>1, <1>4, <1>5 DEF Types
  <2>2. seen'[p].missing /\ (seen'[p].kept \/ file'.state # "good")
    BY <1>2, <1>3, <1>6
  <2> QED
    BY <1>1, <1>4, <2>1, <2>2 DEF CallInv, NoWriterYet, AfterMissing, TokenOfWriter, CacheStays, Trying
<1> QED
  BY <1>7, <1>8, <1>9 DEF IInv

LEMMA CleanUpStep ==
  ASSUME IInv, NEW p \in Fetches, CleanUp(p)
  PROVE  IInv'
<1>1. /\ Types /\ CallInv(p) /\ fetch[p] \in FetchType /\ writer[p] \in WriterType
      /\ seen[p] \in SeenType /\ done[p] \in BOOLEAN
  BY DEF IInv, Types
<1>2. /\ fetch' = [fetch EXCEPT ![p].pc = "invalid"] /\ done' = [done EXCEPT ![p] = FALSE]
      /\ gone' = gone /\ backup' = backup /\ writer' = writer /\ fetch[p].pc = "await" /\ done[p]
  BY DEF CleanUp
<1>3. NoFile.state # "good" /\ NoFile \in [state : {"none", "empty", "good", "bad"}, ino : SUBSET Fetches]
  BY DEF NoFile
<1>4. /\ seen' \in [Fetches -> SeenType]
      /\ file' \in [state : {"none", "empty", "good", "bad"}, ino : SUBSET Fetches]
      /\ \A q \in Fetches : /\ seen'[q].cached = seen[q].cached /\ seen'[q].missing = seen[q].missing
                            /\ seen'[q].stale = seen[q].stale /\ seen'[q].kept = seen[q].kept
                            /\ seen'[q].garbled = seen[q].garbled
                            /\ seen'[q].rewritten = seen[q].rewritten
                            /\ seen[q].disturbed => seen'[q].disturbed
                            /\ q # p => file' = file \/ (seen'[q].disturbed /\ file'.state # "good")
  <2>1. CASE file' = NoFile /\ seen' = Disturbed(p)
    <3>1. seen' \in [Fetches -> SeenType]
      BY <1>1, <2>1, DisturbedType
    <3>2. \A q \in Fetches :
            /\ seen'[q].cached = seen[q].cached /\ seen'[q].missing = seen[q].missing
            /\ seen'[q].stale = seen[q].stale /\ seen'[q].kept = seen[q].kept
            /\ seen'[q].garbled = seen[q].garbled /\ seen'[q].rewritten = seen[q].rewritten
            /\ seen[q].disturbed => seen'[q].disturbed
            /\ q # p => seen'[q].disturbed
      BY <1>1, <2>1, DisturbedType
    <3> QED
      BY <1>3, <2>1, <3>1, <3>2
  <2>2. CASE file' = file /\ seen' = seen
    BY <1>1, <2>2 DEF Types
  <2> QED
    BY <2>1, <2>2 DEF CleanUp
<1>5. Types'
  BY <1>1, <1>2, <1>4 DEF Types, FetchType
<1>6. ASSUME NEW q \in Fetches, q # p PROVE CallInv(q)'
  <2>1. fetch'[q] = fetch[q] /\ writer'[q] = writer[q] /\ done'[q] = done[q]
    BY <1>1, <1>2, <1>6 DEF Types
  <2> QED
    BY <1>2, <1>4, <1>6, <2>1, Others
<1>7. CallInv(p)'
  <2>1. fetch'[p].pc = "invalid" /\ writer'[p] = writer[p]
    BY <1>1, <1>2 DEF Types, FetchType
  <2> QED
    BY <1>1, <1>2, <1>4, <2>1 DEF CallInv, NoWriterYet, AfterMissing, TokenOfWriter, CacheStays, Trying
<1> QED
  BY <1>5, <1>6, <1>7 DEF IInv

LEMMA OpenFileStep ==
  ASSUME IInv, NEW p \in Fetches, OpenFile(p)
  PROVE  IInv'
<1>1. /\ Types /\ CallInv(p) /\ fetch[p] \in FetchType /\ writer[p] \in WriterType
      /\ seen[p] \in SeenType /\ done[p] \in BOOLEAN
  BY DEF IInv, Types
<1>0. /\ Disturbed(p) \in [Fetches -> SeenType]
      /\ \A q \in Fetches : /\ Disturbed(p)[q].cached = seen[q].cached
                            /\ Disturbed(p)[q].kept = seen[q].kept
                            /\ Disturbed(p)[q].garbled = seen[q].garbled
                            /\ Disturbed(p)[q].missing = seen[q].missing
                            /\ Disturbed(p)[q].rewritten = seen[q].rewritten
                            /\ Disturbed(p)[q].stale = seen[q].stale
                            /\ Disturbed(p)[q].disturbed = (seen[q].disturbed \/ q # p)
  BY <1>1, DisturbedType
<1>2. Types'
  BY <1>0, <1>1 DEF OpenFile, Types, WriterType, SeenType
<1>3. ASSUME NEW q \in Fetches, q # p PROVE CallInv(q)'
  <2>1. /\ fetch'[q] = fetch[q] /\ writer'[q] = writer[q] /\ done'[q] = done[q] /\ gone' = gone
        /\ seen'[q].cached = seen[q].cached /\ seen'[q].missing = seen[q].missing
        /\ seen'[q].stale = seen[q].stale /\ seen'[q].kept = seen[q].kept
        /\ seen'[q].garbled = seen[q].garbled
        /\ seen'[q].rewritten = seen[q].rewritten /\ seen'[q].disturbed
        /\ file'.state # "good"
    BY <1>0, <1>1, <1>3 DEF OpenFile, Types, SeenType
  <2> QED
    BY <2>1, Others
<1>4. CallInv(p)'
  <2>1. /\ writer[p].pc = "due" /\ writer'[p].pc = "open" /\ fetch'[p] = fetch[p] /\ done'[p] = done[p]
        /\ seen'[p].cached = seen[p].cached /\ seen'[p].missing = seen[p].missing
        /\ seen'[p].rewritten = seen[p].rewritten /\ seen'[p].disturbed = seen[p].disturbed
        /\ seen'[p].kept = seen[p].kept /\ seen'[p].garbled = seen[p].garbled
        /\ seen'[p].stale = seen[p].stale /\ gone' = gone
    BY <1>0, <1>1 DEF OpenFile, Types, WriterType, SeenType
  <2> QED
    BY <1>1, <2>1 DEF CallInv, NoWriterYet, AfterMissing, TokenOfWriter, CacheStays, Trying
<1> QED
  BY <1>2, <1>3, <1>4 DEF IInv

LEMMA WriteFileStep ==
  ASSUME IInv, NEW p \in Fetches, WriteFile(p)
  PROVE  IInv'
<1>1. /\ Types /\ CallInv(p) /\ fetch[p] \in FetchType /\ writer[p] \in WriterType
      /\ seen[p] \in SeenType /\ done[p] \in BOOLEAN
  BY DEF IInv, Types
<1>0. /\ Disturbed(p) \in [Fetches -> SeenType]
      /\ \A q \in Fetches : /\ Disturbed(p)[q].cached = seen[q].cached
                            /\ Disturbed(p)[q].kept = seen[q].kept
                            /\ Disturbed(p)[q].garbled = seen[q].garbled
                            /\ Disturbed(p)[q].missing = seen[q].missing
                            /\ Disturbed(p)[q].rewritten = seen[q].rewritten
                            /\ Disturbed(p)[q].stale = seen[q].stale
                            /\ Disturbed(p)[q].disturbed = (seen[q].disturbed \/ q # p)
  BY <1>1, DisturbedType
<1>a. /\ writer[p].pc = "open" /\ writer' = [writer EXCEPT ![p].pc = "done"]
      /\ done' = [done EXCEPT ![p] = TRUE]
      /\ gone' = gone /\ backup' = backup /\ fetch' = fetch
  BY DEF WriteFile
<1>b. /\ seen' \in [Fetches -> SeenType]
      /\ file' \in [state : {"none", "empty", "good", "bad"}, ino : SUBSET Fetches]
      /\ \A q \in Fetches : /\ seen'[q].cached = seen[q].cached /\ seen'[q].missing = seen[q].missing
                            /\ seen'[q].stale = seen[q].stale /\ seen'[q].kept = seen[q].kept
                            /\ seen'[q].garbled = seen[q].garbled
                            /\ seen[q].rewritten => seen'[q].rewritten
                            /\ seen[q].disturbed => seen'[q].disturbed
                            /\ q # p => file' = file \/ (seen'[q].disturbed /\ seen'[q].rewritten)
                            /\ q = p => seen'[q].rewritten = seen[q].rewritten
                                       /\ seen'[q].disturbed = seen[q].disturbed
  <2>1. CASE file.ino = writer[p].ino
    <3>1. PICK s \in {"good", "bad"} : file' = [file EXCEPT !.state = s]
      BY <2>1 DEF WriteFile
    <3>2. seen' = [q \in Fetches |-> [Disturbed(p)[q] EXCEPT !.rewritten = Disturbed(p)[q].rewritten \/ q # p]]
      BY <2>1 DEF WriteFile
    <3>3. \A q \in Fetches : Disturbed(p)[q] \in SeenType
      BY <1>0
    <3>4. \A q \in Fetches : /\ seen'[q] \in SeenType
                             /\ seen'[q].cached = Disturbed(p)[q].cached
                             /\ seen'[q].missing = Disturbed(p)[q].missing
                             /\ seen'[q].stale = Disturbed(p)[q].stale
                             /\ seen'[q].kept = Disturbed(p)[q].kept
                             /\ seen'[q].garbled = Disturbed(p)[q].garbled
                             /\ seen'[q].disturbed = Disturbed(p)[q].disturbed
                             /\ seen'[q].rewritten = (Disturbed(p)[q].rewritten \/ q # p)
      BY <3>2, <3>3 DEF SeenType
    <3>5. file' \in [state : {"none", "empty", "good", "bad"}, ino : SUBSET Fetches]
      BY <1>1, <3>1 DEF Types
    <3>6. seen' \in [Fetches -> SeenType]
      BY <3>2, <3>4
    <3>7. ASSUME NEW q \in Fetches
          PROVE  /\ seen'[q].cached = seen[q].cached /\ seen'[q].missing = seen[q].missing
                 /\ seen'[q].stale = seen[q].stale /\ seen'[q].kept = seen[q].kept
                 /\ seen'[q].garbled = seen[q].garbled
                 /\ seen[q].rewritten => seen'[q].rewritten
                 /\ seen[q].disturbed => seen'[q].disturbed
      BY <1>0, <3>4
    <3>8. ASSUME NEW q \in Fetches, q # p PROVE seen'[q].disturbed /\ seen'[q].rewritten
      BY <1>0, <3>4, <3>8
    <3>9. seen'[p].rewritten = seen[p].rewritten /\ seen'[p].disturbed = seen[p].disturbed
      <4>1. seen[p] \in SeenType /\ seen'[p] \in SeenType
        BY <1>1, <3>4
      <4>2. (seen'[p].rewritten <=> seen[p].rewritten) /\ (seen'[p].disturbed <=> seen[p].disturbed)
        BY <1>0, <3>4
      <4> QED
        BY <4>1, <4>2 DEF SeenType
    <3> QED
      BY <3>5, <3>6, <3>7, <3>8, <3>9
  <2>2. CASE file.ino # writer[p].ino
    <3>1. file' = file /\ seen' = seen
      BY <2>2 DEF WriteFile
    <3>2. /\ seen \in [Fetches -> SeenType]
          /\ file \in [state : {"none", "empty", "good", "bad"}, ino : SUBSET Fetches]
      BY <1>1 DEF Types
    <3>3. /\ seen' \in [Fetches -> SeenType]
          /\ file' \in [state : {"none", "empty", "good", "bad"}, ino : SUBSET Fetches]
      BY <3>1, <3>2
    <3>4. ASSUME NEW q \in Fetches
          PROVE  /\ seen'[q].cached = seen[q].cached /\ seen'[q].missing = seen[q].missing
                 /\ seen'[q].stale = seen[q].stale /\ seen'[q].kept = seen[q].kept
                 /\ seen'[q].garbled = seen[q].garbled
                 /\ seen[q].rewritten => seen'[q].rewritten
                 /\ seen[q].disturbed => seen'[q].disturbed
                 /\ q = p => seen'[q].rewritten = seen[q].rewritten
                            /\ seen'[q].disturbed = seen[q].disturbed
      BY <3>1
    <3>5. ASSUME NEW q \in Fetches, q # p
          PROVE  file' = file \/ (seen'[q].disturbed /\ seen'[q].rewritten)
      BY <3>1
    <3> QED
      BY <3>3, <3>4, <3>5
  <2> QED
    BY <2>1, <2>2
<1>2. Types'
  BY <1>1, <1>a, <1>b DEF Types, WriterType
<1>3. ASSUME NEW q \in Fetches, q # p PROVE CallInv(q)'
  <2>1. fetch'[q] = fetch[q] /\ writer'[q] = writer[q] /\ done'[q] = done[q]
    BY <1>1, <1>3, <1>a DEF Types
  <2> QED
    BY <1>3, <1>a, <1>b, <2>1, Others
<1>4. CallInv(p)'
  <2>1. writer'[p].pc = "done" /\ fetch'[p] = fetch[p]
    BY <1>1, <1>a DEF Types, WriterType
  <2> QED
    BY <1>1, <1>a, <1>b, <2>1 DEF CallInv, NoWriterYet, AfterMissing, TokenOfWriter, CacheStays, Trying
<1> QED
  BY <1>2, <1>3, <1>4 DEF IInv

-----------------------------------------------------------------------------
LEMMA WorldStep ==
  ASSUME IInv, Remove \/ DropBackup
  PROVE  IInv'
<1>1. /\ (gone => gone') /\ gone' \in BOOLEAN /\ backup' \in BOOLEAN
      /\ file' = file /\ fetch' = fetch /\ writer' = writer /\ done' = done /\ seen' = seen
  BY DEF IInv, Types, Remove, DropBackup
<1>2. Types'
  BY <1>1 DEF IInv, Types
<1>3. ASSUME NEW q \in Fetches PROVE CallInv(q)'
  BY <1>1, Others
<1> QED
  BY <1>2, <1>3 DEF IInv

LEMMA NextIInv == IInv /\ [Next]_vars => IInv'
<1> SUFFICES ASSUME IInv, [Next]_vars PROVE IInv'
  OBVIOUS
<1>1. ASSUME NEW p \in Fetches, Call(p) PROVE IInv'
  BY <1>1, StartStep, AskMalformedStep, AskOkStep, AskMissingStep, AskErrorStep, AskFailoverStep, GarbledStep,
     LoadSignedStep, LoadSignedErrorStep, ReadCacheStep, ParseOkStep, ParseErrorStep, CleanUpStep DEF Call
<1>2. ASSUME NEW p \in Fetches, Write(p) PROVE IInv'
  BY <1>2, OpenFileStep, WriteFileStep, WriteErrorStep DEF Write
<1>3. CASE UNCHANGED vars
  <2>1. Types'
    BY <1>3 DEF IInv, Types, vars
  <2>2. ASSUME NEW q \in Fetches PROVE CallInv(q)'
    BY <1>3, Others DEF vars
  <2> QED
    BY <2>1, <2>2 DEF IInv
<1> QED
  BY <1>1, <1>2, <1>3, ExitStep, WorldStep DEF Next

LEMMA SpecIInv == Spec => []IInv
  BY InitIInv, NextIInv, PTL DEF Spec

-----------------------------------------------------------------------------
\* No retry makes a config of what a 404 took away: after it the call asks again with
\* no writer of its own and an empty cache, unless Delete failed, whose error the 404
\* branch of getJson ignores.
THEOREM RemovedRefused == Spec => []RemovedIsRefused
<1>1. IInv => RemovedIsRefused
  BY DEF IInv, CallInv, AfterMissing, RemovedIsRefused
<1> QED
  BY SpecIInv, <1>1, PTL

\* The wait of Fetch after an undecryptable body is a wait for its own writer whenever
\* the channel Done was empty when the body came.
THEOREM WriteAwaited == Spec => []WriteSettled
<1>1. IInv => WriteSettled
  BY DEF IInv, CallInv, TokenOfWriter, WriteSettled
<1> QED
  BY SpecIInv, <1>1, PTL

\* The endpoints cannot fail a call that has a good cache, however often it retries, as
\* long as they say no 404, the last answer is not one that getJson cannot parse, and no
\* other process takes the file.
THEOREM CacheBacksUp == Spec => []CacheServes
<1>1. IInv => CacheServes
  BY DEF IInv, CallInv, CacheStays, CacheServes
<1> QED
  BY SpecIInv, <1>1, PTL

=============================================================================

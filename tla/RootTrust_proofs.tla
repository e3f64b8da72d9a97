-------------------------- MODULE RootTrust_proofs --------------------------
(***************************************************************************)
(* What RootTrust says of revoked devices, and of what a device knows it   *)
(* owes, holds for any number of devices, revocations, replacements and    *)
(* racing acknowledgements; and a client can follow the replacements it    *)
(* has not acknowledged.                                                   *)
(***************************************************************************)
EXTENDS RootTrust, TLAPS

RowType == [status : {"invited", "active", "deactivated", "deleted"},
            trusted : SUBSET Devices, signer : Devices]
ReplacementType == [by : Devices, from : Devices, owed : SUBSET Holders]
StoreType == [trusted : SUBSET Devices, at : Nat, root : Devices,
              requests : SUBSET Devices, pending : SUBSET Nat]
CallType == [pc : {"none", "prepared", "sent"}, kind : {"none", "revoke", "replace", "accept"},
             targets : SUBSET Devices, from : Devices, trusted : SUBSET Devices, at : Nat]
AckType == [pc : {"none", "posted", "read"}, ids : SUBSET Nat, trusted : SUBSET Devices,
            row : RowType \cup {<<>>}, owed : UNION {[I -> SUBSET Holders] : I \in SUBSET Nat}]

ServerTypes ==
  /\ org \in [at : Nat, root : Devices, requests : SUBSET Devices]
  /\ row \in [Holders -> RowType]
  /\ replaced \in Seq(ReplacementType)

\* A client knows of replacements that exist and of versions that were.  It never asks
\* for its own revocation.
ClientTypes ==
  /\ store \in [Devices -> StoreType]
  /\ \A d \in Devices : store[d].pending \subseteq DOMAIN replaced /\ store[d].at <= org.at
  /\ call \in [Devices -> CallType]
  /\ \A d \in Devices : call[d].kind = "replace" => d \notin call[d].targets

\* Whoever acknowledges was active when its row was read.
AckTypes ==
  /\ ack \in [Clients -> AckType]
  /\ \A c \in Clients : ack[c].pc = "read" =>
       /\ ack[c].row \in RowType /\ ack[c].row.status = "active"
       /\ ack[c].owed \in [ack[c].ids -> SUBSET Holders]

\* OwesWhatItKnows, also of devices that are not active at the moment.
Knows ==
  \A d \in Devices \ reasked : store[d].at = org.at => Pending(d) \subseteq store[d].pending

IInv ==
  /\ ServerTypes /\ ClientTypes /\ AckTypes
  /\ RequestedStaysOut /\ SignerExists /\ Knows

USE DEF Holders, Clients

-----------------------------------------------------------------------------
LEMMA EmptyOwed == <<>> \in UNION {[I -> SUBSET Holders] : I \in SUBSET Nat}
<1>1. <<>> \in [{} -> SUBSET Holders]
  OBVIOUS
<1> QED
  BY <1>1

LEMMA NoAckTyped == NoAck \in AckType /\ NoAck.pc = "none"
BY EmptyOwed DEF NoAck, AckType

LEMMA NoCallTyped == NoCall \in CallType /\ NoCall.kind = "none"
BY CreatorAssumption DEF NoCall, CallType

LEMMA InitIInv == Init => IInv
<1> SUFFICES ASSUME Init PROVE IInv
  OBVIOUS
<1>1. ServerTypes
  BY CreatorAssumption DEF Init, ServerTypes, RowType
<1>2. ClientTypes
  BY CreatorAssumption, NoCallTyped DEF Init, ClientTypes, StoreType
<1>3. AckTypes
  BY NoAckTyped DEF Init, AckTypes
<1>4. RequestedStaysOut /\ SignerExists /\ Knows
  BY CreatorAssumption, EnvkeyAssumption
  DEF Init, RequestedStaysOut, SignerExists, Knows, Pending, PendingIn
<1> QED
  BY <1>1, <1>2, <1>3, <1>4 DEF IInv

-----------------------------------------------------------------------------
(* What is trusted, pending and learnt. *)

LEMMA PendingTyped ==
  ASSUME ServerTypes, NEW h PROVE Pending(h) \subseteq DOMAIN replaced /\ DOMAIN replaced \subseteq Nat
BY DEF ServerTypes, Pending, PendingIn

LEMMA ReplacedElements ==
  ASSUME ServerTypes
  PROVE  \A i \in DOMAIN replaced : replaced[i] \in ReplacementType /\ replaced[i].by \in Devices
<1>1. replaced \in Seq(ReplacementType) /\ DOMAIN replaced = 1..Len(replaced)
  BY DEF ServerTypes
<1>2. \A i \in DOMAIN replaced : replaced[i] \in ReplacementType
  BY <1>1
<1> QED
  BY <1>2 DEF ReplacementType

LEMMA LearntTyped ==
  ASSUME ServerTypes, NEW T \in SUBSET Devices, NEW ids \in SUBSET DOMAIN replaced
  PROVE  /\ Learnt(T, ids) \in SUBSET Devices
         /\ FetchTrust(T, ids) \in SUBSET Devices
<1>1. Accepted(T, ids) \subseteq ids /\ Latest(ids) \subseteq ids
  BY DEF Accepted, Latest
<1> QED
  BY <1>1, ReplacedElements DEF Learnt, FetchTrust, Newcomers

LEMMA RowTyped ==
  ASSUME ServerTypes, NEW h \in Holders
  PROVE  row[h] \in RowType /\ row[h].trusted \in SUBSET Devices /\ row[h].signer \in Devices
<1>1. row[h] \in RowType
  BY DEF ServerTypes
<1> QED
  BY <1>1 DEF RowType

\* A refreshed client knows what its device owes.
LEMMA SeenTyped ==
  ASSUME ServerTypes, NEW d \in Devices, NEW s \in StoreType
  PROVE  LET t == Seen(s, org, replaced, d) IN
         t \in StoreType /\ t.at = org.at /\ t.pending = Pending(d) /\ t.pending \subseteq DOMAIN replaced
<1>1. /\ org.at \in Nat /\ org.root \in Devices /\ org.requests \in SUBSET Devices
  BY DEF ServerTypes
<1>2. PendingIn(replaced, d) \in SUBSET Nat /\ PendingIn(replaced, d) = Pending(d)
  BY PendingTyped DEF Pending
<1> QED
  BY <1>1, <1>2, PendingTyped DEF Seen, StoreType

-----------------------------------------------------------------------------
(* Steps that leave the server alone. *)

\* Such a step keeps what a device on the current version knows, or refreshes it.
LEMMA ClientStep ==
  ASSUME IInv, UNCHANGED <<org, row, replaced, slipped, reasked>>,
         store' \in [Devices -> StoreType],
         \A d \in Devices : \/ store'[d].pending = store[d].pending /\ store'[d].at = store[d].at
                            \/ store'[d].pending = Pending(d) /\ store'[d].at = org.at,
         call' \in [Devices -> CallType],
         \A d \in Devices : call'[d].kind = "replace" => d \notin call'[d].targets,
         AckTypes'
  PROVE  IInv'
<1> USE DEF IInv
<1>1. ServerTypes'
  BY DEF ServerTypes
<1>2. org.at \in Nat
  BY DEF ServerTypes
<1>3. ClientTypes'
  <2>1. \A d \in Devices : store'[d].pending \subseteq DOMAIN replaced /\ store'[d].at <= org.at
    BY <1>2, PendingTyped DEF ClientTypes
  <2> QED
    BY <2>1 DEF ClientTypes
<1>4. RequestedStaysOut' /\ SignerExists'
  BY DEF RequestedStaysOut, SignerExists
<1>5. Knows'
  <2>1. \A d : Pending(d)' = Pending(d)
    BY DEF Pending
  <2> QED
    BY <2>1 DEF Knows
<1> QED
  BY <1>1, <1>3, <1>4, <1>5

LEMMA GetSessionStep == ASSUME IInv, NEW d \in Devices, GetSession(d) PROVE IInv'
<1>1. ServerTypes /\ store[d] \in StoreType
  BY DEF IInv, ClientTypes
<1>2. store' = [store EXCEPT ![d] = Seen(store[d], org, replaced, d)]
  BY DEF GetSession
<1>3. AckTypes'
  BY DEF IInv, AckTypes, GetSession
<1> QED
  BY <1>1, <1>2, <1>3, SeenTyped, ClientStep DEF IInv, ClientTypes, GetSession

LEMMA SignInStep == ASSUME IInv, NEW d \in Devices, SignIn(d) PROVE IInv'
<1> DEFINE s == [store[d] EXCEPT !.trusted = row[d].trusted]
           t == Seen(s, org, replaced, d)
<1>1. ServerTypes /\ row[d].trusted \in SUBSET Devices
  BY RowTyped DEF IInv
<1>2. store[d] \in StoreType
  BY DEF IInv, ClientTypes
<1>3. s \in StoreType
  BY <1>1, <1>2 DEF StoreType
<1>4. store' = [store EXCEPT ![d] = t]
  BY DEF SignIn
<1> HIDE DEF s
<1>5. t \in StoreType /\ t.pending = Pending(d) /\ t.at = org.at
  BY <1>1, <1>3, SeenTyped
<1>6. AckTypes' /\ UNCHANGED <<org, row, replaced, call, slipped, reasked>>
  BY DEF IInv, AckTypes, SignIn
<1> HIDE DEF t
<1>7. store' \in [Devices -> StoreType]
  BY <1>4, <1>5 DEF IInv, ClientTypes
<1>8. \A e \in Devices : \/ store'[e].pending = store[e].pending /\ store'[e].at = store[e].at
                         \/ store'[e].pending = Pending(e) /\ store'[e].at = org.at
  BY <1>4, <1>5 DEF IInv, ClientTypes
<1> QED
  BY <1>6, <1>7, <1>8, ClientStep DEF IInv, ClientTypes

LEMMA ProcessStep == ASSUME IInv, NEW d \in Devices, Process(d) PROVE IInv'
<1> DEFINE T == Learnt(store[d].trusted, store[d].pending)
           a == [NoAck EXCEPT !.pc = "posted", !.ids = store[d].pending, !.trusted = T]
<1>1. ServerTypes /\ store[d] \in StoreType /\ store[d].pending \in SUBSET DOMAIN replaced
  BY DEF IInv, ClientTypes
<1>2. T \in SUBSET Devices /\ store[d].pending \in SUBSET Nat
  BY <1>1, LearntTyped DEF StoreType
<1>3. a \in AckType /\ a.pc = "posted"
  BY <1>2, EmptyOwed DEF NoAck, AckType
<1>4. /\ store' = [store EXCEPT ![d].trusted = T]
      /\ \/ ack' = [ack EXCEPT ![d] = a]
         \/ ack' = [ack EXCEPT ![d] = ack[d]]
  BY DEF Process
<1> HIDE DEF T, a
<1>5. AckTypes'
  BY <1>3, <1>4 DEF IInv, AckTypes
<1>6. store' \in [Devices -> StoreType]
  BY <1>1, <1>2, <1>4 DEF IInv, ClientTypes, StoreType
<1>7. \A e \in Devices : store'[e].pending = store[e].pending /\ store'[e].at = store[e].at
  BY <1>1, <1>4 DEF IInv, ClientTypes, StoreType
<1> QED
  BY <1>5, <1>6, <1>7, ClientStep DEF IInv, ClientTypes, Process

LEMMA FetchStep == ASSUME IInv, NEW f \in Fetches, Fetch(f) PROVE IInv'
<1> DEFINE T == FetchTrust(row[Envkey].trusted, Pending(Envkey))
           a == [NoAck EXCEPT !.pc = "posted", !.ids = Pending(Envkey), !.trusted = T]
<1>1. ServerTypes /\ Pending(Envkey) \in SUBSET DOMAIN replaced /\ Pending(Envkey) \in SUBSET Nat
  BY PendingTyped DEF IInv
<1>2. T \in SUBSET Devices
  BY <1>1, RowTyped, LearntTyped
<1>3. a \in AckType /\ a.pc = "posted"
  BY <1>1, <1>2, EmptyOwed DEF NoAck, AckType
<1>4. ack' = [ack EXCEPT ![f] = a]
  BY DEF Fetch
<1> HIDE DEF a
<1>5. AckTypes'
  BY <1>3, <1>4 DEF IInv, AckTypes
<1> QED
  BY <1>5, ClientStep DEF IInv, ClientTypes, Fetch

LEMMA AckReadStep == ASSUME IInv, NEW c \in Clients, AckRead(c) PROVE IInv'
<1> DEFINE h == Holder(c)
           w == [i \in ack[c].ids |-> replaced[i].owed]
           a == [ack[c] EXCEPT !.pc = "read", !.row = row[h], !.owed = w]
<1>1. ServerTypes /\ h \in Holders /\ ack[c] \in AckType
  BY DEF IInv, AckTypes, Holder
<1>2. row[h] \in RowType /\ row[h].status = "active"
  BY <1>1, RowTyped DEF AckRead, Active
<1>3. w \in [ack[c].ids -> SUBSET Holders]
  <2>1. ack[c].ids \subseteq DOMAIN replaced
    BY <1>1, PendingTyped DEF AckRead
  <2> QED
    BY <1>1, <2>1, ReplacedElements DEF ReplacementType
<1>4. w \in UNION {[I -> SUBSET Holders] : I \in SUBSET Nat}
  BY <1>1, <1>3 DEF AckType
<1>5. ack' = [ack EXCEPT ![c] = a]
  BY <1>1 DEF AckRead, AckType, IInv, AckTypes
<1> HIDE DEF w, h
<1>6. a \in AckType /\ a.pc = "read" /\ a.row = row[h] /\ a.owed = w /\ a.ids = ack[c].ids
  BY <1>1, <1>2, <1>4 DEF AckType
<1> HIDE DEF a
<1>7. AckTypes'
  BY <1>2, <1>3, <1>5, <1>6 DEF IInv, AckTypes
<1> QED
  BY <1>7, ClientStep DEF IInv, ClientTypes, AckRead

LEMMA AckFailStep == ASSUME IInv, NEW c \in Clients, AckFail(c) PROVE IInv'
<1>1. AckTypes'
  BY NoAckTyped DEF IInv, AckTypes, AckFail
<1> QED
  BY <1>1, ClientStep DEF IInv, ClientTypes, AckFail

LEMMA SendRevokeStep ==
  ASSUME IInv, NEW d \in Devices, NEW t \in Devices, SendRevoke(d, t) PROVE IInv'
<1> DEFINE k == [NoCall EXCEPT !.pc = "sent", !.kind = "revoke", !.targets = {t}, !.at = org.at]
<1>1. k \in CallType /\ k.kind = "revoke"
  BY CreatorAssumption DEF NoCall, CallType, IInv, ServerTypes
<1>2. call' = [call EXCEPT ![d] = k]
  BY DEF SendRevoke
<1>3. AckTypes'
  BY DEF IInv, AckTypes, SendRevoke
<1> HIDE DEF k
<1> QED
  BY <1>1, <1>2, <1>3, ClientStep DEF IInv, ClientTypes, SendRevoke

\* The request asks for nothing about the device itself.
LEMMA PrepareReplaceStep == ASSUME IInv, NEW d \in Devices, PrepareReplace(d) PROVE IInv'
<1> DEFINE replacing == store[d].root \in store[d].requests
           T == IF replacing THEN store[d].trusted \cup {d} ELSE store[d].trusted
           k == [NoCall EXCEPT !.pc = "prepared", !.kind = "replace", !.targets = store[d].requests,
                               !.from = ChainEnd(d), !.trusted = IF replacing THEN T ELSE {}]
<1>1. store[d] \in StoreType
  BY DEF IInv, ClientTypes
<1>2. T \in SUBSET Devices /\ ChainEnd(d) \in Devices /\ store[d].requests \in SUBSET Devices
  BY <1>1 DEF StoreType, ChainEnd
<1>3. k \in CallType /\ k.targets = store[d].requests
  BY <1>2 DEF NoCall, CallType
<1>4. store' = [store EXCEPT ![d].trusted = T] /\ store'[d].trusted = T
  BY <1>1 DEF PrepareReplace, IInv, ClientTypes, StoreType
<1>5. call' = [call EXCEPT ![d] = k] /\ d \notin store[d].requests
  BY <1>4 DEF PrepareReplace
<1> HIDE DEF T, k
<1>6. store' \in [Devices -> StoreType]
  BY <1>1, <1>2, <1>4 DEF IInv, ClientTypes, StoreType
<1>7. \A e \in Devices : store'[e].pending = store[e].pending /\ store'[e].at = store[e].at
  BY <1>1, <1>4 DEF IInv, ClientTypes, StoreType
<1>8. /\ call' \in [Devices -> CallType]
      /\ \A e \in Devices : call'[e].kind = "replace" => e \notin call'[e].targets
  BY <1>3, <1>5 DEF IInv, ClientTypes
<1>9. AckTypes' /\ UNCHANGED <<org, row, replaced, slipped, reasked>>
  BY DEF IInv, AckTypes, PrepareReplace
<1> QED
  BY <1>6, <1>7, <1>8, <1>9, ClientStep

LEMMA LoadInviteStep == ASSUME IInv, NEW d \in Devices, LoadInvite(d) PROVE IInv'
<1> DEFINE T == Learnt(row[d].trusted, Pending(d))
           s == [store[d] EXCEPT !.trusted = T]
           t == Seen(s, org, replaced, d)
           k == [NoCall EXCEPT !.pc = "prepared", !.kind = "accept", !.trusted = T]
<1>1. ServerTypes /\ row[d].trusted \in SUBSET Devices /\ Pending(d) \in SUBSET DOMAIN replaced
  BY RowTyped, PendingTyped DEF IInv
<1>2. T \in SUBSET Devices
  BY <1>1, LearntTyped
<1>3. store' = [store EXCEPT ![d] = t] /\ call' = [call EXCEPT ![d] = k]
  BY DEF LoadInvite
<1> HIDE DEF T
<1>4. k \in CallType /\ k.kind = "accept"
  BY <1>2, CreatorAssumption DEF NoCall, CallType
<1>5. store[d] \in StoreType
  BY DEF IInv, ClientTypes
<1>6. s \in StoreType
  BY <1>2, <1>5 DEF StoreType
<1> HIDE DEF s, k
<1>7. t \in StoreType /\ t.pending = Pending(d) /\ t.at = org.at
  BY <1>1, <1>6, SeenTyped
<1>8. AckTypes' /\ UNCHANGED <<org, row, replaced, slipped, reasked>>
  BY DEF IInv, AckTypes, LoadInvite
<1> HIDE DEF t
<1>9. store' \in [Devices -> StoreType]
  BY <1>3, <1>7 DEF IInv, ClientTypes
<1>10. \A e \in Devices : \/ store'[e].pending = store[e].pending /\ store'[e].at = store[e].at
                          \/ store'[e].pending = Pending(e) /\ store'[e].at = org.at
  BY <1>3, <1>7 DEF IInv, ClientTypes
<1>11. /\ call' \in [Devices -> CallType]
       /\ \A e \in Devices : call'[e].kind = "replace" => e \notin call'[e].targets
  BY <1>3, <1>4 DEF IInv, ClientTypes
<1> QED
  BY <1>8, <1>9, <1>10, <1>11, ClientStep

LEMMA SendStep == ASSUME IInv, NEW d \in Devices, Send(d) PROVE IInv'
<1> DEFINE k == [call[d] EXCEPT !.pc = "sent", !.at = org.at]
<1>1. call[d] \in CallType /\ org.at \in Nat
  BY DEF IInv, ClientTypes, ServerTypes
<1>2. k \in CallType /\ k.kind = call[d].kind /\ k.targets = call[d].targets
  BY <1>1 DEF CallType
<1>3. call' = [call EXCEPT ![d] = k]
  BY <1>1 DEF Send, IInv, ClientTypes, CallType
<1>4. AckTypes' /\ UNCHANGED <<org, row, replaced, store, slipped, reasked>>
  BY DEF IInv, AckTypes, Send
<1> HIDE DEF k
<1>5. /\ call' \in [Devices -> CallType]
      /\ \A e \in Devices : call'[e].kind = "replace" => e \notin call'[e].targets
  BY <1>2, <1>3 DEF IInv, ClientTypes
<1> QED
  BY <1>4, <1>5, ClientStep DEF IInv, ClientTypes

LEMMA GiveUpStep == ASSUME IInv, NEW d \in Devices, GiveUp(d) PROVE IInv'
<1>1. AckTypes'
  BY DEF IInv, AckTypes, GiveUp
<1> QED
  BY <1>1, NoCallTyped, ClientStep DEF IInv, ClientTypes, GiveUp

-----------------------------------------------------------------------------
(* An acknowledgement. *)

\* A list whose owed holders are replaced is one still.
LEMMA ListTyped ==
  ASSUME NEW list \in Seq(ReplacementType), NEW next, DOMAIN next = DOMAIN list,
         next = [i \in DOMAIN next |-> next[i]],
         \A i \in DOMAIN list : next[i] \in ReplacementType
  PROVE  next \in Seq(ReplacementType)
<1>1. DOMAIN list = 1..Len(list) /\ Len(list) \in Nat
  OBVIOUS
<1>2. next \in [1..Len(list) -> ReplacementType]
  BY <1>1
<1> QED
  BY <1>1, <1>2

LEMMA AckWriteTypes ==
  ASSUME IInv, NEW c \in Clients, AckWrite(c)
  PROVE  ServerTypes' /\ ClientTypes' /\ AckTypes'
<1> DEFINE h == Holder(c)
           a == ack[c]
<1>1. a \in AckType /\ a.row \in RowType /\ a.owed \in [a.ids -> SUBSET Holders] /\ a.pc = "read"
  BY DEF AckWrite, IInv, AckTypes
<1>2. h \in Holders /\ replaced \in Seq(ReplacementType) /\ row \in [Holders -> RowType]
  BY DEF IInv, ServerTypes, Holder
<1>3. row' \in [Holders -> RowType]
  <2> DEFINE r == [a.row EXCEPT !.trusted = a.trusted,
                                !.status = IF row[h].status = "deleted" THEN "deleted" ELSE a.row.status]
  <2>1. r \in RowType
    BY <1>1 DEF RowType, AckType
  <2>2. row' = [row EXCEPT ![h] = r]
    BY <1>1 DEF AckWrite, RowType
  <2> HIDE DEF r
  <2> QED
    BY <1>2, <2>1, <2>2
<1>4. replaced' \in Seq(ReplacementType) /\ DOMAIN replaced' = DOMAIN replaced
  <2>1. replaced' = [i \in DOMAIN replaced |->
                       IF i \in a.ids THEN [replaced[i] EXCEPT !.owed = a.owed[i] \ {h}] ELSE replaced[i]]
    BY DEF AckWrite
  <2>2. \A i \in DOMAIN replaced : replaced'[i] \in ReplacementType
    <3> SUFFICES ASSUME NEW i \in DOMAIN replaced PROVE replaced'[i] \in ReplacementType
      OBVIOUS
    <3>1. replaced[i] \in ReplacementType
      BY ReplacedElements DEF IInv
    <3>2. i \in a.ids => a.owed[i] \in SUBSET Holders
      BY <1>1
    <3> QED
      BY <2>1, <3>1, <3>2 DEF ReplacementType
  <2> HIDE DEF a, h
  <2> QED
    BY <1>2, <2>1, <2>2, ListTyped
<1>5. ServerTypes'
  BY <1>3, <1>4 DEF IInv, ServerTypes, AckWrite
<1>6. /\ store' \in [Devices -> StoreType]
      /\ \A d \in Devices : store'[d].pending \subseteq store[d].pending /\ store'[d].at = store[d].at
  <2>1. \/ c \in Devices /\ store' = [store EXCEPT ![c] = [store[c] EXCEPT !.pending = @ \ a.ids]]
        \/ store' = store
    BY DEF AckWrite, Forgotten
  <2>2. store \in [Devices -> StoreType]
    BY DEF IInv, ClientTypes
  <2> HIDE DEF a
  <2> QED
    BY <2>1, <2>2 DEF StoreType
<1>7. ClientTypes'
  BY <1>4, <1>6 DEF IInv, ClientTypes, AckWrite
<1>8. AckTypes'
  BY NoAckTyped DEF IInv, AckTypes, AckWrite
<1> QED
  BY <1>5, <1>7, <1>8

\* A row is written as it was read, when it was active, or its holder slipped; the
\* acknowledgement of another makes nobody owe again what it no longer owes, or that
\* device is asked again.
LEMMA AckWriteStep == ASSUME IInv, NEW c \in Clients, AckWrite(c) PROVE IInv'
<1> DEFINE h == Holder(c)
           a == ack[c]
<1>1. ServerTypes' /\ ClientTypes' /\ AckTypes'
  BY AckWriteTypes
<1>2. a.row \in RowType /\ a.row.status = "active" /\ h \in Holders
  BY DEF AckWrite, IInv, AckTypes, Holder
<1>3. row \in [Holders -> RowType] /\ org' = org
  BY DEF AckWrite, IInv, ServerTypes
<1>4. \A g \in Holders \ {h} : row'[g] = row[g]
  BY <1>3 DEF AckWrite
<1>5. h \in slipped' \/ row[h] = a.row
  BY DEF AckWrite
<1>6. /\ row'[h].signer = a.row.signer
      /\ row'[h].status = "deleted" => row[h].status = "deleted"
  BY <1>2, <1>3 DEF AckWrite, RowType
<1>7. slipped \subseteq slipped'
  BY DEF AckWrite
<1>8. RequestedStaysOut'
  <2> SUFFICES ASSUME NEW t \in org.requests, t \notin slipped' PROVE row'[t].status = "deactivated"
    BY <1>3 DEF RequestedStaysOut
  <2>1. t \in Devices /\ row[t].status = "deactivated"
    BY <1>7 DEF IInv, ServerTypes, RequestedStaysOut
  <2>2. t # h
    BY <1>2, <1>5, <2>1
  <2> QED
    BY <1>4, <2>1, <2>2
<1>9. SignerExists'
  <2> SUFFICES ASSUME Envkey \notin slipped' PROVE row'[row'[Envkey].signer].status # "deleted"
    BY DEF SignerExists
  <2>1. row'[Envkey].signer = row[Envkey].signer
    BY <1>4, <1>5, <1>6
  <2>2. row[Envkey].signer \in Devices /\ row[row[Envkey].signer].status # "deleted"
    BY <1>7, RowTyped DEF IInv, SignerExists
  <2> QED
    BY <1>4, <1>6, <2>1, <2>2
<1>10. Knows'
  <2> SUFFICES ASSUME NEW d \in Devices, d \notin reasked', store'[d].at = org'.at,
                      NEW i \in Pending(d)'
               PROVE  i \in store'[d].pending
    BY DEF Knows
  <2>1. /\ i \in DOMAIN replaced /\ d \in replaced'[i].owed
        /\ replaced'[i] = IF i \in a.ids THEN [replaced[i] EXCEPT !.owed = a.owed[i] \ {h}]
                          ELSE replaced[i]
    BY DEF AckWrite, Pending, PendingIn
  <2>2. replaced[i] \in ReplacementType
    BY <2>1, ReplacedElements DEF IInv
  <2>3. i \in a.ids => d \in a.owed[i] /\ d # h
    BY <2>1, <2>2 DEF ReplacementType
  <2>4. d \notin reasked /\ (i \in a.ids => d \notin a.owed[i] \ (replaced[i].owed \cup {h}))
    BY DEF AckWrite
  <2>5. i \in Pending(d)
    BY <2>1, <2>3, <2>4 DEF Pending, PendingIn
  <2>6. store \in [Devices -> StoreType] /\ store[d] \in StoreType
    BY DEF IInv, ClientTypes
  <2>7. \/ c \in Devices /\ store' = [store EXCEPT ![c] = [store[c] EXCEPT !.pending = @ \ a.ids]]
        \/ store' = store
    BY DEF AckWrite, Forgotten
  <2>8. c \in Devices => h = c
    BY DEF Holder
  <2>9. store[d].at = org.at
    BY <1>3, <2>6, <2>7 DEF StoreType
  <2>10. i \in store[d].pending
    BY <2>4, <2>5, <2>9 DEF IInv, Knows
  <2> HIDE DEF a, h
  <2>11. CASE c \in Devices /\ c = d /\ store' = [store EXCEPT ![c] = [store[c] EXCEPT !.pending = @ \ a.ids]]
    BY <2>3, <2>6, <2>8, <2>10, <2>11 DEF StoreType
  <2>12. CASE store'[d] = store[d]
    BY <2>10, <2>12
  <2> QED
    BY <2>6, <2>7, <2>11, <2>12
<1> QED
  BY <1>1, <1>8, <1>9, <1>10 DEF IInv

-----------------------------------------------------------------------------
(* Graph actions. *)

\* Whoever commits a version, and hears of it, knows what its device owes; nobody else is
\* on that version.
LEMMA PutStep ==
  ASSUME IInv, NEW d \in Devices, NEW g, NEW rows, NEW list, Put(d, g, rows, list),
         g \in [at : Nat, root : Devices, requests : SUBSET Devices],
         rows \in [Holders -> RowType],
         list \in Seq(ReplacementType), Len(replaced) <= Len(list)
  PROVE  ServerTypes' /\ ClientTypes' /\ AckTypes' /\ Knows'
<1>1. org.at \in Nat /\ replaced \in Seq(ReplacementType)
  BY DEF IInv, ServerTypes
<1>2. org' \in [at : Nat, root : Devices, requests : SUBSET Devices] /\ org'.at = org.at + 1
  <2>1. org' = [g EXCEPT !.at = org.at + 1]
    BY DEF Put
  <2>2. org.at + 1 \in Nat
    BY <1>1
  <2> QED
    BY <2>1, <2>2
<1>3. replaced' = [i \in DOMAIN list |-> [list[i] EXCEPT !.owed = @ \cap Live(rows)]]
  BY DEF Put, Swept
<1>4. replaced' \in Seq(ReplacementType)
  <2>1. \A i \in DOMAIN list : list[i] \in ReplacementType
    OBVIOUS
  <2>2. \A i \in DOMAIN list : replaced'[i] \in ReplacementType
    BY <1>3, <2>1 DEF ReplacementType
  <2> QED
    BY <1>3, <2>2, ListTyped
<1>5. DOMAIN replaced \subseteq DOMAIN replaced'
  <2>1. DOMAIN replaced = 1..Len(replaced) /\ DOMAIN list = 1..Len(list)
    BY <1>1
  <2>2. Len(replaced) \in Nat /\ Len(list) \in Nat
    BY <1>1
  <2> QED
    BY <1>3, <2>1, <2>2
<1>6. ServerTypes'
  BY <1>2, <1>4 DEF ServerTypes, Put
<1>7. store \in [Devices -> StoreType] /\ store[d] \in StoreType
  BY DEF IInv, ClientTypes
<1>8. DOMAIN replaced' \subseteq Nat
  BY <1>4
<1> DEFINE t == Seen(store[d], org', replaced', d)
<1>9. t \in StoreType /\ t.at = org'.at /\ t.pending = Pending(d)' /\ t.pending \subseteq DOMAIN replaced'
  BY <1>2, <1>7, <1>8 DEF Seen, StoreType, Pending, PendingIn
<1>10. store' = [store EXCEPT ![d] = t] \/ store' = store
  BY DEF Put
<1> HIDE DEF t
<1>11. \A e \in Devices : /\ store[e].at <= org.at /\ store[e].at \in Nat
                          /\ store[e].pending \subseteq DOMAIN replaced
  BY <1>7 DEF IInv, ClientTypes, StoreType
<1>12. /\ store' \in [Devices -> StoreType]
       /\ \A e \in Devices : store'[e].pending \subseteq DOMAIN replaced' /\ store'[e].at <= org'.at
  <2>1. store' \in [Devices -> StoreType]
    BY <1>7, <1>9, <1>10
  <2>2. \A e \in Devices : store'[e] = store[e] \/ (e = d /\ store'[e] = t)
    BY <1>7, <1>10
  <2>3. org.at <= org'.at
    BY <1>1, <1>2
  <2>4. org'.at \in Nat /\ org.at \in Nat
    BY <1>1, <1>2
  <2>5. \A e \in Devices : store[e].pending \subseteq DOMAIN replaced' /\ store[e].at <= org'.at
    BY <1>5, <1>11, <2>3, <2>4
  <2>6. org'.at <= org'.at
    BY <2>4
  <2> QED
    BY <1>9, <2>1, <2>2, <2>5, <2>6
<1>13. call' = [call EXCEPT ![d] = NoCall]
  BY DEF Put
<1>14. ClientTypes'
  BY <1>12, <1>13, NoCallTyped DEF IInv, ClientTypes
<1>15. AckTypes'
  BY DEF IInv, AckTypes, Put
<1>16. Knows'
  <2> SUFFICES ASSUME NEW e \in Devices, store'[e].at = org'.at PROVE Pending(e)' \subseteq store'[e].pending
    BY DEF Knows
  <2>1. store'[e] # store[e]
    BY <1>1, <1>2, <1>11
  <2>2. e = d /\ store'[e] = t
    BY <1>7, <1>10, <2>1
  <2> QED
    BY <1>9, <2>2
<1> QED
  BY <1>6, <1>14, <1>15, <1>16

\* What is revoked is active, so that it was not requested before, and is not deleted when
\* it signed something.
LEMMA CommitRevokeStep == ASSUME IInv, NEW d \in Devices, CommitRevoke(d) PROVE IInv'
<1> DEFINE T == call[d].targets
           Rows(used) == [h \in Holders |->
                            IF h \notin T THEN row[h]
                            ELSE [row[h] EXCEPT !.status = IF used THEN "deactivated" ELSE "deleted"]]
           Graph(used) == IF used THEN [org EXCEPT !.requests = @ \cup T] ELSE org
<1>1. org \in [at : Nat, root : Devices, requests : SUBSET Devices] /\ T \in SUBSET Devices
  BY DEF IInv, ServerTypes, ClientTypes, CallType
<1>2. PICK used \in BOOLEAN : /\ used \/ T \cap {org.root, row[Envkey].signer} = {}
                              /\ Put(d, Graph(used), Rows(used), replaced)
  BY DEF CommitRevoke
<1>3. \A h \in Holders : row[h] \in RowType
  BY RowTyped DEF IInv
<1>4. /\ Rows(used) \in [Holders -> RowType]
      /\ \A h \in Holders : /\ Rows(used)[h].signer = row[h].signer
                            /\ h \notin T => Rows(used)[h].status = row[h].status
                            /\ h \in T => Rows(used)[h].status = IF used THEN "deactivated" ELSE "deleted"
  BY <1>3 DEF RowType
<1>5. /\ Graph(used) \in [at : Nat, root : Devices, requests : SUBSET Devices]
      /\ Graph(used).requests = IF used THEN org.requests \cup T ELSE org.requests
  BY <1>1
<1>6. row' = Rows(used) /\ org'.requests = Graph(used).requests /\ slipped' = slipped
  BY <1>2, <1>5 DEF Put, CommitRevoke
<1> HIDE DEF Rows, Graph
<1>7. ServerTypes' /\ ClientTypes' /\ AckTypes' /\ Knows'
  <2>1. replaced \in Seq(ReplacementType) /\ Len(replaced) <= Len(replaced)
    BY DEF IInv, ServerTypes
  <2> QED
    BY <1>2, <1>4, <1>5, <2>1, PutStep
<1>8. RequestedStaysOut'
  <2> SUFFICES ASSUME NEW t \in org'.requests, t \notin slipped PROVE row'[t].status = "deactivated"
    BY <1>6 DEF RequestedStaysOut
  <2>1. CASE t \in org.requests
    <3>1. row[t].status = "deactivated" /\ t \in Devices
      BY <1>1, <2>1 DEF IInv, RequestedStaysOut
    <3>2. t \notin T
      BY <3>1 DEF CommitRevoke, Active
    <3> QED
      BY <1>4, <1>6, <3>1, <3>2
  <2>2. CASE used /\ t \in T
    BY <1>1, <1>4, <1>6, <2>2
  <2> QED
    BY <1>5, <1>6, <2>1, <2>2
<1>9. SignerExists'
  <2> SUFFICES ASSUME Envkey \notin slipped PROVE row'[row'[Envkey].signer].status # "deleted"
    BY <1>6 DEF SignerExists
  <2>1. row'[Envkey].signer = row[Envkey].signer /\ row[Envkey].signer \in Devices
    BY <1>3, <1>4, <1>6 DEF RowType
  <2>2. row[row[Envkey].signer].status # "deleted"
    BY DEF IInv, SignerExists
  <2> QED
    BY <1>2, <1>4, <1>6, <2>1, <2>2
<1> QED
  BY <1>7, <1>8, <1>9 DEF IInv

\* What the deleted devices signed is signed by the revoker, which is none of them.
LEMMA CommitReplaceStep == ASSUME IInv, NEW d \in Devices, CommitReplace(d) PROVE IInv'
<1> DEFINE c == call[d]
           deleted == [h \in Holders |-> IF h \in c.targets THEN [row[h] EXCEPT !.status = "deleted"] ELSE row[h]]
           resigned == [deleted EXCEPT ![Envkey].signer = SignerAfter(d, c.targets)]
           replacing == org.root \in c.targets
           rows == IF replacing THEN [resigned EXCEPT ![d].trusted = c.trusted] ELSE resigned
           replacement == [by |-> d, from |-> c.from, owed |-> OwedBy(d, rows)]
           list == IF replacing THEN Append(replaced, replacement) ELSE replaced
           g == [org EXCEPT !.requests = RequestsAfter(c.targets), !.root = IF replacing THEN d ELSE @]
<1>1. /\ org \in [at : Nat, root : Devices, requests : SUBSET Devices]
      /\ c.targets \in SUBSET Devices /\ c.trusted \in SUBSET Devices /\ c.from \in Devices
      /\ d \notin c.targets
  BY DEF IInv, ServerTypes, ClientTypes, CallType, CommitReplace
<1>2. Put(d, g, rows, list) /\ (Envkey \in slipped' \/ row[d].status # "deleted") /\ slipped \subseteq slipped'
  BY DEF CommitReplace
<1>3. \A h \in Holders : row[h] \in RowType
  BY RowTyped DEF IInv
<1>4. SignerAfter(d, c.targets) \in Devices
  BY <1>3 DEF RowType, SignerAfter
<1>5. /\ deleted \in [Holders -> RowType]
      /\ \A h \in Holders : /\ deleted[h].signer = row[h].signer
                            /\ h \notin c.targets => deleted[h].status = row[h].status
  BY <1>3 DEF RowType
<1> HIDE DEF deleted, c
<1>6. /\ resigned \in [Holders -> RowType]
      /\ \A h \in Holders : resigned[h].status = deleted[h].status
      /\ resigned[Envkey].signer = SignerAfter(d, c.targets)
  BY <1>4, <1>5 DEF RowType
<1> HIDE DEF resigned
<1>7. /\ rows \in [Holders -> RowType]
      /\ \A h \in Holders : rows[h].status = resigned[h].status
      /\ rows[Envkey].signer = SignerAfter(d, c.targets)
  BY <1>1, <1>6, EnvkeyAssumption DEF RowType
<1> HIDE DEF rows
<1>8. list \in Seq(ReplacementType) /\ Len(replaced) <= Len(list)
  <2>1. replaced \in Seq(ReplacementType)
    BY DEF IInv, ServerTypes
  <2>2. replacement \in ReplacementType
    BY <1>1 DEF ReplacementType, OwedBy, Live
  <2> HIDE DEF replacement, replacing
  <2> QED
    BY <2>1, <2>2
<1>9. /\ g \in [at : Nat, root : Devices, requests : SUBSET Devices]
      /\ g.requests = org.requests \ c.targets
  BY <1>1 DEF RequestsAfter
<1> HIDE DEF list, g, replacing
<1>10. row' = rows /\ org'.requests = g.requests
  BY <1>2, <1>9 DEF Put
<1>11. ServerTypes' /\ ClientTypes' /\ AckTypes' /\ Knows'
  BY <1>2, <1>7, <1>8, <1>9, PutStep
<1>12. RequestedStaysOut'
  <2> SUFFICES ASSUME NEW t \in org'.requests, t \notin slipped' PROVE row'[t].status = "deactivated"
    BY DEF RequestedStaysOut
  <2>1. t \in org.requests /\ t \notin c.targets /\ t \in Devices
    BY <1>1, <1>9, <1>10
  <2>2. row[t].status = "deactivated"
    BY <1>2, <2>1 DEF IInv, RequestedStaysOut
  <2> QED
    BY <1>5, <1>6, <1>7, <1>10, <2>1, <2>2
<1>13. SignerExists'
  <2> SUFFICES ASSUME Envkey \notin slipped' PROVE row'[row'[Envkey].signer].status # "deleted"
    BY DEF SignerExists
  <2> DEFINE s == SignerAfter(d, c.targets)
  <2>1. s \in Devices /\ s \notin c.targets
    BY <1>1, <1>4 DEF SignerAfter
  <2>2. row[s].status # "deleted"
    BY <1>2 DEF IInv, SignerExists, SignerAfter
  <2> HIDE DEF s
  <2>3. row'[Envkey].signer = s
    BY <1>7, <1>10 DEF s
  <2> QED
    BY <1>5, <1>6, <1>7, <1>10, <2>1, <2>2, <2>3
<1> QED
  BY <1>11, <1>12, <1>13 DEF IInv

LEMMA CommitAcceptStep == ASSUME IInv, NEW d \in Devices, CommitAccept(d) PROVE IInv'
<1> DEFINE rows == [row EXCEPT ![d].status = "active", ![d].trusted = call[d].trusted]
           list == [i \in DOMAIN replaced |-> [replaced[i] EXCEPT !.owed = @ \ {d}]]
<1>1. org \in [at : Nat, root : Devices, requests : SUBSET Devices] /\ call[d].trusted \in SUBSET Devices
  BY DEF IInv, ServerTypes, ClientTypes, CallType
<1>2. /\ Put(d, org, rows, list) /\ slipped \subseteq slipped'
      /\ row[d].status = "invited"
  BY DEF CommitAccept
<1>3. row \in [Holders -> RowType] /\ row[d] \in RowType
  BY RowTyped DEF IInv, ServerTypes
<1>4. /\ rows \in [Holders -> RowType]
      /\ \A h \in Holders : /\ rows[h].signer = row[h].signer
                            /\ h # d => rows[h].status = row[h].status
      /\ rows[d].status = "active"
  BY <1>1, <1>3 DEF RowType
<1>5. list \in Seq(ReplacementType) /\ Len(replaced) <= Len(list)
  <2>1. replaced \in Seq(ReplacementType)
    BY DEF IInv, ServerTypes
  <2>2. \A i \in DOMAIN replaced : list[i] \in ReplacementType
    BY ReplacedElements DEF IInv, ReplacementType
  <2>3. DOMAIN list = DOMAIN replaced /\ list = [i \in DOMAIN list |-> list[i]]
    OBVIOUS
  <2> HIDE DEF list
  <2>4. list \in Seq(ReplacementType)
    BY <2>1, <2>2, <2>3, ListTyped
  <2>5. 1..Len(list) = 1..Len(replaced) /\ Len(list) \in Nat /\ Len(replaced) \in Nat
    BY <2>1, <2>3, <2>4
  <2> QED
    BY <2>4, <2>5
<1> HIDE DEF rows, list
<1>6. row' = rows /\ org'.requests = org.requests
  BY <1>1, <1>2 DEF Put
<1>7. ServerTypes' /\ ClientTypes' /\ AckTypes' /\ Knows'
  BY <1>1, <1>2, <1>4, <1>5, PutStep
<1>8. RequestedStaysOut'
  <2> SUFFICES ASSUME NEW t \in org.requests, t \notin slipped' PROVE row'[t].status = "deactivated"
    BY <1>6 DEF RequestedStaysOut
  <2>1. row[t].status = "deactivated" /\ t \in Devices
    BY <1>1, <1>2 DEF IInv, RequestedStaysOut
  <2> QED
    BY <1>2, <1>4, <1>6, <2>1
<1>9. SignerExists'
  <2>1. Envkey \in slipped' \/ row[row[Envkey].signer].status # "deleted"
    BY <1>2 DEF IInv, SignerExists
  <2>2. row[Envkey].signer \in Devices
    BY RowTyped DEF IInv
  <2> QED
    BY <1>4, <1>6, <2>1, <2>2 DEF SignerExists
<1> QED
  BY <1>7, <1>8, <1>9 DEF IInv

-----------------------------------------------------------------------------
LEMMA NextIInv == IInv /\ [Next]_vars => IInv'
<1> SUFFICES ASSUME IInv, [Next]_vars PROVE IInv'
  OBVIOUS
<1>1. CASE UNCHANGED vars
  BY <1>1 DEF vars, IInv, ServerTypes, ClientTypes, AckTypes, RequestedStaysOut, SignerExists, Knows, Pending
<1>2. ASSUME NEW d \in Devices, GetSession(d) \/ SignIn(d) \/ Process(d) PROVE IInv'
  BY <1>2, GetSessionStep, SignInStep, ProcessStep
<1>3. ASSUME NEW d \in Devices, NEW t \in Devices, SendRevoke(d, t) PROVE IInv'
  BY <1>3, SendRevokeStep
<1>4. ASSUME NEW d \in Devices, PrepareReplace(d) \/ LoadInvite(d) \/ Send(d) \/ GiveUp(d) PROVE IInv'
  BY <1>4, PrepareReplaceStep, LoadInviteStep, SendStep, GiveUpStep
<1>5. ASSUME NEW d \in Devices, CommitRevoke(d) \/ CommitReplace(d) \/ CommitAccept(d) PROVE IInv'
  BY <1>5, CommitRevokeStep, CommitReplaceStep, CommitAcceptStep
<1>6. ASSUME NEW f \in Fetches, Fetch(f) PROVE IInv'
  BY <1>6, FetchStep
<1>7. ASSUME NEW c \in Clients, AckRead(c) \/ AckFail(c) \/ AckWrite(c) PROVE IInv'
  BY <1>7, AckReadStep, AckFailStep, AckWriteStep
<1> QED
  BY <1>1, <1>2, <1>3, <1>4, <1>5, <1>6, <1>7 DEF Next

LEMMA Inductive == Spec => []IInv
BY InitIInv, NextIInv, PTL DEF Spec

\* A device whose revocation is requested (deleteDevice, graph.ts) stays deactivated and in
\* the graph until a device processes the request, whatever is acknowledged, accepted or
\* revoked meanwhile; except that a stale copy of its row may be written back.
THEOREM RequestedStaysOutAlways == Spec => []RequestedStaysOut
<1>1. IInv => RequestedStaysOut
  BY DEF IInv
<1> QED
  BY Inductive, <1>1, PTL

\* The device that signed the ENVKEY's key exists: one that signed it is only ever
\* deactivated, and deleted once REVOKE_TRUSTED_PUBKEYS has had its key signed again; except
\* for a stale copy written back, and a signer deleted before its signature committed.
THEOREM SignerExistsAlways == Spec => []SignerExists
<1>1. IInv => SignerExists
  BY DEF IInv
<1> QED
  BY Inductive, <1>1, PTL

\* A device on the current version knows each replacement for which getActionRes would
\* refuse its actions, unless another's acknowledgement undid its own.
THEOREM OwesWhatItKnowsAlways == Spec => []OwesWhatItKnows
<1>1. IInv => OwesWhatItKnows
  BY DEF IInv, Knows, OwesWhatItKnows
<1> QED
  BY Inductive, <1>1, PTL

-----------------------------------------------------------------------------
(* What holds of the chain of roots, and of the place in it that each holder is at.   *)

N == Len(replaced)
RootAt(k) == IF k = 0 THEN Creator ELSE replaced[k].by

\* The roots are all different, and a replacement's chain ends at the root before it or is
\* empty.  What is no root any more is deleted, and its revocation no longer requested.
Chain ==
  /\ org.root = RootAt(N)
  /\ \A i \in 1 .. N : replaced[i].from \in {RootAt(i - 1), replaced[i].by}
  /\ \A i, j \in 0 .. N : i < j => RootAt(i) # RootAt(j)
  /\ row[org.root].status # "deleted"
  /\ \A i \in 0 .. N : i < N => row[RootAt(i)].status = "deleted" /\ RootAt(i) \notin org.requests

\* A root that a client knows was one; a chain that it offers ends at its own key or at a
\* root whose revocation it processes.
KnownRoot(r) == \E j \in 0 .. N : r = RootAt(j)
Offer(k, d) ==
  k.kind = "replace" /\ k.trusted # {} =>
    d \in k.trusted /\ (k.from = d \/ (k.from \in k.targets /\ KnownRoot(k.from)))
Offers == \A d \in Devices : KnownRoot(store[d].root) /\ Offer(call[d], d)

\* Nobody owes a replacement that it did not owe when the acknowledgement of another read it.
KeepsOwed(c) ==
  ack[c].pc = "read" =>
    \A i \in ack[c].ids : i \in 1 .. N /\ replaced[i].owed \ reasked \subseteq ack[c].owed[i]
OwedKept == \A c \in Clients : KeepsOwed(c)

\* Of those CanFollow speaks of, it says more: holder h trusts root k, and owes all after it.
Good(h) == h \in Live(row) \ (slipped \cup reasked)

\* A client knows of what h owes, from where h is or was.
StoreTracks(d, k) == \E lo \in 0 .. k, hi \in 0 .. N : store[d].pending = (lo + 1) .. hi

\* An acknowledgement covers what h owes or owed up to root hi, which it trusts.  What was
\* read is what h owes, unless the ENVKEY's row was written by another process since.
AckTracks(c, h, k) ==
  ack[c].pc # "none" =>
    \E lo \in 0 .. k, hi \in 1 .. N :
      /\ lo < hi /\ ack[c].ids = (lo + 1) .. hi
      /\ RootAt(hi) \in ack[c].trusted
      /\ h = Envkey => ack[c].trusted = {RootAt(hi)}
      /\ h # Envkey => \A i \in store[c].pending : i > lo
      /\ ack[c].pc = "read" =>
           /\ Active(h)
           /\ h # Envkey \/ row[h].trusted = ack[c].row.trusted => lo = k
           /\ h = Envkey => \E j \in 0 .. k : ack[c].row.trusted = {RootAt(j)}

Tracks(h, k) ==
  /\ k \in 0 .. N /\ Pending(h) = (k + 1) .. N
  /\ RootAt(k) \in row[h].trusted
  /\ h = Envkey => row[h].trusted = {RootAt(k)}
  /\ h # Envkey => StoreTracks(h, k)
  /\ \A c \in Clients : Holder(c) = h => AckTracks(c, h, k)

Following == \A h \in Holders : Good(h) => \E k \in 0 .. N : Tracks(h, k)

\* An acceptance signs a trusted root that has the present root, if the graph it was computed
\* from is the present one.
Accepts(d) ==
  Good(d) /\ row[d].status = "invited" /\ call[d].kind = "accept" =>
    /\ call[d].at <= org.at
    /\ call[d].pc = "prepared" /\ store[d].at = org.at => org.root \in call[d].trusted
    /\ call[d].pc = "sent" /\ call[d].at = org.at => org.root \in call[d].trusted
Accepting == \A d \in Devices : Accepts(d)

FInv == IInv /\ Chain /\ Offers /\ OwedKept /\ Following /\ Accepting

-----------------------------------------------------------------------------
LEMMA RootsTyped ==
  ASSUME ServerTypes
  PROVE  N \in Nat /\ DOMAIN replaced = 1 .. N /\ \A k \in 0 .. N : RootAt(k) \in Devices
<1>1. N \in Nat /\ DOMAIN replaced = 1 .. N
  BY DEF ServerTypes, N
<1> QED
  BY <1>1, ReplacedElements, CreatorAssumption DEF RootAt

\* What is true of one acknowledgement stays true when others do something.
LEMMA AckTracksKept ==
  ASSUME NEW c, NEW h, NEW k, AckTracks(c, h, k), ack'[c] = ack[c],
         N \in Nat, N' \in Nat, N <= N', k \in 0 .. N,
         \A j \in 0 .. N : RootAt(j)' = RootAt(j),
         h # Envkey => \/ store'[c].pending \subseteq store[c].pending
                       \/ \A i \in store'[c].pending : i > k /\ i \in Nat,
         Active(h) => Active(h)', row'[h].trusted = row[h].trusted
  PROVE  AckTracks(c, h, k)'
<1> SUFFICES ASSUME ack[c].pc # "none" PROVE AckTracks(c, h, k)'
  BY DEF AckTracks
<1>1. PICK lo \in 0 .. k, hi \in 1 .. N :
      /\ lo < hi /\ ack[c].ids = (lo + 1) .. hi
      /\ RootAt(hi) \in ack[c].trusted
      /\ h = Envkey => ack[c].trusted = {RootAt(hi)}
      /\ h # Envkey => \A i \in store[c].pending : i > lo
      /\ ack[c].pc = "read" =>
           /\ Active(h)
           /\ h # Envkey \/ row[h].trusted = ack[c].row.trusted => lo = k
           /\ h = Envkey => \E j \in 0 .. k : ack[c].row.trusted = {RootAt(j)}
  BY DEF AckTracks
<1>2. hi \in 1 .. N' /\ hi \in 0 .. N /\ RootAt(hi)' = RootAt(hi)
  OBVIOUS
<1>3. h # Envkey => \A i \in store'[c].pending : i > lo
  BY <1>1
<1>4. h = Envkey /\ ack[c].pc = "read" => \E j \in 0 .. k : ack'[c].row.trusted = {RootAt(j)'}
  <2> SUFFICES ASSUME h = Envkey, ack[c].pc = "read"
               PROVE  \E j \in 0 .. k : ack'[c].row.trusted = {RootAt(j)'}
    OBVIOUS
  <2>1. PICK j \in 0 .. k : ack[c].row.trusted = {RootAt(j)}
    BY <1>1
  <2>2. RootAt(j)' = RootAt(j)
    OBVIOUS
  <2> QED
    BY <2>1, <2>2
<1> QED
  BY <1>1, <1>2, <1>3, <1>4 DEF AckTracks

LEMMA StoreTracksKept ==
  ASSUME NEW d, NEW k, N \in Nat, N' \in Nat, N <= N', k \in 0 .. N,
         \/ StoreTracks(d, k) /\ store'[d].pending = store[d].pending
         \/ store'[d].pending = (k + 1) .. N'
  PROVE  StoreTracks(d, k)'
BY DEF StoreTracks

-----------------------------------------------------------------------------
(* Steps that leave the server alone. *)

\* Such a step makes or changes an acknowledgement in a way that follows, or none.
LEMMA ClientFollows ==
  ASSUME FInv, UNCHANGED <<org, row, replaced, slipped, reasked>>,
         \A d \in Devices : store'[d].pending \in {store[d].pending, Pending(d)},
         \A c \in Clients, k \in 0 .. N :
           \/ ack'[c] = ack[c]
           \/ Good(Holder(c)) /\ Tracks(Holder(c), k) => AckTracks(c, Holder(c), k)'
  PROVE  Chain' /\ Following'
<1>1. ServerTypes /\ N \in Nat /\ DOMAIN replaced = 1 .. N
  BY RootsTyped DEF FInv, IInv
<1>2. /\ N' = N /\ \A j : RootAt(j)' = RootAt(j)
      /\ \A h : Pending(h)' = Pending(h) /\ (Good(h)' <=> Good(h)) /\ (Active(h)' <=> Active(h))
  BY DEF N, RootAt, Pending, Good, Active
<1>3. Chain'
  BY <1>2 DEF FInv, Chain
<1>4. ASSUME NEW h \in Holders, Good(h) PROVE \E k \in 0 .. N : Tracks(h, k)'
  <2>1. PICK k \in 0 .. N : Tracks(h, k)
    BY <1>4 DEF FInv, Following
  <2>2. Pending(h) = (k + 1) .. N
    BY <2>1 DEF Tracks
  <2>3. h # Envkey => StoreTracks(h, k)'
    BY <1>1, <1>2, <2>1, <2>2, StoreTracksKept DEF Tracks
  <2>4. ASSUME NEW c \in Clients, Holder(c) = h PROVE AckTracks(c, h, k)'
    <3>1. CASE ack'[c] = ack[c]
      <4>1. h # Envkey => c \in Devices /\ h = c
        BY <2>4 DEF Holder
      <4>2. h # Envkey => \/ store'[c].pending \subseteq store[c].pending
                          \/ \A i \in store'[c].pending : i > k /\ i \in Nat
        BY <1>1, <2>2, <4>1
      <4>3. AckTracks(c, h, k)
        BY <2>1, <2>4 DEF Tracks
      <4> QED
        BY <1>1, <1>2, <3>1, <4>2, <4>3, AckTracksKept
    <3>2. CASE ack'[c] # ack[c]
      BY <1>4, <2>1, <2>4, <3>2
    <3> QED
      BY <3>1, <3>2
  <2>5. Tracks(h, k)'
    BY <1>2, <2>1, <2>3, <2>4 DEF Tracks
  <2> QED
    BY <2>5
<1>5. Following'
  BY <1>2, <1>4 DEF Following
<1> QED
  BY <1>3, <1>5

LEMMA ClientFacts ==
  ASSUME FInv,
         UNCHANGED <<org, row, replaced, slipped, reasked>>,
         \A d \in Devices : store'[d].pending \in {store[d].pending, Pending(d)},
         \A c \in Clients, k \in 0 .. N :
           \/ ack'[c] = ack[c]
           \/ Good(Holder(c)) /\ Tracks(Holder(c), k) => AckTracks(c, Holder(c), k)',
         \A d \in Devices : KnownRoot(store'[d].root) /\ Offer(call'[d], d),
         \A c \in Clients : ack'[c] = ack[c] \/ KeepsOwed(c)',
         \A d \in Devices : (store'[d].at = store[d].at /\ call'[d] = call[d]) \/ Accepts(d)'
  PROVE  Chain' /\ Offers' /\ OwedKept' /\ Following' /\ Accepting'
<1>1. /\ N' = N /\ (\A j : RootAt(j)' = RootAt(j)) /\ (\A r : KnownRoot(r)' <=> KnownRoot(r))
      /\ \A h : Good(h)' <=> Good(h)
  BY DEF N, RootAt, KnownRoot, Good
<1>2. Offers'
  BY <1>1 DEF Offers, Offer
<1>3. OwedKept'
  BY <1>1 DEF FInv, OwedKept, KeepsOwed
<1>4. Accepting'
  BY <1>1 DEF FInv, Accepting, Accepts
<1> QED
  BY <1>2, <1>3, <1>4, ClientFollows

\* The server's root, and those that clients know.
LEMMA FInvFacts ==
  ASSUME FInv
  PROVE  /\ ServerTypes /\ ClientTypes /\ AckTypes /\ N \in Nat /\ DOMAIN replaced = 1 .. N
         /\ KnownRoot(org.root) /\ org.at \in Nat
         /\ \A d \in Devices : KnownRoot(store[d].root) /\ Offer(call[d], d)
         /\ store \in [Devices -> StoreType] /\ call \in [Devices -> CallType] /\ ack \in [Clients -> AckType]
<1>1. ServerTypes /\ ClientTypes /\ AckTypes
  BY DEF FInv, IInv
<1>2. N \in Nat /\ DOMAIN replaced = 1 .. N
  BY <1>1, RootsTyped
<1>3. org.root = RootAt(N)
  BY DEF FInv, Chain
<1>4. KnownRoot(org.root)
  BY <1>2, <1>3 DEF KnownRoot
<1> QED
  BY <1>1, <1>2, <1>4 DEF FInv, Offers, ServerTypes, ClientTypes, AckTypes

LEMMA GetSessionFollows == ASSUME FInv, NEW d \in Devices, GetSession(d) PROVE FInv'
<1> USE FInvFacts
<1> DEFINE s == Seen(store[d], org, replaced, d)
<1>1. s.pending = Pending(d) /\ s.root = org.root
  BY SeenTyped DEF Seen, StoreType
<1>2. \A e \in Devices : store'[e] = IF e = d THEN s ELSE store[e]
  BY DEF GetSession
<1>3. UNCHANGED <<org, row, replaced, call, ack, slipped, reasked>>
  BY DEF GetSession
<1>4. Accepts(d)'
  BY <1>3 DEF GetSession, Active, Accepts
<1> HIDE DEF s
<1>5. \A e \in Devices : /\ store'[e].pending \in {store[e].pending, Pending(e)} /\ KnownRoot(store'[e].root)
                         /\ (store'[e].at = store[e].at /\ call'[e] = call[e]) \/ Accepts(e)'
  BY <1>1, <1>2, <1>3, <1>4
<1>6. Chain' /\ Offers' /\ OwedKept' /\ Following' /\ Accepting'
  BY <1>3, <1>5, ClientFacts
<1> QED
  BY <1>6, GetSessionStep DEF FInv

LEMMA SignInFollows == ASSUME FInv, NEW d \in Devices, SignIn(d) PROVE FInv'
<1> USE FInvFacts
<1> DEFINE s == Seen([store[d] EXCEPT !.trusted = row[d].trusted], org, replaced, d)
<1>1. s.pending = Pending(d) /\ s.root = org.root
  BY DEF Seen, StoreType, Pending
<1>2. \A e \in Devices : store'[e] = IF e = d THEN s ELSE store[e]
  BY DEF SignIn
<1>3. UNCHANGED <<org, row, replaced, call, ack, slipped, reasked>>
  BY DEF SignIn
<1>4. Accepts(d)'
  BY <1>3 DEF SignIn, Active, Accepts
<1> HIDE DEF s
<1>5. \A e \in Devices : /\ store'[e].pending \in {store[e].pending, Pending(e)} /\ KnownRoot(store'[e].root)
                         /\ (store'[e].at = store[e].at /\ call'[e] = call[e]) \/ Accepts(e)'
  BY <1>1, <1>2, <1>3, <1>4
<1>6. Chain' /\ Offers' /\ OwedKept' /\ Following' /\ Accepting'
  BY <1>3, <1>5, ClientFacts
<1> QED
  BY <1>6, SignInStep DEF FInv

\* What a client posts ends at the last replacement that it knows of.
LEMMA ProcessFollows == ASSUME FInv, NEW d \in Devices, Process(d) PROVE FInv'
<1> USE FInvFacts
<1>1. UNCHANGED <<org, row, replaced, call, slipped, reasked>>
  BY DEF Process
<1>2. \A e \in Devices : /\ store'[e].pending = store[e].pending /\ store'[e].root = store[e].root
                         /\ store'[e].at = store[e].at
  BY DEF Process, StoreType
<1>3. \A c \in Clients : ack'[c] = ack[c] \/ KeepsOwed(c)'
  BY DEF Process, NoAck, KeepsOwed
<1>4. ASSUME NEW c \in Clients, NEW k \in 0 .. N, ack'[c] # ack[c], Tracks(Holder(c), k)
      PROVE  AckTracks(c, Holder(c), k)'
  <2> DEFINE ids == store[d].pending
             T == Learnt(store[d].trusted, ids)
  <2>1. /\ c = d /\ Accepted(store[d].trusted, ids) = ids /\ ids # {}
        /\ ack'[c] = [NoAck EXCEPT !.pc = "posted", !.ids = ids, !.trusted = T]
    BY <1>4 DEF Process
  <2>2. ack'[c].pc = "posted" /\ ack'[c].ids = ids /\ ack'[c].trusted = T
    BY <2>1 DEF NoAck
  <2>3. Holder(c) = d /\ d # Envkey
    BY <2>1, EnvkeyAssumption DEF Holder
  <2>4. PICK lo \in 0 .. k, hi \in 0 .. N : ids = (lo + 1) .. hi
    BY <1>4, <2>3 DEF Tracks, StoreTracks
  <2>5. lo < hi /\ hi \in ids /\ hi \in 1 .. N /\ hi # 0
    BY <2>1, <2>4
  <2>6. RootAt(hi)' \in T
    BY <1>1, <2>1, <2>5 DEF RootAt, Learnt, Newcomers
  <2>7. N' = N
    BY <1>1 DEF N
  <2>8. \A i \in store'[c].pending : i > lo
    BY <1>2, <2>1, <2>4
  <2> HIDE DEF ids, T
  <2> QED
    BY <2>2, <2>3, <2>4, <2>5, <2>6, <2>7, <2>8 DEF AckTracks
<1>5. Chain' /\ Offers' /\ OwedKept' /\ Following' /\ Accepting'
  BY <1>1, <1>2, <1>3, <1>4, ClientFacts
<1> QED
  BY <1>5, ProcessStep DEF FInv

\* What a fetch posts is the present root.
LEMMA FetchFollows == ASSUME FInv, NEW f \in Fetches, Fetch(f) PROVE FInv'
<1> USE FInvFacts
<1>1. UNCHANGED <<org, row, replaced, store, call, slipped, reasked>>
  BY DEF Fetch
<1>2. \A c \in Clients : ack'[c] = ack[c] \/ KeepsOwed(c)'
  BY DEF Fetch, NoAck, KeepsOwed
<1>3. ASSUME NEW c \in Clients, NEW k \in 0 .. N, ack'[c] # ack[c], Tracks(Holder(c), k)
      PROVE  AckTracks(c, Holder(c), k)'
  <2> DEFINE ids == Pending(Envkey)
             T == FetchTrust(row[Envkey].trusted, ids)
  <2>1. /\ c = f /\ ids # {}
        /\ ack'[c] = [NoAck EXCEPT !.pc = "posted", !.ids = ids, !.trusted = T]
    BY <1>3 DEF Fetch
  <2>2. ack'[c].pc = "posted" /\ ack'[c].ids = ids /\ ack'[c].trusted = T
    BY <2>1 DEF NoAck
  <2>3. Holder(c) = Envkey
    BY <2>1, EnvkeyAssumption DEF Holder
  <2>4. ids = (k + 1) .. N
    BY <1>3, <2>3 DEF Tracks
  <2>5. k < N /\ N \in ids /\ N \in 1 .. N /\ N # 0
    BY <2>1, <2>4
  <2>6. Latest(ids) = {N}
    BY <2>4, <2>5 DEF Latest
  <2>7. T = {RootAt(N)}
    BY <2>1, <2>5, <2>6 DEF FetchTrust, Newcomers, RootAt
  <2>8. N' = N /\ RootAt(N)' = RootAt(N)
    BY <1>1 DEF N, RootAt
  <2> HIDE DEF ids, T
  <2> QED
    BY <2>2, <2>3, <2>4, <2>5, <2>7, <2>8 DEF AckTracks
<1>4. Chain' /\ Offers' /\ OwedKept' /\ Following' /\ Accepting'
  BY <1>1, <1>2, <1>3, ClientFacts
<1> QED
  BY <1>4, FetchStep DEF FInv

\* Of what the server reads all is owed, so that it begins where the holder is.
LEMMA AckReadFollows == ASSUME FInv, NEW c \in Clients, AckRead(c) PROVE FInv'
<1> USE FInvFacts
<1> DEFINE h == Holder(c)
<1>1. UNCHANGED <<org, row, replaced, store, call, slipped, reasked>>
  BY DEF AckRead
<1>2. /\ ack[c].pc = "posted" /\ Active(h) /\ ack[c].ids \subseteq Pending(h)
      /\ ack'[c] = [ack[c] EXCEPT !.pc = "read", !.row = row[h],
                                  !.owed = [i \in ack[c].ids |-> replaced[i].owed]]
      /\ \A e \in Clients : e # c => ack'[e] = ack[e]
  BY DEF AckRead
<1>3. /\ ack'[c].pc = "read" /\ ack'[c].row = row[h] /\ ack'[c].ids = ack[c].ids
      /\ ack'[c].trusted = ack[c].trusted /\ ack'[c].owed = [i \in ack[c].ids |-> replaced[i].owed]
  BY <1>2 DEF AckType
<1>4. KeepsOwed(c)'
  <2>1. \A i \in ack[c].ids : i \in 1 .. N
    BY <1>2, PendingTyped
  <2>2. N' = N
    BY <1>1 DEF N
  <2> QED
    BY <1>1, <1>3, <2>1, <2>2 DEF KeepsOwed
<1>5. ASSUME NEW k \in 0 .. N, Tracks(h, k) PROVE AckTracks(c, h, k)'
  <2>1. PICK lo \in 0 .. k, hi \in 1 .. N :
        /\ lo < hi /\ ack[c].ids = (lo + 1) .. hi
        /\ RootAt(hi) \in ack[c].trusted
        /\ h = Envkey => ack[c].trusted = {RootAt(hi)}
        /\ h # Envkey => \A i \in store[c].pending : i > lo
    BY <1>2, <1>5 DEF Tracks, AckTracks
  <2>2. lo + 1 \in ack[c].ids
    BY <2>1
  <2>3. Pending(h) = (k + 1) .. N
    BY <1>5 DEF Tracks
  <2>4. lo = k
    BY <1>2, <2>2, <2>3
  <2>5. h = Envkey => row[h].trusted = {RootAt(k)}
    BY <1>5 DEF Tracks
  <2>6. N' = N /\ RootAt(hi)' = RootAt(hi) /\ RootAt(k)' = RootAt(k) /\ Active(h)'
    BY <1>1, <1>2 DEF N, RootAt, Active
  <2> HIDE DEF h
  <2> QED
    BY <1>1, <1>3, <2>1, <2>4, <2>5, <2>6 DEF AckTracks
<1>6. Chain' /\ Offers' /\ OwedKept' /\ Following' /\ Accepting'
  BY <1>1, <1>2, <1>4, <1>5, ClientFacts
<1> QED
  BY <1>6, AckReadStep DEF FInv

LEMMA AckFailFollows == ASSUME FInv, NEW c \in Clients, AckFail(c) PROVE FInv'
<1> USE FInvFacts
<1>1. UNCHANGED <<org, row, replaced, store, call, slipped, reasked>>
  BY DEF AckFail
<1>2. \A e \in Clients : ack'[e] = ack[e] \/ ack'[e].pc = "none"
  BY NoAckTyped DEF AckFail
<1>3. \A e \in Clients, k \in 0 .. N : ack'[e] = ack[e] \/ (AckTracks(e, Holder(e), k)' /\ KeepsOwed(e)')
  BY <1>2 DEF AckTracks, KeepsOwed
<1>4. N \in Nat /\ 0 \in 0 .. N
  OBVIOUS
<1>5. Chain' /\ Offers' /\ OwedKept' /\ Following' /\ Accepting'
  BY <1>1, <1>3, <1>4, ClientFacts
<1> QED
  BY <1>5, AckFailStep DEF FInv

LEMMA SendRevokeFollows ==
  ASSUME FInv, NEW d \in Devices, NEW t \in Devices, SendRevoke(d, t) PROVE FInv'
<1> USE FInvFacts
<1>1. UNCHANGED <<org, row, replaced, store, ack, slipped, reasked>>
  BY DEF SendRevoke
<1>2. Active(d) /\ call'[d].kind = "revoke" /\ \A e \in Devices : e # d => call'[e] = call[e]
  BY DEF SendRevoke, NoCall
<1>3. Accepts(d)'
  BY <1>1, <1>2 DEF Active, Accepts
<1>4. Chain' /\ Offers' /\ OwedKept' /\ Following' /\ Accepting'
  BY <1>1, <1>2, <1>3, ClientFacts DEF Offer
<1> QED
  BY <1>4, SendRevokeStep DEF FInv

\* The chain that a client offers ends at the root that it knows of, or is empty.
LEMMA PrepareReplaceFollows == ASSUME FInv, NEW d \in Devices, PrepareReplace(d) PROVE FInv'
<1> USE FInvFacts
<1> DEFINE s == store[d]
<1>1. UNCHANGED <<org, row, replaced, ack, slipped, reasked>>
  BY DEF PrepareReplace
<1>2. /\ \A e \in Devices : /\ store'[e].pending = store[e].pending /\ store'[e].root = store[e].root
                            /\ store'[e].at = store[e].at
      /\ store'[d].trusted = IF s.root \in s.requests THEN s.trusted \cup {d} ELSE s.trusted
      /\ Active(d) /\ \A e \in Devices : e # d => call'[e] = call[e]
  BY DEF PrepareReplace, StoreType
<1>3. /\ call'[d].kind = "replace" /\ call'[d].targets = s.requests /\ call'[d].from = ChainEnd(d)
      /\ call'[d].trusted = IF s.root \in s.requests THEN store'[d].trusted ELSE {}
  BY DEF PrepareReplace, NoCall
<1>4. Offer(call'[d], d)
  BY <1>2, <1>3 DEF Offer, ChainEnd
<1>5. Accepts(d)'
  BY <1>1, <1>2 DEF Active, Accepts
<1>6. Chain' /\ Offers' /\ OwedKept' /\ Following' /\ Accepting'
  BY <1>1, <1>2, <1>4, <1>5, ClientFacts
<1> QED
  BY <1>6, PrepareReplaceStep DEF FInv

\* Whoever verifies all that its invite owes trusts the present root.
LEMMA LoadInviteFollows == ASSUME FInv, NEW d \in Devices, LoadInvite(d) PROVE FInv'
<1> USE FInvFacts
<1> DEFINE ids == Pending(d)
           T == Learnt(row[d].trusted, ids)
           s == Seen([store[d] EXCEPT !.trusted = T], org, replaced, d)
<1>1. UNCHANGED <<org, row, replaced, ack, slipped, reasked>> /\ row[d].status = "invited"
  BY DEF LoadInvite
<1>2. s.pending = Pending(d) /\ s.root = org.root /\ s.at = org.at
  BY DEF Seen, StoreType, Pending
<1>3. /\ \A e \in Devices : store'[e] = IF e = d THEN s ELSE store[e]
      /\ \A e \in Devices : e # d => call'[e] = call[e]
      /\ call'[d] = [NoCall EXCEPT !.pc = "prepared", !.kind = "accept", !.trusted = T]
      /\ Accepted(row[d].trusted, ids) = ids
  BY DEF LoadInvite
<1>4. call'[d].kind = "accept" /\ call'[d].pc = "prepared" /\ call'[d].at = 0 /\ call'[d].trusted = T
  BY <1>3 DEF NoCall
<1>5. ASSUME Good(d) PROVE org.root \in T
  <2>1. PICK k \in 0 .. N : Tracks(d, k)
    BY <1>5 DEF FInv, Following
  <2>2. ids = (k + 1) .. N /\ RootAt(k) \in row[d].trusted
    BY <2>1 DEF Tracks
  <2>3. org.root = RootAt(N)
    BY DEF FInv, Chain
  <2>4. CASE k = N
    BY <2>2, <2>3, <2>4 DEF Learnt
  <2>5. CASE k # N
    <3>1. N \in ids /\ N # 0
      BY <2>2, <2>5
    <3> QED
      BY <1>3, <2>3, <3>1 DEF Learnt, Newcomers, RootAt
  <2> QED
    BY <2>4, <2>5
<1>6. Accepts(d)'
  BY <1>1, <1>4, <1>5 DEF Accepts, Good
<1>7. Offer(call'[d], d)
  BY <1>4 DEF Offer
<1> HIDE DEF s, T, ids
<1>8. \A e \in Devices : /\ store'[e].pending \in {store[e].pending, Pending(e)} /\ KnownRoot(store'[e].root)
                         /\ (store'[e].at = store[e].at /\ call'[e] = call[e]) \/ Accepts(e)'
                         /\ Offer(call'[e], e)
  BY <1>2, <1>3, <1>6, <1>7
<1>9. Chain' /\ Offers' /\ OwedKept' /\ Following' /\ Accepting'
  BY <1>1, <1>8, ClientFacts
<1> QED
  BY <1>9, LoadInviteStep DEF FInv

LEMMA SendFollows == ASSUME FInv, NEW d \in Devices, Send(d) PROVE FInv'
<1> USE FInvFacts
<1>1. UNCHANGED <<org, row, replaced, store, ack, slipped, reasked>>
  BY DEF Send
<1>2. /\ \A e \in Devices : e # d => call'[e] = call[e]
      /\ call[d].pc = "prepared" /\ store[d].at = org.at
      /\ call'[d] = [call[d] EXCEPT !.pc = "sent", !.at = org.at]
  BY DEF Send
<1>3. /\ call'[d].pc = "sent" /\ call'[d].at = org.at /\ call'[d].kind = call[d].kind
      /\ call'[d].trusted = call[d].trusted /\ call'[d].from = call[d].from
      /\ call'[d].targets = call[d].targets
  BY <1>2 DEF CallType
<1>4. Accepts(d)'
  BY <1>1, <1>2, <1>3 DEF FInv, Accepting, Accepts, Good
<1>5. Offer(call'[d], d)
  BY <1>3 DEF Offer
<1>6. Chain' /\ Offers' /\ OwedKept' /\ Following' /\ Accepting'
  BY <1>1, <1>2, <1>4, <1>5, ClientFacts
<1> QED
  BY <1>6, SendStep DEF FInv

LEMMA GiveUpFollows == ASSUME FInv, NEW d \in Devices, GiveUp(d) PROVE FInv'
<1> USE FInvFacts
<1>1. UNCHANGED <<org, row, replaced, store, ack, slipped, reasked>>
  BY DEF GiveUp
<1>2. \A e \in Devices : call'[e] = call[e] \/ call'[e].kind = "none"
  BY NoCallTyped DEF GiveUp
<1>3. \A e \in Devices : Offer(call'[e], e) /\ (call'[e] = call[e] \/ Accepts(e)')
  BY <1>2 DEF Offer, Accepts
<1>4. Chain' /\ Offers' /\ OwedKept' /\ Following' /\ Accepting'
  BY <1>1, <1>3, ClientFacts
<1> QED
  BY <1>4, GiveUpStep DEF FInv

-----------------------------------------------------------------------------
(* An acknowledgement commits. *)

LEMMA AckWriteFacts ==
  ASSUME FInv, NEW c \in Clients, AckWrite(c)
  PROVE  LET h == Holder(c)
             a == ack[c] IN
         /\ a.pc = "read" /\ h \in Holders /\ a.ids \subseteq 1 .. N
         /\ N' = N /\ (\A j \in 0 .. N : RootAt(j)' = RootAt(j)) /\ \A r : KnownRoot(r)' <=> KnownRoot(r)
         /\ \A i \in 1 .. N : /\ replaced'[i].by = replaced[i].by /\ replaced'[i].from = replaced[i].from
                              /\ replaced'[i].owed = IF i \in a.ids THEN a.owed[i] \ {h} ELSE replaced[i].owed
         /\ \A g \in Holders : g # h => row'[g] = row[g]
         /\ row'[h].trusted = a.trusted
         /\ row'[h].status = IF row[h].status = "deleted" THEN "deleted" ELSE "active"
         /\ h \notin slipped' => row[h] = a.row /\ row[h].status = "active"
         /\ \A i \in a.ids : replaced'[i].owed \subseteq replaced[i].owed \cup reasked'
         /\ slipped \subseteq slipped' /\ reasked \subseteq reasked'
         /\ UNCHANGED <<org, call>>
         /\ ack'[c].pc = "none" /\ \A e \in Clients : e # c => ack'[e] = ack[e]
<1> USE FInvFacts
<1> DEFINE h == Holder(c)
           a == ack[c]
<1>1. a.pc = "read" /\ h \in Holders
  BY DEF AckWrite, Holder
<1>2. a.row \in RowType /\ a.row.status = "active" /\ a.owed \in [a.ids -> SUBSET Holders]
  BY <1>1 DEF AckTypes
<1>3. a.ids \subseteq 1 .. N
  BY <1>1 DEF FInv, OwedKept, KeepsOwed
<1>4. replaced' = [i \in 1 .. N |-> IF i \in a.ids THEN [replaced[i] EXCEPT !.owed = a.owed[i] \ {h}] ELSE replaced[i]]
  BY DEF AckWrite
<1>5. \A i \in 1 .. N : replaced[i] \in ReplacementType
  BY ReplacedElements
<1>6. \A i \in 1 .. N : /\ replaced'[i].by = replaced[i].by /\ replaced'[i].from = replaced[i].from
                        /\ replaced'[i].owed = IF i \in a.ids THEN a.owed[i] \ {h} ELSE replaced[i].owed
  BY <1>4, <1>5 DEF ReplacementType
<1>7. N' = N
  BY <1>4 DEF N
<1>8. ASSUME NEW j \in 0 .. N PROVE RootAt(j)' = RootAt(j)
  <2>1. j = 0 \/ j \in 1 .. N
    OBVIOUS
  <2> QED
    BY <1>6, <2>1 DEF RootAt
<1>9. \A r : KnownRoot(r)' <=> KnownRoot(r)
  BY <1>7, <1>8 DEF KnownRoot
<1>10. row' = [row EXCEPT ![h] = [a.row EXCEPT !.trusted = a.trusted,
                                    !.status = IF row[h].status = "deleted" THEN "deleted" ELSE @]]
  BY DEF AckWrite
<1>11. row \in [Holders -> RowType]
  BY DEF ServerTypes
<1>12. \A g \in Holders : g # h => row'[g] = row[g]
  BY <1>10, <1>11
<1>13. /\ row'[h].trusted = a.trusted
       /\ row'[h].status = IF row[h].status = "deleted" THEN "deleted" ELSE "active"
  BY <1>1, <1>2, <1>10, <1>11 DEF RowType
<1>14. h \notin slipped' => row[h] = a.row /\ row[h].status = "active"
  BY <1>2 DEF AckWrite
<1>15. \A i \in a.ids : replaced'[i].owed \subseteq replaced[i].owed \cup reasked'
  <2>1. reasked' = reasked \cup UNION {a.owed[i] \ (replaced[i].owed \cup {h}) : i \in a.ids}
    BY DEF AckWrite
  <2>2. \A i \in a.ids : a.owed[i] \ (replaced[i].owed \cup {h}) \subseteq reasked'
    BY <2>1
  <2>3. \A i \in a.ids : replaced'[i].owed = a.owed[i] \ {h}
    BY <1>3, <1>6
  <2> QED
    BY <2>2, <2>3
<1>16. slipped \subseteq slipped' /\ reasked \subseteq reasked' /\ UNCHANGED <<org, call>>
  BY DEF AckWrite
<1>17. ack'[c].pc = "none" /\ \A e \in Clients : e # c => ack'[e] = ack[e]
  BY NoAckTyped DEF AckWrite
<1> QED
  BY <1>1, <1>3, <1>6, <1>7, <1>8, <1>9, <1>12, <1>13, <1>14, <1>15, <1>16, <1>17

\* The holder itself goes on from the last root that it acknowledged.
LEMMA AckWriteOwn ==
  ASSUME FInv, NEW c \in Clients, AckWrite(c), Good(Holder(c))'
  PROVE  \E k \in 0 .. N : Tracks(Holder(c), k)'
<1> USE FInvFacts
<1> DEFINE h == Holder(c)
           a == ack[c]
<1>1. h \in Holders /\ a.pc = "read" /\ h \notin slipped' /\ h \notin slipped /\ h \notin reasked
  BY AckWriteFacts DEF Good
<1>2. row[h] = a.row /\ row[h].status = "active"
  BY <1>1, AckWriteFacts
<1>3. Good(h)
  BY <1>1, <1>2 DEF Good, Live
<1>4. PICK k \in 0 .. N : Tracks(h, k)
  BY <1>1, <1>3 DEF FInv, Following
<1>5. AckTracks(c, h, k)
  BY <1>4 DEF Tracks
<1>6. PICK hi \in 1 .. N :
      /\ k < hi /\ a.ids = (k + 1) .. hi /\ RootAt(hi) \in a.trusted
      /\ h = Envkey => a.trusted = {RootAt(hi)}
      /\ h # Envkey => \A i \in store[c].pending : i > k
  BY <1>1, <1>2, <1>5 DEF AckTracks
<1>7. Pending(h) = (k + 1) .. N
  BY <1>4 DEF Tracks
<1>8. N' = N /\ hi \in 0 .. N /\ RootAt(hi)' = RootAt(hi) /\ row'[h].trusted = a.trusted
  BY AckWriteFacts
<1>9. DOMAIN replaced' = 1 .. N
  BY DEF AckWrite
<1>10. Pending(h)' = (hi + 1) .. N
  <2>1. \A i \in 1 .. N : h \in replaced'[i].owed <=> i \notin a.ids /\ h \in replaced[i].owed
    BY AckWriteFacts
  <2>2. Pending(h)' = Pending(h) \ a.ids
    BY <1>9, <2>1 DEF Pending, PendingIn
  <2> QED
    BY <1>6, <1>7, <2>2
<1>11. h # Envkey => StoreTracks(h, hi)'
  <2> SUFFICES ASSUME h # Envkey PROVE StoreTracks(h, hi)'
    OBVIOUS
  <2>1. c \in Devices /\ h = c
    BY DEF Holder
  <2>2. PICK lo \in 0 .. k, top \in 0 .. N : store[h].pending = (lo + 1) .. top
    BY <1>4 DEF Tracks, StoreTracks
  <2>3. store'[h].pending = store[h].pending \/ store'[h].pending = store[h].pending \ a.ids
    BY <2>1 DEF AckWrite, Forgotten, StoreType
  <2>4. CASE store'[h].pending = store[h].pending
    BY <1>6, <1>8, <2>2, <2>4 DEF StoreTracks
  <2>5. CASE store'[h].pending = store[h].pending \ a.ids
    <3>1. CASE top <= hi
      <4>1. \A i \in store[h].pending : i \in a.ids
        BY <1>6, <2>1, <2>2, <3>1
      <4>2. store'[h].pending = (0 + 1) .. 0
        BY <2>5, <4>1
      <4> QED
        BY <1>6, <1>8, <4>2 DEF StoreTracks
    <3>2. CASE hi < top
      <4>1. lo + 1 \in store[h].pending
        BY <1>6, <2>2, <3>2
      <4>2. lo = k
        BY <1>6, <2>1, <4>1
      <4>3. store'[h].pending = (hi + 1) .. top
        BY <1>6, <2>2, <2>5, <4>2
      <4> QED
        BY <1>8, <4>3 DEF StoreTracks
    <3> QED
      BY <1>6, <2>2, <3>1, <3>2
  <2> QED
    BY <2>3, <2>4, <2>5
<1>12. ASSUME NEW e \in Clients, Holder(e) = h PROVE AckTracks(e, h, hi)'
  <2>1. CASE e = c
    BY <2>1, AckWriteFacts DEF AckTracks
  <2>2. CASE e # c
    <3>1. h = Envkey /\ ack'[e] = ack[e]
      BY <1>12, <2>2, AckWriteFacts DEF Holder
    <3> SUFFICES ASSUME ack[e].pc # "none" PROVE AckTracks(e, h, hi)'
      BY <3>1 DEF AckTracks
    <3>2. PICK low \in 0 .. k, high \in 1 .. N :
          /\ low < high /\ ack[e].ids = (low + 1) .. high /\ ack[e].trusted = {RootAt(high)}
          /\ ack[e].pc = "read" => \E j \in 0 .. k : ack[e].row.trusted = {RootAt(j)}
      BY <1>4, <1>12, <3>1 DEF Tracks, AckTracks
    <3>3. RootAt(high)' = RootAt(high)
      BY AckWriteFacts
    <3>4. ack[e].pc = "read" => /\ \E j \in 0 .. hi : ack[e].row.trusted = {RootAt(j)'}
                                /\ row'[h].trusted # ack[e].row.trusted
      <4> SUFFICES ASSUME ack[e].pc = "read"
                   PROVE  /\ \E j \in 0 .. hi : ack[e].row.trusted = {RootAt(j)'}
                          /\ row'[h].trusted # ack[e].row.trusted
        OBVIOUS
      <4>1. PICK j \in 0 .. k : ack[e].row.trusted = {RootAt(j)}
        BY <3>2
      <4>2. RootAt(j)' = RootAt(j) /\ j < hi /\ j \in 0 .. hi /\ j \in 0 .. N
        BY <1>6, AckWriteFacts
      <4>3. RootAt(j) # RootAt(hi)
        BY <1>8, <4>2 DEF FInv, Chain
      <4> QED
        BY <1>6, <1>8, <3>1, <4>1, <4>2, <4>3
    <3>5. Active(h)'
      BY <1>2, AckWriteFacts DEF Active
    <3>6. low \in 0 .. hi
      BY <1>6
    <3> HIDE DEF h
    <3> QED
      BY <1>8, <3>1, <3>2, <3>3, <3>4, <3>5, <3>6 DEF AckTracks
  <2> QED
    BY <2>1, <2>2
<1>13. RootAt(hi)' \in row'[h].trusted /\ (h = Envkey => row'[h].trusted = {RootAt(hi)'})
  BY <1>6, <1>8
<1>14. Tracks(h, hi)'
  BY <1>8, <1>10, <1>11, <1>12, <1>13 DEF Tracks
<1> QED
  BY <1>8, <1>14

\* Other holders owe what they did.
LEMMA AckWriteOther ==
  ASSUME FInv, NEW c \in Clients, AckWrite(c), NEW g \in Holders, g # Holder(c), Good(g)'
  PROVE  \E k \in 0 .. N : Tracks(g, k)'
<1> USE FInvFacts
<1> DEFINE h == Holder(c)
           a == ack[c]
<1>1. Good(g) /\ g \notin reasked' /\ g \notin reasked
  BY AckWriteFacts DEF Good, Live
<1>2. PICK k \in 0 .. N : Tracks(g, k)
  BY <1>1 DEF FInv, Following
<1>3. \A i \in 1 .. N : g \in replaced'[i].owed <=> g \in replaced[i].owed
  <2> TAKE i \in 1 .. N
  <2>1. CASE i \notin a.ids
    BY <2>1, AckWriteFacts
  <2>2. CASE i \in a.ids
    <3>1. replaced'[i].owed = a.owed[i] \ {h} /\ replaced'[i].owed \subseteq replaced[i].owed \cup reasked'
      BY <2>2, AckWriteFacts
    <3>2. replaced[i].owed \ reasked \subseteq a.owed[i]
      BY <2>2, AckWriteFacts DEF FInv, OwedKept, KeepsOwed
    <3> QED
      BY <1>1, <3>1, <3>2
  <2> QED
    BY <2>1, <2>2
<1>4. DOMAIN replaced' = 1 .. N
  BY DEF AckWrite
<1>5. Pending(g)' = (k + 1) .. N
  BY <1>2, <1>3, <1>4 DEF Pending, PendingIn, Tracks
<1>6. N' = N /\ (\A j \in 0 .. N : RootAt(j)' = RootAt(j)) /\ row'[g] = row[g]
  BY AckWriteFacts
<1>7. g # Envkey => g \in Devices /\ store'[g] = store[g]
  BY DEF AckWrite, Holder
<1>8. g # Envkey => StoreTracks(g, k)'
  BY <1>2, <1>6, <1>7, StoreTracksKept DEF Tracks
<1>9. ASSUME NEW e \in Clients, Holder(e) = g PROVE AckTracks(e, g, k)'
  <2>1. ack'[e] = ack[e] /\ AckTracks(e, g, k)
    BY <1>2, <1>9, AckWriteFacts DEF Tracks
  <2>2. g # Envkey => store'[e].pending \subseteq store[e].pending
    BY <1>7, <1>9 DEF Holder
  <2>3. Active(g) => Active(g)'
    BY <1>6 DEF Active
  <2> QED
    BY <1>6, <2>1, <2>2, <2>3, AckTracksKept
<1>10. RootAt(k)' = RootAt(k)
  BY <1>6
<1>11. Tracks(g, k)'
  BY <1>2, <1>5, <1>6, <1>8, <1>9, <1>10 DEF Tracks
<1> QED
  BY <1>6, <1>11

LEMMA AckWriteFollows == ASSUME FInv, NEW c \in Clients, AckWrite(c) PROVE FInv'
<1> USE FInvFacts
<1> DEFINE h == Holder(c)
           a == ack[c]
<1>1. N' = N /\ (\A j \in 0 .. N : RootAt(j)' = RootAt(j)) /\ \A r : KnownRoot(r)' <=> KnownRoot(r)
  BY AckWriteFacts
<1>2. UNCHANGED <<org, call>>
  BY DEF AckWrite
<1>3. \A j \in 0 .. N : RootAt(j) \in Holders
  BY RootsTyped
<1>4. \A g \in Holders : row'[g].status = "deleted" <=> row[g].status = "deleted"
  BY AckWriteFacts
<1>5. Chain'
  <2>1. /\ org.root = RootAt(N)
        /\ \A i \in 1 .. N : replaced[i].from \in {RootAt(i - 1), replaced[i].by}
        /\ \A i, j \in 0 .. N : i < j => RootAt(i) # RootAt(j)
        /\ row[org.root].status # "deleted"
        /\ \A i \in 0 .. N : i < N => row[RootAt(i)].status = "deleted" /\ RootAt(i) \notin org.requests
    BY DEF FInv, Chain
  <2>2. N \in 0 .. N /\ RootAt(N)' = RootAt(N) /\ org.root \in Holders
    BY <1>1, <1>3, <2>1
  <2>3. \A i \in 1 .. N : (replaced[i].from \in {RootAt(i - 1), replaced[i].by})'
    <3> TAKE i \in 1 .. N
    <3>1. i - 1 \in 0 .. N
      OBVIOUS
    <3>2. replaced'[i].by = replaced[i].by /\ replaced'[i].from = replaced[i].from /\ RootAt(i - 1)' = RootAt(i - 1)
      BY <1>1, <3>1, AckWriteFacts
    <3> QED
      BY <2>1, <3>2
  <2>4. \A i \in 0 .. N : i < N => row'[RootAt(i)'].status = "deleted" /\ RootAt(i)' \notin org'.requests
    BY <1>1, <1>2, <1>3, <1>4, <2>1
  <2>5. \A i, j \in 0 .. N : i < j => RootAt(i)' # RootAt(j)'
    BY <1>1, <2>1
  <2>6. org'.root = RootAt(N)' /\ row'[org'.root].status # "deleted"
    BY <1>2, <1>4, <2>1, <2>2
  <2> QED
    BY <1>1, <2>3, <2>4, <2>5, <2>6 DEF Chain
<1>6. ASSUME NEW d \in Devices PROVE store'[d].root = store[d].root /\ store'[d].at = store[d].at
  <2>1. store[d] \in StoreType
    OBVIOUS
  <2>2. store'[d] = store[d] \/ store'[d] = Forgotten(store[d], a.ids)
    BY DEF AckWrite
  <2> QED
    BY <2>1, <2>2 DEF Forgotten, StoreType
<1>7. Offers'
  BY <1>1, <1>2, <1>6 DEF Offers, Offer
<1>8. OwedKept'
  <2> SUFFICES ASSUME NEW e \in Clients, ack'[e].pc = "read", NEW i \in ack'[e].ids
               PROVE  i \in 1 .. N /\ replaced'[i].owed \ reasked' \subseteq ack'[e].owed[i]
    BY <1>1 DEF OwedKept, KeepsOwed
  <2>1. ack'[e] = ack[e]
    BY AckWriteFacts
  <2>2. i \in 1 .. N /\ replaced[i].owed \ reasked \subseteq ack[e].owed[i]
    BY <2>1 DEF FInv, OwedKept, KeepsOwed
  <2>3. replaced'[i].owed \subseteq replaced[i].owed \cup reasked' /\ reasked \subseteq reasked'
    BY <2>2, AckWriteFacts
  <2> QED
    BY <2>1, <2>2, <2>3
<1>9. Following'
  <2>1. ASSUME NEW g \in Holders, Good(g)' PROVE \E k \in 0 .. N : Tracks(g, k)'
    BY <2>1, AckWriteOwn, AckWriteOther
  <2> QED
    BY <1>1, <2>1 DEF Following
<1>10. Accepting'
  <2> SUFFICES ASSUME NEW d \in Devices, Good(d)', row'[d].status = "invited" PROVE Accepts(d)'
    BY DEF Accepting, Accepts
  <2>1. d # h /\ row'[d] = row[d]
    BY AckWriteFacts
  <2>2. Good(d)
    BY <2>1, AckWriteFacts DEF Good, Live
  <2>3. Accepts(d)
    BY DEF FInv, Accepting
  <2> QED
    BY <1>2, <1>6, <2>1, <2>2, <2>3 DEF Accepts
<1> QED
  BY <1>5, <1>7, <1>8, <1>9, <1>10, AckWriteStep DEF FInv

-----------------------------------------------------------------------------
(* A graph action commits. *)

LEMMA PutFacts ==
  ASSUME FInv, NEW d \in Devices, NEW g, NEW rows, NEW list, Put(d, g, rows, list),
         g \in [at : Nat, root : Devices, requests : SUBSET Devices],
         list \in Seq(ReplacementType), N <= Len(list),
         \A i \in 1 .. N : /\ list[i].by = replaced[i].by /\ list[i].from = replaced[i].from
                           /\ list[i].owed \subseteq replaced[i].owed
  PROVE  /\ N' = Len(list) /\ N' \in Nat /\ N <= N' /\ DOMAIN replaced' = 1 .. N'
         /\ \A i \in 1 .. N' : /\ replaced'[i].by = list[i].by /\ replaced'[i].from = list[i].from
                               /\ replaced'[i].owed = list[i].owed \cap Live(rows)
         /\ \A j \in 0 .. N : RootAt(j)' = RootAt(j)
         /\ \A r : KnownRoot(r) => KnownRoot(r)'
         /\ org'.at = org.at + 1 /\ org'.root = g.root /\ org'.requests = g.requests
         /\ row' = rows /\ ack' = ack /\ reasked' = reasked
         /\ call'[d].kind = "none" /\ \A e \in Devices : e # d => call'[e] = call[e] /\ store'[e] = store[e]
         /\ \A e \in Devices : store'[e] = store[e]
                               \/ (store'[e].pending = Pending(e)' /\ store'[e].root = org'.root)
<1> USE FInvFacts
<1>1. replaced' = [i \in DOMAIN list |-> [list[i] EXCEPT !.owed = @ \cap Live(rows)]]
  BY DEF Put, Swept
<1>2. DOMAIN list = 1 .. Len(list) /\ Len(list) \in Nat /\ \A i \in DOMAIN list : list[i] \in ReplacementType
  OBVIOUS
<1>3. N' = Len(list) /\ DOMAIN replaced' = 1 .. N'
  BY <1>1, <1>2 DEF N
<1>4. \A i \in 1 .. N' : /\ replaced'[i].by = list[i].by /\ replaced'[i].from = list[i].from
                         /\ replaced'[i].owed = list[i].owed \cap Live(rows)
  BY <1>1, <1>2, <1>3 DEF ReplacementType
<1>5. ASSUME NEW j \in 0 .. N PROVE RootAt(j)' = RootAt(j)
  <2>1. j = 0 \/ (j \in 1 .. N /\ j \in 1 .. N')
    BY <1>2, <1>3
  <2> QED
    BY <1>4, <2>1 DEF RootAt
<1>6. ASSUME NEW r, KnownRoot(r) PROVE KnownRoot(r)'
  <2>1. PICK j \in 0 .. N : r = RootAt(j)
    BY <1>6 DEF KnownRoot
  <2>2. j \in 0 .. N' /\ RootAt(j)' = r
    BY <1>2, <1>3, <1>5, <2>1
  <2> QED
    BY <2>2 DEF KnownRoot
<1>7. /\ org'.at = org.at + 1 /\ org'.root = g.root /\ org'.requests = g.requests
      /\ row' = rows /\ ack' = ack /\ reasked' = reasked
  BY DEF Put
<1>8. call'[d].kind = "none" /\ \A e \in Devices : e # d => call'[e] = call[e] /\ store'[e] = store[e]
  BY NoCallTyped DEF Put
<1>9. \A e \in Devices : store'[e] = store[e] \/ (e = d /\ store'[e] = Seen(store[d], org', replaced', d))
  BY DEF Put
<1>10. LET s == Seen(store[d], org', replaced', d) IN s.pending = Pending(d)' /\ s.root = org'.root
  BY DEF Seen, Pending, StoreType
<1>11. \A e \in Devices : store'[e] = store[e]
                             \/ (store'[e].pending = Pending(e)' /\ store'[e].root = org'.root)
  BY <1>9, <1>10
<1> QED
  BY <1>2, <1>3, <1>4, <1>5, <1>6, <1>7, <1>8, <1>11

\* What is left of FInv when the chain and each holder's place in it are known.
LEMMA PutRest ==
  ASSUME FInv, NEW d \in Devices, N' \in Nat, N <= N',
         \A r : KnownRoot(r) => KnownRoot(r)',
         \A i \in 1 .. N : replaced'[i].owed \subseteq replaced[i].owed,
         Chain', org'.at = org.at + 1, ack' = ack, reasked' = reasked,
         call'[d].kind = "none", \A e \in Devices : e # d => call'[e] = call[e] /\ store'[e] = store[e],
         \A e \in Devices : store'[e] = store[e] \/ store'[e].root = org'.root,
         \A e \in Devices : e # d /\ Good(e)' /\ row'[e].status = "invited" => Good(e) /\ row[e].status = "invited"
  PROVE  Offers' /\ OwedKept' /\ Accepting'
<1> USE FInvFacts
<1>1. Offers'
  <2>1. org'.root = RootAt(N)' /\ N' \in 0 .. N'
    BY DEF Chain
  <2>2. KnownRoot(org.root)'
    BY <2>1 DEF KnownRoot
  <2>3. ASSUME NEW e \in Devices PROVE KnownRoot(store[e].root)'
    <3>1. CASE store'[e] = store[e]
      <4>1. KnownRoot(store[e].root)
        OBVIOUS
      <4> QED
        BY <3>1, <4>1 DEF KnownRoot
    <3>2. CASE store'[e].root = org'.root
      BY <2>2, <3>2 DEF KnownRoot
    <3> QED
      BY <3>1, <3>2
  <2>4. \A e \in Devices : Offer(call[e], e)'
    <3> TAKE e \in Devices
    <3>1. CASE e = d
      BY <3>1 DEF Offer
    <3>2. CASE e # d
      BY <3>2 DEF Offer
    <3> QED
      BY <3>1, <3>2
  <2> QED
    BY <2>3, <2>4 DEF Offers
<1>2. OwedKept'
  <2> SUFFICES ASSUME NEW c \in Clients, ack[c].pc = "read", NEW i \in ack[c].ids
               PROVE  i \in 1 .. N' /\ replaced'[i].owed \ reasked \subseteq ack[c].owed[i]
    BY DEF OwedKept, KeepsOwed
  <2>1. i \in 1 .. N /\ replaced[i].owed \ reasked \subseteq ack[c].owed[i]
    BY DEF FInv, OwedKept, KeepsOwed
  <2> QED
    BY <2>1
<1>3. Accepting'
  <2> SUFFICES ASSUME NEW e \in Devices, Good(e)', row'[e].status = "invited", call'[e].kind = "accept"
               PROVE  /\ call'[e].at <= org'.at
                      /\ store'[e].at # org'.at /\ call'[e].at # org'.at
    BY DEF Accepting, Accepts
  <2>1. e # d
    OBVIOUS
  <2>2. call[e].at <= org.at
    BY <2>1 DEF FInv, Accepting, Accepts
  <2>3. store[e].at <= org.at /\ store[e].at \in Nat /\ call[e].at \in Nat
    BY DEF ClientTypes, StoreType, CallType
  <2> QED
    BY <2>1, <2>2, <2>3
<1> QED
  BY <1>1, <1>2, <1>3

\* A holder whose row is left alone stays where it is.
LEMMA PutTracks ==
  ASSUME FInv, NEW h \in Holders, NEW k \in 0 .. N, Tracks(h, k),
         N' \in Nat, N <= N', \A j \in 0 .. N : RootAt(j)' = RootAt(j), ack' = ack,
         \A e \in Devices : store'[e] = store[e] \/ store'[e].pending = Pending(e)',
         row'[h].trusted = row[h].trusted, Active(h) => Active(h)',
         Pending(h)' = (k + 1) .. N'
  PROVE  \E j \in 0 .. N' : Tracks(h, j)'
<1> USE FInvFacts
<1>1. h # Envkey => StoreTracks(h, k)'
  BY StoreTracksKept DEF Tracks
<1>2. ASSUME NEW c \in Clients, Holder(c) = h PROVE AckTracks(c, h, k)'
  <2>1. h # Envkey => c \in Devices /\ h = c
    BY <1>2 DEF Holder
  <2>2. h # Envkey => store'[c].pending = store[c].pending \/ store'[c].pending = (k + 1) .. N'
    BY <2>1
  <2>3. h # Envkey => \/ store'[c].pending \subseteq store[c].pending
                      \/ \A i \in store'[c].pending : i > k /\ i \in Nat
    BY <2>2
  <2>4. AckTracks(c, h, k)
    BY <1>2 DEF Tracks
  <2> QED
    BY <2>3, <2>4, AckTracksKept
<1>3. k \in 0 .. N' /\ RootAt(k)' = RootAt(k)
  OBVIOUS
<1>4. Tracks(h, k)'
  BY <1>1, <1>2, <1>3 DEF Tracks
<1> QED
  BY <1>3, <1>4

LEMMA NothingAfter == ASSUME NEW n \in Nat PROVE n \in 0 .. n /\ (n + 1) .. n = {}
<1>1. \A i \in (n + 1) .. n : FALSE
  OBVIOUS
<1> QED
  BY <1>1

\* A device that signs the last root and owes nothing is at the end.
LEMMA PutLast ==
  ASSUME FInv, NEW d \in Devices, NEW k \in 0 .. N, Tracks(d, k),
         N' \in Nat, N <= N', \A j \in 0 .. N : RootAt(j)' = RootAt(j), ack' = ack,
         store'[d] = store[d] \/ store'[d].pending = Pending(d)',
         ack[d].pc # "read", Pending(d)' = {}, RootAt(N)' \in row'[d].trusted
  PROVE  \E j \in 0 .. N' : Tracks(d, j)'
<1> USE FInvFacts
<1>1. d # Envkey /\ \A c \in Clients : Holder(c) = d => c = d
  BY EnvkeyAssumption DEF Holder
<1>2. N' \in 0 .. N' /\ Pending(d)' = (N' + 1) .. N'
  <2>1. \A n \in Nat : n \in 0 .. n /\ (n + 1) .. n = {}
    BY NothingAfter
  <2> QED
    BY <2>1
<1>3. StoreTracks(d, N)'
  <2>1. CASE store'[d] = store[d]
    <3>1. PICK lo \in 0 .. k, hi \in 0 .. N : store[d].pending = (lo + 1) .. hi
      BY <1>1 DEF Tracks, StoreTracks
    <3>2. lo \in 0 .. N' /\ hi \in 0 .. N'
      OBVIOUS
    <3> QED
      BY <2>1, <3>1, <3>2 DEF StoreTracks
  <2>2. CASE store'[d].pending = Pending(d)'
    BY <1>2, <2>2 DEF StoreTracks
  <2> QED
    BY <2>1, <2>2
<1>4. AckTracks(d, d, N)'
  <2> SUFFICES ASSUME ack[d].pc # "none" PROVE AckTracks(d, d, N)'
    BY DEF AckTracks
  <2>1. PICK lo \in 0 .. k, hi \in 1 .. N :
        /\ lo < hi /\ ack[d].ids = (lo + 1) .. hi /\ RootAt(hi) \in ack[d].trusted
        /\ \A i \in store[d].pending : i > lo
    BY <1>1 DEF Tracks, AckTracks, Holder
  <2>2. lo \in 0 .. N' /\ hi \in 1 .. N' /\ hi \in 0 .. N /\ RootAt(hi)' = RootAt(hi)
    OBVIOUS
  <2>3. \A i \in store'[d].pending : i > lo
    BY <2>1
  <2> QED
    BY <1>1, <2>1, <2>2, <2>3 DEF AckTracks
<1>5. Tracks(d, N)'
  BY <1>1, <1>2, <1>3, <1>4 DEF Tracks
<1> QED
  BY <1>2, <1>5

\* The chain stays as it is when no replacement is made and no root is deleted.
LEMMA ChainKept ==
  ASSUME FInv, N' = N, \A j \in 0 .. N : RootAt(j)' = RootAt(j),
         \A i \in 1 .. N : replaced'[i].by = replaced[i].by /\ replaced'[i].from = replaced[i].from,
         org'.root = org.root, row'[org.root].status # "deleted",
         \A h \in Holders : row[h].status = "deleted" =>
           row'[h].status = "deleted" /\ (h \in org'.requests => h \in org.requests)
  PROVE  Chain'
<1> USE FInvFacts
<1>1. /\ org.root = RootAt(N)
      /\ \A i \in 1 .. N : replaced[i].from \in {RootAt(i - 1), replaced[i].by}
      /\ \A i, j \in 0 .. N : i < j => RootAt(i) # RootAt(j)
      /\ \A i \in 0 .. N : i < N => row[RootAt(i)].status = "deleted" /\ RootAt(i) \notin org.requests
  BY DEF FInv, Chain
<1>2. N \in 0 .. N /\ RootAt(N)' = RootAt(N) /\ \A j \in 0 .. N : RootAt(j) \in Holders
  BY RootsTyped
<1>3. ASSUME NEW i \in 1 .. N PROVE replaced'[i].from \in {RootAt(i - 1)', replaced'[i].by}
  <2>1. i - 1 \in 0 .. N
    OBVIOUS
  <2>2. replaced'[i].by = replaced[i].by /\ replaced'[i].from = replaced[i].from /\ RootAt(i - 1)' = RootAt(i - 1)
    BY <2>1
  <2> QED
    BY <1>1, <2>2
<1>4. \A i \in 0 .. N : i < N => row'[RootAt(i)'].status = "deleted" /\ RootAt(i)' \notin org'.requests
  BY <1>1, <1>2
<1>5. \A i, j \in 0 .. N : i < j => RootAt(i)' # RootAt(j)'
  BY <1>1
<1>6. org'.root = RootAt(N)' /\ row'[org'.root].status # "deleted"
  BY <1>1, <1>2
<1> QED
  BY <1>3, <1>4, <1>5, <1>6 DEF Chain

\* Only active devices are revoked, so neither former roots nor their requests come back.
LEMMA CommitRevokeFollows == ASSUME FInv, NEW d \in Devices, CommitRevoke(d) PROVE FInv'
<1> USE FInvFacts
<1> DEFINE T == call[d].targets
<1>1. org \in [at : Nat, root : Devices, requests : SUBSET Devices] /\ T \in SUBSET Devices
  BY DEF ServerTypes, ClientTypes, CallType
<1>2. PICK used \in BOOLEAN :
      /\ used \/ T \cap {org.root, row[Envkey].signer} = {}
      /\ Put(d, IF used THEN [org EXCEPT !.requests = @ \cup T] ELSE org,
             [h \in Holders |-> IF h \notin T THEN row[h]
                                ELSE [row[h] EXCEPT !.status = IF used THEN "deactivated" ELSE "deleted"]],
             replaced)
  BY DEF CommitRevoke
<1> DEFINE rows == [h \in Holders |-> IF h \notin T THEN row[h]
                                     ELSE [row[h] EXCEPT !.status = IF used THEN "deactivated" ELSE "deleted"]]
           graph == IF used THEN [org EXCEPT !.requests = @ \cup T] ELSE org
<1>3. slipped' = slipped /\ \A t \in T : row[t].status = "active"
  BY DEF CommitRevoke, Active
<1>4. \A h \in Holders : /\ h \notin T => rows[h] = row[h]
                         /\ h \in T => rows[h].status \in {"deactivated", "deleted"}
                         /\ h \in T /\ h = org.root => rows[h].status = "deactivated"
  <2>1. \A h \in Holders : row[h] \in RowType
    BY RowTyped
  <2>2. CASE used
    BY <2>1, <2>2 DEF RowType
  <2>3. CASE ~used
    BY <1>2, <2>1, <2>3 DEF RowType
  <2> QED
    BY <2>2, <2>3
<1>5. /\ graph \in [at : Nat, root : Devices, requests : SUBSET Devices]
      /\ graph.root = org.root /\ graph.requests \subseteq org.requests \cup T
  BY <1>1
<1>7. Put(d, graph, rows, replaced)
  BY <1>2
<1> HIDE DEF rows, graph
<1>6. replaced \in Seq(ReplacementType) /\ Len(replaced) = N
  BY DEF ServerTypes, N
<1>8. /\ N' = N /\ DOMAIN replaced' = 1 .. N
      /\ \A i \in 1 .. N : /\ replaced'[i].by = replaced[i].by /\ replaced'[i].from = replaced[i].from
                           /\ replaced'[i].owed = replaced[i].owed \cap Live(row')
      /\ \A j \in 0 .. N : RootAt(j)' = RootAt(j)
      /\ \A r : KnownRoot(r) => KnownRoot(r)'
      /\ org'.at = org.at + 1 /\ org'.root = org.root /\ org'.requests \subseteq org.requests \cup T
      /\ row' = rows /\ ack' = ack /\ reasked' = reasked
      /\ call'[d].kind = "none" /\ \A e \in Devices : e # d => call'[e] = call[e] /\ store'[e] = store[e]
      /\ \A e \in Devices : store'[e] = store[e]
                            \/ (store'[e].pending = Pending(e)' /\ store'[e].root = org'.root)
  BY <1>5, <1>6, <1>7, PutFacts
<1>9. row' = rows
  BY <1>8
<1>10. \A h \in Holders : /\ h \notin T => row'[h] = row[h]
                          /\ h \in T => row'[h].status \in {"deactivated", "deleted"}
                          /\ h \in T /\ h = org.root => row'[h].status = "deactivated"
  BY <1>4, <1>9
<1> HIDE DEF T
<1>11. Chain'
  <2>1. row[org.root].status # "deleted" /\ org.root \in Devices
    BY <1>1 DEF FInv, Chain
  <2>2. row'[org.root].status # "deleted"
    BY <1>2, <1>8, <1>10, <2>1
  <2>3. \A h \in Holders : row[h].status = "deleted" =>
          row'[h].status = "deleted" /\ (h \in org'.requests => h \in org.requests)
    BY <1>1, <1>3, <1>8, <1>10
  <2> QED
    BY <1>8, <2>2, <2>3, ChainKept
<1>12. \A h \in Holders : Good(h)' => Good(h) /\ row'[h] = row[h]
  BY <1>3, <1>8, <1>10 DEF Good, Live
<1>13. Following'
  <2> SUFFICES ASSUME NEW h \in Holders, Good(h)' PROVE \E k \in 0 .. N : Tracks(h, k)'
    BY <1>8 DEF Following
  <2>1. PICK k \in 0 .. N : Tracks(h, k)
    BY <1>12 DEF FInv, Following
  <2>2. Pending(h)' = (k + 1) .. N'
    BY <1>8, <2>1 DEF Pending, PendingIn, Tracks, Good
  <2>3. Active(h) => Active(h)'
    BY <1>12 DEF Active
  <2> QED
    BY <1>8, <1>12, <2>1, <2>2, <2>3, PutTracks
<1>14. Offers' /\ OwedKept' /\ Accepting'
  BY <1>8, <1>11, <1>12, PutRest
<1> QED
  BY <1>11, <1>13, <1>14, CommitRevokeStep DEF FInv

\* The device signs the present root, if the version check saw the graph that it was
\* computed from.
LEMMA CommitAcceptFollows == ASSUME FInv, NEW d \in Devices, CommitAccept(d) PROVE FInv'
<1> USE FInvFacts
<1> DEFINE rows == [row EXCEPT ![d].status = "active", ![d].trusted = call[d].trusted]
           list == [i \in DOMAIN replaced |-> [replaced[i] EXCEPT !.owed = @ \ {d}]]
<1>1. org \in [at : Nat, root : Devices, requests : SUBSET Devices]
  BY DEF ServerTypes
<1>2. /\ Put(d, org, rows, list) /\ slipped \subseteq slipped' /\ (d \in slipped' \/ call[d].at = org.at)
      /\ row[d].status = "invited" /\ call[d].kind = "accept" /\ call[d].pc = "sent"
  BY DEF CommitAccept
<1>3. row \in [Holders -> RowType] /\ row[d] \in RowType
  BY RowTyped DEF ServerTypes
<1>4. /\ \A h \in Holders : h # d => rows[h] = row[h]
      /\ rows[d].status = "active" /\ rows[d].trusted = call[d].trusted
  BY <1>3 DEF RowType
<1>5. /\ list \in Seq(ReplacementType) /\ Len(list) = N
      /\ \A i \in 1 .. N : /\ list[i].by = replaced[i].by /\ list[i].from = replaced[i].from
                           /\ list[i].owed = replaced[i].owed \ {d}
  <2>1. replaced \in Seq(ReplacementType)
    BY DEF ServerTypes
  <2>2. \A i \in DOMAIN replaced : /\ list[i] \in ReplacementType
                                   /\ list[i].by = replaced[i].by /\ list[i].from = replaced[i].from
                                   /\ list[i].owed = replaced[i].owed \ {d}
    BY ReplacedElements DEF ReplacementType
  <2>3. DOMAIN list = DOMAIN replaced /\ list = [i \in DOMAIN list |-> list[i]]
    OBVIOUS
  <2> HIDE DEF list
  <2>4. list \in Seq(ReplacementType)
    BY <2>1, <2>2, <2>3, ListTyped
  <2>5. Len(list) = N
    BY <2>3, <2>4
  <2> QED
    BY <2>2, <2>4, <2>5
<1> HIDE DEF rows, list
<1>6. /\ N' = N /\ DOMAIN replaced' = 1 .. N
      /\ \A i \in 1 .. N : /\ replaced'[i].by = replaced[i].by /\ replaced'[i].from = replaced[i].from
                           /\ replaced'[i].owed = (replaced[i].owed \ {d}) \cap Live(row')
      /\ \A j \in 0 .. N : RootAt(j)' = RootAt(j)
      /\ \A r : KnownRoot(r) => KnownRoot(r)'
      /\ org'.at = org.at + 1 /\ org'.root = org.root /\ org'.requests = org.requests
      /\ row' = rows /\ ack' = ack /\ reasked' = reasked
      /\ call'[d].kind = "none" /\ \A e \in Devices : e # d => call'[e] = call[e] /\ store'[e] = store[e]
      /\ \A e \in Devices : store'[e] = store[e]
                            \/ (store'[e].pending = Pending(e)' /\ store'[e].root = org'.root)
  BY <1>1, <1>2, <1>5, PutFacts
<1>7. Chain'
  <2>1. row[org.root].status # "deleted" /\ org.root \in Devices
    BY <1>1 DEF FInv, Chain
  <2>2. row'[org.root].status # "deleted"
    BY <1>4, <1>6, <2>1
  <2>3. \A h \in Holders : row[h].status = "deleted" =>
          row'[h].status = "deleted" /\ (h \in org'.requests => h \in org.requests)
    BY <1>2, <1>4, <1>6
  <2> QED
    BY <1>6, <2>2, <2>3, ChainKept
<1>8. \A h \in Holders : h # d /\ Good(h)' => Good(h) /\ row'[h] = row[h]
  BY <1>2, <1>4, <1>6 DEF Good, Live
<1>9. Following'
  <2> SUFFICES ASSUME NEW h \in Holders, Good(h)' PROVE \E k \in 0 .. N : Tracks(h, k)'
    BY <1>6 DEF Following
  <2>1. CASE h # d
    <3>1. PICK k \in 0 .. N : Tracks(h, k)
      BY <1>8, <2>1 DEF FInv, Following
    <3>2. Pending(h)' = (k + 1) .. N'
      BY <1>6, <2>1, <3>1 DEF Pending, PendingIn, Tracks, Good
    <3>3. Active(h) => Active(h)'
      BY <1>8, <2>1 DEF Active
    <3> QED
      BY <1>6, <1>8, <2>1, <3>1, <3>2, <3>3, PutTracks
  <2>2. CASE h = d
    <3>1. Good(d) /\ call[d].at = org.at
      BY <1>2, <1>6, <2>2 DEF Good, Live
    <3>2. org.root \in call[d].trusted
      BY <1>2, <3>1 DEF FInv, Accepting, Accepts
    <3>3. PICK k \in 0 .. N : Tracks(d, k)
      BY <3>1 DEF FInv, Following
    <3>4. ack[d].pc # "read"
      <4>1. Holder(d) = d /\ d \in Clients /\ ~Active(d)
        BY <1>2 DEF Holder, Active
      <4>2. AckTracks(d, d, k)
        BY <3>3, <4>1 DEF Tracks
      <4> QED
        BY <4>1, <4>2 DEF AckTracks
    <3>5. Pending(d)' = {}
      BY <1>6 DEF Pending, PendingIn
    <3>6. org'.root = RootAt(N)'
      BY <1>7 DEF Chain
    <3>7. RootAt(N)' \in row'[d].trusted
      BY <1>4, <1>6, <3>2, <3>6
    <3> QED
      BY <1>6, <2>2, <3>3, <3>4, <3>5, <3>7, PutLast
  <2> QED
    BY <2>1, <2>2
<1>10. Offers' /\ OwedKept' /\ Accepting'
  BY <1>6, <1>7, <1>8, PutRest
<1> QED
  BY <1>7, <1>9, <1>10, CommitAcceptStep DEF FInv

\* The chain grows by the revoker, a device that was no root before.  What it offers ends at
\* the root it replaces, since no other root has a request.
LEMMA CommitReplaceFollows == ASSUME FInv, NEW d \in Devices, CommitReplace(d) PROVE FInv'
<1> USE FInvFacts
<1> DEFINE c == call[d]
           T == c.targets
           deleted == [h \in Holders |-> IF h \in T THEN [row[h] EXCEPT !.status = "deleted"] ELSE row[h]]
           resigned == [deleted EXCEPT ![Envkey].signer = SignerAfter(d, T)]
           replacing == org.root \in T
           rows == IF replacing THEN [resigned EXCEPT ![d].trusted = c.trusted] ELSE resigned
           replacement == [by |-> d, from |-> c.from, owed |-> OwedBy(d, rows)]
           list == IF replacing THEN Append(replaced, replacement) ELSE replaced
           g == [org EXCEPT !.requests = RequestsAfter(T), !.root = IF replacing THEN d ELSE @]
<1>1. /\ org \in [at : Nat, root : Devices, requests : SUBSET Devices]
      /\ T \in SUBSET Devices /\ c.trusted \in SUBSET Devices /\ c.from \in Devices
      /\ d \notin T
  BY DEF ServerTypes, ClientTypes, CallType, CommitReplace
<1>2. /\ Put(d, g, rows, list) /\ slipped \subseteq slipped'
      /\ T \subseteq org.requests /\ Pending(d) = {}
      /\ replacing => c.trusted # {} /\ row[d].status # "deleted"
      /\ c.kind = "replace"
  BY DEF CommitReplace, NothingPending
<1>3. \A h \in Holders : row[h] \in RowType
  BY RowTyped
<1>4. /\ deleted \in [Holders -> RowType]
      /\ \A h \in Holders : /\ deleted[h].trusted = row[h].trusted
                            /\ deleted[h].status = IF h \in T THEN "deleted" ELSE row[h].status
  BY <1>3 DEF RowType
<1>5. SignerAfter(d, T) \in Devices
  BY <1>3 DEF RowType, SignerAfter
<1> HIDE DEF deleted
<1>6. /\ resigned \in [Holders -> RowType]
      /\ \A h \in Holders : /\ resigned[h].trusted = row[h].trusted
                            /\ resigned[h].status = IF h \in T THEN "deleted" ELSE row[h].status
  BY <1>4, <1>5 DEF RowType
<1> HIDE DEF resigned
<1>7. /\ \A h \in Holders : rows[h].status = IF h \in T THEN "deleted" ELSE row[h].status
      /\ \A h \in Holders : h # d \/ ~replacing => rows[h].trusted = row[h].trusted
      /\ replacing => rows[d].trusted = c.trusted
  BY <1>1, <1>6 DEF RowType
<1> HIDE DEF rows
<1>8. replaced \in Seq(ReplacementType) /\ Len(replaced) = N /\ replacement \in ReplacementType
  BY <1>1 DEF ServerTypes, N, ReplacementType, OwedBy, Live
<1>9. replacement.by = d /\ replacement.from = c.from /\ replacement.owed = Live(rows) \ {d}
  BY DEF OwedBy
<1> HIDE DEF replacement
<1>10. /\ list \in Seq(ReplacementType) /\ Len(list) = IF replacing THEN N + 1 ELSE N
       /\ \A i \in 1 .. N : list[i] = replaced[i]
       /\ replacing => list[N + 1] = replacement
  <2> HIDE DEF replacing
  <2> QED
    BY <1>8
<1>11. /\ g \in [at : Nat, root : Devices, requests : SUBSET Devices]
       /\ g.root = (IF replacing THEN d ELSE org.root) /\ g.requests = org.requests \ T
  BY <1>1 DEF RequestsAfter
<1> HIDE DEF list, g
<1>12. N <= Len(list)
  BY <1>10
<1>13. /\ N' = Len(list) /\ N' \in Nat /\ N <= N' /\ DOMAIN replaced' = 1 .. N'
       /\ \A i \in 1 .. N' : /\ replaced'[i].by = list[i].by /\ replaced'[i].from = list[i].from
                             /\ replaced'[i].owed = list[i].owed \cap Live(rows)
       /\ \A j \in 0 .. N : RootAt(j)' = RootAt(j)
       /\ \A r : KnownRoot(r) => KnownRoot(r)'
       /\ org'.at = org.at + 1 /\ org'.root = g.root /\ org'.requests = g.requests
       /\ row' = rows /\ ack' = ack /\ reasked' = reasked
       /\ call'[d].kind = "none" /\ \A e \in Devices : e # d => call'[e] = call[e] /\ store'[e] = store[e]
       /\ \A e \in Devices : store'[e] = store[e]
                             \/ (store'[e].pending = Pending(e)' /\ store'[e].root = org'.root)
  BY <1>2, <1>10, <1>11, <1>12, PutFacts
<1>14. \A i \in 1 .. N : /\ replaced'[i].by = replaced[i].by /\ replaced'[i].from = replaced[i].from
                         /\ replaced'[i].owed = replaced[i].owed \cap Live(rows)
  <2>1. \A i \in 1 .. N : i \in 1 .. N'
    BY <1>13
  <2> QED
    BY <1>10, <1>13, <2>1
<1>15. /\ org.root = RootAt(N)
       /\ \A i \in 1 .. N : replaced[i].from \in {RootAt(i - 1), replaced[i].by}
       /\ \A i, j \in 0 .. N : i < j => RootAt(i) # RootAt(j)
       /\ row[org.root].status # "deleted"
       /\ \A i \in 0 .. N : i < N => row[RootAt(i)].status = "deleted" /\ RootAt(i) \notin org.requests
  BY DEF FInv, Chain
<1>16. /\ \A h \in Holders : row'[h].status = IF h \in T THEN "deleted" ELSE row[h].status
       /\ \A h \in Holders : Good(h)' => Good(h) /\ (Active(h) => Active(h)')
                                         /\ (row'[h].status = "invited" => row[h].status = "invited")
  BY <1>2, <1>7, <1>13 DEF Good, Live, Active
<1>17. replacing => /\ N' = N + 1 /\ RootAt(N)' = d /\ replaced'[N + 1].by = d
                    /\ replaced'[N + 1].from = c.from /\ replaced'[N + 1].owed = Live(row') \ {d}
  <2> SUFFICES ASSUME replacing
               PROVE  /\ N' = N + 1 /\ RootAt(N)' = d /\ replaced'[N + 1].by = d
                      /\ replaced'[N + 1].from = c.from /\ replaced'[N + 1].owed = Live(row') \ {d}
    OBVIOUS
  <2>1. N' = N + 1 /\ N + 1 \in 1 .. N' /\ list[N + 1] = replacement
    BY <1>10, <1>13
  <2>2. replaced'[N + 1].by = d /\ replaced'[N + 1].from = c.from /\ replaced'[N + 1].owed = Live(row') \ {d}
    BY <1>9, <1>13, <2>1
  <2>3. N + 1 # 0
    OBVIOUS
  <2> QED
    BY <2>1, <2>2, <2>3 DEF RootAt
<1>18. Chain'
  <2>1. CASE ~replacing
    <3>1. N' = N /\ org'.root = org.root
      BY <1>10, <1>11, <1>13, <2>1
    <3>2. row'[org.root].status # "deleted"
      BY <1>1, <1>15, <1>16, <2>1
    <3>3. \A h \in Holders : row[h].status = "deleted" =>
            row'[h].status = "deleted" /\ (h \in org'.requests => h \in org.requests)
      BY <1>11, <1>13, <1>16
    <3> QED
      BY <1>13, <1>14, <3>1, <3>2, <3>3, ChainKept
  <2>2. CASE replacing
    <3>1. N' = N + 1 /\ RootAt(N)' = d /\ org'.root = d /\ org'.requests = org.requests \ T
      BY <1>11, <1>13, <1>17, <2>2
    <3>2. \A j \in 0 .. N' : j \in 0 .. N \/ j = N'
      BY <3>1
    <3>3. \A j \in 0 .. N : RootAt(j) \in Holders
      BY RootsTyped
    <3>4. ASSUME NEW j \in 0 .. N
          PROVE  /\ row'[RootAt(j)].status = "deleted" /\ RootAt(j) \notin org'.requests
                 /\ RootAt(j) # d
      <4>1. CASE j < N
        BY <1>2, <1>11, <1>13, <1>15, <1>16, <2>2, <3>3, <4>1
      <4>2. CASE j = N
        BY <1>1, <1>11, <1>13, <1>15, <1>16, <2>2, <3>3, <4>2
      <4> QED
        BY <4>1, <4>2
    <3>5. row'[d].status # "deleted"
      BY <1>1, <1>2, <1>16, <2>2
    <3>6. ASSUME NEW i \in 1 .. N' PROVE (replaced[i].from \in {RootAt(i - 1), replaced[i].by})'
      <4>1. i - 1 \in 0 .. N
        BY <3>1
      <4>2. RootAt(i - 1)' = RootAt(i - 1)
        BY <1>13, <4>1
      <4>3. CASE i \in 1 .. N
        <5>1. replaced'[i].by = replaced[i].by /\ replaced'[i].from = replaced[i].from
          BY <1>14, <4>3
        <5> QED
          BY <1>15, <4>2, <4>3, <5>1
      <4>4. CASE i = N + 1
        <5>1. Offer(c, d) /\ c.trusted # {}
          BY <1>2, <2>2
        <5>2. c.from = d \/ (c.from \in T /\ KnownRoot(c.from))
          BY <1>2, <5>1 DEF Offer
        <5>3. ASSUME c.from \in T, KnownRoot(c.from) PROVE c.from = RootAt(N)
          <6>1. PICK j \in 0 .. N : c.from = RootAt(j)
            BY <5>3 DEF KnownRoot
          <6>2. ~(j < N)
            BY <1>2, <1>15, <5>3, <6>1
          <6> QED
            BY <6>1, <6>2
        <5>4. i - 1 = N
          BY <4>4
        <5>5. replaced'[i].by = d /\ replaced'[i].from = c.from
          BY <1>17, <2>2, <4>4
        <5> QED
          BY <4>2, <5>2, <5>3, <5>4, <5>5
      <4> QED
        BY <3>1, <4>3, <4>4
    <3>7. ASSUME NEW i \in 0 .. N', NEW j \in 0 .. N', i < j PROVE RootAt(i)' # RootAt(j)'
      <4>1. i \in 0 .. N
        BY <3>1, <3>7
      <4>2. CASE j \in 0 .. N
        BY <1>13, <1>15, <3>7, <4>1, <4>2
      <4>3. CASE j = N'
        BY <1>13, <3>1, <3>4, <4>1, <4>3
      <4> QED
        BY <3>2, <4>2, <4>3
    <3>8. \A i \in 0 .. N' : i < N' => row'[RootAt(i)'].status = "deleted" /\ RootAt(i)' \notin org'.requests
      <4> SUFFICES ASSUME NEW i \in 0 .. N', i < N'
                   PROVE  row'[RootAt(i)'].status = "deleted" /\ RootAt(i)' \notin org'.requests
        OBVIOUS
      <4>1. i \in 0 .. N
        BY <3>1
      <4> QED
        BY <1>13, <3>4, <4>1
    <3> QED
      BY <3>1, <3>5, <3>6, <3>7, <3>8 DEF Chain
  <2> QED
    BY <2>1, <2>2
<1>19. Following'
  <2> SUFFICES ASSUME NEW h \in Holders, Good(h)' PROVE \E k \in 0 .. N' : Tracks(h, k)'
    BY DEF Following
  <2>1. PICK k \in 0 .. N : Tracks(h, k)
    BY <1>16 DEF FInv, Following
  <2>2. Pending(h) = (k + 1) .. N
    BY <2>1 DEF Tracks
  <2>3. h \in Live(rows) /\ h \in Live(row')
    BY <1>13 DEF Good
  <2>4. \A i \in 1 .. N : h \in replaced'[i].owed <=> h \in replaced[i].owed
    BY <1>14, <2>3
  <2>5. CASE ~replacing
    <3>1. N' = N
      BY <1>10, <1>13, <2>5
    <3>2. Pending(h)' = (k + 1) .. N'
      BY <1>13, <2>2, <2>4, <3>1 DEF Pending, PendingIn
    <3>3. row'[h].trusted = row[h].trusted
      BY <1>7, <1>13, <2>5
    <3> QED
      BY <1>13, <1>16, <2>1, <3>2, <3>3, PutTracks
  <2>6. CASE replacing /\ h # d
    <3>1. N' = N + 1 /\ h \in replaced'[N + 1].owed
      BY <1>17, <2>3, <2>6
    <3>2. \A i \in 1 .. N' : h \in replaced'[i].owed <=> i \in (k + 1) .. N \/ i = N + 1
      <4>1. \A i \in 1 .. N' : i \in 1 .. N \/ i = N + 1
        BY <3>1
      <4>2. \A i \in 1 .. N : h \in replaced[i].owed <=> i \in (k + 1) .. N
        BY <2>2 DEF Pending, PendingIn
      <4> QED
        BY <2>4, <3>1, <4>1, <4>2
    <3>3. Pending(h)' = (k + 1) .. N'
      BY <1>13, <3>1, <3>2 DEF Pending, PendingIn
    <3>4. row'[h].trusted = row[h].trusted
      BY <1>7, <1>13, <2>6
    <3> QED
      BY <1>13, <1>16, <2>1, <3>3, <3>4, PutTracks
  <2>7. CASE replacing /\ h = d
    <3>1. N' = N + 1 /\ h \notin replaced'[N + 1].owed /\ RootAt(N)' = d
      BY <1>17, <2>7
    <3>2. Pending(d)' = {}
      <4>1. \A i \in 1 .. N : h \notin replaced[i].owed
        BY <1>2, <2>7 DEF Pending, PendingIn
      <4>2. \A i \in 1 .. N' : i \in 1 .. N \/ i = N + 1
        BY <3>1
      <4> QED
        BY <1>13, <2>4, <2>7, <3>1, <4>1, <4>2 DEF Pending, PendingIn
    <3>3. k = N
      <4>1. k < N => N \in Pending(d)
        BY <2>2, <2>7
      <4> QED
        BY <1>2, <4>1
    <3>4. ack[d].pc # "read"
      <4>1. Holder(d) = d /\ d \in Clients /\ d # Envkey
        BY EnvkeyAssumption DEF Holder
      <4>2. AckTracks(d, d, k)
        BY <2>1, <2>7, <4>1 DEF Tracks
      <4> QED
        BY <3>3, <4>1, <4>2 DEF AckTracks
    <3>5. RootAt(N)' \in row'[d].trusted
      BY <1>2, <1>7, <1>13, <2>7, <3>1 DEF Offer
    <3> QED
      BY <1>13, <2>1, <2>7, <3>2, <3>4, <3>5, PutLast
  <2> QED
    BY <2>5, <2>6, <2>7
<1>20. \A i \in 1 .. N : replaced'[i].owed \subseteq replaced[i].owed
  BY <1>14
<1>21. Offers' /\ OwedKept' /\ Accepting'
  BY <1>13, <1>16, <1>18, <1>20, PutRest
<1> QED
  BY <1>18, <1>19, <1>21, CommitReplaceStep DEF FInv

-----------------------------------------------------------------------------
LEMMA InitFInv == Init => FInv
<1> SUFFICES ASSUME Init PROVE FInv
  OBVIOUS
<1>1. N = 0 /\ replaced = <<>> /\ RootAt(0) = Creator /\ 0 .. 0 = {0}
  BY DEF Init, N, RootAt
<1>2. \A h \in Holders : /\ Pending(h) = {}
                         /\ row[h].trusted = {Creator}
  BY DEF Init, Pending, PendingIn
<1>3. Chain
  BY <1>1, CreatorAssumption DEF Init, Chain
<1>4. \A d \in Devices : /\ store[d].root = Creator /\ store[d].pending = {}
                         /\ call[d].kind = "none"
  BY DEF Init, NoCall
<1>5. \A c \in Clients : ack[c].pc = "none"
  BY NoAckTyped DEF Init
<1>6. Offers /\ OwedKept /\ Accepting
  BY <1>1, <1>4, <1>5 DEF Offers, Offer, KnownRoot, OwedKept, KeepsOwed, Accepting, Accepts
<1>7. 0 \in 0 .. N /\ 0 \in 0 .. 0 /\ (0 + 1) .. N = {} /\ (0 + 1) .. 0 = {}
  <2>1. 0 \in 0 .. 0 /\ (0 + 1) .. 0 = {}
    BY NothingAfter
  <2> QED
    BY <1>1, <2>1
<1>8. Following
  <2> SUFFICES ASSUME NEW h \in Holders PROVE Tracks(h, 0)
    BY <1>7 DEF Following
  <2>1. h # Envkey => StoreTracks(h, 0)
    BY <1>4, <1>7 DEF StoreTracks
  <2>2. \A c \in Clients : AckTracks(c, h, 0)
    BY <1>5 DEF AckTracks
  <2> QED
    BY <1>1, <1>2, <1>7, <2>1, <2>2 DEF Tracks
<1> QED
  BY <1>3, <1>6, <1>8, InitIInv DEF FInv

LEMMA NextFInv == FInv /\ [Next]_vars => FInv'
<1> SUFFICES ASSUME FInv, [Next]_vars PROVE FInv'
  OBVIOUS
<1>1. CASE UNCHANGED vars
  <2>1. UNCHANGED <<org, row, replaced, store, call, ack, slipped, reasked>>
    BY <1>1 DEF vars
  <2>2. Chain' /\ Offers' /\ OwedKept' /\ Following' /\ Accepting'
    BY <2>1, FInvFacts, ClientFacts
  <2>3. IInv'
    BY <1>1, NextIInv DEF FInv
  <2> QED
    BY <2>2, <2>3 DEF FInv
<1>2. ASSUME NEW d \in Devices, GetSession(d) \/ SignIn(d) \/ Process(d) PROVE FInv'
  BY <1>2, GetSessionFollows, SignInFollows, ProcessFollows
<1>3. ASSUME NEW d \in Devices, NEW t \in Devices, SendRevoke(d, t) PROVE FInv'
  BY <1>3, SendRevokeFollows
<1>4. ASSUME NEW d \in Devices, PrepareReplace(d) \/ LoadInvite(d) \/ Send(d) \/ GiveUp(d) PROVE FInv'
  BY <1>4, PrepareReplaceFollows, LoadInviteFollows, SendFollows, GiveUpFollows
<1>5. ASSUME NEW d \in Devices, CommitRevoke(d) \/ CommitReplace(d) \/ CommitAccept(d) PROVE FInv'
  BY <1>5, CommitRevokeFollows, CommitReplaceFollows, CommitAcceptFollows
<1>6. ASSUME NEW f \in Fetches, Fetch(f) PROVE FInv'
  BY <1>6, FetchFollows
<1>7. ASSUME NEW c \in Clients, AckRead(c) \/ AckFail(c) \/ AckWrite(c) PROVE FInv'
  BY <1>7, AckReadFollows, AckFailFollows, AckWriteFollows
<1> QED
  BY <1>1, <1>2, <1>3, <1>4, <1>5, <1>6, <1>7 DEF Next

\* An ENVKEY that trusts root k trusts root m once the replacements between are verified.
LEMMA FetchTrustAt ==
  ASSUME ServerTypes, NEW k \in 0 .. N, NEW m \in k .. N, NEW T, T = {RootAt(k)}
  PROVE  FetchTrust(T, (k + 1) .. m) = {RootAt(m)}
<1> USE RootsTyped
<1>1. CASE m = k
  <2>1. (k + 1) .. m = {}
    BY <1>1, NothingAfter
  <2> QED
    BY <1>1, <2>1 DEF FetchTrust
<1>2. CASE k < m
  <2>1. m \in (k + 1) .. m /\ m # 0
    BY <1>2
  <2>2. Latest((k + 1) .. m) = {m}
    BY <2>1 DEF Latest
  <2> QED
    BY <2>1, <2>2 DEF FetchTrust, Newcomers, RootAt
<1>3. m = k \/ k < m
  OBVIOUS
<1> QED
  BY <1>1, <1>2, <1>3

\* The replacements that it owes lead whoever trusts root k to the last one, when every chain
\* ends at the root before.
LEMMA Verified ==
  ASSUME FInv, ~Broken, NEW h \in Holders, NEW k \in 0 .. N, Tracks(h, k)
  PROVE  IF h = Envkey
         THEN FetchVerifies(row[h].trusted, Pending(h)) /\ org.root \in FetchTrust(row[h].trusted, Pending(h))
         ELSE /\ Accepted(row[h].trusted, Pending(h)) = Pending(h)
              /\ org.root \in Learnt(row[h].trusted, Pending(h))
<1> USE FInvFacts
<1> DEFINE T == row[h].trusted
           ids == (k + 1) .. N
<1>1. Pending(h) = ids /\ RootAt(k) \in T /\ (h = Envkey => T = {RootAt(k)})
  BY DEF Tracks
<1>2. org.root = RootAt(N)
  BY DEF FInv, Chain
<1>3. \A i \in 1 .. N : replaced[i].from = RootAt(i - 1) /\ replaced[i].by = RootAt(i)
  BY DEF FInv, Chain, Broken, RootAt
<1> HIDE DEF T
<1>4. CASE h = Envkey
  <2>1. ASSUME NEW i \in ids PROVE Verifies(FetchTrust(T, Before(ids, i)), i)
    <3>1. Before(ids, i) = (k + 1) .. (i - 1)
      BY DEF Before
    <3>2. FetchTrust(T, Before(ids, i)) = {RootAt(i - 1)}
      BY <1>1, <1>4, <3>1, FetchTrustAt
    <3> QED
      BY <1>3, <3>2 DEF Verifies
  <2>2. RootAt(N) \in FetchTrust(T, ids)
    BY <1>1, <1>4, FetchTrustAt
  <2> QED
    BY <1>1, <1>2, <1>4, <2>1, <2>2 DEF FetchVerifies, T
<1>5. CASE h # Envkey
  <2>1. ASSUME NEW i \in ids PROVE Verifies(T \cup Newcomers(Before(ids, i)), i)
    <3>1. CASE i = k + 1
      BY <1>1, <1>3, <3>1 DEF Verifies
    <3>2. CASE i # k + 1
      <4>1. i - 1 \in Before(ids, i) /\ i - 1 \in 1 .. N
        BY <3>2 DEF Before
      <4>2. RootAt(i - 1) \in Newcomers(Before(ids, i))
        BY <1>3, <4>1 DEF Newcomers
      <4> QED
        BY <1>3, <4>2 DEF Verifies
    <3> QED
      BY <3>1, <3>2
  <2>2. Accepted(T, ids) = ids
    BY <2>1 DEF Accepted, Before
  <2>3. RootAt(N) \in Learnt(T, ids)
    <3>1. CASE k = N
      BY <1>1, <3>1 DEF Learnt
    <3>2. CASE k # N
      <4>1. N \in ids /\ N \in 1 .. N
        BY <3>2
      <4> QED
        BY <1>3, <2>2, <4>1 DEF Learnt, Newcomers
    <3> QED
      BY <3>1, <3>2
  <2> QED
    BY <1>1, <1>2, <1>5, <2>2, <2>3 DEF T
<1> QED
  BY <1>4, <1>5

\* Nobody is left behind: from the trusted root that a holder signed, the replacements that it
\* still owes verify one after the other, as processRootPubkeyReplacements and the fetch of an
\* ENVKEY verify them, and end at the present root; whoever revokes, replaces, accepts,
\* acknowledges or loses an answer meanwhile.  The exceptions are CanFollow's own.
THEOREM CanFollowAlways == Spec => []CanFollow
<1>1. FInv => CanFollow
  <2> SUFFICES ASSUME FInv, ~Broken, NEW h \in Live(row) \ (slipped \cup reasked)
               PROVE  IF h = Envkey
                      THEN /\ FetchVerifies(row[h].trusted, Pending(h))
                           /\ org.root \in FetchTrust(row[h].trusted, Pending(h))
                      ELSE /\ Accepted(row[h].trusted, Pending(h)) = Pending(h)
                           /\ org.root \in Learnt(row[h].trusted, Pending(h))
    BY DEF CanFollow
  <2>1. h \in Holders /\ Good(h)
    BY DEF Good, Live
  <2>2. PICK k \in 0 .. N : Tracks(h, k)
    BY <2>1 DEF FInv, Following
  <2> QED
    BY <2>1, <2>2, Verified
<1> QED
  BY <1>1, InitFInv, NextFInv, PTL DEF Spec

=============================================================================

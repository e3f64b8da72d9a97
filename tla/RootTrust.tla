----------------------------- MODULE RootTrust -----------------------------
(***************************************************************************)
(* The root of trust: how the device whose key everyone trusts is revoked  *)
(* and replaced, and how each holder of a signed trusted root learns of it *)
(* and acknowledges it.  Code: api_handlers/crypto.ts, models/crypto.ts,   *)
(* graph.ts (deleteDevice), handler.ts (getActionRes), api_handlers/       *)
(* invites.ts and fetch_handlers/fetch.ts in app/api/shared/src;           *)
(* handlers/crypto.ts, handlers/invites.ts and lib/trust in                *)
(* app/client/core_process/src; app/core/src/lib/client/trust.ts;          *)
(* sdks/envkey-fetch/parser/parser.go.                                     *)
(*                                                                         *)
(* A key is named by its device.  A trust chain stands for the key it      *)
(* begins with (`by`) and the one it ends at (`from`): what is between was *)
(* re-signed whenever a signer was revoked.  The empty chain ends where it *)
(* begins.                                                                 *)
(***************************************************************************)
EXTENDS Naturals, FiniteSets, Sequences

CONSTANTS
  Devices,   \* devices that may revoke others and take over
  Creator,   \* the device of the org's creator, the first root
  Invitees,  \* those that are invited and have not accepted yet
  Envkey,    \* a generated ENVKEY
  Fetches,   \* processes that fetch it
  MaxAt      \* bound: versions of the graph

ASSUME CreatorAssumption == Creator \in Devices \ Invitees /\ Invitees \subseteq Devices
ASSUME EnvkeyAssumption == Envkey \notin Devices /\ Fetches \cap Devices = {}
ASSUME MaxAtAssumption == MaxAt \in Nat \ {0}

Holders == Devices \cup {Envkey}
Clients == Devices \cup Fetches
Holder(c) == IF c \in Devices THEN c ELSE Envkey

VARIABLES
  org,       \* the graph: version, root, pubkey revocation requests
  row,       \* each holder's row: status, signedTrustedRoot; signedById of the ENVKEY.  An
             \* invited device has the row of its invite
  replaced,  \* rootPubkeyReplacements in the order of createdAt: processedAtById is FALSE
             \* for those that still owe it; deletedAt is set when nobody does
  store,     \* each device's client: trustedRoot, and what it knows of the graph
  call,      \* the graph action in progress of each device
  ack,       \* the trusted root update in progress of each client
  slipped,   \* history: holders whose row was written from an outdated copy, or by a
             \* device deleted since it was authenticated
  reasked    \* history: holders whose acknowledgement was undone by another's

vars == <<org, row, replaced, store, call, ack, slipped, reasked>>

NoCall == [pc |-> "none", kind |-> "none", targets |-> {}, from |-> Creator, trusted |-> {}, at |-> 0]
NoAck == [pc |-> "none", ids |-> {}, trusted |-> {}, row |-> <<>>, owed |-> <<>>]

Init ==
  /\ org = [at |-> 1, root |-> Creator, requests |-> {}]
  /\ row = [h \in Holders |-> [status |-> IF h \in Invitees THEN "invited" ELSE "active",
                               trusted |-> {Creator}, signer |-> Creator]]
  /\ replaced = <<>>
  /\ store = [d \in Devices |-> [trusted |-> IF d \in Invitees THEN {} ELSE {Creator},
                                 at |-> 1, root |-> Creator, requests |-> {}, pending |-> {}]]
  /\ call = [d \in Devices |-> NoCall]
  /\ ack = [c \in Clients |-> NoAck]
  /\ slipped = {} /\ reasked = {}

Active(d) == row[d].status = "active"
Live(rows) == {h \in Holders : rows[h].status \in {"active", "invited"}}
PendingIn(list, h) == {i \in DOMAIN list : h \in list[i].owed}
Pending(h) == PendingIn(replaced, h)

-----------------------------------------------------------------------------
(* What a holder makes of its pending replacements, in their order. *)

Before(ids, i) == {j \in ids : j < i}
Latest(ids) == {i \in ids : \A j \in ids : j <= i}
Newcomers(ids) == {replaced[i].by : i \in ids}

\* verifyPubkeyWithTrustChain: the key is trusted, or its chain ends at one that is.
Verifies(trusted, i) == replaced[i].by \in trusted \/ replaced[i].from \in trusted

\* PROCESS_ROOT_PUBKEY_REPLACEMENTS adds each key that verifies to the trusted root,
\* until one does not.
Accepted(trusted, ids) ==
  {i \in ids : \A k \in Before(ids, i) \cup {i} : Verifies(trusted \cup Newcomers(Before(ids, k)), k)}
Learnt(trusted, ids) == trusted \cup Newcomers(Accepted(trusted, ids))

\* parseRootPubkeyReplacements: each key that verifies becomes the trusted root.
FetchTrust(trusted, ids) == IF ids = {} THEN trusted ELSE Newcomers(Latest(ids))
FetchVerifies(trusted, ids) ==
  \A i \in ids : Verifies(FetchTrust(trusted, Before(ids, i)), i)

-----------------------------------------------------------------------------
(* Sessions and acknowledgements. *)

\* Mutant: the permitted graph leaves the replacements out.
SeenWithoutPending(s, g, list, d) == [s EXCEPT !.at = g.at, !.root = g.root, !.requests = g.requests]
\* The user's permitted graph, with the replacements that are pending for the device.
Seen(s, g, list, d) ==
  [s EXCEPT !.at = g.at, !.root = g.root, !.requests = g.requests, !.pending = PendingIn(list, d)]

\* GET_SESSION, at any time: it keeps the trusted root.
GetSession(d) ==
  /\ Active(d) /\ store[d] # Seen(store[d], org, replaced, d)
  /\ store' = [store EXCEPT ![d] = Seen(@, org, replaced, d)]
  /\ UNCHANGED <<org, row, replaced, call, ack, slipped, reasked>>

\* CREATE_SESSION: the trusted root is the one that the device once signed.
SignIn(d) ==
  /\ Active(d) /\ call[d] = NoCall /\ ack[d] = NoAck
  /\ store' = [store EXCEPT ![d] = Seen([@ EXCEPT !.trusted = row[d].trusted], org, replaced, d)]
  /\ UNCHANGED <<org, row, replaced, call, ack, slipped, reasked>>

\* processRootPubkeyReplacementsIfNeeded: when all verify, the trusted root is signed
\* and posted.
Process(d) ==
  LET s == store[d] IN
  /\ Active(d) /\ s.pending # {} /\ ack[d] = NoAck
  /\ store' = [store EXCEPT ![d].trusted = Learnt(@, s.pending)]
  /\ ack' = [ack EXCEPT ![d] =
       IF Accepted(s.trusted, s.pending) = s.pending
       THEN [NoAck EXCEPT !.pc = "posted", !.ids = s.pending, !.trusted = Learnt(s.trusted, s.pending)]
       ELSE @]
  /\ UNCHANGED <<org, row, replaced, call, slipped, reasked>>

\* FETCH_ENVKEY answers the pending replacements with the config, and the call posts
\* its new trusted root.
Fetch(f) ==
  LET ids == Pending(Envkey) IN
  /\ ack[f] = NoAck /\ ids # {} /\ FetchVerifies(row[Envkey].trusted, ids)
  /\ ack' = [ack EXCEPT ![f] = [NoAck EXCEPT !.pc = "posted", !.ids = ids,
                                             !.trusted = FetchTrust(row[Envkey].trusted, ids)]]
  /\ UNCHANGED <<org, row, replaced, store, call, slipped, reasked>>

\* UPDATE_TRUSTED_ROOT_PUBKEY and its counterpart of ENVKEYs: the holder's row and the
\* replacements are read without locks.
AckRead(c) ==
  LET h == Holder(c) IN
  /\ ack[c].pc = "posted" /\ Active(h) /\ ack[c].ids \subseteq Pending(h)
  /\ ack' = [ack EXCEPT ![c].pc = "read", ![c].row = row[h],
                        ![c].owed = [i \in ack[c].ids |-> replaced[i].owed]]
  /\ UNCHANGED <<org, row, replaced, store, call, slipped, reasked>>

\* Not authenticated, already processed, or an error on the way.
AckFail(c) ==
  /\ ack[c].pc \in {"posted", "read"}
  /\ ack' = [ack EXCEPT ![c] = NoAck]
  /\ UNCHANGED <<org, row, replaced, store, call, slipped, reasked>>

\* The answer deletes the acknowledged replacements from the client's graph.
Forgotten(s, ids) == [s EXCEPT !.pending = @ \ ids]

\* updateTrustedRoot: the whole row of the holder, and the whole row of each
\* replacement, as they were read; a put does not bring back what is deleted.
AckWrite(c) ==
  LET h == Holder(c)
      a == ack[c] IN
  /\ a.pc = "read"
  /\ row' = [row EXCEPT ![h] = [a.row EXCEPT !.trusted = a.trusted,
                                !.status = IF row[h].status = "deleted" THEN "deleted" ELSE @]]
  /\ replaced' = [i \in DOMAIN replaced |->
       IF i \in a.ids THEN [replaced[i] EXCEPT !.owed = a.owed[i] \ {h}] ELSE replaced[i]]
  /\ slipped' = IF row[h] = a.row THEN slipped ELSE slipped \cup {h}
  /\ reasked' = reasked \cup UNION {a.owed[i] \ (replaced[i].owed \cup {h}) : i \in a.ids}
  /\ ack' = [ack EXCEPT ![c] = NoAck]
  /\ \/ c \in Devices /\ store' = [store EXCEPT ![c] = Forgotten(@, a.ids)]
     \/ UNCHANGED store  \* the answer is lost
  /\ UNCHANGED <<org, call>>

-----------------------------------------------------------------------------
(* Graph actions: computed by the client, checked and committed by the server. *)

\* REVOKE_DEVICE of another device, which carries nothing of the client's graph, is sent
\* once that is up to date.
SendRevoke(d, t) ==
  /\ Active(d) /\ call[d] = NoCall /\ t # d /\ Active(t)
  /\ store[d].at = org.at
  /\ call' = [call EXCEPT ![d] = [NoCall EXCEPT !.pc = "sent", !.kind = "revoke", !.targets = {t}, !.at = org.at]]
  /\ UNCHANGED <<org, row, replaced, store, ack, slipped, reasked>>

\* Where getTrustChain ends: at the client's own key when it trusts it already.
ChainEnd(d) == IF d \in store[d].trusted THEN d ELSE store[d].root

\* PROCESS_REVOCATION_REQUESTS: before it is posted, the client's own key is added to
\* its trusted root if the root is to be replaced.
PrepareReplace(d) ==
  LET s == store[d] IN
  /\ Active(d) /\ call[d] = NoCall /\ s.requests # {} /\ d \notin s.requests
  /\ s.root \in s.requests => {d, s.root} \cap s.trusted # {}
  /\ store' = [store EXCEPT ![d].trusted = IF s.root \in s.requests THEN @ \cup {d} ELSE @]
  /\ call' = [call EXCEPT ![d] = [NoCall EXCEPT !.pc = "prepared", !.kind = "replace", !.targets = s.requests,
                                  !.from = ChainEnd(d),
                                  !.trusted = IF s.root \in s.requests THEN store'[d].trusted ELSE {}]]
  /\ UNCHANGED <<org, row, replaced, ack, slipped, reasked>>

\* LOAD_INVITE, which is repeated when the graph is outdated, and ACCEPT_INVITE: the
\* pending replacements of the invite are verified, and what is trusted then is signed.
LoadInvite(d) ==
  LET ids == Pending(d)
      trusted == Learnt(row[d].trusted, ids) IN
  /\ row[d].status = "invited" /\ call[d].pc # "sent"
  /\ Accepted(row[d].trusted, ids) = ids
  /\ store' = [store EXCEPT ![d] = Seen([@ EXCEPT !.trusted = trusted], org, replaced, d)]
  /\ call' = [call EXCEPT ![d] = [NoCall EXCEPT !.pc = "prepared", !.kind = "accept", !.trusted = trusted]]
  /\ UNCHANGED <<org, row, replaced, ack, slipped, reasked>>

\* The request is authenticated, which reads the org's version: a client with an older
\* one refreshes its session and sends the action again.
Send(d) ==
  /\ call[d].pc = "prepared" /\ row[d].status \in {"active", "invited"}
  /\ store[d].at = org.at
  /\ call' = [call EXCEPT ![d].pc = "sent", ![d].at = org.at]
  /\ UNCHANGED <<org, row, replaced, store, ack, slipped, reasked>>

\* Refused, failed, or displaced by another action when it was sent again.
GiveUp(d) ==
  /\ call[d] # NoCall
  /\ call' = [call EXCEPT ![d] = NoCall]
  /\ UNCHANGED <<org, row, replaced, store, ack, slipped, reasked>>

\* clearOrphanedRootPubkeyReplacements, after every graph action.
Swept(list, rows) == [i \in DOMAIN list |-> [list[i] EXCEPT !.owed = @ \cap Live(rows)]]

\* A graph action commits `g`, `rows` and `list`, and its answer brings them to the
\* client or is lost.
Put(d, g, rows, list) ==
  /\ org.at < MaxAt
  /\ org' = [g EXCEPT !.at = org.at + 1]
  /\ row' = rows /\ replaced' = Swept(list, rows)
  /\ call' = [call EXCEPT ![d] = NoCall]
  /\ \/ store' = [store EXCEPT ![d] = Seen(@, org', replaced', d)]
     \/ UNCHANGED store
  /\ UNCHANGED <<ack, reasked>>

\* Mutant: the check of pending replacements is left to the client.
Unchecked(d) == TRUE
\* getActionRes: an action by token is refused while its device owes a replacement.
NothingPending(d) == Pending(d) = {}

\* REVOKE_DEVICE: a device that signed or encrypted something is deactivated and its
\* revocation requested, another is deleted; the root has signed others.
CommitRevoke(d) ==
  LET c == call[d] IN
  /\ c.pc = "sent" /\ c.kind = "revoke" /\ NothingPending(d)
  /\ \A t \in c.targets : Active(t)
  /\ \E used \in BOOLEAN :
       /\ used \/ c.targets \cap {org.root, row[Envkey].signer} = {}
       /\ Put(d, IF used THEN [org EXCEPT !.requests = @ \cup c.targets] ELSE org,
              [h \in Holders |-> IF h \notin c.targets THEN row[h]
                                 ELSE [row[h] EXCEPT !.status = IF used THEN "deactivated" ELSE "deleted"]],
              replaced)
  /\ UNCHANGED slipped

\* toProcess: every other holder that is neither deleted nor deactivated.
OwedBy(d, rows) == Live(rows) \ {d}

\* Mutant: what the target signed is not signed again.
SignerKept(d, targets) == row[Envkey].signer
\* signedPubkeys: what the targets signed is signed by the revoker.
SignerAfter(d, targets) == IF row[Envkey].signer \in targets THEN d ELSE row[Envkey].signer

\* Mutant: the request of the device itself is all that is deleted.
RequestsKept(targets) == org.requests \ {org.root}
\* "queue requests for deletion"
RequestsAfter(targets) == org.requests \ targets

\* REVOKE_TRUSTED_PUBKEYS: the requests exist still; if the root is among the targets
\* the revoker becomes the root and all others owe the replacement.
CommitReplace(d) ==
  LET c == call[d]
      deleted == [h \in Holders |-> IF h \in c.targets THEN [row[h] EXCEPT !.status = "deleted"] ELSE row[h]]
      resigned == [deleted EXCEPT ![Envkey].signer = SignerAfter(d, c.targets)]
      replacing == org.root \in c.targets
      rows == IF replacing THEN [resigned EXCEPT ![d].trusted = c.trusted] ELSE resigned
      replacement == [by |-> d, from |-> c.from, owed |-> OwedBy(d, rows)] IN
  /\ c.pc = "sent" /\ c.kind = "replace" /\ NothingPending(d)
  /\ c.targets \subseteq org.requests
  /\ replacing => c.trusted # {} /\ row[d].status # "deleted"
  /\ Put(d, [org EXCEPT !.requests = RequestsAfter(c.targets), !.root = IF replacing THEN d ELSE @],
         rows, IF replacing THEN Append(replaced, replacement) ELSE replaced)
  /\ slipped' = IF row[d].status = "deleted" THEN slipped \cup {Envkey} ELSE slipped

\* ACCEPT_INVITE, which owes nothing while it runs: the device takes over from the
\* invite, whose replacements count as processed.
CommitAccept(d) ==
  LET c == call[d] IN
  /\ c.pc = "sent" /\ c.kind = "accept" /\ row[d].status = "invited"
  /\ Put(d, org, [row EXCEPT ![d].status = "active", ![d].trusted = c.trusted],
         [i \in DOMAIN replaced |-> [replaced[i] EXCEPT !.owed = @ \ {d}]])
  /\ slipped' = IF c.at = org.at THEN slipped ELSE slipped \cup {d}

Next ==
  \/ \E d \in Devices :
       \/ GetSession(d) \/ SignIn(d) \/ Process(d)
       \/ \E t \in Devices : SendRevoke(d, t)
       \/ PrepareReplace(d) \/ LoadInvite(d) \/ Send(d) \/ GiveUp(d)
       \/ CommitRevoke(d) \/ CommitReplace(d) \/ CommitAccept(d)
  \/ \E f \in Fetches : Fetch(f)
  \/ \E c \in Clients : AckRead(c) \/ AckFail(c) \/ AckWrite(c)

Spec == Init /\ [][Next]_vars

-----------------------------------------------------------------------------
TypeOK ==
  /\ org \in [at : 1..MaxAt, root : Devices, requests : SUBSET Devices]
  /\ row \in [Holders -> [status : {"invited", "active", "deactivated", "deleted"},
                          trusted : SUBSET Devices, signer : Devices]]
  /\ \A i \in DOMAIN replaced : replaced[i] \in [by : Devices, from : Devices, owed : SUBSET Holders]
  /\ \A d \in Devices : store[d].trusted \subseteq Devices /\ store[d].pending \subseteq DOMAIN replaced
  /\ slipped \subseteq Holders /\ reasked \subseteq Holders

\* A replacement whose chain is empty, which nobody but its creator can verify: its creator
\* trusted its own key since an earlier attempt to post one that failed.  ("the replacement
\* trust chain should end at the *previous* root", handlers/crypto.ts:225)
Broken == \E i \in DOMAIN replaced : replaced[i].from = replaced[i].by

\* No holder is left behind: from the trusted root it signed, the replacements it owes
\* lead to the present root; neither a chain of replacements, an invite that is accepted
\* meanwhile nor a second process loses it.  Except for a replacement with an empty
\* chain, an acceptance that passed the version check on an older graph, a row written
\* back from a copy read before another change of it, and an acknowledgement that another
\* one undid, so that the holder gives it again after it learnt of later roots.
CanFollow ==
  Broken \/ \A h \in Live(row) \ (slipped \cup reasked) :
    IF h = Envkey
    THEN FetchVerifies(row[h].trusted, Pending(h)) /\ org.root \in FetchTrust(row[h].trusted, Pending(h))
    ELSE /\ Accepted(row[h].trusted, Pending(h)) = Pending(h)
         /\ org.root \in Learnt(row[h].trusted, Pending(h))

\* A device on the current version knows every replacement it owes, unless another's
\* acknowledgement undid its own: its actions are not refused for one it knows nothing
\* of, which no refresh would follow.
OwesWhatItKnows ==
  \A d \in Devices \ reasked : Active(d) /\ store[d].at = org.at => Pending(d) \subseteq store[d].pending

\* A device whose revocation is requested stays deactivated, and in the graph, until the
\* request is processed, unless its own row was written back.
RequestedStaysOut ==
  \A t \in org.requests \ slipped : row[t].status = "deactivated"

\* The ENVKEY's key is signed by a device that exists, unless its row was written back or
\* whoever signed it again was deleted before that committed.
SignerExists == Envkey \in slipped \/ row[row[Envkey].signer].status # "deleted"
=============================================================================

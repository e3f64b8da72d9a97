--------------------------- MODULE Client_proofs ---------------------------
(***************************************************************************)
(* Proofs about the core process of a client, for any actions, workers,    *)
(* keys and stores (ClientProcess), and about its web sockets, for any     *)
(* devices, users, sockets and faults (OrgSockets).                        *)
(*                                                                         *)
(* The process: what was acknowledged is kept, the file can be read again, *)
(* and who is locked out can unlock.  The sockets: the event handlers of   *)
(* the server clear the socket they belong to, the client's entry is a     *)
(* socket it listens to, and no retry is lost.                             *)
(*                                                                         *)
(* The argument about the process is one about the writes in progress: an  *)
(* effect that is due is in every one that is not stale, or in one after   *)
(* it, and the newest is in the device's key.                              *)
(***************************************************************************)
EXTENDS ClientProcess, OrgSockets, FiniteSetTheorems, SequenceTheorems, TLAPS

-----------------------------------------------------------------------------
(* The jobs, and what becomes of the sequence of them.                     *)

Commits ==
  [type : {"commit"}, done : SUBSET Actions, pass : BOOLEAN, lockout : BOOLEAN,
   key : 1 .. MaxKey, stale : BOOLEAN]
Derives == [type : {"derive"}, key : 1 .. MaxKey]
Seals == [type : {"seal"}]
Merges == [type : {"merge"}, snap : StateType, key : 1 .. MaxKey]
JobTypes == Commits \cup Derives \cup Seals \cup Merges

IsCommit(j) == j.type = "commit"

LEMMA JobKinds ==
  ASSUME NEW j \in JobTypes
  PROVE  /\ j.type \in {"commit", "derive", "seal", "merge"}
         /\ j.type = "commit" => j \in Commits
         /\ j.type = "derive" => j \in Derives
         /\ j.type = "merge" => j \in Merges
BY DEF JobTypes, Commits, Derives, Seals, Merges

\* t is s with x at its end, and s without what is at i.
Adds(s, t, x) ==
  Len(t) = Len(s) + 1 /\ t[Len(s) + 1] = x /\ \A j \in 1 .. Len(s) : t[j] = s[j]
Drops(s, t, i) ==
  Len(t) = Len(s) - 1 /\ \A j \in 1 .. Len(s) - 1 : t[j] = IF j < i THEN s[j] ELSE s[j + 1]

LEMMA WithoutDrops ==
  ASSUME NEW S, NEW s \in Seq(S), NEW i \in 1 .. Len(s)
  PROVE  Without(s, i) \in Seq(S) /\ Drops(s, Without(s, i), i)
<1> DEFINE a == SubSeq(s, 1, i - 1)
           b == SubSeq(s, i + 1, Len(s))
<1>1. Len(s) \in Nat /\ i \in Nat /\ i >= 1 /\ i <= Len(s)
  BY LenProperties
<1>2. a \in Seq(S) /\ Len(a) = i - 1 /\ \A j \in 1 .. i - 1 : a[j] = s[j]
  BY <1>1, SubSeqProperties
<1>3. b \in Seq(S) /\ Len(b) = Len(s) - i /\ \A j \in 1 .. Len(s) - i : b[j] = s[i + j]
  BY <1>1, SubSeqProperties
<1> HIDE DEF a, b
<1>4. /\ a \o b \in Seq(S) /\ Len(a \o b) = Len(s) - 1
      /\ \A j \in 1 .. Len(s) - 1 : (a \o b)[j] = IF j <= i - 1 THEN a[j] ELSE b[j - (i - 1)]
  <2>1. /\ a \o b \in Seq(S) /\ Len(a \o b) = Len(a) + Len(b)
        /\ \A j \in 1 .. Len(a) + Len(b) : (a \o b)[j] = IF j <= Len(a) THEN a[j] ELSE b[j - Len(a)]
    BY <1>2, <1>3, ConcatProperties
  <2>2. Len(a) + Len(b) = Len(s) - 1
    BY <1>1, <1>2, <1>3
  <2> QED
    BY <1>2, <2>1, <2>2
<1>5. ASSUME NEW j \in 1 .. Len(s) - 1
      PROVE  (a \o b)[j] = IF j < i THEN s[j] ELSE s[j + 1]
  <2>1. CASE j < i
    <3>1. j <= i - 1 /\ j \in 1 .. i - 1
      BY <1>1, <2>1
    <3> QED
      BY <1>2, <1>4, <2>1, <3>1
  <2>2. CASE ~(j < i)
    <3>1. ~(j <= i - 1) /\ j - (i - 1) \in 1 .. Len(s) - i /\ i + (j - (i - 1)) = j + 1
      BY <1>1, <2>2
    <3> QED
      BY <1>3, <1>4, <2>2, <3>1
  <2> QED
    BY <2>1, <2>2
<1> QED
  BY <1>4, <1>5 DEF Without, Drops, a, b

LEMMA ConcatAdds ==
  ASSUME NEW S, NEW s \in Seq(S), NEW x \in S
  PROVE  /\ s \o <<x>> \in Seq(S) /\ Adds(s, s \o <<x>>, x) /\ s \o <<>> = s
         /\ Append(s, x) \in Seq(S) /\ Adds(s, Append(s, x), x)
<1>1. Len(s) \in Nat /\ <<x>> \in Seq(S) /\ Len(<<x>>) = 1 /\ <<x>>[1] = x
  BY LenProperties
<1> DEFINE t == s \o <<x>>
<1>2. /\ t \in Seq(S) /\ Len(t) = Len(s) + 1
      /\ \A j \in 1 .. Len(s) + 1 : t[j] = IF j <= Len(s) THEN s[j] ELSE <<x>>[j - Len(s)]
  BY <1>1, ConcatProperties
<1> HIDE DEF t
<1>3. t[Len(s) + 1] = x /\ \A j \in 1 .. Len(s) : t[j] = s[j]
  BY <1>1, <1>2
<1>4. Append(s, x) \in Seq(S) /\ Adds(s, Append(s, x), x)
  BY AppendProperties DEF Adds
<1> QED
  BY <1>2, <1>3, <1>4, ConcatEmptySeq DEF Adds, t

-----------------------------------------------------------------------------
(* What the writes on their way promise.  A write is superseded when it is *)
(* stale; one that is not has every effect that is due, or a later write   *)
(* that is on its way has it.                                              *)

HasType(js, type) == \E i \in 1 .. Len(js) : js[i].type = type
OneSeal(js) == \A i, j \in 1 .. Len(js) : js[i].type = "seal" /\ js[j].type = "seal" => i = j

\* A write after the i-th job has effect a.
Later(js, i, a) == \E j \in 1 .. Len(js) : j > i /\ IsCommit(js[j]) /\ a \in js[j].done

Ordered(js, due) ==
  \A i \in 1 .. Len(js) : IsCommit(js[i]) /\ ~js[i].stale =>
    \A a \in due : a \in js[i].done \/ Later(js, i, a)
OnFile(js, due, f) == ~f.stale => \A a \in due : a \in f.done \/ Later(js, 0, a)
\* An unlock reads a file that has what is due.
Snapped(js, due) ==
  \A i \in 1 .. Len(js) : js[i].type = "merge" =>
    due \subseteq js[i].snap.done /\ (js[i].snap.key = 0 => js[i].snap.done = {})
Writes(js, due, f) == Ordered(js, due) /\ OnFile(js, due, f) /\ Snapped(js, due)

\* The file will be one that key k opens, or a stale one.
Newest(js, i) == IsCommit(js[i]) /\ \A j \in 1 .. Len(js) : IsCommit(js[j]) => j <= i
Keyed(js, k, f) ==
  /\ \A i \in 1 .. Len(js) : Newest(js, i) => js[i].stale \/ js[i].key = k
  /\ ~HasType(js, "commit") => f.stale \/ Opens(k, f)

LEMMA TypesAdded ==
  ASSUME NEW s \in Seq(JobTypes), NEW t \in Seq(JobTypes), NEW x \in JobTypes, Adds(s, t, x)
  PROVE  /\ \A type : HasType(t, type) <=> HasType(s, type) \/ x.type = type
         /\ OneSeal(s) /\ (x.type = "seal" => ~HasType(s, "seal")) => OneSeal(t)
<1>1. Len(s) \in Nat /\ Len(t) = Len(s) + 1 /\ t[Len(t)] = x /\ \A j \in 1 .. Len(s) : t[j] = s[j]
  BY LenProperties DEF Adds
<1>2. \A j \in 1 .. Len(t) : j \in 1 .. Len(s) \/ j = Len(t)
  BY <1>1
<1>3. Len(t) \in 1 .. Len(t) /\ \A j \in 1 .. Len(s) : j \in 1 .. Len(t)
  BY <1>1
<1> QED
  BY <1>1, <1>2, <1>3 DEF HasType, OneSeal

\* Where the j-th job of t was in s, when the i-th one of s is gone.
Place(i, j) == IF j < i THEN j ELSE j + 1

LEMMA DroppedPlaces ==
  ASSUME NEW m \in Nat, NEW i \in 1 .. m, NEW k \in 1 .. m, k # i
  PROVE  \E j \in 1 .. m - 1 : Place(i, j) = k
<1>1. CASE k < i
  <2>1. k \in 1 .. m - 1 /\ Place(i, k) = k
    BY <1>1 DEF Place
  <2> QED
    BY <2>1
<1>2. CASE k > i
  <2>1. k - 1 \in 1 .. m - 1 /\ Place(i, k - 1) = k
    BY <1>2 DEF Place
  <2> QED
    BY <2>1
<1> QED
  BY <1>1, <1>2

LEMMA DropsFacts ==
  ASSUME NEW s \in Seq(JobTypes), NEW t \in Seq(JobTypes), NEW i \in 1 .. Len(s), Drops(s, t, i)
  PROVE  /\ Len(s) \in Nat /\ Len(t) = Len(s) - 1 /\ i \in Nat
         /\ \A j \in 1 .. Len(t) : /\ t[j] = s[Place(i, j)] /\ Place(i, j) \in 1 .. Len(s)
                                   /\ Place(i, j) \in Nat /\ Place(i, j) > 0 /\ Place(i, j) # i
         /\ \A j, k \in 1 .. Len(t) : /\ Place(i, j) = Place(i, k) => j = k
                                      /\ Place(i, j) < Place(i, k) <=> j < k
                                      /\ Place(i, j) <= Place(i, k) <=> j <= k
         /\ \A k \in 1 .. Len(s) : k # i => \E j \in 1 .. Len(t) : Place(i, j) = k
<1>1. Len(s) \in Nat /\ Len(t) = Len(s) - 1 /\ i \in Nat
  BY LenProperties DEF Drops
<1>2. \A j \in 1 .. Len(t) : /\ t[j] = s[Place(i, j)] /\ Place(i, j) \in 1 .. Len(s)
                             /\ Place(i, j) \in Nat /\ Place(i, j) > 0 /\ Place(i, j) # i
  BY <1>1 DEF Drops, Place
<1>3. \A j, k \in 1 .. Len(t) : /\ Place(i, j) = Place(i, k) => j = k
                                /\ Place(i, j) < Place(i, k) <=> j < k
                                /\ Place(i, j) <= Place(i, k) <=> j <= k
  BY <1>1 DEF Place
<1>4. ASSUME NEW k \in 1 .. Len(s), k # i PROVE \E j \in 1 .. Len(t) : Place(i, j) = k
  <2>1. \E j \in 1 .. Len(s) - 1 : Place(i, j) = k
    BY <1>1, <1>4, DroppedPlaces
  <2> QED
    BY <1>1, <2>1
<1> QED
  BY <1>1, <1>2, <1>3, <1>4

LEMMA TypesDropped ==
  ASSUME NEW s \in Seq(JobTypes), NEW t \in Seq(JobTypes), NEW i \in 1 .. Len(s), Drops(s, t, i)
  PROVE  /\ \A type : HasType(t, type) => HasType(s, type)
         /\ \A type : s[i].type # type => (HasType(s, type) => HasType(t, type))
         /\ OneSeal(s) => OneSeal(t) /\ (s[i].type = "seal" => ~HasType(t, "seal"))
<1>1. /\ \A j \in 1 .. Len(t) : t[j] = s[Place(i, j)] /\ Place(i, j) \in 1 .. Len(s) /\ Place(i, j) # i
      /\ \A j, k \in 1 .. Len(t) : Place(i, j) = Place(i, k) => j = k
      /\ \A k \in 1 .. Len(s) : k # i => \E j \in 1 .. Len(t) : Place(i, j) = k
  BY DropsFacts
<1>2. \A type : HasType(t, type) => HasType(s, type)
  BY <1>1 DEF HasType
<1>3. ASSUME NEW type, s[i].type # type, HasType(s, type) PROVE HasType(t, type)
  <2>1. PICK k \in 1 .. Len(s) : s[k].type = type
    BY <1>3 DEF HasType
  <2>2. PICK j \in 1 .. Len(t) : Place(i, j) = k
    BY <1>1, <1>3, <2>1
  <2>3. t[j].type = type
    BY <1>1, <2>1, <2>2
  <2> QED
    BY <2>3 DEF HasType
<1>4. OneSeal(s) => OneSeal(t) /\ (s[i].type = "seal" => ~HasType(t, "seal"))
  BY <1>1 DEF HasType, OneSeal
<1> QED
  BY <1>2, <1>3, <1>4

\* Fewer effects may be due.
LEMMA LessDue ==
  ASSUME NEW js, NEW due, NEW due2, due2 \subseteq due, NEW f, Writes(js, due, f)
  PROVE  Writes(js, due2, f)
BY DEF Writes, Ordered, OnFile, Snapped

\* A job that is no write.
LEMMA OtherAdded ==
  ASSUME NEW s \in Seq(JobTypes), NEW t \in Seq(JobTypes), NEW x \in JobTypes, Adds(s, t, x),
         ~IsCommit(x), NEW due, NEW f, Writes(s, due, f),
         x.type = "merge" => due \subseteq x.snap.done /\ (x.snap.key = 0 => x.snap.done = {})
  PROVE  Writes(t, due, f) /\ \A k : Keyed(s, k, f) => Keyed(t, k, f)
<1>1. Len(s) \in Nat /\ Len(t) = Len(s) + 1 /\ t[Len(t)] = x /\ \A j \in 1 .. Len(s) : t[j] = s[j]
  BY LenProperties DEF Adds
<1>2. \A j \in 1 .. Len(t) : j \in 1 .. Len(s) \/ j = Len(t)
  BY <1>1
<1>3. Len(t) \in 1 .. Len(t) /\ \A j \in 1 .. Len(s) : j \in 1 .. Len(t)
  BY <1>1
<1>4. \A i, a : Later(s, i, a) => Later(t, i, a)
  BY <1>1, <1>3 DEF Later
<1>5. Writes(t, due, f)
  BY <1>1, <1>2, <1>4 DEF Writes, Ordered, OnFile, Snapped
<1>6. ASSUME NEW k, Keyed(s, k, f) PROVE Keyed(t, k, f)
  <2>1. ~HasType(t, "commit") => ~HasType(s, "commit")
    BY TypesAdded
  <2>2. \A i \in 1 .. Len(t) : Newest(t, i) => i \in 1 .. Len(s) /\ Newest(s, i)
    BY <1>1, <1>2, <1>3 DEF Newest
  <2> QED
    BY <1>1, <1>6, <2>1, <2>2 DEF Keyed
<1> QED
  BY <1>5, <1>6

\* A write of a state that has what is due, in key k.
LEMMA WriteAdded ==
  ASSUME NEW s \in Seq(JobTypes), NEW t \in Seq(JobTypes), NEW x \in Commits, Adds(s, t, x),
         NEW due, NEW due2, NEW f, Writes(s, due, f),
         \A a \in due2 : a \in due \/ a \in x.done, ~x.stale => due2 \subseteq x.done,
         HasType(s, "merge") => due2 \subseteq due
  PROVE  Writes(t, due2, f) /\ Keyed(t, x.key, f)
<1>1. Len(s) \in Nat /\ Len(t) = Len(s) + 1 /\ t[Len(t)] = x /\ \A j \in 1 .. Len(s) : t[j] = s[j]
  BY LenProperties DEF Adds
<1>2. \A j \in 1 .. Len(t) : (j \in 1 .. Len(s) \/ j = Len(t)) /\ j >= 0
  BY <1>1
<1>3. /\ Len(t) \in 1 .. Len(t) /\ Len(t) > 0
      /\ \A j \in 1 .. Len(s) : j \in 1 .. Len(t) /\ Len(t) > j /\ ~(Len(t) <= j)
  BY <1>1
<1>4. IsCommit(x) /\ x.type # "merge"
  BY DEF IsCommit, Commits
<1>5. \A i, a : Later(s, i, a) => Later(t, i, a)
  BY <1>1, <1>3 DEF Later
<1>6. \A a : a \in x.done => Later(t, 0, a) /\ \A i \in 1 .. Len(s) : Later(t, i, a)
  BY <1>1, <1>3, <1>4 DEF Later
<1>7. Ordered(t, due2)
  BY <1>1, <1>2, <1>5, <1>6 DEF Writes, Ordered
<1>8. OnFile(t, due2, f)
  BY <1>5, <1>6 DEF Writes, OnFile
<1>9. Snapped(t, due2)
  BY <1>1, <1>2, <1>4 DEF Writes, Snapped, HasType
<1>10. Keyed(t, x.key, f)
  <2>1. \A i \in 1 .. Len(t) : Newest(t, i) => i = Len(t)
    BY <1>1, <1>2, <1>3, <1>4 DEF Newest
  <2>2. HasType(t, "commit")
    BY <1>1, <1>3, <1>4 DEF HasType, IsCommit
  <2> QED
    BY <1>1, <2>1, <2>2 DEF Keyed
<1> QED
  BY <1>7, <1>8, <1>9, <1>10 DEF Writes

LEMMA OtherDropped ==
  ASSUME NEW s \in Seq(JobTypes), NEW t \in Seq(JobTypes), NEW i \in 1 .. Len(s), Drops(s, t, i),
         ~IsCommit(s[i]), NEW due, NEW f, Writes(s, due, f)
  PROVE  Writes(t, due, f) /\ \A k : Keyed(s, k, f) => Keyed(t, k, f)
<1>1. /\ Len(s) \in Nat /\ Len(t) = Len(s) - 1 /\ i \in Nat
      /\ \A j \in 1 .. Len(t) : /\ t[j] = s[Place(i, j)] /\ Place(i, j) \in 1 .. Len(s)
                                /\ Place(i, j) \in Nat /\ Place(i, j) > 0 /\ Place(i, j) # i
      /\ \A j, k \in 1 .. Len(t) : /\ Place(i, j) < Place(i, k) <=> j < k
                                   /\ Place(i, j) <= Place(i, k) <=> j <= k
  BY DropsFacts
<1>2. \A k \in 1 .. Len(s) : k # i => \E j \in 1 .. Len(t) : Place(i, j) = k
  BY DropsFacts
<1>3. ASSUME NEW j \in 1 .. Len(t), NEW a, Later(s, Place(i, j), a) PROVE Later(t, j, a)
  <2>1. PICK k \in 1 .. Len(s) : k > Place(i, j) /\ IsCommit(s[k]) /\ a \in s[k].done
    BY <1>3 DEF Later
  <2>2. PICK l \in 1 .. Len(t) : Place(i, l) = k
    BY <1>2, <2>1
  <2>3. l > j /\ IsCommit(t[l]) /\ a \in t[l].done
    BY <1>1, <2>1, <2>2
  <2> QED
    BY <2>3 DEF Later
<1>4. ASSUME NEW a, Later(s, 0, a) PROVE Later(t, 0, a)
  <2>1. PICK k \in 1 .. Len(s) : IsCommit(s[k]) /\ a \in s[k].done
    BY <1>4 DEF Later
  <2>2. PICK l \in 1 .. Len(t) : Place(i, l) = k
    BY <1>2, <2>1
  <2>3. l > 0 /\ IsCommit(t[l]) /\ a \in t[l].done
    BY <1>1, <2>1, <2>2
  <2> QED
    BY <2>3 DEF Later
<1>5. Writes(t, due, f)
  BY <1>1, <1>3, <1>4 DEF Writes, Ordered, OnFile, Snapped
<1>6. ASSUME NEW k, Keyed(s, k, f) PROVE Keyed(t, k, f)
  <2>1. ~HasType(t, "commit") => ~HasType(s, "commit")
    BY TypesDropped DEF IsCommit
  <2>2. ASSUME NEW j \in 1 .. Len(t), Newest(t, j) PROVE Newest(s, Place(i, j))
    <3>1. IsCommit(s[Place(i, j)])
      BY <1>1, <2>2 DEF Newest
    <3>2. ASSUME NEW l \in 1 .. Len(s), IsCommit(s[l]) PROVE l <= Place(i, j)
      <4>1. PICK m \in 1 .. Len(t) : Place(i, m) = l
        BY <1>2, <3>2
      <4>2. m <= j
        BY <1>1, <2>2, <3>2, <4>1 DEF Newest
      <4> QED
        BY <1>1, <4>1, <4>2
    <3> QED
      BY <3>1, <3>2 DEF Newest
  <2> QED
    BY <1>1, <1>6, <2>1, <2>2 DEF Keyed
<1> QED
  BY <1>5, <1>6

\* A write that is done makes those before it stale.
LEMMA WriteDone ==
  ASSUME NEW s \in Seq(JobTypes), NEW u \in Seq(JobTypes), NEW t \in Seq(JobTypes),
         NEW i \in 1 .. Len(s), IsCommit(s[i]), Len(u) = Len(s),
         \A j \in 1 .. Len(s) :
           u[j] = IF j < i /\ IsCommit(s[j]) THEN [s[j] EXCEPT !.stale = TRUE] ELSE s[j],
         Drops(u, t, i), NEW due, NEW f, Writes(s, due, f),
         NEW f2, f2.stale = s[i].stale, f2.key = s[i].key, f2.done = s[i].done
  PROVE  Writes(t, due, f2) /\ \A k : Keyed(s, k, f) => Keyed(t, k, f2)
<1>1. /\ Len(s) \in Nat /\ Len(t) = Len(s) - 1 /\ i \in Nat
      /\ \A j \in 1 .. Len(t) : /\ t[j] = u[Place(i, j)] /\ Place(i, j) \in 1 .. Len(s)
                                /\ Place(i, j) \in Nat /\ Place(i, j) > 0 /\ Place(i, j) # i
      /\ \A j, k \in 1 .. Len(t) : /\ Place(i, j) < Place(i, k) <=> j < k
                                   /\ Place(i, j) <= Place(i, k) <=> j <= k
  BY DropsFacts
<1>2. \A k \in 1 .. Len(s) : k # i => \E j \in 1 .. Len(t) : Place(i, j) = k
  BY DropsFacts
<1>3. ASSUME NEW j \in 1 .. Len(s)
      PROVE  /\ u[j].type = s[j].type /\ (IsCommit(u[j]) <=> IsCommit(s[j]))
             /\ IsCommit(s[j]) => /\ u[j].done = s[j].done /\ u[j].key = s[j].key
                                  /\ u[j].stale = IF j < i THEN TRUE ELSE s[j].stale
             /\ s[j].type = "merge" => u[j] = s[j]
  <2>1. s[j] \in JobTypes
    BY ElementOfSeq
  <2>2. CASE j < i /\ IsCommit(s[j])
    <3>1. s[j] \in Commits /\ u[j] = [s[j] EXCEPT !.stale = TRUE]
      BY <2>1, <2>2, JobKinds DEF IsCommit
    <3> QED
      BY <2>2, <3>1 DEF Commits, IsCommit
  <2>3. CASE ~(j < i /\ IsCommit(s[j]))
    BY <2>3 DEF IsCommit
  <2> QED
    BY <2>2, <2>3
<1>4. ASSUME NEW j \in 1 .. Len(t), NEW a, Place(i, j) > i, Later(s, Place(i, j), a) PROVE Later(t, j, a)
  <2>1. PICK k \in 1 .. Len(s) : k > Place(i, j) /\ IsCommit(s[k]) /\ a \in s[k].done
    BY <1>4 DEF Later
  <2>2. PICK l \in 1 .. Len(t) : Place(i, l) = k
    BY <1>1, <1>2, <1>4, <2>1
  <2>3. t[l] = u[k] /\ IsCommit(u[k]) /\ u[k].done = s[k].done
    BY <1>1, <1>3, <2>1, <2>2
  <2>4. j < l
    BY <1>1, <2>1, <2>2
  <2> QED
    BY <1>1, <2>1, <2>3, <2>4 DEF Later
<1>5. Ordered(t, due)
  <2> SUFFICES ASSUME NEW j \in 1 .. Len(t), IsCommit(t[j]), ~t[j].stale, NEW a \in due
               PROVE  a \in t[j].done \/ Later(t, j, a)
    BY DEF Ordered
  <2>1. /\ IsCommit(s[Place(i, j)]) /\ t[j].done = s[Place(i, j)].done
        /\ ~(Place(i, j) < i) /\ ~s[Place(i, j)].stale
    <3>1. PICK k \in 1 .. Len(s) : k = Place(i, j) /\ t[j] = u[k]
      BY <1>1
    <3>2. /\ IsCommit(s[k]) /\ u[k].done = s[k].done
          /\ u[k].stale = IF k < i THEN TRUE ELSE s[k].stale
      BY <1>3, <3>1
    <3> QED
      BY <3>1, <3>2
  <2>2. Place(i, j) > i
    BY <1>1, <2>1
  <2>3. a \in s[Place(i, j)].done \/ Later(s, Place(i, j), a)
    BY <1>1, <2>1 DEF Writes, Ordered
  <2> QED
    BY <1>4, <2>1, <2>2, <2>3
<1>6. OnFile(t, due, f2)
  <2> SUFFICES ASSUME ~f2.stale, NEW a \in due PROVE a \in f2.done \/ Later(t, 0, a)
    BY DEF OnFile
  <2>1. a \in s[i].done \/ Later(s, i, a)
    BY DEF Writes, Ordered
  <2>2. ASSUME Later(s, i, a) PROVE Later(t, 0, a)
    <3>1. PICK k \in 1 .. Len(s) : k > i /\ IsCommit(s[k]) /\ a \in s[k].done
      BY <2>2 DEF Later
    <3>2. PICK l \in 1 .. Len(t) : Place(i, l) = k
      BY <1>1, <1>2, <3>1
    <3>3. t[l] = u[k] /\ IsCommit(u[k]) /\ u[k].done = s[k].done
      BY <1>1, <1>3, <3>1, <3>2
    <3>4. l > 0
      OBVIOUS
    <3> QED
      BY <3>1, <3>3, <3>4 DEF Later
  <2> QED
    BY <2>1, <2>2
<1>7. Snapped(t, due)
  <2> SUFFICES ASSUME NEW j \in 1 .. Len(t), t[j].type = "merge"
               PROVE  due \subseteq t[j].snap.done /\ (t[j].snap.key = 0 => t[j].snap.done = {})
    BY DEF Snapped
  <2>1. Place(i, j) \in 1 .. Len(s) /\ t[j] = u[Place(i, j)]
    BY <1>1
  <2> DEFINE k == Place(i, j)
  <2>2. u[k].type = s[k].type /\ (s[k].type = "merge" => u[k] = s[k])
    BY <1>3, <2>1
  <2>3. s[k].type = "merge" /\ t[j] = s[k]
    BY <2>1, <2>2
  <2> QED
    BY <2>1, <2>3 DEF Writes, Snapped
<1>8. ASSUME NEW k, Keyed(s, k, f) PROVE Keyed(t, k, f2)
  <2>1. ASSUME NEW j \in 1 .. Len(t), Newest(t, j) PROVE t[j].stale \/ t[j].key = k
    <3>1. IsCommit(s[Place(i, j)]) /\ t[j].key = s[Place(i, j)].key
      <4>1. PICK l \in 1 .. Len(s) : l = Place(i, j) /\ t[j] = u[l]
        BY <1>1
      <4>2. IsCommit(u[l])
        BY <2>1, <4>1 DEF Newest
      <4>3. IsCommit(s[l]) /\ u[l].key = s[l].key
        BY <1>3, <4>2
      <4> QED
        BY <4>1, <4>3
    <3>2. CASE Place(i, j) < i
      BY <1>1, <1>3, <3>1, <3>2
    <3>3. CASE Place(i, j) > i
      <4>1. ASSUME NEW l \in 1 .. Len(s), IsCommit(s[l]) PROVE l <= Place(i, j)
        <5>1. CASE l = i
          BY <1>1, <3>3, <5>1
        <5>2. CASE l # i
          <6>1. PICK m \in 1 .. Len(t) : Place(i, m) = l
            BY <1>2, <5>2
          <6>2. IsCommit(t[m])
            BY <1>1, <1>3, <4>1, <6>1
          <6>3. m <= j
            BY <2>1, <6>2 DEF Newest
          <6> QED
            BY <1>1, <6>1, <6>3
        <5> QED
          BY <5>1, <5>2
      <4>2. Newest(s, Place(i, j))
        BY <3>1, <4>1 DEF Newest
      <4>3. s[Place(i, j)].stale \/ s[Place(i, j)].key = k
        BY <1>1, <1>8, <4>2 DEF Keyed
      <4> QED
        BY <1>1, <1>3, <3>1, <3>3, <4>3
    <3> QED
      BY <1>1, <3>2, <3>3
  <2>2. ASSUME ~HasType(t, "commit") PROVE f2.stale \/ Opens(k, f2)
    <3>1. ASSUME NEW l \in 1 .. Len(s), IsCommit(s[l]) PROVE l = i
      <4>1. ASSUME l # i PROVE FALSE
        <5>1. PICK m \in 1 .. Len(t) : Place(i, m) = l
          BY <1>2, <4>1
        <5>2. IsCommit(t[m])
          BY <1>1, <1>3, <3>1, <5>1
        <5> QED
          BY <2>2, <5>2 DEF HasType, IsCommit
      <4> QED
        BY <4>1
    <3>2. Newest(s, i)
      BY <1>1, <3>1 DEF Newest
    <3> QED
      BY <1>8, <3>2 DEF Keyed, Opens
  <2> QED
    BY <2>1, <2>2 DEF Keyed
<1> QED
  BY <1>5, <1>6, <1>7, <1>8 DEF Writes

-----------------------------------------------------------------------------
(* The invariant. *)

StoreType ==
  [gen : 0 .. MaxGen, loaded : BOOLEAN, done : SUBSET Actions, pass : BOOLEAN, lockout : BOOLEAN]

\* A passphrase is being set by one front end at a time, which had a store then.
JobsOK ==
  /\ jobs \in Seq(JobTypes) /\ OneSeal(jobs)
  /\ HasType(jobs, "seal") => keys < MaxKey /\ (HasStore \/ dropped = "sealing")

\* A locked device has no store, or the empty one it was started with.
StoresOK ==
  /\ HasStore => redux.gen > 0
  /\ file.key = 0 => file.done = {}
  /\ running /\ locked => ~redux.loaded /\ (HasStore => ~HasType(jobs, "merge"))

\* What is due is in the store, and in the file or on its way there.
EffectsOK ==
  /\ Writes(jobs, owed, file)
  /\ redux.loaded => owed \subseteq redux.done
  /\ ~running => owed \subseteq file.done
  /\ running /\ redux.loaded => Keyed(jobs, devKey.key, file)

IInv == TypeOK /\ JobsOK /\ StoresOK /\ EffectsOK /\ StuckOnlyUnsealed

LEMMA PendingTypes ==
  ASSUME JobsOK, NEW type
  PROVE  Pending(type) = {} <=> ~HasType(jobs, type)
<1>1. DOMAIN jobs = 1 .. Len(jobs)
  BY LenProperties DEF JobsOK
<1> QED
  BY <1>1 DEF Pending, HasType

LEMMA NewStoreFields ==
  /\ NoStore \in StoreType /\ ~NoStore.loaded
  /\ \A g \in 1 .. MaxGen, b \in BOOLEAN :
       /\ NewStore(g, b) \in StoreType /\ NewStore(g, b) # NoStore
       /\ NewStore(g, b).gen = g /\ NewStore(g, b).loaded = b /\ NewStore(g, b).done = {}
<1>1. NoStore \in StoreType /\ ~NoStore.loaded /\ NoStore.gen = 0
  BY PoolAssumption DEF NoStore, StoreType
<1>2. ASSUME NEW g \in 1 .. MaxGen, NEW b \in BOOLEAN
      PROVE  /\ NewStore(g, b) \in StoreType /\ NewStore(g, b) # NoStore
             /\ NewStore(g, b).gen = g /\ NewStore(g, b).loaded = b /\ NewStore(g, b).done = {}
  <2> DEFINE n == [NoStore EXCEPT !.gen = g]
  <2>1. g \in 0 .. MaxGen /\ g # 0
    BY PoolAssumption
  <2>2. n \in StoreType
    BY <1>1, <2>1 DEF StoreType
  <2>3. NewStore(g, b) = [n EXCEPT !.loaded = b]
    BY Zenon DEF NewStore
  <2> HIDE DEF n
  <2>4. NewStore(g, b) \in StoreType
    BY <2>2, <2>3 DEF StoreType
  <2>5. NewStore(g, b).gen = g /\ NewStore(g, b).loaded = b /\ NewStore(g, b).done = {}
    BY DEF NewStore, NoStore
  <2> QED
    BY <1>1, <2>1, <2>4, <2>5
<1> QED
  BY <1>1, <1>2

LEMMA StoreFacts ==
  ASSUME TypeOK, StoresOK
  PROVE  /\ redux \in StoreType /\ (redux.loaded => HasStore)
         /\ NoStore \in StoreType /\ ~NoStore.loaded
         /\ \A g \in 1 .. MaxGen, b \in BOOLEAN :
              /\ NewStore(g, b) \in StoreType /\ NewStore(g, b) # NoStore
              /\ NewStore(g, b).gen = g /\ NewStore(g, b).loaded = b /\ NewStore(g, b).done = {}
         /\ running /\ redux.loaded => devKey.open
<1>1. redux \in StoreType /\ (running => locked = ~devKey.open) /\ devKey.open \in BOOLEAN
  BY DEF TypeOK, StoreType
<1> QED
  BY <1>1, NewStoreFields DEF HasStore, StoresOK

\* A state is persisted.
LEMMA Persists ==
  ASSUME NEW js \in Seq(JobTypes), NEW s \in StoreType, devKey'.open \in BOOLEAN,
         devKey'.key \in 1 .. MaxKey, NEW due, NEW due2, NEW f, Writes(js, due, f),
         \A a \in due2 : a \in due \/ (devKey'.open /\ a \in s.done),
         s.loaded => due2 \subseteq s.done, HasType(js, "merge") => due2 \subseteq due
  PROVE  LET t == js \o Persisted(s) IN
         /\ t \in Seq(JobTypes) /\ Writes(t, due2, f)
         /\ \A type : type # "commit" => (HasType(t, type) <=> HasType(js, type))
         /\ OneSeal(js) => OneSeal(t)
         /\ devKey'.open \/ Keyed(js, devKey'.key, f) => Keyed(t, devKey'.key, f)
<1> DEFINE x == CommitJob(s, devKey'.key)
           t == js \o Persisted(s)
<1>1. /\ x \in Commits /\ x.type = "commit" /\ x.key = devKey'.key /\ x.done = s.done
      /\ ~x.stale => s.loaded
  BY DEF CommitJob, Commits, StoreType
<1>2. x \in JobTypes /\ (~x.stale => due2 \subseteq x.done)
  BY <1>1 DEF JobTypes
<1> HIDE DEF x
<1>3. CASE devKey'.open
  <2>1. t = js \o <<x>>
    BY <1>3 DEF Persisted, x
  <2>2. t \in Seq(JobTypes) /\ Adds(js, t, x)
    BY <1>2, <2>1, ConcatAdds
  <2> HIDE DEF t
  <2>3. \A a \in due2 : a \in due \/ a \in x.done
    BY <1>1
  <2>4. Writes(t, due2, f) /\ Keyed(t, x.key, f)
    BY <1>1, <1>2, <2>2, <2>3, WriteAdded
  <2>5. /\ \A type : HasType(t, type) <=> HasType(js, type) \/ x.type = type
        /\ OneSeal(js) /\ (x.type = "seal" => ~HasType(js, "seal")) => OneSeal(t)
    BY <1>2, <2>2, TypesAdded
  <2>6. OneSeal(js) => OneSeal(t)
    BY <1>1, <2>5
  <2>7. \A type : type # "commit" => (HasType(t, type) <=> HasType(js, type))
    BY <1>1, <2>5
  <2> QED
    BY <1>1, <2>2, <2>4, <2>6, <2>7 DEF t
<1>4. CASE ~devKey'.open
  <2>1. t = js
    BY <1>4, ConcatEmptySeq DEF Persisted
  <2>2. due2 \subseteq due
    BY <1>4
  <2> QED
    BY <1>4, <2>1, <2>2, LessDue
<1> QED
  BY <1>3, <1>4

-----------------------------------------------------------------------------
(* Requests. *)

LEMMA StartActionInv ==
  ASSUME IInv, NEW a \in Actions, StartAction(a)
  PROVE  IInv'
<1>1. UNCHANGED <<file, devKey, running, locked, redux, jobs, gens, keys, owed, dropped>>
  BY DEF StartAction
<1>2. TypeOK'
  BY <1>1 DEF StartAction, IInv, TypeOK, HasStore, StateType
<1>3. JobsOK' /\ StoresOK' /\ EffectsOK' /\ StuckOnlyUnsealed'
  BY <1>1 DEF IInv, JobsOK, StoresOK, EffectsOK, StuckOnlyUnsealed, HasStore
<1> QED
  BY <1>2, <1>3 DEF IInv

LEMMA LoseActionInv ==
  ASSUME IInv, NEW a \in Actions, LoseAction(a)
  PROVE  IInv'
<1>1. UNCHANGED <<file, devKey, running, locked, redux, jobs, gens, keys, owed, dropped>>
  BY DEF LoseAction
<1>2. TypeOK'
  BY <1>1 DEF LoseAction, IInv, TypeOK, HasStore, StateType
<1>3. JobsOK' /\ StoresOK' /\ EffectsOK' /\ StuckOnlyUnsealed'
  BY <1>1 DEF IInv, JobsOK, StoresOK, EffectsOK, StuckOnlyUnsealed, HasStore
<1> QED
  BY <1>2, <1>3 DEF IInv

\* What a state that is persisted keeps of the invariant.
LEMMA PersistedInv ==
  ASSUME IInv, TypeOK', NEW js \in Seq(JobTypes), OneSeal(js), Writes(js, owed, file),
         NEW s \in StoreType, redux' = s, jobs' = js \o Persisted(s),
         running', UNCHANGED <<file, dropped>>, s # NoStore, s.gen > 0,
         locked' => ~s.loaded /\ ~HasType(js, "merge"),
         HasType(js, "seal") => keys' < MaxKey,
         \A a \in owed' : a \in owed \/ (devKey'.open /\ a \in s.done),
         s.loaded => owed' \subseteq s.done, HasType(js, "merge") => owed' \subseteq owed
  PROVE  IInv'
<1>1. devKey'.open \in BOOLEAN /\ devKey'.key \in 1 .. MaxKey
  BY DEF TypeOK
<1>2. /\ jobs' \in Seq(JobTypes) /\ Writes(jobs', owed', file) /\ OneSeal(jobs')
      /\ \A type : type # "commit" => (HasType(jobs', type) <=> HasType(js, type))
      /\ devKey'.open => Keyed(jobs', devKey'.key, file)
  BY <1>1, Persists
<1>3. HasStore' /\ (s.loaded => devKey'.open)
  BY <1>1 DEF HasStore, NoStore, TypeOK
<1>4. HasType(jobs', "merge") <=> HasType(js, "merge")
  BY <1>2
<1>5. HasType(jobs', "seal") <=> HasType(js, "seal")
  BY <1>2
<1>6. JobsOK'
  BY <1>2, <1>3, <1>5 DEF JobsOK
<1>7. StoresOK'
  BY <1>4 DEF IInv, StoresOK
<1>8. EffectsOK'
  BY <1>2, <1>3 DEF EffectsOK
<1>9. StuckOnlyUnsealed'
  BY <1>3 DEF StuckOnlyUnsealed
<1> QED
  BY <1>6, <1>7, <1>8, <1>9 DEF IInv

LEMMA JobFacts ==
  ASSUME IInv
  PROVE  jobs \in Seq(JobTypes) /\ OneSeal(jobs) /\ Writes(jobs, owed, file)
BY DEF IInv, JobsOK, EffectsOK

LEMMA FinishActionInv ==
  ASSUME IInv, NEW a \in Actions, FinishAction(a)
  PROVE  IInv'
<1> DEFINE same == redux.gen = act[a].gen
           after == IF same THEN [redux EXCEPT !.done = @ \cup {a}] ELSE redux
<1>1. /\ running /\ act[a].pc = "running" /\ HasStore /\ redux' = after /\ jobs' = jobs \o Persisted(after)
      /\ act' = [act EXCEPT ![a].pc = "acked"]
      /\ owed' = IF same /\ redux.loaded /\ ~Unlocking THEN owed \cup {a} ELSE owed
      /\ UNCHANGED <<file, devKey, running, locked, gens, keys, dropped>>
  BY DEF FinishAction
<1>2. /\ redux \in StoreType /\ (redux.loaded => HasStore) /\ ~NoStore.loaded /\ NoStore.gen = 0
      /\ running /\ redux.loaded => devKey.open
  BY StoreFacts DEF IInv, NoStore
<1>3. /\ after \in StoreType /\ after.gen = redux.gen /\ after.loaded = redux.loaded
      /\ after.pass = redux.pass /\ after.lockout = redux.lockout
      /\ after.done = IF same THEN redux.done \cup {a} ELSE redux.done
  BY <1>2 DEF StoreType
<1> HIDE DEF after, same
<1>4. redux.gen > 0 /\ after # NoStore /\ after.gen > 0
  <2>1. redux.gen > 0
    BY <1>1 DEF IInv, StoresOK
  <2>2. after.gen # 0
    BY <1>2, <1>3, <2>1 DEF StoreType
  <2> QED
    BY <1>2, <1>3, <2>1, <2>2
<1>5. TypeOK'
  <2>1. HasStore'
    BY <1>1, <1>4 DEF HasStore, NoStore
  <2>2. owed' \subseteq Actions
    BY <1>1 DEF IInv, TypeOK
  <2>3. act' \in [Actions -> [pc : {"new", "running", "acked", "failed"}, gen : 0..MaxGen]]
    BY <1>1 DEF IInv, TypeOK
  <2>4. redux' \in StoreType
    BY <1>1, <1>3
  <2> QED
    BY <1>1, <2>1, <2>2, <2>3, <2>4 DEF IInv, TypeOK, StateType, StoreType
<1>6. locked' => ~after.loaded /\ ~HasType(jobs, "merge")
  BY <1>1, <1>3 DEF IInv, StoresOK
<1>7. HasType(jobs, "seal") => keys' < MaxKey
  BY <1>1 DEF IInv, JobsOK
<1>8. \A b \in owed' : b \in owed \/ (devKey'.open /\ b \in after.done)
  BY <1>1, <1>2, <1>3
<1>9. after.loaded => owed' \subseteq after.done
  BY <1>1, <1>3 DEF IInv, EffectsOK
<1>10. HasType(jobs, "merge") => owed' \subseteq owed
  <2>1. HasType(jobs, "merge") => Unlocking
    BY PendingTypes DEF IInv, Unlocking
  <2> QED
    BY <1>1, <2>1
<1> QED
  BY <1>1, <1>3, <1>4, <1>5, <1>6, <1>7, <1>8, <1>9, <1>10, JobFacts, PersistedInv

LEMMA SetPassphraseInv ==
  ASSUME IInv, SetPassphrase
  PROVE  IInv'
<1>1. /\ running /\ ~locked /\ HasStore /\ Pending("seal") = {} /\ redux' = [redux EXCEPT !.pass = TRUE]
      /\ jobs' = Append(jobs, SealJob) /\ keys + Cardinality(Pending("seal")) < MaxKey
      /\ UNCHANGED <<file, devKey, running, locked, act, gens, keys, owed, dropped>>
  BY DEF SetPassphrase, Serving, KeysLeft
<1>2. keys < MaxKey /\ ~HasType(jobs, "seal")
  <2>1. Cardinality(Pending("seal")) = 0
    BY <1>1, FS_EmptySet, Zenon
  <2>2. keys \in Nat
    BY PoolAssumption DEF IInv, TypeOK
  <2> QED
    BY <1>1, <2>1, <2>2, PendingTypes DEF IInv
<1>3. redux \in StoreType /\ jobs \in Seq(JobTypes) /\ NoStore.gen = 0 /\ redux.gen > 0
  BY <1>1, StoreFacts DEF IInv, JobsOK, NoStore, StoresOK
<1>4. /\ redux' \in StoreType /\ redux'.gen = redux.gen /\ redux'.loaded = redux.loaded
      /\ redux'.done = redux.done
  BY <1>1, <1>3 DEF StoreType
<1>5. redux' # NoStore
  <2>1. redux'.gen # NoStore.gen
    BY <1>3, <1>4 DEF StoreType
  <2> QED
    BY <2>1
<1>6. SealJob \in JobTypes /\ SealJob.type = "seal" /\ ~IsCommit(SealJob)
  BY DEF SealJob, JobTypes, Seals, IsCommit
<1>7. jobs' \in Seq(JobTypes) /\ Adds(jobs, jobs', SealJob)
  BY <1>1, <1>3, <1>6, ConcatAdds
<1>8. /\ Writes(jobs', owed, file) /\ \A k : Keyed(jobs, k, file) => Keyed(jobs', k, file)
  BY <1>3, <1>6, <1>7, OtherAdded DEF IInv, EffectsOK
<1>9. /\ \A type : HasType(jobs', type) <=> HasType(jobs, type) \/ SealJob.type = type
      /\ OneSeal(jobs')
  <2>1. /\ \A type : HasType(jobs', type) <=> HasType(jobs, type) \/ SealJob.type = type
        /\ OneSeal(jobs) /\ (SealJob.type = "seal" => ~HasType(jobs, "seal")) => OneSeal(jobs')
    BY <1>3, <1>6, <1>7, TypesAdded
  <2> QED
    BY <1>2, <2>1 DEF IInv, JobsOK
<1>10. TypeOK'
  <2>1. HasStore'
    BY <1>5 DEF HasStore, NoStore
  <2> QED
    BY <1>1, <1>4, <2>1 DEF IInv, TypeOK, StateType, StoreType
<1>11. JobsOK'
  BY <1>1, <1>2, <1>5, <1>7, <1>9 DEF JobsOK, HasStore, NoStore
<1>12. HasType(jobs', "merge") <=> HasType(jobs, "merge")
  BY <1>6, <1>9
<1>13. StoresOK'
  BY <1>1, <1>3, <1>4 DEF IInv, StoresOK
<1>14. EffectsOK'
  BY <1>1, <1>4, <1>8 DEF IInv, EffectsOK
<1>15. StuckOnlyUnsealed'
  BY <1>5 DEF StuckOnlyUnsealed, HasStore, NoStore
<1> QED
  BY <1>10, <1>11, <1>13, <1>14, <1>15 DEF IInv

\* There is a key for the passphrase that is being set.
LEMMA KeyKept ==
  ASSUME IInv, KeysLeft
  PROVE  keys + 1 \in 1 .. MaxKey /\ (HasType(jobs, "seal") => keys + 1 < MaxKey)
<1>1. keys \in Nat /\ MaxKey \in Nat
  BY PoolAssumption DEF IInv, TypeOK
<1>2. CASE HasType(jobs, "seal")
  <2>1. DOMAIN jobs = 1 .. Len(jobs) /\ OneSeal(jobs)
    BY LenProperties DEF IInv, JobsOK
  <2>2. PICK i \in 1 .. Len(jobs) : jobs[i].type = "seal"
    BY <1>2 DEF HasType
  <2>3. Pending("seal") = {i}
    BY <2>1, <2>2 DEF Pending, OneSeal
  <2>4. Cardinality({i}) = 1
    BY FS_Singleton
  <2>5. Cardinality(Pending("seal")) = 1
    BY <2>3, <2>4, Zenon
  <2> QED
    BY <1>1, <2>5 DEF KeysLeft
<1>3. CASE ~HasType(jobs, "seal")
  <2>1. Pending("seal") = {}
    BY <1>3, PendingTypes DEF IInv
  <2>2. Cardinality(Pending("seal")) = 0
    BY <2>1, FS_EmptySet, Zenon
  <2> QED
    BY <1>1, <1>3, <2>2 DEF KeysLeft
<1> QED
  BY <1>2, <1>3

LEMMA ClearPassphraseInv ==
  ASSUME IInv, ClearPassphrase
  PROVE  IInv'
<1> DEFINE s == PassphraseCleared(redux)
<1>1. /\ running /\ ~locked /\ HasStore /\ KeysLeft /\ redux' = s /\ jobs' = jobs \o Persisted(s)
      /\ keys' = keys + 1 /\ devKey' = [key |-> keys + 1, sealed |-> FALSE, open |-> TRUE]
      /\ UNCHANGED <<file, running, locked, act, gens, owed, dropped>>
  BY DEF ClearPassphrase, Serving
<1>2. redux \in StoreType /\ NoStore.gen = 0 /\ redux.gen > 0
  BY <1>1, StoreFacts DEF IInv, NoStore, StoresOK
<1>3. s \in StoreType /\ s.gen = redux.gen /\ s.loaded = redux.loaded /\ s.done = redux.done
  BY <1>2 DEF StoreType, PassphraseCleared
<1> HIDE DEF s
<1>4. s # NoStore /\ s.gen > 0
  BY <1>2, <1>3 DEF StoreType
<1>5. keys + 1 \in 1 .. MaxKey /\ (HasType(jobs, "seal") => keys' < MaxKey)
  BY <1>1, KeyKept
<1>6. TypeOK'
  <2>1. HasStore'
    BY <1>1, <1>4 DEF HasStore, NoStore
  <2> QED
    BY <1>1, <1>3, <1>5, <2>1 DEF IInv, TypeOK, StateType, StoreType
<1>7. s.loaded => owed' \subseteq s.done
  BY <1>1, <1>3 DEF IInv, EffectsOK
<1>8. ~locked'
  BY <1>1
<1>9. (\A a \in owed' : a \in owed \/ (devKey'.open /\ a \in s.done)) /\ owed' \subseteq owed
  BY <1>1
<1> QED
  BY <1>1, <1>3, <1>4, <1>5, <1>6, <1>7, <1>8, <1>9, JobFacts, PersistedInv

LEMMA SetLockoutInv ==
  ASSUME IInv, NEW on \in BOOLEAN, SetLockout(on)
  PROVE  IInv'
<1> DEFINE s == [redux EXCEPT !.lockout = on]
<1>1. /\ running /\ ~locked /\ HasStore /\ redux' = s /\ jobs' = jobs \o Persisted(s)
      /\ UNCHANGED <<file, devKey, running, locked, act, gens, keys, owed, dropped>>
  BY DEF SetLockout, Serving
<1>2. redux \in StoreType /\ NoStore.gen = 0 /\ redux.gen > 0
  BY <1>1, StoreFacts DEF IInv, NoStore, StoresOK
<1>3. s \in StoreType /\ s.gen = redux.gen /\ s.loaded = redux.loaded /\ s.done = redux.done
  BY <1>2 DEF StoreType
<1> HIDE DEF s
<1>4. s # NoStore /\ s.gen > 0
  BY <1>2, <1>3 DEF StoreType
<1>5. HasType(jobs, "seal") => keys' < MaxKey
  BY <1>1 DEF IInv, JobsOK
<1>6. TypeOK'
  <2>1. HasStore'
    BY <1>1, <1>4 DEF HasStore, NoStore
  <2> QED
    BY <1>1, <1>3, <2>1 DEF IInv, TypeOK, StateType, StoreType
<1>7. s.loaded => owed' \subseteq s.done
  BY <1>1, <1>3 DEF IInv, EffectsOK
<1>8. ~locked'
  BY <1>1
<1>9. (\A a \in owed' : a \in owed \/ (devKey'.open /\ a \in s.done)) /\ owed' \subseteq owed
  BY <1>1
<1> QED
  BY <1>1, <1>3, <1>4, <1>5, <1>6, <1>7, <1>8, <1>9, JobFacts, PersistedInv

LEMMA ResetDeviceInv ==
  ASSUME IInv, ResetDevice
  PROVE  IInv'
<1> DEFINE s == NewStore(gens + 1, TRUE)
<1>1. /\ running /\ locked /\ KeysLeft /\ redux' = s /\ jobs' = jobs \o Persisted(s)
      /\ keys' = keys + 1 /\ devKey' = [key |-> keys + 1, sealed |-> FALSE, open |-> TRUE]
      /\ gens < MaxGen /\ gens' = gens + 1 /\ locked' = FALSE /\ owed' = {}
      /\ UNCHANGED <<file, running, act, dropped>>
  BY DEF ResetDevice
<1>2. gens + 1 \in 1 .. MaxGen /\ gens + 1 > 0
  BY <1>1, PoolAssumption DEF IInv, TypeOK
<1>3. s \in StoreType /\ s # NoStore /\ s.gen = gens + 1
  BY <1>2, StoreFacts DEF IInv
<1> HIDE DEF s
<1>4. s # NoStore /\ s.gen > 0
  BY <1>2, <1>3
<1>5. keys + 1 \in 1 .. MaxKey /\ (HasType(jobs, "seal") => keys' < MaxKey)
  BY <1>1, KeyKept
<1>6. TypeOK'
  <2>1. HasStore'
    BY <1>1, <1>4 DEF HasStore, NoStore
  <2> QED
    BY <1>1, <1>2, <1>3, <1>5, <2>1 DEF IInv, TypeOK, StateType, StoreType
<1>7. s.loaded => owed' \subseteq s.done
  BY <1>1
<1>8. ~locked'
  BY <1>1
<1>9. (\A a \in owed' : a \in owed \/ (devKey'.open /\ a \in s.done)) /\ owed' \subseteq owed
  BY <1>1
<1> QED
  BY <1>1, <1>3, <1>4, <1>5, <1>6, <1>7, <1>8, <1>9, JobFacts, PersistedInv

-----------------------------------------------------------------------------
(* Locking and unlocking. *)

LEMMA LockDeviceInv ==
  ASSUME IInv, Serving, redux.pass \/ redux.lockout, LockDevice
  PROVE  IInv'
<1>1. /\ running /\ ~locked /\ HasStore /\ redux' = NoStore /\ locked' = devKey.sealed
      /\ devKey' = IF devKey.sealed THEN [devKey EXCEPT !.open = FALSE] ELSE devKey
      /\ dropped' = IF Pending("seal") # {} THEN "sealing" ELSE IF devKey.sealed THEN "sealed" ELSE "unsealed"
      /\ UNCHANGED <<file, running, act, jobs, gens, keys, owed>>
  BY DEF LockDevice, Serving
<1>2. NoStore \in StoreType /\ ~NoStore.loaded
  BY StoreFacts DEF IInv
<1>3. devKey.open /\ devKey' \in [key : 1..MaxKey, sealed : BOOLEAN, open : BOOLEAN]
      /\ (devKey'.open \/ devKey'.sealed) /\ locked' = ~devKey'.open
  BY <1>1 DEF IInv, TypeOK
<1>4. TypeOK'
  BY <1>1, <1>2, <1>3 DEF IInv, TypeOK, StateType, StoreType
<1>5. HasType(jobs, "seal") => dropped' = "sealing"
  BY <1>1, PendingTypes DEF IInv
<1>6. ~HasStore' /\ ~redux'.loaded
  BY <1>1, <1>2 DEF HasStore, NoStore
<1>7. JobsOK'
  BY <1>1, <1>5 DEF IInv, JobsOK, HasStore
<1>8. StoresOK'
  BY <1>1, <1>6 DEF IInv, StoresOK
<1>9. EffectsOK'
  BY <1>1, <1>6 DEF IInv, EffectsOK
<1>10. StuckOnlyUnsealed'
  BY <1>1 DEF StuckOnlyUnsealed
<1> QED
  BY <1>4, <1>7, <1>8, <1>9, <1>10 DEF IInv

LEMMA UnlockDeviceInv ==
  ASSUME IInv, UnlockDevice
  PROVE  IInv'
<1> DEFINE x == DeriveJob(devKey.key)
<1>1. /\ running /\ jobs' = Append(jobs, x)
      /\ UNCHANGED <<file, devKey, running, locked, redux, act, gens, keys, owed, dropped>>
  BY DEF UnlockDevice
<1>2. x \in JobTypes /\ x.type = "derive" /\ ~IsCommit(x)
  BY DEF DeriveJob, JobTypes, Derives, IsCommit, IInv, TypeOK
<1> HIDE DEF x
<1>3. jobs \in Seq(JobTypes) /\ jobs' \in Seq(JobTypes) /\ Adds(jobs, jobs', x)
  BY <1>1, <1>2, ConcatAdds DEF IInv, JobsOK
<1>4. /\ Writes(jobs', owed, file) /\ \A k : Keyed(jobs, k, file) => Keyed(jobs', k, file)
  BY <1>2, <1>3, OtherAdded DEF IInv, EffectsOK
<1>5. /\ \A type : HasType(jobs', type) <=> HasType(jobs, type) \/ x.type = type
      /\ OneSeal(jobs')
  <2>1. /\ \A type : HasType(jobs', type) <=> HasType(jobs, type) \/ x.type = type
        /\ OneSeal(jobs) /\ (x.type = "seal" => ~HasType(jobs, "seal")) => OneSeal(jobs')
    BY <1>2, <1>3, TypesAdded
  <2> QED
    BY <1>2, <2>1 DEF IInv, JobsOK
<1>6. /\ HasType(jobs', "merge") <=> HasType(jobs, "merge")
      /\ HasType(jobs', "seal") <=> HasType(jobs, "seal")
  BY <1>2, <1>5
<1>7. TypeOK'
  BY <1>1 DEF IInv, TypeOK, StateType, HasStore
<1>8. JobsOK'
  BY <1>1, <1>3, <1>5, <1>6 DEF IInv, JobsOK, HasStore
<1>9. StoresOK'
  BY <1>1, <1>6 DEF IInv, StoresOK, HasStore
<1>10. EffectsOK'
  BY <1>1, <1>4 DEF IInv, EffectsOK
<1>11. StuckOnlyUnsealed'
  BY <1>1 DEF IInv, StuckOnlyUnsealed, HasStore
<1> QED
  BY <1>7, <1>8, <1>9, <1>10, <1>11 DEF IInv

-----------------------------------------------------------------------------
(* Jobs that finish. *)

LEMMA TakenFacts ==
  ASSUME IInv, NEW i \in Taken
  PROVE  /\ i \in 1 .. Len(jobs) /\ jobs[i] \in JobTypes /\ running
         /\ Without(jobs, i) \in Seq(JobTypes) /\ Drops(jobs, Without(jobs, i), i)
<1>1. jobs \in Seq(JobTypes) /\ DOMAIN jobs = 1 .. Len(jobs)
  BY LenProperties DEF IInv, JobsOK
<1>2. i \in 1 .. Len(jobs)
  BY <1>1 DEF Taken
<1>3. running
  <2>1. jobs # <<>>
    BY <1>2
  <2> QED
    BY <2>1 DEF IInv, TypeOK
<1>4. jobs[i] \in JobTypes
  BY <1>1, <1>2, ElementOfSeq
<1>5. Without(jobs, i) \in Seq(JobTypes) /\ Drops(jobs, Without(jobs, i), i)
  BY <1>1, <1>2, WithoutDrops
<1> QED
  BY <1>2, <1>3, <1>4, <1>5

LEMMA FinishCommitInv ==
  ASSUME IInv, NEW i \in Taken, FinishCommit(i)
  PROVE  IInv'
<1> DEFINE u == Overtaken(i)
<1>1. /\ jobs[i].type = "commit" /\ jobs' = Without(u, i)
      /\ file' = [done |-> jobs[i].done, pass |-> jobs[i].pass, lockout |-> jobs[i].lockout,
                  key |-> jobs[i].key, stale |-> jobs[i].stale]
      /\ UNCHANGED <<devKey, running, locked, redux, act, gens, keys, owed, dropped>>
  BY DEF FinishCommit
<1>2. i \in 1 .. Len(jobs) /\ running /\ jobs \in Seq(JobTypes) /\ jobs[i] \in Commits /\ IsCommit(jobs[i])
  BY <1>1, TakenFacts, JobFacts, JobKinds DEF IsCommit
<1>3. Len(jobs) \in Nat /\ DOMAIN jobs = 1 .. Len(jobs)
  BY <1>2, LenProperties
<1>4. ASSUME NEW j \in 1 .. Len(jobs)
      PROVE  /\ u[j] = IF j < i /\ IsCommit(jobs[j]) THEN [jobs[j] EXCEPT !.stale = TRUE] ELSE jobs[j]
             /\ u[j] \in JobTypes /\ u[j].type = jobs[j].type
  <2>1. u[j] = IF j < i /\ IsCommit(jobs[j]) THEN [jobs[j] EXCEPT !.stale = TRUE] ELSE jobs[j]
    BY <1>3 DEF Overtaken, IsCommit
  <2>2. jobs[j] \in JobTypes
    BY <1>2, ElementOfSeq
  <2>3. CASE j < i /\ IsCommit(jobs[j])
    <3>1. jobs[j] \in Commits
      BY <2>2, <2>3, JobKinds DEF IsCommit
    <3>2. u[j] = [jobs[j] EXCEPT !.stale = TRUE]
      BY <2>1, <2>3
    <3> HIDE DEF u
    <3>3. u[j] \in Commits /\ u[j].type = jobs[j].type
      BY <3>1, <3>2 DEF Commits
    <3> QED
      BY <2>1, <3>3 DEF JobTypes
  <2>4. CASE ~(j < i /\ IsCommit(jobs[j]))
    BY <2>1, <2>2, <2>4
  <2> QED
    BY <2>1, <2>3, <2>4
<1>5. u \in Seq(JobTypes) /\ Len(u) = Len(jobs)
  <2>1. u \in [1 .. Len(jobs) -> JobTypes]
    <3>1. DOMAIN u = 1 .. Len(jobs) /\ u = [j \in DOMAIN u |-> u[j]]
      BY <1>3 DEF Overtaken
    <3> HIDE DEF u
    <3> QED
      BY <1>4, <3>1
  <2> HIDE DEF u
  <2>2. u \in Seq(JobTypes)
    BY <1>3, <2>1, SeqDef
  <2>3. DOMAIN u = 1 .. Len(u) /\ Len(u) \in Nat /\ DOMAIN u = 1 .. Len(jobs)
    BY <2>1, <2>2, LenProperties
  <2>4. ASSUME NEW m \in Nat, NEW n \in Nat, 1 .. m = 1 .. n PROVE m <= n
    <3>1. m = 0 \/ m \in 1 .. n
      BY <2>4
    <3> QED
      BY <3>1
  <2>5. \A m, n \in Nat : 1 .. m = 1 .. n => m = n
    BY <2>4
  <2>6. 1 .. Len(u) = 1 .. Len(jobs)
    BY <2>3, Zenon
  <2>7. Len(u) = Len(jobs)
    BY <1>3, <2>3, <2>5, <2>6, Zenon
  <2> QED
    BY <2>2, <2>7, Zenon
<1> HIDE DEF u
<1>6. jobs' \in Seq(JobTypes) /\ Drops(u, jobs', i)
  BY <1>1, <1>2, <1>5, WithoutDrops
<1>7. OneSeal(u) /\ \A type : HasType(u, type) <=> HasType(jobs, type)
  BY <1>4, <1>5 DEF IInv, JobsOK, OneSeal, HasType
<1>8. OneSeal(jobs') /\ \A type : HasType(jobs', type) => HasType(jobs, type)
  BY <1>2, <1>5, <1>6, <1>7, TypesDropped
<1>9. file' \in StateType /\ file'.key > 0
      /\ file'.stale = jobs[i].stale /\ file'.key = jobs[i].key /\ file'.done = jobs[i].done
  BY <1>1, <1>2, PoolAssumption DEF Commits, StateType
<1>10. Writes(jobs', owed, file') /\ \A k : Keyed(jobs, k, file) => Keyed(jobs', k, file')
  BY <1>2, <1>4, <1>5, <1>6, <1>9, WriteDone, JobFacts
<1>11. TypeOK'
  BY <1>1, <1>2, <1>9 DEF IInv, TypeOK, HasStore
<1>12. JobsOK'
  BY <1>1, <1>6, <1>8 DEF IInv, JobsOK, HasStore
<1>13. StoresOK'
  BY <1>1, <1>8, <1>9 DEF IInv, StoresOK, HasStore
<1>14. EffectsOK'
  BY <1>1, <1>2, <1>10 DEF IInv, EffectsOK
<1>15. StuckOnlyUnsealed'
  BY <1>1 DEF IInv, StuckOnlyUnsealed, HasStore
<1> QED
  BY <1>11, <1>12, <1>13, <1>14, <1>15 DEF IInv

LEMMA JobGone ==
  ASSUME IInv, NEW i \in Taken, ~IsCommit(jobs[i])
  PROVE  LET js == Without(jobs, i) IN
         /\ js \in Seq(JobTypes) /\ OneSeal(js) /\ Writes(js, owed, file)
         /\ \A type : HasType(js, type) => HasType(jobs, type)
         /\ \A k : Keyed(jobs, k, file) => Keyed(js, k, file)
         /\ jobs[i].type = "seal" => ~HasType(js, "seal")
<1> DEFINE js == Without(jobs, i)
<1>1. i \in 1 .. Len(jobs) /\ js \in Seq(JobTypes) /\ Drops(jobs, js, i)
  BY TakenFacts
<1> HIDE DEF js
<1>2. /\ OneSeal(js) /\ (jobs[i].type = "seal" => ~HasType(js, "seal"))
      /\ \A type : HasType(js, type) => HasType(jobs, type)
  BY <1>1, JobFacts, TypesDropped
<1>3. Writes(js, owed, file) /\ \A k : Keyed(jobs, k, file) => Keyed(js, k, file)
  BY <1>1, JobFacts, OtherDropped
<1> QED
  BY <1>1, <1>2, <1>3 DEF js

LEMMA FinishSealInv ==
  ASSUME IInv, NEW i \in Taken, FinishSeal(i)
  PROVE  IInv'
<1> DEFINE js == Without(jobs, i)
<1>1. /\ jobs[i].type = "seal" /\ keys' = keys + 1 /\ locked' = FALSE
      /\ devKey' = [key |-> keys + 1, sealed |-> TRUE, open |-> TRUE]
      /\ jobs' = js \o (IF HasStore THEN Persisted(redux) ELSE <<>>)
      /\ UNCHANGED <<file, running, redux, act, gens, owed, dropped>>
  BY DEF FinishSeal
<1>2. /\ js \in Seq(JobTypes) /\ OneSeal(js) /\ Writes(js, owed, file) /\ ~HasType(js, "seal")
  BY <1>1, JobGone DEF IsCommit
<1>3. running /\ HasType(jobs, "seal") /\ keys + 1 \in 1 .. MaxKey
  <2>1. running /\ HasType(jobs, "seal")
    BY <1>1, TakenFacts DEF HasType
  <2> QED
    BY <2>1, PoolAssumption DEF IInv, JobsOK, TypeOK
<1>4. redux \in StoreType /\ (redux.loaded => HasStore)
  BY StoreFacts DEF IInv
<1> HIDE DEF js
<1>5. TypeOK'
  BY <1>1, <1>3 DEF IInv, TypeOK, StateType, HasStore
<1>6. CASE HasStore
  <2>1. jobs' = js \o Persisted(redux)
    BY <1>1, <1>6
  <2>2. redux' = redux /\ redux # NoStore /\ redux.gen > 0 /\ running' /\ ~locked'
    BY <1>1, <1>3, <1>6 DEF IInv, StoresOK, HasStore
  <2>3. (\A a \in owed' : a \in owed \/ (devKey'.open /\ a \in redux.done)) /\ owed' \subseteq owed
    BY <1>1
  <2>4. redux.loaded => owed' \subseteq redux.done
    BY <1>1 DEF IInv, EffectsOK
  <2> QED
    BY <1>1, <1>2, <1>4, <1>5, <2>1, <2>2, <2>3, <2>4, PersistedInv
<1>7. CASE ~HasStore
  <2>1. jobs' = js
    BY <1>1, <1>2, <1>7, ConcatEmptySeq
  <2>2. ~HasStore' /\ ~redux'.loaded /\ dropped' = "sealing"
    BY <1>1, <1>3, <1>4, <1>7 DEF IInv, JobsOK, HasStore
  <2>3. JobsOK'
    BY <1>2, <2>1 DEF JobsOK
  <2>4. StoresOK'
    BY <1>1, <2>2 DEF IInv, StoresOK
  <2>5. EffectsOK'
    BY <1>1, <1>2, <1>3, <2>1, <2>2 DEF EffectsOK
  <2>6. StuckOnlyUnsealed'
    BY <2>2 DEF StuckOnlyUnsealed
  <2> QED
    BY <1>5, <2>3, <2>4, <2>5, <2>6 DEF IInv
<1> QED
  BY <1>6, <1>7

LEMMA FinishDeriveInv ==
  ASSUME IInv, NEW i \in Taken, FinishDerive(i)
  PROVE  IInv'
<1> DEFINE js == Without(jobs, i)
           x == MergeJob(file, jobs[i].key)
           s == NewStore(gens + 1, FALSE)
<1>1. /\ jobs[i].type = "derive" /\ gens < MaxGen /\ gens' = gens + 1 /\ locked' = FALSE
      /\ devKey' = [key |-> jobs[i].key, sealed |-> TRUE, open |-> TRUE]
      /\ redux' = s /\ jobs' = Append(js, x)
      /\ owed' = IF file.stale \/ Pending("commit") # {} THEN owed \cap file.done ELSE owed
      /\ UNCHANGED <<file, running, act, keys, dropped>>
  BY DEF FinishDerive
<1>2. /\ js \in Seq(JobTypes) /\ OneSeal(js) /\ Writes(js, owed, file)
      /\ \A type : HasType(js, type) => HasType(jobs, type)
  BY <1>1, JobGone DEF IsCommit
<1>3. running /\ jobs[i].key \in 1 .. MaxKey
  <2>1. running /\ jobs[i] \in Derives
    BY <1>1, TakenFacts, JobKinds
  <2> QED
    BY <2>1 DEF Derives
<1>4. gens + 1 \in 1 .. MaxGen /\ gens + 1 > 0
  BY <1>1, PoolAssumption DEF IInv, TypeOK
<1>5. s \in StoreType /\ s # NoStore /\ s.gen > 0 /\ ~s.loaded
  <2>1. \A b \in BOOLEAN : NewStore(gens + 1, b) \in StoreType /\ NewStore(gens + 1, b) # NoStore
                           /\ NewStore(gens + 1, b).gen = gens + 1 /\ NewStore(gens + 1, b).loaded = b
    BY <1>4, StoreFacts DEF IInv
  <2> QED
    BY <1>4, <2>1
<1>6. /\ x \in JobTypes /\ x.type = "merge" /\ ~IsCommit(x) /\ x.snap = file
  BY <1>3 DEF MergeJob, JobTypes, Merges, IsCommit, IInv, TypeOK
<1> HIDE DEF s, js, x
<1>7. owed' \subseteq file.done /\ owed' \subseteq owed
  <2>1. CASE file.stale \/ Pending("commit") # {}
    BY <1>1, <2>1
  <2>2. CASE ~file.stale /\ Pending("commit") = {}
    <3>1. ~HasType(jobs, "commit")
      BY <2>2, PendingTypes DEF IInv
    <3>2. \A a : ~Later(jobs, 0, a)
      BY <3>1 DEF Later, HasType, IsCommit
    <3> QED
      BY <1>1, <2>2, <3>2 DEF IInv, EffectsOK, Writes, OnFile
  <2> QED
    BY <2>1, <2>2 DEF IInv, TypeOK, StateType
<1>8. Writes(js, owed', file)
  BY <1>2, <1>7, LessDue
<1>9. jobs' \in Seq(JobTypes) /\ Adds(js, jobs', x)
  BY <1>1, <1>2, <1>6, ConcatAdds
<1>10. Writes(jobs', owed', file)
  <2>1. owed' \subseteq x.snap.done /\ (x.snap.key = 0 => x.snap.done = {})
    BY <1>6, <1>7 DEF IInv, StoresOK
  <2> QED
    BY <1>2, <1>6, <1>8, <1>9, <2>1, OtherAdded
<1>11. /\ \A type : HasType(jobs', type) <=> HasType(js, type) \/ x.type = type
       /\ OneSeal(jobs')
  <2>1. /\ \A type : HasType(jobs', type) <=> HasType(js, type) \/ x.type = type
        /\ OneSeal(js) /\ (x.type = "seal" => ~HasType(js, "seal")) => OneSeal(jobs')
    BY <1>2, <1>6, <1>9, TypesAdded
  <2> QED
    BY <1>2, <1>6, <2>1
<1>12. HasType(jobs', "seal") => keys < MaxKey
  BY <1>2, <1>6, <1>11 DEF IInv, JobsOK
<1>13. HasStore' /\ redux'.gen > 0 /\ ~redux'.loaded /\ ~locked'
  BY <1>1, <1>5 DEF HasStore, NoStore
<1>14. TypeOK'
  BY <1>1, <1>3, <1>4, <1>5, <1>7, <1>13 DEF IInv, TypeOK, StateType, StoreType
<1>15. JobsOK'
  BY <1>1, <1>9, <1>11, <1>12, <1>13 DEF JobsOK
<1>16. StoresOK'
  BY <1>1, <1>13 DEF IInv, StoresOK
<1>17. EffectsOK'
  BY <1>1, <1>3, <1>10, <1>13 DEF EffectsOK
<1>18. StuckOnlyUnsealed'
  BY <1>13 DEF StuckOnlyUnsealed
<1> QED
  BY <1>14, <1>15, <1>16, <1>17, <1>18 DEF IInv

\* What a store has once the file is loaded.
LEMMA LoadedFields ==
  ASSUME NEW s \in StoreType, NEW f \in StateType
  PROVE  /\ Loaded(s, f) \in StoreType /\ Loaded(s, f).gen = s.gen /\ Loaded(s, f).loaded
         /\ Loaded(s, f).done = IF f.key = 0 THEN s.done ELSE f.done
<1>1. CASE f.key = 0
  BY <1>1 DEF Loaded, StoreType
<1>2. CASE f.key # 0
  <2>1. Loaded(s, f) = [gen |-> s.gen, loaded |-> TRUE, done |-> f.done,
                        pass |-> f.pass, lockout |-> f.lockout]
    BY <1>2 DEF Loaded, StoreType
  <2> QED
    BY <1>2, <2>1 DEF StoreType, StateType
<1> QED
  BY <1>1, <1>2

LEMMA FinishMergeInv ==
  ASSUME IInv, NEW i \in Taken, FinishMerge(i)
  PROVE  IInv'
<1> DEFINE js == Without(jobs, i)
           f == jobs[i].snap
           s == Loaded(redux, f)
<1>1. jobs[i].type = "merge" /\ ~IsCommit(jobs[i])
  BY DEF FinishMerge, IsCommit
<1>2. /\ js \in Seq(JobTypes) /\ OneSeal(js) /\ Writes(js, owed, file)
      /\ \A type : HasType(js, type) => HasType(jobs, type)
      /\ \A k : Keyed(jobs, k, file) => Keyed(js, k, file)
  BY <1>1, JobGone
<1>3. /\ i \in 1 .. Len(jobs) /\ running /\ HasType(jobs, "merge") /\ f \in StateType
  <2>1. i \in 1 .. Len(jobs) /\ running /\ jobs[i] \in Merges
    BY <1>1, TakenFacts, JobKinds
  <2> QED
    BY <1>1, <2>1 DEF Merges, HasType
<1>4. redux \in StoreType /\ NoStore.gen = 0
  BY StoreFacts DEF IInv, NoStore
<1>5. owed \subseteq f.done /\ (f.key = 0 => f.done = {})
  BY <1>1, <1>3 DEF IInv, EffectsOK, Writes, Snapped
<1>6. HasType(js, "seal") => keys < MaxKey
  BY <1>2 DEF IInv, JobsOK
<1>7. CASE Opens(jobs[i].key, f) /\ HasStore
  <2>1. /\ redux' = s /\ jobs' = js \o Persisted(s)
        /\ UNCHANGED <<file, devKey, running, locked, act, gens, keys, owed, dropped>>
    BY <1>7 DEF FinishMerge
  <2>2. /\ s \in StoreType /\ s.gen = redux.gen /\ s.loaded
        /\ s.done = IF f.key = 0 THEN redux.done ELSE f.done
    BY <1>3, <1>4, LoadedFields
  <2> HIDE DEF s, js
  <2>3. ~locked' /\ s.gen > 0 /\ s # NoStore
    <3>1. ~locked /\ redux.gen > 0
      BY <1>3, <1>7 DEF IInv, StoresOK
    <3> QED
      BY <1>4, <2>1, <2>2, <3>1 DEF StoreType
  <2>4. HasStore'
    BY <2>1, <2>3 DEF HasStore, NoStore
  <2>5. TypeOK'
    BY <1>3, <2>1, <2>2, <2>4 DEF IInv, TypeOK, StateType, StoreType
  <2>6. (\A a \in owed' : a \in owed \/ (devKey'.open /\ a \in s.done)) /\ owed' \subseteq owed
    BY <2>1
  <2>7. owed' \subseteq s.done
    BY <1>5, <2>1, <2>2
  <2>8. running' /\ (HasType(js, "seal") => keys' < MaxKey)
    BY <1>3, <1>6, <2>1
  <2> QED
    BY <1>2, <2>1, <2>2, <2>3, <2>5, <2>6, <2>7, <2>8, PersistedInv
<1>8. CASE ~(Opens(jobs[i].key, f) /\ HasStore)
  <2>1. /\ jobs' = js
        /\ UNCHANGED <<file, devKey, running, locked, redux, act, gens, keys, owed, dropped>>
    BY <1>8 DEF FinishMerge
  <2> HIDE DEF js
  <2>2. TypeOK'
    BY <1>3, <2>1 DEF IInv, TypeOK, StateType, HasStore
  <2>3. JobsOK'
    BY <1>2, <2>1 DEF IInv, JobsOK, HasStore
  <2>4. StoresOK'
    BY <1>2, <2>1 DEF IInv, StoresOK, HasStore
  <2>5. EffectsOK'
    BY <1>2, <1>3, <2>1 DEF IInv, EffectsOK
  <2>6. StuckOnlyUnsealed'
    BY <2>1 DEF IInv, StuckOnlyUnsealed, HasStore
  <2> QED
    BY <2>2, <2>3, <2>4, <2>5, <2>6 DEF IInv
<1> QED
  BY <1>7, <1>8

-----------------------------------------------------------------------------
(* The end of the process and its start. *)

LEMMA NoJobs ==
  ASSUME NEW due, NEW f, due \subseteq f.done
  PROVE  /\ <<>> \in Seq(JobTypes) /\ OneSeal(<<>>) /\ (\A type : ~HasType(<<>>, type))
         /\ Writes(<<>>, due, f) /\ \A k : Opens(k, f) => Keyed(<<>>, k, f)
<1>1. Len(<<>>) = 0 /\ <<>> \in Seq(JobTypes)
  OBVIOUS
<1>2. 1 .. Len(<<>>) = {}
  BY <1>1
<1> QED
  BY <1>1, <1>2 DEF OneSeal, HasType, Writes, Ordered, OnFile, Snapped, Keyed

LEMMA ExitInv ==
  ASSUME IInv, Exit
  PROVE  IInv'
<1> DEFINE onTheWay == UNION {jobs[i].done : i \in Pending("commit")}
<1>1. /\ ~running' /\ redux' = NoStore /\ jobs' = <<>> /\ locked' = FALSE
      /\ act' = [a \in Actions |-> IF act[a].pc = "running" THEN [act[a] EXCEPT !.pc = "failed"] ELSE act[a]]
      /\ owed' = IF file.stale THEN owed \cap file.done ELSE owed \ (onTheWay \ file.done)
      /\ UNCHANGED <<file, devKey, gens, keys, dropped>>
  BY DEF Exit
<1>2. NoStore \in StoreType /\ ~NoStore.loaded
  BY StoreFacts DEF IInv
<1>3. owed' \subseteq file.done /\ owed' \subseteq owed
  <2>1. CASE file.stale
    BY <1>1, <2>1
  <2>2. CASE ~file.stale
    <3>1. ASSUME NEW a \in owed, a \notin file.done PROVE a \in onTheWay
      <4>1. Later(jobs, 0, a)
        BY <2>2, <3>1, JobFacts DEF Writes, OnFile
      <4>2. PICK i \in 1 .. Len(jobs) : jobs[i].type = "commit" /\ a \in jobs[i].done
        BY <4>1 DEF Later, IsCommit
      <4>3. i \in Pending("commit")
        BY <4>2, JobFacts, LenProperties DEF Pending
      <4> QED
        BY <4>2, <4>3
    <3> HIDE DEF onTheWay
    <3> QED
      BY <1>1, <2>2, <3>1
  <2> QED
    BY <2>1, <2>2 DEF IInv, TypeOK, StateType
<1>4. /\ jobs' \in Seq(JobTypes) /\ OneSeal(jobs') /\ (\A type : ~HasType(jobs', type))
      /\ Writes(jobs', owed', file')
  BY <1>1, <1>3, NoJobs
<1>5. act' \in [Actions -> [pc : {"new", "running", "acked", "failed"}, gen : 0..MaxGen]]
  BY <1>1 DEF IInv, TypeOK
<1>6. ~HasStore' /\ ~redux'.loaded
  BY <1>1, <1>2 DEF HasStore, NoStore
<1>7. TypeOK'
  BY <1>1, <1>2, <1>3, <1>5, <1>6 DEF IInv, TypeOK, StateType, StoreType
<1>8. JobsOK' /\ StuckOnlyUnsealed'
  BY <1>1, <1>4 DEF JobsOK, StuckOnlyUnsealed
<1>9. StoresOK'
  BY <1>1, <1>6 DEF IInv, StoresOK
<1>10. EffectsOK'
  BY <1>1, <1>3, <1>4, <1>6 DEF EffectsOK
<1> QED
  BY <1>7, <1>8, <1>9, <1>10 DEF IInv

LEMMA StartInv ==
  ASSUME IInv, Start
  PROVE  IInv'
<1> DEFINE s == NewStore(gens + 1, FALSE)
           t == Loaded(s, file)
<1>1. /\ ~running /\ gens < MaxGen /\ running' = TRUE /\ gens' = gens + 1
      /\ (devKey.open => Opens(devKey.key, file)) /\ locked' = ~devKey.open
      /\ redux' = IF devKey.open THEN t ELSE s
      /\ UNCHANGED <<file, devKey, act, jobs, keys, owed, dropped>>
  BY DEF Start
<1>2. gens + 1 \in 1 .. MaxGen /\ gens + 1 > 0 /\ file \in StateType
  BY <1>1, PoolAssumption DEF IInv, TypeOK
<1>3. s \in StoreType /\ s.gen = gens + 1 /\ s.done = {} /\ ~s.loaded /\ NoStore.gen = 0
  <2>1. \A b \in BOOLEAN : NewStore(gens + 1, b) \in StoreType /\ NewStore(gens + 1, b).done = {}
                           /\ NewStore(gens + 1, b).gen = gens + 1 /\ NewStore(gens + 1, b).loaded = b
    BY <1>2, StoreFacts DEF IInv
  <2> QED
    BY <1>2, <2>1 DEF NoStore
<1> HIDE DEF s
<1>4. /\ t \in StoreType /\ t.gen = s.gen /\ t.done = IF file.key = 0 THEN s.done ELSE file.done
  BY <1>2, <1>3, LoadedFields
<1>5. jobs = <<>> /\ owed \subseteq file.done /\ (file.key = 0 => file.done = {})
  BY <1>1 DEF IInv, TypeOK, EffectsOK, StoresOK
<1> HIDE DEF t
<1>6. redux' \in StoreType /\ redux'.gen > 0 /\ (devKey.open => owed \subseteq redux'.done)
  BY <1>1, <1>2, <1>3, <1>4, <1>5
<1>7. redux'.loaded => devKey.open
  BY <1>1, <1>3
<1>8. HasStore'
  <2>1. redux' # NoStore
    BY <1>3, <1>6 DEF StoreType
  <2> QED
    BY <2>1 DEF HasStore, NoStore
<1>9. /\ jobs' \in Seq(JobTypes) /\ OneSeal(jobs') /\ (\A type : ~HasType(jobs', type))
      /\ Writes(jobs', owed', file') /\ \A k : Opens(k, file) => Keyed(jobs', k, file')
  <2>1. jobs' = <<>> /\ owed' = owed /\ file' = file
    BY <1>1, <1>5
  <2> QED
    BY <1>5, <2>1, NoJobs
<1>10. TypeOK'
  BY <1>1, <1>2, <1>6 DEF IInv, TypeOK, StateType, StoreType
<1>11. JobsOK' /\ StuckOnlyUnsealed'
  BY <1>8, <1>9 DEF JobsOK, StuckOnlyUnsealed
<1>12. StoresOK'
  BY <1>1, <1>6, <1>7, <1>9 DEF IInv, StoresOK
<1>13. EffectsOK'
  BY <1>1, <1>6, <1>7, <1>9 DEF EffectsOK
<1> QED
  BY <1>10, <1>11, <1>12, <1>13 DEF IInv

-----------------------------------------------------------------------------
(* The theorems. *)

LEMMA InitInv ==
  ASSUME Init
  PROVE  IInv
<1> DEFINE s == NewStore(1, TRUE)
           x == CommitJob(s, 1)
<1>1. /\ file = NoFile /\ devKey = [key |-> 1, sealed |-> FALSE, open |-> TRUE]
      /\ running = TRUE /\ locked = FALSE /\ redux = s
      /\ act = [a \in Actions |-> [pc |-> "new", gen |-> 0]] /\ jobs = <<x>>
      /\ gens = 1 /\ keys = 1 /\ owed = {} /\ dropped = "no"
  BY DEF Init
<1>3. 1 \in 0 .. MaxGen /\ 1 \in 1 .. MaxGen /\ 1 \in 1 .. MaxKey /\ 0 \in 0 .. MaxKey /\ 0 \in 0 .. MaxGen
  BY PoolAssumption
<1>4. s \in StoreType /\ s # NoStore /\ s.gen = 1 /\ s.done = {} /\ s.loaded
  <2>1. \A b \in BOOLEAN : NewStore(1, b) \in StoreType /\ NewStore(1, b) # NoStore
           /\ NewStore(1, b).gen = 1 /\ NewStore(1, b).loaded = b /\ NewStore(1, b).done = {}
    BY <1>3, NewStoreFields
  <2> QED
    BY <2>1
<1> HIDE DEF s
<1>5. x \in JobTypes /\ x.type = "commit" /\ x.key = 1 /\ IsCommit(x)
  BY <1>3, <1>4 DEF CommitJob, JobTypes, Commits, StoreType, IsCommit
<1> HIDE DEF x
<1>6. jobs \in Seq(JobTypes) /\ Len(jobs) = 1 /\ jobs[1] = x
  BY <1>1, <1>5
<1>7. 1 .. Len(jobs) = {1}
  BY <1>6
<1>8. TypeOK
  BY <1>1, <1>3, <1>4 DEF TypeOK, NoFile, StateType, StoreType
<1>9. JobsOK
  BY <1>5, <1>6, <1>7 DEF JobsOK, OneSeal, HasType
<1>10. StoresOK
  BY <1>1, <1>4 DEF StoresOK, NoFile
<1>11. EffectsOK
  <2>1. Writes(jobs, owed, file)
    BY <1>1, <1>5, <1>6, <1>7 DEF Writes, Ordered, OnFile, Snapped
  <2>2. Keyed(jobs, 1, file)
    BY <1>5, <1>6, <1>7 DEF Keyed, Newest, HasType
  <2> QED
    BY <1>1, <2>1, <2>2 DEF EffectsOK
<1>12. StuckOnlyUnsealed
  BY <1>1, <1>4 DEF StuckOnlyUnsealed, HasStore
<1> QED
  BY <1>8, <1>9, <1>10, <1>11, <1>12 DEF IInv

LEMMA NextInv ==
  ASSUME IInv, [Next]_vars
  PROVE  IInv'
<1>1. CASE UNCHANGED vars
  BY <1>1 DEF vars, IInv, TypeOK, JobsOK, StoresOK, EffectsOK, StuckOnlyUnsealed, HasStore
<1>2. CASE Next
  <2>1. ASSUME NEW a \in Actions, StartAction(a) PROVE IInv'
    BY <2>1, StartActionInv
  <2>2. ASSUME NEW a \in Actions, FinishAction(a) PROVE IInv'
    BY <2>2, FinishActionInv
  <2>3. ASSUME NEW a \in Actions, LoseAction(a) PROVE IInv'
    BY <2>3, LoseActionInv
  <2>4. CASE SetPassphrase
    BY <2>4, SetPassphraseInv
  <2>5. CASE ClearPassphrase
    BY <2>5, ClearPassphraseInv
  <2>6. ASSUME NEW on \in BOOLEAN, SetLockout(on) PROVE IInv'
    BY <2>6, SetLockoutInv
  <2>7. CASE LockRequested
    BY <2>7, LockDeviceInv DEF LockRequested
  <2>8. CASE Lockout
    BY <2>8, LockDeviceInv DEF Lockout
  <2>9. CASE UnlockDevice
    BY <2>9, UnlockDeviceInv
  <2>10. CASE ResetDevice
    BY <2>10, ResetDeviceInv
  <2>11. ASSUME NEW i \in Taken, FinishCommit(i) PROVE IInv'
    BY <2>11, FinishCommitInv
  <2>12. ASSUME NEW i \in Taken, FinishSeal(i) PROVE IInv'
    BY <2>12, FinishSealInv
  <2>13. ASSUME NEW i \in Taken, FinishDerive(i) PROVE IInv'
    BY <2>13, FinishDeriveInv
  <2>14. ASSUME NEW i \in Taken, FinishMerge(i) PROVE IInv'
    BY <2>14, FinishMergeInv
  <2>15. CASE Exit
    BY <2>15, ExitInv
  <2>16. CASE Start
    BY <2>16, StartInv
  <2> QED
    BY <1>2, <2>1, <2>2, <2>3, <2>4, <2>5, <2>6, <2>7, <2>8, <2>9, <2>10, <2>11, <2>12, <2>13,
       <2>14, <2>15, <2>16 DEF Next
<1> QED
  BY <1>1, <1>2

\* Every state the process, its store, its jobs and its file are in is one of those the
\* invariants describe (queuePersistState, initReduxStore, lock and unlock).
THEOREM Inductive == Spec => []IInv
<1>1. Init => IInv
  BY InitInv
<1>2. IInv /\ [Next]_vars => IInv'
  BY NextInv
<1> QED
  BY <1>1, <1>2, PTL DEF Spec

\* Whatever locks, unlocks, crashes and restarts there are, what the process answered
\* and still owes is in the loaded store, and in the file once no write is on its way.
\* Not owed is what the code loses: what was only in a put on its way when the process
\* exited or when an unlock read the file, what an older put that ended last undid, and
\* what was applied to a store that was being replaced (server.ts and client_store).
THEOREM AckedKeptAlways == Spec => []AckedKept
<1>1. ASSUME IInv PROVE AckedKept
  <2>1. ASSUME Pending("commit") = {}, ~file.stale PROVE owed \subseteq file.done
    <3>1. ~HasType(jobs, "commit")
      BY <1>1, <2>1, PendingTypes DEF IInv
    <3>2. \A a : ~Later(jobs, 0, a)
      BY <3>1 DEF Later, HasType, IsCommit
    <3> QED
      BY <1>1, <2>1, <3>2 DEF IInv, EffectsOK, Writes, OnFile
  <2>2. HasStore /\ redux.loaded => owed \subseteq redux.done
    BY <1>1 DEF IInv, EffectsOK
  <2> QED
    BY <2>1, <2>2 DEF AckedKept
<1> QED
  BY <1>1, Inductive, PTL

\* A device with nothing in progress can read its file again after any changes of its
\* key, unless the put that ended last was not the newest, or came from a store not yet
\* loaded: such a put may be in a key that is gone (client_store's put, setDeviceKey).
THEOREM FileReadableAlways == Spec => []FileReadable
<1>1. ASSUME IInv PROVE FileReadable
  <2>1. ASSUME Quiet PROVE ~HasType(jobs, "commit")
    BY <1>1, <2>1, PendingTypes DEF IInv, Quiet
  <2> QED
    BY <1>1, <2>1 DEF IInv, EffectsOK, Keyed, FileReadable
<1> QED
  BY <1>1, Inductive, PTL

\* A process that is unlocked and has no store was locked out without a passphrase, or
\* while one was being set (lockDevice, SET_DEVICE_PASSPHRASE).
THEOREM StuckOnlyUnsealedAlways == Spec => []StuckOnlyUnsealed
<1>1. IInv => StuckOnlyUnsealed
  BY DEF IInv
<1> QED
  BY <1>1, Inductive, PTL

-----------------------------------------------------------------------------
(* The web sockets (OrgSockets). *)

\* What holds of the sockets of one device.  A retry timer has nothing to do while the
\* entry holds a socket, and one that fired has a call of connectSocket that waits.
ServerInv(d) == \A s \in Slots : link[d][s].server = "registered" <=> conns[d] = s
ClientInv(d) ==
  /\ sock[d] # None => link[d][sock[d]].client = "open" /\ timer[d] = "none"
  /\ timer[d] = "fired" => pending[d] > 0
  /\ sock[d] = None /\ reachable[d] /\ ~gaveUp[d] => timer[d] = "armed" \/ pending[d] > 0

\* The inductive invariant.
SocketsInv == SocketsTypeOK /\ \A d \in Devices : ServerInv(d) /\ ClientInv(d)

-----------------------------------------------------------------------------
(* What the operators on the sockets of a device do. *)

LEMMA EndsTyped == Unused \in Ends /\ Fresh \in Ends
BY DEF Unused, Fresh, Ends

\* A slot that is used again was neither listened to nor registered.
LEMMA ReuseKeeps ==
  ASSUME NEW links \in [Slots -> Ends]
  PROVE  /\ Reuse(links) \in [Slots -> Ends]
         /\ \A s \in Slots : /\ Reuse(links)[s].client = "open" <=> links[s].client = "open"
                             /\ Reuse(links)[s].server = "registered" <=> links[s].server = "registered"
<1>1. \A s \in Slots : /\ Reuse(links)[s] = IF Dead(links[s]) THEN Unused ELSE links[s]
                       /\ Dead(links[s]) => links[s].client = "closed" /\ links[s].server # "registered"
  BY DEF Reuse, Dead
<1>2. Unused.client = "closed" /\ Unused.server = "ended"
  BY DEF Unused
<1>3. Reuse(links) \in [Slots -> Ends]
  BY EndsTyped DEF Reuse
<1> QED
  BY <1>1, <1>2, <1>3

LEMMA ClearedKeeps ==
  ASSUME SocketsTypeOK, NEW d \in Devices
  PROVE  /\ Cleared(d) \in [Slots -> Ends]
         /\ \A s \in Slots : Cleared(d)[s].server = link[d][s].server
<1>1. link[d] \in [Slots -> Ends]
  BY DEF SocketsTypeOK
<1> QED
  BY <1>1 DEF Cleared, Ends

\* Dropping the device's entry leaves none of its sockets registered.
LEMMA DroppedKeeps ==
  ASSUME SocketsTypeOK, NEW d \in Devices, ServerInv(d)
  PROVE  /\ Dropped(d) \in [Slots -> Ends]
         /\ \A s \in Slots : /\ Dropped(d)[s].client = link[d][s].client
                             /\ Dropped(d)[s].server # "registered"
                             /\ link[d][s].server # "registered" => Dropped(d)[s] = link[d][s]
<1>1. link[d] \in [Slots -> Ends]
  BY DEF SocketsTypeOK
<1> QED
  BY <1>1 DEF Dropped, Ends, ServerInv

-----------------------------------------------------------------------------
(* Steps. *)

\* A step of one device keeps the invariant of the others.
LEMMA OneDevice ==
  ASSUME SocketsInv, SocketsTypeOK', NEW d \in Devices, ServerInv(d)', ClientInv(d)',
         \A e \in Devices \ {d} :
           /\ sock'[e] = sock[e] /\ timer'[e] = timer[e] /\ pending'[e] = pending[e]
           /\ reachable'[e] = reachable[e] /\ link'[e] = link[e] /\ conns'[e] = conns[e]
           /\ gaveUp'[e] = gaveUp[e]
  PROVE  SocketsInv'
<1>1. \A e \in Devices \ {d} : ServerInv(e)' /\ ClientInv(e)'
  BY DEF SocketsInv, ServerInv, ClientInv
<1> QED
  BY <1>1 DEF SocketsInv

\* connectSocket overwrites the entry and the retry timer.
LEMMA NewSocketStep ==
  ASSUME SocketsInv, NEW d \in Devices, NewSocket(d), UNCHANGED <<reachable, conns, faults>>,
         \/ pending' = pending
         \/ pending[d] > 0 /\ pending' = [pending EXCEPT ![d] = @ - 1]
  PROVE  SocketsInv'
<1> USE SocketAssumption
<1>1. PICK s \in Slots :
        /\ link[d][s] = Unused
        /\ link' = [link EXCEPT ![d][s] = Fresh]
        /\ sock' = [sock EXCEPT ![d] = s]
        /\ timer' = [timer EXCEPT ![d] = "none"]
        /\ gaveUp' = [gaveUp EXCEPT ![d] = FALSE]
  BY DEF NewSocket
<1>2. SocketsTypeOK /\ ServerInv(d)
  BY DEF SocketsInv
<1>3. link' \in [Devices -> [Slots -> Ends]]
  BY <1>1, <1>2, EndsTyped DEF SocketsTypeOK
<1>4. pending' \in [Devices -> 0 .. MaxPending]
  BY <1>2 DEF SocketsTypeOK
<1>5. SocketsTypeOK'
  BY <1>1, <1>2, <1>3, <1>4 DEF SocketsTypeOK
<1>6. link'[d][s] = Fresh /\ \A r \in Slots \ {s} : link'[d][r] = link[d][r]
  BY <1>1, <1>2 DEF SocketsTypeOK
<1>7. ServerInv(d)'
  BY <1>1, <1>2, <1>6 DEF ServerInv, Unused, Fresh
<1>8. ClientInv(d)'
  BY <1>1, <1>2, <1>6 DEF ClientInv, Fresh, SocketsTypeOK
<1> QED
  BY <1>1, <1>2, <1>5, <1>7, <1>8, OneDevice DEF SocketsTypeOK

LEMMA RetryTimeoutStep == ASSUME SocketsInv, NEW d \in Devices, RetryTimeout(d) PROVE SocketsInv'
<1> USE SocketAssumption
<1>1. SocketsTypeOK /\ ServerInv(d) /\ ClientInv(d)
  BY DEF SocketsInv
<1>2. SocketsTypeOK'
  BY <1>1 DEF SocketsTypeOK, RetryTimeout
<1>3. ServerInv(d)' /\ ClientInv(d)'
  BY <1>1 DEF ServerInv, ClientInv, RetryTimeout, SocketsTypeOK
<1> QED
  BY <1>1, <1>2, <1>3, OneDevice DEF SocketsTypeOK, RetryTimeout

LEMMA GoReachableStep == ASSUME SocketsInv, NEW d \in Devices, GoReachable(d) PROVE SocketsInv'
<1> USE SocketAssumption
<1>1. SocketsTypeOK /\ ServerInv(d) /\ ClientInv(d)
  BY DEF SocketsInv
<1>2. pending[d] \in 0 .. MaxPending /\ timer[d] \in {"none", "armed", "fired"}
  BY <1>1 DEF SocketsTypeOK
<1>3. SocketsTypeOK'
  BY <1>1, <1>2 DEF SocketsTypeOK, GoReachable
<1>4. ServerInv(d)' /\ ClientInv(d)'
  BY <1>1, <1>2 DEF ServerInv, ClientInv, GoReachable, SocketsTypeOK
<1> QED
  BY <1>1, <1>3, <1>4, OneDevice DEF SocketsTypeOK, GoReachable

\* Whichever socket closed, the entry is cleared and, but for a 401 of its own socket, a
\* retry is due.
LEMMA OnSocketClosedStep ==
  ASSUME SocketsInv, NEW d \in Devices, NEW s \in Slots, OnSocketClosed(d, s) PROVE SocketsInv'
<1> USE SocketAssumption
<1> DEFINE L == [Cleared(d) EXCEPT ![s].client = "closed"]
           stop == link[d][s].server = "refused" /\ s = sock[d]
<1>1. SocketsTypeOK /\ ServerInv(d)
  BY DEF SocketsInv
<1>2. L \in [Slots -> Ends] /\ \A r \in Slots : L[r].server = link[d][r].server
  BY <1>1, ClearedKeeps DEF Ends
<1>3. /\ link' = [link EXCEPT ![d] = Reuse(L)]
      /\ sock' = [sock EXCEPT ![d] = None]
      /\ timer' = [timer EXCEPT ![d] = IF stop THEN "none" ELSE "armed"]
      /\ gaveUp' = [gaveUp EXCEPT ![d] = stop]
      /\ UNCHANGED <<pending, reachable, conns, faults>>
  BY DEF OnSocketClosed
<1> HIDE DEF L, stop
<1>4. Reuse(L) \in [Slots -> Ends]
  BY <1>2, ReuseKeeps
<1>5. stop \in BOOLEAN
  BY DEF stop
<1>6. SocketsTypeOK'
  BY <1>1, <1>3, <1>4, <1>5 DEF SocketsTypeOK
<1>7. link'[d] = Reuse(L)
  BY <1>1, <1>3 DEF SocketsTypeOK
<1>8. ServerInv(d)'
  BY <1>1, <1>2, <1>3, <1>7, ReuseKeeps DEF ServerInv
<1>9. ClientInv(d)'
  BY <1>1, <1>3 DEF ClientInv, SocketsTypeOK
<1> QED
  BY <1>1, <1>3, <1>6, <1>8, <1>9, OneDevice DEF SocketsTypeOK

LEMMA GoUnreachableStep ==
  ASSUME SocketsInv, NEW d \in Devices, NEW network \in BOOLEAN, GoUnreachable(d, network) PROVE SocketsInv'
<1> USE SocketAssumption
<1>1. SocketsTypeOK /\ ServerInv(d) /\ ClientInv(d)
  BY DEF SocketsInv
<1>2. Cleared(d) \in [Slots -> Ends] /\ Reuse(Cleared(d)) \in [Slots -> Ends]
  BY <1>1, ClearedKeeps, ReuseKeeps
<1>3. /\ link' = [link EXCEPT ![d] = Reuse(Cleared(d))]
      /\ sock' = [sock EXCEPT ![d] = None]
      /\ timer' = [timer EXCEPT ![d] = IF network /\ sock[d] = None THEN @ ELSE "none"]
      /\ reachable' = [reachable EXCEPT ![d] = FALSE]
      /\ faults < MaxFaults /\ faults' = faults + 1
      /\ UNCHANGED <<pending, conns, gaveUp>>
  BY DEF GoUnreachable
<1>4. SocketsTypeOK'
  BY <1>1, <1>2, <1>3 DEF SocketsTypeOK
<1>5. link'[d] = Reuse(Cleared(d))
  BY <1>1, <1>3 DEF SocketsTypeOK
<1>6. ServerInv(d)'
  BY <1>1, <1>2, <1>3, <1>5, ClearedKeeps, ReuseKeeps DEF ServerInv
<1>7. ClientInv(d)'
  BY <1>1, <1>3 DEF ClientInv, SocketsTypeOK
<1> QED
  BY <1>1, <1>3, <1>4, <1>6, <1>7, OneDevice DEF SocketsTypeOK

-----------------------------------------------------------------------------
\* Sockets l of a device whose client ends are as they were, and n of them registered.
Serves(d, l, n) ==
  /\ l \in [Slots -> Ends] /\ n \in Slots \cup {None}
  /\ \A s \in Slots : l[s].client = link[d][s].client /\ (l[s].server = "registered" <=> n = s)

\* A step of the server or the network keeps the client ends of a device's sockets.
LEMMA ServerStep ==
  ASSUME SocketsInv, NEW d \in Devices, NEW l, NEW n, Serves(d, l, n),
         link' = [link EXCEPT ![d] = Reuse(l)], conns' = [conns EXCEPT ![d] = n],
         faults' \in 0 .. MaxFaults, UNCHANGED <<sock, timer, pending, reachable, gaveUp>>
  PROVE  SocketsInv'
<1>1. SocketsTypeOK /\ ServerInv(d) /\ ClientInv(d)
  BY DEF SocketsInv
<1>2. SocketsTypeOK'
  BY <1>1, ReuseKeeps DEF SocketsTypeOK, Serves
<1>3. link'[d] = Reuse(l) /\ conns'[d] = n
  BY <1>1 DEF SocketsTypeOK
<1>4. ServerInv(d)'
  BY <1>3, ReuseKeeps DEF ServerInv, Serves
<1>5. ClientInv(d)'
  BY <1>1, <1>3, ReuseKeeps DEF ClientInv, SocketsTypeOK, Serves
<1> QED
  BY <1>1, <1>2, <1>4, <1>5, OneDevice DEF SocketsTypeOK

\* The entry's socket is replaced by the new one, or both are gone.
LEMMA OnConnectionStep ==
  ASSUME SocketsInv, NEW d \in Devices, NEW s \in Slots, OnConnection(d, s) PROVE SocketsInv'
<1> DEFINE L == [Dropped(d) EXCEPT ![s].server = IF MapDeleted(d) THEN "ended" ELSE "registered"]
           n == IF MapDeleted(d) THEN None ELSE s
<1>1. SocketsTypeOK /\ ServerInv(d)
  BY DEF SocketsInv
<1>2. Serves(d, L, n)
  BY <1>1, DroppedKeeps, SocketAssumption DEF Ends, Serves
<1>3. link' = [link EXCEPT ![d] = Reuse(L)] /\ conns' = [conns EXCEPT ![d] = n]
      /\ UNCHANGED <<sock, timer, pending, reachable, gaveUp, faults>>
  BY DEF OnConnection
<1> HIDE DEF L, n
<1> QED
  BY <1>1, <1>2, <1>3, ServerStep DEF SocketsTypeOK

\* A socket that is not registered is refused; a network breaks.
LEMMA EndStep ==
  ASSUME SocketsInv, NEW d \in Devices, NEW s \in Slots, SocketAuthErr(d, s) \/ Break(d, s) PROVE SocketsInv'
<1>1. SocketsTypeOK /\ ServerInv(d) /\ link[d] \in [Slots -> Ends]
  BY DEF SocketsInv, SocketsTypeOK
<1>2. PICK l : Serves(d, l, conns[d]) /\ link' = [link EXCEPT ![d] = Reuse(l)]
  <2>1. CASE SocketAuthErr(d, s)
    <3> DEFINE l == [link[d] EXCEPT ![s].server = "refused"]
    <3>1. link' = [link EXCEPT ![d] = Reuse(l)] /\ link[d][s].server = "none"
      BY <2>1 DEF SocketAuthErr
    <3>2. l \in [Slots -> Ends] /\ conns[d] \in Slots \cup {None}
      BY <1>1 DEF Ends, SocketsTypeOK
    <3>3. \A r \in Slots : /\ l[r].client = link[d][r].client
                            /\ l[r].server = IF r = s THEN "refused" ELSE link[d][r].server
      BY <1>1 DEF Ends
    <3>4. conns[d] # s
      BY <1>1, <3>1 DEF ServerInv
    <3>5. Serves(d, l, conns[d])
      <4> HIDE DEF l
      <4> QED
        BY <1>1, <3>2, <3>3, <3>4 DEF Serves, ServerInv
    <3> QED
      BY <3>1, <3>5
  <2>2. CASE Break(d, s)
    <3> DEFINE l == [link[d] EXCEPT ![s].up = FALSE]
    <3>1. link' = [link EXCEPT ![d] = Reuse(l)]
      BY <2>2 DEF Break
    <3>2. Serves(d, l, conns[d])
      <4>1. /\ l \in [Slots -> Ends] /\ conns[d] \in Slots \cup {None}
        BY <1>1 DEF Ends, SocketsTypeOK
      <4>2. \A r \in Slots : l[r].client = link[d][r].client /\ l[r].server = link[d][r].server
        BY <1>1 DEF Ends
      <4> QED
        BY <1>1, <4>1, <4>2 DEF Serves, ServerInv
    <3> QED
      BY <3>1, <3>2
  <2> QED
    BY <2>1, <2>2
<1>3. /\ conns' = [conns EXCEPT ![d] = conns[d]] /\ faults' \in 0 .. MaxFaults
      /\ UNCHANGED <<sock, timer, pending, reachable, gaveUp>>
  BY <1>1, SocketAssumption DEF SocketAuthErr, Break, SocketsTypeOK
<1> QED
  BY <1>2, <1>3, ServerStep

\* The device's entry is cleared, by the event of its socket or by a handler.
LEMMA ClearEntryStep ==
  ASSUME SocketsInv, NEW d \in Devices, link' = [link EXCEPT ![d] = Reuse(Dropped(d))],
         conns' = [conns EXCEPT ![d] = None], faults' \in 0 .. MaxFaults,
         UNCHANGED <<sock, timer, pending, reachable, gaveUp>>
  PROVE  SocketsInv'
<1>1. SocketsTypeOK /\ ServerInv(d)
  BY DEF SocketsInv
<1>2. Serves(d, Dropped(d), None)
  BY <1>1, DroppedKeeps, SocketAssumption DEF Serves
<1> QED
  BY <1>2, ServerStep

LEMMA RestartStep == ASSUME SocketsInv, Restart PROVE SocketsInv'
<1> USE SocketAssumption
<1> DEFINE L(d) == [s \in Slots |-> [link[d][s] EXCEPT !.server = "ended"]]
<1>1. SocketsTypeOK
  BY DEF SocketsInv
<1>2. \A d \in Devices : /\ L(d) \in [Slots -> Ends]
                         /\ \A s \in Slots : L(d)[s].client = link[d][s].client /\ L(d)[s].server = "ended"
  <2> SUFFICES ASSUME NEW d \in Devices
               PROVE  /\ L(d) \in [Slots -> Ends]
                      /\ \A s \in Slots : L(d)[s].client = link[d][s].client /\ L(d)[s].server = "ended"
    OBVIOUS
  <2>1. \A s \in Slots : link[d][s] \in Ends
    BY <1>1 DEF SocketsTypeOK
  <2>2. \A s \in Slots : L(d)[s] \in Ends /\ L(d)[s].client = link[d][s].client /\ L(d)[s].server = "ended"
    BY <2>1 DEF Ends
  <2> QED
    BY <2>2
<1>3. /\ link' = [d \in Devices |-> Reuse(L(d))] /\ conns' = [d \in Devices |-> None]
      /\ faults < MaxFaults /\ faults' = faults + 1
      /\ UNCHANGED <<sock, timer, pending, reachable, gaveUp>>
  BY DEF Restart
<1> HIDE DEF L
<1>4. \A d \in Devices : /\ link'[d] \in [Slots -> Ends]
                         /\ \A s \in Slots : /\ link'[d][s].client = "open" <=> link[d][s].client = "open"
                                             /\ link'[d][s].server # "registered"
  BY <1>2, <1>3, ReuseKeeps
<1>5. link' \in [Devices -> [Slots -> Ends]]
  BY <1>3, <1>4
<1>6. SocketsTypeOK'
  BY <1>1, <1>3, <1>5 DEF SocketsTypeOK
<1>7. \A d \in Devices : ServerInv(d)' /\ ClientInv(d)'
  BY <1>1, <1>3, <1>4 DEF SocketsInv, ServerInv, ClientInv, SocketsTypeOK
<1> QED
  BY <1>6, <1>7 DEF SocketsInv

-----------------------------------------------------------------------------
LEMMA SocketsInitInv == SocketsInit => SocketsInv
BY SocketAssumption, EndsTyped DEF SocketsInit, SocketsInv, SocketsTypeOK, ServerInv, ClientInv, Unused

LEMMA SocketsNextInv == SocketsInv /\ [SocketsNext]_socketsVars => SocketsInv'
<1> SUFFICES ASSUME SocketsInv, [SocketsNext]_socketsVars PROVE SocketsInv'
  OBVIOUS
<1>1. CASE UNCHANGED socketsVars
  BY <1>1 DEF socketsVars, SocketsInv, SocketsTypeOK, ServerInv, ClientInv
<1>2. ASSUME NEW d \in Devices, ConnectNow(d) \/ JitterOver(d) PROVE SocketsInv'
  BY <1>2, NewSocketStep DEF ConnectNow, JitterOver
<1>3. ASSUME NEW d \in Devices, Client(d) PROVE SocketsInv'
  BY <1>2, <1>3, RetryTimeoutStep, GoReachableStep, OnSocketClosedStep DEF Client
<1>4. ASSUME NEW d \in Devices, NEW s \in Slots, OnServerSocketClosed(d, s) PROVE SocketsInv'
  BY <1>4, ClearEntryStep DEF OnServerSocketClosed, SocketsInv, SocketsTypeOK
<1>5. ASSUME NEW d \in Devices, ClearDeviceSocket(d) PROVE SocketsInv'
  <2>1. faults' \in 0 .. MaxFaults
    BY <1>5, SocketAssumption DEF ClearDeviceSocket, SocketsInv, SocketsTypeOK
  <2> QED
    BY <1>5, <2>1, ClearEntryStep DEF ClearDeviceSocket
<1>6. ASSUME NEW d \in Devices, Server(d) PROVE SocketsInv'
  BY <1>4, <1>6, OnConnectionStep DEF Server
<1>7. ASSUME NEW d \in Devices, Fault(d) PROVE SocketsInv'
  BY <1>5, <1>7, GoUnreachableStep, EndStep DEF Fault
<1> QED
  BY <1>1, <1>2, <1>3, <1>6, <1>7, RestartStep DEF SocketsNext

LEMMA SocketsInductive == SocketsSpec => []SocketsInv
BY SocketsInitInv, SocketsNextInv, PTL DEF SocketsSpec

\* The state of the sockets keeps its shape.
THEOREM SocketsTyped == SocketsSpec => []SocketsTypeOK
<1>1. SocketsInv => SocketsTypeOK
  BY DEF SocketsInv
<1> QED
  BY SocketsInductive, <1>1, PTL

\* getClearSocketFn (socket.ts), which names a device and not a socket, never clears a
\* socket newer than the one whose event it handles.
THEOREM EventsClearTheirOwnAlways == SocketsSpec => []EventsClearTheirOwn
<1>1. SocketsInv => EventsClearTheirOwn
  BY DEF SocketsInv, ServerInv, EventsClearTheirOwn
<1> QED
  BY SocketsInductive, <1>1, PTL

\* sockets[...] of org_sockets.ts holds a socket whose events the client hears, whatever
\* calls of connectSocket overwrote it.
THEOREM EntryIsLiveAlways == SocketsSpec => []EntryIsLive
<1>1. SocketsInv => EntryIsLive
  BY DEF SocketsInv, ClientInv, EntryIsLive
<1> QED
  BY SocketsInductive, <1>1, PTL

\* A client without a socket has a timer or a call that will open one, unless its host is
\* out of reach or it was turned away.
THEOREM RetryPendingAlways == SocketsSpec => []RetryPending
<1>1. SocketsInv => RetryPending
  BY DEF SocketsInv, ClientInv, RetryPending
<1> QED
  BY SocketsInductive, <1>1, PTL
=============================================================================

----------------------- MODULE OutdatedRetry_proofs -----------------------
(***************************************************************************)
(* Proofs about OutdatedRetry, for any clients, requests and faults, and   *)
(* for dispatches nested to any depth.  Five invariants, each on those     *)
(* before it:                                                              *)
(*   Shape      the frames of a thread wait for one another;               *)
(*   OneActive  one dispatch of a client at most processes its requests;   *)
(*   Told       what the user was told, and how often it was committed;    *)
(*   Views      a graph is current, or will be fetched;                    *)
(*   Kept       some client has still to process what is pending.          *)
(***************************************************************************)
EXTENDS OutdatedRetry, SequenceTheorems, TLAPS

Phases == {"sent", "refresh", "again", "root", "check", "revoking", "failed", "ok", "err"}
Stacks == [Clients -> [Threads -> Seq(Frames)]]

-----------------------------------------------------------------------------
(* What an action does to the stack of a thread: it moves the top to       *)
(* another phase, puts a frame upon it, takes it away, or replaces it.     *)

Like(f, g) == g.op = f.op /\ g.ph = f.ph /\ g.rooted = f.rooted /\ g.asked = f.asked

\* Only versions may have become old.
Alike(s, t) ==
  Len(t) = Len(s) /\ \A i \in 1 .. Len(s) : Like(s[i], t[i]) /\ (t[i].current => s[i].current)

SameBelow(s, t, n) == \A i \in 1 .. n - 1 : t[i] = s[i]
In(f, p) == [f EXCEPT !.ph = p, !.current = FALSE]

Moves(s, t, p) ==
  Len(s) > 0 /\ Len(t) = Len(s) /\ SameBelow(s, t, Len(s)) /\ t[Len(s)] = In(s[Len(s)], p)
Pushes(s, t, p, g) ==
  /\ Len(s) > 0 /\ Len(t) = Len(s) + 1 /\ SameBelow(s, t, Len(s))
  /\ t[Len(s)] = In(s[Len(s)], p) /\ t[Len(s) + 1] = g
Pops(s, t, ok) ==
  /\ Len(s) > 0 /\ Len(t) = Len(s) - 1 /\ SameBelow(s, t, Len(s) - 1)
  /\ Len(s) > 1 => LET f == s[Len(s) - 1] IN t[Len(s) - 1] = [f EXCEPT !.ph = Resumed(f, ok)]
Puts(s, t, g) ==
  Len(s) > 0 /\ Len(t) = Len(s) /\ SameBelow(s, t, Len(s)) /\ t[Len(s)] = g

OnlyThread(c, th) ==
  \A d \in Clients, u \in Threads : d # c \/ u # th => stack'[d][u] = stack[d][u]
OthersAlike(c, th) ==
  \A d \in Clients, u \in Threads : d # c \/ u # th => Alike(stack[d][u], stack'[d][u])

LEMMA InTyped ==
  ASSUME NEW f \in Frames, NEW p \in Phases
  PROVE  /\ In(f, p) \in Frames
         /\ In(f, p).op = f.op /\ In(f, p).ph = p /\ In(f, p).rooted = f.rooted
         /\ In(f, p).asked = f.asked /\ In(f, p).current = FALSE
BY DEF In, Frames, Phases

LEMMA FrameTyped ==
  ASSUME TypeOK, NEW c \in Clients, NEW op \in {"act", "session", "process", "message"},
         NEW r \in BOOLEAN
  PROVE  /\ Frame(op, r, view[c]) \in Frames
         /\ LET f == Frame(op, r, view[c]) IN
              /\ f.op = op /\ f.ph = "sent" /\ f.rooted = r /\ f.current = view[c].current
              /\ f.asked = IF op = "process" THEN view[c].requests ELSE {}
<1>1. view[c] \in [current : BOOLEAN, requests : SUBSET born] /\ born \subseteq Requests
  BY DEF TypeOK
<1> QED
  BY <1>1 DEF Frame, Frames

LEMMA TopTyped ==
  ASSUME TypeOK, NEW c \in Clients, NEW th \in Threads
  PROVE  /\ stack[c][th] \in Seq(Frames) /\ Len(stack[c][th]) \in Nat
         /\ \A i \in 1 .. Len(stack[c][th]) : stack[c][th][i] \in Frames
BY DEF TypeOK

LEMMA ResumedTyped ==
  ASSUME NEW f \in Frames, f.ph \in {"refresh", "root", "revoking"}, NEW ok \in BOOLEAN
  PROVE  Resumed(f, ok) \in {"failed", "check", "again", "ok", "err"}
BY DEF Resumed

LEMMA TopReplaced ==
  ASSUME NEW s \in Seq(Frames), Len(s) > 0, NEW g \in Frames
  PROVE  LET t == [s EXCEPT ![Len(s)] = g] IN
         t \in Seq(Frames) /\ Len(t) = Len(s) /\ SameBelow(s, t, Len(s)) /\ t[Len(s)] = g
<1>1. Len(s) \in Nat /\ Len(s) \in 1 .. Len(s)
  BY LenProperties
<1> QED
  BY <1>1, ExceptSeq DEF SameBelow

\* The first part of Moved.
LEMMA TopIn ==
  ASSUME NEW s \in Seq(Frames), Len(s) > 0, NEW p \in Phases
  PROVE  LET t == [s EXCEPT ![Len(s)].ph = p, ![Len(s)].current = FALSE] IN
         t \in Seq(Frames) /\ Moves(s, t, p)
<1>1. Len(s) \in Nat /\ Len(s) \in 1 .. Len(s) /\ s \in [1 .. Len(s) -> Frames]
  BY LenProperties
<1>2. s[Len(s)] \in Frames /\ In(s[Len(s)], p) \in Frames
  BY <1>1, InTyped
<1>3. [s EXCEPT ![Len(s)].ph = p, ![Len(s)].current = FALSE]
      = [s EXCEPT ![Len(s)] = In(s[Len(s)], p)]
  BY <1>1 DEF In
<1> QED
  BY <1>2, <1>3, TopReplaced DEF Moves

LEMMA MovedMoves ==
  ASSUME NEW s \in Seq(Frames), Len(s) > 0, NEW p \in Phases
  PROVE  Moved(s, p, <<>>) \in Seq(Frames) /\ Moves(s, Moved(s, p, <<>>), p)
<1> DEFINE m == [s EXCEPT ![Len(s)].ph = p, ![Len(s)].current = FALSE]
<1>1. m \in Seq(Frames) /\ Moves(s, m, p)
  BY TopIn
<1>2. Moved(s, p, <<>>) = m \o <<>>
  BY DEF Moved
<1> HIDE DEF m
<1> QED
  BY <1>1, <1>2, ConcatEmptySeq

LEMMA MovedPushes ==
  ASSUME NEW s \in Seq(Frames), Len(s) > 0, NEW p \in Phases, NEW g \in Frames
  PROVE  Moved(s, p, <<g>>) \in Seq(Frames) /\ Pushes(s, Moved(s, p, <<g>>), p, g)
<1> DEFINE m == [s EXCEPT ![Len(s)].ph = p, ![Len(s)].current = FALSE]
           t == m \o <<g>>
<1>1. m \in Seq(Frames) /\ Moves(s, m, p)
  BY TopIn
<1>2. Moved(s, p, <<g>>) = t
  BY DEF Moved
<1> HIDE DEF m
<1>3. Len(m) = Len(s) /\ Len(s) \in Nat /\ <<g>> \in Seq(Frames) /\ Len(<<g>>) = 1 /\ <<g>>[1] = g
  BY <1>1, LenProperties DEF Moves
<1>4. /\ t \in Seq(Frames) /\ Len(t) = Len(s) + 1
      /\ \A i \in 1 .. Len(s) + 1 : t[i] = IF i <= Len(s) THEN m[i] ELSE <<g>>[i - Len(s)]
  BY <1>1, <1>3, ConcatProperties
<1> HIDE DEF t
<1>5. t[Len(s) + 1] = g /\ \A i \in 1 .. Len(s) : t[i] = m[i]
  BY <1>3, <1>4
<1> QED
  BY <1>1, <1>2, <1>3, <1>4, <1>5 DEF Pushes, Moves, SameBelow

\* Assigning to the stack of one thread.
LEMMA ThreadAssigned ==
  ASSUME TypeOK, NEW c \in Clients, NEW th \in Threads, NEW new \in Seq(Frames),
         stack' = [stack EXCEPT ![c][th] = new]
  PROVE  stack' \in Stacks /\ stack'[c][th] = new /\ OnlyThread(c, th)
BY DEF TypeOK, Stacks, OnlyThread

LEMMA GotoMoves ==
  ASSUME TypeOK, NEW c \in Clients, NEW th \in Threads, NEW p \in Phases,
         Depth(c, th) > 0, Goto(c, th, p, <<>>)
  PROVE  /\ stack' \in Stacks /\ OnlyThread(c, th)
         /\ Moves(stack[c][th], stack'[c][th], p)
<1> DEFINE new == Moved(stack[c][th], p, <<>>)
<1>1. new \in Seq(Frames) /\ Moves(stack[c][th], new, p)
  BY MovedMoves, TopTyped DEF Depth
<1>2. stack' = [stack EXCEPT ![c][th] = new]
  BY DEF Goto
<1> HIDE DEF new
<1> QED
  BY <1>1, <1>2, ThreadAssigned

LEMMA GotoPushes ==
  ASSUME TypeOK, NEW c \in Clients, NEW th \in Threads, NEW p \in Phases, NEW g \in Frames,
         Depth(c, th) > 0, Goto(c, th, p, <<g>>)
  PROVE  /\ stack' \in Stacks /\ OnlyThread(c, th)
         /\ Pushes(stack[c][th], stack'[c][th], p, g)
<1> DEFINE new == Moved(stack[c][th], p, <<g>>)
<1>1. new \in Seq(Frames) /\ Pushes(stack[c][th], new, p, g)
  BY MovedPushes, TopTyped DEF Depth
<1>2. stack' = [stack EXCEPT ![c][th] = new]
  BY DEF Goto
<1> HIDE DEF new
<1> QED
  BY <1>1, <1>2, ThreadAssigned

LEMMA AgainPuts ==
  ASSUME TypeOK, NEW c \in Clients, NEW th \in Threads, NEW g \in Frames,
         Depth(c, th) > 0, stack' = [stack EXCEPT ![c][th][Depth(c, th)] = g]
  PROVE  /\ stack' \in Stacks /\ OnlyThread(c, th)
         /\ Puts(stack[c][th], stack'[c][th], g)
<1> DEFINE s == stack[c][th]
           new == [s EXCEPT ![Len(s)] = g]
<1>1. s \in Seq(Frames) /\ Len(s) > 0 /\ stack \in Stacks
  BY DEF TypeOK, Stacks, Depth
<1>2. new \in Seq(Frames) /\ Puts(s, new, g)
  BY <1>1, TopReplaced DEF Puts
<1>3. stack' = [stack EXCEPT ![c][th] = new]
  BY <1>1 DEF Depth, Stacks
<1> HIDE DEF new
<1> QED
  BY <1>2, <1>3, ThreadAssigned

LEMMA ReturnPops ==
  ASSUME TypeOK, NEW c \in Clients, NEW th \in Threads, NEW ok \in BOOLEAN,
         Depth(c, th) > 0, Return(c, th, ok),
         Depth(c, th) > 1 => stack[c][th][Depth(c, th) - 1].ph \in {"refresh", "root", "revoking"}
  PROVE  /\ stack' \in Stacks /\ OnlyThread(c, th)
         /\ Pops(stack[c][th], stack'[c][th], ok)
<1> DEFINE s == stack[c][th]
           n == Len(s)
           rest == SubSeq(s, 1, n - 1)
           new == IF rest = <<>> THEN rest
                  ELSE [rest EXCEPT ![Len(rest)].ph = Resumed(rest[Len(rest)], ok)]
<1>1. s \in Seq(Frames) /\ n \in Nat /\ n > 0 /\ \A i \in 1 .. n : s[i] \in Frames
  BY TopTyped DEF Depth
<1>2. rest \in Seq(Frames) /\ Len(rest) = n - 1 /\ \A i \in 1 .. n - 1 : rest[i] = s[i]
  BY <1>1, SubSeqProperties
<1>3. stack' = [stack EXCEPT ![c][th] = new]
  BY DEF Return
<1> HIDE DEF rest
<1>4. new \in Seq(Frames) /\ Pops(s, new, ok)
  <2>1. CASE n = 1
    <3>1. rest = <<>> /\ Len(<<>>) = 0
      BY <1>2, <2>1, EmptySeq
    <3> QED
      BY <1>1, <1>2, <2>1, <3>1 DEF Pops, SameBelow
  <2>2. CASE n > 1
    <3> DEFINE f == s[n - 1]
               g == [f EXCEPT !.ph = Resumed(f, ok)]
    <3>1. /\ rest # <<>> /\ f \in Frames /\ rest[Len(rest)] = f
          /\ f.ph \in {"refresh", "root", "revoking"} /\ rest \in [1 .. n - 1 -> Frames]
      BY <1>1, <1>2, <2>2, EmptySeq, LenProperties DEF Depth
    <3>2. g \in Frames
      BY <3>1, ResumedTyped DEF Frames
    <3>3. new = [rest EXCEPT ![Len(rest)] = g]
      BY <1>2, <3>1
    <3> HIDE DEF new, g
    <3>4. new \in Seq(Frames) /\ Len(new) = n - 1 /\ new[n - 1] = g /\ SameBelow(rest, new, n - 1)
      <4>1. Len(rest) > 0
        BY <1>1, <1>2, <2>2
      <4>2. new \in Seq(Frames) /\ Len(new) = Len(rest) /\ new[Len(rest)] = g
            /\ SameBelow(rest, new, Len(rest))
        BY <1>2, <3>2, <3>3, <4>1, TopReplaced
      <4> QED
        BY <1>2, <4>2
    <3>5. SameBelow(s, new, n - 1)
      BY <1>1, <1>2, <3>4 DEF SameBelow
    <3> QED
      BY <1>1, <2>2, <3>4, <3>5 DEF Pops, g
  <2> HIDE DEF new, n, s
  <2>3. n = 1 \/ n > 1
    BY <1>1
  <2> QED
    BY <2>1, <2>2, <2>3
<1> HIDE DEF new
<1> QED
  BY <1>3, <1>4, ThreadAssigned

-----------------------------------------------------------------------------
(* The shape of a thread: the frame at the top is at work, those below it  *)
(* wait for the one above them.                                            *)

Waiting == {"refresh", "root", "revoking"}

\* The phases an operation goes through; a version matters until it is answered.
Fits(f) ==
  /\ f.op = "act" => f.ph # "root"
  /\ f.op = "session" => f.ph \notin {"refresh", "again", "root"}
  /\ f.op = "message" => f.ph \notin {"sent", "again", "root"}
  /\ f.ph = "root" => f.rooted
  /\ f.current => f.ph = "sent"

\* What a dispatch waits for.
AboveFits(f, g) ==
  /\ f.ph = "refresh" => g.op = "session"
  /\ f.ph = "root" => g.op = "act"
  /\ f.ph = "revoking" => g.op = "process"
  /\ g.op # "message"

Bottom(th) == IF th = "user" THEN "act" ELSE "message"

\* The socket's thread never dispatches the user's action.
ThreadFits(th, s) ==
  /\ \A i \in 1 .. Len(s) : Fits(s[i]) /\ (i < Len(s) <=> s[i].ph \in Waiting)
  /\ \A i \in 1 .. Len(s) - 1 : AboveFits(s[i], s[i + 1])
  /\ th = "socket" => \A i \in 1 .. Len(s) : s[i].op # "act" /\ ~s[i].rooted
  /\ Len(s) > 0 => s[1].op = Bottom(th)

Shape == \A c \in Clients, th \in Threads : ThreadFits(th, stack[c][th])

\* What may be sent in a thread.
MayBe(th, g) ==
  /\ g \in Frames /\ Fits(g) /\ g.ph \notin Waiting /\ g.op # "message"
  /\ th = "socket" => g.op # "act" /\ ~g.rooted

LEMMA MovesTop ==
  ASSUME NEW s \in Seq(Frames), NEW t \in Seq(Frames), NEW p \in Phases, Moves(s, t, p)
  PROVE  /\ Len(s) \in Nat /\ Len(s) > 0 /\ Len(t) = Len(s)
         /\ s[Len(s)] \in Frames /\ t[Len(s)] \in Frames
         /\ \A i \in 1 .. Len(s) - 1 : t[i] = s[i]
         /\ t[Len(s)] = In(s[Len(s)], p)
         /\ t[Len(s)].op = s[Len(s)].op /\ t[Len(s)].ph = p
         /\ t[Len(s)].rooted = s[Len(s)].rooted /\ t[Len(s)].asked = s[Len(s)].asked
         /\ ~t[Len(s)].current
<1> DEFINE f == s[Len(s)]
<1>1. Len(s) \in Nat /\ Len(s) > 0 /\ Len(t) = Len(s) /\ f \in Frames
  BY LenProperties, ElementOfSeq DEF Moves
<1>2. t[Len(s)] = In(f, p) /\ \A i \in 1 .. Len(s) - 1 : t[i] = s[i]
  BY DEF Moves, SameBelow
<1> HIDE DEF f
<1>3. /\ In(f, p) \in Frames
      /\ In(f, p).op = f.op /\ In(f, p).ph = p /\ In(f, p).rooted = f.rooted
      /\ In(f, p).asked = f.asked /\ In(f, p).current = FALSE
  BY <1>1, InTyped
<1> QED
  BY <1>1, <1>2, <1>3 DEF f

LEMMA PushesTop ==
  ASSUME NEW s \in Seq(Frames), NEW t \in Seq(Frames), NEW p \in Phases, NEW g,
         Pushes(s, t, p, g)
  PROVE  /\ Len(s) \in Nat /\ Len(s) > 0 /\ Len(t) = Len(s) + 1
         /\ s[Len(s)] \in Frames /\ t[Len(s)] \in Frames
         /\ \A i \in 1 .. Len(s) - 1 : t[i] = s[i]
         /\ t[Len(s)] = In(s[Len(s)], p) /\ t[Len(s) + 1] = g
         /\ t[Len(s)].op = s[Len(s)].op /\ t[Len(s)].ph = p
         /\ t[Len(s)].rooted = s[Len(s)].rooted /\ t[Len(s)].asked = s[Len(s)].asked
         /\ ~t[Len(s)].current
<1> DEFINE f == s[Len(s)]
<1>1. Len(s) \in Nat /\ Len(s) > 0 /\ Len(t) = Len(s) + 1 /\ f \in Frames
  BY LenProperties, ElementOfSeq DEF Pushes
<1>2. t[Len(s)] = In(f, p) /\ t[Len(s) + 1] = g /\ \A i \in 1 .. Len(s) - 1 : t[i] = s[i]
  BY DEF Pushes, SameBelow
<1> HIDE DEF f
<1>3. /\ In(f, p) \in Frames
      /\ In(f, p).op = f.op /\ In(f, p).ph = p /\ In(f, p).rooted = f.rooted
      /\ In(f, p).asked = f.asked /\ In(f, p).current = FALSE
  BY <1>1, InTyped
<1> QED
  BY <1>1, <1>2, <1>3 DEF f

LEMMA PopsTop ==
  ASSUME NEW s \in Seq(Frames), NEW t \in Seq(Frames), NEW ok, Pops(s, t, ok)
  PROVE  /\ Len(s) \in Nat /\ Len(s) > 0 /\ Len(t) = Len(s) - 1 /\ Len(t) \in Nat
         /\ \A i \in 1 .. Len(t) - 1 : t[i] = s[i]
         /\ Len(t) > 0 => /\ s[Len(t)] \in Frames
                          /\ t[Len(t)].op = s[Len(t)].op
                          /\ t[Len(t)].ph = Resumed(s[Len(t)], ok)
                          /\ t[Len(t)].rooted = s[Len(t)].rooted
                          /\ t[Len(t)].asked = s[Len(t)].asked
                          /\ t[Len(t)].current = s[Len(t)].current
<1>1. Len(s) \in Nat /\ Len(s) > 0 /\ Len(t) = Len(s) - 1 /\ Len(t) \in Nat
  BY LenProperties DEF Pops
<1>2. \A i \in 1 .. Len(t) - 1 : t[i] = s[i]
  BY <1>1 DEF Pops, SameBelow
<1>3. ASSUME Len(t) > 0
      PROVE  LET f == s[Len(t)] IN f \in Frames /\ t[Len(t)] = [f EXCEPT !.ph = Resumed(f, ok)]
  BY <1>1, <1>3, ElementOfSeq DEF Pops
<1> QED
  BY <1>1, <1>2, <1>3 DEF Frames

LEMMA PutsTop ==
  ASSUME NEW s \in Seq(Frames), NEW t \in Seq(Frames), NEW g, Puts(s, t, g)
  PROVE  /\ Len(s) \in Nat /\ Len(s) > 0 /\ Len(t) = Len(s) /\ s[Len(s)] \in Frames
         /\ \A i \in 1 .. Len(s) - 1 : t[i] = s[i]
         /\ t[Len(s)] = g
BY LenProperties, ElementOfSeq DEF Puts, SameBelow

LEMMA AlikeFits ==
  ASSUME NEW th \in Threads, NEW s \in Seq(Frames), NEW t \in Seq(Frames),
         Alike(s, t), ThreadFits(th, s)
  PROVE  ThreadFits(th, t)
<1>1. Len(s) \in Nat /\ Len(t) = Len(s)
  BY LenProperties DEF Alike
<1>2. \A i \in 1 .. Len(s) : /\ t[i].op = s[i].op /\ t[i].ph = s[i].ph /\ t[i].rooted = s[i].rooted
                             /\ t[i].current => s[i].current
  BY DEF Alike, Like
<1>5. \A i \in 1 .. Len(s) : t[i].op = s[i].op /\ t[i].ph = s[i].ph
  BY <1>2
<1>3. \A i \in 1 .. Len(t) : Fits(t[i]) /\ (i < Len(t) <=> t[i].ph \in Waiting)
  BY <1>1, <1>2 DEF ThreadFits, Fits
<1>4. \A i \in 1 .. Len(t) - 1 : AboveFits(t[i], t[i + 1])
  BY <1>1, <1>5 DEF ThreadFits, AboveFits
<1> QED
  BY <1>1, <1>2, <1>3, <1>4 DEF ThreadFits

LEMMA MovesFits ==
  ASSUME NEW th \in Threads, NEW s \in Seq(Frames), NEW t \in Seq(Frames), NEW p \in Phases,
         Moves(s, t, p), ThreadFits(th, s), p \notin Waiting, Fits(In(s[Len(s)], p))
  PROVE  ThreadFits(th, t)
<1>1. /\ Len(s) \in Nat /\ Len(s) > 0 /\ Len(t) = Len(s)
      /\ \A i \in 1 .. Len(s) - 1 : t[i] = s[i]
      /\ t[Len(s)].op = s[Len(s)].op /\ t[Len(s)].rooted = s[Len(s)].rooted
      /\ t[Len(s)].ph = p /\ Fits(t[Len(s)])
  BY MovesTop
<1>2. \A i \in 1 .. Len(t) : /\ t[i].op = s[i].op /\ t[i].rooted = s[i].rooted
                             /\ Fits(t[i]) /\ (i < Len(t) <=> t[i].ph \in Waiting)
  BY <1>1 DEF ThreadFits
<1>3. ASSUME NEW i \in 1 .. Len(t) - 1 PROVE AboveFits(t[i], t[i + 1])
  <2>1. t[i] = s[i] /\ AboveFits(s[i], s[i + 1])
    BY <1>1 DEF ThreadFits
  <2>2. i + 1 \in 1 .. Len(t)
    BY <1>1
  <2>3. t[i + 1].op = s[i + 1].op
    BY <1>2, <2>2
  <2> QED
    BY <2>1, <2>3 DEF AboveFits
<1> QED
  BY <1>1, <1>2, <1>3 DEF ThreadFits

LEMMA PushesFits ==
  ASSUME NEW th \in Threads, NEW s \in Seq(Frames), NEW t \in Seq(Frames),
         NEW p \in Waiting, NEW g, Pushes(s, t, p, g), ThreadFits(th, s), MayBe(th, g),
         Fits(In(s[Len(s)], p)), AboveFits(In(s[Len(s)], p), g)
  PROVE  ThreadFits(th, t)
<1>1. p \in Phases
  BY DEF Waiting, Phases
<1>2. /\ Len(s) \in Nat /\ Len(s) > 0 /\ Len(t) = Len(s) + 1
      /\ \A i \in 1 .. Len(s) - 1 : t[i] = s[i]
      /\ t[Len(s)].op = s[Len(s)].op /\ t[Len(s)].rooted = s[Len(s)].rooted
      /\ t[Len(s)].ph = p /\ Fits(t[Len(s)]) /\ AboveFits(t[Len(s)], g)
      /\ t[Len(s) + 1] = g
  BY <1>1, PushesTop
<1>3. \A i \in 1 .. Len(s) : /\ t[i].op = s[i].op /\ t[i].rooted = s[i].rooted
                             /\ Fits(t[i]) /\ t[i].ph \in Waiting
  BY <1>2 DEF ThreadFits
<1>4. ASSUME NEW i \in 1 .. Len(s) - 1 PROVE AboveFits(t[i], t[i + 1])
  <2>1. t[i] = s[i] /\ AboveFits(s[i], s[i + 1])
    BY <1>2 DEF ThreadFits
  <2>2. i + 1 \in 1 .. Len(s)
    BY <1>2
  <2>3. t[i + 1].op = s[i + 1].op
    BY <1>3, <2>2
  <2> QED
    BY <2>1, <2>3 DEF AboveFits
<1>5. \A i \in 1 .. Len(t) : i = Len(s) + 1 \/ i \in 1 .. Len(s)
  BY <1>2
<1>6. \A i \in 1 .. Len(t) : Fits(t[i]) /\ (i < Len(t) <=> t[i].ph \in Waiting)
  BY <1>2, <1>3, <1>5 DEF MayBe
<1>7. \A i \in 1 .. Len(t) - 1 : AboveFits(t[i], t[i + 1])
  BY <1>2, <1>4
<1>8. th = "socket" => \A i \in 1 .. Len(t) : t[i].op # "act" /\ ~t[i].rooted
  BY <1>2, <1>3, <1>5 DEF MayBe, ThreadFits
<1>9. t[1].op = Bottom(th)
  BY <1>2, <1>3 DEF ThreadFits
<1> QED
  BY <1>6, <1>7, <1>8, <1>9 DEF ThreadFits

LEMMA PopsFits ==
  ASSUME NEW th \in Threads, NEW s \in Seq(Frames), NEW t \in Seq(Frames), NEW ok \in BOOLEAN,
         Pops(s, t, ok), ThreadFits(th, s)
  PROVE  ThreadFits(th, t)
<1>1. /\ Len(s) \in Nat /\ Len(s) > 0 /\ Len(t) = Len(s) - 1 /\ Len(t) \in Nat
      /\ \A i \in 1 .. Len(t) - 1 : t[i] = s[i]
  BY PopsTop
<1>2. CASE Len(t) = 0
  <2>1. \A i \in Int : i \notin 1 .. Len(t) /\ i \notin 1 .. Len(t) - 1
    BY <1>2
  <2> QED
    BY <1>2, <2>1 DEF ThreadFits
<1>3. CASE Len(t) > 0
  <2> DEFINE f == s[Len(t)]
             g == t[Len(t)]
  <2>1. /\ f \in Frames /\ g.op = f.op /\ g.rooted = f.rooted /\ g.ph = Resumed(f, ok)
        /\ g.current = f.current
    BY <1>3, PopsTop
  <2>2. f.ph \in Waiting /\ Fits(f)
    BY <1>1, <1>3 DEF ThreadFits
  <2>3. g.ph \notin Waiting /\ Fits(g)
    BY <2>1, <2>2 DEF Resumed, Waiting, Fits, Frames
  <2>4. \A i \in 1 .. Len(t) : /\ t[i].op = s[i].op /\ t[i].rooted = s[i].rooted
                               /\ Fits(t[i]) /\ (i < Len(t) <=> t[i].ph \in Waiting)
    BY <1>1, <1>3, <2>1, <2>3 DEF ThreadFits
  <2>5. \A i \in 1 .. Len(t) - 1 : AboveFits(t[i], t[i + 1])
    BY <1>1, <2>4 DEF ThreadFits, AboveFits
  <2> QED
    BY <1>1, <1>3, <2>4, <2>5 DEF ThreadFits
<1> QED
  BY <1>1, <1>2, <1>3

LEMMA PutsFits ==
  ASSUME NEW th \in Threads, NEW s \in Seq(Frames), NEW t \in Seq(Frames), NEW g,
         Puts(s, t, g), ThreadFits(th, s), MayBe(th, g), g.op = s[Len(s)].op
  PROVE  ThreadFits(th, t)
<1>1. /\ Len(s) \in Nat /\ Len(s) > 0 /\ Len(t) = Len(s) /\ t[Len(s)] = g
      /\ \A i \in 1 .. Len(s) - 1 : t[i] = s[i]
  BY PutsTop
<1>2. \A i \in 1 .. Len(t) : t[i].op = s[i].op /\ Fits(t[i]) /\ (i < Len(t) <=> t[i].ph \in Waiting)
  BY <1>1 DEF ThreadFits, MayBe
<1>3. \A i \in 1 .. Len(t) - 1 : i \in 1 .. Len(s) - 1 /\ t[i] = s[i] /\ AboveFits(s[i], s[i + 1])
                                 /\ t[i + 1].op = s[i + 1].op
  BY <1>1, <1>2 DEF ThreadFits
<1>4. \A i \in 1 .. Len(t) - 1 : AboveFits(t[i], t[i + 1])
  BY <1>3 DEF AboveFits
<1> QED
  BY <1>1, <1>2, <1>4 DEF ThreadFits, MayBe

-----------------------------------------------------------------------------
(* What each action does, with the types it keeps. *)

LEMMA MishapFacts ==
  ASSUME TypeOK, NEW c \in Clients, NEW th \in Threads,
         NEW what \in {"lost", "displaced", "revocation"}, Mishap(c, th, what)
  PROVE  /\ mishaps' \in [Clients -> SUBSET {"lost", "displaced", "revocation"}]
         /\ mishaps'[c] = IF th = "user" THEN mishaps[c] \cup {what} ELSE mishaps[c]
         /\ \A d \in Clients : d # c => mishaps'[d] = mishaps[d]
BY DEF TypeOK, Mishap

LEMMA ReturnFacts ==
  ASSUME TypeOK, Shape, NEW c \in Clients, NEW th \in Threads, NEW ok \in BOOLEAN,
         Depth(c, th) > 0, Return(c, th, ok)
  PROVE  /\ stack' \in Stacks /\ OnlyThread(c, th) /\ Pops(stack[c][th], stack'[c][th], ok)
         /\ reported' \in [Clients -> {"none", "ok", "failed"}]
         /\ reported'[c] = IF th = "user" /\ Len(stack[c][th]) = 1
                           THEN IF ok THEN "ok" ELSE "failed" ELSE reported[c]
         /\ \A d \in Clients : d # c => reported'[d] = reported[d]
<1>1. Len(stack[c][th]) \in Nat /\ ThreadFits(th, stack[c][th])
  BY TopTyped DEF Shape
<1>2. ASSUME Depth(c, th) > 1
      PROVE  stack[c][th][Depth(c, th) - 1].ph \in {"refresh", "root", "revoking"}
  <2>1. Depth(c, th) - 1 \in 1 .. Len(stack[c][th]) /\ Depth(c, th) - 1 < Len(stack[c][th])
    BY <1>1, <1>2 DEF Depth
  <2> QED
    BY <1>1, <2>1 DEF ThreadFits, Waiting
<1> QED
  BY <1>2, ReturnPops DEF Return, TypeOK, Depth

\* The versions that were sent are old.
LEMMA StaleFacts ==
  ASSUME NEW s \in Seq(Frames)
  PROVE  LET t == [i \in DOMAIN s |-> [s[i] EXCEPT !.current = FALSE]] IN
         t \in Seq(Frames) /\ Alike(s, t) /\ \A i \in 1 .. Len(s) : ~t[i].current
<1> DEFINE t == [i \in DOMAIN s |-> [s[i] EXCEPT !.current = FALSE]]
<1>1. Len(s) \in Nat /\ s \in [1 .. Len(s) -> Frames] /\ DOMAIN s = 1 .. Len(s)
  BY LenProperties
<1>2. \A f \in Frames : LET g == [f EXCEPT !.current = FALSE] IN
        g \in Frames /\ Like(f, g) /\ g.current = FALSE
  BY DEF Frames, Like
<1>3. /\ t \in [1 .. Len(s) -> Frames]
      /\ \A i \in 1 .. Len(s) : Like(s[i], t[i]) /\ t[i].current = FALSE
  BY <1>1, <1>2
<1> HIDE DEF t
<1>4. t \in Seq(Frames)
  BY <1>1, <1>3, SeqDef
<1>5. Len(t) = Len(s)
  BY <1>1, <1>3, <1>4, LenProperties
<1> QED
  BY <1>3, <1>4, <1>5 DEF Alike, t

\* What Committed does.
AfterCommit(c, th, requests) ==
  /\ stack' \in Stacks /\ OthersAlike(c, th)
  /\ \A d \in Clients, u \in Threads : d # c \/ u # th =>
       \A i \in 1 .. Len(stack[d][u]) : ~stack'[d][u][i].current
  /\ pending' = requests
  /\ view' \in [Clients -> [current : BOOLEAN, requests : SUBSET born']]
  /\ \A d \in Clients : d # c => view'[d].requests = view[d].requests /\ ~view'[d].current
  /\ notified' = notified \cup (Clients \ {c})
  /\ faults' \in 0 .. MaxFaults
  /\ mishaps' \in [Clients -> SUBSET {"lost", "displaced", "revocation"}]
  /\ \/ /\ Moves(stack[c][th], stack'[c][th], "check")
        /\ view'[c] = Graph(c, requests) /\ UNCHANGED <<mishaps, faults>>
     \/ /\ Moves(stack[c][th], stack'[c][th], "failed")
        /\ Mishap(c, th, "lost") /\ faults' = faults + 1
        /\ view'[c].requests = view[c].requests /\ ~view'[c].current

LEMMA CommittedFacts ==
  ASSUME TypeOK, NEW c \in Clients, NEW th \in Threads, NEW requests,
         requests \subseteq born', born \subseteq born', born' \subseteq Requests,
         Depth(c, th) > 0, Committed(c, th, requests)
  PROVE  AfterCommit(c, th, requests)
<1> DEFINE Old(s) == [i \in DOMAIN s |-> [s[i] EXCEPT !.current = FALSE]]
<1>1. /\ stack \in Stacks /\ Len(stack[c][th]) > 0 /\ Phases # {}
      /\ "check" \in Phases /\ "failed" \in Phases
      /\ \A d \in Clients, u \in Threads : stack[d][u] \in Seq(Frames)
  BY DEF TypeOK, Stacks, Depth, Phases
<1>2. PICK answered \in BOOLEAN :
       /\ answered \/ faults < MaxFaults
       /\ view' = [d \in Clients |-> IF d = c /\ answered THEN Graph(c, requests)
                                     ELSE [view[d] EXCEPT !.current = FALSE]]
       /\ stack' = [d \in Clients |-> [t \in Threads |->
            IF d = c /\ t = th THEN Moved(stack[d][t], IF answered THEN "check" ELSE "failed", <<>>)
            ELSE Old(stack[d][t])]]
       /\ IF answered THEN UNCHANGED <<mishaps, faults>>
                      ELSE Mishap(c, th, "lost") /\ faults' = faults + 1
  BY DEF Committed
<1> DEFINE p == IF answered THEN "check" ELSE "failed"
           new == Moved(stack[c][th], p, <<>>)
<1>3. new \in Seq(Frames) /\ Moves(stack[c][th], new, p)
  BY <1>1, MovedMoves
<1>4. \A d \in Clients, u \in Threads : LET s == stack[d][u] IN
        Old(s) \in Seq(Frames) /\ Alike(s, Old(s)) /\ \A i \in 1 .. Len(s) : ~Old(s)[i].current
  BY <1>1, StaleFacts
<1> HIDE DEF Old, new
<1>5. /\ \A d \in Clients, u \in Threads :
           stack'[d][u] = IF d = c /\ u = th THEN new ELSE Old(stack[d][u])
      /\ stack' \in Stacks
  BY <1>2, <1>3, <1>4 DEF new, Stacks
<1>6. OthersAlike(c, th) /\ Moves(stack[c][th], stack'[c][th], p)
  BY <1>3, <1>4, <1>5 DEF OthersAlike
<1>7. \A d \in Clients, u \in Threads : d # c \/ u # th =>
        \A i \in 1 .. Len(stack[d][u]) : ~stack'[d][u][i].current
  BY <1>4, <1>5
<1>8. /\ \A d \in Clients : view[d] \in [current : BOOLEAN, requests : SUBSET born']
      /\ Graph(c, requests) \in [current : BOOLEAN, requests : SUBSET born']
  BY DEF TypeOK, Graph
<1> DEFINE V(d) == IF d = c /\ answered THEN Graph(c, requests) ELSE [view[d] EXCEPT !.current = FALSE]
<1>9. /\ \A d \in Clients : V(d) \in [current : BOOLEAN, requests : SUBSET born']
      /\ \A d \in Clients : d # c \/ ~answered => V(d).requests = view[d].requests /\ ~V(d).current
      /\ answered => V(c) = Graph(c, requests)
  BY <1>8
<1>10. view' = [d \in Clients |-> V(d)]
  BY <1>2
<1> HIDE DEF V
<1>11. faults' \in 0 .. MaxFaults
  BY <1>2, RetryAssumption DEF TypeOK
<1>12. mishaps' \in [Clients -> SUBSET {"lost", "displaced", "revocation"}]
  BY <1>2, MishapFacts DEF TypeOK
<1>13. pending' = requests /\ notified' = notified \cup (Clients \ {c})
  BY DEF Committed
<1>14. /\ view' \in [Clients -> [current : BOOLEAN, requests : SUBSET born']]
       /\ \A d \in Clients : d # c => view'[d].requests = view[d].requests /\ ~view'[d].current
       /\ answered => view'[c] = Graph(c, requests)
       /\ ~answered => view'[c].requests = view[c].requests /\ ~view'[c].current
  BY <1>9, <1>10
<1>15. CASE answered
  <2>1. Moves(stack[c][th], stack'[c][th], "check") /\ UNCHANGED <<mishaps, faults>>
    BY <1>2, <1>6, <1>15
  <2> QED
    BY <1>5, <1>6, <1>7, <1>11, <1>12, <1>13, <1>14, <1>15, <2>1 DEF AfterCommit
<1>16. CASE ~answered
  <2>1. /\ Moves(stack[c][th], stack'[c][th], "failed")
        /\ Mishap(c, th, "lost") /\ faults' = faults + 1
    BY <1>2, <1>6, <1>16
  <2> QED
    BY <1>5, <1>6, <1>7, <1>11, <1>12, <1>13, <1>14, <1>16, <2>1 DEF AfterCommit
<1> QED
  BY <1>15, <1>16

LEMMA TopFacts ==
  ASSUME TypeOK, Shape, NEW c \in Clients, NEW th \in Threads, Depth(c, th) > 0
  PROVE  LET s == stack[c][th]
             f == s[Len(s)]
         IN /\ s \in Seq(Frames) /\ Len(s) \in Nat /\ Len(s) > 0 /\ Top(c, th) = f
            /\ f \in Frames /\ f.rooted \in BOOLEAN
            /\ Fits(f) /\ f.ph \notin Waiting /\ ThreadFits(th, s)
            /\ th = "socket" => f.op # "act" /\ ~f.rooted
<1>1. /\ stack[c][th] \in Seq(Frames) /\ Len(stack[c][th]) \in Nat /\ Len(stack[c][th]) > 0
      /\ Len(stack[c][th]) \in 1 .. Len(stack[c][th])
  BY TopTyped DEF Depth
<1>2. stack[c][th][Len(stack[c][th])] \in Frames
  BY <1>1, TopTyped
<1>3. stack[c][th][Len(stack[c][th])].rooted \in BOOLEAN
  BY <1>2 DEF Frames
<1> QED
  BY <1>1, <1>2, <1>3 DEF Top, Depth, Shape, ThreadFits

LEMMA AlikeReflexive == ASSUME NEW s PROVE Alike(s, s)
BY DEF Alike, Like

LEMMA OnlyThreadAlike ==
  ASSUME NEW c \in Clients, NEW th \in Threads, OnlyThread(c, th)
  PROVE  OthersAlike(c, th)
BY AlikeReflexive DEF OnlyThread, OthersAlike

LEMMA ShapeKept ==
  ASSUME TypeOK, Shape, NEW c \in Clients, NEW th \in Threads,
         stack' \in Stacks, OthersAlike(c, th), ThreadFits(th, stack'[c][th])
  PROVE  Shape'
<1>1. ASSUME NEW d \in Clients, NEW u \in Threads, d # c \/ u # th
      PROVE  ThreadFits(u, stack'[d][u])
  <2>1. stack[d][u] \in Seq(Frames) /\ stack'[d][u] \in Seq(Frames)
    BY TopTyped DEF Stacks
  <2>2. Alike(stack[d][u], stack'[d][u]) /\ ThreadFits(u, stack[d][u])
    BY <1>1 DEF OthersAlike, Shape
  <2> QED
    BY <2>1, <2>2, AlikeFits
<1> QED
  BY <1>1 DEF Shape

\* An action that is answered, or whose request fails.
LEMMA MovesShape ==
  ASSUME TypeOK, Shape, NEW c \in Clients, NEW th \in Threads, NEW p \in {"check", "failed"},
         stack' \in Stacks, OthersAlike(c, th), Moves(stack[c][th], stack'[c][th], p)
  PROVE  Shape'
<1> DEFINE s == stack[c][th]
           f == s[Len(s)]
<1>1. s \in Seq(Frames) /\ stack'[c][th] \in Seq(Frames) /\ ThreadFits(th, s) /\ p \in Phases
  BY TopTyped DEF Stacks, Shape, Phases
<1>2. f \in Frames
  BY <1>1, MovesTop
<1>3. Fits(In(f, p)) /\ p \notin Waiting
  <2>1. In(f, p).ph = p /\ In(f, p).current = FALSE
    BY <1>1, <1>2, InTyped
  <2> QED
    BY <2>1 DEF Fits, Waiting
<1>4. ThreadFits(th, stack'[c][th])
  BY <1>1, <1>3, MovesFits
<1> QED
  BY <1>4, ShapeKept

LEMMA CommitActionFacts ==
  ASSUME TypeOK, Shape, NEW c \in Clients, NEW th \in Threads, CommitAction(c, th)
  PROVE  /\ TypeOK' /\ Shape' /\ AfterCommit(c, th, pending')
         /\ Len(stack[c][th]) > 0
         /\ LET f == stack[c][th][Len(stack[c][th])] IN f.op = "act" /\ f.ph = "sent" /\ f.current
         /\ pending \subseteq pending'
         /\ commits' = [commits EXCEPT ![c] = @ + 1] /\ UNCHANGED <<processing, direct, jammed, reported>>
<1>1. Depth(c, th) > 0
  BY DEF CommitAction, Awaits, Running
<1>2. PICK new \in SUBSET (Requests \ born) :
        born' = born \cup new /\ Committed(c, th, pending \cup new)
  BY DEF CommitAction
<1>3. /\ pending \cup new \subseteq born' /\ born \subseteq born' /\ born' \subseteq Requests
      /\ pending' = pending \cup new
  BY <1>2 DEF TypeOK, Committed
<1>4. AfterCommit(c, th, pending')
  BY <1>1, <1>2, <1>3, CommittedFacts
<1>5. commits' = [commits EXCEPT ![c] = @ + 1] /\ commits[c] < MaxCommits
      /\ UNCHANGED <<processing, direct, jammed, reported>>
  BY DEF CommitAction
<1>6. commits' \in [Clients -> 0 .. MaxCommits]
  BY <1>5, RetryAssumption DEF TypeOK
<1>7. TypeOK'
  BY <1>3, <1>4, <1>5, <1>6 DEF TypeOK, AfterCommit, Stacks
<1>8. Shape'
  BY <1>4, MovesShape DEF AfterCommit
<1> QED
  BY <1>1, <1>3, <1>4, <1>5, <1>7, <1>8, TopFacts DEF CommitAction, Awaits, Running

LEMMA CommitRevocationFacts ==
  ASSUME TypeOK, Shape, NEW c \in Clients, NEW th \in Threads, CommitRevocation(c, th)
  PROVE  /\ TypeOK' /\ Shape' /\ AfterCommit(c, th, pending')
         /\ Len(stack[c][th]) > 0
         /\ LET f == stack[c][th][Len(stack[c][th])] IN
              f.op = "process" /\ f.ph = "sent" /\ f.current /\ pending' = pending \ f.asked
         /\ UNCHANGED <<processing, direct, jammed, reported, commits>>
<1>1. Depth(c, th) > 0
  BY DEF CommitRevocation, Awaits, Running
<1> DEFINE asked == Top(c, th).asked
<1>2. Committed(c, th, pending \ asked) /\ UNCHANGED <<born, processing, direct, jammed, reported, commits>>
  BY DEF CommitRevocation
<1>3. /\ pending \ asked \subseteq born' /\ born \subseteq born' /\ born' \subseteq Requests
      /\ pending' = pending \ asked
  BY <1>2 DEF TypeOK, Committed
<1>4. AfterCommit(c, th, pending')
  BY <1>1, <1>2, <1>3, CommittedFacts
<1>5. TypeOK'
  BY <1>2, <1>3, <1>4 DEF TypeOK, AfterCommit, Stacks
<1>6. Shape'
  BY <1>4, MovesShape DEF AfterCommit
<1> QED
  BY <1>1, <1>2, <1>3, <1>4, <1>5, <1>6, TopFacts DEF CommitRevocation, Awaits, Running

LEMMA OutdatedFacts ==
  ASSUME TypeOK, Shape, NEW c \in Clients, NEW th \in Threads, Outdated(c, th)
  PROVE  LET f == stack[c][th][Len(stack[c][th])] IN
         /\ TypeOK' /\ Shape' /\ OnlyThread(c, th)
         /\ f.op \in {"act", "process"} /\ f.ph = "sent" /\ ~f.current
         /\ Pushes(stack[c][th], stack'[c][th], "refresh",
                   Frame("session", (f.op = "act" /\ c \notin direct) \/ f.rooted, view[c]))
         /\ IF f.op = "process" /\ f.rooted THEN Mishap(c, th, "displaced") ELSE UNCHANGED mishaps
         /\ UNCHANGED <<server, view, processing, direct, jammed, notified, reported, commits, faults>>
<1> DEFINE s == stack[c][th]
           f == s[Len(s)]
           g == Frame("session", (f.op = "act" /\ c \notin direct) \/ f.rooted, view[c])
<1>1. Depth(c, th) > 0
  BY DEF Outdated, Awaits, Running
<1>2. /\ s \in Seq(Frames) /\ Len(s) \in Nat /\ Len(s) > 0 /\ Top(c, th) = f
      /\ f \in Frames /\ f.rooted \in BOOLEAN /\ Fits(f) /\ ThreadFits(th, s)
      /\ th = "socket" => f.op # "act" /\ ~f.rooted
  BY <1>1, TopFacts
<1>3. f.op \in {"act", "process"} /\ f.ph = "sent" /\ ~f.current
  BY <1>2 DEF Outdated, Awaits, Running
<1>4. /\ Goto(c, th, "refresh", <<g>>)
      /\ IF f.op = "process" /\ f.rooted THEN Mishap(c, th, "displaced") ELSE UNCHANGED mishaps
      /\ UNCHANGED <<server, view, processing, direct, jammed, notified, reported, commits, faults>>
  BY <1>2 DEF Outdated
<1>5. /\ g \in Frames /\ g.op = "session" /\ g.ph = "sent"
      /\ g.rooted = ((f.op = "act" /\ c \notin direct) \/ f.rooted)
  BY <1>2, FrameTyped
<1> HIDE DEF f, s, g
<1>6. stack' \in Stacks /\ OnlyThread(c, th) /\ Pushes(s, stack'[c][th], "refresh", g)
  <2>1. "refresh" \in Phases
    BY DEF Phases
  <2> QED
    BY <1>1, <1>4, <1>5, <2>1, GotoPushes DEF s
<1>7. mishaps' \in [Clients -> SUBSET {"lost", "displaced", "revocation"}]
  BY <1>4, MishapFacts DEF TypeOK
<1>8. TypeOK'
  BY <1>4, <1>6, <1>7 DEF TypeOK, Stacks, server
<1>9. MayBe(th, g)
  BY <1>2, <1>3, <1>5 DEF MayBe, Fits, Waiting
<1>10. Fits(In(f, "refresh")) /\ AboveFits(In(f, "refresh"), g)
  <2>1. In(f, "refresh").op = f.op /\ In(f, "refresh").ph = "refresh" /\ ~In(f, "refresh").current
    BY <1>2, InTyped DEF Phases
  <2> QED
    BY <1>3, <1>5, <2>1 DEF Fits, AboveFits
<1>11. ThreadFits(th, stack'[c][th])
  BY <1>2, <1>6, <1>9, <1>10, PushesFits DEF Stacks, Waiting, s, f
<1>12. Shape'
  BY <1>6, <1>11, OnlyThreadAlike, ShapeKept
<1> QED
  BY <1>3, <1>4, <1>6, <1>8, <1>12 DEF s, f, g

\* Refuse, Break and Session: the request is over.
AfterAnswer(c, th, p) ==
  LET f == stack[c][th][Len(stack[c][th])] IN
  /\ OnlyThread(c, th) /\ Len(stack[c][th]) > 0 /\ f.ph = "sent"
  /\ Moves(stack[c][th], stack'[c][th], p)
  /\ UNCHANGED <<server, processing, direct, jammed, notified, reported, commits, mishaps>>

LEMMA RefuseFacts ==
  ASSUME TypeOK, Shape, NEW c \in Clients, NEW th \in Threads, Refuse(c, th)
  PROVE  LET f == stack[c][th][Len(stack[c][th])] IN
         /\ TypeOK' /\ Shape' /\ AfterAnswer(c, th, "failed")
         /\ f.op \in {"act", "process"} /\ (f.op = "process" => ~(f.asked \subseteq pending))
         /\ UNCHANGED <<view, faults>>
<1>1. Depth(c, th) > 0 /\ "failed" \in Phases /\ Goto(c, th, "failed", <<>>)
  BY DEF Refuse, Awaits, Running, Phases
<1>2. UNCHANGED <<server, view, processing, direct, jammed, notified, reported, commits, mishaps, faults>>
  BY DEF Refuse
<1>3. /\ stack' \in Stacks /\ OnlyThread(c, th) /\ OthersAlike(c, th)
      /\ Moves(stack[c][th], stack'[c][th], "failed")
  BY <1>1, GotoMoves, OnlyThreadAlike
<1>4. TypeOK' /\ Shape'
  BY <1>2, <1>3, MovesShape DEF TypeOK, Stacks, server
<1> QED
  BY <1>1, <1>2, <1>3, <1>4, TopFacts DEF Refuse, Awaits, Running, AfterAnswer

LEMMA BreakFacts ==
  ASSUME TypeOK, Shape, NEW c \in Clients, NEW th \in Threads, Break(c, th)
  PROVE  TypeOK' /\ Shape' /\ AfterAnswer(c, th, "failed") /\ faults' = faults + 1 /\ UNCHANGED view
<1>1. Depth(c, th) > 0 /\ "failed" \in Phases /\ Goto(c, th, "failed", <<>>)
  BY DEF Break, Running, Phases
<1>2. /\ UNCHANGED <<server, view, processing, direct, jammed, notified, reported, commits, mishaps>>
      /\ faults' = faults + 1 /\ faults' \in 0 .. MaxFaults
  BY RetryAssumption DEF Break, TypeOK
<1>3. /\ stack' \in Stacks /\ OnlyThread(c, th) /\ OthersAlike(c, th)
      /\ Moves(stack[c][th], stack'[c][th], "failed")
  BY <1>1, GotoMoves, OnlyThreadAlike
<1>4. TypeOK' /\ Shape'
  BY <1>2, <1>3, MovesShape DEF TypeOK, Stacks, server
<1> QED
  BY <1>1, <1>2, <1>3, <1>4, TopFacts DEF Break, Running, AfterAnswer

LEMMA SessionFacts ==
  ASSUME TypeOK, Shape, NEW c \in Clients, NEW th \in Threads, Session(c, th)
  PROVE  /\ TypeOK' /\ Shape' /\ AfterAnswer(c, th, "check")
         /\ stack[c][th][Len(stack[c][th])].op = "session"
         /\ view' = [view EXCEPT ![c] = Graph(c, pending)] /\ UNCHANGED faults
<1>1. Depth(c, th) > 0 /\ "check" \in Phases /\ Goto(c, th, "check", <<>>)
  BY DEF Session, Awaits, Running, Phases
<1>2. /\ UNCHANGED <<server, processing, direct, jammed, notified, reported, commits, mishaps, faults>>
      /\ view' = [view EXCEPT ![c] = Graph(c, pending)]
  BY DEF Session
<1>3. /\ stack' \in Stacks /\ OnlyThread(c, th) /\ OthersAlike(c, th)
      /\ Moves(stack[c][th], stack'[c][th], "check")
  BY <1>1, GotoMoves, OnlyThreadAlike
<1>4. view' \in [Clients -> [current : BOOLEAN, requests : SUBSET born]]
  BY <1>2 DEF TypeOK, Graph
<1>5. TypeOK' /\ Shape'
  BY <1>2, <1>3, <1>4, MovesShape DEF TypeOK, Stacks, server
<1> QED
  BY <1>1, <1>2, <1>3, <1>5, TopFacts DEF Session, Awaits, Running, AfterAnswer

\* The thread returns from its top dispatch.
AfterReturn(c, th, ok) ==
  /\ OnlyThread(c, th) /\ Pops(stack[c][th], stack'[c][th], ok)
  /\ reported'[c] = IF th = "user" /\ Len(stack[c][th]) = 1
                    THEN IF ok THEN "ok" ELSE "failed" ELSE reported[c]
  /\ \A d \in Clients : d # c => reported'[d] = reported[d]

LEMMA ReturnShape ==
  ASSUME TypeOK, Shape, NEW c \in Clients, NEW th \in Threads, NEW ok \in BOOLEAN,
         Depth(c, th) > 0, Return(c, th, ok)
  PROVE  /\ stack' \in Stacks /\ Shape' /\ AfterReturn(c, th, ok)
         /\ reported' \in [Clients -> {"none", "ok", "failed"}]
<1>1. /\ stack' \in Stacks /\ OnlyThread(c, th) /\ Pops(stack[c][th], stack'[c][th], ok)
      /\ reported' \in [Clients -> {"none", "ok", "failed"}] /\ AfterReturn(c, th, ok)
  BY ReturnFacts DEF AfterReturn
<1>2. stack[c][th] \in Seq(Frames) /\ stack'[c][th] \in Seq(Frames) /\ ThreadFits(th, stack[c][th])
  BY <1>1, TopTyped DEF Stacks, Shape
<1>3. ThreadFits(th, stack'[c][th])
  BY <1>1, <1>2, PopsFits
<1> QED
  BY <1>1, <1>3, OnlyThreadAlike, ShapeKept

LEMMA CheckFacts ==
  ASSUME TypeOK, Shape, NEW c \in Clients, NEW th \in Threads, Check(c, th)
  PROVE  LET f == stack[c][th][Len(stack[c][th])] IN
         /\ TypeOK' /\ Shape' /\ OnlyThread(c, th) /\ Len(stack[c][th]) > 0 /\ f.ph = "check"
         /\ IF Needed(c, f)
            THEN /\ processing' = [processing EXCEPT ![c] = TRUE] /\ UNCHANGED reported
                 /\ Pushes(stack[c][th], stack'[c][th], "revoking",
                           Frame("process", f.rooted, view[c]))
            ELSE /\ processing' = [processing EXCEPT ![c] = Busy(c, f)]
                 /\ AfterReturn(c, th, TRUE)
         /\ UNCHANGED <<server, view, direct, jammed, notified, commits, mishaps, faults>>
<1> DEFINE s == stack[c][th]
           f == s[Len(s)]
           g == Frame("process", f.rooted, view[c])
           busy == Busy(c, f)
           needed == Needed(c, f)
<1>1. Depth(c, th) > 0 /\ f.ph = "check"
  BY TopFacts DEF Check, Running
<1>2. /\ s \in Seq(Frames) /\ Len(s) > 0 /\ Top(c, th) = f
      /\ f \in Frames /\ f.rooted \in BOOLEAN /\ Fits(f) /\ ThreadFits(th, s)
      /\ th = "socket" => f.op # "act" /\ ~f.rooted
  BY <1>1, TopFacts
<1>3. UNCHANGED <<server, view, direct, jammed, notified, commits, mishaps, faults>> /\ busy \in BOOLEAN
  BY DEF Check, Busy
<1>4. CASE needed
  <2>1. /\ processing' = [processing EXCEPT ![c] = TRUE] /\ UNCHANGED reported
        /\ Goto(c, th, "revoking", <<g>>)
    BY <1>2, <1>4 DEF Check
  <2>2. g \in Frames /\ g.op = "process" /\ g.ph = "sent" /\ g.rooted = f.rooted
    BY <1>2, FrameTyped
  <2> HIDE DEF f, s, g
  <2>3. stack' \in Stacks /\ OnlyThread(c, th) /\ Pushes(s, stack'[c][th], "revoking", g)
    <3>1. "revoking" \in Phases
      BY DEF Phases
    <3> QED
      BY <1>1, <2>1, <2>2, <3>1, GotoPushes DEF s
  <2>4. TypeOK'
    BY <1>3, <2>1, <2>3 DEF TypeOK, Stacks, server
  <2>5. MayBe(th, g)
    <3>1. ~g.current \/ g.ph = "sent"
      BY <2>2
    <3> QED
      BY <1>2, <2>2, <3>1 DEF MayBe, Fits, Waiting
  <2>6. Fits(In(f, "revoking")) /\ AboveFits(In(f, "revoking"), g)
    <3>1. In(f, "revoking").op = f.op /\ In(f, "revoking").ph = "revoking" /\ ~In(f, "revoking").current
      BY <1>2, InTyped DEF Phases
    <3> QED
      BY <2>2, <3>1 DEF Fits, AboveFits
  <2>7. ThreadFits(th, stack'[c][th])
    BY <1>2, <2>3, <2>5, <2>6, PushesFits DEF Stacks, Waiting, s, f
  <2>8. Shape'
    BY <2>3, <2>7, OnlyThreadAlike, ShapeKept
  <2> QED
    BY <1>1, <1>2, <1>3, <1>4, <2>1, <2>3, <2>4, <2>8 DEF s, f, g
<1>5. CASE ~needed
  <2>1. processing' = [processing EXCEPT ![c] = busy] /\ Return(c, th, TRUE)
    BY <1>2, <1>5 DEF Check
  <2>2. /\ stack' \in Stacks /\ Shape' /\ AfterReturn(c, th, TRUE)
        /\ reported' \in [Clients -> {"none", "ok", "failed"}]
    BY <1>1, <2>1, ReturnShape
  <2> HIDE DEF busy
  <2>3. TypeOK'
    BY <1>3, <2>1, <2>2 DEF TypeOK, Stacks, server
  <2> QED
    BY <1>1, <1>2, <1>3, <1>5, <2>1, <2>2, <2>3 DEF AfterReturn, busy
<1> QED
  BY <1>4, <1>5

LEMMA ThrowFacts ==
  ASSUME TypeOK, Shape, NEW c \in Clients, NEW th \in Threads, Throw(c, th)
  PROVE  LET f == stack[c][th][Len(stack[c][th])] IN
         /\ TypeOK' /\ Shape' /\ OnlyThread(c, th) /\ Len(stack[c][th]) > 0
         /\ f.ph = "check" /\ Needed(c, f)
         /\ Moves(stack[c][th], stack'[c][th], "failed")
         /\ processing' = [processing EXCEPT ![c] = TRUE]
         /\ jammed' = IF f.op = "process" THEN jammed ELSE jammed \cup {c}
         /\ Mishap(c, th, "revocation") /\ faults' = faults + 1
         /\ UNCHANGED <<server, view, direct, notified, reported, commits>>
<1> DEFINE f == stack[c][th][Len(stack[c][th])]
<1>1. Depth(c, th) > 0 /\ "failed" \in Phases /\ Goto(c, th, "failed", <<>>)
  BY DEF Throw, Running, Phases
<1>2. Top(c, th) = f /\ f.ph = "check" /\ Len(stack[c][th]) > 0
  BY <1>1, TopFacts DEF Throw, Running
<1>3. /\ UNCHANGED <<server, view, direct, notified, reported, commits>>
      /\ faults' = faults + 1 /\ Mishap(c, th, "revocation")
      /\ processing' = [processing EXCEPT ![c] = TRUE]
      /\ jammed' = IF f.op = "process" THEN jammed ELSE jammed \cup {c}
      /\ Needed(c, f)
  BY <1>2 DEF Throw
<1>4. /\ stack' \in Stacks /\ OnlyThread(c, th) /\ OthersAlike(c, th)
      /\ Moves(stack[c][th], stack'[c][th], "failed")
  BY <1>1, GotoMoves, OnlyThreadAlike
<1> HIDE DEF f
<1>5. /\ processing' \in [Clients -> BOOLEAN] /\ jammed' \subseteq Clients
      /\ mishaps' \in [Clients -> SUBSET {"lost", "displaced", "revocation"}]
      /\ faults' \in 0 .. MaxFaults
  <2>1. faults < MaxFaults
    BY DEF Throw
  <2>2. mishaps' \in [Clients -> SUBSET {"lost", "displaced", "revocation"}]
    BY <1>3, MishapFacts
  <2>3. faults' \in 0 .. MaxFaults
    BY <1>3, <2>1, RetryAssumption DEF TypeOK
  <2>4. processing' \in [Clients -> BOOLEAN] /\ jammed' \subseteq Clients
    BY <1>3 DEF TypeOK
  <2> QED
    BY <2>2, <2>3, <2>4
<1>6. TypeOK' /\ Shape'
  BY <1>3, <1>4, <1>5, MovesShape DEF TypeOK, Stacks, server
<1> QED
  BY <1>2, <1>3, <1>4, <1>6 DEF f

LEMMA FailureFacts ==
  ASSUME TypeOK, Shape, NEW c \in Clients, NEW th \in Threads, Failure(c, th)
  PROVE  LET f == stack[c][th][Len(stack[c][th])] IN
         /\ TypeOK' /\ Shape' /\ AfterReturn(c, th, FALSE)
         /\ Len(stack[c][th]) > 0 /\ f.ph = "failed"
         /\ IF f.op = "process"
            THEN processing' = [processing EXCEPT ![c] = FALSE] /\ Mishap(c, th, "revocation")
            ELSE UNCHANGED <<processing, mishaps>>
         /\ UNCHANGED <<server, view, direct, jammed, notified, commits, faults>>
<1> DEFINE f == stack[c][th][Len(stack[c][th])]
<1>1. Depth(c, th) > 0 /\ Return(c, th, FALSE)
  BY DEF Failure, Running
<1>2. Top(c, th) = f /\ f.ph = "failed" /\ Len(stack[c][th]) > 0
  BY <1>1, TopFacts DEF Failure, Running
<1>3. /\ IF f.op = "process"
         THEN processing' = [processing EXCEPT ![c] = FALSE] /\ Mishap(c, th, "revocation")
         ELSE UNCHANGED <<processing, mishaps>>
      /\ UNCHANGED <<server, view, direct, jammed, notified, commits, faults>>
  BY <1>2 DEF Failure
<1>4. /\ stack' \in Stacks /\ Shape' /\ AfterReturn(c, th, FALSE)
      /\ reported' \in [Clients -> {"none", "ok", "failed"}]
  BY <1>1, ReturnShape
<1> HIDE DEF f
<1>5. /\ processing' \in [Clients -> BOOLEAN]
      /\ mishaps' \in [Clients -> SUBSET {"lost", "displaced", "revocation"}]
  BY <1>3, MishapFacts DEF TypeOK
<1>6. TypeOK'
  BY <1>3, <1>4, <1>5 DEF TypeOK, Stacks, server
<1> QED
  BY <1>2, <1>3, <1>4, <1>6 DEF f

LEMMA ResultFacts ==
  ASSUME TypeOK, Shape, NEW c \in Clients, NEW th \in Threads, Result(c, th)
  PROVE  LET f == stack[c][th][Len(stack[c][th])] IN
         /\ TypeOK' /\ Shape' /\ Len(stack[c][th]) > 0
         /\ \/ f.ph = "ok" /\ AfterReturn(c, th, TRUE)
            \/ f.ph = "err" /\ AfterReturn(c, th, FALSE)
         /\ UNCHANGED <<server, view, processing, direct, jammed, notified, commits, mishaps, faults>>
<1> DEFINE f == stack[c][th][Len(stack[c][th])]
           ok == Running(c, th, "ok")
<1>1. Depth(c, th) > 0 /\ Return(c, th, ok)
      /\ UNCHANGED <<server, view, processing, direct, jammed, notified, commits, mishaps, faults>>
  BY DEF Result, Running
<1>2. Top(c, th) = f /\ f.ph \in {"ok", "err"} /\ Len(stack[c][th]) > 0 /\ (ok <=> f.ph = "ok")
  BY <1>1, TopFacts DEF Result, Running
<1>3. ok \in BOOLEAN
  BY DEF Running
<1> HIDE DEF ok
<1>4. /\ stack' \in Stacks /\ Shape' /\ AfterReturn(c, th, ok)
      /\ reported' \in [Clients -> {"none", "ok", "failed"}]
  BY <1>1, <1>3, ReturnShape
<1>5. TypeOK'
  BY <1>1, <1>4 DEF TypeOK, Stacks, server
<1>6. CASE ok
  BY <1>1, <1>2, <1>4, <1>5, <1>6
<1>7. CASE ~ok
  <2>1. ok = FALSE /\ f.ph = "err"
    BY <1>2, <1>3, <1>7
  <2> QED
    BY <1>1, <1>2, <1>4, <1>5, <2>1
<1> QED
  BY <1>6, <1>7

LEMMA RetryFacts ==
  ASSUME TypeOK, Shape, NEW c \in Clients, NEW th \in Threads, Retry(c, th)
  PROVE  LET s == stack[c][th]
             f == s[Len(s)]
             t == stack'[c][th]
         IN
         /\ TypeOK' /\ Shape' /\ OnlyThread(c, th) /\ Len(s) > 0 /\ f.ph = "again"
         /\ \/ f.op = "act" /\ Puts(s, t, Frame("act", c \notin direct, view[c]))
            \/ f.op = "process" /\ f.rooted /\ Pushes(s, t, "root", Frame("act", TRUE, view[c]))
            \/ /\ f.op = "process" /\ ~f.rooted
               /\ Puts(s, t, [Frame("process", FALSE, view[c]) EXCEPT !.asked = f.asked])
         /\ UNCHANGED <<server, view, processing, direct, jammed, notified, reported, commits, mishaps, faults>>
<1> DEFINE s == stack[c][th]
           f == s[Len(s)]
           t == stack'[c][th]
           e == Frame("act", c \notin direct, view[c])
           g == Frame("act", TRUE, view[c])
           h == [Frame("process", FALSE, view[c]) EXCEPT !.asked = f.asked]
<1>1. Depth(c, th) > 0
  BY DEF Retry, Running
<1>2. /\ s \in Seq(Frames) /\ Len(s) > 0 /\ Len(s) \in Nat /\ Top(c, th) = f
      /\ f \in Frames /\ f.rooted \in BOOLEAN /\ Fits(f) /\ ThreadFits(th, s)
      /\ th = "socket" => f.op # "act" /\ ~f.rooted
  BY <1>1, TopFacts
<1>3. f.ph = "again" /\ f.op \in {"act", "process"}
  <2>1. f.ph = "again"
    BY <1>2 DEF Retry, Running
  <2>2. f.op \in {"act", "session", "process", "message"}
    BY <1>2 DEF Frames
  <2> QED
    BY <1>2, <2>1, <2>2 DEF Fits
<1>4. /\ UNCHANGED <<server, view, processing, direct, jammed, notified, reported, commits, mishaps, faults>>
      /\ \/ f.op = "act" /\ stack' = [stack EXCEPT ![c][th][Depth(c, th)] = e]
         \/ f.op = "process" /\ f.rooted /\ Goto(c, th, "root", <<g>>)
         \/ f.op = "process" /\ ~f.rooted /\ stack' = [stack EXCEPT ![c][th][Depth(c, th)] = h]
  <2>1. f.op = "process" => h = [Frame(f.op, FALSE, view[c]) EXCEPT !.asked = f.asked]
    OBVIOUS
  <2> HIDE DEF h
  <2> QED
    BY <1>2, <1>3, <2>1 DEF Retry
<1>5. /\ g \in Frames /\ g.op = "act" /\ g.ph = "sent" /\ g.rooted = TRUE
      /\ e \in Frames /\ e.op = "act" /\ e.ph = "sent"
  <2>1. (c \notin direct) \in BOOLEAN
    OBVIOUS
  <2> DEFINE r == c \notin direct
  <2>2. r \in BOOLEAN
    BY <2>1
  <2> HIDE DEF r
  <2>3. Frame("act", r, view[c]) \in Frames /\ LET k == Frame("act", r, view[c]) IN
          k.op = "act" /\ k.ph = "sent"
    BY <2>2, FrameTyped
  <2> QED
    BY <2>3, FrameTyped DEF r
<1>6. h \in Frames /\ h.op = "process" /\ h.ph = "sent" /\ h.rooted = FALSE
  <2> DEFINE p == Frame("process", FALSE, view[c])
  <2>1. p \in Frames /\ p.op = "process" /\ p.ph = "sent" /\ p.rooted = FALSE
    BY FrameTyped
  <2>2. f.asked \in SUBSET Requests /\ h = [p EXCEPT !.asked = f.asked]
    BY <1>2 DEF Frames
  <2> HIDE DEF p, h
  <2> QED
    BY <2>1, <2>2 DEF Frames
<1> HIDE DEF s, f, t, e, g, h
<1>7. ASSUME stack' \in Stacks PROVE TypeOK'
  BY <1>4, <1>7 DEF TypeOK, Stacks, server
<1>8. CASE f.op = "act" /\ stack' = [stack EXCEPT ![c][th][Depth(c, th)] = e]
  <2>1. stack' \in Stacks /\ OnlyThread(c, th) /\ Puts(s, t, e)
    BY <1>1, <1>5, <1>8, AgainPuts DEF s, t
  <2>2. MayBe(th, e)
    BY <1>2, <1>5, <1>8 DEF MayBe, Fits, Waiting
  <2>3. ThreadFits(th, t)
    BY <1>2, <1>5, <1>8, <2>1, <2>2, PutsFits DEF Stacks, f, t
  <2>4. TypeOK' /\ Shape'
    BY <1>7, <2>1, <2>3, OnlyThreadAlike, ShapeKept DEF t
  <2> QED
    BY <1>2, <1>3, <1>4, <1>8, <2>1, <2>4 DEF s, f, t, e
<1>9. CASE f.op = "process" /\ f.rooted /\ Goto(c, th, "root", <<g>>)
  <2>1. stack' \in Stacks /\ OnlyThread(c, th) /\ Pushes(s, t, "root", g) /\ "root" \in Phases
    BY <1>1, <1>5, <1>9, GotoPushes DEF s, t, Phases
  <2>2. MayBe(th, g)
    BY <1>2, <1>5, <1>9 DEF MayBe, Fits, Waiting
  <2>3. Fits(In(f, "root")) /\ AboveFits(In(f, "root"), g)
    <3>1. /\ In(f, "root").op = f.op /\ In(f, "root").ph = "root" /\ ~In(f, "root").current
          /\ In(f, "root").rooted = f.rooted
      BY <1>2, <2>1, InTyped
    <3> QED
      BY <1>5, <1>9, <3>1 DEF Fits, AboveFits
  <2>4. ThreadFits(th, t)
    BY <1>2, <2>1, <2>2, <2>3, PushesFits DEF Stacks, Waiting, f, t
  <2>5. TypeOK' /\ Shape'
    BY <1>7, <2>1, <2>4, OnlyThreadAlike, ShapeKept DEF t
  <2> QED
    BY <1>2, <1>3, <1>4, <1>9, <2>1, <2>5 DEF s, f, t, g
<1>10. CASE f.op = "process" /\ ~f.rooted /\ stack' = [stack EXCEPT ![c][th][Depth(c, th)] = h]
  <2>1. stack' \in Stacks /\ OnlyThread(c, th) /\ Puts(s, t, h)
    BY <1>1, <1>6, <1>10, AgainPuts DEF s, t
  <2>2. MayBe(th, h)
    BY <1>2, <1>6, <1>10 DEF MayBe, Fits, Waiting
  <2>3. ThreadFits(th, t)
    BY <1>2, <1>6, <1>10, <2>1, <2>2, PutsFits DEF Stacks, f, t
  <2>4. TypeOK' /\ Shape'
    BY <1>7, <2>1, <2>3, OnlyThreadAlike, ShapeKept DEF t
  <2> QED
    BY <1>2, <1>3, <1>4, <1>10, <2>1, <2>4 DEF s, f, t, h
<1> QED
  BY <1>4, <1>8, <1>9, <1>10

LEMMA UserActionFacts ==
  ASSUME TypeOK, Shape, NEW c \in Clients, UserAction(c)
  PROVE  /\ TypeOK' /\ Shape' /\ OnlyThread(c, "user")
         /\ reported[c] = "none" /\ stack[c]["user"] = <<>>
         /\ stack'[c]["user"] = <<Frame("act", FALSE, view[c])>>
         /\ UNCHANGED <<server, view, processing, direct, jammed, notified, reported, commits, mishaps, faults>>
<1> DEFINE g == Frame("act", FALSE, view[c])
           t == <<g>>
<1>1. /\ reported[c] = "none" /\ stack[c]["user"] = <<>> /\ "user" \in Threads
      /\ stack' = [stack EXCEPT ![c]["user"] = t]
      /\ UNCHANGED <<server, view, processing, direct, jammed, notified, reported, commits, mishaps, faults>>
  BY DEF UserAction, Threads
<1>2. g \in Frames /\ g.op = "act" /\ g.ph = "sent" /\ g.rooted = FALSE
  BY FrameTyped
<1> HIDE DEF g
<1>3. t \in Seq(Frames) /\ Len(t) = 1 /\ t[1] = g
  BY <1>2
<1> HIDE DEF t
<1>4. stack' \in Stacks /\ stack'[c]["user"] = t /\ OnlyThread(c, "user")
  BY <1>1, <1>3, ThreadAssigned
<1>5. ThreadFits("user", t)
  BY <1>2, <1>3 DEF ThreadFits, Fits, Waiting, Bottom
<1>6. TypeOK'
  BY <1>1, <1>4 DEF TypeOK, Stacks, server
<1>7. Shape'
  BY <1>1, <1>4, <1>5, OnlyThreadAlike, ShapeKept
<1> QED
  BY <1>1, <1>4, <1>6, <1>7 DEF t, g

LEMMA SocketMessageFacts ==
  ASSUME TypeOK, Shape, NEW c \in Clients, SocketMessage(c)
  PROVE  LET t == stack'[c]["socket"] IN
         /\ TypeOK' /\ Shape' /\ OnlyThread(c, "socket")
         /\ c \in notified /\ stack[c]["socket"] = <<>> /\ notified' = notified \ {c}
         /\ Len(t) = 2 /\ t[1].op = "message" /\ t[1].ph = "refresh"
         /\ t[2].op = "session" /\ t[2].ph = "sent" /\ t[2].current = view[c].current
         /\ ~t[1].current /\ ~t[1].rooted /\ ~t[2].rooted
         /\ UNCHANGED <<server, view, processing, direct, jammed, reported, commits, mishaps, faults>>
<1> DEFINE e == Frame("message", FALSE, view[c])
           g == Frame("session", FALSE, view[c])
           base == <<e>>
           new == Moved(base, "refresh", <<g>>)
           t == stack'[c]["socket"]
<1>1. /\ c \in notified /\ stack[c]["socket"] = <<>> /\ notified' = notified \ {c}
      /\ "socket" \in Threads /\ stack' = [stack EXCEPT ![c]["socket"] = new]
      /\ UNCHANGED <<server, view, processing, direct, jammed, reported, commits, mishaps, faults>>
  BY DEF SocketMessage, Threads
<1>2. /\ e \in Frames /\ e.op = "message" /\ e.rooted = FALSE
      /\ g \in Frames /\ g.op = "session" /\ g.ph = "sent" /\ g.rooted = FALSE
      /\ g.current = view[c].current
  BY FrameTyped
<1> HIDE DEF e, g
<1>3. base \in Seq(Frames) /\ Len(base) = 1 /\ base[1] = e /\ "refresh" \in Phases
  BY <1>2 DEF Phases
<1> HIDE DEF base
<1>4. new \in Seq(Frames) /\ Pushes(base, new, "refresh", g)
  BY <1>2, <1>3, MovedPushes
<1> HIDE DEF new
<1>5. /\ Len(new) = 2 /\ new[2] = g /\ new[1].op = "message" /\ new[1].ph = "refresh"
      /\ new[1].rooted = FALSE /\ ~new[1].current
  <2>1. Len(new) = 2 /\ new[2] = g /\ new[1] = In(e, "refresh")
    BY <1>3, <1>4 DEF Pushes
  <2>2. /\ In(e, "refresh").op = e.op /\ In(e, "refresh").ph = "refresh"
        /\ In(e, "refresh").rooted = e.rooted /\ In(e, "refresh").current = FALSE
    BY <1>2, <1>3, InTyped
  <2> QED
    BY <1>2, <2>1, <2>2
<1>6. stack' \in Stacks /\ t = new /\ OnlyThread(c, "socket")
  BY <1>1, <1>4, ThreadAssigned
<1>7. ThreadFits("socket", new)
  <2>1. \A i \in 1 .. Len(new) : i = 1 \/ i = 2
    BY <1>5
  <2>2. AboveFits(new[1], new[2])
    BY <1>2, <1>5 DEF AboveFits
  <2>3. /\ \A i \in 1 .. Len(new) : Fits(new[i]) /\ (i < Len(new) <=> new[i].ph \in Waiting)
        /\ \A i \in 1 .. Len(new) : new[i].op # "act" /\ ~new[i].rooted
    BY <1>2, <1>5, <2>1 DEF Fits, Waiting
  <2>4. \A i \in 1 .. Len(new) - 1 : i = 1
    BY <1>5
  <2> QED
    BY <1>5, <2>2, <2>3, <2>4 DEF ThreadFits, Bottom
<1>8. TypeOK'
  BY <1>1, <1>6 DEF TypeOK, Stacks, server
<1>9. Shape'
  BY <1>1, <1>6, <1>7, OnlyThreadAlike, ShapeKept
<1> QED
  BY <1>1, <1>2, <1>5, <1>6, <1>8, <1>9

-----------------------------------------------------------------------------
(* Who processes: a client has at most one dispatch that processes its     *)
(* requests, and isProcessingRevocationRequests says whether it has one.   *)

Settled == {"revoking", "ok", "err"}
ActiveAt(s) == {i \in 1 .. Len(s) : s[i].op = "process" /\ s[i].ph \notin Settled}
SettledAt(s) == {i \in 1 .. Len(s) : s[i].ph \in Settled}

\* No dispatch that is above the one that processes has awaited a revocation.
OneActive(c) ==
  /\ processing[c] <=> c \in jammed \/ \E th \in Threads : ActiveAt(stack[c][th]) # {}
  /\ c \in jammed => faults # 0 /\ \A th \in Threads : ActiveAt(stack[c][th]) = {}
  /\ \A t, u \in Threads : \A i \in ActiveAt(stack[c][t]), j \in ActiveAt(stack[c][u]) : t = u /\ i = j
  /\ \A t \in Threads : \A i \in ActiveAt(stack[c][t]), j \in SettledAt(stack[c][t]) : j < i

LEMMA AlikeKinds ==
  ASSUME NEW s \in Seq(Frames), NEW t \in Seq(Frames), Alike(s, t)
  PROVE  ActiveAt(t) = ActiveAt(s) /\ SettledAt(t) = SettledAt(s)
<1>1. Len(t) = Len(s) /\ \A i \in 1 .. Len(s) : t[i].op = s[i].op /\ t[i].ph = s[i].ph
  BY DEF Alike, Like
<1> QED
  BY <1>1 DEF ActiveAt, SettledAt

LEMMA MovesKinds ==
  ASSUME NEW s \in Seq(Frames), NEW t \in Seq(Frames), NEW p \in {"check", "failed"},
         Moves(s, t, p), s[Len(s)].ph \in {"sent", "check"}
  PROVE  ActiveAt(t) = ActiveAt(s) /\ SettledAt(t) = SettledAt(s)
<1>1. p \in Phases /\ p \notin Settled /\ "sent" \notin Settled /\ "check" \notin Settled
  BY DEF Phases, Settled
<1>2. /\ Len(s) \in Nat /\ Len(s) > 0 /\ Len(t) = Len(s)
      /\ \A i \in 1 .. Len(s) - 1 : t[i] = s[i]
      /\ t[Len(s)].op = s[Len(s)].op /\ t[Len(s)].ph = p
  BY <1>1, MovesTop
<1>3. \A i \in 1 .. Len(s) : t[i].op = s[i].op /\ (t[i].ph \in Settled <=> s[i].ph \in Settled)
  BY <1>1, <1>2
<1> QED
  BY <1>2, <1>3 DEF ActiveAt, SettledAt

LEMMA PushesKinds ==
  ASSUME NEW s \in Seq(Frames), NEW t \in Seq(Frames), NEW p \in {"refresh", "root"}, NEW g,
         Pushes(s, t, p, g), s[Len(s)].ph \in {"sent", "again"}, g.op # "process", g.ph = "sent"
  PROVE  ActiveAt(t) = ActiveAt(s) /\ SettledAt(t) = SettledAt(s)
<1>1. p \in Phases /\ p \notin Settled /\ "sent" \notin Settled /\ "again" \notin Settled
  BY DEF Phases, Settled
<1>2. /\ Len(s) \in Nat /\ Len(s) > 0 /\ Len(t) = Len(s) + 1 /\ t[Len(s) + 1] = g
      /\ \A i \in 1 .. Len(s) - 1 : t[i] = s[i]
      /\ t[Len(s)].op = s[Len(s)].op /\ t[Len(s)].ph = p
  BY <1>1, PushesTop
<1>3. \A i \in 1 .. Len(s) : t[i].op = s[i].op /\ (t[i].ph \in Settled <=> s[i].ph \in Settled)
  BY <1>1, <1>2
<1>4. \A i \in 1 .. Len(t) : i \in 1 .. Len(s) \/ (t[i].op # "process" /\ t[i].ph \notin Settled)
  BY <1>1, <1>2
<1>5. \A i \in 1 .. Len(s) : i \in 1 .. Len(t)
  BY <1>2
<1> QED
  BY <1>3, <1>4, <1>5 DEF ActiveAt, SettledAt

LEMMA RevokingKinds ==
  ASSUME NEW s \in Seq(Frames), NEW t \in Seq(Frames), NEW g,
         Pushes(s, t, "revoking", g), s[Len(s)].ph = "check", g.op = "process", g.ph = "sent"
  PROVE  /\ ActiveAt(t) = (ActiveAt(s) \ {Len(s)}) \cup {Len(s) + 1}
         /\ SettledAt(t) = SettledAt(s) \cup {Len(s)}
<1>1. "revoking" \in Phases /\ "revoking" \in Settled /\ "sent" \notin Settled
  BY DEF Phases, Settled
<1>2. /\ Len(s) \in Nat /\ Len(s) > 0 /\ Len(t) = Len(s) + 1 /\ t[Len(s) + 1] = g
      /\ \A i \in 1 .. Len(s) - 1 : t[i] = s[i]
      /\ t[Len(s)].op = s[Len(s)].op /\ t[Len(s)].ph = "revoking"
  BY <1>1, PushesTop
<1>3. /\ 1 .. Len(t) = (1 .. Len(s)) \cup {Len(s) + 1}
      /\ 1 .. Len(s) = (1 .. Len(s) - 1) \cup {Len(s)}
  BY <1>2
<1> QED
  BY <1>1, <1>2, <1>3 DEF ActiveAt, SettledAt

LEMMA PutsKinds ==
  ASSUME NEW s \in Seq(Frames), NEW t \in Seq(Frames), NEW g,
         Puts(s, t, g), s[Len(s)].ph = "again", g.op = s[Len(s)].op, g.ph = "sent"
  PROVE  ActiveAt(t) = ActiveAt(s) /\ SettledAt(t) = SettledAt(s)
<1>1. "again" \notin Settled /\ "sent" \notin Settled
  BY DEF Settled
<1>2. /\ Len(s) \in Nat /\ Len(s) > 0 /\ Len(t) = Len(s) /\ t[Len(s)] = g
      /\ \A i \in 1 .. Len(s) - 1 : t[i] = s[i]
  BY PutsTop
<1>3. \A i \in 1 .. Len(s) : t[i].op = s[i].op /\ (t[i].ph \in Settled <=> s[i].ph \in Settled)
  BY <1>1, <1>2
<1> QED
  BY <1>2, <1>3 DEF ActiveAt, SettledAt

LEMMA PopsKinds ==
  ASSUME NEW th \in Threads, NEW s \in Seq(Frames), NEW t \in Seq(Frames), NEW ok \in BOOLEAN,
         Pops(s, t, ok), ThreadFits(th, s)
  PROVE  /\ ActiveAt(t) = ActiveAt(s) \ {Len(s)}
         /\ SettledAt(t) = SettledAt(s) \ {Len(s)}
<1>1. /\ Len(s) \in Nat /\ Len(s) > 0 /\ Len(t) = Len(s) - 1 /\ Len(t) \in Nat
      /\ \A i \in 1 .. Len(t) - 1 : t[i] = s[i]
      /\ Len(t) > 0 => /\ s[Len(t)] \in Frames /\ t[Len(t)].op = s[Len(t)].op
                       /\ t[Len(t)].ph = Resumed(s[Len(t)], ok)
  BY PopsTop
<1>2. ASSUME Len(t) > 0
      PROVE  t[Len(t)].ph \in Settled <=> s[Len(t)].ph \in Settled
  <2>1. s[Len(t)].ph \in Waiting
    BY <1>1, <1>2 DEF ThreadFits
  <2> QED
    BY <1>1, <1>2, <2>1 DEF Resumed, Waiting, Settled
<1>3. \A i \in 1 .. Len(t) : t[i].op = s[i].op /\ (t[i].ph \in Settled <=> s[i].ph \in Settled)
  BY <1>1, <1>2
<1>4. \A i \in 1 .. Len(s) : i # Len(s) <=> i \in 1 .. Len(t)
  BY <1>1
<1>5. \A i \in 1 .. Len(t) : i \in 1 .. Len(s)
  BY <1>1
<1> QED
  BY <1>3, <1>4, <1>5 DEF ActiveAt, SettledAt

\* A step that leaves alone what the threads of a client process.
LEMMA OneActiveKept ==
  ASSUME NEW c \in Clients, OneActive(c), processing'[c] = processing[c],
         c \in jammed' <=> c \in jammed, faults' = 0 => faults = 0,
         \A u \in Threads : /\ ActiveAt(stack'[c][u]) = ActiveAt(stack[c][u])
                            /\ SettledAt(stack'[c][u]) \subseteq SettledAt(stack[c][u])
  PROVE  OneActive(c)'
<1>1. /\ processing'[c] <=> c \in jammed' \/ \E th \in Threads : ActiveAt(stack'[c][th]) # {}
      /\ c \in jammed' => faults' # 0 /\ \A th \in Threads : ActiveAt(stack'[c][th]) = {}
  BY DEF OneActive
<1>2. \A t, u \in Threads :
        \A i \in ActiveAt(stack'[c][t]), j \in ActiveAt(stack'[c][u]) : t = u /\ i = j
  BY DEF OneActive
<1>3. \A t \in Threads : \A i \in ActiveAt(stack'[c][t]), j \in SettledAt(stack'[c][t]) : j < i
  BY DEF OneActive
<1> QED
  BY <1>1, <1>2, <1>3 DEF OneActive

LEMMA OthersActive ==
  ASSUME TypeOK, TypeOK', NEW c \in Clients, NEW th \in Threads, OthersAlike(c, th),
         NEW d \in Clients, NEW u \in Threads, d # c \/ u # th
  PROVE  /\ ActiveAt(stack'[d][u]) = ActiveAt(stack[d][u])
         /\ SettledAt(stack'[d][u]) = SettledAt(stack[d][u])
<1>1. stack[d][u] \in Seq(Frames) /\ stack'[d][u] \in Seq(Frames)
  BY DEF TypeOK
<1>2. Alike(stack[d][u], stack'[d][u])
  BY DEF OthersAlike
<1> QED
  BY <1>1, <1>2, AlikeKinds

LEMMA ActiveKept ==
  ASSUME TypeOK, TypeOK', NEW c \in Clients, NEW th \in Threads, OthersAlike(c, th),
         \A d \in Clients : OneActive(d), UNCHANGED processing,
         UNCHANGED jammed, faults' = 0 => faults = 0,
         ActiveAt(stack'[c][th]) = ActiveAt(stack[c][th]),
         SettledAt(stack'[c][th]) \subseteq SettledAt(stack[c][th])
  PROVE  \A d \in Clients : OneActive(d)'
<1> SUFFICES ASSUME NEW d \in Clients PROVE OneActive(d)'
  OBVIOUS
<1>1. \A u \in Threads : d # c \/ u # th =>
        /\ ActiveAt(stack'[d][u]) = ActiveAt(stack[d][u])
        /\ SettledAt(stack'[d][u]) = SettledAt(stack[d][u])
  BY OthersActive
<1>2. \A u \in Threads : /\ ActiveAt(stack'[d][u]) = ActiveAt(stack[d][u])
                         /\ SettledAt(stack'[d][u]) \subseteq SettledAt(stack[d][u])
  BY <1>1
<1> QED
  BY <1>2, OneActiveKept

\* The client whose thread's dispatch began or ended to process.
LEMMA ActiveElsewhere ==
  ASSUME TypeOK, TypeOK', NEW c \in Clients, NEW th \in Threads, OthersAlike(c, th),
         \A d \in Clients : OneActive(d),
         \A d \in Clients : d # c =>
           processing'[d] = processing[d] /\ (d \in jammed' <=> d \in jammed),
         faults' = 0 => faults = 0
  PROVE  /\ \A d \in Clients : d # c => OneActive(d)'
         /\ \A u \in Threads : u # th =>
              /\ ActiveAt(stack'[c][u]) = ActiveAt(stack[c][u])
              /\ SettledAt(stack'[c][u]) = SettledAt(stack[c][u])
<1>1. ASSUME NEW d \in Clients, d # c PROVE OneActive(d)'
  <2>1. \A u \in Threads : /\ ActiveAt(stack'[d][u]) = ActiveAt(stack[d][u])
                           /\ SettledAt(stack'[d][u]) = SettledAt(stack[d][u])
    BY <1>1, OthersActive
  <2> QED
    BY <1>1, <2>1, OneActiveKept
<1> QED
  BY <1>1, OthersActive

LEMMA CheckActive ==
  ASSUME TypeOK, Shape, \A d \in Clients : OneActive(d),
         NEW c \in Clients, NEW th \in Threads, Check(c, th)
  PROVE  \A d \in Clients : OneActive(d)'
<1> DEFINE s == stack[c][th]
           t == stack'[c][th]
           n == Len(s)
           f == s[n]
           g == Frame("process", f.rooted, view[c])
           busy == Busy(c, f)
           needed == Needed(c, f)
<1>1. /\ TypeOK' /\ Shape' /\ OnlyThread(c, th) /\ n > 0 /\ f.ph = "check"
      /\ IF needed
         THEN processing' = [processing EXCEPT ![c] = TRUE] /\ Pushes(s, t, "revoking", g)
         ELSE processing' = [processing EXCEPT ![c] = busy] /\ Pops(s, t, TRUE)
      /\ UNCHANGED <<jammed, faults>>
  BY CheckFacts DEF AfterReturn
<1>2. /\ s \in Seq(Frames) /\ t \in Seq(Frames) /\ n \in Nat /\ f \in Frames /\ ThreadFits(th, s)
      /\ f.rooted \in BOOLEAN /\ n \in 1 .. n
  BY <1>1, TopFacts DEF TypeOK, Depth
<1>3. OthersAlike(c, th)
  BY <1>1, OnlyThreadAlike
<1>4. \A d \in Clients : d # c => processing'[d] = processing[d]
  BY <1>1 DEF TypeOK
<1>5. /\ \A d \in Clients : d # c => OneActive(d)'
      /\ \A u \in Threads : u # th => /\ ActiveAt(stack'[c][u]) = ActiveAt(stack[c][u])
                                      /\ SettledAt(stack'[c][u]) = SettledAt(stack[c][u])
  BY <1>1, <1>3, <1>4, ActiveElsewhere
<1>6. /\ n \in ActiveAt(s) <=> f.op = "process"
      /\ \A i \in ActiveAt(s) \cup SettledAt(s) : i \in Nat /\ i <= n
      /\ n \notin SettledAt(s)
  BY <1>1, <1>2 DEF ActiveAt, SettledAt, Settled
<1>7. g.op = "process" /\ g.ph = "sent"
  BY <1>2, FrameTyped
<1>8. processing[c] \in BOOLEAN /\ processing'[c] \in BOOLEAN /\ OneActive(c)
      /\ (needed => ~busy)
  BY <1>1 DEF TypeOK, Needed
<1> HIDE DEF s, t, n, f, g, busy, needed
<1>9. ~busy => c \notin jammed /\ \A u \in Threads : \A i \in ActiveAt(stack[c][u]) : u = th /\ i = n
  BY <1>6, <1>8 DEF OneActive, busy, Busy, s
<1>10. OneActive(c)'
  <2>1. CASE needed
    <3>1. ActiveAt(t) = (ActiveAt(s) \ {n}) \cup {n + 1} /\ SettledAt(t) = SettledAt(s) \cup {n}
      BY <1>1, <1>2, <1>7, <2>1, RevokingKinds DEF n, f
    <3>2. ActiveAt(t) = {n + 1}
      BY <1>8, <1>9, <2>1, <3>1 DEF s
    <3>3. c \notin jammed' /\ \A u \in Threads : u # th => ActiveAt(stack'[c][u]) = {}
      BY <1>1, <1>5, <1>8, <1>9, <2>1
    <3>4. processing'[c] = TRUE
      BY <1>1, <2>1 DEF TypeOK
    <3>5. \A j \in SettledAt(t) : j < n + 1
      BY <1>2, <1>6, <3>1
    <3> QED
      BY <3>2, <3>3, <3>4, <3>5 DEF OneActive, t
  <2>2. CASE ~needed
    <3>1. ActiveAt(t) = ActiveAt(s) \ {n} /\ SettledAt(t) = SettledAt(s) \ {n}
      BY <1>1, <1>2, <2>2, PopsKinds DEF n
    <3>2. processing'[c] = busy
      BY <1>1, <2>2 DEF TypeOK
    <3>3. CASE busy
      <4>1. ActiveAt(t) = ActiveAt(s) /\ processing'[c] = processing[c]
        BY <1>6, <3>1, <3>2, <3>3 DEF busy, Busy
      <4>2. \A u \in Threads : /\ ActiveAt(stack'[c][u]) = ActiveAt(stack[c][u])
                               /\ SettledAt(stack'[c][u]) \subseteq SettledAt(stack[c][u])
        BY <1>5, <3>1, <4>1 DEF s, t
      <4> QED
        BY <1>1, <1>8, <4>1, <4>2, OneActiveKept
    <3>4. CASE ~busy
      <4>1. c \notin jammed' /\ \A u \in Threads : ActiveAt(stack'[c][u]) = {}
        BY <1>1, <1>5, <1>9, <3>1, <3>4 DEF s, t
      <4> QED
        BY <1>8, <3>2, <3>4, <4>1 DEF OneActive
    <3> QED
      BY <3>3, <3>4
  <2> QED
    BY <2>1, <2>2
<1> QED
  BY <1>5, <1>10

LEMMA FailureActive ==
  ASSUME TypeOK, Shape, \A d \in Clients : OneActive(d),
         NEW c \in Clients, NEW th \in Threads, Failure(c, th)
  PROVE  \A d \in Clients : OneActive(d)'
<1> DEFINE s == stack[c][th]
           t == stack'[c][th]
           n == Len(s)
           f == s[n]
<1>1. /\ TypeOK' /\ Shape' /\ OnlyThread(c, th) /\ n > 0 /\ f.ph = "failed" /\ Pops(s, t, FALSE)
      /\ IF f.op = "process" THEN processing' = [processing EXCEPT ![c] = FALSE]
                             ELSE UNCHANGED processing
      /\ UNCHANGED <<jammed, faults>>
  BY FailureFacts DEF AfterReturn
<1>2. /\ s \in Seq(Frames) /\ t \in Seq(Frames) /\ n \in Nat /\ ThreadFits(th, s) /\ n \in 1 .. n
  BY <1>1, TopFacts DEF TypeOK, Depth
<1>3. OthersAlike(c, th)
  BY <1>1, OnlyThreadAlike
<1>4. ActiveAt(t) = ActiveAt(s) \ {n} /\ SettledAt(t) = SettledAt(s) \ {n}
  BY <1>1, <1>2, PopsKinds
<1>5. n \in ActiveAt(s) <=> f.op = "process"
  BY <1>1, <1>2 DEF ActiveAt, Settled
<1> HIDE DEF s, t, n, f
<1>6. CASE f.op # "process"
  <2>1. ActiveAt(t) = ActiveAt(s) /\ UNCHANGED processing
    BY <1>1, <1>4, <1>5, <1>6
  <2> QED
    BY <1>1, <1>3, <1>4, <2>1, ActiveKept DEF s, t
<1>7. CASE f.op = "process"
  <2>1. processing' = [processing EXCEPT ![c] = FALSE]
    BY <1>1, <1>7
  <2>2. processing'[c] = FALSE /\ \A d \in Clients : d # c => processing'[d] = processing[d]
    BY <2>1 DEF TypeOK
  <2>3. /\ \A d \in Clients : d # c => OneActive(d)'
        /\ \A u \in Threads : u # th => ActiveAt(stack'[c][u]) = ActiveAt(stack[c][u])
    BY <1>1, <1>3, <2>2, ActiveElsewhere
  <2>4. c \notin jammed /\ \A u \in Threads : \A i \in ActiveAt(stack[c][u]) : u = th /\ i = n
    BY <1>5, <1>7 DEF OneActive, s
  <2>5. \A u \in Threads : ActiveAt(stack'[c][u]) = {}
    BY <1>4, <2>3, <2>4 DEF s, t
  <2> QED
    BY <1>1, <2>2, <2>3, <2>4, <2>5 DEF OneActive
<1> QED
  BY <1>6, <1>7

\* The flag that an error leaves set is that of no dispatch, and none is begun after it.
LEMMA ThrowActive ==
  ASSUME TypeOK, Shape, \A d \in Clients : OneActive(d),
         NEW c \in Clients, NEW th \in Threads, Throw(c, th)
  PROVE  \A d \in Clients : OneActive(d)'
<1> DEFINE s == stack[c][th]
           t == stack'[c][th]
           n == Len(s)
           f == s[n]
<1>1. /\ TypeOK' /\ Shape' /\ OnlyThread(c, th) /\ n > 0 /\ f.ph = "check" /\ Needed(c, f)
      /\ Moves(s, t, "failed") /\ processing' = [processing EXCEPT ![c] = TRUE]
      /\ jammed' = IF f.op = "process" THEN jammed ELSE jammed \cup {c}
      /\ faults' = faults + 1
  BY ThrowFacts
<1>2. /\ s \in Seq(Frames) /\ t \in Seq(Frames) /\ n \in 1 .. n /\ faults' # 0
      /\ processing'[c] = TRUE /\ \A d \in Clients : d # c => processing'[d] = processing[d]
  BY <1>1, TopFacts DEF TypeOK, Depth
<1>3. OthersAlike(c, th)
  BY <1>1, OnlyThreadAlike
<1>4. ActiveAt(t) = ActiveAt(s) /\ SettledAt(t) = SettledAt(s)
  BY <1>1, <1>2, MovesKinds
<1>5. f.op = "process" => n \in ActiveAt(s)
  BY <1>1, <1>2 DEF ActiveAt, Settled
<1>6. ~processing[c] \/ f.op = "process"
  BY <1>1 DEF Needed, Busy
<1> HIDE DEF s, t, n, f
<1>7. /\ \A d \in Clients : d # c => OneActive(d)'
      /\ \A u \in Threads : u # th => /\ ActiveAt(stack'[c][u]) = ActiveAt(stack[c][u])
                                      /\ SettledAt(stack'[c][u]) = SettledAt(stack[c][u])
  <2>1. \A d \in Clients : d # c => (d \in jammed' <=> d \in jammed)
    BY <1>1
  <2> QED
    BY <1>1, <1>2, <1>3, <2>1, ActiveElsewhere
<1>8. \A u \in Threads : /\ ActiveAt(stack'[c][u]) = ActiveAt(stack[c][u])
                         /\ SettledAt(stack'[c][u]) = SettledAt(stack[c][u])
  BY <1>4, <1>7 DEF s, t
<1>9. OneActive(c)'
  <2>1. CASE f.op = "process"
    <3>1. processing[c] /\ jammed' = jammed
      BY <1>1, <1>5, <2>1 DEF OneActive, s
    <3> QED
      BY <1>2, <1>8, <3>1, OneActiveKept
  <2>2. CASE f.op # "process"
    <3>1. /\ c \in jammed' /\ ~processing[c]
          /\ \A u \in Threads : ActiveAt(stack'[c][u]) = {}
      BY <1>1, <1>6, <1>8, <2>2 DEF OneActive
    <3> QED
      BY <1>2, <3>1 DEF OneActive
  <2> QED
    BY <2>1, <2>2
<1> QED
  BY <1>7, <1>9

\* Only an error that nothing handles leaves the flag set.
LEMMA Unjammed ==
  ASSUME TypeOK, NEW c \in Clients, NEW th \in Threads, Step(c, th), ~Throw(c, th)
  PROVE  UNCHANGED <<direct, jammed>> /\ (faults' = 0 => faults = 0)
<1>1. ASSUME NEW r, Committed(c, th, r) PROVE faults' = faults \/ faults' = faults + 1
  BY <1>1 DEF Committed
<1>2. faults' = faults \/ faults' = faults + 1
  BY <1>1 DEF Step, CommitAction, CommitRevocation, Outdated, Refuse, Break, Session, Check, Retry,
              Failure, Result
<1>3. UNCHANGED <<direct, jammed>>
  BY DEF Step, CommitAction, CommitRevocation, Outdated, Refuse, Break, Session, Check, Retry,
         Failure, Result
<1> QED
  BY <1>2, <1>3 DEF TypeOK

LEMMA StepActive ==
  ASSUME TypeOK, Shape, \A d \in Clients : OneActive(d),
         NEW c \in Clients, NEW th \in Threads, Step(c, th)
  PROVE  \A d \in Clients : OneActive(d)'
<1> DEFINE s == stack[c][th]
           t == stack'[c][th]
           f == s[Len(s)]
<1>0. CASE Throw(c, th)
  BY <1>0, ThrowActive
<1> SUFFICES ASSUME UNCHANGED jammed, faults' = 0 => faults = 0 PROVE \A d \in Clients : OneActive(d)'
  BY <1>0, Unjammed
<1>1. \A p \in {"check", "failed"} :
        TypeOK' /\ OthersAlike(c, th) /\ UNCHANGED processing /\ f.ph = "sent" /\ Moves(s, t, p)
          => \A d \in Clients : OneActive(d)'
  <2> SUFFICES ASSUME NEW p \in {"check", "failed"}, TypeOK', OthersAlike(c, th),
                      UNCHANGED processing, f.ph = "sent", Moves(s, t, p)
               PROVE  \A d \in Clients : OneActive(d)'
    OBVIOUS
  <2>1. s \in Seq(Frames) /\ t \in Seq(Frames)
    BY DEF TypeOK
  <2>2. ActiveAt(t) = ActiveAt(s) /\ SettledAt(t) = SettledAt(s)
    BY <2>1, MovesKinds
  <2> QED
    BY <2>2, ActiveKept
<1>2. CASE CommitAction(c, th)
  <2>1. /\ TypeOK' /\ AfterCommit(c, th, pending') /\ f.ph = "sent" /\ UNCHANGED processing
    BY <1>2, CommitActionFacts
  <2> QED
    BY <1>1, <2>1 DEF AfterCommit
<1>3. CASE CommitRevocation(c, th)
  <2>1. /\ TypeOK' /\ AfterCommit(c, th, pending') /\ f.ph = "sent" /\ UNCHANGED processing
    BY <1>3, CommitRevocationFacts
  <2> QED
    BY <1>1, <2>1 DEF AfterCommit
<1>4. CASE Outdated(c, th)
  <2> DEFINE g == Frame("session", (f.op = "act" /\ c \notin direct) \/ f.rooted, view[c])
  <2>1. /\ TypeOK' /\ OnlyThread(c, th) /\ f.ph = "sent" /\ UNCHANGED processing
        /\ Pushes(s, t, "refresh", g)
    BY <1>4, OutdatedFacts
  <2>2. s \in Seq(Frames) /\ t \in Seq(Frames)
    BY <2>1 DEF TypeOK
  <2>3. g.op = "session" /\ g.ph = "sent"
    BY DEF Frame
  <2> HIDE DEF g, s, t
  <2>4. ActiveAt(t) = ActiveAt(s) /\ SettledAt(t) = SettledAt(s)
    BY <2>1, <2>2, <2>3, PushesKinds
  <2> QED
    BY <2>1, <2>4, OnlyThreadAlike, ActiveKept DEF s, t
<1>5. CASE Refuse(c, th)
  <2>1. TypeOK' /\ AfterAnswer(c, th, "failed")
    BY <1>5, RefuseFacts
  <2> QED
    BY <1>1, <2>1, OnlyThreadAlike DEF AfterAnswer
<1>6. CASE Break(c, th)
  <2>1. TypeOK' /\ AfterAnswer(c, th, "failed")
    BY <1>6, BreakFacts
  <2> QED
    BY <1>1, <2>1, OnlyThreadAlike DEF AfterAnswer
<1>7. CASE Session(c, th)
  <2>1. TypeOK' /\ AfterAnswer(c, th, "check")
    BY <1>7, SessionFacts
  <2> QED
    BY <1>1, <2>1, OnlyThreadAlike DEF AfterAnswer
<1>8. CASE Check(c, th)
  BY <1>8, CheckActive
<1>9. CASE Retry(c, th)
  <2> DEFINE e == Frame("act", c \notin direct, view[c])
             g == Frame("act", TRUE, view[c])
             h == [Frame("process", FALSE, view[c]) EXCEPT !.asked = f.asked]
  <2>1. /\ TypeOK' /\ OnlyThread(c, th) /\ f.ph = "again" /\ UNCHANGED processing
        /\ \/ f.op = "act" /\ Puts(s, t, e)
           \/ Pushes(s, t, "root", g)
           \/ f.op = "process" /\ Puts(s, t, h)
    BY <1>9, RetryFacts
  <2>2. s \in Seq(Frames) /\ t \in Seq(Frames)
    BY <2>1 DEF TypeOK
  <2>3. /\ e.op = "act" /\ e.ph = "sent" /\ g.op = "act" /\ g.ph = "sent"
        /\ h.op = "process" /\ h.ph = "sent"
    BY DEF Frame
  <2> HIDE DEF e, g, h, s, t, f
  <2>4. ActiveAt(t) = ActiveAt(s) /\ SettledAt(t) = SettledAt(s)
    BY <2>1, <2>2, <2>3, PushesKinds, PutsKinds DEF f
  <2> QED
    BY <2>1, <2>4, OnlyThreadAlike, ActiveKept DEF s, t
<1>10. CASE Failure(c, th)
  BY <1>10, FailureActive
<1>11. CASE Result(c, th)
  <2>1. /\ TypeOK' /\ UNCHANGED processing /\ f.ph \in Settled /\ OnlyThread(c, th)
        /\ \E ok \in BOOLEAN : Pops(s, t, ok)
    BY <1>11, ResultFacts DEF AfterReturn, Settled
  <2>2. s \in Seq(Frames) /\ t \in Seq(Frames) /\ ThreadFits(th, s)
    BY <2>1 DEF TypeOK, Shape
  <2>3. ActiveAt(t) = ActiveAt(s) \ {Len(s)} /\ SettledAt(t) = SettledAt(s) \ {Len(s)}
    BY <2>1, <2>2, PopsKinds
  <2>4. Len(s) \notin ActiveAt(s)
    BY <2>1 DEF ActiveAt
  <2> HIDE DEF s, t
  <2>5. ActiveAt(t) = ActiveAt(s) /\ SettledAt(t) \subseteq SettledAt(s)
    BY <2>3, <2>4
  <2> QED
    BY <2>1, <2>5, OnlyThreadAlike, ActiveKept DEF s, t
<1> QED
  BY <1>0, <1>2, <1>3, <1>4, <1>5, <1>6, <1>7, <1>8, <1>9, <1>10, <1>11 DEF Step

\* A new thread processes nothing yet.
LEMMA StartActive ==
  ASSUME TypeOK, TypeOK', \A d \in Clients : OneActive(d),
         UNCHANGED <<processing, jammed, faults>>,
         NEW c \in Clients, NEW th \in Threads, OnlyThread(c, th), stack[c][th] = <<>>,
         \A i \in 1 .. Len(stack'[c][th]) :
           stack'[c][th][i].op # "process" /\ stack'[c][th][i].ph \in {"sent", "refresh"}
  PROVE  \A d \in Clients : OneActive(d)'
<1>1. /\ ActiveAt(stack'[c][th]) = {} /\ SettledAt(stack'[c][th]) = {}
  BY DEF ActiveAt, SettledAt, Settled
<1>2. ActiveAt(stack[c][th]) = {}
  <2>1. Len(<<>>) = 0 /\ \A i \in Nat : i \notin 1 .. 0
    BY EmptySeq
  <2> QED
    BY <2>1 DEF ActiveAt
<1> QED
  BY <1>1, <1>2, OnlyThreadAlike, ActiveKept

LEMMA NextActive ==
  ASSUME TypeOK, Shape, \A d \in Clients : OneActive(d), [Next]_vars
  PROVE  TypeOK' /\ Shape' /\ \A d \in Clients : OneActive(d)'
<1>1. ASSUME NEW c \in Clients, UserAction(c)
      PROVE  TypeOK' /\ Shape' /\ \A d \in Clients : OneActive(d)'
  <2> DEFINE g == Frame("act", FALSE, view[c])
             t == stack'[c]["user"]
  <2>1. /\ TypeOK' /\ Shape' /\ OnlyThread(c, "user") /\ stack[c]["user"] = <<>>
        /\ t = <<g>> /\ UNCHANGED <<processing, jammed, faults>>
    BY <1>1, UserActionFacts
  <2>2. g.op = "act" /\ g.ph = "sent" /\ "user" \in Threads
    BY DEF Frame, Threads
  <2>3. \A i \in 1 .. Len(t) : t[i].op # "process" /\ t[i].ph \in {"sent", "refresh"}
    <3> HIDE DEF g
    <3>1. Len(t) = 1 /\ t[1] = g
      BY <2>1
    <3> QED
      BY <2>2, <3>1
  <2> QED
    BY <2>1, <2>2, <2>3, StartActive
<1>2. ASSUME NEW c \in Clients, SocketMessage(c)
      PROVE  TypeOK' /\ Shape' /\ \A d \in Clients : OneActive(d)'
  <2> DEFINE t == stack'[c]["socket"]
  <2>1. /\ TypeOK' /\ Shape' /\ OnlyThread(c, "socket") /\ stack[c]["socket"] = <<>>
        /\ Len(t) = 2 /\ t[1].op = "message" /\ t[1].ph = "refresh"
        /\ t[2].op = "session" /\ t[2].ph = "sent" /\ UNCHANGED <<processing, jammed, faults>>
    BY <1>2, SocketMessageFacts
  <2>2. "socket" \in Threads
    BY DEF Threads
  <2>3. \A i \in 1 .. Len(t) : i = 1 \/ i = 2
    BY <2>1
  <2>4. \A i \in 1 .. Len(t) : t[i].op # "process" /\ t[i].ph \in {"sent", "refresh"}
    BY <2>1, <2>3
  <2> QED
    BY <2>1, <2>2, <2>4, StartActive
<1>3. ASSUME NEW c \in Clients, NEW th \in Threads, Step(c, th)
      PROVE  TypeOK' /\ Shape' /\ \A d \in Clients : OneActive(d)'
  <2>1. TypeOK' /\ Shape'
    BY <1>3, CommitActionFacts, CommitRevocationFacts, OutdatedFacts, RefuseFacts, BreakFacts,
       SessionFacts, CheckFacts, ThrowFacts, RetryFacts, FailureFacts, ResultFacts DEF Step
  <2> QED
    BY <1>3, <2>1, StepActive
<1>4. ASSUME UNCHANGED vars
      PROVE  TypeOK' /\ Shape' /\ \A d \in Clients : OneActive(d)'
  BY <1>4 DEF vars, server, TypeOK, Shape, OneActive
<1> QED
  BY <1>1, <1>2, <1>3, <1>4 DEF Next

LEMMA InitActive ==
  ASSUME Init
  PROVE  TypeOK /\ Shape /\ \A d \in Clients : OneActive(d)
<1>1. /\ Len(<<>>) = 0 /\ <<>> \in Seq(Frames) /\ \A i \in Nat : i \notin 1 .. 0
      /\ \A c \in Clients, th \in Threads : stack[c][th] = <<>>
  BY EmptySeq DEF Init
<1>2. TypeOK
  <2>1. born \subseteq Requests /\ pending = born
    BY DEF Init
  <2>2. view \in [Clients -> [current : BOOLEAN, requests : SUBSET born]]
    BY <2>1 DEF Init, Graph
  <2> QED
    BY <1>1, <2>1, <2>2, RetryAssumption DEF TypeOK, Init
<1>3. \A th \in Threads : ThreadFits(th, <<>>)
  BY <1>1 DEF ThreadFits
<1>4. ActiveAt(<<>>) = {} /\ SettledAt(<<>>) = {}
  BY <1>1 DEF ActiveAt, SettledAt
<1>5. jammed = {} /\ \A d \in Clients : ~processing[d]
  BY DEF Init
<1> QED
  BY <1>1, <1>2, <1>3, <1>4, <1>5 DEF Shape, OneActive

-----------------------------------------------------------------------------
(* What the user is told of the action, and how often it is committed.  As *)
(* long as no rooted revocation was outdated, the action is dispatched at  *)
(* the bottom of its thread only, and not again once it was committed.     *)

Undisplaced(s) ==
  \A i \in 1 .. Len(s) :
    /\ s[i].op = "process" /\ s[i].rooted => s[i].ph \notin {"refresh", "again", "root"}
    /\ s[i].op = "act" => i = 1
ToldOnce(s, k, r) ==
  k > 0 => /\ k = 1
           /\ Len(s) = 0 => r # "none"
           /\ Len(s) > 0 => s[1].ph \in {"check", "revoking", "failed", "ok", "err"}
ToldTruly(s, k, r) ==
  /\ \A i \in 1 .. Len(s) : s[i].ph # "err"
  /\ k > 0 => /\ Len(s) = 0 => r = "ok"
              /\ Len(s) > 0 => s[1].ph \in {"check", "revoking", "ok"}
Tells(s, m, k, r) ==
  /\ r # "none" => Len(s) = 0
  /\ "displaced" \notin m => Undisplaced(s) /\ ToldOnce(s, k, r)
  /\ m = {} => ToldTruly(s, k, r)
Told(c) == Tells(stack[c]["user"], mishaps[c], commits[c], reported[c])

LEMMA AlikeTells ==
  ASSUME NEW s \in Seq(Frames), NEW t \in Seq(Frames), Alike(s, t),
         NEW m, NEW k, NEW r, Tells(s, m, k, r)
  PROVE  Tells(t, m, k, r)
<1>1. /\ Len(s) \in Nat /\ Len(t) = Len(s)
      /\ \A i \in 1 .. Len(s) : t[i].op = s[i].op /\ t[i].ph = s[i].ph /\ t[i].rooted = s[i].rooted
  BY LenProperties DEF Alike, Like
<1>2. Undisplaced(s) => Undisplaced(t)
  BY <1>1 DEF Undisplaced
<1>3. ToldOnce(s, k, r) => ToldOnce(t, k, r)
  BY <1>1 DEF ToldOnce
<1>4. ToldTruly(s, k, r) => ToldTruly(t, k, r)
  BY <1>1 DEF ToldTruly
<1> QED
  BY <1>1, <1>2, <1>3, <1>4 DEF Tells

\* A request that is over, other than a commit of the action; or the handler of a
\* revocation throws.
LEMMA MovesTells ==
  ASSUME NEW s \in Seq(Frames), NEW t \in Seq(Frames), NEW p \in {"check", "failed"},
         Moves(s, t, p),
         NEW m, NEW m2, m \subseteq m2, NEW k \in Nat, NEW r, Tells(s, m, k, r),
         \/ s[Len(s)].ph = "sent"
         \/ s[Len(s)].ph = "check" /\ p = "failed" /\ m2 # {}
  PROVE  Tells(t, m2, k, r)
<1>1. /\ Len(s) \in Nat /\ Len(s) > 0 /\ Len(t) = Len(s)
      /\ \A i \in 1 .. Len(s) - 1 : t[i] = s[i]
      /\ t[Len(s)].op = s[Len(s)].op /\ t[Len(s)].ph = p /\ t[Len(s)].rooted = s[Len(s)].rooted
  <2>1. p \in Phases
    BY DEF Phases
  <2> QED
    BY <2>1, MovesTop
<1>2. Undisplaced(s) => Undisplaced(t)
  BY <1>1 DEF Undisplaced
<1>3. ToldOnce(s, k, r) => ToldOnce(t, k, r)
  BY <1>1 DEF ToldOnce
<1>4. m2 = {} /\ ToldTruly(s, k, r) => ToldTruly(t, k, r)
  BY <1>1 DEF ToldTruly
<1>5. ("displaced" \notin m2 => "displaced" \notin m) /\ (m2 = {} => m = {})
  OBVIOUS
<1> QED
  BY <1>1, <1>2, <1>3, <1>4, <1>5 DEF Tells

\* A dispatch above the top one.
LEMMA PushesTells ==
  ASSUME NEW s \in Seq(Frames), NEW t \in Seq(Frames), NEW p \in Phases, NEW g,
         Pushes(s, t, p, g), g.op # "act", g.ph = "sent",
         NEW m, NEW m2, m \subseteq m2, NEW k \in Nat, NEW r, Tells(s, m, k, r),
         LET f == s[Len(s)] IN
           \/ p = "revoking" /\ f.ph = "check"
           \/ p = "refresh" /\ f.ph = "sent" /\ (f.op = "process" /\ f.rooted => "displaced" \in m2)
  PROVE  Tells(t, m2, k, r)
<1> DEFINE n == Len(s)
           f == s[n]
<1>1. /\ n \in Nat /\ n > 0 /\ Len(t) = n + 1 /\ t[n + 1] = g
      /\ \A i \in 1 .. n - 1 : t[i] = s[i]
      /\ t[n].op = f.op /\ t[n].ph = p /\ t[n].rooted = f.rooted
  BY PushesTop
<1>2. \/ p = "revoking" /\ f.ph = "check"
      \/ p = "refresh" /\ f.ph = "sent" /\ (f.op = "process" /\ f.rooted => "displaced" \in m2)
  OBVIOUS
<1> HIDE DEF f, n
<1>3. \A i \in 1 .. Len(t) : i \in 1 .. n - 1 \/ i = n \/ i = n + 1
  BY <1>1
<1>4. \A i \in 1 .. n - 1 : i \in 1 .. n
  BY <1>1
<1>5. "displaced" \notin m2 /\ Undisplaced(s) => Undisplaced(t)
  <2> SUFFICES ASSUME "displaced" \notin m2, Undisplaced(s), NEW i \in 1 .. Len(t)
               PROVE  /\ t[i].op = "process" /\ t[i].rooted => t[i].ph \notin {"refresh", "again", "root"}
                      /\ t[i].op = "act" => i = 1
    BY DEF Undisplaced
  <2>1. CASE i \in 1 .. n - 1
    BY <1>1, <1>4, <2>1 DEF Undisplaced, n
  <2>2. CASE i = n
    <3>1. n \in 1 .. n
      BY <1>1
    <3>2. f.op = "act" => n = 1
      BY <3>1 DEF Undisplaced, f, n
    <3> QED
      BY <1>1, <1>2, <2>2, <3>2
  <2>3. CASE i = n + 1
    BY <1>1, <2>3
  <2> QED
    BY <1>3, <2>1, <2>2, <2>3
<1>6. ToldOnce(s, k, r) => ToldOnce(t, k, r)
  BY <1>1, <1>2 DEF ToldOnce, f, n
<1>7. ToldTruly(s, k, r) => ToldTruly(t, k, r)
  <2>1. (\A i \in 1 .. Len(s) : s[i].ph # "err") => \A i \in 1 .. Len(t) : t[i].ph # "err"
    BY <1>1, <1>2, <1>3, <1>4 DEF n
  <2> QED
    BY <1>1, <1>2, <2>1 DEF ToldTruly, f, n
<1>8. ("displaced" \notin m2 => "displaced" \notin m) /\ (m2 = {} => m = {})
  OBVIOUS
<1>9. r = "none" \/ Len(t) = 0
  BY <1>1 DEF Tells, n
<1> QED
  BY <1>5, <1>6, <1>7, <1>8, <1>9 DEF Tells

\* The thread returns; below the action is nothing but the user.
LEMMA PopsTells ==
  ASSUME NEW s \in Seq(Frames), NEW t \in Seq(Frames), NEW ok \in BOOLEAN,
         Pops(s, t, ok), ThreadFits("user", s),
         NEW m, NEW m2, m \subseteq m2, NEW k \in Nat, NEW r, NEW r2, Tells(s, m, k, r),
         r2 = IF Len(s) = 1 THEN IF ok THEN "ok" ELSE "failed" ELSE r,
         LET f == s[Len(s)] IN
           \/ ok /\ f.ph \in {"check", "ok"}
           \/ ~ok /\ f.ph = "err"
           \/ ~ok /\ f.ph = "failed" /\ (f.op = "process" => m2 # {})
  PROVE  Tells(t, m2, k, r2)
<1> DEFINE n == Len(s)
           f == s[n]
           b == s[n - 1]
<1>1. /\ n \in Nat /\ n > 0 /\ Len(t) = n - 1
      /\ \A i \in 1 .. n - 2 : t[i] = s[i]
      /\ n > 1 => b \in Frames /\ t[n - 1].op = b.op /\ t[n - 1].rooted = b.rooted
                  /\ t[n - 1].ph = Resumed(b, ok)
  <2>1. /\ n \in Nat /\ n > 0 /\ Len(t) = n - 1
        /\ \A i \in 1 .. Len(t) - 1 : t[i] = s[i]
        /\ Len(t) > 0 => /\ s[Len(t)] \in Frames /\ t[Len(t)].op = s[Len(t)].op
                         /\ t[Len(t)].rooted = s[Len(t)].rooted
                         /\ t[Len(t)].ph = Resumed(s[Len(t)], ok)
    BY PopsTop
  <2> QED
    BY <2>1
<1>2. \/ ok /\ f.ph \in {"check", "ok"}
      \/ ~ok /\ f.ph = "err"
      \/ ~ok /\ f.ph = "failed" /\ (f.op = "process" => m2 # {})
  OBVIOUS
<1>3. n > 1 => b.ph \in Waiting /\ AboveFits(b, f) /\ s[1].op = "act"
  BY <1>1 DEF ThreadFits, Bottom
<1>4. r2 = IF n = 1 THEN IF ok THEN "ok" ELSE "failed" ELSE r
  OBVIOUS
<1>5. (n > 0 => r = "none") /\ ("displaced" \notin m2 => "displaced" \notin m) /\ (m2 = {} => m = {})
  BY DEF Tells
<1>6. f.ph = "err" => m # {}
  BY <1>1 DEF Tells, ToldTruly
<1>7. \A i \in 1 .. Len(t) : i \in 1 .. n /\ (i \in 1 .. n - 2 \/ (i = n - 1 /\ n > 1))
  BY <1>1
<1>8. Undisplaced(s) => Undisplaced(t)
  <2> SUFFICES ASSUME Undisplaced(s), NEW i \in 1 .. Len(t)
               PROVE  /\ t[i].op = "process" /\ t[i].rooted => t[i].ph \notin {"refresh", "again", "root"}
                      /\ t[i].op = "act" => i = 1
    BY DEF Undisplaced
  <2>1. CASE i \in 1 .. n - 2
    BY <1>1, <1>7, <2>1 DEF Undisplaced
  <2>2. CASE i = n - 1 /\ n > 1
    <3>1. b.op = "process" /\ b.rooted => b.ph = "revoking"
      BY <1>3, <1>7, <2>2 DEF Undisplaced, Waiting
    <3>2. b.op = "act" => i = 1
      BY <1>7, <2>2 DEF Undisplaced
    <3> QED
      BY <1>1, <2>2, <3>1, <3>2 DEF Resumed
  <2> QED
    BY <1>7, <2>1, <2>2
<1> HIDE DEF f, b, n
<1>9. CASE n = 1
  <2>1. Len(t) = 0
    BY <1>1, <1>9
  <2>2. ToldOnce(s, k, r) => ToldOnce(t, k, r2)
    BY <1>1, <1>4, <1>9, <2>1 DEF ToldOnce, n
  <2>3. m2 = {} /\ ToldTruly(s, k, r) => ToldTruly(t, k, r2)
    <3>1. \A i \in 1 .. Len(t) : t[i].ph # "err"
      BY <2>1
    <3>2. m2 = {} /\ k > 0 /\ ToldTruly(s, k, r) => f.ph \in {"check", "revoking", "ok"}
      BY <1>1, <1>9 DEF ToldTruly, f, n
    <3>3. m2 = {} /\ k > 0 /\ ToldTruly(s, k, r) => r2 = "ok"
      BY <1>2, <1>4, <1>9, <3>2
    <3> QED
      BY <2>1, <3>1, <3>3 DEF ToldTruly
  <2> QED
    BY <1>5, <1>8, <2>1, <2>2, <2>3 DEF Tells
<1>10. CASE n > 1
  <2>1. r2 = "none" /\ r = "none" /\ Len(t) > 0 /\ Len(s) > 0
    BY <1>1, <1>4, <1>5, <1>10 DEF n
  <2>2. \/ n > 2 /\ t[1] = s[1]
        \/ n = 2 /\ b = s[1] /\ t[1].ph = Resumed(b, ok)
    BY <1>1, <1>10 DEF b
  <2>3. ToldOnce(s, k, r) => ToldOnce(t, k, r2)
    <3>1. CASE n > 2 /\ t[1] = s[1]
      BY <2>1, <3>1 DEF ToldOnce
    <3>2. CASE n = 2 /\ b = s[1] /\ t[1].ph = Resumed(b, ok)
      <4>1. k > 0 /\ ToldOnce(s, k, r) => b.ph = "revoking"
        BY <1>3, <1>10, <2>1, <3>2 DEF ToldOnce, Waiting
      <4>2. b.ph = "revoking" => t[1].ph \in {"ok", "err"}
        BY <3>2 DEF Resumed
      <4> QED
        BY <2>1, <4>1, <4>2 DEF ToldOnce
    <3> QED
      BY <2>2, <3>1, <3>2
  <2>4. m2 = {} /\ ToldTruly(s, k, r) => ToldTruly(t, k, r2)
    <3> SUFFICES ASSUME m2 = {}, ToldTruly(s, k, r) PROVE ToldTruly(t, k, r2)
      OBVIOUS
    <3>1. b.ph = "revoking" => ok
      <4>1. b.ph = "revoking" => f.op = "process"
        BY <1>3, <1>10 DEF AboveFits
      <4> QED
        BY <1>2, <1>5, <1>6, <4>1
    <3>2. t[n - 1].ph # "err"
      BY <1>1, <1>3, <1>10, <3>1 DEF Resumed, Waiting
    <3>3. \A i \in 1 .. Len(t) : t[i].ph # "err"
      BY <1>1, <1>7, <3>2 DEF ToldTruly, n
    <3>4. k > 0 => t[1].ph \in {"check", "revoking", "ok"}
      <4>1. CASE n > 2 /\ t[1] = s[1]
        BY <2>1, <4>1 DEF ToldTruly
      <4>2. CASE n = 2 /\ b = s[1] /\ t[1].ph = Resumed(b, ok)
        <5>1. k > 0 => b.ph = "revoking"
          BY <1>3, <1>10, <2>1, <4>2 DEF ToldTruly, Waiting
        <5> QED
          BY <3>1, <4>2, <5>1 DEF Resumed
      <4> QED
        BY <2>2, <4>1, <4>2
    <3> QED
      BY <2>1, <3>3, <3>4 DEF ToldTruly
  <2> QED
    BY <1>5, <1>8, <2>1, <2>3, <2>4 DEF Tells
<1>11. n = 1 \/ n > 1
  BY <1>1
<1> QED
  BY <1>9, <1>10, <1>11

\* What a user is told changes with the steps of the user's thread only.
ToldApart(c, th) ==
  \A d \in Clients : d # c \/ th # "user" =>
    mishaps'[d] = mishaps[d] /\ commits'[d] = commits[d] /\ reported'[d] = reported[d]

LEMMA ToldStep ==
  ASSUME TypeOK, TypeOK', NEW c \in Clients, NEW th \in Threads, OthersAlike(c, th),
         ToldApart(c, th), \A d \in Clients : Told(d),
         th = "user" => Tells(stack'[c]["user"], mishaps'[c], commits'[c], reported'[c])
  PROVE  \A d \in Clients : Told(d)'
<1>1. ASSUME NEW d \in Clients, d # c \/ th # "user" PROVE Told(d)'
  <2>1. "user" \in Threads
    BY DEF Threads
  <2>2. /\ stack[d]["user"] \in Seq(Frames) /\ stack'[d]["user"] \in Seq(Frames)
        /\ Alike(stack[d]["user"], stack'[d]["user"])
    BY <1>1, <2>1 DEF TypeOK, OthersAlike
  <2>3. Tells(stack'[d]["user"], mishaps[d], commits[d], reported[d])
    BY <2>2, AlikeTells DEF Told
  <2> QED
    BY <1>1, <2>3 DEF Told, ToldApart
<1> QED
  BY <1>1 DEF Told

LEMMA MishapGrows ==
  ASSUME TypeOK, NEW c \in Clients, NEW th \in Threads,
         NEW what \in {"lost", "displaced", "revocation"}, Mishap(c, th, what)
  PROVE  /\ \A d \in Clients : d # c \/ th # "user" => mishaps'[d] = mishaps[d]
         /\ mishaps[c] \subseteq mishaps'[c]
         /\ th = "user" => mishaps'[c] = mishaps[c] \cup {what}
BY MishapFacts

LEMMA CommitActionTold ==
  ASSUME TypeOK, Shape, \A d \in Clients : Told(d),
         NEW c \in Clients, NEW th \in Threads, CommitAction(c, th)
  PROVE  \A d \in Clients : Told(d)'
<1> DEFINE s == stack[c][th]
           t == stack'[c][th]
           n == Len(s)
           f == s[n]
<1>1. /\ TypeOK' /\ AfterCommit(c, th, pending') /\ n > 0 /\ f.op = "act" /\ f.ph = "sent"
      /\ commits' = [commits EXCEPT ![c] = @ + 1] /\ UNCHANGED reported
  BY CommitActionFacts
<1>2. /\ s \in Seq(Frames) /\ t \in Seq(Frames) /\ n \in Nat
      /\ commits[c] \in Nat /\ commits'[c] = commits[c] + 1 /\ th = "user"
  BY <1>1, TopFacts DEF TypeOK, Depth, Threads
<1>3. PICK p \in {"check", "failed"} :
        /\ Moves(s, t, p) /\ mishaps[c] \subseteq mishaps'[c] /\ (p = "failed" => mishaps'[c] # {})
        /\ \A d \in Clients : d # c => mishaps'[d] = mishaps[d]
  <2>1. CASE Moves(s, t, "check") /\ UNCHANGED mishaps
    BY <2>1
  <2>2. CASE Moves(s, t, "failed") /\ Mishap(c, th, "lost")
    BY <1>2, <2>2, MishapGrows
  <2> QED
    BY <1>1, <2>1, <2>2 DEF AfterCommit
<1>4. OthersAlike(c, th) /\ ToldApart(c, th)
  BY <1>1, <1>2, <1>3 DEF AfterCommit, ToldApart, TypeOK
<1>5. /\ n > 0 /\ Len(t) = n
      /\ \A i \in 1 .. n - 1 : t[i] = s[i]
      /\ t[n].op = "act" /\ t[n].ph = p
  <2>1. p \in Phases
    BY DEF Phases
  <2> HIDE DEF s, t
  <2>2. Len(t) = n /\ t[n].op = f.op /\ t[n].ph = p /\ \A i \in 1 .. n - 1 : t[i] = s[i]
    BY <1>2, <1>3, <2>1, MovesTop
  <2> QED
    BY <1>1, <2>2
<1>6. "displaced" \notin mishaps'[c] =>
        n = 1 /\ Undisplaced(t) /\ ToldOnce(t, commits'[c], reported'[c])
  <2> SUFFICES ASSUME "displaced" \notin mishaps'[c]
               PROVE  n = 1 /\ Undisplaced(t) /\ ToldOnce(t, commits'[c], reported'[c])
    OBVIOUS
  <2>1. Undisplaced(s) /\ ToldOnce(s, commits[c], reported[c])
    BY <1>2, <1>3 DEF Told, Tells
  <2>2. n = 1
    <3>1. n \in 1 .. n
      BY <1>2, <1>1
    <3> QED
      BY <1>1, <2>1, <3>1 DEF Undisplaced
  <2>3. commits[c] = 0
    BY <1>1, <1>2, <2>1, <2>2 DEF ToldOnce
  <2> QED
    BY <1>2, <1>5, <2>2, <2>3 DEF ToldOnce, Undisplaced
<1>7. mishaps'[c] = {} => ToldTruly(t, commits'[c], reported'[c])
  BY <1>3, <1>5, <1>6 DEF ToldTruly
<1>8. reported'[c] = "none"
  BY <1>1, <1>2 DEF Told, Tells
<1>9. Tells(t, mishaps'[c], commits'[c], reported'[c])
  BY <1>6, <1>7, <1>8 DEF Tells
<1> QED
  BY <1>1, <1>2, <1>4, <1>9, ToldStep

LEMMA RetryTold ==
  ASSUME TypeOK, Shape, \A d \in Clients : Told(d),
         NEW c \in Clients, NEW th \in Threads, Retry(c, th)
  PROVE  \A d \in Clients : Told(d)'
<1> DEFINE s == stack[c][th]
           t == stack'[c][th]
           n == Len(s)
           f == s[n]
           e == Frame("act", c \notin direct, view[c])
           g == Frame("act", TRUE, view[c])
           h == [Frame("process", FALSE, view[c]) EXCEPT !.asked = f.asked]
           m == mishaps[c]
           k == commits[c]
           r == reported[c]
<1>1. /\ TypeOK' /\ Shape' /\ OnlyThread(c, th) /\ n > 0 /\ f.ph = "again"
      /\ \/ f.op = "act" /\ Puts(s, t, e)
         \/ f.op = "process" /\ f.rooted /\ Pushes(s, t, "root", g)
         \/ f.op = "process" /\ ~f.rooted /\ Puts(s, t, h)
      /\ UNCHANGED <<mishaps, commits, reported>>
  BY RetryFacts
<1>2. OthersAlike(c, th) /\ ToldApart(c, th)
  BY <1>1, OnlyThreadAlike DEF ToldApart
<1>3. ASSUME th = "user" PROVE Tells(t, m, k, r)
  <2>1. /\ s \in Seq(Frames) /\ t \in Seq(Frames) /\ n \in Nat /\ k \in Nat
        /\ n \in 1 .. n /\ ThreadFits("user", s)
    BY <1>1, <1>3, TopFacts DEF TypeOK, Depth
  <2>2. Tells(s, m, k, r) /\ r = "none"
    BY <1>1, <1>3 DEF Told, Tells
  <2>3. /\ e.op = "act" /\ e.ph = "sent"
        /\ g.op = "act" /\ g.ph = "sent" /\ h.op = "process" /\ h.ph = "sent" /\ h.rooted = FALSE
    BY DEF Frame
  <2>4. "displaced" \notin m => Undisplaced(s) /\ ToldOnce(s, k, r)
    BY <2>2 DEF Tells
  <2>5. m = {} => ToldTruly(s, k, r)
    BY <2>2 DEF Tells
  <2> HIDE DEF e, g, h, m, k, r
  <2>6. CASE f.op = "process" /\ f.rooted /\ Pushes(s, t, "root", g)
    <3>1. "displaced" \in m
      BY <1>1, <2>1, <2>4, <2>6 DEF Undisplaced
    <3> QED
      BY <2>2, <3>1 DEF Tells
  <2>7. CASE f.op = "act" /\ Puts(s, t, e)
    <3>1. Len(t) = n /\ t[n] = e /\ \A i \in 1 .. n - 1 : t[i] = s[i]
      BY <2>1, <2>7, PutsTop
    <3>2. ASSUME "displaced" \notin m PROVE n = 1 /\ k = 0
      <4>1. n = 1
        BY <2>1, <2>4, <2>7, <3>2 DEF Undisplaced
      <4> QED
        BY <1>1, <2>1, <2>4, <3>2, <4>1 DEF ToldOnce
    <3>3. "displaced" \notin m => Undisplaced(t) /\ ToldOnce(t, k, r) /\ ToldTruly(t, k, r)
      BY <2>3, <3>1, <3>2 DEF Undisplaced, ToldOnce, ToldTruly
    <3> QED
      BY <2>2, <3>3 DEF Tells
  <2>8. CASE f.op = "process" /\ ~f.rooted /\ Puts(s, t, h)
    <3>1. Len(t) = n /\ t[n] = h /\ \A i \in 1 .. n - 1 : t[i] = s[i]
      BY <2>1, <2>8, PutsTop
    <3>2. n > 1 /\ t[1] = s[1]
      <4>1. s[1].op = "act"
        BY <1>1, <2>1 DEF ThreadFits, Bottom
      <4> QED
        BY <2>1, <2>8, <3>1, <4>1
    <3>3. Undisplaced(s) => Undisplaced(t)
      BY <2>1, <2>3, <3>1 DEF Undisplaced
    <3>4. ToldOnce(s, k, r) => ToldOnce(t, k, r)
      BY <3>1, <3>2 DEF ToldOnce
    <3>5. ToldTruly(s, k, r) => ToldTruly(t, k, r)
      BY <2>1, <2>3, <3>1, <3>2 DEF ToldTruly
    <3> QED
      BY <2>2, <2>4, <2>5, <3>3, <3>4, <3>5 DEF Tells
  <2> QED
    BY <1>1, <2>6, <2>7, <2>8
<1> QED
  BY <1>1, <1>2, <1>3, ToldStep

\* The step of a dispatch that MovesTells is about.
LEMMA AnswerTold ==
  ASSUME TypeOK, TypeOK', \A d \in Clients : Told(d),
         NEW c \in Clients, NEW th \in Threads, NEW p \in {"check", "failed"},
         OthersAlike(c, th), Moves(stack[c][th], stack'[c][th], p),
         UNCHANGED <<commits, reported>>,
         \/ stack[c][th][Len(stack[c][th])].ph = "sent"
         \/ /\ stack[c][th][Len(stack[c][th])].ph = "check" /\ p = "failed"
            /\ th = "user" => mishaps'[c] # {},
         mishaps[c] \subseteq mishaps'[c],
         \A d \in Clients : d # c \/ th # "user" => mishaps'[d] = mishaps[d]
  PROVE  \A d \in Clients : Told(d)'
<1>1. ASSUME th = "user" PROVE Tells(stack'[c]["user"], mishaps'[c], commits[c], reported[c])
  <2> DEFINE s == stack[c][th]
             t == stack'[c][th]
  <2>1. s \in Seq(Frames) /\ t \in Seq(Frames) /\ commits[c] \in Nat
    BY DEF TypeOK
  <2>2. Tells(s, mishaps[c], commits[c], reported[c])
    BY <1>1 DEF Told
  <2>3. Moves(s, t, p) /\ (s[Len(s)].ph = "sent" \/ (s[Len(s)].ph = "check" /\ p = "failed" /\ mishaps'[c] # {}))
    BY <1>1
  <2> HIDE DEF s, t
  <2>4. Tells(t, mishaps'[c], commits[c], reported[c])
    BY <2>1, <2>2, <2>3, MovesTells
  <2> QED
    BY <1>1, <2>4 DEF t
<1>2. ToldApart(c, th)
  BY DEF ToldApart
<1> QED
  BY <1>1, <1>2, ToldStep

LEMMA CommitRevocationTold ==
  ASSUME TypeOK, Shape, \A d \in Clients : Told(d),
         NEW c \in Clients, NEW th \in Threads, CommitRevocation(c, th)
  PROVE  \A d \in Clients : Told(d)'
<1>1. /\ TypeOK' /\ AfterCommit(c, th, pending') /\ UNCHANGED <<commits, reported>>
      /\ stack[c][th][Len(stack[c][th])].ph = "sent"
  BY CommitRevocationFacts
<1>2. PICK p \in {"check", "failed"} :
        /\ Moves(stack[c][th], stack'[c][th], p) /\ mishaps[c] \subseteq mishaps'[c]
        /\ \A d \in Clients : d # c \/ th # "user" => mishaps'[d] = mishaps[d]
  <2>1. CASE Moves(stack[c][th], stack'[c][th], "check") /\ UNCHANGED mishaps
    BY <2>1
  <2>2. CASE Moves(stack[c][th], stack'[c][th], "failed") /\ Mishap(c, th, "lost")
    BY <2>2, MishapGrows
  <2> QED
    BY <1>1, <2>1, <2>2 DEF AfterCommit
<1> QED
  BY <1>1, <1>2, AnswerTold DEF AfterCommit

LEMMA ThrowTold ==
  ASSUME TypeOK, Shape, \A d \in Clients : Told(d),
         NEW c \in Clients, NEW th \in Threads, Throw(c, th)
  PROVE  \A d \in Clients : Told(d)'
<1>1. /\ TypeOK' /\ OnlyThread(c, th) /\ stack[c][th][Len(stack[c][th])].ph = "check"
      /\ Moves(stack[c][th], stack'[c][th], "failed") /\ Mishap(c, th, "revocation")
      /\ UNCHANGED <<commits, reported>>
  BY ThrowFacts
<1>2. /\ \A d \in Clients : d # c \/ th # "user" => mishaps'[d] = mishaps[d]
      /\ mishaps[c] \subseteq mishaps'[c] /\ (th = "user" => mishaps'[c] # {})
  BY <1>1, MishapGrows
<1>3. PICK p \in {"check", "failed"} : p = "failed"
  OBVIOUS
<1> QED
  BY <1>1, <1>2, <1>3, OnlyThreadAlike, AnswerTold

LEMMA OutdatedTold ==
  ASSUME TypeOK, Shape, \A d \in Clients : Told(d),
         NEW c \in Clients, NEW th \in Threads, Outdated(c, th)
  PROVE  \A d \in Clients : Told(d)'
<1> DEFINE s == stack[c][th]
           t == stack'[c][th]
           f == s[Len(s)]
           g == Frame("session", (f.op = "act" /\ c \notin direct) \/ f.rooted, view[c])
<1>1. /\ TypeOK' /\ OnlyThread(c, th) /\ f.ph = "sent" /\ Pushes(s, t, "refresh", g)
      /\ IF f.op = "process" /\ f.rooted THEN Mishap(c, th, "displaced") ELSE UNCHANGED mishaps
      /\ UNCHANGED <<reported, commits>>
  BY OutdatedFacts
<1>2. /\ \A d \in Clients : d # c \/ th # "user" => mishaps'[d] = mishaps[d]
      /\ mishaps[c] \subseteq mishaps'[c]
      /\ th = "user" /\ f.op = "process" /\ f.rooted => "displaced" \in mishaps'[c]
  BY <1>1, MishapGrows
<1>3. OthersAlike(c, th) /\ ToldApart(c, th)
  BY <1>1, <1>2, OnlyThreadAlike DEF ToldApart
<1>4. ASSUME th = "user" PROVE Tells(t, mishaps'[c], commits[c], reported[c])
  <2>1. s \in Seq(Frames) /\ t \in Seq(Frames) /\ commits[c] \in Nat /\ "refresh" \in Phases
    BY <1>1 DEF TypeOK, Phases
  <2>2. g.op = "session" /\ g.ph = "sent"
    BY DEF Frame
  <2>3. Tells(s, mishaps[c], commits[c], reported[c])
    BY <1>4 DEF Told
  <2>4. f.op = "process" /\ f.rooted => "displaced" \in mishaps'[c]
    BY <1>2, <1>4
  <2> HIDE DEF g, s, t
  <2> QED
    BY <1>1, <1>2, <2>1, <2>2, <2>3, <2>4, PushesTells
<1> QED
  BY <1>1, <1>3, <1>4, ToldStep

LEMMA CheckTold ==
  ASSUME TypeOK, Shape, \A d \in Clients : Told(d),
         NEW c \in Clients, NEW th \in Threads, Check(c, th)
  PROVE  \A d \in Clients : Told(d)'
<1> DEFINE s == stack[c][th]
           t == stack'[c][th]
           f == s[Len(s)]
           g == Frame("process", f.rooted, view[c])
<1>1. /\ TypeOK' /\ OnlyThread(c, th) /\ Len(s) > 0 /\ f.ph = "check"
      /\ \/ Pushes(s, t, "revoking", g) /\ UNCHANGED reported
         \/ AfterReturn(c, th, TRUE)
      /\ UNCHANGED <<commits, mishaps>>
  BY CheckFacts
<1>2. /\ s \in Seq(Frames) /\ t \in Seq(Frames) /\ commits[c] \in Nat /\ "revoking" \in Phases
      /\ ThreadFits(th, s)
  BY <1>1, TopFacts DEF TypeOK, Phases, Depth
<1>3. OthersAlike(c, th) /\ ToldApart(c, th)
  BY <1>1, OnlyThreadAlike DEF ToldApart, AfterReturn
<1>4. ASSUME th = "user" PROVE Tells(t, mishaps'[c], commits'[c], reported'[c])
  <2>1. Tells(s, mishaps[c], commits[c], reported[c])
    BY <1>4 DEF Told
  <2>2. CASE Pushes(s, t, "revoking", g) /\ UNCHANGED reported
    <3>1. g.op = "process" /\ g.ph = "sent"
      BY DEF Frame
    <3> HIDE DEF g, s, t
    <3> QED
      BY <1>1, <1>2, <2>1, <2>2, <3>1, PushesTells
  <2>3. CASE AfterReturn(c, th, TRUE)
    <3>1. PICK ok \in BOOLEAN :
            /\ ok /\ Pops(s, t, ok)
            /\ reported'[c] = IF Len(s) = 1 THEN IF ok THEN "ok" ELSE "failed" ELSE reported[c]
      BY <1>4, <2>3 DEF AfterReturn
    <3>2. /\ mishaps[c] \subseteq mishaps'[c] /\ commits'[c] = commits[c]
          /\ ok /\ f.ph \in {"check", "ok"} /\ ThreadFits("user", s)
      BY <1>1, <1>2, <1>4, <3>1
    <3> HIDE DEF s, t, g
    <3>3. \/ ok /\ f.ph \in {"check", "ok"}
          \/ ~ok /\ f.ph = "err"
          \/ ~ok /\ f.ph = "failed" /\ (f.op = "process" => mishaps'[c] # {})
      BY <3>2
    <3>4. /\ ThreadFits("user", s) /\ mishaps[c] \subseteq mishaps'[c] /\ commits'[c] = commits[c]
          /\ Pops(s, t, ok)
          /\ reported'[c] = IF Len(s) = 1 THEN IF ok THEN "ok" ELSE "failed" ELSE reported[c]
      BY <3>1, <3>2
    <3> QED
      BY <1>2, <2>1, <3>3, <3>4, PopsTells
  <2> QED
    BY <1>1, <2>2, <2>3
<1> QED
  BY <1>1, <1>3, <1>4, ToldStep

LEMMA FailureTold ==
  ASSUME TypeOK, Shape, \A d \in Clients : Told(d),
         NEW c \in Clients, NEW th \in Threads, Failure(c, th)
  PROVE  \A d \in Clients : Told(d)'
<1> DEFINE s == stack[c][th]
           t == stack'[c][th]
           f == s[Len(s)]
<1>1. /\ TypeOK' /\ AfterReturn(c, th, FALSE) /\ Len(s) > 0 /\ f.ph = "failed"
      /\ IF f.op = "process" THEN Mishap(c, th, "revocation") ELSE UNCHANGED mishaps
      /\ UNCHANGED commits
  BY FailureFacts
<1>2. /\ s \in Seq(Frames) /\ t \in Seq(Frames) /\ commits[c] \in Nat /\ ThreadFits(th, s)
  BY <1>1, TopFacts DEF TypeOK, Depth
<1>3. /\ \A d \in Clients : d # c \/ th # "user" => mishaps'[d] = mishaps[d]
      /\ mishaps[c] \subseteq mishaps'[c]
      /\ th = "user" /\ f.op = "process" => mishaps'[c] # {}
  BY <1>1, MishapGrows
<1>4. OthersAlike(c, th) /\ ToldApart(c, th)
  BY <1>1, <1>3, OnlyThreadAlike DEF ToldApart, AfterReturn
<1>5. ASSUME th = "user" PROVE Tells(t, mishaps'[c], commits'[c], reported'[c])
  <2>1. Tells(s, mishaps[c], commits[c], reported[c])
    BY <1>5 DEF Told
  <2>2. PICK ok \in BOOLEAN :
          /\ ~ok /\ Pops(s, t, ok)
          /\ reported'[c] = IF Len(s) = 1 THEN IF ok THEN "ok" ELSE "failed" ELSE reported[c]
    BY <1>1, <1>5 DEF AfterReturn
  <2>3. f.op = "process" => mishaps'[c] # {}
    BY <1>3, <1>5
  <2> HIDE DEF s, t
  <2> QED
    BY <1>1, <1>2, <1>3, <1>5, <2>1, <2>2, <2>3, PopsTells
<1> QED
  BY <1>1, <1>4, <1>5, ToldStep

LEMMA ResultTold ==
  ASSUME TypeOK, Shape, \A d \in Clients : Told(d),
         NEW c \in Clients, NEW th \in Threads, Result(c, th)
  PROVE  \A d \in Clients : Told(d)'
<1> DEFINE s == stack[c][th]
           t == stack'[c][th]
           f == s[Len(s)]
<1>1. /\ TypeOK' /\ Len(s) > 0
      /\ \/ f.ph = "ok" /\ AfterReturn(c, th, TRUE)
         \/ f.ph = "err" /\ AfterReturn(c, th, FALSE)
      /\ UNCHANGED <<commits, mishaps>>
  BY ResultFacts
<1>2. /\ s \in Seq(Frames) /\ t \in Seq(Frames) /\ commits[c] \in Nat /\ ThreadFits(th, s)
  BY <1>1, TopFacts DEF TypeOK, Depth
<1>3. OthersAlike(c, th) /\ ToldApart(c, th)
  BY <1>1, OnlyThreadAlike DEF ToldApart, AfterReturn
<1>4. ASSUME th = "user" PROVE Tells(t, mishaps'[c], commits'[c], reported'[c])
  <2>1. Tells(s, mishaps[c], commits[c], reported[c])
    BY <1>4 DEF Told
  <2>2. PICK ok \in BOOLEAN :
          /\ (ok /\ f.ph = "ok") \/ (~ok /\ f.ph = "err")
          /\ Pops(s, t, ok)
          /\ reported'[c] = IF Len(s) = 1 THEN IF ok THEN "ok" ELSE "failed" ELSE reported[c]
    BY <1>1, <1>4 DEF AfterReturn
  <2> HIDE DEF s, t
  <2> QED
    BY <1>1, <1>2, <1>4, <2>1, <2>2, PopsTells
<1> QED
  BY <1>1, <1>3, <1>4, ToldStep

LEMMA NextTold ==
  ASSUME TypeOK, Shape, \A d \in Clients : Told(d), [Next]_vars
  PROVE  \A d \in Clients : Told(d)'
<1>1. ASSUME NEW c \in Clients, UserAction(c) PROVE \A d \in Clients : Told(d)'
  <2> DEFINE g == Frame("act", FALSE, view[c])
             t == stack'[c]["user"]
  <2>1. /\ TypeOK' /\ OnlyThread(c, "user") /\ stack[c]["user"] = <<>> /\ reported[c] = "none"
        /\ t = <<g>> /\ UNCHANGED <<mishaps, commits, reported>>
    BY <1>1, UserActionFacts
  <2>2. g.op = "act" /\ g.ph = "sent" /\ "user" \in Threads
    BY DEF Frame, Threads
  <2> HIDE DEF g
  <2>3. Len(t) = 1 /\ t[1] = g /\ Len(<<>>) = 0
    BY <2>1, EmptySeq
  <2>4. commits[c] \in Nat /\ ("displaced" \notin mishaps[c] => commits[c] = 0)
    BY <2>1, <2>3 DEF TypeOK, Told, Tells, ToldOnce
  <2>5. /\ Undisplaced(t) /\ \A i \in 1 .. Len(t) : t[i].ph # "err"
        /\ "displaced" \notin mishaps[c] => ToldOnce(t, commits[c], reported[c])
    BY <2>2, <2>3, <2>4 DEF Undisplaced, ToldOnce
  <2>6. mishaps[c] = {} => ToldTruly(t, commits[c], reported[c])
    BY <2>4, <2>5 DEF ToldTruly
  <2>7. Tells(t, mishaps[c], commits[c], reported[c])
    BY <2>1, <2>5, <2>6 DEF Tells
  <2> QED
    BY <2>1, <2>2, <2>7, OnlyThreadAlike, ToldStep DEF ToldApart
<1>2. ASSUME NEW c \in Clients, SocketMessage(c) PROVE \A d \in Clients : Told(d)'
  <2>1. /\ TypeOK' /\ OnlyThread(c, "socket") /\ UNCHANGED <<mishaps, commits, reported>>
    BY <1>2, SocketMessageFacts
  <2>2. "socket" \in Threads /\ "socket" # "user"
    BY DEF Threads
  <2> QED
    BY <2>1, <2>2, OnlyThreadAlike, ToldStep DEF ToldApart
<1>3. ASSUME NEW c \in Clients, NEW th \in Threads, Step(c, th) PROVE \A d \in Clients : Told(d)'
  <2>1. ASSUME NEW p \in {"check", "failed"}, TypeOK', AfterAnswer(c, th, p)
        PROVE  \A d \in Clients : Told(d)'
    BY <2>1, OnlyThreadAlike, AnswerTold DEF AfterAnswer
  <2>2. CASE Refuse(c, th)
    BY <2>1, <2>2, RefuseFacts
  <2>3. CASE Break(c, th)
    BY <2>1, <2>3, BreakFacts
  <2>4. CASE Session(c, th)
    BY <2>1, <2>4, SessionFacts
  <2> QED
    BY <1>3, <2>2, <2>3, <2>4, CommitActionTold, CommitRevocationTold, OutdatedTold, CheckTold,
       ThrowTold, RetryTold, FailureTold, ResultTold DEF Step
<1>4. ASSUME UNCHANGED vars PROVE \A d \in Clients : Told(d)'
  BY <1>4 DEF vars, Told
<1> QED
  BY <1>1, <1>2, <1>3, <1>4 DEF Next

LEMMA InitTold ==
  ASSUME Init
  PROVE  \A d \in Clients : Told(d)
<1>1. Len(<<>>) = 0 /\ \A i \in Nat : i \notin 1 .. 0
  BY EmptySeq
<1>2. \A c \in Clients : stack[c]["user"] = <<>> /\ commits[c] = 0 /\ reported[c] = "none"
  BY DEF Init, Threads
<1>3. Undisplaced(<<>>) /\ ToldOnce(<<>>, 0, "none") /\ ToldTruly(<<>>, 0, "none")
  BY <1>1 DEF Undisplaced, ToldOnce, ToldTruly
<1> QED
  BY <1>1, <1>2, <1>3 DEF Told, Tells

-----------------------------------------------------------------------------
(* The graphs of the clients: a current one has the server's requests, and *)
(* as long as nothing fails an old one is about to be refreshed.           *)

SessionSent(s) == Len(s) > 0 /\ s[Len(s)].op = "session" /\ s[Len(s)].ph = "sent"

\* cur: the graph of client c is current.  flt: faults so far.
StackViews(s, cur, c, flt) ==
  \A i \in 1 .. Len(s) :
    /\ s[i].current => cur
    /\ s[i].op = "process" => c \in Revokers
    /\ flt = 0 /\ s[i].op = "session" => s[i].ph # "failed"

ViewFits(c) ==
  /\ view[c].current => view[c].requests = IF c \in Revokers THEN pending ELSE {}
  /\ c \notin Revokers => view[c].requests = {}
Noticed(c) == faults = 0 /\ ~view[c].current => c \in notified \/ SessionSent(stack[c]["socket"])
Views(c) ==
  /\ ViewFits(c) /\ Noticed(c)
  /\ \A u \in Threads : StackViews(stack[c][u], view[c].current, c, faults)

LEMMA MovesViews ==
  ASSUME NEW th \in Threads, NEW s \in Seq(Frames), NEW t \in Seq(Frames),
         NEW p \in {"check", "failed"}, Moves(s, t, p), ThreadFits(th, s),
         NEW cur \in BOOLEAN, NEW cur2 \in BOOLEAN, NEW c, NEW flt, NEW flt2,
         StackViews(s, cur, c, flt), flt2 = 0 => flt = 0,
         flt2 = 0 /\ s[Len(s)].op = "session" => p # "failed"
  PROVE  StackViews(t, cur2, c, flt2)
<1>1. p \in Phases
  BY DEF Phases
<1>2. /\ Len(s) \in Nat /\ Len(s) > 0 /\ Len(t) = Len(s)
      /\ \A i \in 1 .. Len(s) - 1 : t[i] = s[i]
      /\ t[Len(s)].op = s[Len(s)].op /\ t[Len(s)].ph = p /\ ~t[Len(s)].current
  BY <1>1, MovesTop
<1>3. \A i \in 1 .. Len(s) - 1 : ~s[i].current
  <2>1. \A i \in 1 .. Len(s) - 1 : s[i].ph \in Waiting /\ Fits(s[i])
    BY <1>2 DEF ThreadFits
  <2> QED
    BY <2>1 DEF Fits, Waiting
<1> QED
  BY <1>2, <1>3 DEF StackViews

LEMMA PushesViews ==
  ASSUME NEW th \in Threads, NEW s \in Seq(Frames), NEW t \in Seq(Frames),
         NEW p \in Waiting, NEW g, Pushes(s, t, p, g), ThreadFits(th, s),
         NEW cur \in BOOLEAN, NEW c, NEW flt,
         StackViews(s, cur, c, flt), g.current = cur, g.op = "process" => c \in Revokers, g.ph = "sent"
  PROVE  StackViews(t, cur, c, flt)
<1>1. p \in Phases /\ p # "failed"
  BY DEF Phases, Waiting
<1>2. /\ Len(s) \in Nat /\ Len(s) > 0 /\ Len(t) = Len(s) + 1 /\ t[Len(s) + 1] = g
      /\ \A i \in 1 .. Len(s) - 1 : t[i] = s[i]
      /\ t[Len(s)].op = s[Len(s)].op /\ t[Len(s)].ph = p /\ ~t[Len(s)].current
  BY <1>1, PushesTop
<1>3. \A i \in 1 .. Len(t) : i \in 1 .. Len(s) - 1 \/ i = Len(s) \/ i = Len(s) + 1
  BY <1>2
<1>4. \A i \in 1 .. Len(s) - 1 : i \in 1 .. Len(s)
  BY <1>2
<1> QED
  BY <1>1, <1>2, <1>3, <1>4 DEF StackViews

LEMMA PopsViews ==
  ASSUME NEW th \in Threads, NEW s \in Seq(Frames), NEW t \in Seq(Frames), NEW ok \in BOOLEAN,
         Pops(s, t, ok), ThreadFits(th, s),
         NEW cur \in BOOLEAN, NEW c, NEW flt, StackViews(s, cur, c, flt)
  PROVE  StackViews(t, cur, c, flt)
<1>1. /\ Len(s) \in Nat /\ Len(s) > 0 /\ Len(t) = Len(s) - 1 /\ Len(t) \in Nat
      /\ \A i \in 1 .. Len(t) - 1 : t[i] = s[i]
      /\ Len(t) > 0 => /\ s[Len(t)] \in Frames /\ t[Len(t)].op = s[Len(t)].op
                       /\ t[Len(t)].ph = Resumed(s[Len(t)], ok)
                       /\ t[Len(t)].current = s[Len(t)].current
  BY PopsTop
<1>2. ASSUME Len(t) > 0, s[Len(t)].op = "session"
      PROVE  t[Len(t)].ph # "failed"
  <2>1. s[Len(t)].ph \in Waiting /\ Fits(s[Len(t)])
    BY <1>1, <1>2 DEF ThreadFits
  <2>2. s[Len(t)].ph = "revoking"
    BY <1>2, <2>1 DEF Fits, Waiting
  <2> QED
    BY <1>1, <1>2, <2>2 DEF Resumed
<1>3. \A i \in 1 .. Len(t) : i \in 1 .. Len(s) /\ (i \in 1 .. Len(t) - 1 \/ (i = Len(t) /\ Len(t) > 0))
  BY <1>1
<1> QED
  BY <1>1, <1>2, <1>3 DEF StackViews

LEMMA PutsViews ==
  ASSUME NEW s \in Seq(Frames), NEW t \in Seq(Frames), NEW g, Puts(s, t, g),
         NEW cur \in BOOLEAN, NEW c, NEW flt, StackViews(s, cur, c, flt),
         g.current = cur, g.op = "process" => c \in Revokers, g.ph = "sent"
  PROVE  StackViews(t, cur, c, flt)
<1>1. /\ Len(s) \in Nat /\ Len(s) > 0 /\ Len(t) = Len(s) /\ t[Len(s)] = g
      /\ \A i \in 1 .. Len(s) - 1 : t[i] = s[i]
  BY PutsTop
<1> QED
  BY <1>1 DEF StackViews

\* A step of a thread that leaves alone the server, the graph and the notifications.
LEMMA PlainViews ==
  ASSUME TypeOK, \A d \in Clients : Views(d),
         NEW c \in Clients, NEW th \in Threads, OnlyThread(c, th), ~SessionSent(stack[c][th]),
         UNCHANGED <<pending, view, notified, faults>>,
         StackViews(stack'[c][th], view[c].current, c, faults)
  PROVE  \A d \in Clients : Views(d)'
<1> SUFFICES ASSUME NEW d \in Clients PROVE Views(d)'
  OBVIOUS
<1>1. Views(d)
  OBVIOUS
<1>2. ViewFits(d)'
  BY <1>1 DEF Views, ViewFits
<1>3. ASSUME NEW u \in Threads
      PROVE  StackViews(stack'[d][u], view'[d].current, d, faults')
  <2>1. CASE d = c /\ u = th
    BY <2>1
  <2>2. CASE d # c \/ u # th
    BY <1>1, <2>2 DEF Views, OnlyThread
  <2> QED
    BY <2>1, <2>2
<1>4. Noticed(d)'
  <2>1. "socket" \in Threads
    BY DEF Threads
  <2>2. CASE d = c /\ th = "socket"
    BY <1>1, <2>2 DEF Views, Noticed
  <2>3. CASE d # c \/ th # "socket"
    <3>1. stack'[d]["socket"] = stack[d]["socket"]
      BY <2>1, <2>3 DEF OnlyThread
    <3> QED
      BY <1>1, <3>1 DEF Views, Noticed
  <2> QED
    BY <2>2, <2>3
<1> QED
  BY <1>2, <1>3, <1>4 DEF Views

LEMMA GraphFields ==
  ASSUME NEW c, NEW r
  PROVE  /\ Graph(c, r).current = TRUE
         /\ Graph(c, r).requests = IF c \in Revokers THEN r ELSE {}
BY DEF Graph

LEMMA ViewBooleans ==
  ASSUME TypeOK, NEW c \in Clients
  PROVE  view[c].current \in BOOLEAN /\ view[c].requests \subseteq Requests
BY DEF TypeOK

LEMMA OutdatedViews ==
  ASSUME TypeOK, Shape, \A d \in Clients : Views(d),
         NEW c \in Clients, NEW th \in Threads, Outdated(c, th)
  PROVE  \A d \in Clients : Views(d)'
<1> DEFINE s == stack[c][th]
           t == stack'[c][th]
           f == s[Len(s)]
           g == Frame("session", (f.op = "act" /\ c \notin direct) \/ f.rooted, view[c])
<1>1. /\ TypeOK' /\ OnlyThread(c, th) /\ f.op \in {"act", "process"}
      /\ Pushes(s, t, "refresh", g) /\ UNCHANGED <<pending, view, notified, faults>>
  BY OutdatedFacts DEF server
<1>2. s \in Seq(Frames) /\ t \in Seq(Frames) /\ ThreadFits(th, s) /\ "refresh" \in Waiting
  BY <1>1 DEF TypeOK, Shape, Waiting
<1>3. g.op = "session" /\ g.ph = "sent" /\ g.current = view[c].current
  BY DEF Frame
<1>4. StackViews(s, view[c].current, c, faults) /\ ~SessionSent(s)
  BY <1>1 DEF Views, SessionSent
<1> HIDE DEF g, s, t
<1>5. StackViews(t, view[c].current, c, faults)
  BY <1>1, <1>2, <1>3, <1>4, ViewBooleans, PushesViews
<1> QED
  BY <1>1, <1>4, <1>5, PlainViews DEF s, t

LEMMA RefuseViews ==
  ASSUME TypeOK, Shape, \A d \in Clients : Views(d),
         NEW c \in Clients, NEW th \in Threads, Refuse(c, th)
  PROVE  \A d \in Clients : Views(d)'
<1> DEFINE s == stack[c][th]
           t == stack'[c][th]
           f == s[Len(s)]
<1>1. /\ TypeOK' /\ OnlyThread(c, th) /\ f.op \in {"act", "process"}
      /\ Moves(s, t, "failed") /\ UNCHANGED <<pending, view, notified, faults>>
  BY RefuseFacts DEF server, AfterAnswer
<1>2. s \in Seq(Frames) /\ t \in Seq(Frames) /\ ThreadFits(th, s)
  BY <1>1 DEF TypeOK, Shape
<1>3. StackViews(s, view[c].current, c, faults) /\ ~SessionSent(s) /\ f.op # "session"
  BY <1>1 DEF Views, SessionSent
<1> HIDE DEF s, t
<1>4. StackViews(t, view[c].current, c, faults)
  BY <1>1, <1>2, <1>3, ViewBooleans, MovesViews
<1> QED
  BY <1>1, <1>3, <1>4, PlainViews DEF s, t

LEMMA CheckViews ==
  ASSUME TypeOK, Shape, \A d \in Clients : Views(d),
         NEW c \in Clients, NEW th \in Threads, Check(c, th)
  PROVE  \A d \in Clients : Views(d)'
<1> DEFINE s == stack[c][th]
           t == stack'[c][th]
           f == s[Len(s)]
           g == Frame("process", f.rooted, view[c])
<1>1. /\ TypeOK' /\ OnlyThread(c, th) /\ f.ph = "check"
      /\ \/ view[c].requests # {} /\ Pushes(s, t, "revoking", g)
         \/ Pops(s, t, TRUE)
      /\ UNCHANGED <<pending, view, notified, faults>>
  BY CheckFacts DEF server, AfterReturn, Needed
<1>2. s \in Seq(Frames) /\ t \in Seq(Frames) /\ ThreadFits(th, s) /\ "revoking" \in Waiting
  BY <1>1 DEF TypeOK, Shape, Waiting
<1>3. g.op = "process" /\ g.ph = "sent" /\ g.current = view[c].current
  BY DEF Frame
<1>4. /\ StackViews(s, view[c].current, c, faults) /\ ~SessionSent(s)
      /\ view[c].requests # {} => c \in Revokers
  BY <1>1 DEF Views, ViewFits, SessionSent
<1> HIDE DEF g, s, t
<1>5. StackViews(t, view[c].current, c, faults)
  <2>1. CASE view[c].requests # {} /\ Pushes(s, t, "revoking", g)
    BY <1>2, <1>3, <1>4, <2>1, ViewBooleans, PushesViews
  <2>2. CASE Pops(s, t, TRUE)
    BY <1>2, <1>4, <2>2, ViewBooleans, PopsViews
  <2> QED
    BY <1>1, <2>1, <2>2
<1> QED
  BY <1>1, <1>4, <1>5, PlainViews DEF s, t

LEMMA RetryViews ==
  ASSUME TypeOK, Shape, \A d \in Clients : Views(d),
         NEW c \in Clients, NEW th \in Threads, Retry(c, th)
  PROVE  \A d \in Clients : Views(d)'
<1> DEFINE s == stack[c][th]
           t == stack'[c][th]
           f == s[Len(s)]
           e == Frame("act", c \notin direct, view[c])
           g == Frame("act", TRUE, view[c])
           h == [Frame("process", FALSE, view[c]) EXCEPT !.asked = f.asked]
<1>1. /\ TypeOK' /\ OnlyThread(c, th) /\ f.ph = "again" /\ Len(s) > 0
      /\ \/ Puts(s, t, e)
         \/ Pushes(s, t, "root", g)
         \/ f.op = "process" /\ Puts(s, t, h)
      /\ UNCHANGED <<pending, view, notified, faults>>
  BY RetryFacts DEF server
<1>2. s \in Seq(Frames) /\ t \in Seq(Frames) /\ ThreadFits(th, s) /\ "root" \in Waiting
  BY <1>1 DEF TypeOK, Shape, Waiting
<1>3. /\ e.op = "act" /\ e.ph = "sent" /\ e.current = view[c].current
      /\ g.op = "act" /\ g.ph = "sent" /\ g.current = view[c].current
      /\ h.op = "process" /\ h.ph = "sent" /\ h.current = view[c].current
  BY DEF Frame
<1>4. StackViews(s, view[c].current, c, faults) /\ ~SessionSent(s)
  BY <1>1 DEF Views, SessionSent
<1>5. f.op = "process" => c \in Revokers
  <2>1. Len(s) \in 1 .. Len(s)
    BY <1>1, <1>2, LenProperties
  <2> QED
    BY <1>4, <2>1 DEF StackViews
<1> HIDE DEF e, g, h, s, t, f
<1>6. StackViews(t, view[c].current, c, faults)
  BY <1>1, <1>2, <1>3, <1>4, <1>5, ViewBooleans, PushesViews, PutsViews
<1> QED
  BY <1>1, <1>4, <1>6, PlainViews DEF s, t

\* Failure and Result.
LEMMA ReturnViews ==
  ASSUME TypeOK, Shape, \A d \in Clients : Views(d),
         NEW c \in Clients, NEW th \in Threads, Failure(c, th) \/ Result(c, th)
  PROVE  \A d \in Clients : Views(d)'
<1> DEFINE s == stack[c][th]
           t == stack'[c][th]
           f == s[Len(s)]
<1>1. /\ TypeOK' /\ OnlyThread(c, th) /\ f.ph \in {"failed", "ok", "err"}
      /\ \E ok \in BOOLEAN : Pops(s, t, ok)
      /\ UNCHANGED <<pending, view, notified, faults>>
  BY FailureFacts, ResultFacts DEF server, AfterReturn
<1>2. s \in Seq(Frames) /\ t \in Seq(Frames) /\ ThreadFits(th, s)
  BY <1>1 DEF TypeOK, Shape
<1>3. StackViews(s, view[c].current, c, faults) /\ ~SessionSent(s)
  BY <1>1 DEF Views, SessionSent
<1> HIDE DEF s, t
<1>4. StackViews(t, view[c].current, c, faults)
  BY <1>1, <1>2, <1>3, ViewBooleans, PopsViews
<1> QED
  BY <1>1, <1>3, <1>4, PlainViews DEF s, t

LEMMA BreakViews ==
  ASSUME TypeOK, Shape, \A d \in Clients : Views(d),
         NEW c \in Clients, NEW th \in Threads, Break(c, th) \/ Throw(c, th)
  PROVE  \A d \in Clients : Views(d)'
<1> DEFINE s == stack[c][th]
           t == stack'[c][th]
<1>1. /\ TypeOK' /\ OnlyThread(c, th) /\ Moves(s, t, "failed")
      /\ faults' = faults + 1 /\ UNCHANGED <<pending, view, notified>>
  BY BreakFacts, ThrowFacts DEF server, AfterAnswer
<1>2. s \in Seq(Frames) /\ t \in Seq(Frames) /\ ThreadFits(th, s) /\ faults' # 0
  BY <1>1 DEF TypeOK, Shape
<1>3. StackViews(t, view[c].current, c, faults')
  <2>1. StackViews(s, view[c].current, c, faults)
    BY DEF Views
  <2> HIDE DEF s, t
  <2> QED
    BY <1>1, <1>2, <2>1, ViewBooleans, MovesViews
<1> SUFFICES ASSUME NEW d \in Clients PROVE Views(d)'
  OBVIOUS
<1>4. ViewFits(d)' /\ Noticed(d)'
  BY <1>1, <1>2 DEF Views, ViewFits, Noticed
<1>5. ASSUME NEW u \in Threads PROVE StackViews(stack'[d][u], view'[d].current, d, faults')
  <2>1. CASE d = c /\ u = th
    BY <1>1, <1>3, <2>1
  <2>2. CASE d # c \/ u # th
    <3>1. stack'[d][u] = stack[d][u] /\ StackViews(stack[d][u], view[d].current, d, faults)
      BY <1>1, <2>2 DEF OnlyThread, Views
    <3> QED
      BY <1>1, <1>2, <3>1 DEF StackViews
  <2> QED
    BY <2>1, <2>2
<1> QED
  BY <1>4, <1>5 DEF Views

LEMMA SessionViews ==
  ASSUME TypeOK, Shape, \A d \in Clients : Views(d),
         NEW c \in Clients, NEW th \in Threads, Session(c, th)
  PROVE  \A d \in Clients : Views(d)'
<1> DEFINE s == stack[c][th]
           t == stack'[c][th]
<1>1. /\ TypeOK' /\ OnlyThread(c, th) /\ Moves(s, t, "check")
      /\ view' = [view EXCEPT ![c] = Graph(c, pending)] /\ UNCHANGED <<pending, notified, faults>>
  BY SessionFacts DEF server, AfterAnswer
<1>2. s \in Seq(Frames) /\ t \in Seq(Frames) /\ ThreadFits(th, s)
  BY <1>1 DEF TypeOK, Shape
<1>3. /\ view'[c] = Graph(c, pending) /\ view'[c].current \in BOOLEAN
      /\ \A d \in Clients : d # c => view'[d] = view[d]
  BY <1>1 DEF TypeOK
<1>4. view'[c].current /\ ViewFits(c)'
  <2> DEFINE g == Graph(c, pending)
  <2>1. g.current = TRUE /\ g.requests = IF c \in Revokers THEN pending ELSE {}
    BY GraphFields
  <2>2. view'[c] = g /\ pending' = pending
    BY <1>1, <1>3
  <2> HIDE DEF g
  <2> QED
    BY <2>1, <2>2 DEF ViewFits
<1>5. StackViews(t, view'[c].current, c, faults)
  <2>1. StackViews(s, view[c].current, c, faults)
    BY DEF Views
  <2> HIDE DEF s, t
  <2> QED
    BY <1>1, <1>2, <1>3, <2>1, ViewBooleans, MovesViews
<1> SUFFICES ASSUME NEW d \in Clients PROVE Views(d)'
  OBVIOUS
<1>6. ViewFits(d)'
  BY <1>1, <1>3, <1>4 DEF Views, ViewFits
<1>7. Noticed(d)'
  <2>1. CASE d = c
    BY <1>4, <2>1 DEF Noticed
  <2>2. CASE d # c
    <3>1. stack'[d]["socket"] = stack[d]["socket"] /\ view'[d] = view[d]
      BY <1>1, <1>3, <2>2 DEF OnlyThread, Threads
    <3> QED
      BY <1>1, <3>1 DEF Views, Noticed
  <2> QED
    BY <2>1, <2>2
<1>8. ASSUME NEW u \in Threads PROVE StackViews(stack'[d][u], view'[d].current, d, faults')
  <2>1. CASE d = c /\ u = th
    BY <1>1, <1>5, <2>1
  <2>2. CASE d # c \/ u # th
    <3>1. stack'[d][u] = stack[d][u] /\ StackViews(stack[d][u], view[d].current, d, faults)
      BY <1>1, <2>2 DEF OnlyThread, Views
    <3>2. view[d].current => view'[d].current
      BY <1>3, <1>4
    <3> QED
      BY <1>1, <3>1, <3>2 DEF StackViews
  <2> QED
    BY <2>1, <2>2
<1> QED
  BY <1>6, <1>7, <1>8 DEF Views

\* A commit: the others' graphs are old, and they are told.
LEMMA CommitViews ==
  ASSUME TypeOK, Shape, TypeOK', \A d \in Clients : Views(d),
         NEW c \in Clients, NEW th \in Threads, AfterCommit(c, th, pending'),
         stack[c][th][Len(stack[c][th])].op # "session"
  PROVE  /\ \A d \in Clients : Views(d)'
         /\ faults' = 0 => faults = 0 /\ Moves(stack[c][th], stack'[c][th], "check")
                           /\ view'[c] = Graph(c, pending') /\ UNCHANGED mishaps
<1> DEFINE s == stack[c][th]
           t == stack'[c][th]
<1>1. PICK p \in {"check", "failed"} :
        /\ Moves(s, t, p)
        /\ p = "check" => view'[c] = Graph(c, pending') /\ UNCHANGED <<faults, mishaps>>
        /\ p = "failed" => /\ view'[c].requests = view[c].requests /\ ~view'[c].current
                           /\ faults' = faults + 1
  BY DEF AfterCommit
<1>2. s \in Seq(Frames) /\ t \in Seq(Frames) /\ ThreadFits(th, s)
  BY DEF TypeOK, Shape
<1>3. (p = "failed" => faults' # 0) /\ (faults' = 0 => faults = 0 /\ p = "check")
  BY <1>1 DEF TypeOK
<1>4. StackViews(t, view'[c].current, c, faults')
  <2>1. StackViews(s, view[c].current, c, faults) /\ s[Len(s)].op # "session"
    BY DEF Views
  <2>2. view[c].current \in BOOLEAN /\ view'[c].current \in BOOLEAN
    BY DEF TypeOK
  <2> HIDE DEF s, t
  <2> QED
    BY <1>1, <1>2, <1>3, <2>1, <2>2, MovesViews
<1> SUFFICES ASSUME NEW d \in Clients PROVE Views(d)'
  BY <1>1, <1>3
<1>5. d # c => view'[d].requests = view[d].requests /\ ~view'[d].current /\ d \in notified'
  BY DEF AfterCommit
<1>6. ViewFits(d)'
  <2>1. CASE d # c \/ p = "failed"
    <3>1. view'[d].requests = view[d].requests /\ ~view'[d].current
      BY <1>1, <1>5, <2>1
    <3> QED
      BY <3>1 DEF Views, ViewFits
  <2>2. CASE d = c /\ p = "check"
    BY <1>1, <2>2, GraphFields DEF ViewFits
  <2> QED
    BY <2>1, <2>2
<1>7. Noticed(d)'
  <2>1. d = c /\ p = "check" => view'[d].current
    BY <1>1, GraphFields
  <2> QED
    BY <1>3, <1>5, <2>1 DEF Noticed
<1>8. ASSUME NEW u \in Threads PROVE StackViews(stack'[d][u], view'[d].current, d, faults')
  <2>1. CASE d = c /\ u = th
    BY <1>4, <2>1
  <2>2. CASE d # c \/ u # th
    <3>1. /\ Alike(stack[d][u], stack'[d][u])
          /\ \A i \in 1 .. Len(stack[d][u]) : ~stack'[d][u][i].current
          /\ StackViews(stack[d][u], view[d].current, d, faults)
      BY <2>2 DEF AfterCommit, OthersAlike, Views
    <3> QED
      BY <1>3, <3>1 DEF StackViews, Alike, Like
  <2> QED
    BY <2>1, <2>2
<1> QED
  BY <1>6, <1>7, <1>8 DEF Views

LEMMA SocketMessageViews ==
  ASSUME TypeOK, Shape, \A d \in Clients : Views(d), NEW c \in Clients, SocketMessage(c)
  PROVE  (\A d \in Clients : Views(d)') /\ SessionSent(stack'[c]["socket"])
<1> DEFINE t == stack'[c]["socket"]
<1>1. /\ OnlyThread(c, "socket") /\ notified' = notified \ {c}
      /\ Len(t) = 2 /\ t[1].op = "message" /\ ~t[1].current
      /\ t[2].op = "session" /\ t[2].ph = "sent" /\ t[2].current = view[c].current
      /\ UNCHANGED <<pending, view, faults>>
  BY SocketMessageFacts DEF server
<1>2. SessionSent(t)
  BY <1>1 DEF SessionSent
<1>3. StackViews(t, view[c].current, c, faults)
  <2>1. \A i \in 1 .. Len(t) : i = 1 \/ i = 2
    BY <1>1
  <2> QED
    BY <1>1, <2>1 DEF StackViews
<1> SUFFICES ASSUME NEW d \in Clients PROVE Views(d)'
  BY <1>2
<1>4. ViewFits(d)'
  BY <1>1 DEF Views, ViewFits
<1>5. Noticed(d)'
  <2>1. CASE d = c
    BY <1>2, <2>1 DEF Noticed
  <2>2. CASE d # c
    <3>1. stack'[d]["socket"] = stack[d]["socket"]
      BY <1>1, <2>2 DEF OnlyThread, Threads
    <3> QED
      BY <1>1, <2>2, <3>1 DEF Views, Noticed
  <2> QED
    BY <2>1, <2>2
<1>6. ASSUME NEW u \in Threads PROVE StackViews(stack'[d][u], view'[d].current, d, faults')
  <2>1. CASE d = c /\ u = "socket"
    BY <1>1, <1>3, <2>1
  <2>2. CASE d # c \/ u # "socket"
    BY <1>1, <2>2 DEF OnlyThread, Views
  <2> QED
    BY <2>1, <2>2
<1> QED
  BY <1>4, <1>5, <1>6 DEF Views

LEMMA UserActionViews ==
  ASSUME TypeOK, Shape, \A d \in Clients : Views(d), NEW c \in Clients, UserAction(c)
  PROVE  \A d \in Clients : Views(d)'
<1> DEFINE g == Frame("act", FALSE, view[c])
           t == stack'[c]["user"]
<1>1. /\ OnlyThread(c, "user") /\ stack[c]["user"] = <<>> /\ t = <<g>> /\ "user" \in Threads
      /\ UNCHANGED <<pending, view, notified, faults>>
  BY UserActionFacts DEF server, Threads
<1>2. g.op = "act" /\ g.current = view[c].current
  BY DEF Frame
<1> HIDE DEF g
<1>3. Len(t) = 1 /\ t[1] = g /\ Len(<<>>) = 0
  BY <1>1, EmptySeq
<1>4. StackViews(t, view[c].current, c, faults)
  BY <1>2, <1>3 DEF StackViews
<1>5. ~SessionSent(stack[c]["user"])
  BY <1>1, <1>3 DEF SessionSent
<1> QED
  BY <1>1, <1>4, <1>5, PlainViews

LEMMA NextViews ==
  ASSUME TypeOK, Shape, \A d \in Clients : Views(d), [Next]_vars
  PROVE  \A d \in Clients : Views(d)'
<1>1. ASSUME NEW c \in Clients, NEW th \in Threads, Step(c, th) PROVE \A d \in Clients : Views(d)'
  <2>1. CASE CommitAction(c, th)
    BY <2>1, CommitActionFacts, CommitViews
  <2>2. CASE CommitRevocation(c, th)
    BY <2>2, CommitRevocationFacts, CommitViews
  <2> QED
    BY <1>1, <2>1, <2>2, OutdatedViews, RefuseViews, BreakViews, SessionViews, CheckViews,
       RetryViews, ReturnViews DEF Step
<1>2. ASSUME UNCHANGED vars PROVE \A d \in Clients : Views(d)'
  BY <1>2 DEF vars, server, Views, ViewFits, Noticed
<1> QED
  BY <1>1, <1>2, UserActionViews, SocketMessageViews DEF Next

LEMMA InitViews ==
  ASSUME Init
  PROVE  \A d \in Clients : Views(d)
<1>1. Len(<<>>) = 0 /\ \A i \in Nat : i \notin 1 .. 0
  BY EmptySeq
<1>2. \A d \in Clients : /\ view[d] = Graph(d, pending)
                         /\ \A u \in Threads : stack[d][u] = <<>>
  BY DEF Init
<1>3. \A d \in Clients : view[d].current = TRUE /\ ViewFits(d)
  BY <1>2, GraphFields DEF ViewFits
<1> QED
  BY <1>1, <1>2, <1>3 DEF Views, Noticed, StackViews

-----------------------------------------------------------------------------
(* Who keeps the requests from being forgotten: a client that may revoke   *)
(* them, has asked for nothing that is gone, and has still to look at its  *)
(* graph.  A revocation that is committed makes its client the keeper.  Or *)
(* a request was dispatched directly, and every other client that may      *)
(* revoke has still to look, unless a revocation of its user failed.       *)

InCheck(s) == Len(s) > 0 /\ s[Len(s)].ph = "check"

\* The dispatch on top has still to look at what is pending.
Looks(c, th) ==
  /\ InCheck(stack[c][th])
  /\ ~(stack[c][th][Len(stack[c][th])].op = "act" /\ c \in direct)

\* The requests of a revocation under way are pending, so that it is not refused; only
\* what was dispatched in its place can fail it.
StackSound(s, th, pend, m) ==
  \A i \in 1 .. Len(s) : s[i].op = "process" =>
    /\ s[i].ph \in {"sent", "refresh", "again"} => s[i].asked \subseteq pend
    /\ s[i].ph = "failed" => th = "user" /\ "displaced" \in m
Sound(c, th) == StackSound(stack[c][th], th, pending, mishaps[c])

AtWork(c) ==
  \/ c \in notified \/ processing[c]
  \/ \E th \in Threads : Looks(c, th) \/ SessionSent(stack[c][th])
InVain(c) == {"displaced", "revocation"} \subseteq mishaps[c]

Keeper(c) ==
  /\ c \in Revokers /\ view[c].requests \subseteq pending
  /\ \A th \in Threads : Sound(c, th)
  /\ pending # {} => AtWork(c) \/ InVain(c)

\* What a request that was dispatched directly left behind is known to all the others.
Watch(c) == pending # {} => AtWork(c) \/ "revocation" \in mishaps[c]
Left(c) == c \in direct /\ commits[c] > 0 /\ \A d \in Revokers \ {c} : Watch(d)

\* A revocation that the socket's refresh awaits fails only if the client is told of
\* another graph meanwhile.
SocketSound(c) == c \in notified \/ Sound(c, "socket")

Kept ==
  faults = 0 =>
    /\ \A c \in Clients : SocketSound(c)
    /\ Revokers # {} => \E c \in Clients : Keeper(c) \/ Left(c)

LEMMA AlikeSound ==
  ASSUME NEW s, NEW t, Alike(s, t), NEW th, NEW pend, NEW pend2, pend \subseteq pend2,
         NEW m, StackSound(s, th, pend, m)
  PROVE  StackSound(t, th, pend2, m)
BY DEF Alike, Like, StackSound

LEMMA MovesSound ==
  ASSUME NEW s \in Seq(Frames), NEW t \in Seq(Frames), NEW p \in {"check", "failed"},
         Moves(s, t, p), NEW th, NEW pend, NEW pend2, pend \subseteq pend2, NEW m,
         StackSound(s, th, pend, m), s[Len(s)].op = "process" => p # "failed"
  PROVE  StackSound(t, th, pend2, m)
<1>1. p \in Phases
  BY DEF Phases
<1>2. /\ Len(s) \in Nat /\ Len(s) > 0 /\ Len(t) = Len(s)
      /\ \A i \in 1 .. Len(s) - 1 : t[i] = s[i]
      /\ t[Len(s)].op = s[Len(s)].op /\ t[Len(s)].ph = p
  BY <1>1, MovesTop
<1>3. \A i \in 1 .. Len(t) : i \in 1 .. Len(s) /\ (i \in 1 .. Len(s) - 1 \/ i = Len(s))
  BY <1>2
<1> QED
  BY <1>2, <1>3 DEF StackSound

LEMMA PushesSound ==
  ASSUME NEW s \in Seq(Frames), NEW t \in Seq(Frames), NEW p \in Waiting, NEW g,
         Pushes(s, t, p, g), p = "refresh" => s[Len(s)].ph = "sent",
         NEW th, NEW pend, NEW m, NEW m2, m \subseteq m2, StackSound(s, th, pend, m),
         g.ph = "sent", g.op = "process" => g.asked \subseteq pend
  PROVE  StackSound(t, th, pend, m2)
<1>1. p \in Phases /\ p # "failed" /\ p # "again" /\ p # "sent"
  BY DEF Phases, Waiting
<1>2. /\ Len(s) \in Nat /\ Len(s) > 0 /\ Len(t) = Len(s) + 1 /\ t[Len(s) + 1] = g
      /\ \A i \in 1 .. Len(s) - 1 : t[i] = s[i]
      /\ t[Len(s)].op = s[Len(s)].op /\ t[Len(s)].ph = p /\ t[Len(s)].asked = s[Len(s)].asked
  BY <1>1, PushesTop
<1>3. \A i \in 1 .. Len(t) : i \in 1 .. Len(s) - 1 \/ i = Len(s) \/ i = Len(s) + 1
  BY <1>2
<1>4. (\A i \in 1 .. Len(s) - 1 : i \in 1 .. Len(s)) /\ Len(s) \in 1 .. Len(s)
  BY <1>2
<1>5. ASSUME NEW i \in 1 .. Len(t), t[i].op = "process"
      PROVE  /\ t[i].ph \in {"sent", "refresh", "again"} => t[i].asked \subseteq pend
             /\ t[i].ph = "failed" => th = "user" /\ "displaced" \in m2
  <2>1. CASE i \in 1 .. Len(s) - 1
    BY <1>2, <1>4, <1>5, <2>1 DEF StackSound
  <2>2. CASE i = Len(s)
    BY <1>1, <1>2, <1>4, <1>5, <2>2 DEF StackSound
  <2>3. CASE i = Len(s) + 1
    BY <1>2, <1>5, <2>3
  <2> QED
    BY <1>3, <2>1, <2>2, <2>3
<1> QED
  BY <1>5 DEF StackSound

LEMMA PopsSound ==
  ASSUME NEW th \in Threads, NEW s \in Seq(Frames), NEW t \in Seq(Frames), NEW ok \in BOOLEAN,
         Pops(s, t, ok), ThreadFits(th, s), NEW pend, NEW m, NEW m2, m \subseteq m2,
         StackSound(s, th, pend, m),
         Len(s) > 1 /\ ~ok =>
           LET f == s[Len(s) - 1] IN
             f.op = "process" /\ f.ph \in {"refresh", "root"} => th = "user" /\ "displaced" \in m2
  PROVE  StackSound(t, th, pend, m2)
<1>1. /\ Len(s) \in Nat /\ Len(s) > 0 /\ Len(t) = Len(s) - 1 /\ Len(t) \in Nat
      /\ \A i \in 1 .. Len(t) - 1 : t[i] = s[i]
      /\ Len(t) > 0 => /\ s[Len(t)] \in Frames /\ t[Len(t)].op = s[Len(t)].op
                       /\ t[Len(t)].ph = Resumed(s[Len(t)], ok)
                       /\ t[Len(t)].asked = s[Len(t)].asked
  BY PopsTop
<1>2. \A i \in 1 .. Len(t) : i \in 1 .. Len(s) /\ (i \in 1 .. Len(t) - 1 \/ (i = Len(t) /\ Len(t) > 0))
  BY <1>1
<1>3. ASSUME Len(t) > 0, t[Len(t)].op = "process"
      PROVE  /\ t[Len(t)].ph \in {"sent", "refresh", "again"} => t[Len(t)].asked \subseteq pend
             /\ t[Len(t)].ph = "failed" => th = "user" /\ "displaced" \in m2
  <2> DEFINE f == s[Len(t)]
  <2>1. f.ph \in Waiting /\ f.op = "process" /\ Len(t) \in 1 .. Len(s)
    BY <1>1, <1>3 DEF ThreadFits
  <2>2. /\ Len(s) - 1 = Len(t) /\ Len(s) > 1
        /\ ~ok => (f.ph \in {"refresh", "root"} => th = "user" /\ "displaced" \in m2)
    BY <1>1, <1>3, <2>1
  <2>3. /\ f.ph \in {"refresh"} => f.asked \subseteq pend
        /\ t[Len(t)].ph = Resumed(f, ok) /\ t[Len(t)].asked = f.asked
    BY <1>1, <1>3, <2>1 DEF StackSound
  <2> HIDE DEF f
  <2> QED
    BY <2>1, <2>2, <2>3 DEF Resumed, Waiting
<1>4. ASSUME NEW i \in 1 .. Len(t), t[i].op = "process"
      PROVE  /\ t[i].ph \in {"sent", "refresh", "again"} => t[i].asked \subseteq pend
             /\ t[i].ph = "failed" => th = "user" /\ "displaced" \in m2
  <2>1. CASE i \in 1 .. Len(t) - 1
    BY <1>1, <1>2, <1>4, <2>1 DEF StackSound
  <2>2. CASE i = Len(t) /\ Len(t) > 0
    BY <1>3, <1>4, <2>2
  <2> QED
    BY <1>2, <2>1, <2>2
<1> QED
  BY <1>4 DEF StackSound

LEMMA PutsSound ==
  ASSUME NEW s \in Seq(Frames), NEW t \in Seq(Frames), NEW g, Puts(s, t, g),
         NEW th, NEW pend, NEW m, StackSound(s, th, pend, m),
         g.ph = "sent", g.op = "process" => g.asked \subseteq pend
  PROVE  StackSound(t, th, pend, m)
<1>1. /\ Len(s) \in Nat /\ Len(s) > 0 /\ Len(t) = Len(s) /\ t[Len(s)] = g
      /\ \A i \in 1 .. Len(s) - 1 : t[i] = s[i]
  BY PutsTop
<1> QED
  BY <1>1 DEF StackSound

\* A step of another client that commits nothing.
LEMMA KeptApart ==
  ASSUME NEW c \in Clients, UNCHANGED <<pending, direct>>, processing'[c] = processing[c],
         view'[c] = view[c], mishaps'[c] = mishaps[c], c \in notified => c \in notified',
         \A u \in Threads : stack'[c][u] = stack[c][u]
  PROVE  (Keeper(c) => Keeper(c)') /\ (Watch(c) => Watch(c)')
<1>1. ASSUME NEW u \in Threads PROVE (Sound(c, u) => Sound(c, u)') /\ (Looks(c, u) => Looks(c, u)')
  BY DEF Sound, Looks
<1>2. AtWork(c) => AtWork(c)'
  BY <1>1 DEF AtWork
<1> QED
  BY <1>1, <1>2 DEF Keeper, Watch, InVain

\* A step that is not a check or a session leaves the client what it had to do.
LEMMA WorkKept ==
  ASSUME NEW c \in Clients, NEW th \in Threads, AtWork(c), OnlyThread(c, th),
         ~Looks(c, th), ~SessionSent(stack[c][th]),
         UNCHANGED <<notified, direct>>, processing[c] => processing'[c]
  PROVE  AtWork(c)'
<1>1. ASSUME NEW u \in Threads, Looks(c, u) \/ SessionSent(stack[c][u])
      PROVE  Looks(c, u)' \/ SessionSent(stack'[c][u])
  <2>1. u # th
    BY <1>1
  <2>2. stack'[c][u] = stack[c][u]
    BY <2>1 DEF OnlyThread
  <2> QED
    BY <1>1, <2>2 DEF Looks
<1> QED
  BY <1>1 DEF AtWork

\* The thread that moved, and the client's other one.
LEMMA SoundBy ==
  ASSUME NEW c \in Clients, NEW th \in Threads, OnlyThread(c, th), UNCHANGED pending,
         mishaps[c] \subseteq mishaps'[c],
         StackSound(stack'[c][th], th, pending, mishaps'[c]),
         NEW u \in Threads, u # th => Sound(c, u)
  PROVE  Sound(c, u)'
<1>1. CASE u = th
  BY <1>1 DEF Sound
<1>2. CASE u # th
  <2>1. stack'[c][u] = stack[c][u] /\ StackSound(stack[c][u], u, pending, mishaps[c])
    BY <1>2 DEF OnlyThread, Sound
  <2> QED
    BY <2>1 DEF StackSound, Sound
<1> QED
  BY <1>1, <1>2

\* What the next lemmas are about: nothing failed so far.
Grounds ==
  /\ TypeOK /\ Shape /\ faults = 0
  /\ \A d \in Clients : OneActive(d) /\ Told(d) /\ Views(d)

\* The steps that commit nothing, and fail nothing.
Quiet(c, th) ==
  \/ Outdated(c, th) \/ Refuse(c, th) \/ Session(c, th) \/ Check(c, th) \/ Retry(c, th)
  \/ Failure(c, th) \/ Result(c, th)

LEMMA QuietFacts ==
  ASSUME TypeOK, Shape, NEW c \in Clients, NEW th \in Threads, Quiet(c, th)
  PROVE  /\ OnlyThread(c, th) /\ UNCHANGED <<pending, notified, direct, commits, faults>>
         /\ mishaps[c] \subseteq mishaps'[c]
         /\ \A k \in Clients : k # c => /\ view'[k] = view[k] /\ processing'[k] = processing[k]
                                        /\ mishaps'[k] = mishaps[k]
<1>1. CASE Outdated(c, th)
  <2>1. /\ OnlyThread(c, th)
        /\ UNCHANGED <<pending, notified, view, processing, direct, commits, faults>>
        /\ Mishap(c, th, "displaced") \/ UNCHANGED mishaps
    BY <1>1, OutdatedFacts DEF server
  <2> QED
    BY <2>1, MishapFacts
<1>2. CASE Refuse(c, th)
  BY <1>2, RefuseFacts DEF server, AfterAnswer
<1>3. CASE Session(c, th)
  BY <1>3, SessionFacts DEF server, AfterAnswer, TypeOK
<1>4. CASE Check(c, th)
  <2>1. /\ OnlyThread(c, th)
        /\ UNCHANGED <<pending, notified, view, mishaps, direct, commits, faults>>
        /\ \E b : processing' = [processing EXCEPT ![c] = b]
    BY <1>4, CheckFacts DEF server, AfterReturn
  <2> QED
    BY <2>1 DEF TypeOK
<1>5. CASE Retry(c, th)
  BY <1>5, RetryFacts DEF server
<1>6. CASE Failure(c, th)
  <2>1. /\ OnlyThread(c, th) /\ UNCHANGED <<pending, notified, view, direct, commits, faults>>
        /\ processing' = [processing EXCEPT ![c] = FALSE] \/ UNCHANGED processing
        /\ Mishap(c, th, "revocation") \/ UNCHANGED mishaps
    BY <1>6, FailureFacts DEF server, AfterReturn
  <2>2. \A k \in Clients : k # c => processing'[k] = processing[k]
    BY <2>1 DEF TypeOK
  <2> QED
    BY <2>1, <2>2, MishapFacts
<1>7. CASE Result(c, th)
  BY <1>7, ResultFacts DEF server, AfterReturn
<1> QED
  BY <1>1, <1>2, <1>3, <1>4, <1>5, <1>6, <1>7 DEF Quiet

LEMMA TopSound ==
  ASSUME TypeOK, NEW c \in Clients, NEW th \in Threads, Sound(c, th), Len(stack[c][th]) > 0
  PROVE  LET f == stack[c][th][Len(stack[c][th])] IN
         f.op = "process" =>
           /\ f.ph \in {"sent", "refresh", "again"} => f.asked \subseteq pending
           /\ f.ph = "failed" => th = "user" /\ "displaced" \in mishaps[c]
<1>1. stack[c][th] \in Seq(Frames)
  BY DEF TypeOK
<1>2. Len(stack[c][th]) \in 1 .. Len(stack[c][th])
  BY <1>1, LenProperties
<1> QED
  BY <1>1, <1>2 DEF StackSound, Sound

LEMMA OutdatedSound ==
  ASSUME Grounds, NEW c \in Clients, NEW th \in Threads, Outdated(c, th), Sound(c, th)
  PROVE  StackSound(stack'[c][th], th, pending, mishaps'[c])
<1> DEFINE s == stack[c][th]
           t == stack'[c][th]
           f == s[Len(s)]
           g == Frame("session", (f.op = "act" /\ c \notin direct) \/ f.rooted, view[c])
<1>1. TypeOK' /\ f.ph = "sent" /\ Pushes(s, t, "refresh", g)
  BY OutdatedFacts DEF Grounds
<1>2. mishaps[c] \subseteq mishaps'[c]
  BY QuietFacts DEF Quiet, Grounds
<1>3. /\ s \in Seq(Frames) /\ t \in Seq(Frames) /\ "refresh" \in Waiting
      /\ StackSound(s, th, pending, mishaps[c])
  BY <1>1 DEF Grounds, TypeOK, Waiting, Sound
<1>4. g.op = "session" /\ g.ph = "sent"
  BY DEF Frame
<1> HIDE DEF s, t, g
<1> QED
  BY <1>1, <1>2, <1>3, <1>4, PushesSound DEF t

\* A revocation of requests that are pending is not refused.
LEMMA RefuseSound ==
  ASSUME Grounds, NEW c \in Clients, NEW th \in Threads, Refuse(c, th), Sound(c, th)
  PROVE  StackSound(stack'[c][th], th, pending, mishaps'[c])
<1> DEFINE s == stack[c][th]
           t == stack'[c][th]
           f == s[Len(s)]
<1>1. /\ TypeOK' /\ f.ph = "sent" /\ Len(s) > 0
      /\ f.op = "process" => ~(f.asked \subseteq pending)
      /\ Moves(s, t, "failed") /\ UNCHANGED mishaps
  BY RefuseFacts DEF AfterAnswer, Grounds
<1>2. s \in Seq(Frames) /\ t \in Seq(Frames) /\ StackSound(s, th, pending, mishaps[c])
  BY <1>1 DEF Grounds, TypeOK, Sound
<1>3. f.op # "process"
  BY <1>1, TopSound DEF Grounds
<1> HIDE DEF s, t
<1> QED
  BY <1>1, <1>2, <1>3, MovesSound DEF t

LEMMA SessionSound ==
  ASSUME Grounds, NEW c \in Clients, NEW th \in Threads, Session(c, th), Sound(c, th)
  PROVE  StackSound(stack'[c][th], th, pending, mishaps'[c]) /\ Looks(c, th)'
<1> DEFINE s == stack[c][th]
           t == stack'[c][th]
<1>1. /\ TypeOK' /\ s[Len(s)].op = "session" /\ Moves(s, t, "check") /\ UNCHANGED mishaps
  BY SessionFacts DEF AfterAnswer, Grounds
<1>2. /\ s \in Seq(Frames) /\ t \in Seq(Frames) /\ "check" \in Phases
      /\ StackSound(s, th, pending, mishaps[c])
  BY <1>1 DEF Grounds, TypeOK, Sound, Phases
<1> HIDE DEF s, t
<1>3. StackSound(t, th, pending, mishaps'[c])
  BY <1>1, <1>2, MovesSound
<1>4. InCheck(t) /\ t[Len(t)].op = "session"
  BY <1>1, <1>2, MovesTop DEF InCheck
<1> QED
  BY <1>3, <1>4 DEF t, Looks

LEMMA CheckSound ==
  ASSUME Grounds, NEW c \in Clients, NEW th \in Threads, Check(c, th), Sound(c, th),
         view[c].requests \subseteq pending
  PROVE  StackSound(stack'[c][th], th, pending, mishaps'[c])
<1> DEFINE s == stack[c][th]
           t == stack'[c][th]
           f == s[Len(s)]
           g == Frame("process", f.rooted, view[c])
<1>1. /\ TypeOK' /\ f.ph = "check" /\ UNCHANGED mishaps
      /\ \/ Pushes(s, t, "revoking", g)
         \/ \E ok \in BOOLEAN : ok /\ Pops(s, t, ok)
  BY CheckFacts DEF AfterReturn, Grounds
<1>2. /\ s \in Seq(Frames) /\ t \in Seq(Frames) /\ ThreadFits(th, s) /\ "revoking" \in Waiting
      /\ StackSound(s, th, pending, mishaps[c])
  BY <1>1 DEF Grounds, TypeOK, Shape, Sound, Waiting
<1>3. g.op = "process" /\ g.ph = "sent" /\ g.asked = view[c].requests
  BY DEF Frame
<1> HIDE DEF s, t, g
<1>4. CASE Pushes(s, t, "revoking", g)
  BY <1>1, <1>2, <1>3, <1>4, PushesSound DEF t
<1>5. CASE \E ok \in BOOLEAN : ok /\ Pops(s, t, ok)
  <2>1. PICK ok \in BOOLEAN : Pops(s, t, ok) /\ (~ok => f.ph # "check")
    BY <1>5
  <2> QED
    BY <1>1, <1>2, <2>1, PopsSound DEF t
<1> QED
  BY <1>1, <1>4, <1>5

LEMMA RetrySound ==
  ASSUME Grounds, NEW c \in Clients, NEW th \in Threads, Retry(c, th), Sound(c, th)
  PROVE  StackSound(stack'[c][th], th, pending, mishaps'[c])
<1> DEFINE s == stack[c][th]
           t == stack'[c][th]
           f == s[Len(s)]
           e == Frame("act", c \notin direct, view[c])
           g == Frame("act", TRUE, view[c])
           h == [Frame("process", FALSE, view[c]) EXCEPT !.asked = f.asked]
<1>1. /\ TypeOK' /\ f.ph = "again" /\ Len(s) > 0
      /\ \/ Puts(s, t, e)
         \/ Pushes(s, t, "root", g)
         \/ f.op = "process" /\ Puts(s, t, h)
      /\ UNCHANGED mishaps
  BY RetryFacts DEF Grounds
<1>2. /\ s \in Seq(Frames) /\ t \in Seq(Frames) /\ "root" \in Waiting /\ "root" # "refresh"
      /\ StackSound(s, th, pending, mishaps[c])
  BY <1>1 DEF Grounds, TypeOK, Waiting, Sound
<1>3. /\ e.op = "act" /\ e.ph = "sent" /\ g.op = "act" /\ g.ph = "sent"
      /\ h.op = "process" /\ h.ph = "sent" /\ h.asked = f.asked
  BY DEF Frame
<1>4. f.op = "process" => f.asked \subseteq pending
  BY <1>1, TopSound DEF Grounds
<1>5. "act" # "process"
  OBVIOUS
<1> HIDE DEF s, t, f, e, g, h
<1>6. CASE Puts(s, t, e)
  BY <1>1, <1>2, <1>3, <1>5, <1>6, PutsSound DEF t
<1>7. CASE Pushes(s, t, "root", g)
  BY <1>1, <1>2, <1>3, <1>5, <1>7, PushesSound DEF t
<1>8. CASE f.op = "process" /\ Puts(s, t, h)
  BY <1>1, <1>2, <1>3, <1>4, <1>8, PutsSound DEF t
<1> QED
  BY <1>1, <1>6, <1>7, <1>8

\* A dispatch that ends in a failure fails a revocation that waits for it only if it is
\* the user's action in its place: nothing fails a refresh.
LEMMA BelowFails ==
  ASSUME Grounds, NEW c \in Clients, NEW th \in Threads, Len(stack[c][th]) > 1,
         stack[c][th][Len(stack[c][th])].ph \in {"failed", "err"},
         LET f == stack[c][th][Len(stack[c][th]) - 1] IN
           f.op = "process" /\ f.ph \in {"refresh", "root"}
  PROVE  th = "user" /\ "displaced" \in mishaps[c]
<1> DEFINE s == stack[c][th]
           n == Len(s)
           f == s[n - 1]
<1>1. s \in Seq(Frames) /\ n \in Nat /\ n \in 1 .. n /\ n - 1 \in 1 .. n /\ n - 1 \in 1 .. n - 1
      /\ n = (n - 1) + 1
  <2>1. s \in Seq(Frames) /\ n \in Nat
    BY TopTyped DEF Grounds
  <2> HIDE DEF s
  <2> QED
    BY <2>1 DEF s
<1>2. /\ ThreadFits(th, s) /\ OneActive(c) /\ Told(c)
      /\ StackViews(s, view[c].current, c, faults) /\ faults = 0
  BY DEF Grounds, Shape, Views
<1>3. Fits(f) /\ AboveFits(f, s[n]) /\ (th = "socket" => ~f.rooted)
  BY <1>1, <1>2 DEF ThreadFits
<1>4. s[n].ph # "err"
  <2>1. n - 1 \in ActiveAt(s) /\ (s[n].ph = "err" => n \in SettledAt(s))
    BY <1>1 DEF ActiveAt, SettledAt, Settled
  <2>2. \A i \in ActiveAt(s), j \in SettledAt(s) : j < i
    BY <1>2 DEF OneActive
  <2>3. ~(n < n - 1)
    BY <1>1
  <2> HIDE DEF n, s
  <2> QED
    BY <2>1, <2>2, <2>3
<1>5. f.ph # "refresh"
  BY <1>1, <1>2, <1>3, <1>4 DEF AboveFits, StackViews
<1>6. f.rooted /\ th = "user"
  BY <1>3, <1>5 DEF Fits, Threads
<1>7. "displaced" \in mishaps[c]
  BY <1>1, <1>2, <1>5, <1>6 DEF Told, Tells, Undisplaced
<1> QED
  BY <1>6, <1>7

LEMMA FailureSound ==
  ASSUME Grounds, NEW c \in Clients, NEW th \in Threads, Failure(c, th), Sound(c, th)
  PROVE  StackSound(stack'[c][th], th, pending, mishaps'[c])
<1> DEFINE s == stack[c][th]
           t == stack'[c][th]
           f == s[Len(s)]
<1>1. /\ TypeOK' /\ Len(s) > 0 /\ f.ph = "failed" /\ \E ok \in BOOLEAN : Pops(s, t, ok)
  BY FailureFacts DEF AfterReturn, Grounds
<1>2. mishaps[c] \subseteq mishaps'[c]
  BY QuietFacts DEF Quiet, Grounds
<1>3. /\ s \in Seq(Frames) /\ t \in Seq(Frames) /\ ThreadFits(th, s)
      /\ StackSound(s, th, pending, mishaps[c])
  BY <1>1 DEF Grounds, TypeOK, Shape, Sound
<1>4. Len(s) > 1 /\ s[Len(s) - 1].op = "process" /\ s[Len(s) - 1].ph \in {"refresh", "root"}
      => th = "user" /\ "displaced" \in mishaps'[c]
  BY <1>1, <1>2, BelowFails
<1> HIDE DEF s, t, f
<1>5. PICK ok \in BOOLEAN : Pops(s, t, ok)
  BY <1>1
<1> QED
  BY <1>2, <1>3, <1>4, <1>5, PopsSound DEF t

LEMMA ResultSound ==
  ASSUME Grounds, NEW c \in Clients, NEW th \in Threads, Result(c, th), Sound(c, th)
  PROVE  StackSound(stack'[c][th], th, pending, mishaps'[c])
<1> DEFINE s == stack[c][th]
           t == stack'[c][th]
           f == s[Len(s)]
<1>1. /\ TypeOK' /\ Len(s) > 0 /\ f.ph \in {"ok", "err"}
      /\ \E ok \in BOOLEAN : Pops(s, t, ok) /\ (ok \/ f.ph = "err")
      /\ UNCHANGED mishaps
  BY ResultFacts DEF AfterReturn, Grounds
<1>2. /\ s \in Seq(Frames) /\ t \in Seq(Frames) /\ ThreadFits(th, s)
      /\ StackSound(s, th, pending, mishaps[c])
  BY <1>1 DEF Grounds, TypeOK, Shape, Sound
<1>3. Len(s) > 1 /\ s[Len(s) - 1].op = "process" /\ s[Len(s) - 1].ph \in {"refresh", "root"}
      => (f.ph = "err" => th = "user" /\ "displaced" \in mishaps[c])
  BY BelowFails
<1> HIDE DEF s, t, f
<1>4. PICK ok \in BOOLEAN : Pops(s, t, ok) /\ (ok \/ f.ph = "err")
  BY <1>1
<1> QED
  BY <1>1, <1>2, <1>3, <1>4, PopsSound DEF t

LEMMA QuietSound ==
  ASSUME Grounds, NEW c \in Clients, NEW th \in Threads, Quiet(c, th), Sound(c, th),
         Check(c, th) => view[c].requests \subseteq pending
  PROVE  StackSound(stack'[c][th], th, pending, mishaps'[c])
BY OutdatedSound, RefuseSound, SessionSound, CheckSound, RetrySound, FailureSound, ResultSound
   DEF Quiet

\* A client looks at its graph: it processes, or leaves it to who does already, or
\* nothing is pending, or it has yet to look at a newer graph.
LEMMA CheckWork ==
  ASSUME Grounds, NEW c \in Revokers, NEW th \in Threads, Check(c, th), AtWork(c), pending # {}
  PROVE  AtWork(c)'
<1> DEFINE s == stack[c][th]
           f == s[Len(s)]
           busy == Busy(c, f)
           needed == Needed(c, f)
<1>1. /\ OnlyThread(c, th) /\ f.ph = "check" /\ UNCHANGED <<view, notified, direct>>
      /\ IF needed THEN processing' = [processing EXCEPT ![c] = TRUE]
                   ELSE processing' = [processing EXCEPT ![c] = busy]
      /\ c \in Clients /\ processing \in [Clients -> BOOLEAN]
  BY CheckFacts, RetryAssumption DEF server, Grounds, TypeOK
<1>2. ~SessionSent(s) /\ Len(s) > 0
  BY <1>1, CheckFacts, RetryAssumption DEF SessionSent, Grounds
<1>3. CASE needed \/ busy
  <2>1. processing'[c] = TRUE
    BY <1>1, <1>3
  <2> QED
    BY <2>1 DEF AtWork
<1>4. CASE f.op = "act" /\ c \in direct
  <2>1. ~Looks(c, th) /\ (processing[c] => busy)
    BY <1>4 DEF Looks, Busy
  <2>2. processing[c] => processing'[c]
    BY <1>1, <2>1
  <2> QED
    BY <1>1, <1>2, <2>1, <2>2, WorkKept
<1>5. CASE ~needed /\ ~busy /\ ~(f.op = "act" /\ c \in direct)
  <2>1. view[c].requests = {}
    BY <1>5 DEF Needed
  <2>2. ~view[c].current
    BY <1>1, <2>1 DEF Grounds, Views, ViewFits
  <2>3. c \in notified \/ SessionSent(stack[c]["socket"])
    BY <1>1, <2>2 DEF Grounds, Views, Noticed
  <2>4. "socket" \in Threads
    BY DEF Threads
  <2>5. SessionSent(stack[c]["socket"]) => stack'[c]["socket"] = stack[c]["socket"]
    BY <1>1, <1>2, <2>4 DEF OnlyThread
  <2> QED
    BY <1>1, <2>3, <2>4, <2>5 DEF AtWork
<1> QED
  BY <1>3, <1>4, <1>5

LEMMA QuietWork ==
  ASSUME Grounds, NEW c \in Revokers, NEW th \in Threads, Quiet(c, th), AtWork(c), pending # {}
  PROVE  \/ AtWork(c)'
         \/ /\ Failure(c, th) /\ stack[c][th][Len(stack[c][th])].op = "process"
            /\ stack[c][th][Len(stack[c][th])].ph = "failed" /\ Len(stack[c][th]) > 0
            /\ th = "user" => "revocation" \in mishaps'[c]
<1> DEFINE s == stack[c][th]
           f == s[Len(s)]
<1>1. /\ c \in Clients /\ TypeOK /\ Shape /\ OnlyThread(c, th)
      /\ UNCHANGED <<notified, direct>>
  BY RetryAssumption, QuietFacts DEF Grounds
<1>2. CASE Check(c, th)
  BY <1>2, CheckWork
<1>3. CASE Session(c, th)
  <2>1. /\ TypeOK' /\ s[Len(s)].op = "session" /\ Moves(s, stack'[c][th], "check")
    BY <1>1, <1>3, SessionFacts DEF AfterAnswer
  <2>2. s \in Seq(Frames) /\ stack'[c][th] \in Seq(Frames) /\ "check" \in Phases
    BY <1>1, <2>1 DEF TypeOK, Phases
  <2>3. InCheck(stack'[c][th]) /\ stack'[c][th][Len(stack'[c][th])].op = "session"
    BY <2>1, <2>2, MovesTop DEF InCheck
  <2> QED
    BY <2>3 DEF Looks, AtWork
<1>4. CASE Failure(c, th) /\ f.op = "process"
  <2>1. /\ Len(s) > 0 /\ f.ph = "failed" /\ Mishap(c, th, "revocation")
    BY <1>1, <1>4, FailureFacts
  <2> QED
    BY <1>1, <1>4, <2>1, MishapGrows
<1>5. CASE Outdated(c, th) \/ Refuse(c, th) \/ Retry(c, th) \/ (Failure(c, th) /\ f.op # "process")
           \/ Result(c, th)
  <2>1. /\ UNCHANGED processing
        /\ f.ph \in {"again", "failed", "ok", "err"} \/ (f.ph = "sent" /\ f.op # "session")
    <3>1. CASE Outdated(c, th)
      BY <1>1, <3>1, OutdatedFacts DEF AfterAnswer
    <3>2. CASE Refuse(c, th)
      BY <1>1, <3>2, RefuseFacts DEF AfterAnswer
    <3>3. CASE Retry(c, th)
      BY <1>1, <3>3, RetryFacts
    <3>4. CASE Failure(c, th) /\ f.op # "process"
      BY <1>1, <3>4, FailureFacts
    <3>5. CASE Result(c, th)
      BY <1>1, <3>5, ResultFacts
    <3> QED
      BY <1>5, <3>1, <3>2, <3>3, <3>4, <3>5
  <2>2. ~Looks(c, th) /\ ~SessionSent(s)
    BY <2>1 DEF Looks, InCheck, SessionSent
  <2> QED
    BY <1>1, <2>1, <2>2, WorkKept
<1> QED
  BY <1>2, <1>3, <1>4, <1>5 DEF Quiet

LEMMA QuietKeeps ==
  ASSUME Grounds, NEW c \in Clients, NEW th \in Threads, Quiet(c, th), Keeper(c)
  PROVE  Keeper(c)'
<1>1. /\ OnlyThread(c, th) /\ UNCHANGED <<pending, notified, direct>>
      /\ mishaps[c] \subseteq mishaps'[c] /\ TypeOK /\ Shape
  BY QuietFacts DEF Grounds
<1>2. /\ c \in Revokers /\ view[c].requests \subseteq pending /\ \A u \in Threads : Sound(c, u)
  BY DEF Keeper
<1>3. ASSUME NEW u \in Threads PROVE Sound(c, u)'
  BY <1>1, <1>2, QuietSound, SoundBy
<1>4. view'[c].requests \subseteq pending
  <2>1. CASE Session(c, th)
    <3> DEFINE g == Graph(c, pending)
    <3>1. view'[c] = g
      BY <1>1, <2>1, SessionFacts DEF TypeOK
    <3>2. g.requests = IF c \in Revokers THEN pending ELSE {}
      BY GraphFields
    <3> HIDE DEF g
    <3> QED
      BY <1>2, <3>1, <3>2
  <2>2. CASE ~Session(c, th)
    <3>1. UNCHANGED view
      BY <1>1, <2>2, OutdatedFacts, RefuseFacts, CheckFacts, RetryFacts, FailureFacts, ResultFacts
         DEF Quiet
    <3> QED
      BY <1>2, <3>1
  <2> QED
    BY <2>1, <2>2
<1>5. ASSUME pending # {} PROVE AtWork(c)' \/ InVain(c)'
  <2>1. CASE InVain(c)
    BY <1>1, <2>1 DEF InVain
  <2>2. CASE AtWork(c)
    <3>1. CASE AtWork(c)'
      BY <3>1
    <3>2. CASE /\ stack[c][th][Len(stack[c][th])].op = "process"
               /\ stack[c][th][Len(stack[c][th])].ph = "failed" /\ Len(stack[c][th]) > 0
               /\ th = "user" => "revocation" \in mishaps'[c]
      <4>1. th = "user" /\ "displaced" \in mishaps[c]
        BY <1>1, <1>2, <3>2, TopSound
      <4> QED
        BY <1>1, <3>2, <4>1 DEF InVain
    <3> QED
      BY <1>2, <1>5, <2>2, <3>1, <3>2, QuietWork
  <2> QED
    BY <1>5, <2>1, <2>2 DEF Keeper
<1> QED
  BY <1>1, <1>2, <1>3, <1>4, <1>5 DEF Keeper

LEMMA QuietWatches ==
  ASSUME Grounds, NEW c \in Revokers, NEW th \in Threads, Quiet(c, th), Watch(c), SocketSound(c)
  PROVE  Watch(c)'
<1>1. /\ c \in Clients /\ UNCHANGED <<pending, notified>> /\ mishaps[c] \subseteq mishaps'[c]
      /\ TypeOK
  BY RetryAssumption, QuietFacts DEF Grounds
<1>2. CASE pending # {} /\ AtWork(c)
  <2>1. CASE AtWork(c)'
    BY <2>1 DEF Watch
  <2>2. CASE /\ stack[c][th][Len(stack[c][th])].op = "process"
             /\ stack[c][th][Len(stack[c][th])].ph = "failed" /\ Len(stack[c][th]) > 0
             /\ th = "user" => "revocation" \in mishaps'[c]
    <3>1. CASE th = "user"
      BY <2>2, <3>1 DEF Watch
    <3>2. CASE th # "user"
      <4>1. ~Sound(c, th) /\ th = "socket"
        BY <1>1, <2>2, <3>2, TopSound DEF Threads
      <4>2. c \in notified'
        BY <1>1, <4>1 DEF SocketSound
      <4> QED
        BY <4>2 DEF Watch, AtWork
    <3> QED
      BY <3>1, <3>2
  <2> QED
    BY <1>2, <2>1, <2>2, QuietWork
<1> QED
  BY <1>1, <1>2 DEF Watch

LEMMA QuietSocket ==
  ASSUME Grounds, NEW c \in Clients, NEW th \in Threads, Quiet(c, th), SocketSound(c)
  PROVE  SocketSound(c)'
<1>1. /\ OnlyThread(c, th) /\ UNCHANGED <<pending, notified>> /\ "socket" \in Threads
      /\ mishaps[c] \subseteq mishaps'[c]
  BY QuietFacts DEF Grounds, Threads
<1>2. CASE c \in notified
  BY <1>1, <1>2 DEF SocketSound
<1>3. CASE c \notin notified /\ th = "socket"
  <2>1. Sound(c, th)
    BY <1>3 DEF SocketSound
  <2>2. Check(c, th) => view[c].requests \subseteq pending
    <3> SUFFICES ASSUME Check(c, th) PROVE view[c].requests \subseteq pending
      OBVIOUS
    <3>1. stack[c][th][Len(stack[c][th])].ph = "check"
      BY CheckFacts DEF Grounds
    <3>2. ~SessionSent(stack[c]["socket"])
      BY <1>3, <3>1 DEF SessionSent
    <3>3. view[c].current \in BOOLEAN
      BY ViewBooleans DEF Grounds
    <3>4. view[c].current
      BY <1>3, <3>2, <3>3 DEF Grounds, Views, Noticed
    <3> QED
      BY <3>4 DEF Grounds, Views, ViewFits
  <2> QED
    BY <1>1, <1>3, <2>1, <2>2, QuietSound, SoundBy DEF SocketSound
<1>4. CASE c \notin notified /\ th = "user"
  <2>1. stack'[c]["socket"] = stack[c]["socket"] /\ Sound(c, "socket")
    BY <1>1, <1>4 DEF OnlyThread, SocketSound
  <2> QED
    BY <1>1, <2>1 DEF SocketSound, Sound, StackSound
<1> QED
  BY <1>2, <1>3, <1>4 DEF Threads

\* A commit that does not fail keeps what its client and the others had asked for; its
\* client looks at the new graph, unless the request was dispatched directly.
LEMMA CommitActionKept ==
  ASSUME Grounds, NEW c \in Clients, NEW th \in Threads, CommitAction(c, th), faults' = 0
  PROVE  /\ \A k \in Clients : k # c => k \in notified'
         /\ c \in direct \/ AtWork(c)'
         /\ \A k \in Clients, u \in Threads : Sound(k, u) => Sound(k, u)'
         /\ \A k \in Clients : Keeper(k) /\ (k # c \/ c \notin direct) => Keeper(k)'
<1> DEFINE s == stack[c][th]
           t == stack'[c][th]
           g == Graph(c, pending')
<1>1. /\ TypeOK' /\ AfterCommit(c, th, pending') /\ s[Len(s)].op = "act" /\ pending \subseteq pending'
      /\ UNCHANGED direct /\ \A d \in Clients : Views(d)
  BY CommitActionFacts DEF Grounds
<1>2. Moves(s, t, "check") /\ view'[c] = g /\ UNCHANGED mishaps
  BY <1>1, CommitViews DEF Grounds
<1>3. /\ OthersAlike(c, th) /\ notified' = notified \cup (Clients \ {c})
      /\ \A d \in Clients : d # c => view'[d].requests = view[d].requests
  BY <1>1 DEF AfterCommit
<1>4. s \in Seq(Frames) /\ t \in Seq(Frames) /\ "check" \in Phases
  BY <1>1 DEF Grounds, TypeOK, Phases
<1>5. ASSUME NEW k \in Clients, NEW u \in Threads, Sound(k, u) PROVE Sound(k, u)'
  <2>1. CASE k = c /\ u = th
    <3>1. StackSound(s, th, pending, mishaps[k])
      BY <1>5, <2>1 DEF Sound
    <3> HIDE DEF s, t
    <3>2. StackSound(t, th, pending', mishaps[k])
      BY <1>1, <1>2, <1>4, <3>1, MovesSound
    <3> QED
      BY <1>2, <2>1, <3>2 DEF t, Sound
  <2>2. CASE k # c \/ u # th
    <3>1. Alike(stack[k][u], stack'[k][u])
      BY <1>3, <2>2 DEF OthersAlike
    <3> QED
      BY <1>1, <1>2, <1>5, <3>1, AlikeSound DEF Sound
  <2> QED
    BY <2>1, <2>2
<1>6. ASSUME c \notin direct PROVE AtWork(c)'
  <2>1. InCheck(t)
    <3> HIDE DEF s, t
    <3> QED
      BY <1>2, <1>4, MovesTop DEF InCheck
  <2> QED
    BY <1>1, <1>6, <2>1 DEF AtWork, Looks
<1>7. ASSUME NEW k \in Clients, Keeper(k), k # c \/ c \notin direct PROVE Keeper(k)'
  <2>1. k \in Revokers /\ view[k].requests \subseteq pending /\ \A u \in Threads : Sound(k, u)
    BY <1>7 DEF Keeper
  <2>2. view'[k].requests \subseteq pending'
    <3>1. g.requests = IF c \in Revokers THEN pending' ELSE {}
      BY GraphFields
    <3> HIDE DEF g
    <3> QED
      BY <1>1, <1>2, <1>3, <2>1, <3>1
  <2>3. AtWork(k)'
    <3>1. CASE k = c
      BY <1>6, <1>7, <3>1
    <3>2. CASE k # c
      BY <1>3, <3>2 DEF AtWork
    <3> QED
      BY <3>1, <3>2
  <2> QED
    BY <1>5, <2>1, <2>2, <2>3 DEF Keeper
<1> QED
  BY <1>3, <1>5, <1>6, <1>7

\* Who has processed requests looks whether there are more.
LEMMA CommitRevocationKept ==
  ASSUME Grounds, NEW c \in Clients, NEW th \in Threads, CommitRevocation(c, th), faults' = 0
  PROVE  Keeper(c)'
<1> DEFINE s == stack[c][th]
           t == stack'[c][th]
           g == Graph(c, pending')
<1>1. /\ TypeOK' /\ AfterCommit(c, th, pending') /\ Len(s) > 0
      /\ s[Len(s)].op = "process" /\ s[Len(s)].ph = "sent"
      /\ \A d \in Clients : Views(d)
  BY CommitRevocationFacts DEF Grounds
<1>2. Moves(s, t, "check") /\ view'[c] = g
  BY <1>1, CommitViews DEF Grounds
<1>3. OthersAlike(c, th) /\ OneActive(c) /\ StackViews(s, view[c].current, c, faults)
  BY <1>1 DEF AfterCommit, Grounds, Views
<1>4. /\ s \in Seq(Frames) /\ t \in Seq(Frames) /\ "check" \in Phases
      /\ \A u \in Threads : stack[c][u] \in Seq(Frames)
  BY <1>1 DEF Grounds, TypeOK, Phases
<1>5. Len(s) \in Nat /\ Len(s) \in 1 .. Len(s)
  BY <1>1, <1>4, LenProperties
<1>6. c \in Revokers
  BY <1>1, <1>3, <1>5 DEF StackViews
<1>7. view'[c].requests \subseteq pending'
  <2>1. g.requests = IF c \in Revokers THEN pending' ELSE {}
    BY GraphFields
  <2> HIDE DEF g
  <2> QED
    BY <1>2, <1>6, <2>1
<1>8. Len(s) \in ActiveAt(s)
  BY <1>1, <1>5 DEF ActiveAt, Settled
<1>9. ASSUME NEW u \in Threads, NEW i \in 1 .. Len(stack[c][u]), stack[c][u][i].op = "process",
             u # th \/ i # Len(s)
      PROVE  stack[c][u][i].ph \in Settled
  <2>1. \A i2 \in ActiveAt(stack[c][u]), j2 \in ActiveAt(stack[c][th]) : u = th /\ i2 = j2
    BY <1>3 DEF OneActive
  <2>2. i \notin ActiveAt(stack[c][u])
    BY <1>8, <1>9, <2>1
  <2> QED
    BY <1>9, <2>2 DEF ActiveAt
<1>10. ASSUME NEW u \in Threads PROVE Sound(c, u)'
  <2>1. CASE u = th
    <3>1. \A i \in 1 .. Len(s) : s[i].op = "process" /\ i # Len(s) => s[i].ph \in Settled
      BY <1>9
    <3>2. /\ Len(t) = Len(s) /\ t[Len(s)].ph = "check"
          /\ \A i \in 1 .. Len(s) - 1 : t[i] = s[i]
      <4> HIDE DEF s, t
      <4> QED
        BY <1>2, <1>4, MovesTop
    <3>3. \A i \in 1 .. Len(t) : i \in 1 .. Len(s) /\ (i \in 1 .. Len(s) - 1 \/ i = Len(s))
      BY <1>5, <3>2
    <3>4. \A i \in 1 .. Len(s) - 1 : i # Len(s)
      BY <1>5
    <3> HIDE DEF s, t
    <3>5. StackSound(t, th, pending', mishaps'[c])
      BY <3>1, <3>2, <3>3, <3>4 DEF StackSound, Settled
    <3> QED
      BY <2>1, <3>5 DEF t, Sound
  <2>2. CASE u # th
    <3>1. Alike(stack[c][u], stack'[c][u])
      BY <1>3, <2>2 DEF OthersAlike
    <3>2. \A i \in 1 .. Len(stack[c][u]) :
            stack[c][u][i].op = "process" => stack[c][u][i].ph \in Settled
      BY <1>9, <2>2
    <3> QED
      BY <3>1, <3>2 DEF Alike, Like, StackSound, Settled, Sound
  <2> QED
    BY <2>1, <2>2
<1>11. AtWork(c)'
  <2>1. InCheck(t) /\ t[Len(t)].op = "process"
    <3> HIDE DEF s, t
    <3> QED
      BY <1>1, <1>2, <1>4, MovesTop DEF InCheck
  <2> QED
    BY <2>1 DEF AtWork, Looks
<1> QED
  BY <1>6, <1>7, <1>10, <1>11 DEF Keeper

LEMMA StepSocket ==
  ASSUME Grounds, NEW c \in Clients, NEW th \in Threads, Step(c, th), faults' = 0,
         \A d \in Clients : SocketSound(d)
  PROVE  \A d \in Clients : SocketSound(d)'
<1>0. "socket" \in Threads /\ TypeOK /\ Shape /\ faults = 0
  BY DEF Threads, Grounds
<1>1. CASE CommitAction(c, th)
  <2>1. /\ \A d \in Clients : d # c => d \in notified'
        /\ \A d \in Clients, u \in Threads : Sound(d, u) => Sound(d, u)'
    BY <1>1, CommitActionKept
  <2>2. notified \subseteq notified'
    BY <1>0, <1>1, CommitActionFacts DEF AfterCommit
  <2> QED
    BY <1>0, <2>1, <2>2 DEF SocketSound
<1>2. CASE CommitRevocation(c, th)
  <2>1. Keeper(c)' /\ \A d \in Clients : d # c => d \in notified'
    BY <1>0, <1>2, CommitRevocationKept, CommitRevocationFacts DEF AfterCommit
  <2> QED
    BY <1>0, <2>1 DEF SocketSound, Keeper
<1>3. CASE Break(c, th) \/ Throw(c, th)
  BY <1>0, <1>3, BreakFacts, ThrowFacts
<1>4. CASE Quiet(c, th)
  <2>1. OnlyThread(c, th) /\ UNCHANGED <<pending, notified>> /\ \A d \in Clients : d # c => mishaps'[d] = mishaps[d]
    BY <1>0, <1>4, QuietFacts
  <2>2. \A d \in Clients : d # c => stack'[d]["socket"] = stack[d]["socket"]
    BY <1>0, <2>1 DEF OnlyThread
  <2>3. ASSUME NEW d \in Clients PROVE SocketSound(d)'
    <3>1. CASE d = c
      BY <1>4, <3>1, QuietSocket
    <3>2. CASE d # c
      BY <2>1, <2>2, <3>2 DEF SocketSound, Sound
    <3> QED
      BY <3>1, <3>2
  <2> QED
    BY <2>3
<1> QED
  BY <1>1, <1>2, <1>3, <1>4 DEF Step, Quiet

\* Whoever keeps the requests still does after a step, or the one who processed them;
\* or a request was dispatched directly, and everybody else knows of it.
LEMMA StepKept ==
  ASSUME Grounds, NEW c \in Clients, NEW th \in Threads, Step(c, th), faults' = 0,
         NEW k \in Clients, Keeper(k) \/ Left(k), \A d \in Clients : SocketSound(d)
  PROVE  \E e \in Clients : Keeper(e)' \/ Left(e)'
<1>0. Revokers \subseteq Clients /\ TypeOK /\ Shape /\ faults = 0
  BY RetryAssumption DEF Grounds
<1>1. CASE CommitAction(c, th)
  <2>1. /\ \A d \in Clients : d # c => d \in notified'
        /\ c \in direct \/ AtWork(c)'
    BY <1>1, CommitActionKept
  <2>2. /\ commits' = [commits EXCEPT ![c] = @ + 1] /\ commits \in [Clients -> 0 .. MaxCommits]
        /\ UNCHANGED direct
    BY <1>0, <1>1, CommitActionFacts DEF TypeOK
  <2>3. \A d \in Revokers \ {c} : Watch(d)'
    BY <1>0, <2>1 DEF Watch, AtWork
  <2>4. CASE c \in direct
    <3>1. commits'[c] = commits[c] + 1 /\ commits[c] \in Nat
      BY <2>2
    <3>2. commits'[c] > 0
      BY <3>1
    <3> QED
      BY <2>2, <2>3, <2>4, <3>2 DEF Left
  <2>5. CASE c \notin direct /\ Keeper(k)
    BY <1>1, <2>5, CommitActionKept
  <2>6. CASE c \notin direct /\ Left(k)
    <3>1. k # c /\ k \in direct' /\ commits'[k] > 0
      BY <2>2, <2>6 DEF Left
    <3>2. Watch(c)'
      BY <2>1, <2>6 DEF Watch
    <3>3. \A d \in Revokers \ {k} : Watch(d)'
      BY <2>3, <3>2
    <3> QED
      BY <3>1, <3>3 DEF Left
  <2> QED
    BY <2>4, <2>5, <2>6
<1>2. CASE CommitRevocation(c, th)
  BY <1>2, CommitRevocationKept
<1>3. CASE Break(c, th) \/ Throw(c, th)
  BY <1>0, <1>3, BreakFacts, ThrowFacts
<1>4. CASE Quiet(c, th)
  <2>1. /\ OnlyThread(c, th) /\ UNCHANGED <<pending, notified, direct, commits>>
        /\ \A d \in Clients : d # c => /\ view'[d] = view[d] /\ processing'[d] = processing[d]
                                       /\ mishaps'[d] = mishaps[d]
    BY <1>0, <1>4, QuietFacts
  <2>2. \A d \in Clients : d # c => \A u \in Threads : stack'[d][u] = stack[d][u]
    BY <2>1 DEF OnlyThread
  <2>3. \A d \in Clients : d # c => (Keeper(d) => Keeper(d)') /\ (Watch(d) => Watch(d)')
    BY <2>1, <2>2, KeptApart
  <2>4. CASE Keeper(k)
    BY <1>4, <2>3, <2>4, QuietKeeps
  <2>5. CASE Left(k)
    <3>1. ASSUME NEW d \in Revokers \ {k} PROVE Watch(d)'
      <4>1. Watch(d) /\ d \in Clients
        BY <1>0, <2>5 DEF Left
      <4>2. CASE d = c
        BY <1>4, <4>1, <4>2, QuietWatches
      <4> QED
        BY <2>3, <4>1, <4>2
    <3> QED
      BY <2>1, <2>5, <3>1 DEF Left
  <2> QED
    BY <2>4, <2>5
<1> QED
  BY <1>1, <1>2, <1>3, <1>4 DEF Step, Quiet

\* The client begins a dispatch: it has as much to do as before.
LEMMA StartKept ==
  ASSUME Grounds, NEW c \in Clients, UserAction(c) \/ SocketMessage(c)
  PROVE  /\ (Keeper(c) => Keeper(c)') /\ (Watch(c) => Watch(c)') /\ (SocketSound(c) => SocketSound(c)')
<1>0. "user" \in Threads /\ "socket" \in Threads /\ TypeOK /\ Shape
  BY DEF Threads, Grounds
<1>1. CASE UserAction(c)
  <2> DEFINE g == Frame("act", FALSE, view[c])
             t == stack'[c]["user"]
  <2>1. /\ OnlyThread(c, "user") /\ stack[c]["user"] = <<>> /\ t = <<g>>
        /\ UNCHANGED <<pending, view, processing, notified, mishaps, direct>>
    BY <1>0, <1>1, UserActionFacts DEF server
  <2>2. g.op = "act"
    BY DEF Frame
  <2> HIDE DEF g, t
  <2>3. Len(t) = 1 /\ t[1] = g /\ Len(<<>>) = 0
    BY <2>1, EmptySeq
  <2>4. StackSound(t, "user", pending, mishaps'[c])
    BY <2>2, <2>3 DEF StackSound
  <2>5. ~Looks(c, "user") /\ ~SessionSent(stack[c]["user"])
    BY <2>1, <2>3 DEF Looks, InCheck, SessionSent
  <2>6. AtWork(c) => AtWork(c)'
    BY <1>0, <2>1, <2>5, WorkKept
  <2>7. \A u \in Threads : Sound(c, u) => Sound(c, u)'
    BY <1>0, <2>1, <2>4, SoundBy DEF t
  <2> QED
    BY <1>0, <2>1, <2>6, <2>7 DEF Keeper, Watch, SocketSound, InVain
<1>2. CASE SocketMessage(c)
  <2> DEFINE t == stack'[c]["socket"]
  <2>1. /\ OnlyThread(c, "socket")
        /\ Len(t) = 2 /\ t[1].op = "message" /\ t[2].op = "session" /\ t[2].ph = "sent"
        /\ UNCHANGED <<pending, view, processing, mishaps>>
    BY <1>0, <1>2, SocketMessageFacts DEF server
  <2>2. StackSound(t, "socket", pending, mishaps'[c])
    <3>1. \A i \in 1 .. Len(t) : i = 1 \/ i = 2
      BY <2>1
    <3> QED
      BY <2>1, <3>1 DEF StackSound
  <2>3. AtWork(c)'
    BY <1>0, <2>1 DEF AtWork, SessionSent
  <2>4. \A u \in Threads : Sound(c, u) => Sound(c, u)'
    BY <1>0, <2>1, <2>2, SoundBy
  <2>5. Sound(c, "socket")'
    BY <2>1, <2>2 DEF Sound
  <2> QED
    BY <1>0, <2>1, <2>3, <2>4, <2>5 DEF Keeper, Watch, SocketSound
<1> QED
  BY <1>1, <1>2

LEMMA NextKept ==
  ASSUME TypeOK, Shape, \A d \in Clients : OneActive(d) /\ Told(d) /\ Views(d), Kept, [Next]_vars
  PROVE  Kept'
<1> SUFFICES ASSUME faults' = 0
             PROVE  /\ \A d \in Clients : SocketSound(d)'
                    /\ Revokers # {} => \E e \in Clients : Keeper(e)' \/ Left(e)'
  BY DEF Kept
<1>1. faults = 0
  <2>1. ASSUME NEW c \in Clients, NEW th \in Threads, Step(c, th) PROVE faults = 0
    <3>1. CASE CommitAction(c, th)
      BY <3>1, CommitActionFacts, CommitViews
    <3>2. CASE CommitRevocation(c, th)
      BY <3>2, CommitRevocationFacts, CommitViews
    <3>3. CASE Break(c, th) \/ Throw(c, th)
      BY <3>3, BreakFacts, ThrowFacts DEF TypeOK
    <3> QED
      BY <2>1, <3>1, <3>2, <3>3
         DEF Step, Outdated, Refuse, Session, Check, Retry, Failure, Result
  <2> QED
    BY <2>1 DEF Next, vars, UserAction, SocketMessage
<1>2. Grounds /\ \A d \in Clients : SocketSound(d)
  BY <1>1 DEF Grounds, Kept
<1>3. ASSUME NEW c \in Clients, UserAction(c) \/ SocketMessage(c)
      PROVE  /\ \A d \in Clients : SocketSound(d)'
             /\ \A k \in Clients : Keeper(k) \/ Left(k) => Keeper(k)' \/ Left(k)'
  <2>1. /\ UNCHANGED <<pending, view, processing, mishaps, direct, commits>>
        /\ \A d \in Clients : d # c => /\ d \in notified => d \in notified'
                                       /\ \A u \in Threads : stack'[d][u] = stack[d][u]
    BY <1>3, UserActionFacts, SocketMessageFacts DEF server, OnlyThread
  <2>2. \A d \in Clients : d # c => (Keeper(d) => Keeper(d)') /\ (Watch(d) => Watch(d)')
    BY <2>1, KeptApart
  <2>3. \A d \in Clients : (Keeper(d) => Keeper(d)') /\ (Watch(d) => Watch(d)')
    BY <1>2, <1>3, <2>2, StartKept
  <2>4. ASSUME NEW d \in Clients PROVE SocketSound(d)'
    <3>1. CASE d = c
      BY <1>2, <1>3, <3>1, StartKept
    <3>2. CASE d # c
      BY <1>2, <2>1, <3>2 DEF SocketSound, Sound, Threads
    <3> QED
      BY <3>1, <3>2
  <2>5. \A k \in Clients : Left(k) => Left(k)'
    BY <2>1, <2>3, RetryAssumption DEF Left
  <2> QED
    BY <2>3, <2>4, <2>5
<1>4. CASE UNCHANGED vars
  <2>1. /\ UNCHANGED <<pending, view, processing, stack, direct, notified, commits, mishaps>>
    BY <1>4 DEF vars, server
  <2>2. \A d \in Clients : (Keeper(d) => Keeper(d)') /\ (Watch(d) => Watch(d)')
    BY <2>1, KeptApart
  <2>3. \A k \in Clients : Left(k) => Left(k)'
    BY <2>1, <2>2, RetryAssumption DEF Left
  <2>4. \A d \in Clients : SocketSound(d)'
    BY <1>2, <2>1 DEF SocketSound, Sound
  <2> QED
    BY <1>1, <2>2, <2>3, <2>4 DEF Kept
<1>5. ASSUME NEW c \in Clients, NEW th \in Threads, Step(c, th)
      PROVE  /\ \A d \in Clients : SocketSound(d)'
             /\ Revokers # {} => \E e \in Clients : Keeper(e)' \/ Left(e)'
  <2>1. ASSUME Revokers # {} PROVE \E e \in Clients : Keeper(e)' \/ Left(e)'
    <3>1. PICK k \in Clients : Keeper(k) \/ Left(k)
      BY <1>1, <2>1 DEF Kept
    <3> QED
      BY <1>2, <1>5, <3>1, StepKept
  <2> QED
    BY <1>2, <1>5, <2>1, StepSocket
<1>7. CASE \E c \in Clients : UserAction(c) \/ SocketMessage(c)
  BY <1>1, <1>3, <1>7 DEF Kept
<1> QED
  BY <1>4, <1>5, <1>7 DEF Next

LEMMA InitKept ==
  ASSUME Init
  PROVE  Kept
<1>1. Len(<<>>) = 0 /\ \A i \in Nat : i \notin 1 .. 0
  BY EmptySeq
<1>2. \A c \in Clients : /\ view[c] = Graph(c, pending) /\ c \in notified
                         /\ \A u \in Threads : stack[c][u] = <<>>
  BY DEF Init
<1>3. \A c \in Clients : SocketSound(c) /\ AtWork(c) /\ \A u \in Threads : Sound(c, u)
  BY <1>1, <1>2 DEF AtWork, Sound, StackSound, SocketSound
<1>4. ASSUME NEW c \in Revokers PROVE Keeper(c)
  <2> DEFINE g == Graph(c, pending)
  <2>1. g.requests = IF c \in Revokers THEN pending ELSE {}
    BY GraphFields
  <2>2. c \in Clients
    BY RetryAssumption
  <2> HIDE DEF g
  <2>3. view[c].requests \subseteq pending
    BY <1>2, <2>1, <2>2 DEF g
  <2> QED
    BY <1>3, <2>2, <2>3 DEF Keeper
<1> QED
  BY <1>3, <1>4, RetryAssumption DEF Kept

-----------------------------------------------------------------------------
(* The theorems. *)

IInv ==
  TypeOK /\ Shape /\ (\A c \in Clients : OneActive(c) /\ Told(c) /\ Views(c)) /\ Kept

\* The dispatches of every client wait for one another in one order, one of them at most
\* processes the requests, and some client keeps what is pending from being forgotten,
\* or a request was dispatched directly and the other clients look at what it left
\* (dispatch of handler.ts, processRevocationRequestsIfNeeded).
THEOREM Inductive == Spec => []IInv
<1>1. Init => IInv
  BY InitActive, InitTold, InitViews, InitKept DEF IInv
<1>2. IInv /\ [Next]_vars => IInv'
  BY NextActive, NextTold, NextViews, NextKept DEF IInv
<1> QED
  BY <1>1, <1>2, PTL DEF Spec

\* The shape of the state, however deep dispatches are nested.
THEOREM RetryTyped == Spec => []TypeOK
<1>1. IInv => TypeOK
  BY DEF IInv
<1> QED
  BY <1>1, Inductive, PTL

\* isProcessingRevocationRequests says whether a dispatch of the client processes them,
\* and no two do at once: no failure that is dispatched leaves it set.  What the handler
\* throws is not dispatched, and leaves it set for good (awaited at handler.ts:534).
THEOREM ProcessingIsTrueAlways == Spec => []ProcessingIsTrue
<1>1. IInv => ProcessingIsTrue
  <2> SUFFICES ASSUME IInv, NEW c \in Clients
               PROVE  processing[c] <=>
                        \/ c \in jammed
                        \/ \E th \in Threads : \E i \in 1 .. Depth(c, th) :
                             stack[c][th][i].op = "process"
                             /\ stack[c][th][i].ph \notin {"revoking", "ok", "err"}
    BY DEF ProcessingIsTrue
  <2>1. processing[c] <=> c \in jammed \/ \E th \in Threads : ActiveAt(stack[c][th]) # {}
    BY DEF IInv, OneActive
  <2> QED
    BY <2>1 DEF ActiveAt, Settled, Depth
<1> QED
  BY <1>1, Inductive, PTL

\* The server commits an action of the user once, however often the client dispatches
\* it, unless it is dispatched in the place of an outdated revocation.
THEOREM OnceAlways == Spec => []OnceUnlessDisplaced
<1>1. IInv => OnceUnlessDisplaced
  <2> SUFFICES ASSUME IInv, NEW c \in Clients, commits[c] > 1, "displaced" \notin mishaps[c]
               PROVE  FALSE
    BY DEF OnceUnlessDisplaced
  <2>1. ToldOnce(stack[c]["user"], commits[c], reported[c]) /\ commits[c] \in Nat
    BY DEF IInv, Told, Tells, TypeOK
  <2> QED
    BY <2>1 DEF ToldOnce
<1> QED
  BY <1>1, Inductive, PTL

\* An action that the user is told has failed was not committed, unless its answer was
\* lost, a revocation on its way failed, or it was dispatched in the place of one.
THEOREM FailureIsTrueAlways == Spec => []FailureIsTrue
<1>1. IInv => FailureIsTrue
  <2> SUFFICES ASSUME IInv, NEW c \in Clients, reported[c] = "failed", commits[c] > 0,
                      mishaps[c] = {}
               PROVE  FALSE
    BY DEF FailureIsTrue
  <2>1. /\ Len(stack[c]["user"]) = 0
        /\ ToldTruly(stack[c]["user"], commits[c], reported[c])
    BY DEF IInv, Told, Tells
  <2> QED
    BY <2>1 DEF ToldTruly
<1> QED
  BY <1>1, Inductive, PTL

\* No pending request is left when every client is idle and no request failed, if some
\* client may revoke: there is one that keeps them, and it is not idle.  Unless the
\* user's action took the place of a revocation, and was refused; or was a direct
\* request, after which its client does not look (handler.ts:224-230), while all the
\* others that may revoke failed to.
THEOREM NoRequestForgottenAlways == Spec => []NoRequestForgotten
<1>1. IInv => NoRequestForgotten
  <2> SUFFICES ASSUME IInv, Idle, faults = 0, Revokers # {}, pending # {}
               PROVE  \/ \E c \in Clients : {"displaced", "revocation"} \subseteq mishaps[c]
                      \/ \E c \in direct : /\ commits[c] > 0
                                           /\ \A d \in Revokers \ {c} : "revocation" \in mishaps[d]
    BY DEF NoRequestForgotten
  <2>1. PICK c \in Clients : Keeper(c) \/ Left(c)
    BY DEF IInv, Kept
  <2>2. Len(<<>>) = 0 /\ \A i \in Nat : i \notin 1 .. 0
    BY EmptySeq
  <2>3. ASSUME NEW d \in Clients PROVE ~AtWork(d)
    <3>1. /\ d \notin notified /\ OneActive(d)
          /\ \A u \in Threads : stack[d][u] = <<>>
      BY DEF Idle, IInv
    <3>2. \A u \in Threads : ActiveAt(stack[d][u]) = {}
      BY <2>2, <3>1 DEF ActiveAt
    <3>3. \A u \in Threads : ~Looks(d, u) /\ ~SessionSent(stack[d][u])
      BY <2>2, <3>1 DEF Looks, InCheck, SessionSent
    <3> QED
      BY <3>1, <3>2, <3>3 DEF AtWork, OneActive
  <2>4. CASE Keeper(c)
    BY <2>3, <2>4 DEF Keeper, InVain
  <2>5. CASE Left(c)
    BY <2>3, <2>5, RetryAssumption DEF Left, Watch
  <2> QED
    BY <2>1, <2>4, <2>5
<1> QED
  BY <1>1, Inductive, PTL
=============================================================================

------------------------- MODULE RaidMirrorDiskProofs -------------------------
(***************************************************************************)
(* The mirror is one disk to the host: whatever its threads and its disks  *)
(* do, every step is a step of AtomicDisk or changes nothing that the host *)
(* sees.                                                                   *)
(***************************************************************************)
EXTENDS RaidMirrorDataProofs

-----------------------------------------------------------------------------
(* What the disks, the answers and the result of a read hold.              *)

(* The blocks of a command.                                                *)
Span(c) == c.lo .. c.hi

Apart(S, T) == S \cap T = {}

(* What f holds of some blocks is what they may hold for the host.         *)
Current(f) == \A b \in DOMAIN f : f[b] \in want[b]

(* A disk that is read from is up to date.                                 *)
ServedInv == \A s \in Unit : Phase(World, s) => Current(unit[s].data)

(* An answer that is good has nothing, or all that was asked for.          *)
Delivers(a) ==
  a.ok => /\ DOMAIN a.vals \in {{}, Span(a)} /\ a.xfer = Cardinality(DOMAIN a.vals)
          /\ Current(a.vals)

(* The blocks that a disk is still to read, and those of the answers on    *)
(* their way.                                                              *)
Asks(x) == UNION {Span(x.queue[i]) : i \in DOMAIN x.queue}
Answering(q) == UNION {Span(q[i].c) : i \in Done(q)}

(* For a read c, its result r, the answers q and the world w: every block  *)
(* was asked for at most once, and r has counted the blocks it has got.    *)
Exact(c, r, q, w) ==
  LET got == DOMAIN r.vals
  IN /\ r.xfer = Cardinality(got) /\ got \subseteq Span(c) /\ Apart(got, Answering(q))
     /\ Answering(q) \subseteq Span(c)
     /\ \A i, j \in Done(q) : i # j => Apart(Span(q[i].c), Span(q[j].c))
     /\ \A u \in Unit : /\ Len(w.unit[u].queue) <= 1 /\ Asks(w.unit[u]) \subseteq Span(c)
                        /\ Apart(Asks(w.unit[u]), got \cup Answering(q))
     /\ Apart(Asks(w.unit[0]), Asks(w.unit[1]))

(* Or there is one good answer to all of it, and r has it, or it is on its *)
(* way, or it will be given by the only good disk, which is not lost.      *)
Sure(c, r, q, w) ==
  \/ Span(c) \subseteq DOMAIN r.vals
  \/ \E i \in Done(q) : q[i].c.ok /\ Span(c) \subseteq DOMAIN q[i].c.vals
  \/ /\ w.raid.rs # "Good"
     /\ \E u \in Unit : /\ Phase(w, u)
                        /\ \E i \in DOMAIN w.unit[u].queue : Span(c) \subseteq Span(w.unit[u].queue[i])

Covered(c, r, q, w) == Exact(c, r, q, w) \/ Sure(c, r, q, w)

IsResult(r) == r = [ok |-> r.ok, xfer |-> r.xfer, vals |-> r.vals]

ReadInv ==
  cmd # NULL /\ cmd.op = "read" =>
    /\ IsResult(res) /\ Current(res.vals)
    /\ IF Queued("srb") THEN res = Fresh ELSE Covered(cmd, res, inbox, World)
    /\ \A i \in Done(inbox) : Delivers(inbox[i].c)
    /\ \A u \in Unit : /\ unit[u].pend = NULL
                       /\ \A i \in DOMAIN unit[u].queue : unit[u].queue[i].lo <= unit[u].queue[i].hi
    /\ \A s \in Unit : Phase(World, s) /\ Returned(World, s) => unit[Other(s)].queue = <<>>

DiskInv == CommandWanted /\ ServedInv /\ ReadInv

-----------------------------------------------------------------------------
(* The commands that wait for an answer.                                   *)

LEMMA NothingInNothing == DOMAIN <<>> = {} /\ Cardinality({}) = 0
<1>1. <<>> \in Seq({}) /\ Len(<<>>) = 0
  BY EmptySeq
<1>2. DOMAIN <<>> = 1 .. 0
  BY <1>1, LenProperties
<1> QED BY <1>2, FS_EmptySet

(* A command asks for as many blocks as lie between its ends.              *)
LEMMA SpanCounted ==
  ASSUME NEW c, c.lo \in Nat, c.hi \in Nat, c.lo <= c.hi
  PROVE  IsFiniteSet(Span(c)) /\ Cardinality(Span(c)) = c.hi - c.lo + 1
<1>1. c.lo \in Int /\ c.hi \in Int /\ ~(c.lo > c.hi)
  OBVIOUS
<1>2. IsFiniteSet(c.lo .. c.hi)
      /\ Cardinality(c.lo .. c.hi) = IF c.lo > c.hi THEN 0 ELSE c.hi - c.lo + 1
  BY <1>1, FS_Interval
<1> QED BY <1>1, <1>2 DEF Span

(* Entry e is added to the queue q of the worker, which becomes t.         *)
Grows(t, q, e) ==
  LET n == Len(q) + 1
  IN /\ \A i \in Done(q) : i \in Done(t) /\ t[i] = q[i] /\ i # n
     /\ \A i \in Done(t) : i \in Done(q) \/ (i = n /\ t[i] = e /\ e.k = "done")
     /\ e.k = "done" => n \in Done(t) /\ t[n] = e
     /\ Answering(t) = IF e.k = "done" THEN Answering(q) \cup Span(e.c) ELSE Answering(q)

(* An entry is added to the queue of the worker.                           *)
LEMMA AnsweringAdded ==
  ASSUME NEW q, IsQueue(q), NEW e
  PROVE  Grows(Append(q, e), q, e)
<1> DEFINE t == Append(q, e)
           n == Len(q) + 1
<1>1. /\ \A i \in DOMAIN q : i \in DOMAIN t /\ t[i] = q[i]
      /\ \A i \in DOMAIN t : i \in DOMAIN q \/ (i = n /\ t[i] = e)
      /\ n \in DOMAIN t /\ t[n] = e
  BY Appended
<1>2. n \notin DOMAIN q
  <2>1. PICK S : q \in Seq(S)
    BY DEF IsQueue
  <2>2. DOMAIN q = 1 .. Len(q) /\ Len(q) \in Nat
    BY <2>1, LenProperties
  <2> QED BY <2>2
<1> HIDE DEF t, n
<1>3. /\ \A i \in Done(q) : i \in Done(t) /\ t[i] = q[i] /\ i # n
      /\ \A i \in Done(t) : i \in Done(q) \/ (i = n /\ t[i] = e /\ e.k = "done")
      /\ e.k = "done" => n \in Done(t) /\ t[n] = e
  BY <1>1, <1>2 DEF Done
<1>4. Answering(t) = IF e.k = "done" THEN Answering(q) \cup Span(e.c) ELSE Answering(q)
  BY <1>3 DEF Answering
<1> QED BY <1>3, <1>4 DEF t, n, Grows

(* The worker takes an entry from its queue.                               *)
LEMMA AnsweringTaken ==
  ASSUME NEW q, IsQueue(q), q # <<>>
  PROVE  LET t == Tail(q)
         IN  /\ \A i \in Done(t) : i \in Nat /\ i # 0 /\ i + 1 \in Done(q) /\ t[i] = q[i + 1]
             /\ \A i \in Done(q) : i # 1 => i - 1 \in Done(t) /\ t[i - 1] = q[i]
             /\ q[1] = Head(q) /\ (Head(q).k = "done" <=> 1 \in Done(q))
             /\ Answering(q) = IF Head(q).k = "done" THEN Answering(t) \cup Span(Head(q).c)
                                                     ELSE Answering(t)
<1> DEFINE t == Tail(q)
<1>1. /\ 1 \in DOMAIN q /\ q[1] = Head(q)
      /\ \A i \in DOMAIN t : i \in Nat /\ i # 0 /\ i + 1 \in DOMAIN q /\ t[i] = q[i + 1]
      /\ \A i \in DOMAIN q : i # 1 => i - 1 \in DOMAIN t /\ t[i - 1] = q[i]
  BY Tailed
<1> HIDE DEF t
<1>2. /\ \A i \in Done(t) : i \in Nat /\ i # 0 /\ i + 1 \in Done(q) /\ t[i] = q[i + 1]
      /\ \A i \in Done(q) : i # 1 => i - 1 \in Done(t) /\ t[i - 1] = q[i]
      /\ q[1] = Head(q) /\ (Head(q).k = "done" <=> 1 \in Done(q))
  BY <1>1 DEF Done
<1>3. Answering(q) = IF Head(q).k = "done" THEN Answering(t) \cup Span(Head(q).c) ELSE Answering(t)
  <2> DEFINE A == IF Head(q).k = "done" THEN Answering(t) \cup Span(Head(q).c) ELSE Answering(t)
  <2>1. ASSUME NEW i \in Done(q) PROVE Span(q[i].c) \subseteq A
    <3>1. CASE i = 1
      BY <1>2, <2>1, <3>1
    <3>2. CASE i # 1
      <4>1. i - 1 \in Done(t) /\ t[i - 1] = q[i]
        BY <1>2, <2>1, <3>2
      <4> QED BY <4>1 DEF Answering
    <3> QED BY <3>1, <3>2
  <2>2. ASSUME NEW i \in Done(t) PROVE Span(t[i].c) \subseteq Answering(q)
    <3>1. i + 1 \in Done(q) /\ t[i] = q[i + 1]
      BY <1>2, <2>2
    <3> QED BY <3>1 DEF Answering
  <2>3. Head(q).k = "done" => Span(Head(q).c) \subseteq Answering(q)
    BY <1>2 DEF Answering
  <2>4. Answering(t) \subseteq Answering(q)
    BY <2>2 DEF Answering
  <2>5. Answering(q) \subseteq A
    <3> HIDE DEF A
    <3> QED BY <2>1 DEF Answering
  <2> QED BY <2>3, <2>4, <2>5
<1> QED BY <1>2, <1>3 DEF t

(* A disk with at most one command in its queue.                           *)
LEMMA AsksOf ==
  ASSUME NEW x, IsQueue(x.queue)
  PROVE  /\ x.queue = <<>> => Asks(x) = {} /\ Len(x.queue) = 0
         /\ x.queue # <<>> /\ Len(x.queue) <= 1 =>
              Asks(x) = Span(Head(x.queue)) /\ Tail(x.queue) = <<>>
<1>1. CASE x.queue = <<>>
  BY <1>1, NothingInNothing, EmptySeq DEF Asks
<1>2. CASE x.queue # <<>> /\ Len(x.queue) <= 1
  <2>1. PICK S : x.queue \in Seq(S)
    BY DEF IsQueue
  <2>2. DOMAIN x.queue = 1 .. Len(x.queue) /\ Len(x.queue) \in Nat
    BY <2>1, LenProperties
  <2>3. 1 \in DOMAIN x.queue /\ x.queue[1] = Head(x.queue) /\ Tail(x.queue) = <<>>
    BY <1>2, Tailed
  <2>4. DOMAIN x.queue = {1}
    BY <1>2, <2>2, <2>3
  <2> QED BY <2>3, <2>4 DEF Asks
<1> QED BY <1>1, <1>2

-----------------------------------------------------------------------------
(* What was asked of the disks covers the read.                            *)

(* A world in which nothing more is asked, and the only good disk stays.   *)
CarriedOn(v, w) ==
  w.raid.rs # "Good" => v.raid.rs # "Good" /\ \A u \in Unit : Phase(w, u) => Phase(v, u)

(* The answers of q are those of p, n places further on.                   *)
Moved(p, q, n) ==
  /\ \A i \in Done(p) : i \in Int /\ i + n \in Done(q) /\ p[i] = q[i + n]
  /\ \A i \in Done(q) : i \in Int /\ i - n \in Done(p) /\ p[i - n] = q[i]

(* A read stays covered when the worker takes an entry that is no answer,  *)
(* and when the world carries on with the same queues.                     *)
LEMMA CoverKept ==
  ASSUME NEW c, NEW r, NEW q, IsQueue(q), NEW p,
         p = q \/ (q # <<>> /\ p = Tail(q) /\ Head(q).k # "done"),
         NEW w, NEW v, CarriedOn(v, w), \A u \in Unit : v.unit[u].queue = w.unit[u].queue,
         Covered(c, r, q, w)
  PROVE  Covered(c, r, p, v)
<1>1. Answering(p) = Answering(q)
  BY AnsweringTaken
<1>2. PICK n \in Int : Moved(p, q, n)
  <2>1. \A i \in Done(q) : i \in Int
    <3>1. PICK S : q \in Seq(S)
      BY DEF IsQueue
    <3>2. DOMAIN q = 1 .. Len(q) /\ Len(q) \in Nat
      BY <3>1, LenProperties
    <3> QED BY <3>2 DEF Done
  <2>2. CASE p = q
    <3>1. \A i \in Done(q) : i + 0 = i /\ i - 0 = i
      BY <2>1
    <3>2. Moved(p, q, 0)
      BY <2>1, <2>2, <3>1 DEF Moved
    <3> QED BY <3>2
  <2>3. CASE q # <<>> /\ p = Tail(q) /\ Head(q).k # "done"
    <3> DEFINE t == Tail(q)
    <3>1. /\ \A i \in Done(t) : i \in Nat /\ i # 0 /\ i + 1 \in Done(q) /\ t[i] = q[i + 1]
          /\ \A i \in Done(q) : i # 1 => i - 1 \in Done(t) /\ t[i - 1] = q[i]
          /\ Head(q).k = "done" <=> 1 \in Done(q)
      BY <2>3, AnsweringTaken
    <3> HIDE DEF t
    <3>3. Moved(t, q, 1)
      BY <2>1, <2>3, <3>1 DEF Moved
    <3>2. Moved(p, q, 1)
      BY <2>3, <3>3 DEF t
    <3> QED BY <3>2
  <2> QED BY <2>2, <2>3
<1>3. \A u \in Unit : Asks(v.unit[u]) = Asks(w.unit[u])
  BY DEF Asks
<1>4. CASE Exact(c, r, q, w)
  <2>1. \A i, j \in Done(q) : i # j => Apart(Span(q[i].c), Span(q[j].c))
    BY <1>4 DEF Exact
  <2>2. \A i, j \in Done(p) : i # j => Apart(Span(p[i].c), Span(p[j].c))
    <3> SUFFICES ASSUME NEW i \in Done(p), NEW j \in Done(p), i # j
                 PROVE  Apart(Span(p[i].c), Span(p[j].c))
      OBVIOUS
    <3>1. /\ i \in Int /\ i + n \in Done(q) /\ p[i] = q[i + n]
          /\ j \in Int /\ j + n \in Done(q) /\ p[j] = q[j + n]
      BY <1>2 DEF Moved
    <3>2. i + n # j + n
      BY <3>1
    <3> QED BY <2>1, <3>1, <3>2
  <2> QED BY <1>1, <1>3, <1>4, <2>2 DEF Exact, Covered, Unit
<1>5. CASE Sure(c, r, q, w)
  <2>1. CASE Span(c) \subseteq DOMAIN r.vals
    BY <2>1 DEF Sure, Covered
  <2>2. ASSUME NEW i \in Done(q), q[i].c.ok, Span(c) \subseteq DOMAIN q[i].c.vals
        PROVE  Covered(c, r, p, v)
    <3>1. i - n \in Done(p) /\ p[i - n] = q[i]
      BY <1>2, <2>2 DEF Moved
    <3> QED BY <2>2, <3>1 DEF Sure, Covered
  <2>3. ASSUME w.raid.rs # "Good", NEW u \in Unit, Phase(w, u), NEW i \in DOMAIN w.unit[u].queue,
               Span(c) \subseteq Span(w.unit[u].queue[i])
        PROVE  Covered(c, r, p, v)
    <3>1. v.raid.rs # "Good" /\ Phase(v, u) /\ v.unit[u].queue = w.unit[u].queue
      BY <2>3 DEF CarriedOn
    <3> QED BY <2>3, <3>1 DEF Sure, Covered
  <2> QED BY <1>5, <2>1, <2>2, <2>3 DEF Sure
<1> QED BY <1>4, <1>5 DEF Covered

(* The worker adds a good answer to the result.                            *)
LEMMA CoverMerged ==
  ASSUME NEW c, IsFiniteSet(Span(c)), NEW r, NEW m, NEW q, IsQueue(q), q # <<>>,
         Head(q).k = "done", NEW a, a = Head(q).c, a.ok,
         DOMAIN a.vals \in {{}, Span(a)}, a.xfer = Cardinality(DOMAIN a.vals),
         DOMAIN m.vals = DOMAIN r.vals \cup DOMAIN a.vals, m.xfer = r.xfer + a.xfer,
         NEW w, Covered(c, r, q, w)
  PROVE  Covered(c, m, Tail(q), w)
<1> DEFINE t == Tail(q)
           got == DOMAIN r.vals
           new == DOMAIN a.vals
<1>1. /\ \A i \in Done(t) : i \in Nat /\ i # 0 /\ i + 1 \in Done(q) /\ t[i] = q[i + 1]
      /\ \A i \in Done(q) : i # 1 => i - 1 \in Done(t) /\ t[i - 1] = q[i]
      /\ q[1].c = a /\ 1 \in Done(q)
      /\ Answering(q) = Answering(t) \cup Span(a)
  BY AnsweringTaken
<1> HIDE DEF t
<1>2. new \subseteq Span(a)
  OBVIOUS
<1>3. CASE Exact(c, r, q, w)
  <2>1. /\ r.xfer = Cardinality(got) /\ got \subseteq Span(c) /\ Apart(got, Answering(q))
        /\ Answering(q) \subseteq Span(c)
        /\ \A i, j \in Done(q) : i # j => Apart(Span(q[i].c), Span(q[j].c))
        /\ \A u \in Unit : /\ Len(w.unit[u].queue) <= 1 /\ Asks(w.unit[u]) \subseteq Span(c)
                           /\ Apart(Asks(w.unit[u]), got \cup Answering(q))
        /\ Apart(Asks(w.unit[0]), Asks(w.unit[1]))
    BY <1>3 DEF Exact
  <2>2. Apart(Span(a), Answering(t))
    <3>1. ASSUME NEW i \in Done(t) PROVE Span(a) \cap Span(t[i].c) = {}
      <4>1. i + 1 \in Done(q) /\ t[i] = q[i + 1] /\ i + 1 # 1
        BY <1>1, <3>1
      <4> QED BY <1>1, <2>1, <4>1 DEF Apart
    <3> QED BY <3>1 DEF Apart, Answering
  <2>3. \A i, j \in Done(t) : i # j => Apart(Span(t[i].c), Span(t[j].c))
    <3> SUFFICES ASSUME NEW i \in Done(t), NEW j \in Done(t), i # j
                 PROVE  Apart(Span(t[i].c), Span(t[j].c))
      OBVIOUS
    <3>1. i + 1 \in Done(q) /\ j + 1 \in Done(q) /\ i + 1 # j + 1 /\ t[i] = q[i + 1] /\ t[j] = q[j + 1]
      BY <1>1
    <3> QED BY <2>1, <3>1
  <2>4. m.xfer = Cardinality(got \cup new)
    <3>1. got \in SUBSET Span(c) /\ new \in SUBSET Span(c) /\ got \cap new = {}
      BY <1>1, <1>2, <2>1 DEF Apart
    <3>2. IsFiniteSet(got) /\ IsFiniteSet(new)
      BY <3>1, FS_Subset
    <3>3. Cardinality(got \cap new) = 0
      BY <3>1, FS_EmptySet
    <3>4. Cardinality(got) \in Nat /\ Cardinality(new) \in Nat
      BY <3>2, FS_CardinalityType
    <3>5. Cardinality(got \cup new) = Cardinality(got) + Cardinality(new) - Cardinality(got \cap new)
      BY <3>2, FS_Union
    <3> HIDE DEF got, new
    <3> QED BY <2>1, <3>3, <3>4, <3>5 DEF new
  <2>5. /\ got \cup new \subseteq Span(c) /\ Apart(got \cup new, Answering(t))
        /\ Answering(t) \subseteq Span(c)
        /\ \A u \in Unit : Apart(Asks(w.unit[u]), (got \cup new) \cup Answering(t))
    BY <1>1, <1>2, <2>1, <2>2 DEF Apart
  <2>6. Exact(c, m, t, w)
    BY <2>1, <2>3, <2>4, <2>5 DEF Exact
  <2> QED BY <2>6 DEF Covered, t
<1>4. CASE Sure(c, r, q, w)
  <2>1. CASE Span(c) \subseteq DOMAIN r.vals
    BY <2>1 DEF Sure, Covered
  <2>2. ASSUME NEW i \in Done(q), q[i].c.ok, Span(c) \subseteq DOMAIN q[i].c.vals
        PROVE  Sure(c, m, t, w)
    <3>1. CASE i = 1
      BY <1>1, <2>2, <3>1 DEF Sure
    <3>2. CASE i # 1
      BY <1>1, <2>2, <3>2 DEF Sure
    <3> QED BY <3>1, <3>2
  <2>3. CASE /\ w.raid.rs # "Good"
             /\ \E u \in Unit : /\ Phase(w, u)
                                /\ \E i \in DOMAIN w.unit[u].queue : Span(c) \subseteq Span(w.unit[u].queue[i])
    BY <2>3 DEF Sure, Covered
  <2> QED BY <1>4, <2>1, <2>2, <2>3 DEF Sure, Covered, t
<1> QED BY <1>3, <1>4 DEF Covered

(* A disk answers the first of its commands.                               *)
LEMMA CoverAnswered ==
  ASSUME NEW c, NEW r, NEW q, IsQueue(q), NEW e, e.k = "done", NEW u \in Unit,
         NEW w, IsQueue(w.unit[u].queue), w.unit[u].queue # <<>>,
         NEW v, v.unit[u].queue = Tail(w.unit[u].queue),
         \A k \in Unit : k # u => v.unit[k].queue = w.unit[k].queue,
         CarriedOn(v, w), Span(e.c) = Span(Head(w.unit[u].queue)),
         Phase(w, u) => e.c.ok /\ DOMAIN e.c.vals = Span(e.c),
         Covered(c, r, q, w)
  PROVE  Covered(c, r, Append(q, e), v)
<1> DEFINE t == Append(q, e)
           n == Len(q) + 1
           x == w.unit[u]
<1>a. Grows(t, q, e)
  BY AnsweringAdded
<1> HIDE DEF t
<1>1. /\ \A i \in Done(q) : i \in Done(t) /\ t[i] = q[i] /\ i # n
      /\ \A i \in Done(t) : i \in Done(q) \/ (i = n /\ t[i] = e)
      /\ n \in Done(t) /\ t[n] = e
      /\ Answering(t) = Answering(q) \cup Span(e.c)
  BY <1>a DEF Grows
<1> HIDE DEF n
<1>2. \A k \in Unit : k # u => Asks(v.unit[k]) = Asks(w.unit[k])
  BY DEF Asks
<1>3. CASE Exact(c, r, q, w)
  <2> DEFINE got == DOMAIN r.vals
  <2>1. /\ r.xfer = Cardinality(got) /\ got \subseteq Span(c) /\ Apart(got, Answering(q))
        /\ Answering(q) \subseteq Span(c)
        /\ \A i, j \in Done(q) : i # j => Apart(Span(q[i].c), Span(q[j].c))
        /\ \A k \in Unit : /\ Len(w.unit[k].queue) <= 1 /\ Asks(w.unit[k]) \subseteq Span(c)
                           /\ Apart(Asks(w.unit[k]), got \cup Answering(q))
        /\ Apart(Asks(w.unit[0]), Asks(w.unit[1]))
    BY <1>3 DEF Exact
  <2> HIDE DEF got
  <2>2. Asks(x) = Span(e.c) /\ Tail(x.queue) = <<>>
    BY <2>1, AsksOf
  <2>3. Asks(v.unit[u]) = {} /\ Len(v.unit[u].queue) = 0
    BY <2>2, NothingInNothing, EmptySeq DEF Asks
  <2>4. \A k \in Unit : k # u => Apart(Asks(w.unit[k]), Span(e.c))
    BY <2>1, <2>2 DEF Unit, Apart
  <2>5. /\ Apart(got, Answering(t)) /\ Answering(t) \subseteq Span(c)
        /\ Apart(Answering(q), Span(e.c))
    BY <1>1, <2>1, <2>2 DEF Apart
  <2>6. \A i \in Done(q) : Apart(Span(q[i].c), Span(e.c))
    BY <2>5 DEF Answering, Apart
  <2>7. \A i, j \in Done(t) : i # j => Apart(Span(t[i].c), Span(t[j].c))
    <3> SUFFICES ASSUME NEW i \in Done(t), NEW j \in Done(t), i # j
                 PROVE  Apart(Span(t[i].c), Span(t[j].c))
      OBVIOUS
    <3>1. CASE i = n
      BY <1>1, <2>6, <3>1 DEF Apart
    <3>2. CASE j = n
      BY <1>1, <2>6, <3>2 DEF Apart
    <3>3. CASE i # n /\ j # n
      BY <1>1, <2>1, <3>3
    <3> QED BY <3>1, <3>2, <3>3
  <2>8. \A k \in Unit : /\ Len(v.unit[k].queue) <= 1 /\ Asks(v.unit[k]) \subseteq Span(c)
                        /\ Apart(Asks(v.unit[k]), got \cup Answering(t))
    <3> SUFFICES ASSUME NEW k \in Unit
                 PROVE  /\ Len(v.unit[k].queue) <= 1 /\ Asks(v.unit[k]) \subseteq Span(c)
                        /\ Apart(Asks(v.unit[k]), got \cup Answering(t))
      OBVIOUS
    <3>1. CASE k = u
      <4>1. Len(v.unit[k].queue) = 0
        BY <2>3, <3>1
      <4>3. 0 <= 1
        OBVIOUS
      <4>2. Asks(v.unit[k]) = {}
        BY <2>3, <3>1
      <4> QED BY <4>1, <4>2, <4>3 DEF Apart
    <3>2. CASE k # u
      <4>1. v.unit[k].queue = w.unit[k].queue /\ Asks(v.unit[k]) = Asks(w.unit[k])
        BY <1>2, <3>2
      <4>2. Apart(Asks(w.unit[k]), got \cup Answering(t))
        BY <1>1, <2>1, <2>4, <3>2 DEF Apart
      <4> QED BY <2>1, <4>1, <4>2
    <3> QED BY <3>1, <3>2
  <2>9. Apart(Asks(v.unit[0]), Asks(v.unit[1]))
    BY <1>2, <2>1, <2>3 DEF Unit, Apart
  <2>10. Exact(c, r, t, v)
    BY <2>1, <2>5, <2>7, <2>8, <2>9 DEF Exact, got
  <2> QED BY <2>10 DEF Covered, t
<1>4. CASE Sure(c, r, q, w)
  <2>1. CASE Span(c) \subseteq DOMAIN r.vals
    BY <2>1 DEF Sure, Covered
  <2>2. ASSUME NEW i \in Done(q), q[i].c.ok, Span(c) \subseteq DOMAIN q[i].c.vals
        PROVE  Sure(c, r, t, v)
    BY <1>1, <2>2 DEF Sure
  <2>3. ASSUME w.raid.rs # "Good", NEW k \in Unit, Phase(w, k), NEW i \in DOMAIN w.unit[k].queue,
               Span(c) \subseteq Span(w.unit[k].queue[i])
        PROVE  Sure(c, r, t, v)
    <3>1. v.raid.rs # "Good" /\ Phase(v, k)
      BY <2>3 DEF CarriedOn
    <3>2. CASE k # u
      BY <2>3, <3>1, <3>2 DEF Sure
    <3>3. CASE k = u /\ i = 1
      <4>1. w.unit[k].queue[i] = Head(x.queue)
        BY <3>3, Tailed
      <4>2. Span(c) \subseteq Span(e.c) /\ e.c.ok /\ DOMAIN e.c.vals = Span(e.c)
        BY <2>3, <3>3, <4>1
      <4> QED BY <1>1, <4>2 DEF Sure
    <3>4. CASE k = u /\ i # 1
      <4>1. i - 1 \in DOMAIN Tail(x.queue) /\ Tail(x.queue)[i - 1] = x.queue[i]
        BY <2>3, <3>4, Tailed
      <4> QED BY <2>3, <3>1, <3>4, <4>1 DEF Sure
    <3> QED BY <3>2, <3>3, <3>4
  <2> QED BY <1>4, <2>1, <2>2, <2>3 DEF Sure, Covered, t
<1> QED BY <1>3, <1>4 DEF Covered

(* Nothing is on its way any more, and as many blocks were counted as were *)
(* asked for: all of them were read.                                       *)
LEMMA CoverFull ==
  ASSUME NEW c, IsFiniteSet(Span(c)), NEW r, NEW q, Done(q) = {}, NEW w,
         \A u \in Unit : w.unit[u].queue = <<>>, r.xfer >= Cardinality(Span(c)),
         Covered(c, r, q, w)
  PROVE  Span(c) \subseteq DOMAIN r.vals
<1>1. CASE Exact(c, r, q, w)
  <2> DEFINE got == DOMAIN r.vals
  <2>1. got \subseteq Span(c) /\ r.xfer = Cardinality(got)
    BY <1>1 DEF Exact
  <2> HIDE DEF got
  <2>2. /\ IsFiniteSet(got) /\ Cardinality(got) <= Cardinality(Span(c))
        /\ Cardinality(got) = Cardinality(Span(c)) => got = Span(c)
    <3>1. got \in SUBSET Span(c)
      BY <2>1
    <3> QED BY <3>1, FS_Subset
  <2>3. Cardinality(got) \in Nat /\ Cardinality(Span(c)) \in Nat
    BY <2>2, FS_CardinalityType
  <2>4. Cardinality(got) = Cardinality(Span(c))
    BY <2>1, <2>2, <2>3
  <2> QED BY <2>2, <2>4 DEF got
<1>2. CASE Sure(c, r, q, w)
  BY <1>2, NothingInNothing DEF Sure
<1> QED BY <1>1, <1>2 DEF Covered

(* The parts of a read: in order, within it, and apart from each other.    *)
Parted(to) ==
  /\ \A u \in Unit : to[u] # NULL => to[u].lo <= to[u].hi /\ Span(to[u]) \subseteq Span(cmd)
  /\ to[0] # NULL /\ to[1] # NULL => Apart(Span(to[0]), Span(to[1]))

(* All of the command.                                                     *)
Whole(c) == c # NULL /\ Span(c) = Span(cmd)

(* planRead splits a read between two good disks into parts that have no   *)
(* block in common, and asks the one good disk for all of it otherwise.    *)
LEMMA ReadPlanned ==
  ASSUME cmd \in Asked, cmd.lo <= cmd.hi, NEW w
  PROVE  /\ Parted(PlanRead(w))
         /\ \A s \in Unit : (\A u \in Unit : Usable(w, u) /\ Good(w, u) <=> u = s) => Whole(PlanRead(w)[s])
<1> DEFINE to == PlanRead(w)
           usable == {u \in Unit : Usable(w, u) /\ Good(w, u)}
           first == CHOOSE u \in usable : 0 \in usable => u = 0
           lo == cmd.lo
           hi == cmd.hi
           half == (hi - lo + 1) \div 2
           part(l, h) == Command("read", l, h, 0)
           both == [u \in Unit |-> IF u = 0 THEN part(lo, lo + half - 1) ELSE part(lo + half, hi)]
           one == [u \in Unit |-> IF usable # {} /\ u = first THEN part(lo, hi) ELSE NULL]
<1>1. lo \in Int /\ hi \in Int /\ lo <= hi
  <2>1. lo \in Block /\ hi \in Block
    BY DEF Asked
  <2>2. lo \in Nat /\ hi \in Nat
    BY <2>1, Numbers
  <2> QED BY <2>2
<1>2. half \in Int /\ half <= hi - lo
  BY <1>1
<1>3. to = IF usable = Unit /\ half > 0 THEN both ELSE one
  BY DEF PlanRead
<1>4. \A l, h : part(l, h).lo = l /\ part(l, h).hi = h /\ Span(part(l, h)) = l .. h
  BY DEF Command, Span
<1>5. \A s \in Unit : (\A u \in Unit : Usable(w, u) /\ Good(w, u) <=> u = s) => usable = {s}
  OBVIOUS
<1>6. part(lo, hi) # NULL
  <2>1. part(lo, hi) \in Answer({})
    <3>1. <<>> \in [{} -> Int]
      OBVIOUS
    <3> QED BY <1>1, <3>1 DEF Command, Answer
  <2> QED BY <2>1, CommandIsNotNull
<1>7. 0 \in Unit /\ 1 \in Unit /\ 0 # 1 /\ \A u \in Unit : u = 0 \/ u = 1
  BY DEF Unit
<1> HIDE DEF to, usable, half, part
<1>8. CASE usable = Unit /\ half > 0
  <2>1. to[0] = part(lo, lo + half - 1) /\ to[1] = part(lo + half, hi)
    BY <1>3, <1>7, <1>8
  <2> HIDE DEF lo, hi
  <2>2. /\ Span(to[0]) = lo .. (lo + half - 1) /\ to[0].lo = lo /\ to[0].hi = lo + half - 1
        /\ Span(to[1]) = (lo + half) .. hi /\ to[1].lo = lo + half /\ to[1].hi = hi
    BY <1>4, <2>1
  <2>3. lo <= lo + half - 1 /\ lo + half <= hi
    BY <1>1, <1>2, <1>8
  <2>4. /\ lo .. (lo + half - 1) \subseteq lo .. hi /\ (lo + half) .. hi \subseteq lo .. hi
        /\ Apart(lo .. (lo + half - 1), (lo + half) .. hi)
    BY <1>1, <1>2, <1>8 DEF Apart
  <2>5. \A u \in Unit : to[u].lo <= to[u].hi /\ Span(to[u]) \subseteq lo .. hi
    BY <1>7, <2>2, <2>3, <2>4
  <2>6. Parted(to)
    BY <2>2, <2>4, <2>5 DEF Parted, Span, lo, hi
  <2>7. \A s \in Unit : usable # {s}
    BY <1>7, <1>8
  <2> QED BY <1>5, <2>6, <2>7 DEF to
<1>9. CASE ~(usable = Unit /\ half > 0)
  <2>1. \A u \in Unit : to[u] = IF usable # {} /\ u = first THEN part(lo, hi) ELSE NULL
    BY <1>3, <1>9
  <2> HIDE DEF first
  <2>2. Parted(to)
    <3>1. \A u \in Unit : to[u] # NULL => u = first /\ to[u] = part(lo, hi)
      BY <2>1
    <3>2. ~(to[0] # NULL /\ to[1] # NULL)
      BY <1>7, <3>1
    <3>3. part(lo, hi).lo <= part(lo, hi).hi /\ Span(part(lo, hi)) = Span(cmd)
      BY <1>1, <1>4 DEF Span
    <3> QED BY <3>1, <3>2, <3>3 DEF Parted
  <2>3. ASSUME NEW s \in Unit, usable = {s}
        PROVE  Whole(to[s])
    <3>1. first = s
      BY <2>3 DEF first
    <3>2. to[s] = part(lo, hi)
      BY <2>1, <2>3, <3>1
    <3> QED BY <1>4, <1>6, <3>2 DEF Whole, Span
  <2> QED BY <1>5, <2>2, <2>3 DEF to
<1> QED BY <1>8, <1>9

(* The parts of the read are sent, and nothing else is under way.          *)
LEMMA CoverStart ==
  ASSUME NEW q, Done(q) = {}, NEW to, Parted(to), NEW w,
         \A u \in Unit : w.unit[u].queue = IF to[u] # NULL THEN Append(<<>>, to[u]) ELSE <<>>
  PROVE  /\ Exact(cmd, Fresh, q, w)
         /\ \A u \in Unit : \A i \in DOMAIN w.unit[u].queue :
              w.unit[u].queue[i].lo <= w.unit[u].queue[i].hi
<1> DEFINE Q(u) == w.unit[u].queue
<1>1. \A u \in Unit : IF to[u] # NULL
                      THEN Len(Q(u)) = 1 /\ DOMAIN Q(u) = {1} /\ Q(u)[1] = to[u]
                      ELSE Len(Q(u)) = 0 /\ DOMAIN Q(u) = {}
  <2> SUFFICES ASSUME NEW u \in Unit
               PROVE  IF to[u] # NULL
                      THEN Len(Q(u)) = 1 /\ DOMAIN Q(u) = {1} /\ Q(u)[1] = to[u]
                      ELSE Len(Q(u)) = 0 /\ DOMAIN Q(u) = {}
    OBVIOUS
  <2>1. CASE to[u] = NULL
    BY <2>1, NothingInNothing, EmptySeq
  <2>2. CASE to[u] # NULL
    <3> DEFINE e == to[u]
               t == Append(<<>>, e)
    <3>1. <<>> \in Seq({e}) /\ Len(<<>>) = 0 /\ e \in {e}
      BY EmptySeq
    <3>2. t \in Seq({e}) /\ Len(t) = 1 /\ t[1] = e
      BY <3>1, AppendProperties
    <3>3. DOMAIN t = 1 .. 1
      BY <3>2, LenProperties
    <3>4. DOMAIN t = {1}
      BY <3>3
    <3>5. Q(u) = t
      BY <2>2
    <3> HIDE DEF t, e, Q
    <3> QED BY <2>2, <3>2, <3>4, <3>5 DEF e
  <2> QED BY <2>1, <2>2
<1> HIDE DEF Q
<1>2. \A u \in Unit : Asks(w.unit[u]) = IF to[u] # NULL THEN Span(to[u]) ELSE {}
  BY <1>1 DEF Asks, Q
<1>3. DOMAIN Fresh.vals = {} /\ Fresh.xfer = 0 /\ Cardinality({}) = 0
  BY NothingInNothing DEF Fresh
<1>4. Answering(q) = {}
  BY DEF Answering
<1>5. \A u \in Unit : Len(w.unit[u].queue) <= 1
  <2>1. \A u \in Unit : Len(Q(u)) \in {0, 1}
    BY <1>1
  <2>2. \A n \in {0, 1} : n <= 1
    OBVIOUS
  <2>3. \A u \in Unit : Len(Q(u)) <= 1
    BY <2>1, <2>2
  <2> QED BY <2>3 DEF Q
<1>6. /\ \A u \in Unit : Asks(w.unit[u]) \subseteq Span(cmd)
      /\ Apart(Asks(w.unit[0]), Asks(w.unit[1]))
  <2>1. \A u \in Unit : Asks(w.unit[u]) \subseteq Span(cmd)
    BY <1>2 DEF Parted
  <2>2. 0 \in Unit /\ 1 \in Unit
    BY DEF Unit
  <2>3. Apart(Asks(w.unit[0]), Asks(w.unit[1]))
    <3>1. CASE to[0] # NULL /\ to[1] # NULL
      BY <1>2, <2>2, <3>1 DEF Parted
    <3>2. CASE ~(to[0] # NULL /\ to[1] # NULL)
      <4>1. Asks(w.unit[0]) = {} \/ Asks(w.unit[1]) = {}
        BY <1>2, <2>2, <3>2
      <4> QED BY <4>1 DEF Apart
    <3> QED BY <3>1, <3>2
  <2> QED BY <2>1, <2>3
<1>7. Exact(cmd, Fresh, q, w)
  <2>1. Fresh.xfer = Cardinality(DOMAIN Fresh.vals) /\ DOMAIN Fresh.vals \subseteq Span(cmd)
    BY <1>3
  <2>2. \A i, j \in Done(q) : i # j => Apart(Span(q[i].c), Span(q[j].c))
    OBVIOUS
  <2>3. /\ Apart(DOMAIN Fresh.vals, Answering(q)) /\ Answering(q) \subseteq Span(cmd)
        /\ \A u \in Unit : Apart(Asks(w.unit[u]), DOMAIN Fresh.vals \cup Answering(q))
    BY <1>3, <1>4 DEF Apart
  <2> QED BY <1>5, <1>6, <2>1, <2>2, <2>3 DEF Exact
<1>8. \A u \in Unit : \A i \in DOMAIN Q(u) : Q(u)[i].lo <= Q(u)[i].hi
  BY <1>1 DEF Parted
<1> QED BY <1>7, <1>8 DEF Q

(* What the worker does with the answer to a part of a read: it adds it to *)
(* the result, or asks the disk that is left for all of it.                *)
LEMMA ReadSent ==
  ASSUME Willing, NEW w, Handled(w), NEW s \in Unit, Phase(w, s), cmd \in Asked, cmd.op = "read",
         cmd.lo <= cmd.hi, NEW r
  PROVE  LET o == ProcessSrbCommand(w, r)
         IN  /\ o.w = w /\ ~o.fin /\ o.res = r
             /\ Parted(o.to) /\ \A u \in Unit : o.to[u] \in {NULL} \cup Request
             /\ w.raid.rs # "Good" => Whole(o.to[s])
<1> DEFINE o == ProcessSrbCommand(w, r)
           failed == Outcome(w, [r EXCEPT !.ok = FALSE], TRUE, ToNone)
           sent(to) == IF to = ToNone THEN failed ELSE Outcome(w, r, FALSE, to)
           to == PlanRead(w)
<1>1. cmd # NULL /\ RaidRunning(w)
  BY CommandIsNotNull DEF RaidRunning, Phase
<1>2. o = sent(to)
  <2>1. o = Only({sent(q) : q \in {to}})
    BY <1>1 DEF ProcessSrbCommand
  <2> HIDE DEF sent, to, o
  <2>2. {sent(q) : q \in {to}} = {sent(to)}
    OBVIOUS
  <2> QED BY <2>1, <2>2, OnlyOne
<1>3. ~o.fin
  BY CommandSends
<1> HIDE DEF o, to
<1>4. o.w = w /\ o.res = r /\ o.to = to
  BY <1>2, <1>3 DEF Outcome
<1>5. Parted(to) /\ \A u \in Unit : to[u] \in {NULL} \cup Request
  BY ReadPlanned, PlanReadTyped DEF to
<1>6. ASSUME w.raid.rs # "Good" PROVE Whole(to[s])
  <2>1. SubUnits(w, "Good") = {s}
    BY <1>6, OneIsGood DEF Mirrored
  <2>2. Usable(w, s)
    BY DEF Phase, Serves, Is, Usable, Running, Connected
  <2>3. \A u \in Unit : Usable(w, u) /\ Good(w, u) <=> u = s
    BY <2>1, <2>2 DEF SubUnits, Good
  <2> QED BY <2>3, ReadPlanned DEF to
<1> QED BY <1>3, <1>4, <1>5, <1>6 DEF o

(* A failed answer leaves the result of the read failed.                   *)
LEMMA ResultFailed ==
  ASSUME NEW r, IsResult(r)
  PROVE  LET f == [r EXCEPT !.ok = FALSE] IN IsResult(f) /\ f.vals = r.vals
<1> DEFINE f == [r EXCEPT !.ok = FALSE]
<1>1. DOMAIN r = {"ok", "xfer", "vals"}
  BY DEF IsResult
<1>2. f = [k \in {"ok", "xfer", "vals"} |-> IF k = "ok" THEN FALSE ELSE r[k]]
  BY <1>1
<1> HIDE DEF f
<1>3. f.vals = r.vals
  BY <1>2
<1>4. f = [ok |-> f.ok, xfer |-> f.xfer, vals |-> f.vals]
  BY <1>2
<1> QED BY <1>3, <1>4 DEF IsResult, f

(* Result m is r with what answer a holds.                                 *)
Merged(m, r, a) ==
  /\ m.ok /\ m.xfer = r.xfer + a.xfer /\ DOMAIN m.vals = DOMAIN r.vals \cup DOMAIN a.vals
  /\ \A b \in DOMAIN m.vals : m.vals[b] = IF b \in DOMAIN a.vals THEN a.vals[b] ELSE r.vals[b]

(* The worker takes the answer to a part of a read: the read is still      *)
(* covered.                                                                *)
LEMMA ReadAnswered ==
  ASSUME Willing, NEW w, Handled(w), NEW s \in Unit, Phase(w, s), NEW c, NEW n, cmd \in Asked,
         cmd.op = "read", c.op = "read", cmd.lo <= cmd.hi, IsResult(res),
         ~c.ok => UpdateRAIDStatus(w).raid.rs # "Good"
  PROVE  LET o == ProcessSrbCompleted(w, c, n)
         IN  /\ IsResult(o.res)
             /\ IF c.ok THEN NoneSent(o) /\ (o.fin <=> n = 0) /\ Merged(o.res, res, c)
                        ELSE ~o.fin /\ o.res.vals = res.vals /\ Parted(o.to) /\ Whole(o.to[s])
<1> DEFINE o == ProcessSrbCompleted(w, c, n)
           y == UpdateRAIDStatus(w)
           z == UpdateRAIDStatus(y)
           p == ReadCompleted(w, c, n)
           failed == [res EXCEPT !.ok = FALSE]
           vals == [b \in DOMAIN res.vals \cup DOMAIN c.vals |->
                      IF b \in DOMAIN c.vals THEN c.vals[b] ELSE res.vals[b]]
           more == [ok |-> TRUE, xfer |-> res.xfer + c.xfer, vals |-> vals]
           again(x) == IF \E u \in Unit : Usable(x, u) THEN ProcessSrbCommand(x, failed)
                                                      ELSE Outcome(x, failed, TRUE, ToNone)
<1>1. cmd # NULL
  BY CommandIsNotNull
<1>2. o = [p EXCEPT !.w = UpdateRAIDStatus(@)]
  BY <1>1 DEF ProcessSrbCompleted
<1>3. p = IF c.ok THEN Outcome(w, more, n = 0, ToNone) ELSE Only({again(x) : x \in {y}})
  BY DEF ReadCompleted
<1>4. IsResult(more) /\ Merged(more, res, c)
  <2> HIDE DEF vals
  <2>1. IsResult(more)
    BY DEF IsResult
  <2>2. more.ok /\ more.xfer = res.xfer + c.xfer /\ more.vals = vals
    OBVIOUS
  <2> HIDE DEF more
  <2>3. Merged(more, res, c)
    BY <2>2 DEF Merged, vals
  <2> QED BY <2>1, <2>3
<1>5. IsResult(failed) /\ failed.vals = res.vals
  BY ResultFailed
<1> HIDE DEF more
<1>6. CASE c.ok
  <2> HIDE DEF o, p
  <2>1. o = Outcome(UpdateRAIDStatus(w), more, n = 0, ToNone)
    BY <1>2, <1>3, <1>6 DEF Outcome
  <2>2. o.res = more /\ (o.fin <=> n = 0) /\ o.to = ToNone
    BY <2>1 DEF Outcome
  <2>3. NoneSent(o)
    BY <2>2 DEF NoneSent, ToNone
  <2> QED BY <1>4, <1>6, <2>2, <2>3 DEF o
<1>7. CASE ~c.ok
  <2> DEFINE q == ProcessSrbCommand(y, failed)
  <2>1. p = Only({again(x) : x \in {y}})
    BY <1>3, <1>7
  <2>2. Handled(y) /\ Phase(y, s) /\ y.raid.rs # "Good"
    BY <1>7, PhaseUpdated DEF SameButStatus
  <2>3. \E u \in Unit : Usable(y, u)
    BY <2>2 DEF Phase, Serves, Is, Usable, Running, Connected
  <2> HIDE DEF y, z, failed, q
  <2>4. p = q
    <3>1. {again(x) : x \in {y}} = {again(y)}
      OBVIOUS
    <3>2. again(y) = q
      BY <2>3 DEF q
    <3> HIDE DEF again
    <3> QED BY <2>1, <3>1, <3>2, OnlyOne
  <2>5. /\ q.w = y /\ ~q.fin /\ q.res = failed /\ Parted(q.to) /\ Whole(q.to[s])
    BY <2>2, ReadSent DEF q
  <2>6. q = Outcome(q.w, q.res, q.fin, q.to)
    BY <2>2, ProcessSrbCommandTyped DEF q, TypedOutcome
  <2> HIDE DEF p, o
  <2>7. o = Outcome(UpdateRAIDStatus(y), q.res, q.fin, q.to)
    BY <1>2, <2>4, <2>5, <2>6 DEF Outcome
  <2>8. ~o.fin /\ o.res = failed /\ o.to = q.to
    BY <2>5, <2>7 DEF Outcome
  <2> QED BY <1>5, <1>7, <2>5, <2>8 DEF o
<1> QED BY <1>6, <1>7

-----------------------------------------------------------------------------
(* A disk that is read from is up to date, and goes on serving.            *)

(* A disk that serves holds what the host may read.                        *)
LEMMA DataServes == IInv /\ DataInv => ServedInv
<1> SUFFICES ASSUME IInv, DataInv, NEW t \in Unit, Phase(World, t)
             PROVE  \A b \in DOMAIN unit[t].data : unit[t].data[b] \in want[b]
  BY DEF ServedInv, Current
<1>1. PICK s \in Unit : Phase(World, s) /\ Data(World, s, Under, want, refused)
  BY DEF DataInv
<1>2. World.unit = unit /\ DOMAIN unit[t].data = Block
  BY Counted DEF World, TypedUnit, UnitType
<1>3. Holds(World.unit[t], want)
  <2>1. CASE t = s
    BY <1>1, <2>1 DEF Data
  <2>2. CASE t # s
    <3>1. t = Other(s)
      BY <2>2, TheOther
    <3>2. World.raid.sub[Other(s)] = "Good" /\ Serves(World.unit[Other(s)])
      BY <3>1 DEF Phase
    <3>3. Mirrored(World, s)
      BY <1>1, <3>2 DEF Phase, Unmarked, Degraded, Returned
    <3>4. InMirrored(World, s, Under, want, refused)
      BY <1>1, <3>3 DEF Data
    <3> QED BY <3>1, <3>2, <3>4 DEF InMirrored
  <2> QED BY <2>1, <2>2
<1> QED BY <1>2, <1>3 DEF Holds

LEMMA ServedIsCurrent ==
  ASSUME IInv, ServedInv, NEW s \in Unit, Phase(World, s)
  PROVE  \A b \in Block : unit[s].data[b] \in want[b]
<1>1. DOMAIN unit[s].data = Block
  BY Counted DEF TypedUnit, UnitType
<1> QED BY <1>1 DEF ServedInv, Current

(* Disk s goes on, and the other one does not become good unnoticed.       *)
Steady(s) ==
  /\ Phase(World, s) /\ Phase(World', s)
  /\ raid.rs # "Good" /\ raid'.rs = "Good" => cmd = NULL /\ cmd' = NULL
  /\ cmd # NULL /\ raid'.rs \in {"ReadyToRecovery", "Recovering"} =>
       raid.rs \in {"BrokenButWorkable", "ReadyToRecovery", "Recovering"}

(* What a handler of the worker leaves, in a world that goes on.           *)
LEMMA SettledSteady ==
  ASSUME Willing, IInv, CInv, IInv', CInv', NEW o, TypedOutcome(o), NEW n, Settle(o, n),
         NEW s \in Unit, Phase(World, s), Phase(o.w, s),
         raid.rs # "Good" /\ o.w.raid.rs = "Good" => cmd = NULL,
         cmd # NULL /\ o.w.raid.rs \in {"ReadyToRecovery", "Recovering"} =>
           raid.rs \in {"BrokenButWorkable", "ReadyToRecovery", "Recovering"}
  PROVE  Steady(s)
<1> DEFINE w == AfterCommand(o.w)
           v == World'
<1>1. PhaseInv'
  BY DEF CInv
<1>2. /\ Phase(v, s) /\ v.raid = w.raid
      /\ cmd' = NULL \/ cmd' = cmd
  BY <1>1, SettledWorld
<1>3. IF o.w.raid.rs = "GoodButPartiallyFailed" THEN Degraded(w, s) ELSE w = o.w
  <2>1. Handled(o.w)
    BY DEF TypedOutcome
  <2> QED BY <2>1, LossIsNoted
<1>4. v.raid = raid'
  BY DEF World
<1> HIDE DEF w, v
<1>5. /\ raid'.rs = "Good" => o.w.raid.rs = "Good"
      /\ raid'.rs \in {"ReadyToRecovery", "Recovering"} => o.w.raid.rs = raid'.rs
  BY <1>2, <1>3, <1>4 DEF Degraded
<1> QED BY <1>2, <1>5 DEF Steady, v

(* A Steady world carries on: the only good disk stays the only good one.  *)
LEMMA SteadyCarriesOn ==
  ASSUME NEW s \in Unit, Steady(s), cmd # NULL
  PROVE  CarriedOn(World', World)
<1>1. World.raid = raid /\ World'.raid = raid' /\ Phase(World, s) /\ Phase(World', s)
  BY DEF World, Steady
<1> SUFFICES ASSUME raid.rs # "Good"
             PROVE  raid'.rs # "Good" /\ \A u \in Unit : Phase(World, u) => Phase(World', u)
  BY <1>1 DEF CarriedOn
<1>2. raid'.rs # "Good"
  BY DEF Steady
<1>3. raid.sub[Other(s)] # "Good"
  BY <1>1 DEF Phase, Mirrored, Unmarked, Degraded, Returned
<1>4. \A u \in Unit : Phase(World, u) => u = s
  BY <1>1, <1>3, TheOther DEF Phase
<1> QED BY <1>1, <1>2, <1>4

(* No read waits at a disk that has come back and is recovered.            *)
LEMMA ReturnedIsIdle ==
  ASSUME Willing, IInv, CInv, ReadInv, cmd # NULL, cmd.op = "read", NEW s \in Unit, Steady(s),
         raid'.rs # "Good" /\ unit[Other(s)].queue = <<>> => unit'[Other(s)].queue = <<>>,
         unit[Other(s)].status = "NotPresent" => unit'[Other(s)].status = "NotPresent"
  PROVE  \A t \in Unit : Phase(World', t) /\ Returned(World', t) => unit'[Other(t)].queue = <<>>
<1> DEFINE v == World'
           w == World
           f == Other(s)
<1>1. /\ v.unit = unit' /\ v.raid = raid' /\ w.unit = unit /\ w.raid = raid
      /\ Phase(w, s) /\ Phase(v, s) /\ f \in Unit
  BY TheOther DEF World, Steady
<1> HIDE DEF v, w
<1> SUFFICES ASSUME NEW t \in Unit, Phase(v, t), Returned(v, t)
             PROVE  unit'[Other(t)].queue = <<>>
  BY DEF v
<1>2. t = s
  <2>1. v.raid.sub[s] = "Good" /\ v.raid.sub[Other(t)] # "Good"
    BY <1>1 DEF Phase, Returned
  <2> QED BY <2>1, TheOther
<1>3. Back(unit'[f]) /\ raid'.rs \in {"ReadyToRecovery", "Recovering"}
  BY <1>1, <1>2 DEF Returned
<1>4. raid.rs \in {"BrokenButWorkable", "ReadyToRecovery", "Recovering"}
  BY <1>3 DEF Steady
<1>5. unit[f].queue = <<>>
  <2>1. CASE Returned(w, s)
    BY <1>1, <2>1 DEF ReadInv, w
  <2>2. CASE Degraded(w, s)
    <3>1. Away(unit[f]) \/ unit[f].queue = <<>>
      BY <1>1, <2>2 DEF Degraded
    <3>2. unit[f].status # "NotPresent"
      BY <1>3 DEF Back, Is
    <3>3. Away(unit[f]) => unit[f].status = "ReconnectRW"
      BY <3>2 DEF Away, Is
    <3>4. Tidy(unit[f])
      BY <1>1 DEF Phase
    <3> QED BY <3>1, <3>3, <3>4 DEF Tidy
  <2> QED BY <1>1, <1>4, <2>1, <2>2, PhaseByRating
<1> QED BY <1>2, <1>3, <1>5

(* Nothing is done to the command: the queues of the disks, the answers    *)
(* and the result stay as they are.                                        *)
Quietly ==
  /\ want' = want /\ res' = res
  /\ \A u \in Unit : /\ SameQueue(unit'[u], unit[u])
                     /\ unit[u].status = "NotPresent" => unit'[u].status = "NotPresent"
  /\ inbox' = inbox \/ (inbox # <<>> /\ inbox' = Tail(inbox) /\ Head(inbox).k = "noPnp")

(* A read under way stays covered by the steps that answer nothing.        *)
LEMMA ReadKept ==
  ASSUME Willing, IInv, CInv, ReadInv, NEW s \in Unit, Steady(s), cmd' = cmd,
         cmd # NULL /\ cmd.op = "read" => Quietly
  PROVE  ReadInv'
<1> SUFFICES ASSUME cmd # NULL, cmd.op = "read" PROVE ReadInv'
  BY DEF ReadInv
<1>1. Quietly /\ IsQueue(inbox) /\ World.unit = unit /\ World'.unit = unit'
  BY DEF IInv, World
<1>2. /\ \A i \in Done(inbox') : \E j \in Done(inbox) : inbox'[i] = inbox[j]
      /\ Queued("srb")' <=> Queued("srb")
  <2>1. CASE inbox' = inbox
    BY <2>1 DEF Queued
  <2>2. CASE inbox # <<>> /\ inbox' = Tail(inbox) /\ Head(inbox).k = "noPnp"
    <3>1. \A i \in Done(inbox') : i + 1 \in Done(inbox) /\ inbox'[i] = inbox[i + 1]
      BY <1>1, <2>2, AnsweringTaken
    <3>2. /\ \A i \in DOMAIN inbox' : i + 1 \in DOMAIN inbox /\ inbox'[i] = inbox[i + 1]
          /\ \A i \in DOMAIN inbox : i # 1 => i - 1 \in DOMAIN inbox' /\ inbox'[i - 1] = inbox[i]
          /\ inbox[1].k # "srb"
      BY <1>1, <2>2, Tailed
    <3> QED BY <3>1, <3>2 DEF Queued
  <2> QED BY <1>1, <2>1, <2>2 DEF Quietly
<1>3. IF Queued("srb") THEN res = Fresh ELSE Covered(cmd, res, inbox', World')
  <2>1. CASE Queued("srb")
    BY <2>1 DEF ReadInv
  <2>2. CASE ~Queued("srb")
    <3>1. CarriedOn(World', World)
      BY SteadyCarriesOn
    <3>2. \A u \in Unit : World'.unit[u].queue = World.unit[u].queue
      BY <1>1 DEF Quietly, SameQueue
    <3>3. Covered(cmd, res, inbox, World)
      BY <2>2 DEF ReadInv
    <3>4. inbox' = inbox \/ (inbox # <<>> /\ inbox' = Tail(inbox) /\ Head(inbox).k # "done")
      BY <1>1 DEF Quietly
    <3>5. Covered(cmd, res, inbox', World')
      BY <1>1, <3>1, <3>2, <3>3, <3>4, CoverKept
    <3> QED BY <2>2, <3>5
  <2> QED BY <2>1, <2>2
<1>4. IsResult(res)' /\ Current(res.vals)'
  <2>1. IsResult(res) /\ Current(res.vals) /\ res' = res /\ want' = want
    BY <1>1 DEF ReadInv, Quietly
  <2> QED BY <2>1 DEF IsResult, Current
<1>5. IF Queued("srb")' THEN res' = Fresh ELSE Covered(cmd', res', inbox', World')
  BY <1>1, <1>2, <1>3 DEF Quietly
<1>6. \A i \in Done(inbox') : Delivers(inbox[i].c)'
  <2>1. \A i \in Done(inbox') : Delivers(inbox'[i].c)
    BY <1>2 DEF ReadInv
  <2>2. want' = want
    BY <1>1 DEF Quietly
  <2> QED BY <2>1, <2>2 DEF Delivers, Current
<1>7. \A u \in Unit : /\ unit'[u].pend = NULL
                      /\ \A i \in DOMAIN unit'[u].queue : unit'[u].queue[i].lo <= unit'[u].queue[i].hi
  BY <1>1 DEF ReadInv, Quietly, SameQueue
<1>8. \A t \in Unit : Phase(World', t) /\ Returned(World', t) => unit'[Other(t)].queue = <<>>
  <2>1. Other(s) \in Unit
    BY TheOther
  <2>2. /\ unit'[Other(s)].queue = unit[Other(s)].queue
        /\ unit[Other(s)].status = "NotPresent" => unit'[Other(s)].status = "NotPresent"
    BY <1>1, <2>1 DEF Quietly, SameQueue
  <2> QED BY <2>2, ReturnedIsIdle
<1> QED BY <1>4, <1>5, <1>6, <1>7, <1>8 DEF ReadInv

-----------------------------------------------------------------------------
(* The steps that the host does not see.                                   *)

LEMMA UnseenKeepsDisk ==
  ASSUME cmd' = cmd, UNCHANGED history, refused' = refused,
         cmd # NULL /\ cmd.op = "read" => ReadInv'
  PROVE  ReadInv' /\ UNCHANGED Disk!vars
<1>1. want' = want /\ reply' = reply
  BY DEF history
<1>2. ReadInv'
  BY DEF ReadInv
<1> QED BY <1>1, <1>2 DEF Disk!vars

(* The same, for a step whose queues are those of before.                  *)
LEMMA QuietKeepsDisk ==
  ASSUME Willing, IInv, CInv, DiskInv, IInv', CInv', NEW s \in Unit, Steady(s), cmd' = cmd,
         UNCHANGED history, refused' = refused, cmd # NULL /\ cmd.op = "read" => Quietly
  PROVE  ReadInv' /\ UNCHANGED Disk!vars
<1>1. ReadInv'
  BY ReadKept DEF DiskInv
<1> QED BY <1>1, UnseenKeepsDisk

(* A step that leaves what the array knows of itself is Steady.            *)
LEMMA RaidStaysSteady ==
  ASSUME NEW s \in Unit, Phase(World, s), Phase(World', s), raid' = raid
  PROVE  Steady(s)
<1>1. raid'.rs \in {"ReadyToRecovery", "Recovering"} =>
        raid.rs \in {"BrokenButWorkable", "ReadyToRecovery", "Recovering"}
  OBVIOUS
<1> QED BY <1>1 DEF Steady

(* A disk is switched off: not seen by the host.                           *)
LEMMA SwitchOffKeepsDisk ==
  ASSUME Careful, Willing, IInv, CInv, DiskInv, IInv', CInv', NEW u \in Unit, SwitchOff(u)
  PROVE  ReadInv' /\ UNCHANGED Disk!vars
<1> DEFINE t == Other(u)
           y == unit[u]
<1>1. PICK s \in Unit : Phase(World, s)
  BY DEF CInv, PhaseInv
<1>2. PICK lost \in SUBSET Cached(y) : unit' = [unit EXCEPT ![u] = Lose(y, lost)]
  BY DEF SwitchOff
<1>3. /\ World.raid = raid /\ World.unit = unit /\ \A k \in Unit : TypedUnit(unit[k])
      /\ unit \in [Unit -> UnitType] /\ TypedWorld(World)
  BY Counted DEF World, IInv, TypedWorld
<1>4. /\ raid' = raid /\ raid.rs = "Good" /\ cmd' = cmd /\ inbox' = inbox /\ res' = res
      /\ UNCHANGED history /\ refused' = refused /\ \A k \in Unit : unit[k].sess = "up" /\ unit[k].link
  BY <1>3 DEF SwitchOff, TypedUnit, Sane, command, faults
<1>5. /\ Serves(unit[s]) /\ Serves(unit[Other(s)])
      /\ raid.sub[s] = "Good" /\ raid.sub[Other(s)] = "Good"
  <2>1. Mirrored(World, s) /\ Serves(unit[s]) /\ raid.sub[s] = "Good"
    BY <1>1, <1>3, <1>4, PhaseByRating DEF Phase
  <2> QED BY <1>3, <1>4, <2>1, TheOther DEF Mirrored, Lost
<1>6. t \in Unit /\ t # u /\ Other(t) = u /\ Unit = {u, t}
  BY TheOther
<1>7. unit'[u] = Lose(y, lost) /\ unit'[t] = unit[t]
  BY <1>2, <1>3, <1>6
<1>8. Serves(unit[t]) /\ raid.sub[t] = "Good"
  BY <1>5, <1>6, TheOther
<1>9. Phase(World, t)
  BY <1>1, <1>3, <1>6, <1>8, ServesInPhase
<1>10. Phase(World', t)
  BY <1>4, <1>6, <1>7, <1>8, PhaseKept
<1>11. /\ unit'[u].link = FALSE /\ unit'[u].queue = y.queue /\ unit'[u].pend = y.pend
       /\ unit'[u].status = y.status
  BY <1>3, <1>7 DEF Lose, UnitType
<1> HIDE DEF t, y
<1>12. Steady(t)
  BY <1>4, <1>6, <1>9, <1>10, RaidStaysSteady
<1>13. Quietly
  BY <1>4, <1>6, <1>7, <1>11 DEF Quietly, SameQueue, history, y
<1> QED BY <1>4, <1>6, <1>12, <1>13, QuietKeepsDisk

(* A disk is to refuse an I/O: not seen by the host before it does.        *)
LEMMA FalterKeepsDisk ==
  ASSUME Willing, IInv, CInv, DiskInv, IInv', CInv', NEW u \in Unit, NEW k \in Kind, Falter(u, k)
  PROVE  ReadInv' /\ UNCHANGED Disk!vars
<1>1. PICK s \in Unit : Phase(World, s)
  BY DEF CInv, PhaseInv
<1>2. /\ unit \in [Unit -> UnitType] /\ raid' = raid
      /\ unit' = [unit EXCEPT ![u] = [unit[u] EXCEPT !.fails = @ \cup {k}]]
      /\ cmd' = cmd /\ inbox' = inbox /\ res' = res /\ UNCHANGED history
      /\ refused' = refused
  BY DEF World, IInv, TypedWorld, Falter, command
<1>3. \A v \in Unit : /\ SameQueue(unit'[v], unit[v]) /\ unit'[v].status = unit[v].status
                      /\ Serves(unit[v]) => Serves(unit'[v])
  BY <1>2 DEF SameQueue, UnitType, Serves, Is
<1>4. Serves(unit'[s]) /\ raid'.sub[s] = "Good"
  BY <1>1, <1>2, <1>3 DEF Phase, World
<1>5. Phase(World', s)
  BY <1>4, PhaseKept
<1>6. Steady(s)
  BY <1>1, <1>2, <1>5, RaidStaysSteady
<1>7. Quietly
  BY <1>2, <1>3 DEF Quietly, history
<1> QED BY <1>2, <1>6, <1>7, QuietKeepsDisk

(* A disk is switched on: not seen by the host.                            *)
LEMMA SwitchOnKeepsDisk ==
  ASSUME Careful, Willing, IInv, CInv, DiskInv, IInv', CInv', NEW u \in Unit, SwitchOn(u)
  PROVE  ReadInv' /\ UNCHANGED Disk!vars
<1>1. PICK s \in Unit : Phase(World, s)
  BY DEF CInv, PhaseInv
<1>2. /\ unit \in [Unit -> UnitType] /\ raid' = raid /\ raid.rs = "BrokenButWorkable" /\ ~unit[u].link
      /\ unit' = [unit EXCEPT ![u] = [unit[u] EXCEPT !.link = TRUE]]
      /\ cmd' = cmd /\ inbox' = inbox /\ res' = res /\ UNCHANGED history
      /\ refused' = refused
  BY DEF World, IInv, TypedWorld, SwitchOn, command, faults
<1>3. u # s /\ unit'[s] = unit[s] /\ Serves(unit[s]) /\ raid.sub[s] = "Good"
  BY <1>1, <1>2 DEF Phase, World, Serves
<1>4. \A k \in Unit : SameQueue(unit'[k], unit[k]) /\ unit'[k].status = unit[k].status
  BY <1>2 DEF SameQueue, UnitType
<1>5. Phase(World', s)
  BY <1>2, <1>3, PhaseKept
<1>6. Steady(s)
  BY <1>1, <1>2, <1>5, RaidStaysSteady
<1>7. Quietly
  BY <1>2, <1>4 DEF Quietly, history
<1> QED BY <1>2, <1>6, <1>7, QuietKeepsDisk

(* A step of a disk that changes its connection only is not seen by the    *)
(* host.                                                                   *)
LEMMA LinkKeepsDisk ==
  ASSUME Willing, IInv, CInv, DiskInv, IInv', CInv', NEW u \in Unit, NEW x, NEW a,
         Replies(u, x, a), UNCHANGED history, refused' = refused,
         x.queue = unit[u].queue, Serves(unit[u]) => Serves(x),
         unit[u].status = "NotPresent" => x.status = "NotPresent",
         unit[u].pend = NULL => x.pend = NULL /\ a = NULL
  PROVE  ReadInv' /\ UNCHANGED Disk!vars
<1>1. PICK s \in Unit : Phase(World, s)
  BY DEF CInv, PhaseInv
<1>2. /\ raid' = raid /\ unit'[u] = x /\ \A v \in Unit : v # u => unit'[v] = unit[v]
      /\ cmd' = cmd /\ res' = res
  <2>1. cmd' = cmd /\ res' = res
    BY DEF Replies, command
  <2> QED BY <2>1, RepliesKeepUnder
<1>3. Serves(unit'[s]) /\ raid'.sub[s] = "Good"
  BY <1>1, <1>2 DEF Phase, World
<1>4. Phase(World', s)
  BY <1>3, PhaseKept
<1>6. Steady(s)
  BY <1>1, <1>2, <1>4, RaidStaysSteady
<1>7. ASSUME cmd # NULL, cmd.op = "read" PROVE Quietly
  <2>1. unit[u].pend = NULL
    BY <1>7 DEF DiskInv, ReadInv
  <2>2. inbox' = inbox
    BY <2>1 DEF Replies
  <2>3. \A v \in Unit : SameQueue(unit'[v], unit[v])
    BY <1>2, <2>1 DEF SameQueue
  <2> QED BY <1>2, <2>2, <2>3 DEF Quietly, history
<1> QED BY <1>2, <1>6, <1>7, QuietKeepsDisk

(* The thread of a disk hears of it: not seen by the host.                 *)
LEMMA UnitPnpKeepsDisk ==
  ASSUME Careful, Willing, IInv, CInv, DiskInv, IInv', CInv', NEW u \in Unit, NEW late \in BOOLEAN,
         NEW asked \in BOOLEAN, UnitPnp(u, late, asked)
  PROVE  ReadInv' /\ UNCHANGED Disk!vars
<1> DEFINE y == unit[u]
           p == Broadcast(y, FALSE, asked, asked)
<1>1. PICK s \in Unit : Phase(World, s)
  BY DEF CInv, PhaseInv
<1>2. World.raid = raid /\ World.unit = unit /\ TypedUnit(y)
  BY Counted DEF World
<1>3. ~late /\ y.link /\ y.status # "NotPresent"
  BY DEF UnitPnp
<1>4. Replies(u, p[1], p[2]) /\ UNCHANGED history /\ refused' = refused
  <2>1. UnitStep(u, {p})
    BY <1>3 DEF UnitPnp
  <2> HIDE DEF p
  <2>2. refused' = refused
    BY DEF UnitPnp
  <2> QED BY <2>1, <2>2 DEF UnitStep, Replies, command
<1>5. /\ y.status # "ReconnectRW" => y.pend = NULL
      /\ Is(y, "ConnectedRW", "up") \/ Is(y, "ReconnectRW", "none") \/ Is(y, "Disconnected", "none")
  <2>1. CASE u = s
    BY <1>1, <1>2, <2>1 DEF Phase, Serves, Is
  <2>2. CASE u # s
    <3>1. u = Other(s)
      BY <2>2, TheOther
    <3>2. Tidy(y)
      BY <1>1, <1>2, <3>1 DEF Phase
    <3>3. Serves(y) \/ Back(y) \/ Away(y)
      BY <1>1, <1>2, <1>3, <3>1 DEF Phase, Mirrored, Unmarked, Degraded, Returned, Lost
    <3> QED BY <1>3, <3>2, <3>3 DEF Away, Back, Serves, Is, Tidy
  <2> QED BY <2>1, <2>2
<1>6. /\ SameDisk(p[1], y) /\ Keeps(p[1], y) /\ p[1].queue = y.queue
      /\ IF asked \/ y.status = "ConnectedRW"
         THEN Is(p[1], "ConnectedRW", "up") /\ p[1].pend = NULL /\ p[2] = y.pend
         ELSE Is(p[1], y.status, y.sess) /\ p[1].pend = y.pend /\ p[2] = NULL
  BY <1>2, <1>3, <1>5, BroadcastHeard
<1> HIDE DEF p
<1>7. Serves(y) => Serves(p[1])
  BY <1>6 DEF Serves, Is, SameDisk
<1>8. y.pend = NULL => p[1].pend = NULL /\ p[2] = NULL
  BY <1>6
<1> QED BY <1>3, <1>4, <1>6, <1>7, <1>8, LinkKeepsDisk

(* The thread of a disk misses it: not seen by the host.                   *)
LEMMA UnitGoneKeepsDisk ==
  ASSUME Willing, IInv, CInv, DiskInv, IInv', CInv', NEW u \in Unit, UnitGone(u)
  PROVE  ReadInv' /\ UNCHANGED Disk!vars
<1> DEFINE y == unit[u]
           p == Gone(y)
<1>1. TypedUnit(y) /\ ~y.link
  BY Counted DEF UnitGone
<1>2. /\ Keeps(p[1], y) /\ p[1].queue = y.queue /\ p[1].link = y.link
      /\ p[1].status = "NotPresent" /\ p[1].pend = NULL /\ p[2] = y.pend
  <2> DEFINE x == [CheckDataConnection(y) EXCEPT !.status = "NotPresent", !.pend = NULL]
  <2>1. p[1] = x /\ p[2] = y.pend
    BY DEF Gone
  <2>2. /\ Keeps(x, y) /\ x.queue = y.queue /\ x.link = y.link /\ x.status = "NotPresent"
        /\ x.pend = NULL
    BY <1>1 DEF CheckDataConnection, TypedUnit, UnitType, Keeps
  <2> QED BY <2>1, <2>2
<1>3. Replies(u, p[1], p[2]) /\ UNCHANGED history /\ refused' = refused
  <2>1. UnitStep(u, {p})
    BY DEF UnitGone
  <2> HIDE DEF p
  <2>2. refused' = refused
    BY DEF UnitGone
  <2> QED BY <2>1, <2>2 DEF UnitStep, Replies, command
<1> HIDE DEF p
<1>4. ~Serves(y)
  BY <1>1 DEF Serves
<1> QED BY <1>2, <1>3, <1>4, LinkKeepsDisk

(* What the bus enumerator does with a disk is not seen by the host.       *)
LEMMA ByBusKeepsDisk ==
  ASSUME Willing, IInv, CInv, DiskInv, IInv', CInv', NEW s \in Unit, Phase(World, s), ByBusOnly(s),
         UNCHANGED history, refused' = refused
  PROVE  ReadInv' /\ UNCHANGED Disk!vars
<1>1. cmd = NULL /\ cmd' = NULL
  BY DEF ByBusOnly
<1> QED BY <1>1, UnseenKeepsDisk

(* Its two operations, taking a disk out of the array and putting it back. *)
LEMMA BusKeepsDisk ==
  ASSUME Careful, Willing, IInv, CInv, DiskInv, IInv', CInv', NEW u \in Unit,
         BusRemoves(u) \/ Appear(u)
  PROVE  ReadInv' /\ UNCHANGED Disk!vars
<1>1. PICK s \in Unit : Phase(World, s)
  BY DEF CInv, PhaseInv
<1>2. UNCHANGED history /\ refused' = refused
  BY DEF BusRemoves, Appear, ByBus, faults
<1>3. ByBusOnly(s)
  BY <1>1, BusRemovesKeepsPhase, AppearKeepsPhase
<1> QED BY <1>1, <1>2, <1>3, ByBusKeepsDisk

(* A step that leaves array and disks as they are is not seen by the host. *)
LEMMA SameWorldKeepsDisk ==
  ASSUME Willing, IInv, CInv, DiskInv, IInv', CInv', World' = World,
         UNCHANGED <<command, inbox, history, refused>>
  PROVE  ReadInv' /\ UNCHANGED Disk!vars
<1>1. PICK s \in Unit : Phase(World, s)
  BY DEF CInv, PhaseInv
<1>2. unit' = unit /\ raid' = raid /\ cmd' = cmd /\ res' = res
  <2>1. World.unit = unit /\ World.raid = raid /\ World'.unit = unit' /\ World'.raid = raid'
    BY DEF World
  <2> QED BY <2>1 DEF command
<1>3. Steady(s)
  BY <1>1, <1>2, RaidStaysSteady
<1>4. Quietly
  BY <1>2 DEF Quietly, SameQueue, history
<1> QED BY <1>2, <1>3, <1>4, QuietKeepsDisk

(* The worker finds nothing to do; an array that is never broken answers   *)
(* no command then.                                                        *)
LEMMA TimedOutKeepsDisk ==
  ASSUME Willing, IInv, CInv, DiskInv, IInv', CInv', TimedOut
  PROVE  ReadInv' /\ UNCHANGED Disk!vars
<1>1. raid.rs # "Broken"
  BY DEF CInv, PhaseInv, Phase, Mirrored, Unmarked, Degraded, Returned, World
<1>2. World' = World /\ UNCHANGED <<command, inbox, history, refused>>
  BY <1>1 DEF TimedOut, AnsweredIf, World, command, history, faults
<1> QED BY <1>2, SameWorldKeepsDisk

(* A turn of the recovery writes to the disk that is not read from.        *)
LEMMA RecoverKeepsDisk ==
  ASSUME Willing, IInv, CInv, DiskInv, IInv', CInv', Recover
  PROVE  ReadInv' /\ UNCHANGED Disk!vars
<1>1. cmd = NULL
  BY RecoverIsIdle
<1>2. cmd' = cmd /\ UNCHANGED history /\ refused' = refused
  BY DEF Recover, command, faults
<1> QED BY <1>1, <1>2, UnseenKeepsDisk

(* A handler that sets the status of the array, and sends no command, is   *)
(* not seen by the host.                                                   *)
LEMMA SettingKeepsDisk ==
  ASSUME Willing, IInv, CInv, DiskInv, IInv', CInv', NEW s \in Unit, Phase(World, s),
         NEW x, Handled(x), Phase(x, s), Settle(Outcome(x, res, FALSE, ToNone), count),
         raid.rs # "Good" /\ x.raid.rs = "Good" => cmd = NULL, refused' = refused,
         cmd # NULL /\ x.raid.rs \in {"ReadyToRecovery", "Recovering"} =>
           raid.rs \in {"BrokenButWorkable", "ReadyToRecovery", "Recovering"},
         \A u \in Unit : x.unit[u].status = unit[u].status,
         inbox' = inbox \/ (inbox # <<>> /\ inbox' = Tail(inbox) /\ Head(inbox).k = "noPnp")
  PROVE  ReadInv' /\ UNCHANGED Disk!vars
<1> DEFINE o == Outcome(x, res, FALSE, ToNone)
<1>1. o.w = x /\ o.res = res /\ o.fin = FALSE /\ o.to = ToNone /\ TypedOutcome(o)
  BY NothingSentTyped DEF Outcome
<1>2. Settle(o, count) /\ count \in Nat
  BY Counted
<1> HIDE DEF o
<1>3. \A u \in Unit : o.to[u] = NULL /\ MaySend(o.w, o.to, u)
  BY <1>1 DEF ToNone, MaySend
<1>4. PhaseInv'
  BY DEF CInv
<1>5. Phase(AfterCommand(o.w), s) /\ cmd' = cmd
  BY <1>1, <1>2, <1>4, SettledWorld
<1>6. res' = res /\ UNCHANGED history
  <2>1. res' = o.res /\ AnsweredIf(o.fin, AfterCommand(o.w).raid.rs, o.res)
    BY <1>2 DEF Settle
  <2>2. AfterCommand(o.w).raid.rs # "Broken"
    BY <1>5 DEF Phase, Mirrored, Unmarked, Degraded, Returned
  <2> QED BY <1>1, <2>1, <2>2 DEF AnsweredIf, history
<1>7. \A u \in Unit : SameQueue(unit'[u], unit[u]) /\ unit'[u].status = unit[u].status
  BY <1>1, <1>2, <1>3, Settled DEF SameQueue
<1>8. Steady(s)
  BY <1>1, <1>2, SettledSteady
<1>9. Quietly
  BY <1>6, <1>7 DEF Quietly, history
<1> QED BY <1>5, <1>6, <1>8, <1>9, QuietKeepsDisk

(* The worker is told that a disk is silent: not seen by the host.         *)
LEMMA WorkerNoPnpKeepsDisk ==
  ASSUME Willing, IInv, CInv, DiskInv, IInv', CInv', WorkerNoPnp
  PROVE  ReadInv' /\ UNCHANGED Disk!vars
<1> DEFINE w == UpdateRAIDStatus(World)
<1>1. PICK s \in Unit : Phase(World, s)
  BY DEF CInv, PhaseInv
<1>2. Handled(World) /\ World.raid = raid /\ World.unit = unit
  BY Counted DEF World
<1>3. Settle(Outcome(w, res, FALSE, ToNone), count)
  BY <1>1, <1>2, OwnStatusKept DEF WorkerNoPnp
<1>4. SameButStatus(w, World) /\ Phase(w, s) /\ Handled(w) /\ w.unit = unit
  BY <1>1, <1>2, PhaseUpdated DEF SameButStatus
<1>5. Goes(raid.rs, w.raid.rs)
  BY <1>1, <1>2, <1>4, UpdateGoes
<1>6. inbox # <<>> /\ inbox' = Tail(inbox) /\ Head(inbox).k = "noPnp"
  BY HeadTaken DEF WorkerNoPnp
<1> HIDE DEF w
<1>7. refused' = refused
  BY DEF WorkerNoPnp, faults
<1> QED BY <1>1, <1>3, <1>4, <1>5, <1>6, <1>7, SettingKeepsDisk DEF Goes

(* The worker is told that a disk is heard: not seen by the host.          *)
LEMMA WorkerPnpKeepsDisk ==
  ASSUME Willing, IInv, CInv, DiskInv, IInv', CInv', WorkerPnp
  PROVE  ReadInv' /\ UNCHANGED Disk!vars
<1> DEFINE w == UpdateRAIDStatus(World)
<1>1. PICK s \in Unit : Phase(World, s)
  BY DEF CInv, PhaseInv
<1>2. Handled(World) /\ World.raid = raid /\ World.unit = unit
  BY Counted DEF World
<1>3. PICK x \in PnpHandled(w) : Settle(Outcome(x, res, FALSE, ToNone), count)
  BY <1>1, <1>2, OwnStatusKept DEF WorkerPnp
<1>9. inbox' = inbox /\ refused' = refused
  BY DEF WorkerPnp, faults
<1>4. /\ SameButStatus(w, World) /\ Phase(w, s) /\ Handled(w) /\ w.unit = unit
      /\ w.raid.rs = UpdateRAIDStatus(World).raid.rs
  BY <1>1, <1>2, PhaseUpdated DEF SameButStatus
<1>5. Goes(raid.rs, w.raid.rs)
  BY <1>1, <1>2, <1>4, UpdateGoes
<1>6. w.raid.rs = "ReadyToRecovery" /\ ~w.raid.dirty => cmd = NULL
  BY <1>1, <1>4, UpdateIsGood
<1> HIDE DEF w
<1>7. CASE w.raid.rs # "ReadyToRecovery"
  <2>1. x = w
    BY <1>3, <1>7 DEF PnpHandled
  <2> QED BY <1>1, <1>3, <1>4, <1>5, <1>9, <2>1, SettingKeepsDisk DEF Goes
<1>8. CASE w.raid.rs = "ReadyToRecovery"
  <2>1. IsWorkable(w) /\ RaidRunning(w)
    BY <1>4 DEF Phase, Serves, Is, IsWorkable, RaidRunning
  <2>2. x \in Recovery(w)
    BY <1>3, <1>8, <2>1 DEF PnpHandled
  <2>3. Returned(w, s)
    BY <1>4, <1>8 DEF Phase, Mirrored, Unmarked, Degraded, Returned
  <2>4. ~w.raid.dirty => Pending(w.unit[s]) <= 1
    <3> SUFFICES ASSUME ~w.raid.dirty PROVE Pending(w.unit[s]) <= 1
      OBVIOUS
    <3>1. cmd = NULL /\ count = 0
      BY <1>6, <1>8 DEF CInv, CountMatches
    <3>2. Pending(unit[s]) = 0
      BY <3>1, NothingLeft DEF CInv
    <3> QED BY <1>4, <3>2
  <2>5. /\ Handled(x) /\ Phase(x, s)
        /\ Untouched(x.unit[s], w.unit[s]) /\ Intact(x.unit[Other(s)], w.unit[Other(s)])
        /\ x.raid.rs = "Good" => ~w.raid.dirty
    BY <1>4, <2>2, <2>3, <2>4, RecoveryKeepsPhase
  <2>6. raid.rs \in {"BrokenButWorkable", "ReadyToRecovery", "Recovering"}
    BY <1>5, <1>8 DEF Goes
  <2>7. \A u \in Unit : x.unit[u].status = unit[u].status
    BY <1>4, <2>5, TheOther DEF Untouched, Intact
  <2>8. raid.rs # "Good" /\ (x.raid.rs = "Good" => cmd = NULL)
    BY <1>6, <1>8, <2>5, <2>6
  <2> QED BY <1>1, <1>3, <1>9, <2>5, <2>6, <2>7, <2>8, SettingKeepsDisk
<1> QED BY <1>7, <1>8

-----------------------------------------------------------------------------
(* A command is issued, and sent to the disks.                             *)

LEMMA IssueKeepsDisk ==
  ASSUME Willing, IInv, CInv, DiskInv, IInv', CInv', NEW op \in {"read", "write"},
         NEW lo \in Block, NEW hi \in Block, op = "write" => lo = hi,
         lo = hi \/ (lo = 0 /\ hi = Capacity - 1), Issue(op, lo, hi)
  PROVE  ReadInv' /\ Disk!Next
<1> DEFINE e == [k |-> "srb"]
           n == issued + 1
           c == [op |-> op, lo |-> lo, hi |-> hi, val |-> IF op = "write" THEN n ELSE 0]
<1>1. /\ World' = World /\ unit' = unit /\ raid' = raid /\ cmd = NULL /\ inbox' = Append(inbox, e)
      /\ cmd' = c /\ res' = Fresh /\ reply' = NULL
      /\ want' = IF op = "write" THEN [want EXCEPT ![lo] = @ \cup {c.val}] ELSE want
      /\ issued < MaxCmds /\ refused' = refused
  BY DEF Issue, World, faults
<1>2. /\ c.op = op /\ c.lo = lo /\ c.hi = hi /\ (op = "write" => c.val = n)
      /\ c = [op |-> op, lo |-> lo, hi |-> hi, val |-> c.val]
  OBVIOUS
<1>3. lo \in Int /\ hi \in Int /\ lo <= hi /\ \A b \in Block : b \in Int
  <2>1. Capacity \in Nat
    BY Numbers
  <2>2. \A b \in Block : b \in Int /\ 0 <= b /\ b <= Capacity - 1
    BY <2>1 DEF Block
  <2>3. lo \in Int /\ hi \in Int /\ 0 <= hi
    BY <2>2
  <2> QED BY <2>2, <2>3
<1>4. c.val \in 0 .. MaxCmds
  <2>1. issued \in 0 .. MaxCmds /\ MaxCmds \in Nat
    BY Numbers DEF IInv
  <2>2. n \in 0 .. MaxCmds /\ 0 \in 0 .. MaxCmds
    BY <1>1, <2>1
  <2> HIDE DEF n
  <2> QED BY <2>2
<1>5. want \in [Block -> SUBSET Written]
  BY DEF IInv
<1> HIDE DEF c, n
<1>11. ReadInv'
  <2>1. IsResult(res)' /\ Current(res.vals)'
    <3>1. DOMAIN Fresh.vals = {}
      BY NothingInNothing DEF Fresh
    <3>2. Fresh = [ok |-> Fresh.ok, xfer |-> Fresh.xfer, vals |-> Fresh.vals]
      BY DEF Fresh
    <3> HIDE DEF Fresh
    <3> QED BY <1>1, <3>1, <3>2 DEF IsResult, Current
  <2>2. Queued("srb")'
    <3>1. Len(inbox) + 1 \in DOMAIN inbox' /\ inbox'[Len(inbox) + 1] = e
      BY <1>1, Appended DEF IInv
    <3> QED BY <3>1 DEF Queued
  <2>3. count = 0 /\ \A u \in Unit : unit[u].queue = <<>> /\ unit[u].pend = NULL
    BY <1>1, NothingLeft DEF CInv, CountMatches
  <2>4. Done(inbox') = {}
    <3>1. ~Queued("done") /\ IsQueue(inbox)
      BY <2>3, NothingLeft DEF CInv, IInv
    <3>2. Grows(inbox', inbox, e)
      BY <1>1, <3>1, AnsweringAdded
    <3> QED BY <3>1, <3>2 DEF Grows, Done, Queued
  <2>5. \A u \in Unit : unit'[u].queue = <<>> /\ unit'[u].pend = NULL
    BY <1>1, <2>3
  <2> QED BY <1>1, <2>1, <2>2, <2>4, <2>5, TheOther, NothingInNothing DEF ReadInv
<1>12. Disk!Issue(c)
  <2>1. want' = [b \in Block |-> IF c.op = "write" /\ b \in Disk!Range(c)
                                THEN want[b] \cup {c.val} ELSE want[b]]
    <3>1. CASE op = "read"
      BY <1>1, <1>2, <1>5, <3>1
    <3>2. CASE op = "write"
      <4>1. Disk!Range(c) = {lo}
        BY <1>2, <1>3, <3>2 DEF Disk!Range
      <4>2. want' = [want EXCEPT ![lo] = @ \cup {c.val}]
        BY <1>1, <3>2
      <4>3. want' = [b \in Block |-> IF b = lo THEN want[b] \cup {c.val} ELSE want[b]]
        BY <1>5, <4>2
      <4> QED BY <1>2, <3>2, <4>1, <4>3
    <3> QED BY <3>1, <3>2
  <2> QED BY <1>1, <2>1 DEF Disk!Issue
<1>13. Disk!Next
  BY <1>2, <1>4, <1>12 DEF Disk!Next
<1> QED BY <1>11, <1>13

(* The worker sends the command to the disks: the read becomes covered.    *)
LEMMA WorkerSrbKeepsDisk ==
  ASSUME Willing, IInv, CInv, DiskInv, IInv', CInv', WorkerSrb
  PROVE  ReadInv' /\ UNCHANGED Disk!vars
<1>1. PICK s \in Unit : Phase(World, s)
  BY DEF CInv, PhaseInv
<1>2. Handled(World) /\ World.raid = raid /\ World.unit = unit /\ count \in Nat
  BY Counted DEF World
<1>3. /\ Queued("srb") /\ ~Queued("srb")' /\ raid.rs # "GoodButPartiallyFailed"
      /\ inbox # <<>> /\ inbox' = Tail(inbox)
  BY HeadTaken DEF WorkerSrb
<1>4. cmd # NULL /\ count = 0 /\ cmd \in Asked
  BY <1>3 DEF CInv, CommandInv, IInv
<1>5. /\ \A u \in Unit : unit[u].queue = <<>> /\ unit[u].pend = NULL /\ Pending(unit[u]) = 0
      /\ ~Queued("done")
  BY <1>4, NothingLeft DEF CInv
<1>6. PICK o \in {ProcessSrbCommand(World, res)} : Settle(o, count)
  BY DEF WorkerSrb
<1>7. ~Unmarked(World, s)
  BY <1>2, <1>3 DEF Unmarked
<1>8. /\ TypedOutcome(o) /\ Phase(o.w, s) /\ ~o.fin /\ o.w.raid.rs = raid.rs
      /\ \A u \in Unit : Untouched(o.w.unit[u], unit[u]) /\ MaySend(o.w, o.to, u)
      /\ cmd.op = "read" => o.w = World /\ \A u \in Unit : o.to[u] # NULL => Good(World, u)
  BY <1>1, <1>2, <1>4, <1>6, <1>7, CommandSends
<1>9. /\ raid' = o.w.raid /\ cmd' = cmd
      /\ \A u \in Unit : /\ unit'[u].status = o.w.unit[u].status /\ unit'[u].pend = unit[u].pend
                         /\ unit'[u].queue = IF o.to[u] # NULL THEN Append(unit[u].queue, o.to[u])
                                                               ELSE unit[u].queue
  BY <1>2, <1>3, <1>5, <1>6, <1>8, Settled
<1>10. UNCHANGED history /\ res' = o.res /\ refused' = refused
  <2>1. res' = o.res /\ AnsweredIf(o.fin, AfterCommand(o.w).raid.rs, o.res)
    BY <1>6 DEF Settle
  <2>2. AfterCommand(o.w).raid.rs # "Broken"
    <3>1. AfterCommand(o.w) = o.w
      BY <1>3, <1>8 DEF AfterCommand
    <3> QED BY <1>8, <3>1 DEF Phase, Mirrored, Unmarked, Degraded, Returned
  <2>3. refused' = refused
    BY DEF WorkerSrb, faults
  <2> QED BY <1>8, <2>1, <2>2, <2>3 DEF AnsweredIf, history
<1>11. Steady(s)
  BY <1>1, <1>6, <1>8, SettledSteady
<1>12. ASSUME cmd.op = "read" PROVE ReadInv'
  <2>1. cmd.lo <= cmd.hi /\ res = Fresh /\ IsResult(res) /\ Current(res.vals)
    BY <1>3, <1>4, <1>12 DEF DiskInv, CommandWanted, ReadInv
  <2>2. o.res = res /\ Parted(o.to)
    BY <1>1, <1>2, <1>4, <1>6, <1>12, <2>1, ReadSent
  <2>3. Done(inbox') = {}
    <3>1. \A i \in Done(inbox') : i + 1 \in Done(inbox)
      BY <1>3, AnsweringTaken DEF IInv
    <3> QED BY <1>5, <3>1 DEF Done, Queued
  <2> DEFINE v == World'
  <2>4. v.unit = unit'
    BY DEF World
  <2> HIDE DEF v
  <2>5. \A u \in Unit : v.unit[u].queue = IF o.to[u] # NULL THEN Append(<<>>, o.to[u]) ELSE <<>>
    BY <1>5, <1>9, <2>4
  <2>6. /\ Exact(cmd, Fresh, inbox', v)
        /\ \A u \in Unit : \A i \in DOMAIN v.unit[u].queue :
             v.unit[u].queue[i].lo <= v.unit[u].queue[i].hi
    BY <2>2, <2>3, <2>5, CoverStart
  <2>7. Covered(cmd', res', inbox', v)
    BY <1>9, <1>10, <2>1, <2>2, <2>6 DEF Covered
  <2>8. IsResult(res)' /\ Current(res.vals)'
    BY <1>10, <2>1, <2>2 DEF IsResult, Current, history
  <2>9. \A t \in Unit : Phase(World', t) /\ Returned(World', t) => unit'[Other(t)].queue = <<>>
    <3>1. Other(s) \in Unit
      BY TheOther
    <3>2. raid'.rs # "Good" => unit'[Other(s)].queue = <<>>
      <4> SUFFICES ASSUME raid'.rs # "Good" PROVE unit'[Other(s)].queue = <<>>
        OBVIOUS
      <4>1. raid.sub[Other(s)] # "Good"
        BY <1>1, <1>2, <1>8, <1>9 DEF Phase, Mirrored, Unmarked, Degraded, Returned
      <4>2. o.to[Other(s)] = NULL
        BY <1>2, <1>8, <1>12, <3>1, <4>1 DEF Good
      <4> QED BY <1>5, <1>9, <3>1, <4>2
    <3>3. unit'[Other(s)].status = unit[Other(s)].status
      BY <1>8, <1>9, <3>1 DEF Untouched
    <3> QED BY <1>4, <1>11, <1>12, <3>2, <3>3, ReturnedIsIdle DEF DiskInv
  <2> QED BY <1>3, <1>5, <1>9, <2>3, <2>4, <2>6, <2>7, <2>8, <2>9 DEF ReadInv, v
<1> QED BY <1>9, <1>10, <1>12, UnseenKeepsDisk

-----------------------------------------------------------------------------
(* A disk answers.                                                         *)

(* Answer a is the part c of a read, with what disk x holds.               *)
ReadFrom(a, c, x) ==
  /\ a.ok = c.ok /\ DOMAIN a.vals = Span(c) /\ a.xfer = Cardinality(Span(c))
  /\ \A b \in Span(c) : b \in Block /\ a.vals[b] = x.data[b]

(* A disk answers a part of a read with what it holds.                     *)
LEMMA ReadTaken ==
  ASSUME Willing, NEW u, TypedUnit(u), u.queue # <<>>, Head(u.queue).op = "read",
         Head(u.queue).lo <= Head(u.queue).hi, NEW landed \in BOOLEAN,
         ~Running(u) \/ Is(u, "ConnectedRW", "up") \/ Is(u, "ConnectedRW", "broken")
  PROVE  LET p == ProcessSrb(u, landed)
             c == Head(u.queue)
         IN  /\ p[1].pend = u.pend /\ p[2] # NULL /\ Span(p[2]) = Span(c)
             /\ IF Is(u, "ConnectedRW", "up") THEN ReadFrom(p[2], c, u) ELSE ~p[2].ok
<1> DEFINE c == Head(u.queue)
           x == [u EXCEPT !.queue = Tail(@)]
           y == UpdateStatus(x, FALSE, FALSE)
           p == ProcessSrb(u, landed)
<1>1. c \in Request /\ c.op = "read" /\ c.lo <= c.hi
  BY HeadTailProperties DEF TypedUnit, UnitType
<1>2. /\ x.data = u.data
      /\ c = [op |-> c.op, lo |-> c.lo, hi |-> c.hi, val |-> c.val,
              ok |-> c.ok, xfer |-> c.xfer, vals |-> c.vals]
      /\ c.lo \in Nat /\ c.hi \in Nat /\ c.hi <= Capacity - 1 /\ Capacity \in Nat
  BY <1>1, Numbers DEF TypedUnit, UnitType, Request, Block
<1>3. CASE Is(u, "ConnectedRW", "up")
  <2> DEFINE V == [b \in c.lo..c.hi |-> x.data[b]]
             n == c.hi - c.lo + 1
             a == [c EXCEPT !.xfer = n, !.vals = V]
  <2>6. "read" \notin x.fails
    BY DEF TypedUnit, UnitType, Willing
  <2>1. p = <<x, a>>
    BY <1>1, <1>3, <2>6 DEF ProcessSrb, Is, Running, Execute, ProcessRead
  <2>2. DOMAIN V = Span(c) /\ n = Cardinality(Span(c))
    BY <1>1, <1>2, SpanCounted DEF Span
  <2>3. \A b \in Span(c) : b \in Block /\ V[b] = u.data[b]
    BY <1>2 DEF Block, Span
  <2> HIDE DEF V, n, c, x
  <2>4. a.ok = c.ok /\ a.lo = c.lo /\ a.hi = c.hi /\ a.xfer = n /\ a.vals = V
    BY <1>2
  <2>5. p[2] = a /\ p[1].pend = u.pend /\ p[2] # NULL
    <3>1. p[1].pend = u.pend /\ p[2] # NULL
      BY <1>3, SrbExecuted
    <3> HIDE DEF p, a
    <3> QED BY <2>1, <3>1
  <2> HIDE DEF a, p
  <2> QED BY <1>3, <2>2, <2>3, <2>4, <2>5 DEF ReadFrom, Span, c, p
<1>4. CASE ~Is(u, "ConnectedRW", "up")
  <2>1. ~Running(u) \/ Is(u, "ConnectedRW", "broken")
    BY <1>4
  <2>2. /\ (p[1].pend = u.pend /\ p[2] = Failed(c)) \/ p[2] = NULL
        /\ Failed(c) # NULL /\ ~Failed(c).ok
    BY <2>1, SrbFailed
  <2>3. Failed(c).op = "read" /\ Span(Failed(c)) = Span(c)
    BY <1>1, <1>2 DEF Failed, Span
  <2>4. p = IF ~Running(u) THEN <<x, Failed(c)>> ELSE SetPending(y, Failed(c))
    BY <1>1, <2>1 DEF ProcessSrb, Is
  <2> HIDE DEF c, x, y, p
  <2>5. p[2] = Failed(c)
    BY <2>3, <2>4 DEF SetPending
  <2> QED BY <1>4, <2>2, <2>3, <2>5 DEF p, c
<1> QED BY <1>3, <1>4

(* A disk's thread carries out a command: a read is answered, a write that *)
(* is refused is spoilt.                                                   *)
LEMMA UnitSrbKeepsDisk ==
  ASSUME Willing, IInv, CInv, DiskInv, IInv', CInv', NEW u \in Unit, UnitSrb(u)
  PROVE  ReadInv' /\ (Disk!Next \/ UNCHANGED Disk!vars)
<1> DEFINE y == unit[u]
           c == Head(y.queue)
<1>1. PICK s \in Unit : Phase(World, s)
  BY DEF CInv, PhaseInv
<1>2. /\ World.raid = raid /\ World.unit = unit /\ World'.unit = unit' /\ World'.raid = raid'
      /\ TypedUnit(y) /\ TypedWorld(World) /\ y.queue # <<>>
  BY Counted DEF World, IInv, UnitSrb
<1>3. PICK landed \in BOOLEAN : Replies(u, ProcessSrb(y, landed)[1], ProcessSrb(y, landed)[2])
  BY DEF UnitSrb, UnitStep, Replies, command
<1> DEFINE x == ProcessSrb(y, landed)[1]
           a == ProcessSrb(y, landed)[2]
<1>4. UNCHANGED history /\ cmd' = cmd /\ res' = res
  BY <1>3 DEF UnitSrb, UnitStep, Replies, command
<1>5. cmd \in Asked /\ cmd # NULL /\ ~Queued("srb") /\ PartOf(c)
  BY <1>2, DiskHasParts, CommandIsNotNull
<1>6. /\ y.pend = NULL /\ y.member
      /\ \/ Serves(y)
         \/ u = Other(s) /\ ~y.link /\ Is(y, "ConnectedRW", "broken")
         \/ u = Other(s) /\ Is(y, "NotPresent", "none")
  BY <1>1, <1>2, AskedDiskIs
<1>7. ~Running(y) \/ Is(y, "ConnectedRW", "up") \/ Is(y, "ConnectedRW", "broken")
  BY <1>6 DEF Serves, Running, Is
<1>8. /\ SameDisk(x, y) /\ x.queue = Tail(y.queue)
      /\ IF Is(y, "ConnectedRW", "up")
         THEN Is(x, "ConnectedRW", "up")
         ELSE Is(x, IF Running(y) THEN "ReconnectRW" ELSE y.status,
                    IF Running(y) THEN "none" ELSE y.sess)
      /\ x.pend # NULL => x.status = "ReconnectRW"
  BY <1>2, <1>6, <1>7, SrbTaken
<1>9. /\ raid' = raid /\ unit' = [unit EXCEPT ![u] = x]
      /\ unit'[u] = x /\ \A v \in Unit : v # u => unit'[v] = unit[v]
      /\ inbox' = IF a # NULL /\ y.member THEN Append(inbox, [k |-> "done", c |-> a]) ELSE inbox
  <2>1. Replies(u, x, a)
    BY <1>3
  <2> HIDE DEF x, a
  <2>2. /\ raid' = raid /\ unit' = [unit EXCEPT ![u] = x]
        /\ unit'[u] = x /\ \A v \in Unit : v # u => unit'[v] = unit[v]
    BY <2>1, RepliesKeepUnder
  <2>3. inbox' = IF a # NULL /\ y.member THEN Append(inbox, [k |-> "done", c |-> a]) ELSE inbox
    BY <2>1 DEF Replies
  <2> QED BY <2>2, <2>3
<1>10. /\ Serves(y) => Serves(x)
       /\ y.status = "NotPresent" => x.status = "NotPresent"
  BY <1>6, <1>8 DEF Serves, SameDisk, Is, Running
<1> HIDE DEF x, a
<1>12. Phase(World', s)
  <2>1. Serves(unit'[s])
    BY <1>1, <1>2, <1>9, <1>10 DEF Phase
  <2>2. raid'.sub[s] = "Good"
    BY <1>1, <1>2, <1>9 DEF Phase
  <2> QED BY <2>1, <2>2, PhaseKept
<1>13. Steady(s)
  BY <1>1, <1>9, <1>12, RaidStaysSteady
<1>14. ASSUME cmd.op = "read" PROVE ReadInv'
  <2> DEFINE e == [k |-> "done", c |-> a]
             v == World'
             w == World
  <2>1. /\ c.op = "read" /\ c.ok /\ c.lo <= c.hi
        /\ \A k \in Unit : IsQueue(unit[k].queue)
        /\ \A i \in DOMAIN x.queue : i + 1 \in DOMAIN y.queue /\ x.queue[i] = y.queue[i + 1]
    <3>1. 1 \in DOMAIN y.queue /\ y.queue[1] = c /\ \A k \in Unit : IsQueue(unit[k].queue)
      BY <1>2, QueueOf, Counted
    <3>2. \A i \in DOMAIN x.queue : i + 1 \in DOMAIN y.queue /\ x.queue[i] = y.queue[i + 1]
      BY <1>2, <1>8, <3>1, Tailed
    <3>3. c.ok
      BY <3>1 DEF CInv, PartsInv, AsSent
    <3>4. c.lo <= c.hi
      BY <1>5, <1>14, <3>1 DEF DiskInv, ReadInv
    <3> QED BY <1>5, <1>14, <3>1, <3>2, <3>3, <3>4 DEF PartOf
  <2>2. /\ x.pend = y.pend /\ a # NULL /\ Span(a) = Span(c)
        /\ IF Is(y, "ConnectedRW", "up") THEN ReadFrom(a, c, y) ELSE ~a.ok
    BY <1>2, <1>7, <2>1, ReadTaken DEF x, a
  <2>3. Phase(w, u) => Serves(y)
    BY <1>2 DEF Phase
  <2>4. Serves(y) => Phase(w, u)
    <3> SUFFICES ASSUME Serves(y), u # s PROVE Phase(w, u)
      BY <1>1
    <3>1. u = Other(s)
      BY TheOther
    <3>2. y.sess = "up" /\ y.status = "ConnectedRW"
      BY DEF Serves, Is
    <3>3. ~Unmarked(w, s) /\ ~Degraded(w, s)
      BY <1>2, <3>1, <3>2 DEF Unmarked, Degraded, Away, Is
    <3>4. ~Returned(w, s)
      BY <1>1, <1>2, <1>5, <1>14, <3>1 DEF DiskInv, ReadInv
    <3>5. raid.sub[u] = "Good"
      BY <1>1, <1>2, <3>1, <3>3, <3>4 DEF Phase, Mirrored
    <3> QED BY <1>1, <1>2, <3>5, ServesInPhase
  <2>5. Delivers(a) /\ (Phase(w, u) => a.ok /\ DOMAIN a.vals = Span(a))
    <3>1. Phase(w, u) => Is(y, "ConnectedRW", "up")
      BY <2>3 DEF Serves
    <3>2. Is(y, "ConnectedRW", "up") => Phase(w, u)
      <4>1. Is(y, "ConnectedRW", "up") => Serves(y)
        BY <1>6 DEF Is
      <4> QED BY <2>4, <4>1
    <3>3. CASE Phase(w, u)
      <4>1. ReadFrom(a, c, y) /\ \A b \in Block : y.data[b] \in want[b]
        BY <2>2, <3>1, <3>3, ServedIsCurrent DEF DiskInv
      <4> QED BY <2>1, <2>2, <4>1 DEF ReadFrom, Delivers, Current
    <3>4. CASE ~Phase(w, u)
      BY <2>2, <3>2, <3>4 DEF Delivers
    <3> QED BY <3>3, <3>4
  <2>6. inbox' = Append(inbox, e) /\ e.k = "done" /\ e.c = a /\ IsQueue(inbox)
    BY <1>6, <1>9, <2>2 DEF IInv
  <2> HIDE DEF e, c, y
  <2>7. Grows(inbox', inbox, e)
    BY <2>6, AnsweringAdded
  <2>8. ~Queued("srb")'
    <3>1. \A i \in DOMAIN inbox' : (i \in DOMAIN inbox /\ inbox'[i] = inbox[i]) \/ inbox'[i] = e
      BY <2>6, Appended
    <3> QED BY <1>5, <2>6, <3>1 DEF Queued
  <2>9. Covered(cmd, res, inbox', v)
    <3>1. CarriedOn(v, w)
      BY <1>5, <1>13, SteadyCarriesOn
    <3>2. Covered(cmd, res, inbox, w)
      BY <1>5, <1>14 DEF DiskInv, ReadInv
    <3>3. /\ IsQueue(w.unit[u].queue) /\ w.unit[u].queue # <<>>
          /\ v.unit[u].queue = Tail(w.unit[u].queue)
          /\ \A k \in Unit : k # u => v.unit[k].queue = w.unit[k].queue
          /\ Span(e.c) = Span(Head(w.unit[u].queue))
          /\ Phase(w, u) => e.c.ok /\ DOMAIN e.c.vals = Span(e.c)
      BY <1>2, <1>8, <1>9, <2>1, <2>2, <2>5, <2>6 DEF y, c
    <3> HIDE DEF v, w
    <3>4. Covered(cmd, res, Append(inbox, e), v)
      BY <2>6, <3>1, <3>2, <3>3, CoverAnswered
    <3> QED BY <2>6, <3>4
  <2>10. \A i \in Done(inbox') : Delivers(inbox'[i].c)
    BY <1>5, <1>14, <2>5, <2>6, <2>7 DEF Grows, DiskInv, ReadInv
  <2>11. \A k \in Unit : /\ unit'[k].pend = NULL
                         /\ \A i \in DOMAIN unit'[k].queue : unit'[k].queue[i].lo <= unit'[k].queue[i].hi
    BY <1>5, <1>6, <1>9, <1>14, <2>1, <2>2 DEF DiskInv, ReadInv, y
  <2>12. \A t \in Unit : Phase(World', t) /\ Returned(World', t) => unit'[Other(t)].queue = <<>>
    <3>1. unit[Other(s)].queue = <<>> => unit'[Other(s)].queue = <<>>
      BY <1>2, <1>9, TheOther DEF y
    <3>2. unit[Other(s)].status = "NotPresent" => unit'[Other(s)].status = "NotPresent"
      BY <1>9, <1>10, TheOther DEF y
    <3> QED BY <1>5, <1>13, <1>14, <3>1, <3>2, ReturnedIsIdle DEF DiskInv
  <2>13. want' = want /\ IsResult(res)' /\ Current(res.vals)'
    <3>1. IsResult(res) /\ Current(res.vals) /\ want' = want
      BY <1>4, <1>5, <1>14 DEF DiskInv, ReadInv, history
    <3> QED BY <1>4, <3>1 DEF IsResult, Current
  <2>14. \A i \in Done(inbox') : Delivers(inbox[i].c)'
    BY <2>10, <2>13 DEF Delivers, Current
  <2> QED BY <1>4, <2>8, <2>9, <2>11, <2>12, <2>13, <2>14 DEF ReadInv, v
<1>15. refused' = refused \/ (cmd.op = "write" /\ refused' = refused \cup {cmd.val})
  BY <1>5 DEF UnitSrb, Refusals, PartOf
<1>16. CASE refused' = refused
  BY <1>4, <1>14, <1>16, UnseenKeepsDisk
<1>17. CASE cmd.op = "write" /\ refused' = refused \cup {cmd.val}
  <2>1. ReadInv'
    BY <1>4, <1>17 DEF ReadInv
  <2>2. Disk!Spoil
    BY <1>4, <1>5, <1>17 DEF Disk!Spoil, history
  <2> QED BY <2>1, <2>2 DEF Disk!Next
<1> QED BY <1>15, <1>16, <1>17

-----------------------------------------------------------------------------
(* The worker takes an answer.                                             *)

(* It adds the answer to the result of the read, or asks for all of it     *)
(* again.                                                                  *)
LEMMA ReadContinued ==
  ASSUME IInv, CommandWanted, ReadInv, cmd \in Asked, cmd.op = "read", ~Queued("srb"),
         inbox # <<>>, Head(inbox).k = "done", inbox' = Tail(inbox), IsQueue(inbox'),
         NEW s \in Unit, Steady(s), NEW o, NEW c, c = Head(inbox).c,
         IF c.ok THEN NoneSent(o) /\ Merged(o.res, res, c)
                 ELSE o.res.vals = res.vals /\ Parted(o.to) /\ Whole(o.to[s]) /\ raid'.rs # "Good",
         \A u \in Unit : unit'[u].queue = IF o.to[u] # NULL THEN Append(unit[u].queue, o.to[u])
                                                           ELSE unit[u].queue
  PROVE  /\ Current(o.res.vals) /\ Covered(cmd, o.res, inbox', World')
         /\ \A u \in Unit : \A i \in DOMAIN unit'[u].queue : unit'[u].queue[i].lo <= unit'[u].queue[i].hi
         /\ \A i \in Done(inbox') : Delivers(inbox'[i].c)
<1> DEFINE v == World'
           w == World
<1>1. /\ cmd # NULL /\ v.unit = unit' /\ w.unit = unit /\ v.raid = raid'
      /\ IsFiniteSet(Span(cmd)) /\ IsQueue(inbox) /\ \A u \in Unit : IsQueue(unit[u].queue)
  <2>1. cmd.lo \in Nat /\ cmd.hi \in Nat /\ cmd.lo <= cmd.hi /\ cmd # NULL
    BY CommandIsNotNull, Numbers DEF Asked, CommandWanted
  <2>2. \A u \in Unit : IsQueue(unit[u].queue)
    BY Counted, QueueOf
  <2> QED BY <2>1, <2>2, SpanCounted DEF IInv, World
<1>2. /\ IsResult(res) /\ Current(res.vals) /\ Covered(cmd, res, inbox, w)
      /\ \A i \in Done(inbox) : Delivers(inbox[i].c)
      /\ \A u \in Unit : \A i \in DOMAIN unit[u].queue : unit[u].queue[i].lo <= unit[u].queue[i].hi
  BY <1>1 DEF ReadInv
<1>3. CarriedOn(v, w) /\ Phase(v, s)
  BY <1>1, SteadyCarriesOn DEF Steady
<1> HIDE DEF v, w
<1>4. Delivers(c) /\ \A i \in Done(inbox') : Delivers(inbox'[i].c)
  <2>1. /\ \A i \in Done(Tail(inbox)) : i + 1 \in Done(inbox) /\ Tail(inbox)[i] = inbox[i + 1]
        /\ inbox[1] = Head(inbox) /\ 1 \in Done(inbox)
    BY <1>1, AnsweringTaken
  <2> QED BY <1>2, <2>1
<1>5. CASE c.ok
  <2>1. \A u \in Unit : o.to[u] = NULL /\ unit'[u].queue = unit[u].queue
    BY <1>5 DEF NoneSent
  <2>2. Merged(o.res, res, c)
    BY <1>5
  <2>3. DOMAIN c.vals \in {{}, Span(c)} /\ c.xfer = Cardinality(DOMAIN c.vals) /\ Current(c.vals)
    BY <1>4, <1>5 DEF Delivers
  <2>4. Current(o.res.vals)
    BY <1>2, <2>2, <2>3 DEF Merged, Current
  <2>5. Covered(cmd, o.res, inbox', w)
    <3>1. DOMAIN o.res.vals = DOMAIN res.vals \cup DOMAIN c.vals /\ o.res.xfer = res.xfer + c.xfer
      BY <2>2 DEF Merged
    <3> QED BY <1>1, <1>2, <1>5, <2>3, <3>1, CoverMerged
  <2>6. Covered(cmd, o.res, inbox', v)
    BY <1>1, <1>3, <2>1, <2>5, CoverKept
  <2> QED BY <1>2, <1>4, <2>1, <2>4, <2>6 DEF v
<1>6. CASE ~c.ok
  <2>1. o.res.vals = res.vals /\ Parted(o.to) /\ Whole(o.to[s]) /\ raid'.rs # "Good"
    BY <1>6
  <2>2. \A u \in Unit : \A i \in DOMAIN unit'[u].queue : unit'[u].queue[i].lo <= unit'[u].queue[i].hi
    <3> SUFFICES ASSUME NEW u \in Unit, NEW i \in DOMAIN unit'[u].queue
                 PROVE  unit'[u].queue[i].lo <= unit'[u].queue[i].hi
      OBVIOUS
    <3>1. CASE o.to[u] = NULL
      BY <1>2, <3>1
    <3>2. CASE o.to[u] # NULL
      <4>1. \/ i \in DOMAIN unit[u].queue /\ unit'[u].queue[i] = unit[u].queue[i]
            \/ unit'[u].queue[i] = o.to[u]
        <5>1. IsQueue(unit[u].queue) /\ unit'[u].queue = Append(unit[u].queue, o.to[u])
          BY <1>1, <3>2
        <5> QED BY <5>1, Appended
      <4>2. o.to[u].lo <= o.to[u].hi
        BY <2>1, <3>2 DEF Parted
      <4> QED BY <1>2, <4>1, <4>2
    <3> QED BY <3>1, <3>2
  <2>3. Covered(cmd, o.res, inbox', v)
    <3> DEFINE i == Len(unit[s].queue) + 1
    <3>1. o.to[s] # NULL /\ Span(o.to[s]) = Span(cmd)
      BY <2>1 DEF Whole
    <3>2. i \in DOMAIN unit'[s].queue /\ unit'[s].queue[i] = o.to[s]
      <4>1. IsQueue(unit[s].queue) /\ unit'[s].queue = Append(unit[s].queue, o.to[s])
        BY <1>1, <3>1
      <4> QED BY <4>1, Appended
    <3> HIDE DEF i
    <3>3. Sure(cmd, o.res, inbox', v)
      BY <1>1, <1>3, <2>1, <3>1, <3>2 DEF Sure
    <3> QED BY <3>3 DEF Covered
  <2> QED BY <1>2, <1>4, <2>1, <2>2, <2>3 DEF v
<1> QED BY <1>5, <1>6

(* The host is answered: as one disk would answer it.                      *)
LEMMA AnswerIsDisks ==
  ASSUME IInv, cmd \in Asked, cmd.op = "write" => cmd.lo = cmd.hi, NEW r, Answered(r, cmd), refused' = refused,
         cmd.op = "read" => /\ Current(r.vals)
                            /\ r.xfer >= cmd.hi - cmd.lo + 1 => Span(cmd) \subseteq DOMAIN r.vals
  PROVE  Disk!Next
<1> DEFINE full == r.ok /\ r.xfer >= cmd.hi - cmd.lo + 1
<1>1. /\ cmd # NULL /\ cmd' = NULL
      /\ reply' = [full |-> full, vals |-> IF full THEN r.vals ELSE <<>>]
      /\ want' = IF full /\ cmd.op = "write" /\ cmd.val \notin refused
                  THEN [want EXCEPT ![cmd.lo] = {cmd.val}] ELSE want
  BY CommandIsNotNull DEF Answered
<1>2. /\ cmd.lo \in Block /\ cmd.lo \in Nat /\ cmd.hi \in Nat /\ \A b \in Block : b \in Int
      /\ want \in [Block -> SUBSET Written]
  <2>1. Block \subseteq Nat /\ \A k \in Nat : k \in Int
    BY Numbers
  <2>2. cmd.lo \in Block /\ cmd.hi \in Block /\ want \in [Block -> SUBSET Written]
    BY DEF Asked, IInv
  <2> QED BY <2>1, <2>2
<1>3. full \in BOOLEAN
  OBVIOUS
<1> HIDE DEF full
<1>4. CASE ~full
  BY <1>1, <1>3, <1>4 DEF Disk!Next, Disk!Refuse
<1>5. CASE full
  <2>1. reply' = [full |-> TRUE, vals |-> r.vals] /\ reply'.vals = r.vals
    BY <1>1, <1>3, <1>5
  <2>2. CASE cmd.op = "write"
    <3>1. Disk!Range(cmd) = {cmd.lo}
      BY <1>2, <2>2 DEF Disk!Range
    <3>2. want' = [b \in Block |-> IF b = cmd.lo /\ cmd.val \notin refused THEN {cmd.val} ELSE want[b]]
      BY <1>1, <1>2, <1>5, <2>2
    <3>3. want' = [b \in Block |-> IF b \in Disk!Range(cmd) /\ cmd.val \notin refused
                                   THEN {cmd.val} ELSE want[b]]
      BY <3>1, <3>2
    <3> QED BY <1>1, <2>1, <2>2, <3>3 DEF Disk!Next, Disk!Answer
  <2>3. CASE cmd.op # "write"
    <3>1. want' = want /\ cmd.op = "read"
      BY <1>1, <2>3 DEF Asked
    <3>2. Current(r.vals) /\ Span(cmd) \subseteq DOMAIN r.vals
      BY <1>5, <3>1 DEF full
    <3>3. \A b \in Disk!Range(cmd) : b \in DOMAIN r.vals /\ r.vals[b] \in want[b]
      BY <1>2, <3>2 DEF Disk!Range, Span, Current
    <3> QED BY <1>1, <2>1, <2>3, <3>1, <3>3 DEF Disk!Next, Disk!Answer
  <2> QED BY <2>2, <2>3
<1> QED BY <1>4, <1>5

(* Without a command no answer is on its way, and no disk has one to carry *)
(* out.                                                                    *)
LEMMA NothingUnderWay ==
  IInv /\ CInv /\ cmd = NULL => Done(inbox) = {} /\ \A u \in Unit : unit[u].queue = <<>>
<1> SUFFICES ASSUME IInv, CInv, cmd = NULL
             PROVE  Done(inbox) = {} /\ \A u \in Unit : unit[u].queue = <<>>
  OBVIOUS
<1>1. CountMatches /\ count = 0
  BY DEF CInv, CountMatches
<1>2. ~Queued("done") /\ \A u \in Unit : unit[u].queue = <<>>
  BY <1>1, NothingLeft
<1> QED BY <1>2 DEF Done, Queued

(* The worker takes an answer; with the last one the host gets its own,    *)
(* one that the one disk could have given.                                 *)
LEMMA WorkerCompletedKeepsDisk ==
  ASSUME Willing, IInv, CInv, DataInv, DiskInv, IInv', CInv', WorkerCompleted
  PROVE  ReadInv' /\ (Disk!Next \/ UNCHANGED Disk!vars)
<1> DEFINE c == Head(inbox).c
           n == count - 1
           y == UpdateRAIDStatus(World)
<1>1. PICK s \in Unit : Phase(World, s)
  BY DEF CInv, PhaseInv
<1>2. Handled(World) /\ World.raid = raid /\ World.unit = unit /\ count \in Nat
  BY Counted DEF World
<1>3. /\ Queued("done") /\ (Queued("srb")' => Queued("srb")) /\ inbox # <<>> /\ inbox' = Tail(inbox)
      /\ 1 \in DOMAIN inbox /\ inbox[1] = Head(inbox) /\ Head(inbox).k = "done"
  BY HeadTaken DEF WorkerCompleted
<1>4. count # 0 /\ n \in Nat /\ IsQueue(inbox')
  <2>1. count # 0
    BY <1>2, <1>3, NothingLeft DEF CInv
  <2>2. IsQueue(inbox')
    BY InboxShrinks DEF WorkerCompleted
  <2> QED BY <1>2, <2>1, <2>2
<1>5. cmd # NULL /\ cmd \in Asked /\ ~Queued("srb") /\ ~Queued("srb")'
  BY <1>3, <1>4 DEF CInv, CountMatches, CommandInv, IInv
<1>6. c.op = cmd.op
  BY <1>3 DEF CInv, PartsInv, PartOf
<1>7. SameButStatus(y, World) /\ Phase(y, s)
  BY <1>1, <1>2, PhaseUpdated
<1>8. ~c.ok /\ c.op = "read" => y.raid.rs # "Good"
  <2>1. ~c.ok /\ c.op = "read" => Failing
    BY <1>3 DEF Failing
  <2> HIDE DEF y
  <2>2. Failing => y.raid.rs # "Good"
    BY <1>1, <1>7, UpdateIsGood DEF y
  <2> QED BY <2>1, <2>2
<1>9. PICK o \in {ProcessSrbCompleted(World, c, n)} : Settle(o, n)
  BY DEF WorkerCompleted
<1> HIDE DEF c, n
<1>10. /\ TypedOutcome(o)
       /\ SameButStatus(o.w, World) /\ Phase(o.w, s) /\ o.w.raid.rs = y.raid.rs
       /\ \/ NoneSent(o) /\ (o.fin <=> n = 0)
          \/ /\ ~NoneSent(o) /\ ~o.fin /\ o.w.raid.rs # "Good" /\ cmd.op = "read"
             /\ \A u \in Unit : MaySend(o.w, o.to, u) /\ (o.to[u] # NULL => u = s)
  BY <1>1, <1>2, <1>5, <1>6, <1>8, <1>9, CompletedOutcome
<1>11. Goes(raid.rs, o.w.raid.rs) /\ o.w.unit = unit
  BY <1>1, <1>2, <1>10, UpdateGoes DEF SameButStatus
<1>12. cmd.op = "read" =>
         /\ IsResult(o.res)
         /\ IF c.ok THEN NoneSent(o) /\ Merged(o.res, res, c)
                    ELSE ~o.fin /\ o.res.vals = res.vals /\ Parted(o.to) /\ Whole(o.to[s])
  BY <1>1, <1>2, <1>5, <1>6, <1>8, <1>9, ReadAnswered DEF DiskInv, CommandWanted, ReadInv
<1> HIDE DEF y
<1>13. \A u \in Unit : MaySend(o.w, o.to, u) /\ (o.to[u] # NULL => u = s /\ o.w.raid.rs # "Good")
  BY <1>10 DEF NoneSent, MaySend
<1>14. /\ IF o.w.raid.rs = "GoodButPartiallyFailed" THEN raid'.rs = "BrokenButWorkable"
                                                    ELSE raid' = o.w.raid
       /\ \A u \in Unit : /\ unit'[u].status = o.w.unit[u].status /\ unit'[u].pend = unit[u].pend
                          /\ unit'[u].queue = IF o.to[u] # NULL THEN Append(unit[u].queue, o.to[u])
                                                                ELSE unit[u].queue
       /\ count' = 0 <=> n = 0 /\ \A u \in Unit : o.to[u] = NULL
       /\ IF cmd # NULL /\ o.fin THEN cmd' = NULL ELSE cmd' = cmd
  BY <1>4, <1>9, <1>10, <1>13, Settled
<1>15. Steady(s)
  BY <1>1, <1>9, <1>10, <1>11, SettledSteady DEF Goes
<1>16. /\ res' = o.res /\ (IF o.fin THEN Answered(o.res, cmd) ELSE UNCHANGED history)
       /\ refused' = refused
  <2>1. res' = o.res /\ AnsweredIf(o.fin, AfterCommand(o.w).raid.rs, o.res)
    BY <1>9 DEF Settle
  <2>2. AfterCommand(o.w).raid.rs # "Broken"
    <3>1. Phase(AfterCommand(o.w), s)
      BY <1>10, LossIsNoted DEF TypedOutcome
    <3> QED BY <3>1 DEF Phase, Mirrored, Unmarked, Degraded, Returned
  <2>3. refused' = refused
    BY DEF WorkerCompleted, faults
  <2> QED BY <1>5, <1>14, <2>1, <2>2, <2>3 DEF AnsweredIf, history
<1>17. cmd.op = "read" =>
         /\ Current(o.res.vals) /\ Covered(cmd, o.res, inbox', World')
         /\ \A u \in Unit : \A i \in DOMAIN unit'[u].queue :
              unit'[u].queue[i].lo <= unit'[u].queue[i].hi
         /\ \A i \in Done(inbox') : Delivers(inbox'[i].c)
  <2> SUFFICES ASSUME cmd.op = "read"
               PROVE  /\ Current(o.res.vals) /\ Covered(cmd, o.res, inbox', World')
                      /\ \A u \in Unit : \A i \in DOMAIN unit'[u].queue :
                           unit'[u].queue[i].lo <= unit'[u].queue[i].hi
                      /\ \A i \in Done(inbox') : Delivers(inbox'[i].c)
    OBVIOUS
  <2>1. ~c.ok => raid'.rs # "Good"
    BY <1>6, <1>8, <1>10, <1>14
  <2>2. IF c.ok THEN NoneSent(o) /\ Merged(o.res, res, c)
                ELSE o.res.vals = res.vals /\ Parted(o.to) /\ Whole(o.to[s]) /\ raid'.rs # "Good"
    BY <1>12, <2>1
  <2>3. CommandWanted /\ ReadInv
    BY DEF DiskInv
  <2>4. c = Head(inbox).c
    BY DEF c
  <2>5. \A u \in Unit : unit'[u].queue = IF o.to[u] # NULL THEN Append(unit[u].queue, o.to[u])
                                                            ELSE unit[u].queue
    BY <1>14
  <2> QED BY <1>3, <1>4, <1>5, <1>15, <2>2, <2>3, <2>4, <2>5, ReadContinued
<1>18. CASE ~o.fin
  <2>1. cmd' = cmd /\ UNCHANGED history /\ want' = want
    BY <1>14, <1>16, <1>18 DEF history
  <2>2. ASSUME cmd.op = "read" PROVE ReadInv'
    <3>1. IsResult(res)' /\ Current(res.vals)'
      BY <1>12, <1>16, <1>17, <2>1, <2>2 DEF IsResult, Current
    <3>2. Covered(cmd', res', inbox', World')
      BY <1>16, <1>17, <2>1, <2>2
    <3>3. \A i \in Done(inbox') : Delivers(inbox[i].c)'
      BY <1>17, <2>1, <2>2 DEF Delivers, Current
    <3>4. \A u \in Unit : /\ unit'[u].pend = NULL
                          /\ \A i \in DOMAIN unit'[u].queue : unit'[u].queue[i].lo <= unit'[u].queue[i].hi
      BY <1>5, <1>14, <1>17, <2>2 DEF DiskInv, ReadInv
    <3>5. \A t \in Unit : Phase(World', t) /\ Returned(World', t) => unit'[Other(t)].queue = <<>>
      <4>1. /\ unit'[Other(s)].queue = unit[Other(s)].queue
            /\ unit'[Other(s)].status = unit[Other(s)].status
        BY <1>11, <1>13, <1>14, TheOther
      <4> QED BY <1>5, <1>15, <2>2, <4>1, ReturnedIsIdle DEF DiskInv
    <3> QED BY <1>5, <3>1, <3>2, <3>3, <3>4, <3>5 DEF ReadInv
  <2> QED BY <1>16, <2>1, <2>2, UnseenKeepsDisk
<1>19. CASE o.fin
  <2>1. cmd' = NULL /\ Answered(o.res, cmd) /\ cmd.op \in {"read", "write"}
    BY <1>5, <1>14, <1>16, <1>19 DEF Asked
  <2>2. Done(inbox') = {} /\ \A u \in Unit : unit'[u].queue = <<>>
    <3>1. (IInv /\ CInv /\ cmd = NULL => Done(inbox) = {} /\ \A u \in Unit : unit[u].queue = <<>>)'
      BY NothingUnderWay, PTL
    <3> QED BY <2>1, <3>1
  <2>3. cmd.op = "read" /\ o.res.xfer >= cmd.hi - cmd.lo + 1 => Span(cmd) \subseteq DOMAIN o.res.vals
    <3> SUFFICES ASSUME cmd.op = "read", o.res.xfer >= cmd.hi - cmd.lo + 1
                 PROVE  Span(cmd) \subseteq DOMAIN o.res.vals
      OBVIOUS
    <3> DEFINE v == World'
    <3>1. v.unit = unit' /\ Covered(cmd, o.res, inbox', v)
      BY <1>17 DEF World
    <3> HIDE DEF v
    <3>2. cmd.lo \in Nat /\ cmd.hi \in Nat /\ cmd.lo <= cmd.hi
      BY <1>5, Numbers DEF Asked, DiskInv, CommandWanted
    <3>3. IsFiniteSet(Span(cmd)) /\ o.res.xfer >= Cardinality(Span(cmd))
      BY <3>2, SpanCounted
    <3> QED BY <2>2, <3>1, <3>3, CoverFull
  <2>4. Disk!Next
    BY <1>5, <1>16, <1>17, <2>1, <2>3, AnswerIsDisks DEF DiskInv, CommandWanted
  <2>6. ReadInv'
    BY <2>1 DEF ReadInv
  <2> QED BY <2>4, <2>6
<1> QED BY <1>18, <1>19

-----------------------------------------------------------------------------
(* The mirror is one disk.                                                 *)

LEMMA InitDiskInv == Init => DiskInv /\ Disk!Init
<1> SUFFICES ASSUME Init PROVE DiskInv /\ Disk!Init
  OBVIOUS
<1>1. /\ \A u \in Unit : unit[u].data = [b \in Block |-> 0]
      /\ cmd = NULL /\ reply = NULL /\ want = [b \in Block |-> {0}] /\ refused = {}
  BY DEF Init
<1>2. \A s \in Unit : Current(unit[s].data)
  BY <1>1 DEF Current
<1> QED BY <1>1, <1>2 DEF DiskInv, CommandWanted, ServedInv, ReadInv, Disk!Init

(* Every step of the mirror is a step of one disk, or one the host does    *)
(* not see.                                                                *)
LEMMA StepDiskInv ==
  ASSUME Careful, Willing, IInv, CInv, DataInv, DiskInv, [Next]_vars
  PROVE  DiskInv' /\ [Disk!Next]_Disk!vars
<1>1. CommandWanted
  BY DEF DiskInv
<1>2. IInv' /\ CInv' /\ CommandWanted' /\ DataInv'
  BY <1>1, StepIInv, StepCInv, StepDataInv
<1>3. ServedInv'
  <2>1. (IInv /\ DataInv => ServedInv)'
    BY DataServes, PTL
  <2> QED BY <1>2, <2>1
<1>4. ReadInv' /\ [Disk!Next]_Disk!vars
  <2>2. ASSUME NEW op \in {"read", "write"}, NEW lo \in Block, NEW hi \in Block,
               op = "write" => lo = hi, lo = hi \/ (lo = 0 /\ hi = Capacity - 1), Issue(op, lo, hi)
        PROVE  ReadInv' /\ [Disk!Next]_Disk!vars
    BY <1>2, <2>2, IssueKeepsDisk
  <2>3. ASSUME NEW u \in Unit, SwitchOff(u) \/ SwitchOn(u)
        PROVE  ReadInv' /\ [Disk!Next]_Disk!vars
    BY <1>2, <2>3, SwitchOffKeepsDisk, SwitchOnKeepsDisk
  <2>15. ASSUME NEW u \in Unit, NEW k \in Kind, Falter(u, k)
         PROVE  ReadInv' /\ [Disk!Next]_Disk!vars
    BY <1>2, <2>15, FalterKeepsDisk
  <2>4. CASE WorkerSrb
    BY <1>2, <2>4, WorkerSrbKeepsDisk
  <2>5. CASE WorkerCompleted
    BY <1>2, <2>5, WorkerCompletedKeepsDisk
  <2>6. CASE WorkerNoPnp
    BY <1>2, <2>6, WorkerNoPnpKeepsDisk
  <2>7. CASE WorkerPnp
    BY <1>2, <2>7, WorkerPnpKeepsDisk
  <2>8. CASE TimedOut
    BY <1>2, <2>8, TimedOutKeepsDisk
  <2>9. CASE Recover
    BY <1>2, <2>9, RecoverKeepsDisk
  <2>10. ASSUME NEW u \in Unit, UnitSrb(u) PROVE ReadInv' /\ [Disk!Next]_Disk!vars
    BY <1>2, <2>10, UnitSrbKeepsDisk
  <2>11. ASSUME NEW u \in Unit, UnitGone(u) PROVE ReadInv' /\ [Disk!Next]_Disk!vars
    BY <1>2, <2>11, UnitGoneKeepsDisk
  <2>12. ASSUME NEW u \in Unit, BusRemoves(u) \/ Appear(u)
         PROVE  ReadInv' /\ [Disk!Next]_Disk!vars
    BY <1>2, <2>12, BusKeepsDisk
  <2>13. ASSUME NEW u \in Unit, NEW late \in BOOLEAN, NEW asked \in BOOLEAN, UnitPnp(u, late, asked)
         PROVE  ReadInv' /\ [Disk!Next]_Disk!vars
    BY <1>2, <2>13, UnitPnpKeepsDisk
  <2>14. CASE UNCHANGED vars
    <3>1. World' = World /\ UNCHANGED <<command, inbox, history, refused>>
      BY <2>14 DEF vars, World, command, history
    <3> QED BY <1>2, <3>1, SameWorldKeepsDisk
  <2> QED BY <2>2, <2>3, <2>4, <2>5, <2>6, <2>7, <2>8, <2>9, <2>10, <2>11, <2>12, <2>13, <2>14, <2>15
          DEF Next, Environment
<1> QED BY <1>2, <1>3, <1>4 DEF DiskInv

(* The array is one disk to the host: a write that is answered in full is  *)
(* there for every later read, unless a disk refused it, and a read that   *)
(* is answered in full returns what its blocks may hold, whichever disks   *)
(* its parts were sent to, in whatever order they are answered, and though *)
(* a disk is lost, or found again and copied to, meanwhile                 *)
(* (processSrbCompletedCommand of NDASRAIDUnitDeviceController.cpp).  What *)
(* is assumed is a careful environment (Careful), and disks that refuse    *)
(* only writes and the recovery's I/O (Willing).                           *)
THEOREM MirrorIsOneDisk == ASSUME Careful, Willing PROVE Spec => DiskSpec
<1>1. Init => DiskInv /\ Disk!Init
  BY InitDiskInv
<1>2. IInv /\ CInv /\ DataInv /\ DiskInv /\ [Next]_vars => DiskInv' /\ [Disk!Next]_Disk!vars
  BY StepDiskInv
<1> QED BY <1>1, <1>2, DataInvAlways, PTL DEF Spec, DiskSpec, Disk!Spec

=============================================================================

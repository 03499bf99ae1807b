------------------------ MODULE RaidMirrorCountProofs ------------------------
(***************************************************************************)
(* Every step of a mirror whose outages and commands keep out of the       *)
(* windows that Careful closes leaves it in one of its phases, and the     *)
(* worker with the exact number of the answers that it waits for.          *)
(***************************************************************************)
EXTENDS RaidMirrorPhaseProofs

-----------------------------------------------------------------------------
(* Queues.                                                                 *)

LEMMA Appended ==
  ASSUME NEW q, IsQueue(q), NEW e
  PROVE  LET t == Append(q, e)
         IN  /\ t # <<>> /\ Head(t) = IF q = <<>> THEN e ELSE Head(q)
             /\ \A i \in DOMAIN q : i \in DOMAIN t /\ t[i] = q[i]
             /\ \A i \in DOMAIN t : i \in DOMAIN q \/ (i = Len(q) + 1 /\ t[i] = e)
             /\ Len(q) + 1 \in DOMAIN t /\ t[Len(q) + 1] = e
<1> DEFINE t == Append(q, e)
<1>1. PICK S : q \in Seq(S)
  BY DEF IsQueue
<1>2. q \in Seq(S \cup {e}) /\ e \in S \cup {e}
  BY <1>1, SeqMonotonic
<1>3. /\ t \in Seq(S \cup {e}) /\ Len(t) = Len(q) + 1 /\ Len(q) \in Nat
      /\ \A i \in 1 .. Len(q) : t[i] = q[i]
      /\ t[Len(q) + 1] = e
      /\ DOMAIN t = 1 .. Len(t) /\ DOMAIN q = 1 .. Len(q)
  BY <1>1, <1>2, AppendProperties, LenProperties
<1>4. t # <<>> /\ Head(t) = t[1]
  BY <1>3
<1>5. q # <<>> => Len(q) > 0 /\ Head(q) = q[1]
  BY <1>1, <1>3, HeadTailProperties, EmptySeq
<1>6. q = <<>> => Len(q) = 0
  OBVIOUS
<1> HIDE DEF t
<1>7. Head(t) = IF q = <<>> THEN e ELSE Head(q)
  BY <1>3, <1>4, <1>5, <1>6
<1>8. \A i \in DOMAIN t : i \in DOMAIN q \/ (i = Len(q) + 1 /\ t[i] = e)
  BY <1>3
<1>9. Len(q) + 1 \in DOMAIN t /\ \A i \in DOMAIN q : i \in DOMAIN t /\ t[i] = q[i]
  BY <1>3
<1> QED BY <1>3, <1>4, <1>7, <1>8, <1>9 DEF t

LEMMA Tailed ==
  ASSUME NEW q, IsQueue(q), q # <<>>
  PROVE  LET t == Tail(q)
         IN  /\ DOMAIN q \subseteq Nat /\ 1 \in DOMAIN q /\ q[1] = Head(q)
             /\ \A i \in DOMAIN t : i \in Nat /\ i # 0 /\ i + 1 \in DOMAIN q /\ t[i] = q[i + 1]
             /\ \A i \in DOMAIN q : i # 1 => i - 1 \in DOMAIN t /\ t[i - 1] = q[i]
             /\ Len(q) <= 1 => t = <<>>
<1> DEFINE t == Tail(q)
<1>1. PICK S : q \in Seq(S)
  BY DEF IsQueue
<1>2. /\ t \in Seq(S) /\ Len(t) = Len(q) - 1 /\ Len(q) \in Nat /\ Len(q) > 0
      /\ \A i \in 1 .. Len(t) : t[i] = q[i + 1]
      /\ DOMAIN t = 1 .. Len(t) /\ DOMAIN q = 1 .. Len(q) /\ Head(q) = q[1]
  BY <1>1, HeadTailProperties, LenProperties, EmptySeq
<1>3. Len(q) <= 1 => t = <<>>
  BY <1>2, EmptySeq
<1> HIDE DEF t
<1>4. \A i \in DOMAIN t : i \in Nat /\ i # 0 /\ i + 1 \in DOMAIN q /\ t[i] = q[i + 1]
  BY <1>2
<1>5. \A i \in DOMAIN q : i # 1 => i - 1 \in DOMAIN t /\ t[i - 1] = q[i]
  BY <1>2
<1> QED BY <1>2, <1>3, <1>4, <1>5 DEF t

LEMMA QueueOf ==
  ASSUME NEW x, TypedUnit(x)
  PROVE  /\ IsQueue(x.queue) /\ Len(x.queue) \in Nat
         /\ Len(x.queue) = 0 <=> x.queue = <<>>
         /\ x.queue # <<>> => Head(x.queue) = x.queue[1] /\ 1 \in DOMAIN x.queue
         /\ \A i \in DOMAIN x.queue : x.queue[i] \in Request
<1>1. x.queue \in Seq(Request)
  BY DEF TypedUnit, UnitType
<1>2. IsQueue(x.queue)
  BY <1>1 DEF IsQueue
<1>3. Len(x.queue) \in Nat /\ (Len(x.queue) = 0 <=> x.queue = <<>>)
      /\ DOMAIN x.queue = 1 .. Len(x.queue)
  BY <1>1, LenProperties, EmptySeq
<1>4. \A i \in DOMAIN x.queue : x.queue[i] \in Request
  BY <1>1, <1>3, ElementOfSeq
<1>5. x.queue # <<>> => Head(x.queue) = x.queue[1] /\ 1 \in DOMAIN x.queue
  BY <1>2, Tailed
<1> QED BY <1>2, <1>3, <1>4, <1>5

(* A command and its answer are not NULL.                                  *)
Answer(m) == [op : {"read", "write"}, lo : Int, hi : Int, val : Int,
              ok : BOOLEAN, xfer : Int, vals : [m -> Int]]

LEMMA CommandIsNotNull ==
  /\ NULL \notin Asked /\ NULL \notin Request
  /\ Request \subseteq Answer({})
  /\ \A m \in SUBSET (0..Capacity) : NULL \notin Answer(m)
<1>1. Block \subseteq Int /\ Written \subseteq Int
  BY Numbers DEF Written
<1>2. Asked \subseteq [op : {"read", "write"}, lo : Int, hi : Int, val : Int]
  BY <1>1 DEF Asked
<1>3. NULL \notin Asked
  BY <1>2, MirrorAssumption
<1>4. \A m \in SUBSET (0..Capacity) : NULL \notin Answer(m)
  BY MirrorAssumption DEF Answer
<1>5. <<>> \in [{} -> Int] /\ {} \in SUBSET (0..Capacity)
  OBVIOUS
<1>6. Request \subseteq Answer({})
  <2> SUFFICES ASSUME NEW c \in Request PROVE c \in Answer({})
    OBVIOUS
  <2>1. c.vals = <<>>
    BY DEF Request
  <2>2. c.vals \in [{} -> Int]
    BY <1>5, <2>1
  <2>3. /\ c = [op |-> c.op, lo |-> c.lo, hi |-> c.hi, val |-> c.val,
               ok |-> c.ok, xfer |-> c.xfer, vals |-> c.vals]
        /\ c.op \in {"read", "write"} /\ c.ok \in BOOLEAN
        /\ c.lo \in Block /\ c.hi \in Block /\ c.val \in Written /\ c.xfer = 0
    BY DEF Request
  <2>4. c.lo \in Int /\ c.hi \in Int /\ c.val \in Int /\ c.xfer \in Int
    BY <1>1, <2>3
  <2> QED BY <2>2, <2>3, <2>4 DEF Answer
<1>7. NULL \notin Answer({})
  BY <1>4, <1>5
<1>8. NULL \notin Request
  BY <1>6, <1>7
<1> QED BY <1>3, <1>4, <1>6, <1>8

(* Nothing is left of a command once no answer is to come.                 *)
LEMMA NoneToCome ==
  ASSUME NEW U, \A u \in Unit : TypedUnit(U[u]), NEW q, IsQueue(q),
         Pending(U[0]) + Pending(U[1]) + Cardinality(Done(q)) = 0
  PROVE  /\ \A u \in Unit : U[u].queue = <<>> /\ U[u].pend = NULL /\ Pending(U[u]) = 0
         /\ Cardinality(Done(q)) = 0 /\ Done(q) = {}
<1>1. \A u \in Unit : Pending(U[u]) \in Nat
  BY PendingIsNat
<1>2. IsFiniteSet(Done(q)) /\ Cardinality(Done(q)) \in Nat
  BY DoneIsFinite
<1>3. Pending(U[0]) = 0 /\ Pending(U[1]) = 0 /\ Cardinality(Done(q)) = 0
  <2>1. Pending(U[0]) \in Nat /\ Pending(U[1]) \in Nat
    BY <1>1 DEF Unit
  <2> QED BY <1>2, <2>1
<1>4. ASSUME NEW u \in Unit
      PROVE  U[u].queue = <<>> /\ U[u].pend = NULL /\ Pending(U[u]) = 0
  <2>1. Pending(U[u]) = 0
    BY <1>3 DEF Unit
  <2>2. OneIfAny(U[u].pend) \in {0, 1} /\ Len(U[u].queue) \in Nat
    BY OneOrNone, PendingIsNat
  <2>3. OneIfAny(U[u].pend) = 0 /\ Len(U[u].queue) = 0
    BY <2>1, <2>2 DEF Pending
  <2> QED BY <2>1, <2>3, QueueOf DEF OneIfAny
<1>5. Done(q) = {}
  BY <1>2, <1>3, FS_EmptySet
<1> QED BY <1>3, <1>4, <1>5

LEMMA NothingLeft ==
  ASSUME IInv, CountMatches, count = 0
  PROVE  /\ \A u \in Unit : unit[u].queue = <<>> /\ unit[u].pend = NULL /\ Pending(unit[u]) = 0
         /\ Unanswered(0) = 0 /\ Unanswered(1) = 0 /\ Answers = 0
         /\ ~Queued("done") /\ ~Failing
<1>1. /\ \A u \in Unit : TypedUnit(unit[u]) /\ Unanswered(u) = Pending(unit[u])
      /\ IsQueue(inbox) /\ Answers = Cardinality(Done(inbox))
      /\ Unanswered(0) = Pending(unit[0]) /\ Unanswered(1) = Pending(unit[1])
  BY Counted, UnansweredIsPending, AnswersAreDone DEF IInv
<1>2. Pending(unit[0]) + Pending(unit[1]) + Cardinality(Done(inbox)) = 0
  BY <1>1 DEF CountMatches
<1>3. /\ \A u \in Unit : unit[u].queue = <<>> /\ unit[u].pend = NULL /\ Pending(unit[u]) = 0
      /\ Cardinality(Done(inbox)) = 0 /\ Done(inbox) = {}
  BY <1>1, <1>2, NoneToCome
<1> QED BY <1>1, <1>3 DEF Done, Queued, Failing, Unit

(* Disks and answers that sum up to the count keep parts of a command only *)
(* while there is one.                                                     *)
LEMMA PartsGone ==
  ASSUME IInv', CountMatches', count' = 0
  PROVE  PartsInv'
<1>1. /\ \A u \in Unit : TypedUnit(unit'[u])
      /\ IsQueue(inbox') /\ Answers' = Cardinality(Done(inbox'))
      /\ Unanswered(0)' = Pending(unit'[0]) /\ Unanswered(1)' = Pending(unit'[1])
  BY DEF IInv, TypedWorld, World, Answers, Done, Unanswered, Pending, OneIfAny
<1>2. Pending(unit'[0]) + Pending(unit'[1]) + Cardinality(Done(inbox')) = 0
  BY <1>1 DEF CountMatches
<1>3. /\ \A u \in Unit : unit'[u].queue = <<>> /\ unit'[u].pend = NULL
      /\ Done(inbox') = {}
  BY <1>1, <1>2, NoneToCome
<1> QED BY <1>3 DEF PartsInv, AsSent, Done

-----------------------------------------------------------------------------
(* The status of the array from one phase to the next.                     *)

Missing(w) == \E u \in Unit : Missed(w.unit[u])

LEMMA MissingIsOther ==
  ASSUME NEW w, NEW s \in Unit, Serves(w.unit[s])
  PROVE  Missing(w) <=> Missed(w.unit[Other(s)])
BY TheOther DEF Missing, Missed, Serves, Is

LEMMA Rated ==
  ASSUME Willing, NEW w, Handled(w), NEW s \in Unit, Phase(w, s)
  PROVE  LET v == UpdateRAIDStatus(w)
         IN  /\ v.raid.rs = "Good" => w.raid.rs = "Good" /\ ~Missing(w) /\ ~w.raid.dirty
             /\ v.raid.rs = "GoodButPartiallyFailed" => w.raid.rs \in {"Good", "GoodButPartiallyFailed"}
             /\ v.raid.rs = "BrokenButWorkable" => w.raid.rs = "BrokenButWorkable" /\ Missing(w)
             /\ v.raid.rs = "ReadyToRecovery" =>
                  /\ ~w.raid.inRecovery
                  /\ w.raid.rs \in {"BrokenButWorkable", "ReadyToRecovery", "Recovering"}
                  /\ ~w.raid.dirty => w.raid.rs = "ReadyToRecovery"
             /\ v.raid.rs = "Recovering" => w.raid.inRecovery
             /\ w.raid.rs \in {"GoodButPartiallyFailed", "BrokenButWorkable"} /\ Missing(w) =>
                  v.raid.rs = w.raid.rs
             /\ v.raid.rs \in {"Good", "GoodButPartiallyFailed", "BrokenButWorkable",
                               "ReadyToRecovery", "Recovering"}
<1> DEFINE v == UpdateRAIDStatus(w)
<1>1. v.raid.rs = Rating(w, s)
  BY PhaseUpdated
<1> HIDE DEF v
<1>2. Missing(w) <=> Missed(w.unit[Other(s)])
  BY MissingIsOther DEF Phase
<1>3. CASE Mirrored(w, s)
  BY <1>1, <1>2, <1>3 DEF Mirrored, Rating, v
<1>4. CASE Unmarked(w, s)
  BY <1>1, <1>2, <1>4 DEF Unmarked, Rating, Away, Is, Missed, v
<1>5. CASE Degraded(w, s)
  BY <1>1, <1>2, <1>5 DEF Degraded, Rating, v
<1>6. CASE Returned(w, s)
  BY <1>1, <1>2, <1>6 DEF Returned, Rating, Back, Is, Missed, v
<1> QED BY <1>3, <1>4, <1>5, <1>6 DEF Phase

(* What is seen once is not seen otherwise when asked again.               *)
LEMMA UpdatedTwice ==
  ASSUME Willing, NEW w, Handled(w), NEW s \in Unit, Phase(w, s)
  PROVE  LET v == UpdateRAIDStatus(w)
             y == UpdateRAIDStatus(v)
         IN  SameButStatus(y, w) /\ Phase(y, s) /\ y.raid.rs = v.raid.rs /\ y.raid.sub = v.raid.sub
<1> DEFINE v == UpdateRAIDStatus(w)
           y == UpdateRAIDStatus(v)
           f == Other(s)
<1>1. /\ SameButStatus(v, w) /\ Phase(v, s) /\ v.raid.rs = Rating(w, s)
      /\ v.raid.sub[f] = Verdict(w, s)
  BY PhaseUpdated
<1>2. Handled(v)
  BY <1>1 DEF SameButStatus
<1> HIDE DEF v
<1>3. /\ SameButStatus(y, v) /\ Phase(y, s) /\ y.raid.rs = Rating(v, s)
      /\ y.raid.sub[f] = Verdict(v, s)
  BY <1>1, <1>2, PhaseUpdated
<1> HIDE DEF y
<1>4. Rating(v, s) = Rating(w, s) /\ Verdict(v, s) = Verdict(w, s)
  BY <1>1 DEF SameButStatus, SameArray, Rating, Verdict, Level
<1>5. SameButStatus(y, w)
  BY <1>1, <1>3 DEF SameButStatus, SameArray
<1>6. y.raid.sub = v.raid.sub
  <2>1. y.raid.sub[s] = "Good" /\ v.raid.sub[s] = "Good"
    BY <1>1, <1>3 DEF Phase
  <2>2. \A u \in Unit : y.raid.sub[u] = v.raid.sub[u]
    BY <1>1, <1>3, <1>4, <2>1, TheOther
  <2>3. y.raid.sub \in [Unit -> SubStatus] /\ v.raid.sub \in [Unit -> SubStatus]
    BY <1>1, <1>3 DEF SameButStatus, Handled, TypedWorld, RaidType
  <2> QED BY <2>2, <2>3
<1> QED BY <1>1, <1>3, <1>4, <1>5, <1>6 DEF v, y

-----------------------------------------------------------------------------
(* The parts of a command.                                                 *)

(* What is sent where: a part of the command as it was built, and none to  *)
(* a disk that cannot take it, or would hold two.                          *)
MaySend(w, to, u) ==
  to[u] # NULL => /\ to[u].ok /\ PartOf(to[u])
                  /\ Usable(w, u) /\ w.raid.sub[u] \in {"Good", "NeedRecovery", "Recovering"}

(* A command of the host is sent to one disk at least.                     *)
LEMMA CommandSends ==
  ASSUME Willing, NEW w, Handled(w), NEW s \in Unit, Phase(w, s), NEW r, cmd \in Asked,
         Unmarked(w, s) => cmd.op = "read"
  PROVE  LET o == ProcessSrbCommand(w, r)
         IN  /\ TypedOutcome(o) /\ Phase(o.w, s) /\ ~o.fin
             /\ o.w.raid.rs = w.raid.rs /\ o.w.raid.dirty = w.raid.dirty
             /\ o.w.raid.inRecovery = w.raid.inRecovery
             /\ \A u \in Unit : Untouched(o.w.unit[u], w.unit[u]) /\ MaySend(o.w, o.to, u)
             /\ \E u \in Unit : o.to[u] # NULL
             /\ cmd.op = "read" => o.w = w /\ \A u \in Unit : o.to[u] # NULL => Good(w, u)
             /\ cmd.op = "write" => o.w = NoteWrite(w) /\ o.to = PlanWrite(o.w)
<1> DEFINE o == ProcessSrbCommand(w, r)
           failed == Outcome(w, [r EXCEPT !.ok = FALSE], TRUE, ToNone)
           sent(to) == IF to = ToNone THEN failed ELSE Outcome(w, r, FALSE, to)
           noted(x) == Outcome(x, r, FALSE, PlanWrite(x))
<1>1. TypedOutcome(o)
  BY ProcessSrbCommandTyped
<1>2. cmd # NULL /\ RaidRunning(w)
  BY CommandIsNotNull DEF RaidRunning, Phase
<1>3. cmd.op \in {"read", "write"} /\ cmd.lo \in Block /\ cmd.hi \in Block /\ cmd.val \in Written
  BY DEF Asked
<1>4. \A u \in Unit : TypedUnit(w.unit[u])
  BY DEF Handled, TypedWorld
<1>5. Usable(w, s) /\ Good(w, s)
  BY DEF Phase, Serves, Is, Usable, Running, Connected, Good
<1>6. CASE cmd.op = "read"
  <2> DEFINE to == PlanRead(w)
             usable == {u \in Unit : Usable(w, u) /\ Good(w, u)}
             first == CHOOSE u \in usable : 0 \in usable => u = 0
             half == (cmd.hi - cmd.lo + 1) \div 2
             part(lo, hi) == Command("read", lo, hi, 0)
             both == [u \in Unit |-> IF u = 0 THEN part(cmd.lo, cmd.lo + half - 1)
                                              ELSE part(cmd.lo + half, cmd.hi)]
             one == [u \in Unit |-> IF usable # {} /\ u = first THEN part(cmd.lo, cmd.hi) ELSE NULL]
  <2>1. to \in {both, one} /\ (to = both => usable = Unit \/ both = one)
    BY DEF PlanRead
  <2>2. \A u \in Unit : to[u] \in {NULL} \cup Request
    BY <1>6, PlanReadTyped
  <2>3. \A lo, hi : part(lo, hi).op = "read" /\ part(lo, hi).ok
    BY DEF Command
  <2>4. s \in usable /\ usable \subseteq Unit
    BY <1>5
  <2>5. first \in usable
    <3> HIDE DEF usable
    <3>1. \E u \in usable : 0 \in usable => u = 0
      BY <2>4
    <3> QED BY <3>1
  <2>6. ASSUME NEW u \in Unit, to[u] # NULL
        PROVE  u \in usable /\ to[u].op = "read" /\ to[u].ok
    <3> HIDE DEF to, usable, first, half, part
    <3>1. CASE to = one
      BY <2>3, <2>5, <2>6, <3>1
    <3>2. CASE to = both /\ usable = Unit
      BY <2>3, <2>6, <3>2
    <3>3. CASE to = both /\ both = one
      BY <2>3, <2>5, <2>6, <3>3
    <3> QED BY <2>1, <3>1, <3>2, <3>3
  <2>7. ASSUME NEW lo \in Int, NEW hi \in Int PROVE part(lo, hi) # NULL
    <3>1. part(lo, hi) \in Answer({})
      <4>1. <<>> \in [{} -> Int]
        OBVIOUS
      <4> QED BY <4>1 DEF Command, Answer
    <3> QED BY <3>1, CommandIsNotNull
  <2>8. \E u \in Unit : to[u] # NULL
    <3>1. cmd.lo \in Int /\ cmd.hi \in Int
      <4>1. cmd.lo \in Nat /\ cmd.hi \in Nat
        BY <1>3, Numbers
      <4> QED BY <4>1
    <3>2. half \in Int /\ cmd.lo + half \in Int /\ cmd.lo + half - 1 \in Int
      BY <3>1
    <3> HIDE DEF to, usable, first, half, part
    <3>3. one[first] # NULL /\ first \in Unit
      BY <2>4, <2>5, <2>7, <3>1
    <3>4. both[0] # NULL /\ 0 \in Unit
      BY <2>7, <3>1, <3>2 DEF Unit
    <3> QED BY <2>1, <3>3, <3>4
  <2>9. o = sent(to)
    <3>1. o = Only({sent(q) : q \in {to}})
      BY <1>2, <1>6 DEF ProcessSrbCommand
    <3> HIDE DEF sent, to, o
    <3>2. {sent(q) : q \in {to}} = {sent(to)}
      OBVIOUS
    <3> QED BY <3>1, <3>2, OnlyOne
  <2>10. to # ToNone
    <3> HIDE DEF to
    <3> QED BY <2>8 DEF ToNone
  <2>11. o.w = w /\ ~o.fin /\ o.to = to
    <3> HIDE DEF to, o
    <3> QED BY <2>9, <2>10 DEF Outcome
  <2> HIDE DEF o, to
  <2>12. \A u \in Unit : to[u] # NULL => Usable(w, u) /\ Good(w, u) /\ to[u].ok /\ to[u].op = "read"
    BY <2>6
  <2>13. \A u \in Unit : MaySend(w, to, u)
    BY <1>6, <2>12 DEF MaySend, PartOf, Good
  <2>14. \A u \in Unit : Untouched(w.unit[u], w.unit[u])
    BY DEF Untouched, SameQueue
  <2> HIDE DEF usable
  <2> QED BY <1>1, <1>6, <2>8, <2>11, <2>12, <2>13, <2>14 DEF o
<1>7. CASE cmd.op = "write"
  <2> DEFINE x == NoteWrite(w)
             to == PlanWrite(x)
             c == Command("write", cmd.lo, cmd.hi, cmd.val)
  <2>1. /\ Handled(x) /\ Phase(x, s)
        /\ x.raid.rs = w.raid.rs /\ x.raid.sub = w.raid.sub
        /\ x.raid.dirty = w.raid.dirty /\ x.raid.inRecovery = w.raid.inRecovery
        /\ x.unit[Other(s)] = w.unit[Other(s)] /\ Untouched(x.unit[s], w.unit[s])
    <3>1. ~Unmarked(w, s)
      BY <1>7
    <3> QED BY <3>1, WriteNoted
  <2> HIDE DEF x
  <2>2. \A u \in Unit : Untouched(x.unit[u], w.unit[u])
    <3>1. Untouched(w.unit[Other(s)], w.unit[Other(s)])
      BY DEF Untouched, SameQueue
    <3> QED BY <2>1, <3>1, TheOther
  <2>3. o = noted(x)
    <3>1. o = Only({noted(q) : q \in {x}})
      BY <1>2, <1>7 DEF ProcessSrbCommand, x
    <3> HIDE DEF noted, o
    <3>2. {noted(q) : q \in {x}} = {noted(x)}
      OBVIOUS
    <3> QED BY <3>1, <3>2, OnlyOne
  <2> HIDE DEF o
  <2>4. o.w = x /\ ~o.fin /\ o.to = to
    BY <2>3 DEF Outcome
  <2>5. c \in Request /\ c # NULL /\ c.ok /\ PartOf(c)
    <3>1. c \in Request
      BY <1>3, CommandTyped
    <3>2. c.ok /\ c.op = "write" /\ c.lo = cmd.lo /\ c.val = cmd.val
      BY DEF Command
    <3> HIDE DEF c
    <3> QED BY <1>7, <3>1, <3>2, CommandIsNotNull DEF PartOf
  <2>6. to = [u \in Unit |-> IF Usable(x, u) /\ x.raid.sub[u] \in {"Good", "NeedRecovery", "Recovering"}
                             THEN c ELSE NULL]
    BY DEF PlanWrite
  <2> HIDE DEF c, to
  <2>7. \A u \in Unit : MaySend(x, to, u)
    BY <2>5, <2>6 DEF MaySend
  <2>8. Usable(x, s) /\ x.raid.sub[s] = "Good"
    BY <2>1 DEF Phase, Serves, Is, Usable, Running, Connected
  <2>9. to[s] # NULL
    BY <2>5, <2>6, <2>8
  <2>10. o.w = NoteWrite(w) /\ o.to = PlanWrite(o.w)
    BY <2>4 DEF x, to
  <2> QED BY <1>1, <1>7, <2>1, <2>2, <2>4, <2>7, <2>9, <2>10 DEF o
<1> QED BY <1>3, <1>6, <1>7

(* The commands of `to` are queued at the disks.                           *)
Sent(v, w, to) ==
  /\ v.raid = w.raid
  /\ \A u \in Unit : v.unit[u] = IF to[u] # NULL
                                 THEN [w.unit[u] EXCEPT !.queue = Append(@, to[u])] ELSE w.unit[u]

(* A phase lasts while commands are sent to disks that have none.          *)
LEMMA SendingKeepsPhase ==
  ASSUME Willing, NEW w, Handled(w), NEW s \in Unit, Phase(w, s), NEW to, NEW v, Sent(v, w, to),
         \A u \in Unit : MaySend(w, to, u) /\ (to[u] # NULL => to[u] \in Request),
         \A u \in Unit : to[u] # NULL =>
           Pending(w.unit[u]) = 0 \/ (u = s /\ w.raid.rs # "Good")
  PROVE  Phase(v, s)
<1> DEFINE f == Other(s)
<1>1. f \in Unit /\ f # s
  BY TheOther
<1>2. ASSUME NEW u \in Unit
      PROVE  LET x == v.unit[u]
                 y == w.unit[u]
             IN  /\ x.status = y.status /\ x.sess = y.sess /\ x.link = y.link /\ x.member = y.member
                 /\ x.pend = y.pend /\ x.mem = y.mem /\ x.rmd = y.rmd
                 /\ to[u] = NULL => x = y
                 /\ to[u] # NULL /\ Pending(y) = 0 => Pending(x) = 1
  <2> DEFINE y == w.unit[u]
             q == Append(y.queue, to[u])
  <2>1. TypedUnit(y)
    BY DEF Handled, TypedWorld
  <2>2. CASE to[u] # NULL
    <3>1. v.unit[u] = [y EXCEPT !.queue = q]
      BY <2>2 DEF Sent
    <3>2. Len(q) = Len(y.queue) + 1 /\ Len(y.queue) \in Nat
      BY <2>1, <2>2, AppendProperties, PendingIsNat DEF TypedUnit, UnitType
    <3> HIDE DEF q
    <3>3. v.unit[u].queue = q /\ v.unit[u].pend = y.pend
      BY <2>1, <3>1 DEF TypedUnit, UnitType
    <3>4. OneIfAny(y.pend) \in {0, 1}
      BY OneOrNone
    <3>5. Pending(y) = 0 => Pending(v.unit[u]) = 1
      BY <3>2, <3>3, <3>4 DEF Pending
    <3> QED BY <2>1, <2>2, <3>1, <3>5 DEF TypedUnit, UnitType
  <2>3. CASE to[u] = NULL
    BY <2>3 DEF Sent
  <2> QED BY <2>2, <2>3
<1>3. v.raid = w.raid /\ Serves(v.unit[s]) /\ Labelled(v, s) /\ (Level(v) <=> Level(w))
  <2>1. Level(v) <=> Level(w)
    BY <1>1, <1>2, LevelOf
  <2> QED BY <1>1, <1>2, <2>1 DEF Phase, Serves, Is, Labelled, Sent
<1>4. Tidy(v.unit[f])
  <2>1. CASE to[f] = NULL
    BY <1>1, <1>2, <2>1 DEF Phase
  <2>2. CASE to[f] # NULL
    <3>1. Pending(v.unit[f]) = 1 /\ Usable(w, f)
      BY <1>1, <1>2, <2>2 DEF MaySend
    <3>2. w.unit[f].status # "ReconnectRW" /\ w.unit[f].member
      <4>1. Running(w.unit[f]) /\ Connected(w.unit[f])
        BY <3>1 DEF Usable
      <4>2. CASE Mirrored(w, s)
        BY <4>1, <4>2 DEF Mirrored, Serves, Lost, Is, Running, Connected
      <4>3. CASE Returned(w, s)
        BY <4>1, <4>3 DEF Returned, Back, Is, Running, Connected
      <4>4. ~Unmarked(w, s) /\ ~Degraded(w, s)
        BY <1>1, <2>2 DEF MaySend, Unmarked, Degraded
      <4> QED BY <4>2, <4>3, <4>4 DEF Phase
    <3> QED BY <1>1, <1>2, <3>1, <3>2 DEF Phase, Tidy
  <2> QED BY <2>1, <2>2
<1>5. CASE Mirrored(w, s)
  <2>1. Pending(w.unit[s]) <= 1 => Pending(v.unit[s]) <= 1
    BY <1>2, <1>5 DEF Mirrored
  <2>2. /\ Serves(w.unit[f]) => Serves(v.unit[f])
        /\ Lost(w.unit[f]) => Lost(v.unit[f])
    BY <1>1, <1>2 DEF Serves, Lost, Is
  <2>3. Mirrored(v, s)
    BY <1>3, <1>5, <2>1, <2>2 DEF Mirrored
  <2> QED BY <1>3, <1>4, <2>3 DEF Phase
<1>6. CASE Unmarked(w, s) \/ Degraded(w, s)
  <2>1. v.unit[f] = w.unit[f]
    BY <1>1, <1>2, <1>6 DEF MaySend, Unmarked, Degraded
  <2>2. Unmarked(v, s) \/ Degraded(v, s)
    BY <1>3, <1>6, <2>1 DEF Unmarked, Degraded
  <2> QED BY <1>3, <1>4, <2>2 DEF Phase
<1>7. CASE Returned(w, s)
  <2>1. Back(v.unit[f])
    BY <1>1, <1>2, <1>7 DEF Returned, Back, Is
  <2>2. Returned(v, s)
    BY <1>1, <1>2, <1>3, <1>7, <2>1 DEF Returned
  <2> QED BY <1>3, <1>4, <2>2 DEF Phase
<1> QED BY <1>5, <1>6, <1>7 DEF Phase

(* What a handler of the worker leaves takes effect.                       *)
LEMMA Settled ==
  ASSUME Willing, IInv, NEW o, TypedOutcome(o), NEW n \in Nat, Settle(o, n), NEW s \in Unit, Phase(o.w, s),
         \A u \in Unit : MaySend(o.w, o.to, u),
         \A u \in Unit : o.to[u] # NULL =>
           Pending(unit[u]) = 0 \/ (u = s /\ o.w.raid.rs # "Good")
  PROVE  /\ PhaseInv'
         /\ IF o.w.raid.rs = "GoodButPartiallyFailed" THEN raid'.rs = "BrokenButWorkable"
                                                      ELSE raid' = o.w.raid
         /\ \A u \in Unit : /\ unit'[u].status = o.w.unit[u].status /\ unit'[u].pend = unit[u].pend
                            /\ unit'[u].queue = IF o.to[u] # NULL THEN Append(unit[u].queue, o.to[u])
                                                                  ELSE unit[u].queue
         /\ count' \in Nat /\ (count' = 0 <=> n = 0 /\ \A u \in Unit : o.to[u] = NULL)
         /\ IF cmd # NULL /\ o.fin THEN cmd' = NULL ELSE cmd' = cmd
<1> DEFINE w == AfterCommand(o.w)
           f == Other(s)
           sent == {u \in Unit : o.to[u] # NULL}
           U == [u \in Unit |-> IF u \in sent THEN [w.unit[u] EXCEPT !.queue = Append(@, o.to[u])]
                                             ELSE w.unit[u]]
<1>1. Handled(o.w) /\ \A u \in Unit : o.to[u] \in {NULL} \cup Request
  BY DEF TypedOutcome
<1>2. /\ Handled(w) /\ Phase(w, s) /\ w.raid.inRecovery = o.w.raid.inRecovery
      /\ w.unit[f] = o.w.unit[f] /\ Untouched(w.unit[s], o.w.unit[s])
      /\ IF o.w.raid.rs = "GoodButPartiallyFailed" THEN Degraded(w, s) ELSE w = o.w
  BY <1>1, LossIsNoted
<1>3. unit' = U /\ raid' = w.raid /\ AnsweredIf(o.fin, w.raid.rs, o.res)
      /\ count' = n + Cardinality(sent)
  BY DEF Settle
<1>4. f \in Unit /\ f # s /\ Unit = {s, f}
  BY TheOther
<1> HIDE DEF w
<1>5. \A u \in Unit : /\ w.unit[u].queue = unit[u].queue /\ w.unit[u].pend = unit[u].pend
                      /\ w.unit[u].status = o.w.unit[u].status /\ Pending(w.unit[u]) = Pending(unit[u])
  BY <1>2, <1>4 DEF Handled, SameQueue, Untouched, Pending
<1>6. \A u \in Unit : MaySend(w, o.to, u)
  <2>1. CASE o.w.raid.rs = "GoodButPartiallyFailed"
    <3>1. o.w.raid.sub[f] \in {"NotPresent", "Failure"}
      BY <2>1 DEF Phase, Mirrored, Unmarked, Degraded, Returned
    <3>2. o.to[f] = NULL
      BY <1>4, <3>1 DEF MaySend
    <3>3. w.raid.sub[s] = "Good" /\ Usable(w, s)
      BY <1>2 DEF Phase, Serves, Is, Usable, Running, Connected
    <3> QED BY <1>4, <3>2, <3>3 DEF MaySend
  <2>2. CASE o.w.raid.rs # "GoodButPartiallyFailed"
    BY <1>2, <2>2
  <2> QED BY <2>1, <2>2
<1>7. Phase(World', s)
  <2> DEFINE v == World'
  <2>1. v.raid = w.raid /\ v.unit = U
    BY <1>3 DEF World
  <2>2. Sent(v, w, o.to)
    BY <2>1 DEF Sent
  <2> HIDE DEF v, U, sent
  <2>3. \A u \in Unit : o.to[u] # NULL => Pending(w.unit[u]) = 0 \/ (u = s /\ w.raid.rs # "Good")
    BY <1>2, <1>5 DEF Degraded
  <2>4. \A u \in Unit : MaySend(w, o.to, u) /\ (o.to[u] # NULL => o.to[u] \in Request)
    BY <1>1, <1>6
  <2>5. Phase(v, s)
    BY <1>2, <2>2, <2>3, <2>4, SendingKeepsPhase
  <2> QED BY <2>5 DEF v
<1>8. PhaseInv'
  BY <1>7 DEF PhaseInv
<1>9. ASSUME NEW u \in Unit
      PROVE  /\ unit'[u].status = o.w.unit[u].status /\ unit'[u].pend = unit[u].pend
             /\ unit'[u].queue = IF o.to[u] # NULL THEN Append(unit[u].queue, o.to[u])
                                                   ELSE unit[u].queue
  <2> DEFINE q == Append(w.unit[u].queue, o.to[u])
  <2>1. unit'[u] = IF o.to[u] # NULL THEN [w.unit[u] EXCEPT !.queue = q] ELSE w.unit[u]
    BY <1>3
  <2>2. w.unit[u] \in UnitType
    BY <1>2 DEF Handled, TypedWorld
  <2>3. q = Append(unit[u].queue, o.to[u])
    BY <1>5
  <2> HIDE DEF q
  <2> QED BY <1>5, <2>1, <2>2, <2>3 DEF UnitType
<1>10. count' \in Nat /\ (count' = 0 <=> n = 0 /\ \A u \in Unit : o.to[u] = NULL)
  <2>1. sent \in SUBSET Unit
    OBVIOUS
  <2>2. sent = {} <=> \A u \in Unit : o.to[u] = NULL
    OBVIOUS
  <2> HIDE DEF sent
  <2>3. Cardinality(sent) = (IF 0 \in sent THEN 1 ELSE 0) + (IF 1 \in sent THEN 1 ELSE 0)
    BY <2>1, UnitsCounted
  <2>4. Cardinality(sent) \in Nat /\ (Cardinality(sent) = 0 <=> sent = {})
    BY <2>1, <2>3 DEF Unit
  <2> QED BY <1>3, <2>2, <2>4
<1>11. IF cmd # NULL /\ o.fin THEN cmd' = NULL ELSE cmd' = cmd
  <2>1. w.raid.rs # "Broken"
    BY <1>2 DEF Phase, Mirrored, Unmarked, Degraded, Returned
  <2> QED BY <1>3, <2>1 DEF AnsweredIf, Answered
<1>12. IF o.w.raid.rs = "GoodButPartiallyFailed" THEN raid'.rs = "BrokenButWorkable"
                                                 ELSE raid' = o.w.raid
  BY <1>2, <1>3 DEF Degraded
<1> QED BY <1>8, <1>9, <1>10, <1>11, <1>12

-----------------------------------------------------------------------------
(* The handlers of the worker.                                             *)

NoneSent(o) == \A u \in Unit : o.to[u] = NULL

(* What a handler may leave: the host is answered when nothing is to come, *)
(* and nothing waits that the worker would not hear of.                    *)
GoodOutcome(o, n, s) ==
  /\ TypedOutcome(o) /\ Phase(o.w, s)
  /\ \A u \in Unit : /\ o.w.unit[u].status = unit[u].status /\ MaySend(o.w, o.to, u)
                     /\ o.to[u] # NULL => Pending(unit[u]) = 0 \/ (u = s /\ o.w.raid.rs # "Good")
  /\ cmd = NULL \/ o.fin => n = 0 /\ NoneSent(o)
  /\ Queued("noPnp") => /\ o.w.raid.rs # "Good"
                        /\ o.w.raid.rs \in {"GoodButPartiallyFailed", "BrokenButWorkable"} =>
                             \E u \in Unit : unit[u].status = "NotPresent"
                        /\ o.w.raid.rs = "ReadyToRecovery" => o.w.raid.dirty
                        /\ o.w.raid.rs = "Recovering" => o.w.raid.inRecovery
  /\ Failing => o.w.raid.rs # "Good" \/ Missing(World)
  /\ o.w.raid.rs = "ReadyToRecovery" /\ ~o.w.raid.dirty => cmd = NULL

Next1(q, t) == t = q \/ (q # <<>> /\ t = Tail(q))

LEMMA HandlerKeeps ==
  ASSUME Willing, IInv, CInv, IInv', NEW o, NEW n \in Nat, NEW s \in Unit, GoodOutcome(o, n, s), Settle(o, n),
         Next1(inbox, inbox'), Answers' + count = Answers + n,
         Queued("srb")' => cmd # NULL /\ ~o.fin /\ n = 0 /\ NoneSent(o) /\ o.w.raid.rs # "ReadyToRecovery",
         cmd # NULL /\ ~o.fin => Queued("srb")' \/ n > 0 \/ ~NoneSent(o)
  PROVE  CInv'
<1>1. /\ PhaseInv'
      /\ IF o.w.raid.rs = "GoodButPartiallyFailed" THEN raid'.rs = "BrokenButWorkable"
                                                   ELSE raid' = o.w.raid
      /\ \A u \in Unit : /\ unit'[u].status = unit[u].status /\ unit'[u].pend = unit[u].pend
                         /\ unit'[u].queue = IF o.to[u] # NULL THEN Append(unit[u].queue, o.to[u])
                                                               ELSE unit[u].queue
      /\ count' \in Nat /\ (count' = 0 <=> n = 0 /\ NoneSent(o))
      /\ IF cmd # NULL /\ o.fin THEN cmd' = NULL ELSE cmd' = cmd
  BY Settled DEF GoodOutcome, NoneSent
<1>2. CountMatches'
  <2>1. Unanswered(0)' + Unanswered(1)' + n = Unanswered(0) + Unanswered(1) + count'
    BY SettleTyped DEF GoodOutcome
  <2>2. /\ Unanswered(0) \in Nat /\ Unanswered(1) \in Nat /\ Answers \in Nat /\ count \in Nat
        /\ count = Unanswered(0) + Unanswered(1) + Answers
    BY Counted DEF CInv, CountMatches
  <2>3. Unanswered(0)' \in Nat /\ Unanswered(1)' \in Nat /\ Answers' \in Nat
    <3>1. \A u \in Unit : Pending(unit'[u]) \in Nat /\ Unanswered(u)' = Pending(unit'[u])
      BY PendingIsNat DEF IInv, TypedWorld, World, Unanswered, Pending, OneIfAny
    <3>2. Answers' \in Nat
      BY DoneIsFinite DEF IInv, Answers, Done
    <3> QED BY <3>1, <3>2 DEF Unit
  <2>4. count' = Unanswered(0)' + Unanswered(1)' + Answers'
    <3> DEFINE a == Unanswered(0)'
               b == Unanswered(1)'
               c == Answers'
               d == count'
    <3>1. {a, b, c, d} \subseteq Nat /\ a + b + n = Unanswered(0) + Unanswered(1) + d
          /\ c + count = Answers + n
      BY <1>1, <2>1, <2>3
    <3> HIDE DEF a, b, c, d
    <3>2. d = a + b + c
      BY <2>2, <3>1
    <3> QED BY <3>2 DEF a, b, c, d
  <2>5. cmd' = NULL => count' = 0
    BY <1>1 DEF GoodOutcome
  <2> QED BY <2>4, <2>5 DEF CountMatches
<1>3. \/ \A i \in DOMAIN inbox' : i \in DOMAIN inbox /\ inbox'[i] = inbox[i]
      \/ \A i \in DOMAIN inbox' : i \in Nat /\ i + 1 \in DOMAIN inbox /\ inbox'[i] = inbox[i + 1]
  <2>1. CASE inbox' = inbox
    BY <2>1
  <2>2. CASE inbox # <<>> /\ inbox' = Tail(inbox)
    BY <2>2, Tailed DEF IInv
  <2> QED BY <2>1, <2>2 DEF Next1
<1>4. \A i \in DOMAIN inbox' : \E j \in DOMAIN inbox : inbox'[i] = inbox[j]
  BY <1>3
<1>5. InboxInv'
  <2>1. \A i \in DOMAIN inbox' : inbox'[i].k \in {"srb", "done", "noPnp"}
    BY <1>4 DEF CInv, InboxInv
  <2>2. ASSUME NEW i \in DOMAIN inbox', NEW j \in DOMAIN inbox',
               inbox'[i].k = "srb", inbox'[j].k = "srb"
        PROVE  i = j
    <3>1. \A k, l \in DOMAIN inbox : inbox[k].k = "srb" /\ inbox[l].k = "srb" => k = l
      BY DEF CInv, InboxInv
    <3> QED BY <1>3, <2>2, <3>1
  <2>3. raid'.rs # "GoodButPartiallyFailed"
    BY <1>1
  <2>4. Queued("noPnp")' =>
          /\ raid'.rs # "Good"
          /\ raid'.rs \in {"GoodButPartiallyFailed", "BrokenButWorkable"} =>
               \E u \in Unit : unit'[u].status = "NotPresent"
          /\ raid'.rs = "ReadyToRecovery" => raid'.dirty
          /\ raid'.rs = "Recovering" => raid'.inRecovery
    <3>1. Queued("noPnp")' => Queued("noPnp")
      BY <1>4 DEF Queued
    <3> QED BY <1>1, <3>1 DEF GoodOutcome
  <2>5. Failing' => raid'.rs # "Good" \/ \E u \in Unit : unit'[u].status \in {"ReconnectRW", "NotPresent"}
    <3>1. Failing' => Failing
      BY <1>4 DEF Failing
    <3>2. Failing => o.w.raid.rs # "Good" \/ \E u \in Unit : unit[u].status \in {"ReconnectRW", "NotPresent"}
      BY DEF GoodOutcome, Missing, Missed, World
    <3> QED BY <1>1, <3>1, <3>2
  <2> QED BY <2>1, <2>2, <2>3, <2>4, <2>5 DEF InboxInv
<1>6. CommandInv'
  <2>1. Queued("srb")' => cmd' # NULL /\ count' = 0 /\ raid'.rs # "ReadyToRecovery"
    BY <1>1
  <2>2. cmd' # NULL => /\ Queued("srb")' \/ count' > 0
                       /\ \A u \in Unit : unit'[u].status # "Disconnected"
    <3>1. cmd' # NULL => cmd # NULL /\ ~o.fin
      BY <1>1
    <3>2. cmd # NULL => \A u \in Unit : unit[u].status # "Disconnected"
      BY DEF CInv, CommandInv
    <3>3. cmd # NULL /\ ~o.fin => Queued("srb")' \/ count' # 0
      BY <1>1
    <3> QED BY <1>1, <3>1, <3>2, <3>3
  <2>3. raid'.rs = "ReadyToRecovery" /\ ~raid'.dirty => cmd' = NULL
    BY <1>1 DEF GoodOutcome
  <2> QED BY <2>1, <2>2, <2>3 DEF CommandInv
<1>7. PartsInv'
  <2>1. CASE count' = 0
    BY <1>2, <2>1, PartsGone
  <2>2. CASE count' # 0
    <3>1. cmd' = cmd
      BY <1>1, <2>2 DEF GoodOutcome
    <3>2. \A c : PartOf(c)' <=> PartOf(c)
      BY <3>1 DEF PartOf
    <3>3. ASSUME NEW u \in Unit PROVE AsSent(unit'[u].queue)
      <4>1. AsSent(unit[u].queue) /\ IsQueue(unit[u].queue)
        BY Counted, QueueOf DEF CInv, PartsInv
      <4>2. CASE o.to[u] = NULL
        BY <1>1, <4>1, <4>2
      <4>3. CASE o.to[u] # NULL
        <5>1. o.to[u].ok /\ PartOf(o.to[u])
          BY <4>3 DEF GoodOutcome, MaySend
        <5>2. unit'[u].queue = Append(unit[u].queue, o.to[u])
          BY <1>1, <4>3
        <5> QED BY <4>1, <5>1, <5>2, Appended DEF AsSent
      <4> QED BY <4>2, <4>3
    <3>4. \A u \in Unit : AsSent(unit[u].queue)' /\ (unit[u].pend # NULL => PartOf(unit[u].pend))'
      <4>1. \A u \in Unit : unit[u].pend # NULL => PartOf(unit[u].pend)
        BY DEF CInv, PartsInv
      <4>2. \A u \in Unit : (unit[u].pend # NULL => PartOf(unit[u].pend))'
        BY <1>1, <3>1, <4>1 DEF PartOf
      <4>3. \A u \in Unit : AsSent(unit[u].queue)'
        BY <3>1, <3>3 DEF AsSent, PartOf
      <4> QED BY <4>2, <4>3
    <3>5. \A i \in DOMAIN inbox' : (inbox[i].k = "done" => PartOf(inbox[i].c))'
      <4>1. \A i \in DOMAIN inbox : inbox[i].k = "done" => PartOf(inbox[i].c)
        BY DEF CInv, PartsInv
      <4>2. \A i \in DOMAIN inbox' : inbox'[i].k = "done" => PartOf(inbox'[i].c)
        BY <1>4, <4>1
      <4> QED BY <3>1, <4>2 DEF PartOf
    <3> QED BY <3>4, <3>5 DEF PartsInv
  <2> QED BY <2>1, <2>2
<1> QED BY <1>1, <1>2, <1>5, <1>6, <1>7 DEF CInv

(* What holds of the head of the worker's queue, and of the rest of it.    *)
LEMMA HeadTaken ==
  ASSUME Willing, IInv, CInv, NEW k, WorkerTakes(k)
  PROVE  /\ inbox # <<>> /\ Head(inbox).k = k /\ inbox' = Tail(inbox) /\ Next1(inbox, inbox')
         /\ Queued(k) /\ 1 \in DOMAIN inbox /\ inbox[1] = Head(inbox)
         /\ Queued("srb")' => Queued("srb") /\ k # "srb"
         /\ raid.rs = "GoodButPartiallyFailed" => k = "noPnp"
<1>1. inbox # <<>> /\ Head(inbox).k = k /\ inbox' = Tail(inbox)
  BY DEF WorkerTakes
<1>2. /\ 1 \in DOMAIN inbox /\ inbox[1] = Head(inbox)
      /\ \A i \in DOMAIN inbox' : i \in Nat /\ i # 0 /\ i + 1 \in DOMAIN inbox /\ inbox'[i] = inbox[i + 1]
  BY <1>1, Tailed DEF IInv
<1>3. \A i, j \in DOMAIN inbox : inbox[i].k = "srb" /\ inbox[j].k = "srb" => i = j
  BY DEF CInv, InboxInv
<1>4. Queued("srb")' => Queued("srb") /\ k # "srb"
  <2> SUFFICES ASSUME NEW i \in DOMAIN inbox', inbox'[i].k = "srb"
               PROVE  Queued("srb") /\ k # "srb"
    BY DEF Queued
  <2>1. i + 1 \in DOMAIN inbox /\ inbox[i + 1].k = "srb" /\ i + 1 # 1
    BY <1>2
  <2> QED BY <1>1, <1>2, <1>3, <2>1 DEF Queued
<1> QED BY <1>1, <1>2, <1>4 DEF Queued, Next1, CInv, InboxInv

LEMMA WorkerSrbKeepsPhase ==
  ASSUME Willing, IInv, CInv, IInv', WorkerSrb
  PROVE  CInv'
<1>1. PICK s \in Unit : Phase(World, s)
  BY DEF CInv, PhaseInv
<1>2. Handled(World) /\ World.raid = raid /\ World.unit = unit /\ count \in Nat
  BY Counted DEF World
<1>3. /\ Next1(inbox, inbox') /\ Queued("srb") /\ ~Queued("srb")'
      /\ raid.rs # "GoodButPartiallyFailed"
  BY HeadTaken DEF WorkerSrb
<1>4. cmd # NULL /\ count = 0 /\ raid.rs # "ReadyToRecovery" /\ cmd \in Asked
  BY <1>3 DEF CInv, CommandInv, IInv
<1>5. (\A u \in Unit : Pending(unit[u]) = 0) /\ ~Failing
  BY <1>4, NothingLeft DEF CInv
<1>6. Answers' = Answers
  BY InboxShrinks, Counted DEF WorkerSrb
<1>7. PICK o \in {ProcessSrbCommand(World, res)} : Settle(o, count)
  BY DEF WorkerSrb
<1>8. /\ TypedOutcome(o) /\ Phase(o.w, s) /\ ~o.fin
      /\ o.w.raid.rs = raid.rs /\ o.w.raid.dirty = raid.dirty
      /\ o.w.raid.inRecovery = raid.inRecovery
      /\ \A u \in Unit : Untouched(o.w.unit[u], unit[u]) /\ MaySend(o.w, o.to, u)
      /\ \E u \in Unit : o.to[u] # NULL
  <2>1. ~Unmarked(World, s)
    BY <1>2, <1>3 DEF Unmarked
  <2> QED BY <1>1, <1>2, <1>4, <1>7, <2>1, CommandSends
<1> HIDE DEF World
<1>9. Queued("noPnp") => /\ raid.rs # "Good"
                         /\ raid.rs \in {"GoodButPartiallyFailed", "BrokenButWorkable"} =>
                              \E u \in Unit : unit[u].status = "NotPresent"
                         /\ raid.rs = "ReadyToRecovery" => raid.dirty
                         /\ raid.rs = "Recovering" => raid.inRecovery
  BY DEF CInv, InboxInv
<1>10. \A u \in Unit : o.w.unit[u].status = unit[u].status
  BY <1>8 DEF Untouched
<1>11. GoodOutcome(o, count, s)
  BY <1>4, <1>5, <1>8, <1>9, <1>10 DEF GoodOutcome
<1> QED BY <1>2, <1>3, <1>6, <1>7, <1>8, <1>11, HandlerKeeps DEF NoneSent

(* What the worker's update of the status makes of a phase, for a handler  *)
(* that sends nothing.                                                     *)
LEMMA UpdateIsGood ==
  ASSUME Willing, IInv, CInv, NEW s \in Unit, Phase(World, s), NEW w, SameButStatus(w, World), Phase(w, s),
         w.raid.rs = UpdateRAIDStatus(World).raid.rs
  PROVE  /\ Queued("noPnp") => /\ w.raid.rs # "Good"
                               /\ w.raid.rs \in {"GoodButPartiallyFailed", "BrokenButWorkable"} =>
                                    \E u \in Unit : unit[u].status = "NotPresent"
                               /\ w.raid.rs = "ReadyToRecovery" => w.raid.dirty
                               /\ w.raid.rs = "Recovering" => w.raid.inRecovery
         /\ Failing => w.raid.rs # "Good"
         /\ w.raid.rs = "ReadyToRecovery" /\ ~w.raid.dirty => raid.rs = "ReadyToRecovery" /\ cmd = NULL
         /\ \A u \in Unit : w.unit[u].status = unit[u].status
         /\ w.raid.rs \in {"Good", "GoodButPartiallyFailed", "BrokenButWorkable",
                           "ReadyToRecovery", "Recovering"}
<1>1. /\ Handled(World) /\ World.raid = raid /\ World.unit = unit
      /\ w.unit = unit /\ w.raid.dirty = raid.dirty /\ w.raid.inRecovery = raid.inRecovery
  BY Counted DEF World, SameButStatus, SameArray
<1> DEFINE rs == w.raid.rs
<1>2. /\ rs = "Good" => raid.rs = "Good" /\ ~Missing(World) /\ ~raid.dirty
      /\ rs = "GoodButPartiallyFailed" => raid.rs \in {"Good", "GoodButPartiallyFailed"}
      /\ rs = "BrokenButWorkable" => raid.rs = "BrokenButWorkable" /\ Missing(World)
      /\ rs = "ReadyToRecovery" =>
           /\ ~raid.inRecovery
           /\ raid.rs \in {"BrokenButWorkable", "ReadyToRecovery", "Recovering"}
           /\ ~raid.dirty => raid.rs = "ReadyToRecovery"
      /\ rs = "Recovering" => raid.inRecovery
      /\ rs \in {"Good", "GoodButPartiallyFailed", "BrokenButWorkable", "ReadyToRecovery", "Recovering"}
  BY <1>1, Rated
<1>3. Queued("noPnp") => raid.rs # "Good"
                         /\ (raid.rs \in {"GoodButPartiallyFailed", "BrokenButWorkable"} =>
                               \E u \in Unit : unit[u].status = "NotPresent")
                         /\ (raid.rs = "ReadyToRecovery" => raid.dirty)
                         /\ (raid.rs = "Recovering" => raid.inRecovery)
  BY DEF CInv, InboxInv
<1>4. rs = "ReadyToRecovery" /\ Queued("noPnp") => raid.dirty
  BY <1>2, <1>3
<1>5. Failing => raid.rs # "Good" \/ Missing(World)
  BY <1>1 DEF CInv, InboxInv, Missing, Missed
<1>6. raid.rs = "ReadyToRecovery" /\ ~raid.dirty => cmd = NULL
  BY DEF CInv, CommandInv
<1> HIDE DEF rs
<1>7. Queued("noPnp") => /\ rs # "Good"
                         /\ rs \in {"GoodButPartiallyFailed", "BrokenButWorkable"} =>
                              \E u \in Unit : unit[u].status = "NotPresent"
                         /\ rs = "ReadyToRecovery" => w.raid.dirty
                         /\ rs = "Recovering" => w.raid.inRecovery
  BY <1>1, <1>2, <1>3, <1>4
<1> QED BY <1>1, <1>2, <1>5, <1>6, <1>7 DEF rs

(* An answer is taken: the status is brought up to date, and a read that   *)
(* failed is sent once more, to the disk that serves.                      *)
LEMMA CompletedOutcome ==
  ASSUME Willing, NEW w, Handled(w), NEW s \in Unit, Phase(w, s), NEW c, NEW n, cmd \in Asked, c.op = cmd.op,
         ~c.ok /\ c.op = "read" => UpdateRAIDStatus(w).raid.rs # "Good"
  PROVE  LET o == ProcessSrbCompleted(w, c, n)
         IN  /\ TypedOutcome(o)
             /\ SameButStatus(o.w, w) /\ Phase(o.w, s) /\ o.w.raid.rs = UpdateRAIDStatus(w).raid.rs
             /\ \/ NoneSent(o) /\ (o.fin <=> n = 0)
                \/ /\ ~NoneSent(o) /\ ~o.fin /\ o.w.raid.rs # "Good" /\ cmd.op = "read"
                   /\ \A u \in Unit : MaySend(o.w, o.to, u) /\ (o.to[u] # NULL => u = s)
<1> DEFINE o == ProcessSrbCompleted(w, c, n)
           y == UpdateRAIDStatus(w)
           z == UpdateRAIDStatus(y)
           p == IF c.op = "read" THEN ReadCompleted(w, c, n) ELSE WriteCompleted(w, c, n)
           failed == [res EXCEPT !.ok = FALSE]
           more == [ok |-> TRUE, xfer |-> res.xfer + c.xfer,
                    vals |-> [b \in DOMAIN res.vals \cup DOMAIN c.vals |->
                                IF b \in DOMAIN c.vals THEN c.vals[b] ELSE res.vals[b]]]
           again(x) == IF \E u \in Unit : Usable(x, u) THEN ProcessSrbCommand(x, failed)
                                                      ELSE Outcome(x, failed, TRUE, ToNone)
<1>1. TypedOutcome(o)
  BY ProcessSrbCompletedTyped
<1>2. cmd # NULL /\ cmd.op \in {"read", "write"}
  BY CommandIsNotNull DEF Asked
<1>3. /\ SameButStatus(y, w) /\ Phase(y, s) /\ Handled(y)
      /\ SameButStatus(z, w) /\ Phase(z, s) /\ z.raid.rs = y.raid.rs /\ z.raid.sub = y.raid.sub
  BY PhaseUpdated, UpdatedTwice DEF SameButStatus
<1>4. o = [p EXCEPT !.w = UpdateRAIDStatus(@)]
  BY <1>2 DEF ProcessSrbCompleted
<1>5. ReadCompleted(w, c, n) = IF c.ok THEN Outcome(w, more, n = 0, ToNone)
                               ELSE Only({again(x) : x \in {y}})
  BY DEF ReadCompleted
<1> HIDE DEF more
<1>6. CASE c.ok \/ c.op = "write"
  <2> DEFINE fail == IF n = 0 /\ res.xfer # c.xfer THEN [res EXCEPT !.ok = FALSE] ELSE res
             done == [res EXCEPT !.ok = TRUE, !.xfer = c.xfer]
  <2>1. WriteCompleted(w, c, n) = IF c.ok THEN Outcome(w, done, n = 0, ToNone)
                                  ELSE Outcome(y, fail, n = 0, ToNone)
    BY DEF WriteCompleted
  <2> HIDE DEF fail, done, y, z, again
  <2>2. PICK r \in {more, fail, done}, x \in {w, y} : p = Outcome(x, r, n = 0, ToNone)
    BY <1>2, <1>5, <1>6, <2>1
  <2>3. o = Outcome(UpdateRAIDStatus(x), r, n = 0, ToNone)
    BY <1>4, <2>2 DEF Outcome
  <2> HIDE DEF o, p
  <2>4. o.w \in {y, z} /\ (o.fin <=> n = 0) /\ o.to = ToNone
    BY <2>2, <2>3 DEF Outcome, y, z
  <2>5. NoneSent(o)
    BY <2>4 DEF NoneSent, ToNone
  <2> QED BY <1>1, <1>3, <2>4, <2>5 DEF o, y
<1>7. CASE ~c.ok /\ c.op = "read"
  <2> DEFINE q == ProcessSrbCommand(y, failed)
  <2>1. p = Only({again(x) : x \in {y}})
    BY <1>5, <1>7
  <2>2. \E u \in Unit : Usable(y, u)
    BY <1>3 DEF Phase, Serves, Is, Usable, Running, Connected
  <2>3. /\ TypedOutcome(q) /\ ~q.fin /\ q.w = y
        /\ \A u \in Unit : MaySend(y, q.to, u)
        /\ \E u \in Unit : q.to[u] # NULL
        /\ \A u \in Unit : q.to[u] # NULL => Good(y, u)
    BY <1>3, <1>7, CommandSends
  <2> HIDE DEF y, z, failed, q
  <2>4. p = q
    <3>1. {again(x) : x \in {y}} = {again(y)}
      OBVIOUS
    <3>2. again(y) = q
      BY <2>2 DEF q
    <3> HIDE DEF again
    <3> QED BY <2>1, <3>1, <3>2, OnlyOne
  <2> HIDE DEF p
  <2>5. o = Outcome(z, q.res, q.fin, q.to)
    BY <1>4, <2>3, <2>4 DEF z, TypedOutcome, Outcome
  <2> HIDE DEF o
  <2>6. o.w = z /\ ~o.fin /\ o.to = q.to
    BY <2>3, <2>5 DEF Outcome
  <2>7. y.raid.rs # "Good"
    BY <1>7 DEF y
  <2>8. \A u \in Unit : MaySend(z, o.to, u) /\ (o.to[u] # NULL => u = s)
    <3>1. z.unit = y.unit
      BY <1>3 DEF SameButStatus
    <3>2. SubUnits(y, "Good") = {s}
      BY <1>3, <2>7, OneIsGood DEF Mirrored
    <3> QED BY <1>3, <2>3, <2>6, <3>1, <3>2 DEF MaySend, Usable, Good, SubUnits
  <2>9. ~NoneSent(o)
    BY <2>3, <2>6 DEF NoneSent
  <2> QED BY <1>1, <1>3, <1>7, <2>6, <2>7, <2>8, <2>9 DEF o, y
<1> QED BY <1>2, <1>6, <1>7

LEMMA WorkerCompletedKeepsPhase ==
  ASSUME Willing, IInv, CInv, IInv', WorkerCompleted
  PROVE  CInv'
<1> DEFINE c == Head(inbox).c
           n == count - 1
           y == UpdateRAIDStatus(World)
<1>1. PICK s \in Unit : Phase(World, s)
  BY DEF CInv, PhaseInv
<1>2. Handled(World) /\ World.raid = raid /\ World.unit = unit /\ count \in Nat
  BY Counted DEF World
<1>3. /\ Next1(inbox, inbox') /\ Queued("done") /\ (Queued("srb")' => Queued("srb"))
      /\ 1 \in DOMAIN inbox /\ inbox[1] = Head(inbox) /\ Head(inbox).k = "done"
  BY HeadTaken DEF WorkerCompleted
<1>4. count # 0 /\ n \in Nat
  BY <1>2, <1>3, NothingLeft DEF CInv
<1>5. cmd # NULL /\ cmd \in Asked /\ ~Queued("srb")
  BY <1>4 DEF CInv, CountMatches, CommandInv, IInv
<1>6. c.op = cmd.op
  BY <1>3 DEF CInv, PartsInv, PartOf
<1>7. /\ SameButStatus(y, World) /\ Phase(y, s)
  BY <1>1, <1>2, PhaseUpdated
<1>8. ~c.ok /\ c.op = "read" => y.raid.rs # "Good"
  <2>1. ~c.ok /\ c.op = "read" => Failing
    BY <1>3 DEF Failing
  <2> HIDE DEF y
  <2>2. Failing => y.raid.rs # "Good"
    BY <1>1, <1>7, UpdateIsGood DEF y
  <2> QED BY <2>1, <2>2
<1>9. Answers' + count = Answers + n
  <2>1. Answers = Answers' + 1 /\ Answers' \in Nat
    BY InboxShrinks DEF WorkerCompleted
  <2> QED BY <1>2, <2>1
<1>10. PICK o \in {ProcessSrbCompleted(World, c, n)} : Settle(o, n)
  BY DEF WorkerCompleted
<1> HIDE DEF c, n
<1>11. /\ TypedOutcome(o)
       /\ SameButStatus(o.w, World) /\ Phase(o.w, s) /\ o.w.raid.rs = y.raid.rs
       /\ \/ NoneSent(o) /\ (o.fin <=> n = 0)
          \/ /\ ~NoneSent(o) /\ ~o.fin /\ o.w.raid.rs # "Good"
             /\ \A u \in Unit : MaySend(o.w, o.to, u) /\ (o.to[u] # NULL => u = s)
  BY <1>1, <1>2, <1>5, <1>6, <1>8, <1>10, CompletedOutcome
<1>12. /\ Queued("noPnp") =>
            /\ o.w.raid.rs # "Good"
            /\ o.w.raid.rs \in {"GoodButPartiallyFailed", "BrokenButWorkable"} =>
                 \E u \in Unit : unit[u].status = "NotPresent"
            /\ o.w.raid.rs = "ReadyToRecovery" => o.w.raid.dirty
            /\ o.w.raid.rs = "Recovering" => o.w.raid.inRecovery
       /\ Failing => o.w.raid.rs # "Good"
       /\ o.w.raid.rs = "ReadyToRecovery" /\ ~o.w.raid.dirty => cmd = NULL
       /\ \A u \in Unit : o.w.unit[u].status = unit[u].status
  BY <1>1, <1>11, UpdateIsGood
<1>13. \A u \in Unit : /\ MaySend(o.w, o.to, u)
                       /\ o.to[u] # NULL => Pending(unit[u]) = 0 \/ (u = s /\ o.w.raid.rs # "Good")
  BY <1>11 DEF NoneSent, MaySend
<1>14. GoodOutcome(o, n, s)
  BY <1>5, <1>11, <1>12, <1>13 DEF GoodOutcome
<1>15. n \in Nat /\ (n # 0 => n > 0)
  BY <1>4
<1> QED BY <1>3, <1>5, <1>9, <1>10, <1>11, <1>14, <1>15, HandlerKeeps

LEMMA WorkerNoPnpKeepsPhase ==
  ASSUME Willing, IInv, CInv, IInv', WorkerNoPnp
  PROVE  CInv'
<1> DEFINE w == UpdateRAIDStatus(World)
           o == Outcome(w, res, FALSE, ToNone)
<1>1. PICK s \in Unit : Phase(World, s)
  BY DEF CInv, PhaseInv
<1>2. Handled(World) /\ World.raid = raid /\ World.unit = unit /\ count \in Nat
  BY Counted DEF World
<1>3. Next1(inbox, inbox') /\ Queued("noPnp") /\ (Queued("srb")' => Queued("srb"))
  BY HeadTaken DEF WorkerNoPnp
<1>4. Answers' = Answers
  BY InboxShrinks, Counted DEF WorkerNoPnp
<1>5. Settle(o, count)
  BY <1>1, <1>2, OwnStatusKept DEF WorkerNoPnp
<1>6. /\ SameButStatus(w, World) /\ Phase(w, s)
  BY <1>1, <1>2, PhaseUpdated
<1>7. /\ Queued("noPnp") =>
           /\ w.raid.rs # "Good"
           /\ w.raid.rs \in {"GoodButPartiallyFailed", "BrokenButWorkable"} =>
                \E u \in Unit : unit[u].status = "NotPresent"
           /\ w.raid.rs = "ReadyToRecovery" => w.raid.dirty
           /\ w.raid.rs = "Recovering" => w.raid.inRecovery
      /\ Failing => w.raid.rs # "Good"
      /\ w.raid.rs = "ReadyToRecovery" /\ ~w.raid.dirty => cmd = NULL
      /\ \A u \in Unit : w.unit[u].status = unit[u].status
  BY <1>1, <1>6, UpdateIsGood
<1>8. Queued("srb") => w.raid.rs # "ReadyToRecovery"
  <2>1. w.raid.rs = "ReadyToRecovery" => raid.rs = "ReadyToRecovery"
    <3>1. /\ w.raid.rs = "ReadyToRecovery" =>
               ~raid.inRecovery /\ raid.rs \in {"BrokenButWorkable", "ReadyToRecovery", "Recovering"}
          /\ raid.rs \in {"GoodButPartiallyFailed", "BrokenButWorkable"} /\ Missing(World) =>
               w.raid.rs = raid.rs
      BY <1>1, <1>2, Rated
    <3>2. raid.rs = "BrokenButWorkable" => Missing(World)
      BY <1>2, <1>3 DEF CInv, InboxInv, Missing, Missed
    <3>3. raid.rs = "Recovering" => raid.inRecovery
      BY <1>3 DEF CInv, InboxInv
    <3> HIDE DEF w
    <3> QED BY <3>1, <3>2, <3>3
  <2> QED BY <2>1 DEF CInv, CommandInv
<1> HIDE DEF w
<1>9. o.w = w /\ ~o.fin /\ o.to = ToNone /\ TypedOutcome(o)
  BY <1>6, NothingSentTyped DEF Outcome, SameButStatus
<1> HIDE DEF o
<1>10. NoneSent(o) /\ \A u \in Unit : MaySend(o.w, o.to, u)
  BY <1>9 DEF NoneSent, ToNone, MaySend
<1>11. cmd = NULL => count = 0
  BY DEF CInv, CountMatches
<1>12. GoodOutcome(o, count, s)
  BY <1>6, <1>7, <1>9, <1>10, <1>11 DEF GoodOutcome, NoneSent
<1>13. /\ Queued("srb") => cmd # NULL /\ count = 0
       /\ cmd # NULL => Queued("srb") \/ count > 0
  BY DEF CInv, CommandInv
<1>14. Queued("srb") => Queued("srb")'
  <2> SUFFICES ASSUME NEW i \in DOMAIN inbox, inbox[i].k = "srb"
               PROVE  Queued("srb")'
    BY DEF Queued
  <2>1. inbox # <<>> /\ inbox' = Tail(inbox) /\ inbox[1].k = "noPnp"
    BY HeadTaken DEF WorkerNoPnp
  <2>2. i - 1 \in DOMAIN inbox' /\ inbox'[i - 1] = inbox[i]
    BY <2>1, Tailed DEF IInv
  <2> QED BY <2>2 DEF Queued
<1> QED BY <1>2, <1>3, <1>4, <1>5, <1>8, <1>9, <1>10, <1>12, <1>13, <1>14, HandlerKeeps

LEMMA WorkerPnpKeepsPhase ==
  ASSUME Willing, IInv, CInv, IInv', WorkerPnp
  PROVE  CInv'
<1> DEFINE w == UpdateRAIDStatus(World)
<1>1. PICK s \in Unit : Phase(World, s)
  BY DEF CInv, PhaseInv
<1>2. Handled(World) /\ World.raid = raid /\ World.unit = unit /\ count \in Nat
  BY Counted DEF World
<1>3. inbox' = inbox /\ Answers' = Answers /\ Next1(inbox, inbox') /\ (Queued("srb")' <=> Queued("srb"))
  BY InboxKept DEF WorkerPnp, Next1, Queued
<1>4. PICK x \in PnpHandled(w) : Settle(Outcome(x, res, FALSE, ToNone), count)
  BY <1>1, <1>2, OwnStatusKept DEF WorkerPnp
<1> DEFINE o == Outcome(x, res, FALSE, ToNone)
<1>5. /\ SameButStatus(w, World) /\ Phase(w, s) /\ Handled(w) /\ w.unit = unit
      /\ w.raid.rs = UpdateRAIDStatus(World).raid.rs
  BY <1>1, <1>2, PhaseUpdated DEF SameButStatus
<1>6. /\ Queued("noPnp") =>
           /\ w.raid.rs # "Good"
           /\ w.raid.rs \in {"GoodButPartiallyFailed", "BrokenButWorkable"} =>
                \E u \in Unit : unit[u].status = "NotPresent"
           /\ w.raid.rs = "ReadyToRecovery" => w.raid.dirty
           /\ w.raid.rs = "Recovering" => w.raid.inRecovery
      /\ Failing => w.raid.rs # "Good"
      /\ w.raid.rs = "ReadyToRecovery" /\ ~w.raid.dirty => cmd = NULL
  BY <1>1, <1>5, UpdateIsGood
<1> HIDE DEF w
<1>7. cmd = NULL => count = 0
  BY DEF CInv, CountMatches
<1>8. /\ Queued("srb") => cmd # NULL /\ count = 0
      /\ cmd # NULL => (Queued("srb") \/ count > 0) /\ \A u \in Unit : unit[u].status # "Disconnected"
  BY DEF CInv, CommandInv
<1>9. /\ Handled(x) /\ Phase(x, s) /\ \A u \in Unit : x.unit[u].status = unit[u].status
      /\ Queued("noPnp") => /\ x.raid.rs # "Good"
                            /\ x.raid.rs \in {"GoodButPartiallyFailed", "BrokenButWorkable"} =>
                                 \E u \in Unit : unit[u].status = "NotPresent"
                            /\ x.raid.rs = "ReadyToRecovery" => x.raid.dirty
                            /\ x.raid.rs = "Recovering" => x.raid.inRecovery
      /\ Failing => x.raid.rs # "Good"
      /\ x.raid.rs = "ReadyToRecovery" /\ ~x.raid.dirty => cmd = NULL
      /\ Queued("srb") => x.raid.rs # "ReadyToRecovery"
  <2>1. CASE w.raid.rs # "ReadyToRecovery"
    <3>1. x = w
      BY <1>4, <2>1 DEF PnpHandled
    <3> QED BY <1>5, <1>6, <2>1, <3>1
  <2>2. CASE w.raid.rs = "ReadyToRecovery"
    <3>1. IsWorkable(w) /\ RaidRunning(w)
      BY <1>5 DEF Phase, Serves, Is, IsWorkable, RaidRunning
    <3>2. x \in Recovery(w)
      BY <1>4, <2>2, <3>1 DEF PnpHandled
    <3>3. Returned(w, s) /\ ~w.raid.inRecovery
      BY <1>5, <2>2 DEF Phase, Mirrored, Unmarked, Degraded, Returned
    <3>4. ~w.raid.dirty => cmd = NULL /\ ~Failing /\ Pending(w.unit[s]) <= 1
      BY <1>5, <1>6, <1>7, <2>2, NothingLeft DEF CInv
    <3>5. /\ Handled(x) /\ Phase(x, s)
          /\ Untouched(x.unit[s], w.unit[s]) /\ Intact(x.unit[Other(s)], w.unit[Other(s)])
          /\ x.raid.rs \in {"Good", "ReadyToRecovery", "Recovering"}
          /\ x.raid.rs = "Good" => ~w.raid.dirty
          /\ x.raid.dirty = w.raid.dirty
          /\ x.raid.rs = "Recovering" => x.raid.inRecovery
          /\ x.raid.rs = "ReadyToRecovery" => w.unit[Other(s)].status # "ConnectedRW"
      BY <1>5, <3>2, <3>3, <3>4, RecoveryKeepsPhase
    <3>6. \A u \in Unit : x.unit[u].status = unit[u].status
      BY <1>5, <3>5, TheOther DEF Untouched, Intact
    <3>7. Queued("srb") => x.raid.rs # "ReadyToRecovery"
      <4>1. unit[Other(s)].status \in {"ConnectedRW", "Disconnected"} /\ Other(s) \in Unit
        BY <1>5, <3>3, TheOther DEF Returned, Back, Is
      <4> QED BY <1>5, <1>8, <3>5, <4>1
    <3> QED BY <1>6, <2>2, <3>4, <3>5, <3>6, <3>7
  <2> QED BY <2>1, <2>2
<1>10. o.w = x /\ ~o.fin /\ o.to = ToNone /\ TypedOutcome(o) /\ Settle(o, count)
  BY <1>4, <1>9, NothingSentTyped DEF Outcome
<1> HIDE DEF o
<1>11. NoneSent(o) /\ \A u \in Unit : MaySend(o.w, o.to, u)
  BY <1>10 DEF NoneSent, ToNone, MaySend
<1>12. GoodOutcome(o, count, s)
  BY <1>7, <1>9, <1>10, <1>11 DEF GoodOutcome, NoneSent
<1> QED BY <1>2, <1>3, <1>8, <1>9, <1>10, <1>11, <1>12, HandlerKeeps

(* The time that the worker waits for is over, and the recovery.           *)
(* A block is copied only when nothing waits, for the worker or a disk.    *)
LEMMA RecoverIsIdle ==
  ASSUME Willing, IInv, CInv, Recover
  PROVE  cmd = NULL /\ count = 0
<1>1. PICK s \in Unit : Phase(World, s)
  BY DEF CInv, PhaseInv
<1>2. World.raid = raid /\ World.unit = unit /\ \A u \in Unit : TypedUnit(unit[u])
  BY Counted DEF World
<1>3. inbox = <<>> /\ raid.rs = "Recovering" /\ \A u \in Unit : unit[u].queue = <<>>
  BY DEF Recover
<1>4. Returned(World, s)
  BY <1>1, <1>2, <1>3 DEF Phase, Mirrored, Unmarked, Degraded, Returned
<1>5. \A u \in Unit : unit[u].pend = NULL
  <2>1. unit[s].pend = NULL
    BY <1>1, <1>2 DEF Phase, Serves
  <2>2. unit[Other(s)].pend = NULL
    BY <1>1, <1>2, <1>4 DEF Phase, Tidy, Returned, Back, Is
  <2> QED BY <2>1, <2>2, TheOther
<1>6. Answers = 0
  <2>1. Done(inbox) = {}
    BY <1>3 DEF Done
  <2> QED BY <2>1, AnswersAreDone, FS_EmptySet
<1>7. Unanswered(0) = 0 /\ Unanswered(1) = 0
  <2>1. \A u \in Unit : Len(unit[u].queue) = 0 /\ OneIfAny(unit[u].pend) = 0
    BY <1>2, <1>3, <1>5, QueueOf DEF OneIfAny
  <2>2. \A u \in Unit : Unanswered(u) = 0
    BY <2>1, UnansweredIsPending DEF Pending
  <2> QED BY <2>2 DEF Unit
<1>8. count = 0
  BY <1>6, <1>7 DEF CInv, CountMatches
<1>9. ~Queued("srb")
  BY <1>3 DEF Queued
<1> QED BY <1>8, <1>9 DEF CInv, CommandInv

LEMMA IdleKeepsPhase ==
  ASSUME Willing, IInv, CInv, IInv', TimedOut \/ Recover
  PROVE  CInv'
<1>1. PICK s \in Unit : Phase(World, s)
  BY DEF CInv, PhaseInv
<1>2. Handled(World) /\ World.raid = raid /\ World.unit = unit /\ \A u \in Unit : TypedUnit(unit[u])
  BY Counted DEF World
<1>3. inbox' = inbox /\ count' = count /\ inbox = <<>> /\ Answers' = Answers
  BY InboxKept DEF TimedOut, Recover, command
<1>4. CASE TimedOut
  <2>1. raid.rs # "Broken"
    BY <1>1, <1>2 DEF Phase, Mirrored, Unmarked, Degraded, Returned
  <2>2. World' = World /\ unit' = unit /\ raid' = raid /\ cmd' = cmd
    BY <1>4, <2>1 DEF TimedOut, AnsweredIf, World
  <2>3. PhaseInv'
    BY <1>1, <2>2 DEF PhaseInv
  <2>4. InboxInv' /\ CommandInv' /\ PartsInv' /\ CountMatches'
    BY <1>3, <2>2 DEF CInv, InboxInv, CommandInv, PartsInv, CountMatches, Queued, Failing,
                      Unanswered, AsSent, PartOf
  <2> QED BY <2>3, <2>4 DEF CInv
<1>5. CASE Recover
  <2>1. PICK w \in Recovery(World) : unit' = w.unit /\ raid' = w.raid
    BY <1>5 DEF Recover
  <2>2. Returned(World, s) /\ raid.dirty
    BY <1>1, <1>2, <1>5 DEF Recover, Phase, Mirrored, Unmarked, Degraded, Returned
  <2>4. count = 0 /\ cmd = NULL
    BY <1>5, RecoverIsIdle
  <2>5. /\ Handled(w) /\ Phase(w, s)
        /\ w.raid.rs \in {"Good", "ReadyToRecovery", "Recovering"}
    BY <1>1, <1>2, <2>2, RecoveryKeepsPhase
  <2>6. PhaseInv'
    <3>1. World' = w
      BY <2>1, <2>5 DEF World, Handled, TypedWorld
    <3> QED BY <2>5, <3>1 DEF PhaseInv
  <2>7. cmd' = NULL
    BY <1>5, <2>4 DEF Recover, command
  <2>8. InboxInv' /\ CommandInv'
    BY <1>3, <2>1, <2>4, <2>5, <2>7 DEF InboxInv, CommandInv, Queued, Failing
  <2>9. CountMatches'
    <3>1. \A u \in Unit : Unanswered(u)' = Unanswered(u)
      BY <2>1, <2>5, StoresTyped
    <3> QED BY <1>3, <2>4, <3>1 DEF CInv, CountMatches, Unit
  <2>10. PartsInv'
    BY <1>3, <2>4, <2>9, PartsGone
  <2> QED BY <2>6, <2>8, <2>9, <2>10 DEF CInv
<1> QED BY <1>4, <1>5

-----------------------------------------------------------------------------
(* The host, and the disks switched off and on.                            *)

LEMMA IssueKeepsPhase ==
  ASSUME Careful, Willing, IInv, CInv, IInv', NEW op \in {"read", "write"}, NEW lo \in Block,
         NEW hi \in Block, Issue(op, lo, hi)
  PROVE  CInv'
<1> DEFINE c == [op |-> op, lo |-> lo, hi |-> hi, val |-> IF op = "write" THEN issued + 1 ELSE 0]
           e == [k |-> "srb"]
<1>1. /\ cmd = NULL /\ cmd' = c /\ issued < MaxCmds /\ issued \in Nat
      /\ unit' = unit /\ raid' = raid /\ count' = count /\ inbox' = Append(inbox, e)
      /\ raid.rs # "ReadyToRecovery"
      /\ \A u \in Unit : Running(unit[u]) \/ unit[u].status = "NotPresent"
  BY Numbers DEF Issue, Kept, IInv
<1>2. count = 0 /\ ~Queued("srb")
  BY <1>1 DEF CInv, CountMatches, CommandInv
<1>3. PhaseInv'
  <2>1. World' = World
    BY <1>1 DEF World
  <2> QED BY <2>1 DEF CInv, PhaseInv
<1>4. /\ inbox' # <<>> /\ Head(inbox') = IF inbox = <<>> THEN e ELSE Head(inbox)
      /\ \A i \in DOMAIN inbox : i \in DOMAIN inbox' /\ inbox'[i] = inbox[i]
      /\ \A i \in DOMAIN inbox' : i \in DOMAIN inbox \/ (i = Len(inbox) + 1 /\ inbox'[i] = e)
      /\ Len(inbox) + 1 \in DOMAIN inbox' /\ inbox'[Len(inbox) + 1] = e
  BY <1>1, Appended DEF IInv
<1>5. e.k = "srb"
  OBVIOUS
<1>6. c # NULL
  <2>1. MaxCmds \in Nat /\ issued + 1 \in 0..MaxCmds /\ 0 \in 0..MaxCmds
    BY <1>1, Numbers
  <2>2. c \in Asked
    BY <2>1 DEF Asked, Written
  <2> QED BY <2>2, CommandIsNotNull
<1> HIDE DEF c, e
<1>7. Queued("noPnp")' => Queued("noPnp")
  BY <1>4, <1>5 DEF Queued
<1>8. Failing' => Failing
  BY <1>4, <1>5 DEF Failing
<1>9. InboxInv'
  <2>1. \A i, j \in DOMAIN inbox' : inbox'[i].k = "srb" /\ inbox'[j].k = "srb" => i = j
    BY <1>2, <1>4 DEF Queued
  <2>2. \A i \in DOMAIN inbox' : inbox'[i].k \in {"srb", "done", "noPnp"}
    BY <1>4, <1>5 DEF CInv, InboxInv
  <2>3. raid.rs = "GoodButPartiallyFailed" => inbox' # <<>> /\ Head(inbox').k = "noPnp"
    BY <1>4 DEF CInv, InboxInv
  <2> QED BY <1>1, <1>7, <1>8, <2>1, <2>2, <2>3 DEF CInv, InboxInv
<1>10. CommandInv'
  <2>1. Queued("srb")'
    BY <1>4, <1>5 DEF Queued
  <2> QED BY <1>1, <1>2, <1>6, <2>1 DEF CommandInv, Running
<1>11. CountMatches'
  <2>1. Answers' = Answers
    <3>1. IsQueue(inbox') /\ Answers' = Answers + (IF e.k = "done" THEN 1 ELSE 0)
      BY <1>1, InboxGrows
    <3> QED BY <1>5, <3>1, Counted
  <2> QED BY <1>1, <1>6, <2>1 DEF CInv, CountMatches, Unanswered
<1>12. PartsInv'
  BY <1>1, <1>2, <1>11, PartsGone
<1> QED BY <1>3, <1>9, <1>10, <1>11, <1>12 DEF CInv

(* A step that changes only a disk: neither its commands nor its status.   *)
LEMMA SwitchKeepsCommand ==
  ASSUME Willing, IInv, CInv, IInv', NEW u \in Unit, unit' = [unit EXCEPT ![u] = unit'[u]],
         SameQueue(unit'[u], unit[u]), unit'[u].status = unit[u].status,
         UNCHANGED <<raid, command, inbox>>
  PROVE  InboxInv' /\ CommandInv' /\ PartsInv' /\ CountMatches'
<1>1. \A v \in Unit : SameQueue(unit'[v], unit[v]) /\ unit'[v].status = unit[v].status
  <2>1. unit \in [Unit -> UnitType]
    BY DEF IInv, TypedWorld, World
  <2> QED BY <2>1 DEF SameQueue
<1>2. \A v \in Unit : Unanswered(v)' = Unanswered(v)
  BY <1>1 DEF Unanswered, SameQueue
<1>3. inbox' = inbox /\ raid' = raid /\ cmd' = cmd /\ count' = count /\ Answers' = Answers
  BY InboxKept DEF command
<1>4. InboxInv' /\ CommandInv'
  BY <1>1, <1>3 DEF CInv, InboxInv, CommandInv, Queued, Failing
<1>5. PartsInv'
  BY <1>1, <1>3 DEF CInv, PartsInv, AsSent, PartOf, SameQueue
<1>6. CountMatches'
  BY <1>2, <1>3 DEF CInv, CountMatches, Unit
<1> QED BY <1>4, <1>5, <1>6

LEMMA SwitchOffKeepsPhase ==
  ASSUME Careful, Willing, IInv, CInv, IInv', NEW u \in Unit, SwitchOff(u)
  PROVE  CInv'
<1> DEFINE t == Other(u)
           x == unit'[u]
<1>1. PICK s \in Unit : Phase(World, s)
  BY DEF CInv, PhaseInv
<1>2. PICK lost \in SUBSET Cached(unit[u]) : unit' = [unit EXCEPT ![u] = Lose(unit[u], lost)]
  BY DEF SwitchOff
<1>3. World.raid = raid /\ World.unit = unit /\ \A v \in Unit : TypedUnit(unit[v])
      /\ unit \in [Unit -> UnitType]
  BY Counted DEF World, IInv, TypedWorld
<1>4. /\ raid' = raid /\ raid.rs = "Good"
      /\ \A v \in Unit : Running(unit[v]) /\ unit[v].sess = "up" /\ unit[v].link
  BY <1>3 DEF SwitchOff, TypedUnit, Sane
<1>5. Mirrored(World, s) /\ raid.sub[s] = "Good" /\ Serves(unit[s]) /\ Tidy(unit[Other(s)])
  BY <1>1, <1>3, <1>4 DEF Phase, Unmarked, Degraded, Returned
<1>6. Serves(unit[Other(s)]) /\ Pending(unit[s]) <= 1
  BY <1>3, <1>4, <1>5, TheOther DEF Mirrored, Lost
<1>7. \A v \in Unit : Serves(unit[v]) /\ Pending(unit[v]) <= 1 /\ raid.sub[v] = "Good"
  BY <1>3, <1>5, <1>6, TheOther DEF Tidy, Mirrored
<1>8. x = Lose(unit[u], lost) /\ unit'[t] = unit[t] /\ t \in Unit /\ t # u
  BY <1>2, <1>3, TheOther
<1>9. /\ x.link = FALSE /\ Is(x, "ConnectedRW", "broken") /\ x.member /\ x.pend = NULL
      /\ x.queue = unit[u].queue /\ x.mem = unit[u].mem /\ x.rmd = unit[u].rmd
  BY <1>3, <1>4, <1>7, <1>8 DEF Lose, Serves, Is, TypedUnit, UnitType
<1> HIDE DEF x
<1>10. World'.unit = unit' /\ World'.raid = raid
  BY <1>4 DEF World
<1>11. Other(t) = u /\ Other(u) = t
  BY TheOther
<1> HIDE DEF t
<1>12. Labelled(World, s) /\ Level(World) /\ ~raid.dirty /\ raid.sector = 0
       /\ raid.status = "ConnectedRW"
  BY <1>1, <1>3, <1>5 DEF Phase, Mirrored
<1>13. \A v \in Unit : /\ unit[v].mem.usn = unit[s].mem.usn /\ unit[v].rmd = unit[v].mem
                       /\ unit[v].mem.degraded = raid.dirty /\ unit[v].mem.notSynced = {}
  <2>1. unit[Other(s)].mem.usn = unit[s].mem.usn /\ unit[s].mem.usn \in Nat
    <3>1. World.unit[s].mem.usn = World.unit[Other(s)].mem.usn
      BY <1>12, LevelOf
    <3>2. unit[s].mem.usn \in Nat
      BY <1>3 DEF TypedUnit, UnitType, Metadata
    <3> QED BY <1>3, <3>1, <3>2
  <2>2. \A v \in Unit : unit[v].mem.degraded \in BOOLEAN
    BY <1>3 DEF TypedUnit, UnitType, Metadata
  <2>3. raid.dirty = FALSE
    BY <1>3, <1>12 DEF IInv, TypedWorld, TypedRaid, RaidType
  <2>4. unit[s].mem.degraded = raid.dirty /\ unit[Other(s)].mem.degraded = raid.dirty
    BY <1>3, <1>12, <2>2, <2>3, TheOther DEF Labelled
  <2> QED BY <1>3, <1>12, <2>1, <2>4, TheOther DEF Labelled
<1>14. Labelled(World, t)' /\ Level(World)'
  <2>1. \A v \in Unit : unit'[v].mem = unit[v].mem /\ unit'[v].rmd = unit[v].rmd
    BY <1>8, <1>9, TheOther DEF t, x
  <2>2. Level(World)'
    BY <1>10, <1>13, <2>1, LevelOf DEF Level, Unit
  <2>3. unit'[t].mem = unit[t].mem /\ unit'[u].mem = unit[u].mem
        /\ unit'[t].rmd = unit[t].rmd /\ unit'[u].rmd = unit[u].rmd
    BY <1>8, <2>1
  <2>4. Labelled(World', t)
    <3>1. ~unit[u].mem.degraded
      BY <1>12, <1>13
    <3> QED BY <1>8, <1>10, <1>11, <1>12, <1>13, <2>3, <3>1 DEF Labelled
  <2> QED BY <2>2, <2>4
<1>15. Phase(World, t)'
  <2>1. Serves(unit[t])' /\ (Pending(unit[t]) <= 1)'
    BY <1>7, <1>8 DEF Serves, Is, Pending
  <2>2. Tidy(x) /\ Lost(x)
    <3>1. Pending(x) = Pending(unit[u])
      BY <1>7, <1>9 DEF Pending, Serves
    <3> QED BY <1>7, <1>9, <3>1 DEF Tidy, Lost, Is
  <2>3. raid.sub[t] = "Good" /\ raid.sub[u] = "Good"
    BY <1>7, <1>8
  <2>4. Mirrored(World', t)
    BY <1>4, <1>10, <1>11, <1>12, <1>14, <2>2, <2>3 DEF Mirrored, x
  <2>5. Phase(World', t)
    BY <1>10, <1>11, <1>12, <1>14, <2>1, <2>2, <2>3, <2>4 DEF Phase, x
  <2> QED BY <2>5
<1>16. PhaseInv'
  BY <1>8, <1>15 DEF PhaseInv
<1>17. InboxInv' /\ CommandInv' /\ PartsInv' /\ CountMatches'
  <2>1. SameQueue(unit'[u], unit[u]) /\ unit'[u].status = unit[u].status
    BY <1>7, <1>9 DEF SameQueue, Serves, Is, x
  <2>2. unit' = [unit EXCEPT ![u] = unit'[u]]
    BY <1>2, <1>3
  <2> QED BY <2>1, <2>2, SwitchKeepsCommand DEF SwitchOff
<1> QED BY <1>16, <1>17 DEF CInv

LEMMA SwitchOnKeepsPhase ==
  ASSUME Careful, Willing, IInv, CInv, IInv', NEW u \in Unit, SwitchOn(u)
  PROVE  CInv'
<1>1. PICK s \in Unit : Phase(World, s)
  BY DEF CInv, PhaseInv
<1>2. World.raid = raid /\ World.unit = unit /\ unit \in [Unit -> UnitType]
  BY DEF World, IInv, TypedWorld
<1>3. /\ raid' = raid /\ raid.rs = "BrokenButWorkable" /\ ~unit[u].link
      /\ unit' = [unit EXCEPT ![u] = [unit[u] EXCEPT !.link = TRUE]]
  BY <1>2 DEF SwitchOn
<1>4. Degraded(World, s) /\ Serves(unit[s])
  BY <1>1, <1>2, <1>3 DEF Phase, Mirrored, Unmarked, Returned
<1>5. u = Other(s) /\ Away(unit[u]) /\ Other(s) \in Unit
  BY <1>2, <1>3, <1>4, TheOther DEF Degraded, Serves
<1>6. unit'[s] = unit[s] /\ unit'[u] = [unit[u] EXCEPT !.link = TRUE]
  BY <1>2, <1>3, <1>5, TheOther
<1>7. /\ SameQueue(unit'[u], unit[u]) /\ unit'[u].status = unit[u].status
      /\ unit'[u].sess = unit[u].sess /\ unit'[u].member = unit[u].member
      /\ unit'[u].mem = unit[u].mem /\ unit'[u].rmd = unit[u].rmd
  BY <1>2, <1>6 DEF SameQueue, UnitType
<1>8. World'.unit = unit' /\ World'.raid = raid
  BY <1>3 DEF World
<1>9. Labelled(World', s) /\ ~Level(World')
  <2>1. Labelled(World, s) /\ ~Level(World)
    BY <1>1, <1>4 DEF Phase, Degraded
  <2>2. Labelled(World', s)
    BY <1>2, <1>5, <1>6, <1>7, <1>8, <2>1 DEF Labelled
  <2>3. \A v \in Unit : World'.unit[v].mem = World.unit[v].mem
    <3>1. World'.unit[s].mem = World.unit[s].mem /\ World'.unit[u].mem = World.unit[u].mem
      BY <1>2, <1>6, <1>7, <1>8
    <3>2. \A v \in Unit : v = s \/ v = u
      BY <1>5, TheOther
    <3> QED BY <3>1, <3>2
  <2>4. 0 \in Unit /\ 1 \in Unit
    BY DEF Unit
  <2>5. ~Level(World')
    BY <2>1, <2>3, <2>4 DEF Level
  <2> QED BY <2>2, <2>5
<1>10. Phase(World', s)
  <2>1. Away(unit'[u]) /\ Tidy(unit'[u])
    BY <1>1, <1>2, <1>5, <1>7 DEF Away, Is, Tidy, Pending, SameQueue, Phase
  <2>2. Degraded(World', s)
    BY <1>2, <1>4, <1>5, <1>8, <1>9, <2>1 DEF Degraded
  <2> QED BY <1>1, <1>2, <1>5, <1>6, <1>8, <1>9, <2>1, <2>2 DEF Phase
<1>11. PhaseInv'
  BY <1>10 DEF PhaseInv
<1>12. InboxInv' /\ CommandInv' /\ PartsInv' /\ CountMatches'
  <2>1. unit' = [unit EXCEPT ![u] = unit'[u]]
    BY <1>2, <1>3
  <2> QED BY <1>7, <2>1, SwitchKeepsCommand DEF SwitchOn
<1> QED BY <1>11, <1>12 DEF CInv

(* A disk that may be lost stays within its phase.                         *)
Follows(y, x) ==
  /\ Serves(x) => Serves(y) /\ (x.queue = <<>> => y.queue = <<>>)
  /\ Lost(x) => Lost(y)
  /\ Away(x) => (Away(y) /\ y.link = x.link) \/ (x.link /\ Serves(y) /\ y.queue = <<>>)
  /\ Back(x) => Back(y) /\ (x.status = "ConnectedRW" => y.status = "ConnectedRW")

LEMMA DiskKeepsPhase ==
  ASSUME NEW w, NEW s \in Unit, Phase(w, s), NEW u \in Unit, NEW v, v.raid = w.raid,
         \A k \in Unit : k # u => v.unit[k] = w.unit[k],
         v.unit[u].mem = w.unit[u].mem, v.unit[u].rmd = w.unit[u].rmd,
         IF u = s THEN Serves(v.unit[u]) /\ (Pending(w.unit[u]) <= 1 => Pending(v.unit[u]) <= 1)
                  ELSE Tidy(v.unit[u]) /\ Follows(v.unit[u], w.unit[u])
  PROVE  Phase(v, s)
<1> DEFINE f == Other(s)
<1>1. f \in Unit /\ f # s /\ (u = s \/ u = f)
  BY TheOther
<1>2. /\ v.unit[s].mem = w.unit[s].mem /\ v.unit[s].rmd = w.unit[s].rmd
      /\ v.unit[f].mem = w.unit[f].mem /\ v.unit[f].rmd = w.unit[f].rmd
  BY <1>1
<1>3. Labelled(v, s) /\ (Level(v) <=> Level(w))
  <2>1. Labelled(w, s)
    BY DEF Phase
  <2>2. Labelled(v, s)
    BY <1>2, <2>1 DEF Labelled
  <2>3. Level(v) <=> Level(w)
    BY <1>2, LevelOf
  <2> QED BY <2>2, <2>3
<1>4. /\ Serves(v.unit[s]) /\ Tidy(v.unit[f])
      /\ Pending(w.unit[s]) <= 1 => Pending(v.unit[s]) <= 1
      /\ v.unit[f] = w.unit[f] \/ Follows(v.unit[f], w.unit[f])
  BY <1>1 DEF Phase
<1> HIDE DEF f
<1>5. CASE Mirrored(w, s)
  <2>1. Mirrored(v, s)
    BY <1>3, <1>4, <1>5 DEF Mirrored, Follows, f
  <2> QED BY <1>3, <1>4, <2>1 DEF Phase, f
<1>6. CASE Unmarked(w, s)
  <2>1. Away(v.unit[f]) /\ ~v.unit[f].link
    BY <1>4, <1>6 DEF Unmarked, Follows, f
  <2>2. Unmarked(v, s)
    BY <1>3, <1>6, <2>1 DEF Unmarked, f
  <2> QED BY <1>3, <1>4, <2>2 DEF Phase, f
<1>7. CASE Degraded(w, s)
  <2>1. Away(v.unit[f]) \/ (Serves(v.unit[f]) /\ v.unit[f].queue = <<>>)
    BY <1>4, <1>7 DEF Degraded, Follows, f
  <2>2. Degraded(v, s)
    BY <1>3, <1>7, <2>1 DEF Degraded, f
  <2> QED BY <1>3, <1>4, <2>2 DEF Phase, f
<1>8. CASE Returned(w, s)
  <2>1. Back(v.unit[f]) /\ (w.unit[f].status = "ConnectedRW" => v.unit[f].status = "ConnectedRW")
    BY <1>4, <1>8 DEF Returned, Follows, f
  <2>2. Returned(v, s)
    BY <1>3, <1>8, <2>1 DEF Returned, f
  <2> QED BY <1>3, <1>4, <2>2 DEF Phase, f
<1> QED BY <1>5, <1>6, <1>7, <1>8 DEF Phase

(* A disk that is to refuse an I/O serves as before.                       *)
LEMMA FalterKeepsPhase ==
  ASSUME Willing, IInv, CInv, IInv', NEW u \in Unit, NEW k \in Kind, Falter(u, k)
  PROVE  CInv'
<1>1. PICK s \in Unit : Phase(World, s)
  BY DEF CInv, PhaseInv
<1>2. World.raid = raid /\ World.unit = unit /\ unit \in [Unit -> UnitType]
  BY DEF World, IInv, TypedWorld
<1>3. raid' = raid /\ unit' = [unit EXCEPT ![u] = [unit[u] EXCEPT !.fails = @ \cup {k}]]
  BY <1>2 DEF Falter
<1>4. /\ SameQueue(unit'[u], unit[u]) /\ unit'[u].status = unit[u].status
      /\ unit'[u].sess = unit[u].sess /\ unit'[u].member = unit[u].member
      /\ unit'[u].mem = unit[u].mem /\ unit'[u].rmd = unit[u].rmd /\ unit'[u].link = unit[u].link
      /\ \A v \in Unit : v # u => unit'[v] = unit[v]
  BY <1>2, <1>3 DEF SameQueue, UnitType
<1>5. World'.unit = unit' /\ World'.raid = raid
  BY <1>3 DEF World
<1>6. Pending(unit'[u]) = Pending(unit[u])
  BY <1>4 DEF Pending, SameQueue
<1>7. IF u = s THEN Serves(unit'[u]) ELSE Tidy(unit'[u]) /\ Follows(unit'[u], unit[u])
  <2>1. u = s => Serves(unit[u])
    BY <1>1, <1>2 DEF Phase
  <2>2. u # s => Tidy(unit[u])
    BY <1>1, <1>2, TheOther DEF Phase
  <2>3. Serves(unit[u]) => Serves(unit'[u])
    BY <1>4 DEF Serves, Is, SameQueue
  <2>4. Tidy(unit[u]) => Tidy(unit'[u])
    BY <1>4, <1>6 DEF Tidy, SameQueue
  <2>5. Follows(unit'[u], unit[u])
    BY <1>4 DEF Follows, Serves, Lost, Away, Back, Is, SameQueue
  <2> QED BY <2>1, <2>2, <2>3, <2>4, <2>5
<1>8. Phase(World', s)
  BY <1>1, <1>2, <1>4, <1>5, <1>6, <1>7, DiskKeepsPhase
<1>9. InboxInv' /\ CommandInv' /\ PartsInv' /\ CountMatches'
  <2>1. unit' = [unit EXCEPT ![u] = unit'[u]]
    BY <1>2, <1>3
  <2> QED BY <1>4, <2>1, SwitchKeepsCommand DEF Falter
<1> QED BY <1>8, <1>9 DEF CInv, PhaseInv

-----------------------------------------------------------------------------
(* The threads of the disks.                                               *)

(* What is answered of a command.                                          *)
SamePart(a, c) == a.op = c.op /\ a.lo = c.lo /\ a.val = c.val

(* Disk y was x: what the thread of a disk leaves alone.                   *)
SameDisk(y, x) == y.link = x.link /\ y.member = x.member /\ y.mem = x.mem /\ y.rmd = x.rmd

(* What it stores: nothing, or the block of command c.                     *)
Keeps(y, x) == y.data = x.data /\ y.recent = x.recent
Stores(y, x, c) == LET z == Store(x, c.lo, c.val) IN y.data = z.data /\ y.recent = z.recent

(* A disk that is connected refuses command c.                             *)
Refuses(x, c) == x.sess = "up" /\ c.op = "write" /\ "write" \in x.fails

LEMMA StoresAlike ==
  ASSUME NEW x, x \in UnitType, NEW u, u \in UnitType, Keeps(x, u), NEW k, NEW v
  PROVE  Store(x, k, v).data = Store(u, k, v).data /\ Store(x, k, v).recent = Store(u, k, v).recent
BY DEF Store, Keeps, UnitType

LEMMA SrbExecuted ==
  ASSUME Willing, NEW u, TypedUnit(u), u.queue # <<>>, Is(u, "ConnectedRW", "up"),
         NEW landed \in BOOLEAN
  PROVE  LET p == ProcessSrb(u, landed)
         IN  /\ SameDisk(p[1], u) /\ Is(p[1], "ConnectedRW", "up")
             /\ p[1].queue = Tail(u.queue) /\ p[1].pend = u.pend
             /\ p[2] # NULL /\ SamePart(p[2], Head(u.queue))
             /\ IF Refuses(u, Head(u.queue)) THEN p[2].ok = FALSE ELSE p[2].ok = Head(u.queue).ok
             /\ IF Head(u.queue).op = "read" \/ Refuses(u, Head(u.queue))
                THEN Keeps(p[1], u) ELSE Stores(p[1], u, Head(u.queue))
<1> DEFINE c == Head(u.queue)
           x == [u EXCEPT !.queue = Tail(@)]
           p == ProcessSrb(u, landed)
<1>1. c \in Request /\ Tail(u.queue) \in Seq(Request)
  BY HeadTailProperties DEF TypedUnit, UnitType
<1>2. p = Execute(x, c)
  BY DEF ProcessSrb, Is, Running
<1> HIDE DEF p, c
<1>3. /\ TypedUnit(x) /\ SameDisk(x, u) /\ Is(x, "ConnectedRW", "up")
      /\ x.queue = Tail(u.queue) /\ x.pend = u.pend /\ Keeps(x, u) /\ x.fails = u.fails
  BY <1>1 DEF TypedUnit, UnitType, Sane, SameDisk, Is, Keeps
<1> HIDE DEF x
<1>4. /\ c.op \in {"read", "write"} /\ c.lo \in Block /\ c.hi \in Block /\ c.val \in Written
      /\ c = [op |-> c.op, lo |-> c.lo, hi |-> c.hi, val |-> c.val,
              ok |-> c.ok, xfer |-> c.xfer, vals |-> c.vals] /\ c.ok \in BOOLEAN /\ c.vals = <<>>
  BY <1>1 DEF Request
<1>5. c.lo \in Nat /\ c.hi \in Nat /\ c.lo <= Capacity /\ c.hi <= Capacity - 1 /\ c.val \in Int
      /\ Capacity \in Nat
  BY <1>4, Numbers DEF Block, Written
<1>6. CASE c.op = "read"
  <2> DEFINE V == [b \in c.lo..c.hi |-> x.data[b]]
             n == c.hi - c.lo + 1
             a == [c EXCEPT !.xfer = n, !.vals = V]
  <2>1. p = <<x, a>>
    <3>1. "read" \notin x.fails
      BY <1>3 DEF Willing, TypedUnit, UnitType
    <3> QED BY <1>2, <1>6, <3>1 DEF Execute, ProcessRead
  <2>2. c.lo..c.hi \in SUBSET (0..Capacity) /\ c.lo..c.hi \subseteq Block /\ n \in Int
    BY <1>5 DEF Block
  <2>3. V \in [c.lo..c.hi -> Int]
    <3>1. \A b \in Block : x.data[b] \in Held
      BY <1>3 DEF TypedUnit, UnitType
    <3>2. Held \subseteq Int
      BY Numbers DEF Held, Garbage
    <3> QED BY <2>2, <3>1, <3>2
  <2> HIDE DEF V, n
  <2>4. a = [op |-> c.op, lo |-> c.lo, hi |-> c.hi, val |-> c.val, ok |-> c.ok, xfer |-> n, vals |-> V]
    <3> DEFINE d == [c EXCEPT !.xfer = n]
    <3>1. d = [op |-> c.op, lo |-> c.lo, hi |-> c.hi, val |-> c.val, ok |-> c.ok, xfer |-> n,
               vals |-> c.vals]
      BY <1>4
    <3>2. a = [d EXCEPT !.vals = V]
      OBVIOUS
    <3> HIDE DEF a, d
    <3> QED BY <3>1, <3>2
  <2>5. a \in Answer(c.lo..c.hi)
    BY <1>4, <1>5, <2>2, <2>3, <2>4 DEF Answer
  <2>6. a # NULL /\ SamePart(a, c) /\ a.ok = c.ok
    BY <2>2, <2>4, <2>5, CommandIsNotNull DEF SamePart
  <2> HIDE DEF a
  <2> QED BY <1>3, <1>6, <2>1, <2>6 DEF p, c, Refuses
<1>8. CASE c.op # "read" /\ "write" \in x.fails
  <2> DEFINE y == Refused(x, "write")
  <2>1. p = <<y, Failed(c)>>
    BY <1>2, <1>8 DEF Execute, ProcessWrite
  <2>2. Failed(c) \in Request /\ SamePart(Failed(c), c) /\ Failed(c).ok = FALSE
    BY <1>1 DEF Request, Failed, SamePart, c
  <2>3. Failed(c) # NULL
    BY <2>2, CommandIsNotNull
  <2>4. SameDisk(y, u) /\ Is(y, "ConnectedRW", "up") /\ y.queue = Tail(u.queue) /\ y.pend = u.pend
        /\ Keeps(y, u)
    BY <1>3 DEF Refused, TypedUnit, UnitType, SameDisk, Is, Keeps
  <2>5. Refuses(u, c)
    BY <1>3, <1>4, <1>8 DEF Refuses, Is
  <2> HIDE DEF y
  <2> QED BY <2>1, <2>2, <2>3, <2>4, <2>5 DEF p, c
<1>7. CASE c.op # "read" /\ "write" \notin x.fails
  <2> DEFINE a == [c EXCEPT !.xfer = 1]
             y == Store(x, c.lo, c.val)
  <2>1. p = <<y, a>>
    BY <1>2, <1>7 DEF Execute, ProcessWrite
  <2>2. Intact(y, x) /\ y.mem = x.mem /\ y.rmd = x.rmd
    BY <1>3, <1>4, WrittenIsHeld, StoreIsIntact
  <2>3. a = [op |-> c.op, lo |-> c.lo, hi |-> c.hi, val |-> c.val, ok |-> c.ok, xfer |-> 1, vals |-> <<>>]
    BY <1>4
  <2>4. a \in Answer({})
    <3>1. <<>> \in [{} -> Int]
      OBVIOUS
    <3> HIDE DEF a
    <3> QED BY <1>4, <1>5, <2>3, <3>1 DEF Answer
  <2>5. a # NULL /\ SamePart(a, c) /\ a.ok = c.ok
    BY <2>3, <2>4, CommandIsNotNull DEF SamePart
  <2>7. Stores(y, u, c)
    <3>1. u \in UnitType /\ x \in UnitType
      BY <1>3 DEF TypedUnit
    <3> QED BY <1>3, <3>1, StoresAlike DEF Stores
  <2> HIDE DEF a, y
  <2>6. SameDisk(y, u) /\ Is(y, "ConnectedRW", "up") /\ y.queue = Tail(u.queue) /\ y.pend = u.pend
    BY <1>3, <2>2 DEF Intact, SameQueue, SameDisk, Is
  <2>8. ~Refuses(u, c)
    BY <1>3, <1>7 DEF Refuses
  <2> QED BY <1>7, <2>1, <2>5, <2>6, <2>7, <2>8 DEF p, c
<1> QED BY <1>6, <1>7, <1>8

(* A disk that cannot take a command: it fails it, or, if the command is a *)
(* write and the session was thought to be there, has it wait.             *)
LEMMA SrbFailed ==
  ASSUME NEW u, TypedUnit(u), u.queue # <<>>, NEW landed \in BOOLEAN,
         ~Running(u) \/ Is(u, "ConnectedRW", "broken")
  PROVE  LET p == ProcessSrb(u, landed)
         IN  /\ SameDisk(p[1], u) /\ p[1].queue = Tail(u.queue)
             /\ IF Running(u) THEN Is(p[1], "ReconnectRW", "none") ELSE Is(p[1], u.status, u.sess)
             /\ \/ p[1].pend = u.pend /\ p[2] = Failed(Head(u.queue))
                \/ Running(u) /\ p[1].pend = Failed(Head(u.queue)) /\ p[2] = NULL
             /\ Failed(Head(u.queue)) # NULL /\ SamePart(Failed(Head(u.queue)), Head(u.queue))
             /\ ~Failed(Head(u.queue)).ok
             /\ \/ Keeps(p[1], u)
                \/ Running(u) /\ Head(u.queue).op = "write" /\ Stores(p[1], u, Head(u.queue))
<1> DEFINE c == Head(u.queue)
           x == [u EXCEPT !.queue = Tail(@)]
           hit == IF landed /\ c.op = "write" THEN Store(x, c.lo, c.val) ELSE x
           y == UpdateStatus(hit, FALSE, FALSE)
           p == ProcessSrb(u, landed)
<1>1. c \in Request /\ Tail(u.queue) \in Seq(Request)
  BY HeadTailProperties DEF TypedUnit, UnitType
<1>2. p = IF ~Running(u) THEN <<x, Failed(c)>> ELSE SetPending(y, Failed(c))
  BY DEF ProcessSrb, Is
<1>3. /\ TypedUnit(x) /\ SameDisk(x, u) /\ Is(x, u.status, u.sess)
      /\ x.queue = Tail(u.queue) /\ x.pend = u.pend /\ Keeps(x, u)
  BY <1>1 DEF TypedUnit, UnitType, Sane, SameDisk, Is, Keeps
<1> HIDE DEF c, x, p
<1>4. c.lo \in Block /\ c.val \in Written /\ Failed(c) \in Request
      /\ SamePart(Failed(c), c) /\ ~Failed(c).ok
  BY <1>1 DEF Request, Failed, SamePart
<1>5. Failed(c) # NULL
  BY <1>4, CommandIsNotNull
<1>6. CASE ~Running(u)
  BY <1>2, <1>3, <1>4, <1>5, <1>6 DEF c, p
<1>7. CASE Running(u)
  <2>1. Is(u, "ConnectedRW", "broken")
    BY <1>7
  <2>2. TypedUnit(hit) /\ Intact(hit, x) /\ hit.mem = x.mem /\ hit.rmd = x.rmd
    <3>1. Intact(x, x)
      BY DEF Intact, SameQueue
    <3> QED BY <1>3, <1>4, <3>1, WrittenIsHeld, StoreIsIntact
  <2>8. Keeps(hit, u) \/ (c.op = "write" /\ Stores(hit, u, c))
    <3>1. u \in UnitType /\ x \in UnitType
      BY <1>3 DEF TypedUnit
    <3> QED BY <1>3, <3>1, StoresAlike DEF Stores
  <2> HIDE DEF hit
  <2>3. y = [hit EXCEPT !.sess = "none", !.status = "ReconnectRW"]
    BY <1>3, <2>1, <2>2 DEF UpdateStatus, CheckDataConnection, Is, Intact
  <2>4. /\ SameDisk(y, u) /\ Is(y, "ReconnectRW", "none")
        /\ y.queue = Tail(u.queue) /\ y.pend = u.pend /\ y \in UnitType
    BY <1>3, <2>2, <2>3 DEF SameDisk, Is, Intact, SameQueue, TypedUnit, UnitType, UnitStatus
  <2>9. Keeps(y, u) \/ (c.op = "write" /\ Stores(y, u, c))
    <3>1. y.data = hit.data /\ y.recent = hit.recent
      BY <2>2, <2>3 DEF TypedUnit, UnitType
    <3> QED BY <2>8, <3>1 DEF Keeps, Stores
  <2> HIDE DEF y
  <2>5. p = SetPending(y, Failed(c))
    BY <1>2, <1>7
  <2>6. CASE Failed(c).op = "read"
    BY <1>4, <1>5, <1>7, <2>4, <2>5, <2>6, <2>9 DEF SetPending, p, c
  <2>7. CASE Failed(c).op # "read"
    <3> DEFINE z == [y EXCEPT !.pend = Failed(c)]
    <3>1. p = <<z, NULL>>
      BY <2>5, <2>7 DEF SetPending
    <3>2. SameDisk(z, u) /\ Is(z, "ReconnectRW", "none") /\ z.queue = Tail(u.queue)
          /\ z.pend = Failed(c)
      BY <2>4 DEF SameDisk, Is, UnitType
    <3>3. Keeps(z, u) \/ (c.op = "write" /\ Stores(z, u, c))
      BY <2>4, <2>9 DEF Keeps, Stores, UnitType
    <3> HIDE DEF z
    <3> QED BY <1>4, <1>5, <1>7, <3>1, <3>2, <3>3 DEF p, c
  <2> QED BY <2>6, <2>7
<1> QED BY <1>6, <1>7

(* A disk's thread makes x of its disk and answers command a, if any.      *)
Replies(u, x, a) ==
  /\ UNCHANGED <<raid, command>>
  /\ unit' = [unit EXCEPT ![u] = x]
  /\ inbox' = IF a # NULL /\ unit[u].member THEN Append(inbox, [k |-> "done", c |-> a]) ELSE inbox

LEMMA DiskKeepsCommand ==
  ASSUME Willing, IInv, CInv, IInv', NEW u \in Unit, NEW x, TypedUnit(x), NEW a, Replies(u, x, a),
         Pending(x) + OneIfAny(a) = Pending(unit[u]), a # NULL => unit[u].member,
         AsSent(x.queue), x.pend # NULL => PartOf(x.pend), a # NULL => PartOf(a),
         unit[u].status = "NotPresent" => x.status = "NotPresent",
         a # NULL /\ ~a.ok /\ a.op = "read" => raid.rs # "Good" \/ Missed(x),
         Missed(unit[u]) => raid.rs # "Good" \/ Missed(x),
         x.status = "Disconnected" => unit[u].status = "Disconnected"
  PROVE  InboxInv' /\ CommandInv' /\ PartsInv' /\ CountMatches'
<1> DEFINE e == [k |-> "done", c |-> a]
<1>1. /\ raid' = raid /\ cmd' = cmd /\ count' = count
      /\ unit'[u] = x /\ \A k \in Unit : k # u => unit'[k] = unit[k]
      /\ inbox' = IF a # NULL THEN Append(inbox, e) ELSE inbox
  BY DEF Replies, command, IInv, TypedWorld, World
<1>2. e.k = "done" /\ e.c = a
  OBVIOUS
<1> HIDE DEF e
<1>3. /\ inbox # <<>> => inbox' # <<>> /\ Head(inbox') = Head(inbox)
      /\ \A i \in DOMAIN inbox : i \in DOMAIN inbox' /\ inbox'[i] = inbox[i]
      /\ \A i \in DOMAIN inbox' : i \in DOMAIN inbox \/ (a # NULL /\ inbox'[i] = e)
  <2>1. CASE a # NULL
    BY <1>1, <2>1, Appended DEF IInv
  <2>2. CASE a = NULL
    BY <1>1, <2>2
  <2> QED BY <2>1, <2>2
<1>4. Answers' = Answers + OneIfAny(a)
  <2>1. CASE a # NULL
    <3>1. IsQueue(inbox') /\ Answers' = Answers + (IF e.k = "done" THEN 1 ELSE 0)
      BY <1>1, <2>1, InboxGrows
    <3> QED BY <1>2, <2>1, <3>1 DEF OneIfAny
  <2>2. CASE a = NULL
    BY <1>1, <2>2, InboxKept, Counted DEF OneIfAny
  <2> QED BY <2>1, <2>2
<1>5. CountMatches'
  <2> DEFINE m(k) == Unanswered(k)'
             n == Answers'
  <2>1. m(u) = Pending(x) /\ \A k \in Unit : k # u => m(k) = Unanswered(k)
    BY <1>1 DEF Unanswered, Pending, OneIfAny
  <2>2. /\ Unanswered(0) \in Nat /\ Unanswered(1) \in Nat /\ Answers \in Nat /\ count \in Nat
        /\ Unanswered(u) = Pending(unit[u])
        /\ count = Unanswered(0) + Unanswered(1) + Answers
    BY Counted, UnansweredIsPending DEF CInv, CountMatches
  <2>3. Pending(x) \in Nat /\ OneIfAny(a) \in {0, 1}
    BY PendingIsNat, OneOrNone
  <2>4. n = Answers + OneIfAny(a)
    BY <1>4
  <2> HIDE DEF m, n
  <2>5. count = m(0) + m(1) + n
    <3>1. CASE u = 0
      <4>1. m(0) = Pending(x) /\ m(1) = Unanswered(1) /\ Pending(x) + OneIfAny(a) = Unanswered(0)
        BY <2>1, <2>2, <3>1 DEF Unit
      <4> QED BY <2>2, <2>3, <2>4, <4>1
    <3>2. CASE u = 1
      <4>1. m(1) = Pending(x) /\ m(0) = Unanswered(0) /\ Pending(x) + OneIfAny(a) = Unanswered(1)
        BY <2>1, <2>2, <3>2 DEF Unit
      <4> QED BY <2>2, <2>3, <2>4, <4>1
    <3> QED BY <3>1, <3>2 DEF Unit
  <2> QED BY <1>1, <2>5 DEF CInv, CountMatches, m, n
<1>6. /\ Queued("srb")' => Queued("srb")
      /\ Queued("srb") => Queued("srb")'
      /\ Queued("noPnp")' => Queued("noPnp")
  BY <1>2, <1>3 DEF Queued
<1>7. Failing' => Failing \/ (a # NULL /\ ~a.ok /\ a.op = "read")
  BY <1>2, <1>3 DEF Failing
<1>8. InboxInv'
  <2>1. \A i \in DOMAIN inbox' : inbox'[i].k \in {"srb", "done", "noPnp"}
    BY <1>2, <1>3 DEF CInv, InboxInv
  <2>2. \A i, j \in DOMAIN inbox' : inbox'[i].k = "srb" /\ inbox'[j].k = "srb" => i = j
    BY <1>2, <1>3 DEF CInv, InboxInv
  <2>3. raid.rs = "GoodButPartiallyFailed" => inbox' # <<>> /\ Head(inbox').k = "noPnp"
    BY <1>3 DEF CInv, InboxInv
  <2>4. \A k \in Unit : unit[k].status = "NotPresent" => unit'[k].status = "NotPresent"
    BY <1>1
  <2>5. Failing' => raid.rs # "Good" \/ \E k \in Unit : Missed(unit'[k])
    <3>1. Failing => raid.rs # "Good" \/ \E k \in Unit : Missed(unit[k])
      BY DEF CInv, InboxInv, Missed
    <3> QED BY <1>1, <1>7, <3>1
  <2> QED BY <1>1, <1>6, <2>1, <2>2, <2>3, <2>4, <2>5 DEF CInv, InboxInv, Missed
<1>9. CommandInv'
  <2>1. \A k \in Unit : unit'[k].status = "Disconnected" => unit[k].status = "Disconnected"
    BY <1>1
  <2> QED BY <1>1, <1>6, <2>1 DEF CInv, CommandInv
<1>10. PartsInv'
  <2>1. \A k \in Unit : AsSent(unit'[k].queue) /\ (unit'[k].pend # NULL => PartOf(unit'[k].pend))
    BY <1>1 DEF CInv, PartsInv
  <2>2. \A i \in DOMAIN inbox' : inbox'[i].k = "done" => PartOf(inbox'[i].c)
    BY <1>2, <1>3 DEF CInv, PartsInv
  <2> QED BY <1>1, <2>1, <2>2 DEF PartsInv, AsSent, PartOf
<1> QED BY <1>5, <1>8, <1>9, <1>10

(* A step of a disk's thread that leaves the disk within its phase.        *)
LEMMA ThreadKeepsPhase ==
  ASSUME Willing, IInv, CInv, IInv', NEW s \in Unit, Phase(World, s), NEW u \in Unit, NEW x, TypedUnit(x),
         NEW a, Replies(u, x, a), SameDisk(x, unit[u]),
         IF u = s THEN Serves(x) ELSE Tidy(x) /\ Follows(x, unit[u]),
         Pending(x) + OneIfAny(a) = Pending(unit[u]), a # NULL => unit[u].member,
         AsSent(x.queue), x.pend # NULL => PartOf(x.pend), a # NULL => PartOf(a),
         unit[u].status = "NotPresent" => x.status = "NotPresent",
         a # NULL /\ ~a.ok /\ a.op = "read" => raid.rs # "Good" \/ Missed(x),
         Missed(unit[u]) => raid.rs # "Good" \/ Missed(x),
         x.status = "Disconnected" => unit[u].status = "Disconnected"
  PROVE  CInv'
<1>1. InboxInv' /\ CommandInv' /\ PartsInv' /\ CountMatches'
  BY DiskKeepsCommand
<1>2. /\ unit'[u] = x /\ \A k \in Unit : k # u => unit'[k] = unit[k]
      /\ World'.unit = unit' /\ World'.raid = World.raid /\ World.unit = unit
  BY DEF Replies, IInv, TypedWorld, World
<1>3. Pending(unit[u]) <= 1 => Pending(x) <= 1
  <2>1. Pending(x) \in Nat /\ OneIfAny(a) \in {0, 1}
    BY PendingIsNat, OneOrNone
  <2> QED BY <2>1
<1>4. World'.unit[u] = x /\ World.unit[u] = unit[u]
      /\ World'.unit[u].mem = World.unit[u].mem /\ World'.unit[u].rmd = World.unit[u].rmd
  BY <1>2 DEF SameDisk
<1>5. \A k \in Unit : k # u => World'.unit[k] = World.unit[k]
  BY <1>2
<1>6. Phase(World', s)
  BY <1>2, <1>3, <1>4, <1>5, DiskKeepsPhase
<1>7. PhaseInv'
  BY <1>6 DEF PhaseInv
<1> QED BY <1>1, <1>7 DEF CInv

LEMMA SrbTaken ==
  ASSUME Willing, NEW y, TypedUnit(y), y.queue # <<>>, y.pend = NULL, NEW landed \in BOOLEAN,
         ~Running(y) \/ Is(y, "ConnectedRW", "up") \/ Is(y, "ConnectedRW", "broken")
  PROVE  LET x == ProcessSrb(y, landed)[1]
             a == ProcessSrb(y, landed)[2]
         IN  /\ TypedUnit(x) /\ SameDisk(x, y) /\ x.queue = Tail(y.queue)
             /\ Pending(x) + OneIfAny(a) = Pending(y)
             /\ a # NULL => SamePart(a, Head(y.queue))
             /\ x.pend # NULL => SamePart(x.pend, Head(y.queue)) /\ x.status = "ReconnectRW"
             /\ IF Is(y, "ConnectedRW", "up")
                THEN Is(x, "ConnectedRW", "up") /\ a.ok = (Head(y.queue).ok /\ ~Refuses(y, Head(y.queue)))
                ELSE Is(x, IF Running(y) THEN "ReconnectRW" ELSE y.status,
                           IF Running(y) THEN "none" ELSE y.sess)
             /\ \/ Keeps(x, y) /\ (Is(y, "ConnectedRW", "up") =>
                                     Head(y.queue).op = "read" \/ Refuses(y, Head(y.queue)))
                \/ ~Refuses(y, Head(y.queue)) /\ Running(y) /\ Head(y.queue).op = "write" /\ Stores(x, y, Head(y.queue))
<1> DEFINE x == ProcessSrb(y, landed)[1]
           a == ProcessSrb(y, landed)[2]
           c == Head(y.queue)
<1>1. TypedUnit(x)
  BY ProcessSrbTyped
<1>2. /\ SameDisk(x, y) /\ x.queue = Tail(y.queue)
      /\ \/ x.pend = NULL /\ a # NULL
         \/ x.pend # NULL /\ a = NULL
      /\ a # NULL => SamePart(a, c)
      /\ x.pend # NULL => SamePart(x.pend, c) /\ x.status = "ReconnectRW"
      /\ IF Is(y, "ConnectedRW", "up")
         THEN Is(x, "ConnectedRW", "up") /\ a.ok = (c.ok /\ ~Refuses(y, c))
         ELSE Is(x, IF Running(y) THEN "ReconnectRW" ELSE y.status,
                    IF Running(y) THEN "none" ELSE y.sess)
      /\ \/ Keeps(x, y) /\ (Is(y, "ConnectedRW", "up") => c.op = "read" \/ Refuses(y, c))
         \/ ~Refuses(y, c) /\ Running(y) /\ c.op = "write" /\ Stores(x, y, c)
  <2>1. CASE Is(y, "ConnectedRW", "up")
    <3>1. /\ SameDisk(x, y) /\ Is(x, "ConnectedRW", "up")
          /\ x.queue = Tail(y.queue) /\ x.pend = y.pend
          /\ a # NULL /\ SamePart(a, c)
          /\ IF Refuses(y, c) THEN a.ok = FALSE ELSE a.ok = c.ok
          /\ IF c.op = "read" \/ Refuses(y, c) THEN Keeps(x, y) ELSE Stores(x, y, c)
      BY <2>1, SrbExecuted
    <3>2. c.op \in {"read", "write"} /\ c.ok \in BOOLEAN /\ Refuses(y, c) \in BOOLEAN
      <4>1. y.queue \in Seq(Request)
        BY DEF TypedUnit, UnitType
      <4>2. c \in Request
        BY <4>1, HeadTailProperties
      <4> HIDE DEF c
      <4> QED BY <4>2 DEF Request, Refuses
    <3>3. Running(y)
      BY <2>1 DEF Is, Running
    <3> HIDE DEF x, a, c
    <3> QED BY <2>1, <3>1, <3>2, <3>3
  <2>2. CASE ~Is(y, "ConnectedRW", "up")
    <3>1. ~Running(y) \/ Is(y, "ConnectedRW", "broken")
      BY <2>2
    <3>2. /\ SameDisk(x, y) /\ x.queue = Tail(y.queue)
          /\ IF Running(y) THEN Is(x, "ReconnectRW", "none") ELSE Is(x, y.status, y.sess)
          /\ \/ x.pend = y.pend /\ a = Failed(c)
             \/ Running(y) /\ x.pend = Failed(c) /\ a = NULL
          /\ Failed(c) # NULL /\ SamePart(Failed(c), c) /\ ~Failed(c).ok
          /\ Keeps(x, y) \/ (Running(y) /\ c.op = "write" /\ Stores(x, y, c))
      BY <3>1, SrbFailed
    <3>3. ~Refuses(y, c) \/ Keeps(x, y)
      BY <3>1, <3>2 DEF Refuses, Is
    <3>4. Running(y) => ~Refuses(y, c)
      BY <3>1 DEF Refuses, Is
    <3> HIDE DEF x, a, c
    <3> QED BY <2>2, <3>2, <3>3, <3>4 DEF Is
  <2> QED BY <2>1, <2>2
<1>3. Pending(x) + OneIfAny(a) = Pending(y)
  <2>1. Len(Tail(y.queue)) = Len(y.queue) - 1 /\ Len(y.queue) \in Nat
    BY HeadTailProperties, LenProperties, EmptySeq DEF TypedUnit, UnitType
  <2>2. OneIfAny(y.pend) = 0 /\ OneIfAny(x.pend) + OneIfAny(a) = 1
    <3> HIDE DEF x, a
    <3> QED BY <1>2 DEF OneIfAny
  <2>3. Len(x.queue) = Len(y.queue) - 1 /\ {OneIfAny(x.pend), OneIfAny(a)} \subseteq {0, 1}
    BY <1>2, <2>1, OneOrNone
  <2> HIDE DEF x, a
  <2> QED BY <2>1, <2>2, <2>3 DEF Pending
<1> HIDE DEF x, a
<1> QED BY <1>1, <1>2, <1>3 DEF x, a

LEMMA UnitSrbKeepsPhase ==
  ASSUME Willing, IInv, CInv, IInv', NEW u \in Unit, UnitSrb(u)
  PROVE  CInv'
<1> DEFINE y == unit[u]
           c == Head(y.queue)
<1>1. PICK s \in Unit : Phase(World, s)
  BY DEF CInv, PhaseInv
<1>2. /\ World.raid = raid /\ World.unit = unit /\ \A v \in Unit : TypedUnit(unit[v])
      /\ unit \in [Unit -> UnitType]
  BY Counted DEF World, IInv, TypedWorld
<1>3. PICK landed \in BOOLEAN : Replies(u, ProcessSrb(y, landed)[1], ProcessSrb(y, landed)[2])
  BY DEF UnitSrb, UnitStep, Replies, command
<1>4. y.queue # <<>> /\ TypedUnit(y)
  BY <1>2 DEF UnitSrb
<1>5. c.ok /\ PartOf(c) /\ AsSent(Tail(y.queue))
  <2>1. IsQueue(y.queue) /\ 1 \in DOMAIN y.queue /\ c = y.queue[1]
    BY <1>4, QueueOf
  <2>2. \A i \in DOMAIN Tail(y.queue) : i + 1 \in DOMAIN y.queue /\ Tail(y.queue)[i] = y.queue[i + 1]
    BY <1>4, <2>1, Tailed
  <2> QED BY <2>1, <2>2 DEF CInv, PartsInv, AsSent
<1>6. cmd # NULL
  <2>1. count # 0
    BY <1>4, NothingLeft DEF CInv
  <2> QED BY <2>1 DEF CInv, CountMatches
<1>7. unit[Other(s)].status # "Disconnected"
  BY <1>6, TheOther DEF CInv, CommandInv
<1>8. /\ y.pend = NULL /\ y.member
      /\ \/ Serves(y)
         \/ u = Other(s) /\ Lost(y) /\ Is(y, "ConnectedRW", "broken")
         \/ u = Other(s) /\ Is(y, "NotPresent", "none")
  <2>1. CASE u = s
    BY <1>1, <1>2, <2>1 DEF Phase, Serves
  <2>2. CASE u = Other(s)
    <3>1. Tidy(y) /\ y.status # "ReconnectRW" /\ y.pend = NULL /\ y.member
      BY <1>1, <1>2, <1>4, <2>2 DEF Phase, Tidy
    <3>2. Serves(y) \/ Lost(y) \/ Away(y) \/ Back(y)
      BY <1>1, <1>2, <2>2 DEF Phase, Mirrored, Unmarked, Degraded, Returned
    <3>3. Back(y) => Serves(y)
      BY <1>7, <2>2, <3>1, BackServes DEF Back, Is
    <3> QED BY <2>2, <3>1, <3>2, <3>3 DEF Lost, Away, Is
  <2> QED BY <2>1, <2>2, TheOther
<1>9. PICK x, a : /\ Replies(u, x, a)
                  /\ TypedUnit(x) /\ SameDisk(x, y) /\ x.queue = Tail(y.queue)
                  /\ Pending(x) + OneIfAny(a) = Pending(y)
                  /\ a # NULL => SamePart(a, c)
                  /\ x.pend # NULL => SamePart(x.pend, c) /\ x.status = "ReconnectRW"
                  /\ IF Is(y, "ConnectedRW", "up")
                     THEN Is(x, "ConnectedRW", "up") /\ (c.op = "read" => a.ok = c.ok)
                     ELSE Is(x, IF Running(y) THEN "ReconnectRW" ELSE y.status,
                                IF Running(y) THEN "none" ELSE y.sess)
  <2>1. ~Running(y) \/ Is(y, "ConnectedRW", "up") \/ Is(y, "ConnectedRW", "broken")
    BY <1>8 DEF Serves, Running, Is
  <2>2. c.op = "read" => ~Refuses(y, c) /\ (c.ok /\ ~Refuses(y, c)) = c.ok
    <3>1. c.ok
      BY <1>5
    <3> HIDE DEF c
    <3> QED BY <3>1 DEF Refuses
  <2> QED BY <1>3, <1>4, <1>8, <2>1, <2>2, SrbTaken
<1> HIDE DEF c, y
<1>11. /\ Serves(y) => Serves(x)
       /\ Lost(y) => Lost(x) /\ Missed(x)
       /\ Is(y, "NotPresent", "none") => Is(x, "NotPresent", "none") /\ Missed(x)
       /\ Missed(y) => Is(y, "NotPresent", "none")
       /\ x.status # "Disconnected"
       /\ x.pend # NULL => x.status = "ReconnectRW"
       /\ Away(y) => Away(x) /\ x.link = y.link
       /\ Back(y) => Serves(y)
  BY <1>8, <1>9 DEF Serves, Lost, Away, Back, Missed, SameDisk, Is, Running
<1>12. IF u = s THEN Serves(x) ELSE Tidy(x) /\ Follows(x, y)
  <2>1. CASE u = s
    BY <1>8, <1>11, <2>1, TheOther
  <2>2. CASE u # s
    <3>1. Tidy(y)
      BY <1>1, <1>2, <2>2, TheOther DEF Phase, y
    <3>2. Pending(x) <= 1 /\ x.queue = <<>>
      <4>1. Pending(x) \in Nat /\ OneIfAny(a) \in {0, 1} /\ Len(y.queue) \in Nat
            /\ OneIfAny(y.pend) \in {0, 1}
        BY <1>4, <1>9, PendingIsNat, OneOrNone
      <4>2. Len(y.queue) <= 1 /\ Pending(x) <= 1
        BY <1>9, <3>1, <4>1 DEF Pending, Tidy
      <4> QED BY <1>4, <1>9, <4>2, QueueOf, Tailed
    <3>3. Tidy(x)
      BY <1>11, <3>2 DEF Tidy
    <3>4. Follows(x, y)
      BY <1>4, <1>11 DEF Follows, Back, Serves, Is
    <3> QED BY <2>2, <3>3, <3>4
  <2> QED BY <2>1, <2>2
<1>13. AsSent(x.queue) /\ (x.pend # NULL => PartOf(x.pend)) /\ (a # NULL => PartOf(a))
  BY <1>5, <1>9 DEF SamePart, PartOf
<1>14. a # NULL /\ ~a.ok /\ a.op = "read" => Missed(x)
  BY <1>5, <1>8, <1>9, <1>11 DEF Serves, SamePart
<1>15. (Missed(y) => Missed(x)) /\ (y.status = "NotPresent" => x.status = "NotPresent")
  BY <1>11 DEF Missed, Is
<1> QED BY <1>1, <1>8, <1>9, <1>11, <1>12, <1>13, <1>14, <1>15, ThreadKeepsPhase DEF y

(* A broadcast that comes in time: a disk that is connected, or that the   *)
(* array does not want, stays as it is; another one is connected, and      *)
(* answers the command that waited.                                        *)
LEMMA BroadcastHeard ==
  ASSUME NEW y, TypedUnit(y), y.link, NEW asked \in BOOLEAN,
         Is(y, "ConnectedRW", "up") \/ Is(y, "ReconnectRW", "none") \/ Is(y, "Disconnected", "none"),
         y.status # "ReconnectRW" => y.pend = NULL
  PROVE  LET x == Broadcast(y, FALSE, asked, asked)[1]
             a == Broadcast(y, FALSE, asked, asked)[2]
         IN  /\ TypedUnit(x) /\ SameDisk(x, y) /\ Keeps(x, y) /\ x.queue = y.queue
             /\ IF asked \/ y.status = "ConnectedRW"
                THEN Is(x, "ConnectedRW", "up") /\ x.pend = NULL /\ a = y.pend
                ELSE Is(x, y.status, y.sess) /\ x.pend = y.pend /\ a = NULL
<1> DEFINE p == Broadcast(y, FALSE, asked, asked)
           connect(x) ==
             CASE x.status \in {"TryConnectRW", "ReconnectRW"} /\ asked -> [x EXCEPT !.sess = "up"]
               [] x.status = "TryDisconnectRW" -> [x EXCEPT !.sess = "none"]
               [] OTHER -> x
           answer(x) == IF x.status \in {"ConnectedRW", "Disconnected"}
                        THEN <<[x EXCEPT !.pend = NULL], x.pend>> ELSE <<x, NULL>>
           first == UpdateStatus(y, FALSE, asked)
           v == connect(first)
           z == UpdateStatus(v, FALSE, FALSE)
           Same(x) == SameDisk(x, y) /\ Keeps(x, y) /\ SameQueue(x, y) /\ x \in UnitType
<1>1. p = answer(z)
  <2>1. p = Only({answer(t) : t \in {UpdateStatus(w, FALSE, FALSE) :
                                       w \in {connect(x) : x \in {first}}}})
    BY DEF Broadcast, AnswerPending
  <2>2. {connect(x) : x \in {first}} = {v}
    OBVIOUS
  <2> HIDE DEF first, connect, answer, v
  <2>3. {UpdateStatus(w, FALSE, FALSE) : w \in {v}} = {z}
    OBVIOUS
  <2> HIDE DEF z
  <2>4. {answer(t) : t \in {z}} = {answer(z)}
    OBVIOUS
  <2> QED BY <2>1, <2>2, <2>3, <2>4, OnlyOne
<1>2. TypedUnit(p[1])
  BY BroadcastTyped
<1>3. y \in UnitType
  BY DEF TypedUnit
<1>4. /\ Same(first)
      /\ first.sess = y.sess
      /\ first.status = IF y.status = "Disconnected" /\ asked THEN "TryConnectRW" ELSE y.status
  BY <1>3 DEF UpdateStatus, CheckDataConnection, Is, UnitType, UnitStatus, SameDisk, Keeps, SameQueue
<1> HIDE DEF first
<1>5. /\ Same(v) /\ v.status = first.status
      /\ v.sess = IF first.status \in {"TryConnectRW", "ReconnectRW"} /\ asked THEN "up" ELSE y.sess
  BY <1>4 DEF Is, UnitType, SameDisk, Keeps, SameQueue
<1> HIDE DEF v
<1>6. /\ Same(z)
      /\ IF asked \/ y.status = "ConnectedRW" THEN Is(z, "ConnectedRW", "up") ELSE Is(z, y.status, y.sess)
  BY <1>4, <1>5 DEF UpdateStatus, CheckDataConnection, Is, UnitType, UnitStatus, SameDisk, Keeps, SameQueue
<1> HIDE DEF z
<1>7. /\ SameDisk(p[1], y) /\ Keeps(p[1], y) /\ p[1].queue = y.queue
      /\ p[1].status = z.status /\ p[1].sess = z.sess
      /\ IF z.status \in {"ConnectedRW", "Disconnected"} THEN p[1].pend = NULL /\ p[2] = y.pend
                                                        ELSE p[1].pend = y.pend /\ p[2] = NULL
  <2>1. SameDisk(z, y) /\ Keeps(z, y) /\ z.queue = y.queue /\ z.pend = y.pend /\ z \in UnitType
    BY <1>6 DEF SameQueue
  <2>2. CASE z.status \in {"ConnectedRW", "Disconnected"}
    <3>1. p = <<[z EXCEPT !.pend = NULL], z.pend>>
      BY <1>1, <2>2
    <3> HIDE DEF p
    <3> QED BY <2>1, <2>2, <3>1 DEF UnitType, SameDisk, Keeps
  <2>3. CASE z.status \notin {"ConnectedRW", "Disconnected"}
    <3>1. p = <<z, NULL>>
      BY <1>1, <2>3
    <3> HIDE DEF p
    <3> QED BY <2>1, <2>3, <3>1
  <2> QED BY <2>2, <2>3
<1> HIDE DEF p
<1>8. IF asked \/ y.status = "ConnectedRW"
      THEN Is(p[1], "ConnectedRW", "up") /\ p[1].pend = NULL /\ p[2] = y.pend
      ELSE Is(p[1], y.status, y.sess) /\ p[1].pend = y.pend /\ p[2] = NULL
  BY <1>6, <1>7 DEF Is
<1> QED BY <1>2, <1>7, <1>8 DEF p

LEMMA UnitPnpKeepsPhase ==
  ASSUME Careful, Willing, IInv, CInv, IInv', NEW u \in Unit, NEW late \in BOOLEAN, NEW asked \in BOOLEAN,
         UnitPnp(u, late, asked)
  PROVE  CInv'
<1> DEFINE y == unit[u]
<1>1. PICK s \in Unit : Phase(World, s)
  BY DEF CInv, PhaseInv
<1>2. World.raid = raid /\ World.unit = unit /\ TypedUnit(y)
  BY Counted DEF World
<1>3. ~late /\ y.link /\ y.status # "NotPresent"
  BY DEF UnitPnp
<1>4. Replies(u, Broadcast(y, FALSE, asked, asked)[1], Broadcast(y, FALSE, asked, asked)[2])
  <2>1. UnitStep(u, {Broadcast(y, FALSE, asked, asked)})
    BY <1>3 DEF UnitPnp
  <2> QED BY <2>1 DEF UnitStep, Replies, command
<1>5. /\ y.member /\ (y.status # "ReconnectRW" => y.pend = NULL)
      /\ \/ Serves(y)
         \/ u # s /\ Tidy(y) /\ Is(y, "ReconnectRW", "none") /\ raid.rs # "Good"
         \/ u # s /\ Tidy(y) /\ Back(y)
  <2>1. CASE u = s
    BY <1>1, <1>2, <2>1 DEF Phase, Serves, Is
  <2>2. CASE u # s
    <3>1. u = Other(s)
      BY <2>2, TheOther
    <3>2. Tidy(y)
      BY <1>1, <1>2, <3>1 DEF Phase
    <3>3. Serves(y) \/ Back(y) \/ (Away(y) /\ raid.rs # "Good")
      BY <1>1, <1>2, <1>3, <3>1 DEF Phase, Mirrored, Unmarked, Degraded, Returned, Lost
    <3> QED BY <1>3, <2>2, <3>2, <3>3 DEF Away, Back, Serves, Is, Tidy
  <2> QED BY <2>1, <2>2
<1>6. PICK x, a : /\ Replies(u, x, a)
                  /\ TypedUnit(x) /\ SameDisk(x, y) /\ x.queue = y.queue
                  /\ IF asked \/ y.status = "ConnectedRW"
                     THEN Is(x, "ConnectedRW", "up") /\ x.pend = NULL /\ a = y.pend
                     ELSE Is(x, y.status, y.sess) /\ x.pend = y.pend /\ a = NULL
  <2>1. Is(y, "ConnectedRW", "up") \/ Is(y, "ReconnectRW", "none") \/ Is(y, "Disconnected", "none")
    BY <1>5 DEF Serves, Back
  <2> DEFINE p == Broadcast(y, FALSE, asked, asked)
  <2>2. /\ TypedUnit(p[1]) /\ SameDisk(p[1], y) /\ p[1].queue = y.queue
        /\ IF asked \/ y.status = "ConnectedRW"
           THEN Is(p[1], "ConnectedRW", "up") /\ p[1].pend = NULL /\ p[2] = y.pend
           ELSE Is(p[1], y.status, y.sess) /\ p[1].pend = y.pend /\ p[2] = NULL
    BY <1>2, <1>3, <1>5, <2>1, BroadcastHeard
  <2>3. Replies(u, p[1], p[2])
    BY <1>4
  <2> HIDE DEF p
  <2> QED BY <2>2, <2>3
<1>7. AsSent(y.queue) /\ (y.pend # NULL => PartOf(y.pend))
  BY DEF CInv, PartsInv
<1> HIDE DEF y
<1>8. Pending(x) + OneIfAny(a) = Pending(y)
  <2>1. Len(y.queue) \in Nat /\ OneIfAny(y.pend) \in {0, 1} /\ OneIfAny(NULL) = 0
    BY <1>2, QueueOf, OneOrNone DEF OneIfAny
  <2> QED BY <1>6, <2>1 DEF Pending
<1>9. Pending(y) <= 1 => Pending(x) <= 1
  <2>1. Pending(x) \in Nat /\ OneIfAny(a) \in {0, 1}
    BY <1>6, PendingIsNat, OneOrNone
  <2> QED BY <1>8, <2>1
<1>10. IF u = s THEN Serves(x) ELSE Tidy(x) /\ Follows(x, y)
  <2>1. Serves(y) => Serves(x)
    BY <1>6 DEF Serves, Is, SameDisk
  <2>2. CASE u = s
    BY <1>5, <2>1, <2>2
  <2>3. CASE u # s
    <3>1. Tidy(y)
      BY <1>1, <1>2, <2>3, TheOther DEF Phase, y
    <3>2. Tidy(x)
      BY <1>5, <1>6, <1>9, <3>1 DEF Tidy, Is, SameDisk
    <3>3. Is(y, "ReconnectRW", "none") => y.queue = <<>>
      BY <3>1 DEF Tidy, Is
    <3>4. Follows(x, y)
      BY <1>3, <1>5, <1>6, <2>1, <3>3 DEF Follows, Serves, Lost, Away, Back, Is, SameDisk
    <3> QED BY <2>3, <3>2, <3>4
  <2> QED BY <2>2, <2>3
<1>11. /\ a # NULL => PartOf(a) /\ raid.rs # "Good"
       /\ x.pend # NULL => PartOf(x.pend)
       /\ Missed(y) => raid.rs # "Good"
       /\ x.status = "Disconnected" => y.status = "Disconnected"
  BY <1>3, <1>5, <1>6, <1>7 DEF Serves, Back, Missed, Is
<1> QED BY <1>1, <1>3, <1>5, <1>6, <1>7, <1>8, <1>10, <1>11, ThreadKeepsPhase DEF y

LEMMA UnitGoneKeepsPhase ==
  ASSUME Willing, IInv, CInv, IInv', NEW u \in Unit, UnitGone(u)
  PROVE  CInv'
<1> DEFINE y == unit[u]
           x == [CheckDataConnection(y) EXCEPT !.status = "NotPresent", !.pend = NULL]
           a == y.pend
<1>1. PICK s \in Unit : Phase(World, s)
  BY DEF CInv, PhaseInv
<1>2. World.raid = raid /\ World.unit = unit /\ TypedUnit(y)
  BY Counted DEF World
<1>3. ~y.link /\ y.status # "NotPresent"
  BY DEF UnitGone
<1>4. TypedUnit(x) /\ Replies(u, x, a)
  <2>1. Gone(y) = <<x, a>>
    BY DEF Gone
  <2>2. UnitStep(u, {Gone(y)})
    BY DEF UnitGone
  <2>3. TypedUnit(Gone(y)[1])
    BY <1>2, GoneTyped
  <2> DEFINE p == <<x, a>>
  <2>4. UnitStep(u, {p}) /\ TypedUnit(x)
    BY <2>1, <2>2, <2>3
  <2>5. p[1] = x /\ p[2] = a
    OBVIOUS
  <2> HIDE DEF p, x, a
  <2>6. Replies(u, p[1], p[2])
    BY <2>4 DEF UnitStep, Replies, command
  <2> QED BY <2>4, <2>5, <2>6
<1>5. /\ SameDisk(x, y) /\ x.queue = y.queue /\ x.pend = NULL /\ x.status = "NotPresent"
      /\ x.sess = IF y.sess = "broken" THEN "none" ELSE y.sess
  BY <1>2 DEF CheckDataConnection, TypedUnit, UnitType, SameDisk
<1>6. u = Other(s) /\ Tidy(y) /\ (Lost(y) \/ Away(y))
  <2>1. u = Other(s)
    BY <1>1, <1>2, <1>3, TheOther DEF Phase, Serves
  <2>2. Tidy(y)
    BY <1>1, <1>2, <2>1 DEF Phase
  <2>3. Lost(y) \/ Away(y)
    BY <1>1, <1>2, <1>3, <2>1 DEF Phase, Mirrored, Unmarked, Degraded, Returned, Serves, Back
  <2> QED BY <2>1, <2>2, <2>3
<1>7. AsSent(y.queue) /\ (y.pend # NULL => PartOf(y.pend))
  BY DEF CInv, PartsInv
<1> HIDE DEF x
<1>8. Pending(x) + OneIfAny(a) = Pending(y) /\ (Pending(y) <= 1 => Pending(x) <= 1)
  <2>1. Len(y.queue) \in Nat /\ OneIfAny(y.pend) \in {0, 1} /\ OneIfAny(NULL) = 0
    BY <1>2, QueueOf, OneOrNone DEF OneIfAny
  <2> QED BY <1>5, <2>1 DEF Pending
<1>9. Is(x, "NotPresent", "none") /\ y.member
  BY <1>3, <1>5, <1>6 DEF Lost, Away, Is
<1>10. Tidy(x) /\ Follows(x, y)
  <2>1. Tidy(x)
    BY <1>5, <1>6, <1>8, <1>9 DEF Tidy, SameDisk
  <2>2. Lost(y) => Lost(x)
    BY <1>5, <1>9 DEF Lost, SameDisk
  <2>3. Follows(x, y)
    BY <1>3, <1>5, <1>9, <2>2 DEF Follows, Away, Serves, Back, SameDisk
  <2> QED BY <2>1, <2>3
<1>11. Missed(x) /\ u # s /\ x.status # "Disconnected" /\ AsSent(x.queue) /\ (a # NULL => PartOf(a))
  BY <1>5, <1>6, <1>7, TheOther DEF Missed
<1> HIDE DEF a
<1> QED BY <1>1, <1>3, <1>4, <1>5, <1>8, <1>9, <1>10, <1>11, ThreadKeepsPhase

-----------------------------------------------------------------------------
(* The bus enumerator's thread.                                            *)

(* What it does to the disk that may be lost, while no command is in       *)
(* progress.                                                               *)
LEMMA BusKeeps ==
  ASSUME Willing, IInv, CInv, IInv', NEW s \in Unit, Phase(World, s), NEW u \in Unit, u = Other(s),
         NEW x, TypedUnit(x), SameQueue(x, unit[u]), x.mem = unit[u].mem, x.rmd = unit[u].rmd,
         Missed(x) \/ ManagingLands(x, "readRMD"), ByBus(u, x), cmd = NULL,
         inbox' \in {inbox, Append(inbox, [k |-> "noPnp"])}
  PROVE  /\ SameArray(World', World) /\ World'.unit[s] = unit[s] /\ World'.unit[u] = x
         /\ World'.raid.sub[s] = "Good" /\ World'.raid.sub[u] = Verdict(World', s)
         /\ World'.raid.rs = Rating(World', s)
         /\ Labelled(World', s) /\ (Level(World') <=> Level(World))
         /\ Pending(x) = 0 /\ x.pend = NULL /\ x.queue = <<>>
         /\ cmd' = NULL /\ ~Failing'
         /\ \A i \in DOMAIN inbox' : inbox'[i].k = "noPnp"
         /\ CommandInv' /\ PartsInv' /\ CountMatches'
<1> DEFINE w == [World EXCEPT !.unit[u] = x]
           v == UpdateRAIDStatus(w)
           e == [k |-> "noPnp"]
<1>1. World.raid = raid /\ World.unit = unit /\ Handled(World) /\ s # u
  BY Counted, TheOther DEF World
<1>2. Handled(w) /\ w.raid = World.raid /\ w.unit[u] = x /\ w.unit[s] = unit[s]
  <2>1. SameQueue(x, World.unit[u])
    BY <1>1
  <2> QED BY <1>1, <2>1, SetUnitTyped
<1>3. unit' = v.unit /\ raid' = v.raid /\ cmd' = cmd /\ count' = count
  BY DEF ByBus, command
<1> HIDE DEF w
<1>4. Labelled(w, s) /\ (Level(w) <=> Level(World))
  <2>1. Labelled(World, s)
    BY DEF Phase
  <2>2. Labelled(w, s)
    BY <1>1, <1>2, <2>1 DEF Labelled
  <2>3. w.unit[s].mem = World.unit[s].mem /\ w.unit[Other(s)].mem = World.unit[Other(s)].mem
    BY <1>1, <1>2
  <2>4. Level(w) <=> Level(World)
    BY <2>3, LevelOf
  <2> QED BY <2>2, <2>4
<1>5. Sound(w, s)
  BY <1>1, <1>2, <1>4 DEF Sound, Phase
<1>6. /\ Handled(v) /\ SameArray(v, w) /\ v.unit = w.unit
      /\ v.raid.sub[s] = "Good" /\ v.raid.sub[u] = Verdict(w, s) /\ v.raid.rs = Rating(w, s)
  BY <1>2, <1>5, StatusUpdated
<1> HIDE DEF v
<1>7. World' = v
  BY <1>3, <1>6 DEF World, Handled, TypedWorld
<1>8. /\ Verdict(v, s) = Verdict(w, s) /\ Rating(v, s) = Rating(w, s)
      /\ (Labelled(v, s) <=> Labelled(w, s)) /\ (Level(v) <=> Level(w))
  BY <1>6 DEF SameArray, Verdict, Rating, Labelled, Level
<1>9. SameArray(World', World) /\ World'.unit[s] = unit[s] /\ World'.unit[u] = x
  BY <1>2, <1>6, <1>7 DEF SameArray
<1>10. count = 0 /\ ~Queued("srb") /\ ~Queued("done")
  <2>1. count = 0
    BY DEF CInv, CountMatches
  <2> QED BY <2>1, NothingLeft DEF CInv, CommandInv
<1>11. e.k = "noPnp"
  OBVIOUS
<1> HIDE DEF e
<1>12. \A i \in DOMAIN inbox' : inbox'[i].k = "noPnp"
  <2>1. \A i \in DOMAIN inbox : inbox[i].k = "noPnp"
    BY <1>10 DEF CInv, InboxInv, Queued
  <2>2. inbox' = inbox \/ inbox' = Append(inbox, e)
    BY DEF e
  <2>3. CASE inbox' = Append(inbox, e)
    BY <1>11, <2>1, <2>3, Appended DEF IInv
  <2> QED BY <2>1, <2>2, <2>3
<1>13. Pending(x) = 0 /\ x.pend = NULL /\ x.queue = <<>>
  <2>1. unit[u].queue = <<>> /\ unit[u].pend = NULL /\ Pending(unit[u]) = 0
    BY <1>10, NothingLeft DEF CInv
  <2> QED BY <2>1 DEF SameQueue, Pending
<1>14. ~Failing' /\ CommandInv'
  BY <1>3, <1>12 DEF Failing, CommandInv, Queued
<1>15. CountMatches'
  <2>1. \A k \in Unit : Unanswered(k)' = Unanswered(k)
    BY <1>3, <1>6, StoresTyped
  <2>2. Answers' = Answers
    <3>1. CASE inbox' = inbox
      BY <3>1, InboxKept
    <3>2. CASE inbox' = Append(inbox, e)
      <4>1. IsQueue(inbox') /\ Answers' = Answers + (IF e.k = "done" THEN 1 ELSE 0)
        BY <3>2, InboxGrows
      <4> QED BY <1>11, <4>1, Counted
    <3> QED BY <3>1, <3>2 DEF e
  <2> QED BY <1>3, <2>1, <2>2 DEF CInv, CountMatches, Unit
<1>16. PartsInv'
  BY <1>3, <1>10, <1>15, PartsGone
<1> QED BY <1>3, <1>4, <1>6, <1>7, <1>8, <1>9, <1>12, <1>13, <1>14, <1>15, <1>16

(* What the bus enumerator's thread leaves while no command is under way.   *)
ByBusOnly(s) ==
  LET x == World'.unit[Other(s)]
      y == unit[Other(s)]
  IN /\ cmd = NULL /\ cmd' = NULL
     /\ SameArray(World', World) /\ Phase(World', s)
     /\ World'.unit[s] = unit[s] /\ x.queue = y.queue
     /\ x.data = y.data /\ x.recent = y.recent /\ x.link = y.link
     /\ y.status = "NotPresent" /\ x.status # "ConnectedRW" /\ World'.raid.rs # "Good"

LEMMA BusRemovesKeepsPhase ==
  ASSUME Careful, Willing, IInv, CInv, IInv', NEW s \in Unit, Phase(World, s), NEW u \in Unit, BusRemoves(u)
  PROVE  CInv' /\ ByBusOnly(s)
<1> DEFINE y == unit[u]
           x == [y EXCEPT !.member = FALSE]
<1>1. Phase(World, s)
  OBVIOUS
<1>2. World.raid = raid /\ World.unit = unit /\ TypedUnit(y)
  BY Counted DEF World
<1>3. /\ y.status = "NotPresent" /\ y.member /\ cmd = NULL /\ ByBus(u, x)
      /\ inbox' = Append(inbox, [k |-> "noPnp"])
  BY DEF BusRemoves, Quiet
<1>4. /\ TypedUnit(x) /\ SameQueue(x, y) /\ x.mem = y.mem /\ x.rmd = y.rmd
      /\ x.data = y.data /\ x.recent = y.recent
      /\ x.status = "NotPresent" /\ x.sess = y.sess /\ x.link = y.link /\ ~x.member
  BY <1>2, <1>3 DEF TypedUnit, UnitType, Sane, SameQueue
<1>5. u = Other(s) /\ u # s
  BY <1>1, <1>2, <1>3, TheOther DEF Phase, Serves, Is
<1> HIDE DEF x, y
<1>6. Missed(x)
  BY <1>4 DEF Missed
<1>7. /\ SameArray(World', World) /\ World'.unit[s] = unit[s] /\ World'.unit[u] = x
      /\ World'.raid.sub[s] = "Good" /\ World'.raid.sub[u] = Verdict(World', s)
      /\ World'.raid.rs = Rating(World', s)
      /\ Labelled(World', s) /\ (Level(World') <=> Level(World))
      /\ Pending(x) = 0 /\ x.pend = NULL /\ x.queue = <<>>
      /\ cmd' = NULL /\ ~Failing'
      /\ \A i \in DOMAIN inbox' : inbox'[i].k = "noPnp"
      /\ CommandInv' /\ PartsInv' /\ CountMatches'
  BY <1>1, <1>3, <1>4, <1>5, <1>6, BusKeeps DEF y
<1>8. Away(x) /\ Tidy(x)
  <2>1. y.sess = "none"
    BY <1>1, <1>2, <1>3, <1>5 DEF Phase, Mirrored, Unmarked, Degraded, Returned, Serves, Lost, Away,
                                  Back, Is, y
  <2> QED BY <1>4, <1>7, <2>1 DEF Away, Is, Tidy
<1>9. Phase(World', s) /\ World'.raid.rs \in {"GoodButPartiallyFailed", "BrokenButWorkable"}
  <2>1. Mirrored(World, s) \/ Unmarked(World, s) \/ Degraded(World, s)
    BY <1>1, <1>2, <1>3, <1>5 DEF Phase, Returned, Back, Is, y
  <2>2. /\ World'.raid.sub[u] = (IF World.raid.dirty THEN "Failure" ELSE "NotPresent")
        /\ World'.raid.rs = IF World.raid.dirty THEN "BrokenButWorkable" ELSE "GoodButPartiallyFailed"
    BY <1>4, <1>5, <1>6, <1>7 DEF Verdict, Rating, SubOfStatus, SameArray
  <2>3. Serves(World'.unit[s]) /\ World'.raid.status = "ConnectedRW"
    BY <1>1, <1>2, <1>7 DEF Phase, SameArray
  <2>4. CASE World.raid.dirty
    <3>1. Degraded(World, s)
      BY <2>1, <2>4 DEF Mirrored, Unmarked
    <3>2. Degraded(World', s)
      BY <1>5, <1>7, <1>8, <2>2, <2>4, <3>1 DEF Degraded, SameArray
    <3> QED BY <1>5, <1>7, <1>8, <2>2, <2>3, <2>4, <3>2 DEF Phase
  <2>5. CASE ~World.raid.dirty
    <3>1. Level(World) /\ World.raid.sector = 0 /\ ~x.link
      BY <1>2, <1>3, <1>4, <1>5, <2>1, <2>5 DEF Mirrored, Unmarked, Degraded, Serves, Lost, Is, y
    <3>2. Unmarked(World', s)
      BY <1>5, <1>7, <1>8, <2>2, <2>5, <3>1 DEF Unmarked, SameArray
    <3> QED BY <1>5, <1>7, <1>8, <2>2, <2>3, <2>5, <3>2 DEF Phase
  <2> QED BY <2>4, <2>5
<1>10. PhaseInv' /\ raid'.rs \in {"GoodButPartiallyFailed", "BrokenButWorkable"}
       /\ unit'[u].status = "NotPresent"
  BY <1>4, <1>7, <1>9 DEF PhaseInv, World
<1>11. InboxInv'
  <2> DEFINE e == [k |-> "noPnp"]
  <2>1. e.k = "noPnp" /\ inbox' = Append(inbox, e) /\ IsQueue(inbox)
    BY <1>3 DEF IInv
  <2> HIDE DEF e
  <2>2. inbox' # <<>> /\ Head(inbox') = IF inbox = <<>> THEN e ELSE Head(inbox)
    BY <2>1, Appended
  <2>3. Head(inbox').k = "noPnp"
    <3>1. inbox # <<>> => 1 \in DOMAIN inbox /\ Head(inbox) = inbox[1]
      BY <2>1, Tailed
    <3>2. 1 \in DOMAIN inbox => inbox'[1] = inbox[1] /\ 1 \in DOMAIN inbox'
      BY <2>1, Appended
    <3> QED BY <1>7, <2>1, <2>2, <3>1, <3>2
  <2> QED BY <1>7, <1>10, <2>2, <2>3 DEF InboxInv, Queued
<1>12. ByBusOnly(s)
  BY <1>3, <1>4, <1>5, <1>7, <1>9 DEF ByBusOnly, SameQueue, y
<1> QED BY <1>7, <1>10, <1>11, <1>12 DEF CInv

LEMMA AppearKeepsPhase ==
  ASSUME Careful, Willing, IInv, CInv, IInv', NEW s \in Unit, Phase(World, s), NEW u \in Unit, Appear(u)
  PROVE  CInv' /\ ByBusOnly(s)
<1> DEFINE y == unit[u]
           x == [Found(y) EXCEPT !.member = TRUE]
<1>1. Phase(World, s)
  OBVIOUS
<1>2. World.raid = raid /\ World.unit = unit /\ TypedUnit(y)
  BY Counted DEF World
<1>3. /\ y.link /\ y.status = "NotPresent" /\ ~y.member /\ cmd = NULL /\ ByBus(u, x)
      /\ inbox' = inbox
  BY DEF Appear, Quiet
<1>4. u = Other(s) /\ u # s
  BY <1>1, <1>2, <1>3, TheOther DEF Phase, Serves, Is
<1>5. Degraded(World, s) /\ Is(y, "NotPresent", "none") /\ Labelled(World, s)
  BY <1>1, <1>2, <1>3, <1>4 DEF Phase, Mirrored, Unmarked, Degraded, Returned, Serves, Lost, Away,
                                Back, Is
<1>6. y.rmd = y.mem
  BY <1>2, <1>4, <1>5 DEF Labelled
<1>7. /\ TypedUnit(x) /\ SameQueue(x, y) /\ x.mem = y.mem /\ x.rmd = y.rmd
      /\ Is(x, "Disconnected", "none") /\ x.link /\ x.member
      /\ x.data = y.data /\ x.recent = y.recent /\ x.link = y.link
  <2>1. TypedUnit(Found(y)) /\ Found(y) = [y EXCEPT !.status = "Disconnected", !.mem = y.rmd]
    BY <1>2, <1>3, FoundTyped DEF Found
  <2>2. /\ SameQueue(Found(y), y) /\ Found(y).mem = y.mem /\ Found(y).rmd = y.rmd
        /\ Is(Found(y), "Disconnected", "none") /\ Found(y).link
        /\ Found(y).data = y.data /\ Found(y).recent = y.recent /\ Found(y).link = y.link
    BY <1>2, <1>3, <1>5, <1>6, <2>1 DEF TypedUnit, UnitType, SameQueue, Is
  <2> HIDE DEF y
  <2> DEFINE z == Found(y)
  <2> HIDE DEF z
  <2>3. TypedUnit([z EXCEPT !.member = TRUE]) /\ SameQueue([z EXCEPT !.member = TRUE], z)
        /\ [z EXCEPT !.member = TRUE].mem = z.mem /\ [z EXCEPT !.member = TRUE].rmd = z.rmd
        /\ [z EXCEPT !.member = TRUE].status = z.status /\ [z EXCEPT !.member = TRUE].sess = z.sess
        /\ [z EXCEPT !.member = TRUE].link = z.link /\ [z EXCEPT !.member = TRUE].member
        /\ [z EXCEPT !.member = TRUE].data = z.data
        /\ [z EXCEPT !.member = TRUE].recent = z.recent
    BY <2>1 DEF TypedUnit, UnitType, Sane, SameQueue, z
  <2>4. x = [z EXCEPT !.member = TRUE]
    BY DEF z
  <2> HIDE DEF x
  <2> QED BY <2>2, <2>3, <2>4 DEF SameQueue, Is, z
<1> HIDE DEF x, y
<1>8. ManagingLands(x, "readRMD") /\ ~Missed(x)
  BY <1>7, WillingLands DEF Missed, Is
<1>9. /\ SameArray(World', World) /\ World'.unit[s] = unit[s] /\ World'.unit[u] = x
      /\ World'.raid.sub[s] = "Good" /\ World'.raid.sub[u] = Verdict(World', s)
      /\ World'.raid.rs = Rating(World', s)
      /\ Labelled(World', s) /\ (Level(World') <=> Level(World))
      /\ Pending(x) = 0 /\ x.pend = NULL /\ x.queue = <<>>
      /\ cmd' = NULL /\ ~Failing'
      /\ \A i \in DOMAIN inbox' : inbox'[i].k = "noPnp"
      /\ CommandInv' /\ PartsInv' /\ CountMatches'
  BY <1>1, <1>3, <1>4, <1>7, <1>8, BusKeeps DEF y
<1>10. /\ World'.raid.sub[u] = (IF World'.raid.inRecovery THEN "Recovering" ELSE "NeedRecovery")
       /\ World'.raid.rs = IF World'.raid.inRecovery THEN "Recovering" ELSE "ReadyToRecovery"
       /\ World'.raid.dirty /\ ~Level(World') /\ World'.raid.map # NULL /\ World'.raid.sector = 0
  BY <1>4, <1>5, <1>8, <1>9 DEF Verdict, Rating, Degraded, SameArray
<1>11. Phase(World', s)
  <2>1. Back(x) /\ Tidy(x)
    BY <1>7, <1>9 DEF Back, Tidy, Is
  <2>2. Returned(World', s)
    BY <1>4, <1>9, <1>10, <2>1 DEF Returned
  <2>3. Serves(World'.unit[s]) /\ World'.raid.status = "ConnectedRW"
    BY <1>1, <1>2, <1>9 DEF Phase, SameArray
  <2> QED BY <1>4, <1>9, <2>1, <2>2, <2>3 DEF Phase
<1>12. PhaseInv'
  BY <1>11 DEF PhaseInv
<1>13. InboxInv'
  <2>1. raid' = World'.raid
    BY DEF World
  <2> QED BY <1>9, <1>10, <2>1 DEF InboxInv, Queued
<1>14. ByBusOnly(s)
  BY <1>3, <1>4, <1>7, <1>9, <1>10, <1>11 DEF ByBusOnly, SameQueue, Is, y
<1> QED BY <1>9, <1>12, <1>13, <1>14 DEF CInv

-----------------------------------------------------------------------------
(* The mirror.                                                             *)

LEMMA InitCInv == ASSUME Init PROVE CInv
<1>1. \A u \in Unit : /\ unit[u].status = "ConnectedRW" /\ unit[u].sess = "up"
                      /\ unit[u].link /\ unit[u].member
                      /\ unit[u].pend = NULL /\ unit[u].queue = <<>>
                      /\ unit[u].mem = Synchronized /\ unit[u].rmd = Synchronized
                      /\ raid.sub[u] = "Good"
  BY DEF Init
<1>2. /\ raid.rs = "Good" /\ raid.status = "ConnectedRW" /\ raid.dirty = FALSE /\ raid.sector = 0
      /\ inbox = <<>> /\ cmd = NULL /\ count = 0
  BY DEF Init
<1>3. World.unit = unit /\ World.raid = raid
  BY DEF World
<1>4. \A u \in Unit : Pending(unit[u]) = 0 /\ Serves(unit[u]) /\ Tidy(unit[u])
  <2> SUFFICES ASSUME NEW u \in Unit
               PROVE  Pending(unit[u]) = 0 /\ Serves(unit[u]) /\ Tidy(unit[u])
    OBVIOUS
  <2> DEFINE x == unit[u]
  <2>1. /\ x.status = "ConnectedRW" /\ x.sess = "up" /\ x.link /\ x.member
        /\ x.pend = NULL /\ x.queue = <<>>
    BY <1>1
  <2> HIDE DEF x
  <2>2. Len(x.queue) = 0
    BY <2>1
  <2>3. OneIfAny(x.pend) = 0
    BY <2>1 DEF OneIfAny
  <2>4. Pending(x) = 0
    BY <2>2, <2>3 DEF Pending
  <2>5. Serves(x)
    BY <2>1 DEF Serves, Is
  <2>6. Tidy(x)
    BY <2>1, <2>4 DEF Tidy
  <2> QED BY <2>4, <2>5, <2>6 DEF x
<1>5. 0 \in Unit /\ 1 \in Unit /\ Other(0) = 1
  BY DEF Unit, Other
<1>6. PhaseInv
  <2>0. /\ World.unit[0].mem = Synchronized /\ World.unit[1].mem = Synchronized
        /\ World.unit[0].rmd = Synchronized /\ World.unit[1].rmd = Synchronized
        /\ World.raid.dirty = FALSE
    BY <1>1, <1>2, <1>3, <1>5
  <2>1. Labelled(World, 0) /\ Level(World)
    <3>1. Level(World)
      BY <2>0 DEF Level
    <3>2. Synchronized.usn = 1 /\ Synchronized.degraded = FALSE /\ Synchronized.notSynced = {}
      BY DEF Synchronized
    <3>3. Labelled(World, 0)
      BY <1>5, <2>0, <3>2 DEF Labelled
    <3> QED BY <3>1, <3>3
  <2>2. Mirrored(World, 0)
    BY <1>1, <1>2, <1>3, <1>4, <1>5, <2>1 DEF Mirrored
  <2>3. Phase(World, 0)
    BY <1>1, <1>2, <1>3, <1>4, <1>5, <2>1, <2>2 DEF Phase
  <2> QED BY <1>5, <2>3 DEF PhaseInv
<1>7. InboxInv /\ CommandInv
  BY <1>1, <1>2 DEF InboxInv, CommandInv, Queued, Failing
<1>8. PartsInv
  BY <1>1, <1>2 DEF PartsInv, AsSent
<1>9. CountMatches
  <2>1. Unanswered(0) = 0 /\ Unanswered(1) = 0
    BY <1>4, <1>5, UnansweredIsPending
  <2>2. Done(inbox) = {}
    BY <1>2 DEF Done
  <2>3. Answers = 0
    BY <2>2, AnswersAreDone, FS_EmptySet
  <2> QED BY <1>2, <2>1, <2>3 DEF CountMatches
<1> QED BY <1>6, <1>7, <1>8, <1>9 DEF CInv

(* Every step leaves the mirror in a phase, if outages and commands keep   *)
(* out of the windows that Careful closes.                                 *)
LEMMA StepCInv == ASSUME Careful, Willing, IInv, CInv, [Next]_vars PROVE CInv'
<1>1. IInv'
  BY StepIInv
<1>2. ASSUME NEW op \in {"read", "write"}, NEW lo \in Block, NEW hi \in Block, Issue(op, lo, hi)
      PROVE  CInv'
  BY <1>1, <1>2, IssueKeepsPhase
<1>3. ASSUME NEW u \in Unit, SwitchOff(u) \/ SwitchOn(u) PROVE CInv'
  BY <1>1, <1>3, SwitchOffKeepsPhase, SwitchOnKeepsPhase
<1>15. ASSUME NEW u \in Unit, NEW k \in Kind, Falter(u, k) PROVE CInv'
  BY <1>1, <1>15, FalterKeepsPhase
<1>4. CASE WorkerSrb
  BY <1>1, <1>4, WorkerSrbKeepsPhase
<1>5. CASE WorkerCompleted
  BY <1>1, <1>5, WorkerCompletedKeepsPhase
<1>6. CASE WorkerNoPnp
  BY <1>1, <1>6, WorkerNoPnpKeepsPhase
<1>7. CASE WorkerPnp
  BY <1>1, <1>7, WorkerPnpKeepsPhase
<1>8. CASE TimedOut \/ Recover
  BY <1>1, <1>8, IdleKeepsPhase
<1>9. ASSUME NEW u \in Unit, UnitSrb(u) PROVE CInv'
  BY <1>1, <1>9, UnitSrbKeepsPhase
<1>10. ASSUME NEW u \in Unit, UnitGone(u) PROVE CInv'
  BY <1>1, <1>10, UnitGoneKeepsPhase
<1>0. PICK s \in Unit : Phase(World, s)
  BY DEF CInv, PhaseInv
<1>11. ASSUME NEW u \in Unit, BusRemoves(u) PROVE CInv'
  BY <1>0, <1>1, <1>11, BusRemovesKeepsPhase
<1>12. ASSUME NEW u \in Unit, Appear(u) PROVE CInv'
  BY <1>0, <1>1, <1>12, AppearKeepsPhase
<1>13. ASSUME NEW u \in Unit, NEW late \in BOOLEAN, NEW asked \in BOOLEAN, UnitPnp(u, late, asked)
       PROVE  CInv'
  BY <1>1, <1>13, UnitPnpKeepsPhase
<1>14. CASE UNCHANGED vars
  BY <1>14 DEF vars, command, CInv, PhaseInv, World, InboxInv, CommandInv, PartsInv, CountMatches,
               Queued, Failing, AsSent, PartOf, Unanswered, Answers
<1> QED BY <1>2, <1>3, <1>4, <1>5, <1>6, <1>7, <1>8, <1>9, <1>10, <1>11, <1>12, <1>13, <1>14, <1>15
        DEF Next, Environment

LEMMA CInvAlways == ASSUME Careful, Willing PROVE Spec => []CInv
<1>1. Init => CInv
  BY InitCInv
<1>2. IInv /\ CInv /\ [Next]_vars => CInv'
  BY StepCInv
<1> QED BY <1>1, <1>2, IInvAlways, PTL DEF Spec

(* One of the two disks serves at all times, and the array is mirrored,    *)
(* has yet to note the loss of the other disk, is degraded, or has it back *)
(* and recovers: it is never broken or not ready, and its metadata say at  *)
(* each moment which disk is to be trusted (updateRAIDStatus,              *)
(* initAndSetBitmap and recovery of NDASRAIDUnitDevice.cpp).  A careful    *)
(* environment (Careful) and disks that refuse only writes and the         *)
(* recovery's I/O (Willing) are assumed: one that refuses its metadata, on *)
(* a session that is kept, is marked as failed.                            *)
THEOREM MirrorPhases == ASSUME Careful, Willing PROVE Spec => [](PhaseInv /\ InboxInv /\ CommandInv)
<1>1. CInv => PhaseInv /\ InboxInv /\ CommandInv
  BY DEF CInv
<1> QED BY <1>1, CInvAlways, PTL

(* The counter of outstanding commands is exact, though a disk may be lost *)
(* with a command that waits, found again or let go, and no answer is left *)
(* when the host has its own: a late answer of one command is never taken  *)
(* for an answer to the next (NDASRAIDUnitDeviceController.cpp,            *)
(* processSrbCompletedCommand), under the same assumptions.                *)
THEOREM MirrorCounts == ASSUME Careful, Willing PROVE Spec => []CountMatches
<1>1. CInv => CountMatches
  BY DEF CInv
<1> QED BY <1>1, CInvAlways, PTL
==============================================================================

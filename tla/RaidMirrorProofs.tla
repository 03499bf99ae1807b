--------------------------- MODULE RaidMirrorProofs ---------------------------
(***************************************************************************)
(* Proofs about RaidMirror, for every size of the array and of the caches, *)
(* any number of commands and outages, whatever I/O the disks refuse, and  *)
(* whether or not commands and outages keep out of the windows that        *)
(* Careful closes.                                                         *)
(***************************************************************************)
EXTENDS RaidMirror, SequenceTheorems, FiniteSetTheorems, WellFoundedInduction, TLAPS

-----------------------------------------------------------------------------
(* The inductive invariant.                                                *)

UnitStatus == {"Disconnected", "TryConnectRW", "ConnectedRW", "ReconnectRW",
               "TryDisconnectRW", "NotPresent"}
SubStatus == {"Good", "Recovering", "NeedRecovery", "NotPresent", "Failure"}
ArrayStatus == {"NotReady", "Good", "ReadyToRecovery", "Recovering",
                "GoodButPartiallyFailed", "BrokenButWorkable", "Broken"}

Written == 0..MaxCmds
Held == Garbage..MaxCmds
Bitmap == SUBSET (0..Capacity)
Metadata == [usn : Nat, degraded : BOOLEAN, notSynced : SUBSET Unit]
Request == [op : {"read", "write"}, lo : Block, hi : Block, val : Written,
            ok : BOOLEAN, xfer : {0}, vals : {<<>>}]
Saved == [b : Block, old : Held]

UnitType ==
  [status : UnitStatus, link : BOOLEAN, sess : {"up", "broken", "none"}, member : BOOLEAN,
   queue : Seq(Request), pend : {NULL} \cup Request, mem : Metadata, rmd : Metadata,
   map : Bitmap, data : [Block -> Held], recent : Seq(Saved), fails : SUBSET Refusable]

RaidType ==
  [rs : ArrayStatus, status : UnitStatus \cup {"Failure"}, sub : [Unit -> SubStatus],
   dirty : BOOLEAN, inRecovery : BOOLEAN, sector : 0..Capacity,
   map : {NULL} \cup Bitmap, history : Seq(Block)]

(* A disk that is off has no session, and no status of one that is about   *)
(* to connect; a connected one has a session, though perhaps a lost one.   *)
Sane(u) ==
  /\ ~u.link => u.status \in {"ConnectedRW", "ReconnectRW", "NotPresent"} /\ u.sess # "up"
  /\ u.status = "ConnectedRW" => u.sess # "none"

TypedUnit(u) == u \in UnitType /\ Len(u.recent) <= Cache /\ Sane(u)

(* A recovery has its bitmap in memory.                                    *)
TypedRaid(r) ==
  /\ r \in RaidType /\ Len(r.history) <= Cache + 1
  /\ r.inRecovery => r.map \in Bitmap

TypedWorld(w) ==
  /\ w \in [unit : [Unit -> UnitType], raid : RaidType]
  /\ \A u \in Unit : TypedUnit(w.unit[u])
  /\ TypedRaid(w.raid)

(* A world that a handler makes of the present one: the queues of the disks, *)
(* and the commands that wait for a session, are left to their threads.    *)
SameQueue(x, u) == x.queue = u.queue /\ x.pend = u.pend
Handled(w) == TypedWorld(w) /\ \A u \in Unit : SameQueue(w.unit[u], unit[u])

(* The commands that a disk has not yet answered, and the answers on their *)
(* way to the worker.                                                      *)
OneIfAny(c) == IF c = NULL THEN 0 ELSE 1
Pending(x) == Len(x.queue) + OneIfAny(x.pend)
Done(s) == {i \in DOMAIN s : s[i].k = "done"}
IsQueue(s) == \E S : s \in Seq(S)

(* The worker expects every answer that is on its way, or that a disk has  *)
(* still to give: fNumberOfNewBuildCommands, which is unsigned, is never   *)
(* decreased below zero.                                                   *)
AnswersExpected == Unanswered(0) + Unanswered(1) + Answers <= count

Asked == [op : {"read", "write"}, lo : Block, hi : Block, val : Written]

IInv ==
  /\ TypedWorld(World)
  /\ cmd \in {NULL} \cup Asked
  /\ issued \in 0..MaxCmds
  /\ idle \in BOOLEAN
  /\ want \in [Block -> SUBSET Written] /\ refused \in SUBSET Written
  /\ count \in Nat /\ IsQueue(inbox)
  /\ AnswersExpected

-----------------------------------------------------------------------------
(* Singletons, numbers and sequences.                                      *)

LEMMA OnlyIn == ASSUME NEW S, NEW e, e \in S PROVE Only(S) \in S
BY DEF Only

LEMMA OnlyOne == ASSUME NEW e PROVE Only({e}) = e
BY DEF Only

LEMMA WrittenIsHeld == Written \subseteq Held
BY MirrorAssumption DEF Written, Held, Garbage

LEMMA Numbers == /\ Cache \in Nat /\ Capacity \in Nat /\ MaxCmds \in Nat
                 /\ Block \subseteq 0..Capacity /\ Block \subseteq Nat
BY CacheAssumption, MirrorAssumption DEF Block

(* A set of numbers has a least element.                                   *)
LEMMA LeastIn ==
  ASSUME NEW S, S \subseteq Nat, S # {}
  PROVE  \E k \in S : \A j \in S : k <= j
<1> DEFINE R == {ss \in Nat \X Nat : ss[1] < ss[2]}
<1>1. IsWellFoundedOn(R, Nat)
  BY NatLessThanWellFounded DEF OpToRel
<1>2. \A x, y \in Nat : <<y, x>> \in R <=> y < x
  OBVIOUS
<1> HIDE DEF R
<1>3. \E x \in S : \A y \in S : ~ (<<y, x>> \in R)
  BY <1>1, WFMin
<1>4. \E x \in S : \A y \in S : ~(y < x)
  BY <1>2, <1>3
<1>5. \A x, y \in S : ~(y < x) => x <= y
  OBVIOUS
<1> QED BY <1>4, <1>5

(* A sequence cut at its head when it is longer than n.                    *)
LEMMA CutIsShort ==
  ASSUME NEW S, NEW s \in Seq(S), NEW e \in S, NEW n \in Nat, Len(s) <= n
  PROVE  LET t == Append(s, e)
         IN  /\ t \in Seq(S) /\ Len(t) = Len(s) + 1
             /\ Tail(t) \in Seq(S) /\ Len(Tail(t)) = Len(s)
             /\ SubSeq(t, 1 + (IF Len(t) > n THEN 1 ELSE 0), Len(t)) \in Seq(S)
             /\ Len(SubSeq(t, 1 + (IF Len(t) > n THEN 1 ELSE 0), Len(t))) <= n
<1> DEFINE t == Append(s, e)
           m == 1 + (IF Len(t) > n THEN 1 ELSE 0)
<1>1. t \in Seq(S) /\ Len(t) = Len(s) + 1 /\ Len(s) \in Nat
  BY LenProperties
<1>2. t # <<>>
  BY <1>1, EmptySeq
<1>3. Tail(t) \in Seq(S) /\ Len(Tail(t)) = Len(s)
  BY <1>1, <1>2, HeadTailProperties
<1>4. m \in {1, 2} /\ Len(t) \in Int
  BY <1>1
<1>5. \A i \in m .. Len(t) : t[i] \in S
  BY <1>1, <1>4, ElementOfSeq
<1>6. SubSeq(t, m, Len(t)) \in Seq(S)
      /\ Len(SubSeq(t, m, Len(t))) = IF m <= Len(t) THEN Len(t) - m + 1 ELSE 0
  <2> HIDE DEF t, m
  <2> QED BY <1>4, <1>5, SubSeqProperties
<1>7. Len(SubSeq(t, m, Len(t))) <= n
  BY <1>1, <1>4, <1>6
<1> HIDE DEF t
<1> QED BY <1>1, <1>3, <1>6, <1>7 DEF m

(* The answers on their way to the worker.                                  *)
LEMMA DoneIsFinite ==
  ASSUME NEW s, IsQueue(s)
  PROVE  IsFiniteSet(Done(s)) /\ Cardinality(Done(s)) \in Nat
<1>1. PICK S : s \in Seq(S)
  BY DEF IsQueue
<1>2. DOMAIN s = 1 .. Len(s) /\ Len(s) \in Nat
  BY <1>1, LenProperties
<1>3. IsFiniteSet(1 .. Len(s)) /\ Done(s) \in SUBSET (1 .. Len(s))
  BY <1>2, FS_Interval DEF Done
<1> QED BY <1>3, FS_Subset, FS_CardinalityType

LEMMA AnswerAdded ==
  ASSUME NEW s, IsQueue(s), NEW e
  PROVE  /\ IsQueue(Append(s, e))
         /\ Cardinality(Done(Append(s, e)))
              = Cardinality(Done(s)) + (IF e.k = "done" THEN 1 ELSE 0)
<1> DEFINE t == Append(s, e)
<1>1. PICK S : s \in Seq(S)
  BY DEF IsQueue
<1>2. s \in Seq(S \cup {e}) /\ e \in S \cup {e}
  BY <1>1, SeqMonotonic
<1>3. /\ t \in Seq(S \cup {e}) /\ Len(t) = Len(s) + 1 /\ Len(s) \in Nat
      /\ \A i \in 1 .. Len(s) : t[i] = s[i]
      /\ t[Len(s) + 1] = e
      /\ DOMAIN t = 1 .. Len(t) /\ DOMAIN s = 1 .. Len(s)
  BY <1>1, <1>2, AppendProperties, LenProperties
<1>4. IsQueue(t)
  BY <1>3 DEF IsQueue
<1> HIDE DEF t
<1>5. Done(t) = IF e.k = "done" THEN Done(s) \cup {Len(s) + 1} ELSE Done(s)
  BY <1>3 DEF Done
<1>6. Len(s) + 1 \notin Done(s)
  BY <1>3 DEF Done
<1>7. IsFiniteSet(Done(s)) /\ Cardinality(Done(s)) \in Nat
  BY DoneIsFinite
<1>8. Cardinality(Done(s) \cup {Len(s) + 1}) = Cardinality(Done(s)) + 1
  BY <1>6, <1>7, FS_AddElement
<1> QED BY <1>4, <1>5, <1>7, <1>8 DEF t

LEMMA AnswerTaken ==
  ASSUME NEW s, IsQueue(s), s # <<>>
  PROVE  /\ IsQueue(Tail(s))
         /\ Cardinality(Done(s))
              = Cardinality(Done(Tail(s))) + (IF Head(s).k = "done" THEN 1 ELSE 0)
<1> DEFINE t == Tail(s)
           D == Done(s) \ {1}
           F == [i \in Done(t) |-> i + 1]
<1>1. PICK S : s \in Seq(S)
  BY DEF IsQueue
<1>2. /\ t \in Seq(S) /\ Len(t) = Len(s) - 1 /\ Len(s) \in Nat /\ Len(s) > 0
      /\ \A i \in 1 .. Len(t) : t[i] = s[i + 1]
      /\ DOMAIN t = 1 .. Len(t) /\ DOMAIN s = 1 .. Len(s) /\ Head(s) = s[1]
  BY <1>1, HeadTailProperties, LenProperties, EmptySeq
<1>3. IsQueue(t)
  BY <1>2 DEF IsQueue
<1> HIDE DEF t
<1>4. F \in Bijection(Done(t), D)
  <2>1. F \in [Done(t) -> D]
    BY <1>2 DEF Done
  <2>2. \A i, j \in Done(t) : F[i] = F[j] => i = j
    BY <1>2 DEF Done
  <2>3. \A j \in D : \E i \in Done(t) : F[i] = j
    <3> SUFFICES ASSUME NEW j \in D PROVE \E i \in Done(t) : F[i] = j
      OBVIOUS
    <3>1. j - 1 \in Done(t)
      BY <1>2 DEF Done
    <3>2. j \in Int
      BY <1>2 DEF Done
    <3> QED BY <3>1, <3>2
  <2> HIDE DEF F, D
  <2> QED BY <2>1, <2>2, <2>3 DEF Bijection, Injection, IsInjective, Surjection
<1>5. ExistsBijection(Done(t), D)
  BY <1>4 DEF ExistsBijection
<1>6. IsFiniteSet(Done(t)) /\ IsFiniteSet(Done(s)) /\ Cardinality(Done(s)) \in Nat
  BY <1>3, DoneIsFinite
<1>7. Cardinality(D) = Cardinality(Done(t))
  BY <1>5, <1>6, FS_Bijection
<1>8. Cardinality(D) = IF 1 \in Done(s) THEN Cardinality(Done(s)) - 1 ELSE Cardinality(Done(s))
  BY <1>6, FS_RemoveElement
<1>9. 1 \in Done(s) <=> Head(s).k = "done"
  BY <1>2 DEF Done
<1> QED BY <1>3, <1>6, <1>7, <1>8, <1>9 DEF t

(* The units a command is sent to.                                         *)
LEMMA UnitsCounted ==
  ASSUME NEW S \in SUBSET Unit
  PROVE  Cardinality(S) = (IF 0 \in S THEN 1 ELSE 0) + (IF 1 \in S THEN 1 ELSE 0)
<1>1. Cardinality({}) = 0 /\ Cardinality({0}) = 1 /\ Cardinality({1}) = 1 /\ IsFiniteSet({0})
  BY FS_EmptySet, FS_Singleton
<1>2. Cardinality({0} \cup {1}) = 2
  BY <1>1, FS_AddElement
<1>3. CASE S = {}
  BY <1>1, <1>3
<1>4. CASE S = {0}
  BY <1>1, <1>4
<1>5. CASE S = {1}
  BY <1>1, <1>5
<1>6. CASE S = {0} \cup {1}
  BY <1>2, <1>6
<1> QED BY <1>3, <1>4, <1>5, <1>6 DEF Unit

-----------------------------------------------------------------------------
(* The operations of a disk.                                               *)

LEMMA UpdateStatusTyped ==
  ASSUME NEW u, TypedUnit(u), NEW late \in BOOLEAN, NEW configured \in BOOLEAN,
         late => u.link, configured => u.link
  PROVE  LET x == UpdateStatus(u, late, configured)
         IN  TypedUnit(x) /\ x.link = u.link /\ x.data = u.data /\ SameQueue(x, u)
<1> DEFINE s == CASE u.status = "Disconnected" /\ configured -> "TryConnectRW"
                 [] u.status \in {"TryConnectRW", "ReconnectRW"} /\ u.sess = "up" -> "ConnectedRW"
                 [] u.status \in {"TryConnectRW", "ReconnectRW"} /\ ~(u.sess = "up") /\ late ->
                      "TryDisconnectRW"
                 [] u.status = "ConnectedRW" /\ ~(u.sess = "up") -> "ReconnectRW"
                 [] u.status = "TryDisconnectRW" /\ ~(u.sess = "up") -> "Disconnected"
                 [] OTHER -> u.status
           c == CheckDataConnection(u)
<1>1. UpdateStatus(u, late, configured) = [c EXCEPT !.status = s]
  BY DEF UpdateStatus
<1>2. /\ s \in UnitStatus
      /\ ~u.link => s \in {"ConnectedRW", "ReconnectRW", "NotPresent"}
      /\ s = "ConnectedRW" => u.sess = "up"
  BY DEF TypedUnit, UnitType, UnitStatus, Sane
<1> HIDE DEF s
<1>3. /\ c \in UnitType /\ c.link = u.link /\ c.data = u.data /\ c.recent = u.recent
      /\ c.sess = IF u.sess = "broken" THEN "none" ELSE u.sess
      /\ c.queue = u.queue /\ c.pend = u.pend
  BY DEF CheckDataConnection, TypedUnit, UnitType
<1> HIDE DEF c
<1> QED BY <1>1, <1>2, <1>3 DEF TypedUnit, UnitType, Sane, SameQueue

LEMMA RefusedTyped ==
  ASSUME NEW u, TypedUnit(u), NEW k
  PROVE  LET x == Refused(u, k)
         IN  /\ TypedUnit(x) /\ SameQueue(x, u)
             /\ x.link = u.link /\ x.data = u.data /\ x.status = u.status /\ x.sess = u.sess
BY DEF Refused, TypedUnit, UnitType, Sane, SameQueue

LEMMA ManagingAfterTyped ==
  ASSUME NEW u, TypedUnit(u), NEW k
  PROVE  /\ TypedUnit(ManagingAfter(u, k)) /\ ManagingAfter(u, k).data = u.data
         /\ SameQueue(ManagingAfter(u, k), u)
<1> DEFINE x == IF Reached(u) THEN Refused(u, k) ELSE u
<1>1. TypedUnit(x) /\ x.data = u.data /\ SameQueue(x, u)
  BY RefusedTyped DEF SameQueue
<1>2. ManagingAfter(u, k) = UpdateStatus(x, FALSE, FALSE)
  BY DEF ManagingAfter
<1> HIDE DEF x
<1>3. /\ TypedUnit(UpdateStatus(x, FALSE, FALSE)) /\ SameQueue(UpdateStatus(x, FALSE, FALSE), x)
      /\ UpdateStatus(x, FALSE, FALSE).data = x.data
  BY <1>1, UpdateStatusTyped
<1> QED BY <1>1, <1>2, <1>3 DEF SameQueue

LEMMA CheckRMDTyped ==
  ASSUME NEW u, TypedUnit(u) PROVE TypedUnit(CheckRMD(u)) /\ SameQueue(CheckRMD(u), u)
<1>1. TypedUnit([u EXCEPT !.mem = u.rmd]) /\ SameQueue([u EXCEPT !.mem = u.rmd], u)
  BY DEF TypedUnit, UnitType, Sane, SameQueue
<1> QED BY <1>1, ManagingAfterTyped DEF CheckRMD

LEMMA WriteRMDTyped ==
  ASSUME NEW u, TypedUnit(u), NEW r \in Metadata
  PROVE  /\ TypedUnit(WriteRMD(u, r)) /\ SameQueue(WriteRMD(u, r), u)
         /\ TypedUnit(WriteAndCheckRMD(u, r)) /\ SameQueue(WriteAndCheckRMD(u, r), u)
<1>1. TypedUnit([u EXCEPT !.rmd = r]) /\ SameQueue([u EXCEPT !.rmd = r], u)
  BY DEF TypedUnit, UnitType, Sane, SameQueue
<1>2. TypedUnit(WriteRMD(u, r)) /\ SameQueue(WriteRMD(u, r), u)
  BY <1>1, ManagingAfterTyped DEF WriteRMD
<1>3. TypedUnit(CheckRMD(WriteRMD(u, r))) /\ SameQueue(CheckRMD(WriteRMD(u, r)), u)
  BY <1>2, CheckRMDTyped DEF SameQueue
<1> QED BY <1>2, <1>3 DEF WriteAndCheckRMD

LEMMA WriteMapTyped ==
  ASSUME NEW u, TypedUnit(u), NEW m \in Bitmap
  PROVE  TypedUnit(WriteMap(u, m)) /\ SameQueue(WriteMap(u, m), u)
<1>1. TypedUnit([u EXCEPT !.map = m]) /\ SameQueue([u EXCEPT !.map = m], u)
  BY DEF TypedUnit, UnitType, Sane, SameQueue
<1> QED BY <1>1, ManagingAfterTyped DEF WriteMap

LEMMA StoreTyped ==
  ASSUME NEW u, TypedUnit(u), NEW k \in Block, NEW v \in Held
  PROVE  TypedUnit(Store(u, k, v)) /\ SameQueue(Store(u, k, v), u)
<1> DEFINE e == [b |-> k, old |-> u.data[k]]
           t == Append(u.recent, e)
           r == SubSeq(t, 1 + (IF Len(t) > Cache THEN 1 ELSE 0), Len(t))
           d == [u.data EXCEPT ![k] = v]
<1>1. e \in Saved /\ d \in [Block -> Held] /\ u.recent \in Seq(Saved)
  BY DEF TypedUnit, UnitType, Saved
<1> HIDE DEF e
<1>2. r \in Seq(Saved) /\ Len(r) <= Cache
  BY <1>1, CutIsShort, Numbers DEF TypedUnit
<1>3. Store(u, k, v) = [u EXCEPT !.data = d, !.recent = r]
  BY DEF Store, TypedUnit, UnitType, e
<1> HIDE DEF r, d
<1> QED BY <1>1, <1>2, <1>3 DEF TypedUnit, UnitType, Sane, SameQueue

(* A disk that is switched off gets back what was in front of the writes   *)
(* it loses: values that it once held.                                     *)
LEMMA LoseTyped ==
  ASSUME NEW u, TypedUnit(u), Running(u), NEW lost \in SUBSET Cached(u)
  PROVE  TypedUnit(Lose(u, lost))
<1> DEFINE S(b) == {k \in DOMAIN u.recent : u.recent[k].b = b}
           old(b) == u.recent[CHOOSE k \in S(b) : \A j \in S(b) : k <= j].old
           d == [b \in DOMAIN u.data |-> IF b \in lost THEN old(b) ELSE u.data[b]]
           e == IF u.sess = "up" THEN "broken" ELSE u.sess
<1>1. u.recent \in Seq(Saved) /\ DOMAIN u.recent = 1 .. Len(u.recent) /\ Len(u.recent) \in Nat
  BY LenProperties DEF TypedUnit, UnitType
<1>2. ASSUME NEW b \in lost PROVE old(b) \in Held
  <2>1. PICK n \in DOMAIN u.recent : b = u.recent[n].b
    BY DEF Cached
  <2>2. n \in S(b) /\ S(b) \subseteq Nat /\ S(b) \subseteq DOMAIN u.recent
    BY <1>1, <2>1
  <2> HIDE DEF S
  <2>3. \E k \in S(b) : \A j \in S(b) : k <= j
    BY <2>2, LeastIn
  <2>4. (CHOOSE k \in S(b) : \A j \in S(b) : k <= j) \in DOMAIN u.recent
    BY <2>2, <2>3
  <2> DEFINE n0 == CHOOSE k \in S(b) : \A j \in S(b) : k <= j
  <2>5. u.recent[n0] \in Saved
    <3> HIDE DEF n0
    <3> QED BY <1>1, <2>4, ElementOfSeq DEF n0
  <2> QED BY <2>5 DEF Saved
<1>3. d \in [Block -> Held] /\ e \in {"up", "broken", "none"} /\ e # "up"
  BY <1>2 DEF TypedUnit, UnitType
<1>4. Lose(u, lost) = [u EXCEPT !.link = FALSE, !.sess = e, !.data = d, !.recent = <<>>]
  BY DEF Lose
<1>5. <<>> \in Seq(Saved) /\ Len(<<>>) <= Cache
  BY EmptySeq, Numbers
<1>6. u.sess = "none" => u.status # "ConnectedRW"
  BY DEF TypedUnit, Sane
<1>7. e = "none" => u.status # "ConnectedRW"
  BY <1>6
<1> HIDE DEF d, e
<1> QED BY <1>3, <1>4, <1>5, <1>7 DEF TypedUnit, UnitType, Sane, Running

LEMMA PendingTyped ==
  ASSUME NEW u, TypedUnit(u), NEW c \in {NULL} \cup Request
  PROVE  TypedUnit([u EXCEPT !.pend = c])
BY DEF TypedUnit, UnitType, Sane

LEMMA ProcessSrbTyped ==
  ASSUME NEW u, TypedUnit(u), u.queue # <<>>, NEW landed \in BOOLEAN
  PROVE  TypedUnit(ProcessSrb(u, landed)[1])
<1> DEFINE c == Head(u.queue)
           x == [u EXCEPT !.queue = Tail(@)]
           hit == IF landed /\ c.op = "write" THEN Store(x, c.lo, c.val) ELSE x
<1>1. c \in Request /\ Tail(u.queue) \in Seq(Request)
  BY HeadTailProperties DEF TypedUnit, UnitType
<1> HIDE DEF c
<1>2. TypedUnit(x) /\ x.status = u.status /\ x.sess = u.sess
  BY <1>1 DEF TypedUnit, UnitType, Sane
<1> HIDE DEF x
<1>3. c.lo \in Block /\ c.val \in Held /\ Failed(c) \in Request
  BY <1>1, WrittenIsHeld DEF Request, Failed
<1>4. TypedUnit(Store(x, c.lo, c.val))
  BY <1>2, <1>3, StoreTyped
<1>5. TypedUnit(hit)
  BY <1>2, <1>4
<1> HIDE DEF hit
<1>6. \A y, d : TypedUnit(y) /\ d \in Request => TypedUnit(SetPending(y, d)[1])
  BY PendingTyped DEF SetPending
<1>7. ProcessSrb(u, landed)
        = CASE ~Running(u) -> <<x, Failed(c)>>
            [] Running(u) /\ u.sess = "none" -> SetPending(x, c)
            [] Running(u) /\ u.sess = "up" -> Execute(x, c)
            [] Running(u) /\ u.sess = "broken" -> SetPending(UpdateStatus(hit, FALSE, FALSE), Failed(c))
  BY DEF ProcessSrb, c, x, hit
<1>8. u.sess \in {"up", "broken", "none"}
  BY DEF TypedUnit, UnitType
<1>9. CASE ~Running(u)
  BY <1>2, <1>7, <1>9
<1>10. CASE Running(u) /\ u.sess = "none"
  BY <1>1, <1>2, <1>6, <1>7, <1>10
<1>11. CASE Running(u) /\ u.sess = "up"
  <2>1. TypedUnit(Refused(x, "read")) /\ TypedUnit(Refused(x, "write"))
    BY <1>2, RefusedTyped
  <2> QED BY <1>2, <1>4, <1>7, <1>11, <2>1 DEF Execute, ProcessRead, ProcessWrite
<1>12. CASE Running(u) /\ u.sess = "broken"
  <2>1. TypedUnit(UpdateStatus(hit, FALSE, FALSE))
    BY <1>5, UpdateStatusTyped
  <2> QED BY <1>3, <1>6, <1>7, <1>12, <2>1
<1> QED BY <1>8, <1>9, <1>10, <1>11, <1>12

LEMMA GoneTyped == ASSUME NEW u, TypedUnit(u) PROVE TypedUnit(Gone(u)[1])
<1>1. CheckDataConnection(u) \in UnitType /\ CheckDataConnection(u).recent = u.recent
      /\ CheckDataConnection(u).link = u.link
      /\ (CheckDataConnection(u).sess = "up" => u.sess = "up")
  BY DEF CheckDataConnection, TypedUnit, UnitType
<1> HIDE DEF CheckDataConnection
<1> QED BY <1>1 DEF Gone, TypedUnit, UnitType, Sane, UnitStatus

LEMMA FoundTyped == ASSUME NEW u, TypedUnit(u), u.link PROVE TypedUnit(Found(u))
BY DEF Found, TypedUnit, UnitType, Sane, UnitStatus

(* A disk's thread answers a command at most once: what it gives back is   *)
(* no longer in its queue, nor waiting for a session.                      *)
LEMMA OneOrNone == \A c : OneIfAny(c) \in {0, 1}
BY DEF OneIfAny

LEMMA PendingIsNat ==
  ASSUME NEW u, TypedUnit(u)
  PROVE  Len(u.queue) \in Nat /\ Pending(u) \in Nat
<1>1. Len(u.queue) \in Nat
  BY LenProperties DEF TypedUnit, UnitType
<1> QED BY <1>1, OneOrNone DEF Pending

LEMMA AnswerIsOne ==
  ASSUME NEW a, NEW c, Pending(a) \in Int
  PROVE  LET p == <<a, c>>
         IN  /\ Pending(p[1]) + OneIfAny(p[2]) <= Pending(a) + 1
             /\ c = NULL => Pending(p[1]) + OneIfAny(p[2]) = Pending(a)
<1>1. OneIfAny(c) \in {0, 1} /\ (c = NULL => OneIfAny(c) = 0)
  BY DEF OneIfAny
<1> QED BY <1>1

LEMMA ProcessSrbAnswers ==
  ASSUME NEW u, TypedUnit(u), u.queue # <<>>, NEW landed \in BOOLEAN
  PROVE  LET p == ProcessSrb(u, landed)
         IN  Pending(p[1]) + OneIfAny(p[2]) <= Pending(u)
<1> DEFINE c == Head(u.queue)
           x == [u EXCEPT !.queue = Tail(@)]
           hit == IF landed /\ c.op = "write" THEN Store(x, c.lo, c.val) ELSE x
           p == ProcessSrb(u, landed)
<1>1. c \in Request /\ Tail(u.queue) \in Seq(Request) /\ Len(Tail(u.queue)) = Len(u.queue) - 1
  BY HeadTailProperties DEF TypedUnit, UnitType
<1>2. Len(u.queue) \in Nat
  BY PendingIsNat
<1> HIDE DEF c
<1>3. TypedUnit(x) /\ x.status = u.status /\ x.sess = u.sess /\ x.pend = u.pend
      /\ x.queue = Tail(u.queue)
  BY <1>1 DEF TypedUnit, UnitType, Sane
<1> HIDE DEF x
<1>4. /\ Pending(x) \in Nat /\ Pending(u) \in Nat /\ Pending(x) = Pending(u) - 1
      /\ Len(x.queue) \in Nat
  BY <1>1, <1>2, <1>3, OneOrNone DEF Pending
<1>5. c.lo \in Block /\ c.val \in Held
  BY <1>1, WrittenIsHeld DEF Request
<1>6. TypedUnit(Store(x, c.lo, c.val)) /\ SameQueue(Store(x, c.lo, c.val), x)
  BY <1>3, <1>5, StoreTyped
<1>7. TypedUnit(hit) /\ SameQueue(hit, x)
  BY <1>3, <1>6 DEF SameQueue
<1> HIDE DEF hit
<1>8. \A y, d : TypedUnit(y) /\ SameQueue(y, x) =>
        LET q == SetPending(y, d)
        IN  Pending(q[1]) + OneIfAny(q[2]) <= Pending(x) + 1
  <2> SUFFICES ASSUME NEW y, NEW d, TypedUnit(y), SameQueue(y, x)
               PROVE  LET q == SetPending(y, d)
                      IN  Pending(q[1]) + OneIfAny(q[2]) <= Pending(x) + 1
    OBVIOUS
  <2>1. CASE d.op = "read"
    <3>1. SetPending(y, d) = <<y, d>>
      BY <2>1 DEF SetPending
    <3>2. Pending(y) = Pending(x)
      BY DEF Pending, SameQueue
    <3> QED BY <1>4, <3>1, <3>2, AnswerIsOne
  <2>2. CASE d.op # "read"
    <3>1. [y EXCEPT !.pend = d].queue = y.queue
      BY DEF TypedUnit, UnitType
    <3> DEFINE z == [y EXCEPT !.pend = d]
    <3>2. SetPending(y, d) = <<z, NULL>>
      BY <2>2 DEF SetPending
    <3> HIDE DEF z
    <3>3. Len(z.queue) = Len(x.queue)
      BY <3>1 DEF z, SameQueue
    <3>4. OneIfAny(z.pend) \in {0, 1} /\ OneIfAny(x.pend) \in {0, 1}
      BY OneOrNone
    <3>5. Pending(z) \in Int /\ Pending(z) <= Pending(x) + 1
      BY <1>4, <3>3, <3>4 DEF Pending
    <3> QED BY <1>4, <3>2, <3>5, AnswerIsOne
  <2> QED BY <2>1, <2>2
<1>9. p = CASE ~Running(u) -> <<x, Failed(c)>>
            [] Running(u) /\ u.sess = "none" -> SetPending(x, c)
            [] Running(u) /\ u.sess = "up" -> Execute(x, c)
            [] Running(u) /\ u.sess = "broken" -> SetPending(UpdateStatus(hit, FALSE, FALSE), Failed(c))
  BY DEF ProcessSrb, c, x, hit
<1>10. u.sess \in {"up", "broken", "none"}
  BY DEF TypedUnit, UnitType
<1> HIDE DEF p
<1>11. CASE ~Running(u)
  <2>1. p = <<x, Failed(c)>>
    BY <1>9, <1>11
  <2> QED BY <1>4, <2>1, AnswerIsOne DEF p
<1>12. CASE Running(u) /\ u.sess = "none"
  <2>1. p = SetPending(x, c)
    BY <1>9, <1>12
  <2>2. SameQueue(x, x)
    BY DEF SameQueue
  <2> QED BY <1>3, <1>4, <1>8, <2>1, <2>2 DEF p
<1>13. CASE Running(u) /\ u.sess = "up"
  <2>1. p = Execute(x, c)
    BY <1>9, <1>13
  <2>2. p[1] \in {x, Store(x, c.lo, c.val), Refused(x, "read"), Refused(x, "write")}
    BY <2>1 DEF Execute, ProcessRead, ProcessWrite
  <2>3. SameQueue(Refused(x, "read"), x) /\ SameQueue(Refused(x, "write"), x)
    BY <1>3, RefusedTyped
  <2>4. Pending(p[1]) = Pending(x)
    BY <1>6, <2>2, <2>3 DEF Pending, SameQueue
  <2> QED BY <1>4, <2>4, OneOrNone DEF p
<1>14. CASE Running(u) /\ u.sess = "broken"
  <2> DEFINE y == UpdateStatus(hit, FALSE, FALSE)
  <2>1. p = SetPending(y, Failed(c))
    BY <1>9, <1>14
  <2>2. TypedUnit(y) /\ SameQueue(y, hit)
    BY <1>7, UpdateStatusTyped
  <2> HIDE DEF y
  <2>3. SameQueue(y, x)
    BY <1>7, <2>2 DEF SameQueue
  <2> QED BY <1>4, <1>8, <2>1, <2>2, <2>3 DEF p
<1> QED BY <1>10, <1>11, <1>12, <1>13, <1>14

(* The command that waits for a session is given back, and waits no more.  *)
LEMMA LetGoAnswers ==
  ASSUME NEW u, TypedUnit(u), NEW z, TypedUnit(z), SameQueue(z, u)
  PROVE  LET p == <<[z EXCEPT !.pend = NULL], z.pend>>
             q == <<z, NULL>>
         IN  /\ Pending(p[1]) + OneIfAny(p[2]) <= Pending(u)
             /\ Pending(q[1]) + OneIfAny(q[2]) <= Pending(u)
<1> DEFINE v == [z EXCEPT !.pend = NULL]
<1>1. v.queue = u.queue /\ v.pend = NULL /\ z.queue = u.queue /\ z.pend = u.pend
  BY DEF TypedUnit, UnitType, SameQueue
<1> HIDE DEF v
<1>2. OneIfAny(NULL) = 0 /\ OneIfAny(u.pend) \in {0, 1} /\ Len(u.queue) \in Nat
  BY PendingIsNat DEF OneIfAny
<1>3. Pending(v) + OneIfAny(z.pend) <= Pending(u)
  BY <1>1, <1>2 DEF Pending
<1>4. Pending(z) + OneIfAny(NULL) <= Pending(u)
  BY <1>1, <1>2 DEF Pending
<1> QED BY <1>3, <1>4 DEF v

LEMMA GoneAnswers ==
  ASSUME NEW u, TypedUnit(u)
  PROVE  Pending(Gone(u)[1]) + OneIfAny(Gone(u)[2]) <= Pending(u)
<1> DEFINE v == [CheckDataConnection(u) EXCEPT !.status = "NotPresent", !.pend = NULL]
<1>1. v.queue = u.queue /\ v.pend = NULL
  BY DEF CheckDataConnection, TypedUnit, UnitType
<1>2. Gone(u) = <<v, u.pend>>
  BY DEF Gone
<1> HIDE DEF v
<1>3. OneIfAny(NULL) = 0 /\ OneIfAny(u.pend) \in {0, 1} /\ Len(u.queue) \in Nat
  BY PendingIsNat DEF OneIfAny
<1>4. Pending(v) + OneIfAny(u.pend) <= Pending(u)
  BY <1>1, <1>3 DEF Pending
<1> QED BY <1>2, <1>4

LEMMA BroadcastTyped ==
  ASSUME NEW u, TypedUnit(u), u.link, NEW late \in BOOLEAN, NEW asked \in BOOLEAN
  PROVE  LET p == Broadcast(u, late, asked, asked)
         IN  /\ TypedUnit(p[1]) /\ Pending(p[1]) + OneIfAny(p[2]) <= Pending(u)
             /\ p[1].queue = u.queue /\ (u.pend = NULL => p[1].pend = NULL)
<1> DEFINE connect(x) ==
             CASE x.status \in {"TryConnectRW", "ReconnectRW"} /\ asked -> [x EXCEPT !.sess = "up"]
               [] x.status = "TryDisconnectRW" -> [x EXCEPT !.sess = "none"]
               [] OTHER -> x
           answer(x) == IF x.status \in {"ConnectedRW", "Disconnected"}
                        THEN <<[x EXCEPT !.pend = NULL], x.pend>> ELSE <<x, NULL>>
           first == UpdateStatus(u, late, asked)
           y == connect(first)
           z == UpdateStatus(y, FALSE, FALSE)
<1>1. TypedUnit(first) /\ first.link /\ SameQueue(first, u)
  BY UpdateStatusTyped
<1>2. TypedUnit(y) /\ SameQueue(y, u)
  <2> HIDE DEF first
  <2> QED BY <1>1 DEF TypedUnit, UnitType, Sane, SameQueue
<1>3. TypedUnit(z) /\ SameQueue(z, u)
  <2> HIDE DEF y
  <2>1. TypedUnit(z) /\ SameQueue(z, y)
    BY <1>2, UpdateStatusTyped
  <2> QED BY <1>2, <2>1 DEF SameQueue
<1>4. /\ TypedUnit(answer(z)[1])
      /\ Pending(answer(z)[1]) + OneIfAny(answer(z)[2]) <= Pending(u)
      /\ answer(z)[1].queue = u.queue
      /\ u.pend = NULL => answer(z)[1].pend = NULL
  <2> HIDE DEF z
  <2>1. [z EXCEPT !.pend = NULL].queue = z.queue /\ [z EXCEPT !.pend = NULL].pend = NULL
    BY <1>3 DEF TypedUnit, UnitType
  <2> QED BY <1>3, <2>1, PendingTyped, LetGoAnswers DEF SameQueue
<1>5. Broadcast(u, late, asked, asked) = answer(z)
  <2>1. Broadcast(u, late, asked, asked)
          = Only({answer(v) : v \in {UpdateStatus(w, FALSE, FALSE) :
                                       w \in {connect(x) : x \in {first}}}})
    BY DEF Broadcast, AnswerPending
  <2>2. {connect(x) : x \in {first}} = {y}
    OBVIOUS
  <2> HIDE DEF first, connect, answer, y
  <2>3. {UpdateStatus(w, FALSE, FALSE) : w \in {y}} = {z}
    OBVIOUS
  <2> HIDE DEF z
  <2>4. {answer(v) : v \in {z}} = {answer(z)}
    OBVIOUS
  <2> QED BY <2>1, <2>2, <2>3, <2>4, OnlyOne
<1> QED BY <1>4, <1>5

-----------------------------------------------------------------------------
(* The array.                                                              *)

LEMMA SetUnitTyped ==
  ASSUME NEW w, Handled(w), NEW u \in Unit, NEW x, TypedUnit(x), SameQueue(x, w.unit[u])
  PROVE  LET v == [w EXCEPT !.unit[u] = x]
         IN  /\ Handled(v) /\ v.raid = w.raid /\ v.unit[u] = x
             /\ \A k \in Unit : k # u => v.unit[k] = w.unit[k]
BY DEF Handled, SameQueue, TypedWorld, TypedUnit

LEMMA SetUnitsTyped ==
  ASSUME NEW w, Handled(w), NEW U, U = [u \in Unit |-> U[u]],
         \A u \in Unit : TypedUnit(U[u]) /\ SameQueue(U[u], w.unit[u])
  PROVE  LET v == [w EXCEPT !.unit = U]
         IN  Handled(v) /\ v.raid = w.raid /\ v.unit = U
<1>1. U \in [Unit -> UnitType]
  BY DEF TypedUnit
<1> QED BY <1>1 DEF Handled, SameQueue, TypedWorld

LEMMA SubsTyped ==
  ASSUME NEW w, Handled(w)
  PROVE  /\ SubsByStatus(w) \in [Unit -> SubStatus]
         /\ SubOfMetadata(w) \in [Unit -> SubStatus]
         /\ SubOfDegraded(w) \in [Unit -> SubStatus]
         /\ StatusOfArray(w) \in ArrayStatus
<1>1. w.raid.sub \in [Unit -> SubStatus]
  BY DEF Handled, TypedWorld, RaidType
<1>2. SubsByStatus(w) \in [Unit -> SubStatus]
  BY DEF SubsByStatus, SubOfStatus, SubStatus
<1>3. SubOfMetadata(w) \in [Unit -> SubStatus]
  BY DEF SubOfMetadata, SubStatus
<1>4. SubOfDegraded(w) \in [Unit -> SubStatus]
  BY <1>1 DEF SubOfDegraded, SubStatus
<1>5. StatusOfArray(w) \in ArrayStatus
  BY DEF StatusOfArray, ArrayStatus
<1> QED BY <1>2, <1>3, <1>4, <1>5

LEMMA SetSubTyped ==
  ASSUME NEW w, Handled(w), NEW s \in [Unit -> SubStatus], NEW r \in ArrayStatus
  PROVE  /\ Handled([w EXCEPT !.raid.sub = s])
         /\ Handled([w EXCEPT !.raid.rs = r])
         /\ Handled([w EXCEPT !.raid.sub = s, !.raid.rs = r])
BY DEF Handled, TypedWorld, TypedRaid, RaidType

(* Two arrays that agree on all but the status of the sub units.           *)
SameArray(v, w) ==
  /\ v.raid.status = w.raid.status /\ v.raid.sector = w.raid.sector
  /\ v.raid.map = w.raid.map /\ v.raid.history = w.raid.history
  /\ v.raid.dirty = w.raid.dirty /\ v.raid.inRecovery = w.raid.inRecovery

LEMMA ReadMetadataTyped ==
  ASSUME NEW w, Handled(w)
  PROVE  LET v == ReadMetadata(w) IN Handled(v) /\ SameArray(v, w)
<1> DEFINE read == [u \in Unit |-> IF ManagingLands(w.unit[u], "readRMD") THEN "Good" ELSE "Failure"]
           U == [u \in Unit |-> CheckRMD(w.unit[u])]
           asked == [unit |-> U, raid |-> [w.raid EXCEPT !.sub = read]]
           known == [w EXCEPT !.raid.sub = SubsByStatus(w)]
<1>1. CASE ReadMetadata(w) = asked
  <2>1. \A u \in Unit : TypedUnit(U[u]) /\ SameQueue(U[u], w.unit[u])
    BY CheckRMDTyped DEF Handled, TypedWorld
  <2>2. read \in [Unit -> SubStatus]
    BY DEF SubStatus
  <2> HIDE DEF U, read
  <2>3. U \in [Unit -> UnitType]
    BY <2>1 DEF U, TypedUnit
  <2>4. Handled(asked) /\ SameArray(asked, w)
    BY <2>1, <2>2, <2>3 DEF Handled, SameQueue, TypedWorld, TypedRaid, RaidType, SameArray
  <2> QED BY <1>1, <2>4
<1>2. CASE ReadMetadata(w) = known
  <2>1. Handled(known) /\ SameArray(known, w)
    BY SubsTyped DEF Handled, TypedWorld, TypedRaid, RaidType, SameArray
  <2> QED BY <1>2, <2>1
<1> QED BY <1>1, <1>2 DEF ReadMetadata

LEMMA JudgeTyped ==
  ASSUME NEW w, Handled(w)
  PROVE  LET v == Judge(w) IN Handled(v) /\ SameArray(v, w)
<1> DEFINE s == IF SubUnits(w, "Good") = Unit THEN SubOfMetadata(w) ELSE SubOfDegraded(w)
<1>1. s \in [Unit -> SubStatus]
  BY SubsTyped
<1>2. Judge(w) = [w EXCEPT !.raid.sub = s]
  BY DEF Judge
<1> HIDE DEF s
<1> QED BY <1>1, <1>2 DEF Handled, TypedWorld, TypedRaid, RaidType, SameArray

LEMMA RankTyped ==
  ASSUME NEW w, Handled(w)
  PROVE  LET v == Rank(w)
         IN  /\ Handled(v) /\ SameArray(v, w)
             /\ v.raid.rs = "Recovering" => SubUnits(v, "Good") # {}
<1>1. StatusOfArray(w) \in ArrayStatus
  BY SubsTyped
<1>2. StatusOfArray(w) = "Recovering" => SubUnits(w, "Good") # {}
  BY DEF StatusOfArray
<1>3. /\ Rank(w).raid.sub = w.raid.sub /\ Rank(w).raid.rs = StatusOfArray(w)
      /\ Handled(Rank(w)) /\ SameArray(Rank(w), w)
  BY <1>1 DEF Rank, Handled, TypedWorld, TypedRaid, RaidType, SameArray
<1> QED BY <1>2, <1>3 DEF SubUnits

(* updateRAIDStatus: types, and what the recovery relies on.               *)
LEMMA UpdateRAIDStatusTyped ==
  ASSUME NEW w, Handled(w)
  PROVE  LET v == UpdateRAIDStatus(w)
         IN  /\ Handled(v) /\ SameArray(v, w)
             /\ v.raid.rs = "Recovering" => SubUnits(v, "Good") # {}
<1> DEFINE y == ReadMetadata(w)
           x == Judge(y)
           v1 == Rank(x)
           v2 == [w EXCEPT !.raid.sub = SubsByStatus(w), !.raid.rs = "NotReady"]
<1>1. Handled(y) /\ SameArray(y, w)
  BY ReadMetadataTyped
<1> HIDE DEF y
<1>2. Handled(x) /\ SameArray(x, y)
  BY <1>1, JudgeTyped
<1> HIDE DEF x
<1>3. /\ Handled(v1) /\ SameArray(v1, x)
      /\ v1.raid.rs = "Recovering" => SubUnits(v1, "Good") # {}
  BY <1>2, RankTyped
<1>4. SameArray(v1, w)
  BY <1>1, <1>2, <1>3 DEF SameArray
<1>5. v2 = [[w EXCEPT !.raid.sub = SubsByStatus(w)] EXCEPT !.raid.rs = "NotReady"]
  OBVIOUS
<1>6. Handled(v2) /\ SameArray(v2, w) /\ v2.raid.rs # "Recovering"
  <2>1. "NotReady" \in ArrayStatus /\ SubsByStatus(w) \in [Unit -> SubStatus]
    BY SubsTyped DEF ArrayStatus
  <2>2. Handled(v2)
    BY <2>1, SetSubTyped
  <2>3. v2.raid = [w.raid EXCEPT !.sub = SubsByStatus(w), !.rs = "NotReady"]
    BY DEF Handled, TypedWorld
  <2>4. w.raid \in RaidType
    BY DEF Handled, TypedWorld
  <2> HIDE DEF v2
  <2> QED BY <2>2, <2>3, <2>4 DEF RaidType, SameArray
<1>7. UpdateRAIDStatus(w) = IF IsWorkable(w) THEN v1 ELSE v2
  <2> DEFINE F(z) == IF IsWorkable(z)
                     THEN Only({Rank(j) : j \in {Judge(k) : k \in {ReadMetadata(z)}}})
                     ELSE [z EXCEPT !.raid.sub = SubsByStatus(z), !.raid.rs = "NotReady"]
  <2>1. {Judge(z) : z \in {ReadMetadata(w)}} = {x}
    BY DEF x, y
  <2>2. {Rank(z) : z \in {x}} = {v1}
    OBVIOUS
  <2>3. Only({Rank(z) : z \in {Judge(k) : k \in {ReadMetadata(w)}}}) = v1
    BY <2>1, <2>2, OnlyOne
  <2>4. F(w) = IF IsWorkable(w) THEN v1 ELSE v2
    BY <2>3
  <2>5. UpdateRAIDStatus(w) = Only({F(z) : z \in {w}})
    BY DEF UpdateRAIDStatus
  <2>6. {F(z) : z \in {w}} = {F(w)}
    <3> HIDE DEF F
    <3> QED OBVIOUS
  <2> QED BY <2>4, <2>5, <2>6, OnlyOne
<1> HIDE DEF v1, v2
<1> QED BY <1>3, <1>4, <1>6, <1>7

LEMMA KeeperIsGood ==
  ASSUME NEW w, SubUnits(w, "Good") # {}
  PROVE  Keeper(w) \in Unit /\ Good(w, Keeper(w))
<1>1. \E u \in SubUnits(w, "Good") : Good(w, 0) => u = 0
  BY DEF SubUnits, Good, Unit
<1>2. Keeper(w) \in SubUnits(w, "Good")
  BY <1>1 DEF Keeper
<1> QED BY <1>2 DEF SubUnits, Good

LEMMA PostProcessTyped == ASSUME NEW w, Handled(w) PROVE Handled(PostProcess(w))
<1> DEFINE next(x) == IF x.status = "NotPresent" THEN x
                      ELSE WriteAndCheckRMD(x, [x.mem EXCEPT !.usn = @ + 1])
           U == [u \in Unit |-> next(w.unit[u])]
<1>1. ASSUME NEW u \in Unit
      PROVE  TypedUnit(next(w.unit[u])) /\ SameQueue(next(w.unit[u]), w.unit[u])
  <2>1. TypedUnit(w.unit[u])
    BY DEF Handled, TypedWorld
  <2>2. [w.unit[u].mem EXCEPT !.usn = @ + 1] \in Metadata
    BY <2>1 DEF TypedUnit, UnitType, Metadata
  <2> QED BY <2>1, <2>2, WriteRMDTyped DEF SameQueue
<1>2. PostProcess(w) \in {w, [w EXCEPT !.unit = U]}
  BY DEF PostProcess
<1> HIDE DEF next
<1>3. Handled([w EXCEPT !.unit = U])
  BY <1>1, SetUnitsTyped
<1> QED BY <1>2, <1>3

(* updateStatus of the array.                                              *)
LEMMA UpdateOwnTyped ==
  ASSUME NEW w, Handled(w) PROVE Handled(UpdateRaidStatusAndOwn(w))
<1> DEFINE y == UpdateRAIDStatus(w)
           x == [y EXCEPT !.raid.status = OwnStatus(y)]
           mounts(z) == /\ w.raid.status \in {"TryConnectRW", "Disconnected"}
                        /\ z.raid.status = "ConnectedRW"
           F(z) == IF mounts(z) THEN PostProcess(z) ELSE z
           T == {[z EXCEPT !.raid.status = OwnStatus(z)] : z \in {UpdateRAIDStatus(w)}}
<1>1. Handled(y)
  BY UpdateRAIDStatusTyped
<1>2. \A u \in Unit : y.unit[u].status \in UnitStatus
  BY <1>1 DEF Handled, TypedWorld, UnitType
<1>3. OwnStatus(y) \in UnitStatus \cup {"Failure"}
  <2> HIDE DEF y
  <2> QED BY <1>2 DEF OwnStatus, UnitStatus, Unit
<1>4. Handled(x)
  <2> HIDE DEF y
  <2> QED BY <1>1, <1>3 DEF Handled, TypedWorld, TypedRaid, RaidType
<1>5. Handled(F(x))
  <2> HIDE DEF x
  <2> QED BY <1>4, PostProcessTyped
<1>6. T = {x}
  OBVIOUS
<1>7. UpdateRaidStatusAndOwn(w) = Only({F(z) : z \in T})
  BY DEF UpdateRaidStatusAndOwn
<1> HIDE DEF x, F, T
<1>8. {F(z) : z \in T} = {F(x)}
  BY <1>6
<1>9. Only({F(x)}) = F(x)
  BY OnlyOne
<1>10. UpdateRaidStatusAndOwn(w) = Only({F(x)})
  BY <1>7, <1>8
<1> QED BY <1>5, <1>9, <1>10

(* The bitmap and the history of writes.                                   *)

LEMMA SetMapTyped ==
  ASSUME NEW w, Handled(w), NEW m \in {NULL} \cup Bitmap, NEW d \in BOOLEAN,
         w.raid.inRecovery => m \in Bitmap
  PROVE  LET v == [w EXCEPT !.raid.map = m]
             z == [w EXCEPT !.raid.dirty = d]
         IN  /\ Handled(v) /\ v.unit = w.unit
             /\ Handled(z) /\ z.unit = w.unit /\ z.raid.map = w.raid.map
BY DEF Handled, TypedWorld, TypedRaid, RaidType

LEMMA WriteKeeperTyped ==
  ASSUME NEW w, Handled(w), NEW g \in Unit, NEW m \in Bitmap
  PROVE  Handled([w EXCEPT !.unit[g] = WriteMap(@, m)])
<1>1. TypedUnit(WriteMap(w.unit[g], m)) /\ SameQueue(WriteMap(w.unit[g], m), w.unit[g])
  BY WriteMapTyped DEF Handled, TypedWorld
<1> QED BY <1>1, SetUnitTyped

LEMMA SetBitmapTyped ==
  ASSUME NEW w, Handled(w), NEW S PROVE Handled(SetBitmap(w, S))
<1> DEFINE g == Keeper(w)
           inMemory == w.raid.map # NULL
           old == IF inMemory THEN w.raid.map ELSE w.unit[g].map
           w1 == [w EXCEPT !.raid.dirty = TRUE]
           isWritten == /\ w.raid.status = "ConnectedRW" /\ SubUnits(w, "Good") # {}
                        /\ S \subseteq 0..Capacity /\ ~(S \subseteq old)
           reached == IF ManagingIsSuccess(w.unit[g], "map") THEN S ELSE Least(S \ old)
           m == IF inMemory THEN old \cup reached ELSE w1.raid.map
           w2 == [w1 EXCEPT !.raid.map = m]
<1>1. Handled(w1) /\ w1.unit = w.unit /\ w1.raid.map = w.raid.map
  BY SetMapTyped DEF Handled, TypedWorld, TypedRaid, RaidType
<1>2. SetBitmap(w, S) = IF isWritten THEN [w2 EXCEPT !.unit[g] = WriteMap(@, old \cup S)] ELSE w1
  BY DEF SetBitmap
<1>3. CASE isWritten
  <2>1. g \in Unit
    BY <1>3, KeeperIsGood
  <2>2. w.raid.map \in {NULL} \cup Bitmap /\ w.unit[g].map \in Bitmap
    BY <2>1 DEF Handled, TypedWorld, RaidType, UnitType
  <2>3. old \cup S \in Bitmap /\ m \in {NULL} \cup Bitmap
        /\ (w1.raid.inRecovery => m \in Bitmap)
    <3>1. reached \subseteq S
      BY DEF Least
    <3> HIDE DEF reached
    <3> QED BY <1>1, <1>3, <2>2, <3>1 DEF Bitmap, Handled, TypedWorld, TypedRaid
  <2> HIDE DEF w1, m, old
  <2>4. Handled(w2)
    BY <1>1, <2>3, SetMapTyped
  <2> HIDE DEF w2, g
  <2> QED BY <1>2, <1>3, <2>1, <2>3, <2>4, WriteKeeperTyped
<1>4. CASE ~isWritten
  BY <1>1, <1>2, <1>4
<1> QED BY <1>3, <1>4

LEMMA RememberTyped ==
  ASSUME NEW h \in Seq(Block), Len(h) <= Cache + 1, NEW k \in Block
  PROVE  Remember(h, k) \in Seq(Block) /\ Len(Remember(h, k)) <= Cache + 1
<1>1. /\ Append(h, k) \in Seq(Block) /\ Len(Append(h, k)) = Len(h) + 1
      /\ Tail(Append(h, k)) \in Seq(Block) /\ Len(Tail(Append(h, k))) = Len(h)
  <2>1. Cache + 1 \in Nat
    BY Numbers
  <2> QED BY <2>1, CutIsShort
<1>2. Len(h) \in Nat /\ Cache \in Nat
  BY LenProperties, Numbers
<1> QED BY <1>1, <1>2 DEF Remember

LEMMA InitAndSetBitmapTyped ==
  ASSUME NEW w, Handled(w) PROVE Handled(InitAndSetBitmap(w))
<1> DEFINE g == Keeper(w)
           old == w.unit[g].mem
           rmd == [old EXCEPT !.degraded = TRUE, !.usn = @ + 1,
                              !.notSynced = @ \cup {Other(g)}]
           m == IF w.raid.map = NULL THEN {} ELSE w.raid.map
           x == WriteMap(WriteAndCheckRMD(w.unit[g], rmd), m)
           w1 == [w EXCEPT !.unit[g] = WriteMap(WriteAndCheckRMD(@, rmd), m),
                           !.raid.dirty = TRUE, !.raid.map = m, !.raid.history = <<>>]
           H == Blocks(w.raid.history)
           skip == w.raid.dirty \/ SubUnits(w, "Good") \in {{}, Unit}
<1>1. InitAndSetBitmap(w) = IF skip THEN w
                            ELSE UpdateRAIDStatus(IF H = {} THEN w1 ELSE SetBitmap(w1, H))
  BY DEF InitAndSetBitmap
<1>2. CASE ~skip
  <2>1. g \in Unit
    BY <1>2, KeeperIsGood
  <2>2. TypedUnit(w.unit[g]) /\ old \in Metadata
    BY <2>1 DEF Handled, TypedWorld, TypedUnit, UnitType
  <2>3. Other(g) \in Unit
    BY <2>1 DEF Other, Unit
  <2> HIDE DEF g
  <2>4. rmd \in Metadata
    <3> HIDE DEF old
    <3>1. old.usn + 1 \in Nat /\ old.notSynced \cup {Other(g)} \in SUBSET Unit
      BY <2>2, <2>3 DEF Metadata
    <3> QED BY <2>2, <3>1 DEF Metadata
  <2>5. m \in Bitmap
    BY DEF Handled, TypedWorld, RaidType, Bitmap
  <2> HIDE DEF rmd, m
  <2>6. TypedUnit(x) /\ SameQueue(x, w.unit[g])
    <3> DEFINE z == WriteAndCheckRMD(w.unit[g], rmd)
    <3>1. TypedUnit(z) /\ SameQueue(z, w.unit[g])
      BY <2>2, <2>4, WriteRMDTyped
    <3> HIDE DEF z
    <3>2. TypedUnit(WriteMap(z, m)) /\ SameQueue(WriteMap(z, m), z)
      BY <2>5, <3>1, WriteMapTyped
    <3> QED BY <3>1, <3>2 DEF SameQueue, z
  <2> DEFINE w0 == [w EXCEPT !.unit[g] = x]
             r == [w.raid EXCEPT !.dirty = TRUE, !.map = m, !.history = <<>>]
  <2>7. Handled(w0) /\ w0.raid = w.raid
    BY <2>1, <2>6, SetUnitTyped
  <2>8. TypedRaid(r)
    <3>1. <<>> \in Seq(Block) /\ Len(<<>>) <= Cache + 1
      BY EmptySeq, Numbers
    <3> QED BY <2>5, <3>1 DEF Handled, TypedWorld, TypedRaid, RaidType
  <2>9. w1 = [w0 EXCEPT !.raid = r]
    BY <2>1 DEF Handled, TypedWorld
  <2> HIDE DEF w0, r, w1
  <2>10. Handled(w1)
    BY <2>7, <2>8, <2>9 DEF Handled, TypedWorld, TypedRaid
  <2> QED BY <1>1, <1>2, <2>10, SetBitmapTyped, UpdateRAIDStatusTyped
<1> QED BY <1>1, <1>2

LEMMA AfterCommandTyped == ASSUME NEW w, Handled(w) PROVE Handled(AfterCommand(w))
BY InitAndSetBitmapTyped DEF AfterCommand

-----------------------------------------------------------------------------
(* The recovery.                                                           *)

LEMMA SetRecoveryTyped ==
  ASSUME NEW w, Handled(w), NEW k \in 0..Capacity
  PROVE  LET v == [w EXCEPT !.raid.sector = k]
         IN  Handled(v) /\ v.unit = w.unit /\ v.raid.sub = w.raid.sub
             /\ v.raid.map = w.raid.map /\ v.raid.sector = k
BY DEF Handled, TypedWorld, TypedRaid, RaidType

LEMMA SetInRecoveryTyped ==
  ASSUME NEW w, Handled(w), NEW d \in BOOLEAN, d => w.raid.map \in Bitmap
  PROVE  LET v == [w EXCEPT !.raid.inRecovery = d]
         IN  /\ Handled(v) /\ v.unit = w.unit /\ v.raid.inRecovery = d
             /\ v.raid.rs = w.raid.rs /\ v.raid.sub = w.raid.sub /\ v.raid.sector = w.raid.sector
BY DEF Handled, TypedWorld, TypedRaid, RaidType

LEMMA StartRecoveryTyped ==
  ASSUME NEW w, Handled(w) PROVE Handled(StartRecovery(w))
<1> DEFINE g == Keeper(w)
           b == Other(g)
           rmd == [w.unit[b].mem EXCEPT !.usn = w.unit[g].mem.usn,
                                        !.notSynced = w.unit[g].mem.notSynced]
           readMap == IF ManagingLands(w.unit[g], "map") THEN w.unit[g].map ELSE {}
           w1 == [w EXCEPT !.raid.sector = 0]
           wm == [w1 EXCEPT !.raid.map = readMap]
           w2 == IF w.raid.map # NULL THEN w1
                 ELSE [w1 EXCEPT !.raid.map = readMap, !.unit[g] = ManagingAfter(@, "map")]
           w3 == [w2 EXCEPT !.unit[b] = WriteAndCheckRMD(@, rmd)]
           v == UpdateRAIDStatus(w3)
           w4 == [v EXCEPT !.raid.inRecovery = TRUE]
<1>1. Handled(w1) /\ w1.unit = w.unit /\ w1.raid.map = w.raid.map
  BY Numbers, SetRecoveryTyped
<1>2. StartRecovery(w) \in {w1, UpdateRAIDStatus(w3), UpdateRAIDStatus(w4)}
      /\ (SubUnits(w, "Good") = {} => StartRecovery(w) = w1)
  BY DEF StartRecovery
<1>3. ASSUME SubUnits(w, "Good") # {} PROVE Handled(w3) /\ Handled(w4)
  <2>1. g \in Unit /\ b \in Unit
    BY <1>3, KeeperIsGood DEF Other, Unit
  <2>2. TypedUnit(w.unit[g]) /\ TypedUnit(w.unit[b])
    BY <2>1 DEF Handled, TypedWorld
  <2> HIDE DEF g, b
  <2>3. rmd \in Metadata /\ readMap \in Bitmap
    BY <2>2 DEF TypedUnit, UnitType, Metadata, Bitmap
  <2> HIDE DEF rmd, readMap, w1
  <2>4. Handled(wm) /\ wm.unit = w1.unit /\ wm.raid.map = readMap
    BY <1>1, <2>3, SetMapTyped DEF Handled, TypedWorld, RaidType
  <2>5. TypedUnit(ManagingAfter(wm.unit[g], "map")) /\ SameQueue(ManagingAfter(wm.unit[g], "map"), wm.unit[g])
    BY <2>1, <2>4, ManagingAfterTyped DEF Handled, TypedWorld
  <2>6. [w1 EXCEPT !.raid.map = readMap, !.unit[g] = ManagingAfter(@, "map")]
          = [wm EXCEPT !.unit[g] = ManagingAfter(wm.unit[g], "map")]
    BY <1>1, <2>1 DEF Handled, TypedWorld
  <2> HIDE DEF wm
  <2>7. Handled(w2) /\ w2.raid.map \in Bitmap
    <3>1. CASE w.raid.map # NULL
      BY <1>1, <3>1 DEF Handled, TypedWorld, RaidType
    <3>2. CASE w.raid.map = NULL
      <4>1. Handled([wm EXCEPT !.unit[g] = ManagingAfter(wm.unit[g], "map")])
            /\ [wm EXCEPT !.unit[g] = ManagingAfter(wm.unit[g], "map")].raid = wm.raid
        BY <2>1, <2>4, <2>5, SetUnitTyped
      <4> QED BY <2>3, <2>4, <2>6, <3>2, <4>1
    <3> QED BY <3>1, <3>2
  <2> HIDE DEF w2
  <2>8. /\ TypedUnit(WriteAndCheckRMD(w2.unit[b], rmd))
        /\ SameQueue(WriteAndCheckRMD(w2.unit[b], rmd), w2.unit[b])
    BY <2>1, <2>3, <2>7, WriteRMDTyped DEF Handled, TypedWorld
  <2>9. Handled(w3) /\ w3.raid = w2.raid
    BY <2>1, <2>7, <2>8, SetUnitTyped
  <2> HIDE DEF w3
  <2>10. Handled(v) /\ v.raid.map \in Bitmap
    BY <2>7, <2>9, UpdateRAIDStatusTyped DEF SameArray
  <2> HIDE DEF v
  <2> QED BY <2>9, <2>10, SetInRecoveryTyped
<1>4. CASE SubUnits(w, "Good") = {}
  BY <1>1, <1>2, <1>4
<1>5. CASE SubUnits(w, "Good") # {}
  BY <1>1, <1>2, <1>3, <1>5, UpdateRAIDStatusTyped
<1> QED BY <1>4, <1>5

LEMMA FinishRecoveryTyped ==
  ASSUME NEW w, Handled(w), SubUnits(w, "Good") # {}
  PROVE  Handled(FinishRecovery(w))
<1> DEFINE g == Keeper(w)
           b == Other(g)
           usn == w.unit[g].mem.usn
           x1 == WriteRMD(w.unit[g], Synced(w.unit[g].mem, usn + 1, FALSE, b))
           w1 == [w EXCEPT !.unit[g] = x1]
           x2 == WriteRMD(w1.unit[b], Synced(w1.unit[b].mem, usn, FALSE, b))
           w2 == [w1 EXCEPT !.unit[b] = x2]
           U == [u \in Unit |-> CheckRMD(w2.unit[u])]
           w3 == [w2 EXCEPT !.unit = U]
           w4 == [w3 EXCEPT !.raid.inRecovery = FALSE, !.raid.map = NULL, !.raid.dirty = FALSE]
<1>1. g \in Unit /\ b \in Unit
  BY KeeperIsGood DEF Other, Unit
<1>2. FinishRecovery(w) \in {w1, w2, w4}
  BY DEF FinishRecovery
<1> HIDE DEF g, b
<1>3. \A m \in Metadata, n \in Nat : Synced(m, n, FALSE, b) \in Metadata
  BY DEF Synced, Metadata
<1>4. \A u \in Unit : TypedUnit(w.unit[u]) /\ w.unit[u].mem \in Metadata
  BY DEF Handled, TypedWorld, TypedUnit, UnitType
<1>5. usn \in Nat
  BY <1>1, <1>4 DEF Metadata
<1> HIDE DEF usn
<1>6. TypedUnit(x1) /\ SameQueue(x1, w.unit[g])
  <2>1. usn + 1 \in Nat
    BY <1>5
  <2>2. Synced(w.unit[g].mem, usn + 1, FALSE, b) \in Metadata
    BY <1>1, <1>3, <1>4, <2>1
  <2> QED BY <1>1, <1>4, <2>2, WriteRMDTyped
<1> HIDE DEF x1
<1>7. Handled(w1)
  BY <1>1, <1>6, SetUnitTyped
<1> HIDE DEF w1
<1>8. TypedUnit(x2) /\ SameQueue(x2, w1.unit[b])
  <2>1. TypedUnit(w1.unit[b]) /\ w1.unit[b].mem \in Metadata
    BY <1>1, <1>7 DEF Handled, TypedWorld, TypedUnit, UnitType
  <2> QED BY <1>3, <1>5, <2>1, WriteRMDTyped
<1> HIDE DEF x2
<1>9. Handled(w2)
  BY <1>1, <1>7, <1>8, SetUnitTyped
<1> HIDE DEF w2
<1>10. \A u \in Unit : /\ TypedUnit(CheckRMD(w2.unit[u]))
                       /\ SameQueue(CheckRMD(w2.unit[u]), w2.unit[u])
  BY <1>9, CheckRMDTyped DEF Handled, TypedWorld
<1>11. Handled(w3)
  BY <1>9, <1>10, SetUnitsTyped
<1> HIDE DEF w3
<1>12. Handled(w4)
  BY <1>11 DEF Handled, TypedWorld, TypedRaid, RaidType
<1> QED BY <1>2, <1>7, <1>9, <1>12

LEMMA ClearBitmapTyped ==
  ASSUME NEW w, Handled(w), SubUnits(w, "Good") # {}, w.raid.map \in Bitmap
  PROVE  Handled(ClearBitmap(w)) /\ ClearBitmap(w).raid.sub = w.raid.sub
<1> DEFINE m == {x \in w.raid.map : x >= w.raid.sector}
           g == Keeper(w)
           reached == IF ManagingIsSuccess(w.unit[g], "map") THEN m ELSE w.raid.map \ Least(w.raid.map)
           v == [w EXCEPT !.raid.map = reached]
<1>1. g \in Unit /\ m \in Bitmap /\ reached \in Bitmap
  BY KeeperIsGood DEF Bitmap
<1>2. ClearBitmap(w) = w \/ ClearBitmap(w) = [v EXCEPT !.unit[g] = WriteMap(@, m)]
  BY DEF ClearBitmap
<1> HIDE DEF g, m, reached
<1>3. Handled(v) /\ v.raid.sub = w.raid.sub
  BY <1>1, SetMapTyped DEF Handled, TypedWorld, RaidType
<1> HIDE DEF v
<1>4. [v EXCEPT !.unit[g] = WriteMap(@, m)].raid = v.raid
  BY <1>3 DEF Handled, TypedWorld
<1>5. Handled([v EXCEPT !.unit[g] = WriteMap(@, m)])
  BY <1>1, <1>3, WriteKeeperTyped
<1> QED BY <1>2, <1>3, <1>4, <1>5

(* One turn of the recovery copies what its buffer holds.                  *)
LEMMA CopyBlockTyped ==
  ASSUME NEW w, Handled(w), SubUnits(w, "Good") # {}, w.raid.map \in Bitmap,
         w.raid.sector < Capacity
  PROVE  Handled(CopyBlock(w))
<1> DEFINE g == Keeper(w)
           b == Other(g)
           k == w.raid.sector
           read == ReadBlock(w.unit[g], k)
           xg == ManagingAfter(w.unit[g], "copy")
           unread == [w EXCEPT !.unit[g] = xg]
           xb == IF ManagingLands(unread.unit[b], "copy") THEN Store(unread.unit[b], k, read)
                 ELSE ManagingAfter(unread.unit[b], "copy")
           written == [unread EXCEPT !.unit[b] = xb]
           pass(x) == [x EXCEPT !.raid.sector = k + 1]
           next(x) == IF k + 1 >= Capacity THEN FinishRecovery(x) ELSE x
           copied == ClearBitmap(pass(written))
           result == IF ~IsDirtyBitSet(w) THEN next(pass(w))
                     ELSE IF ~ManagingIsSuccess(w.unit[g], "copy") THEN unread
                     ELSE IF ~ManagingIsSuccess(w.unit[b], "copy") THEN SetBitmap(written, Rollback(k))
                     ELSE next(copied)
<1>1. g \in Unit /\ b \in Unit /\ Good(w, g)
  BY KeeperIsGood DEF Other, Unit
<1>2. CopyBlock(w) = UpdateRAIDStatus(result)
  <2> DEFINE ww == [unread EXCEPT !.unit[b] = IF ManagingLands(@, "copy") THEN Store(@, k, read)
                                                ELSE ManagingAfter(@, "copy")]
  <2>1. ww = written
    OBVIOUS
  <2>2. unread = [w EXCEPT !.unit[g] = ManagingAfter(@, "copy")]
    OBVIOUS
  <2>3. {ClearBitmap(pass(y)) : y \in {ww}} = {copied}
    <3> HIDE DEF ww, pass, written
    <3> QED BY <2>1 DEF copied
  <2>4. Only({next(x) : x \in {copied}}) = next(copied)
    <3> HIDE DEF copied, next
    <3>1. {next(x) : x \in {copied}} = {next(copied)}
      OBVIOUS
    <3> QED BY <3>1, OnlyOne
  <2>5. Only({next(x) : x \in {ClearBitmap(pass(y)) : y \in {ww}}}) = next(copied)
    <3> HIDE DEF copied, next, ww, pass
    <3> QED BY <2>3, <2>4
  <2>6. CopyBlock(w) = UpdateRAIDStatus(
               IF ~IsDirtyBitSet(w) THEN next(pass(w))
               ELSE IF ~ManagingIsSuccess(w.unit[g], "copy") THEN unread
               ELSE IF ~ManagingIsSuccess(w.unit[b], "copy") THEN SetBitmap(ww, Rollback(k))
               ELSE Only({next(x) : x \in {ClearBitmap(pass(y)) : y \in {ww}}}))
    BY DEF CopyBlock
  <2> HIDE DEF ww, written, unread, copied, next, pass, read
  <2> QED BY <2>1, <2>5, <2>6
<1>3. k \in Block /\ k + 1 \in 0..Capacity
  BY Numbers DEF Block, Handled, TypedWorld, RaidType
<1>4. ASSUME NEW x, Handled(x), x.raid.sub = w.raid.sub PROVE Handled(next(x))
  <2>1. SubUnits(x, "Good") # {}
    BY <1>4 DEF SubUnits
  <2> QED BY <1>4, <2>1, FinishRecoveryTyped
<1> HIDE DEF g, b, k, next
<1>5. TypedUnit(xg) /\ SameQueue(xg, w.unit[g])
  BY <1>1, ManagingAfterTyped DEF Handled, TypedWorld
<1> HIDE DEF xg
<1>6. Handled(unread) /\ unread.raid = w.raid
  BY <1>1, <1>5, SetUnitTyped
<1>7. CASE ~IsDirtyBitSet(w)
  <2>1. Handled(pass(w)) /\ pass(w).raid.sub = w.raid.sub
    BY <1>3, SetRecoveryTyped
  <2>2. result = next(pass(w))
    BY <1>7
  <2> HIDE DEF pass, result
  <2>3. Handled(next(pass(w)))
    BY <1>4, <2>1
  <2> QED BY <1>2, <2>2, <2>3, UpdateRAIDStatusTyped
<1>8. CASE IsDirtyBitSet(w) /\ ~ManagingIsSuccess(w.unit[g], "copy")
  <2>1. result = unread
    BY <1>8
  <2> QED BY <1>2, <1>6, <2>1, UpdateRAIDStatusTyped
<1>9. CASE IsDirtyBitSet(w) /\ ManagingIsSuccess(w.unit[g], "copy")
  <2>1. read \in Held
    <3>1. Garbage \in Held
      BY MirrorAssumption DEF Garbage, Held
    <3> QED BY <1>1, <1>3, <3>1 DEF ReadBlock, Handled, TypedWorld, UnitType
  <2> HIDE DEF read
  <2>2. TypedUnit(unread.unit[b])
    BY <1>1, <1>6 DEF Handled, TypedWorld
  <2> HIDE DEF unread
  <2>3. TypedUnit(xb) /\ SameQueue(xb, unread.unit[b])
    BY <1>3, <2>1, <2>2, StoreTyped, ManagingAfterTyped
  <2> HIDE DEF xb
  <2>4. Handled(written) /\ written.raid = w.raid
    BY <1>1, <1>6, <2>3, SetUnitTyped
  <2> HIDE DEF written
  <2>5. Handled(pass(written)) /\ pass(written).raid.sub = w.raid.sub
        /\ pass(written).raid.map = w.raid.map
    BY <1>3, <2>4, SetRecoveryTyped
  <2>6. SubUnits(pass(written), "Good") # {}
    BY <2>5 DEF SubUnits
  <2> HIDE DEF pass
  <2>7. Handled(copied) /\ copied.raid.sub = w.raid.sub
    BY <2>5, <2>6, ClearBitmapTyped
  <2> HIDE DEF copied
  <2>8. Handled(next(copied))
    BY <1>4, <2>7
  <2>9. Handled(SetBitmap(written, Rollback(k)))
    BY <2>4, SetBitmapTyped
  <2>10. result \in {SetBitmap(written, Rollback(k)), next(copied)}
    BY <1>9
  <2> HIDE DEF result
  <2> QED BY <1>2, <2>8, <2>9, <2>10, UpdateRAIDStatusTyped
<1> QED BY <1>7, <1>8, <1>9

LEMMA RecoveryTurnTyped ==
  ASSUME NEW w, Handled(w),
         w.raid.rs = "Recovering" => SubUnits(w, "Good") # {}
  PROVE  Handled(RecoveryTurn(w))
<1>1. w.raid.inRecovery => w.raid.map \in Bitmap
  BY DEF Handled, TypedWorld, TypedRaid
<1>2. w.raid.sector \in Int /\ Capacity \in Int
  BY Numbers DEF Handled, TypedWorld, RaidType
<1>3. CASE w.raid.inRecovery /\ w.raid.rs = "Recovering" /\ w.raid.sector < Capacity
  BY <1>1, <1>2, <1>3, CopyBlockTyped DEF RecoveryTurn
<1>4. CASE ~(w.raid.inRecovery /\ w.raid.rs = "Recovering" /\ w.raid.sector < Capacity)
  BY <1>2, <1>4, StartRecoveryTyped, UpdateRAIDStatusTyped DEF RecoveryTurn
<1> QED BY <1>3, <1>4

(* What the thread of a disk may do while the recovery waits for it.       *)
LEMMA BetweenTyped ==
  ASSUME NEW x, TypedUnit(x), NEW y \in Between(x)
  PROVE  TypedUnit(y) /\ SameQueue(y, x)
<1>1. CASE y = x
  BY <1>1 DEF SameQueue
<1>2. CASE y = Gone(x)[1] /\ x.pend = NULL
  <2>1. y.queue = x.queue /\ y.pend = NULL
    BY <1>2 DEF Gone, CheckDataConnection, TypedUnit, UnitType
  <2> QED BY <1>2, <2>1, GoneTyped DEF SameQueue
<1>3. CASE y = Broadcast(x, FALSE, TRUE, TRUE)[1] /\ x.pend = NULL /\ x.link
  BY <1>3, BroadcastTyped DEF SameQueue
<1> QED BY <1>1, <1>2, <1>3 DEF Between

LEMMA MeanwhileTyped ==
  ASSUME NEW w, Handled(w), NEW x \in Meanwhile(w)
  PROVE  Handled(x) /\ x.raid = w.raid
<1>1. PICK f \in [Unit -> Between(w.unit[0]) \cup Between(w.unit[1])] :
        x = [w EXCEPT !.unit = f] /\ \A u \in Unit : f[u] \in Between(w.unit[u])
  BY DEF Meanwhile
<1>2. \A u \in Unit : TypedUnit(f[u]) /\ SameQueue(f[u], w.unit[u])
  BY <1>1, BetweenTyped DEF Handled, TypedWorld
<1>3. f \in [Unit -> UnitType]
  BY <1>2 DEF TypedUnit
<1> QED BY <1>1, <1>2, <1>3 DEF Handled, TypedWorld, SameQueue

LEMMA RecoveryTyped == ASSUME NEW w, Handled(w), NEW v \in Recovery(w) PROVE Handled(v)
<1> DEFINE same(x) == x.unit[0].mem.usn = x.unit[1].mem.usn
           stopped == [w EXCEPT !.raid.inRecovery = FALSE]
           y == UpdateRAIDStatus(w)
           x0 == [y EXCEPT !.raid.inRecovery = @ /\ same(y)]
<1>1. Handled(stopped)
  BY SetInRecoveryTyped
<1>2. /\ Handled(y)
      /\ y.raid.rs = "Recovering" => SubUnits(y, "Good") # {}
  BY UpdateRAIDStatusTyped
<1>3. Recovery(w) = IF ~RaidRunning(w) THEN {UpdateRAIDStatus(stopped)}
                    ELSE {RecoveryTurn(x) : x \in UNION {Meanwhile([z EXCEPT !.raid.inRecovery = @ /\ same(z)]) :
                                                            z \in {y}}}
  BY DEF Recovery
<1>4. v = UpdateRAIDStatus(stopped) \/ \E x \in Meanwhile(x0) : v = RecoveryTurn(x)
  BY <1>3
<1>5. Handled(x0) /\ x0.raid.rs = y.raid.rs /\ x0.raid.sub = y.raid.sub
  <2> HIDE DEF y
  <2> DEFINE d == y.raid.inRecovery /\ same(y)
  <2>1. d \in BOOLEAN /\ (d => y.raid.map \in Bitmap)
    BY <1>2 DEF Handled, TypedWorld, TypedRaid, RaidType
  <2> HIDE DEF d
  <2>2. x0 = [y EXCEPT !.raid.inRecovery = d]
    BY DEF d
  <2> HIDE DEF x0
  <2> QED BY <1>2, <2>1, <2>2, SetInRecoveryTyped
<1> HIDE DEF stopped, x0, y
<1>6. CASE v = UpdateRAIDStatus(stopped)
  BY <1>1, <1>6, UpdateRAIDStatusTyped
<1>7. ASSUME NEW x \in Meanwhile(x0), v = RecoveryTurn(x) PROVE Handled(v)
  <2>1. Handled(x) /\ x.raid = x0.raid
    BY <1>5, MeanwhileTyped
  <2>2. x.raid.rs = "Recovering" => SubUnits(x, "Good") # {}
    BY <1>2, <1>5, <2>1 DEF SubUnits
  <2> QED BY <1>7, <2>1, <2>2, RecoveryTurnTyped
<1> QED BY <1>4, <1>6, <1>7

-----------------------------------------------------------------------------
(* The commands of the host.                                               *)

(* What a handler leaves has the right types, if the world it starts from  *)
(* has.                                                                    *)
TypedOutcome(o) ==
  /\ o = Outcome(o.w, o.res, o.fin, o.to)
  /\ Handled(o.w) /\ \A u \in Unit : o.to[u] \in {NULL} \cup Request

LEMMA OutcomeTyped ==
  ASSUME NEW w, Handled(w), NEW r, NEW fin, NEW to, \A u \in Unit : to[u] \in {NULL} \cup Request
  PROVE  TypedOutcome(Outcome(w, r, fin, to))
BY DEF TypedOutcome, Outcome

LEMMA NothingSentTyped ==
  ASSUME NEW w, Handled(w), NEW r, NEW fin
  PROVE  TypedOutcome(Outcome(w, r, fin, ToNone))
<1>1. \A u \in Unit : ToNone[u] \in {NULL} \cup Request
  BY DEF ToNone
<1> QED BY <1>1, OutcomeTyped

LEMMA CommandTyped ==
  ASSUME NEW op \in {"read", "write"}, NEW lo \in Block, NEW hi \in Block, NEW v \in Written
  PROVE  Command(op, lo, hi, v) \in Request
BY DEF Command, Request

LEMMA PlanReadTyped ==
  ASSUME NEW w, cmd \in Asked, NEW u \in Unit
  PROVE  PlanRead(w)[u] \in {NULL} \cup Request
<1> DEFINE half == (cmd.hi - cmd.lo + 1) \div 2
<1>1. cmd.lo \in Block /\ cmd.hi \in Block /\ cmd.lo \in Int /\ cmd.hi \in Int
  <2>1. cmd.lo \in Block /\ cmd.hi \in Block
    BY DEF Asked
  <2>2. \A k \in Block : k \in Int
    BY DEF Block
  <2> QED BY <2>1, <2>2
<1>2. half > 0 => half \in Int /\ half <= cmd.hi - cmd.lo
  BY <1>1
<1>3. half > 0 => cmd.lo + half - 1 \in Block /\ cmd.lo + half \in Block
  <2> HIDE DEF half
  <2> QED BY <1>1, <1>2, Numbers DEF Block
<1>4. 0 \in Written
  BY Numbers DEF Written
<1>5. /\ Command("read", cmd.lo, cmd.hi, 0) \in Request
      /\ half > 0 => /\ Command("read", cmd.lo, cmd.lo + half - 1, 0) \in Request
                     /\ Command("read", cmd.lo + half, cmd.hi, 0) \in Request
  <2> HIDE DEF half
  <2> QED BY <1>1, <1>3, <1>4, CommandTyped
<1> HIDE DEF half
<1>6. PlanRead(w)[u] \in {NULL, Command("read", cmd.lo, cmd.hi, 0)}
      \/ (half > 0 /\ PlanRead(w)[u] \in {Command("read", cmd.lo, cmd.lo + half - 1, 0),
                                          Command("read", cmd.lo + half, cmd.hi, 0)})
  BY DEF PlanRead, half
<1> QED BY <1>5, <1>6

LEMMA PlanWriteTyped ==
  ASSUME NEW w, cmd \in Asked, cmd.op = "write", NEW u \in Unit
  PROVE  PlanWrite(w)[u] \in {NULL} \cup Request
BY CommandTyped DEF PlanWrite, Asked

LEMMA NoteWriteTyped ==
  ASSUME NEW w, Handled(w), cmd \in Asked
  PROVE  Handled(NoteWrite(w))
<1> DEFINE h == Remember(w.raid.history, cmd.lo)
           x == [w EXCEPT !.raid.history = h]
<1>1. h \in Seq(Block) /\ Len(h) <= Cache + 1
  BY RememberTyped DEF Handled, TypedWorld, TypedRaid, RaidType, Asked
<1> HIDE DEF h
<1>2. Handled(x)
  BY <1>1 DEF Handled, TypedWorld, TypedRaid, RaidType
<1>3. NoteWrite(w) \in {w, x, SetBitmap(w, {cmd.lo})}
  BY DEF NoteWrite, h
<1> HIDE DEF x
<1> QED BY <1>2, <1>3, SetBitmapTyped

LEMMA ProcessSrbCommandTyped ==
  ASSUME NEW w, Handled(w), NEW r, cmd \in {NULL} \cup Asked
  PROVE  TypedOutcome(ProcessSrbCommand(w, r))
<1> DEFINE failed == Outcome(w, [r EXCEPT !.ok = FALSE], TRUE, ToNone)
           sent(to) == IF to = ToNone THEN failed ELSE Outcome(w, r, FALSE, to)
           noted(x) == Outcome(x, r, FALSE, PlanWrite(x))
<1>1. TypedOutcome(failed) /\ TypedOutcome(Outcome(w, r, FALSE, ToNone))
  BY NothingSentTyped
<1>2. CASE cmd = NULL \/ ~RaidRunning(w)
  BY <1>1, <1>2 DEF ProcessSrbCommand
<1>3. CASE cmd \in Asked /\ cmd # NULL /\ RaidRunning(w) /\ cmd.op = "read"
  <2>1. TypedOutcome(sent(PlanRead(w)))
    <3>1. \A u \in Unit : PlanRead(w)[u] \in {NULL} \cup Request
      BY <1>3, PlanReadTyped
    <3> HIDE DEF failed
    <3> QED BY <1>1, <3>1, OutcomeTyped
  <2>2. ProcessSrbCommand(w, r) = Only({sent(to) : to \in {PlanRead(w)}})
    BY <1>3 DEF ProcessSrbCommand
  <2> HIDE DEF sent
  <2>3. {sent(to) : to \in {PlanRead(w)}} = {sent(PlanRead(w))}
    OBVIOUS
  <2>4. Only({sent(PlanRead(w))}) = sent(PlanRead(w))
    BY OnlyOne
  <2> QED BY <2>1, <2>2, <2>3, <2>4
<1>4. CASE cmd \in Asked /\ cmd # NULL /\ RaidRunning(w) /\ cmd.op # "read"
  <2>1. Handled(NoteWrite(w)) /\ cmd.op = "write"
    BY <1>4, NoteWriteTyped DEF Asked
  <2>2. \A u \in Unit : PlanWrite(NoteWrite(w))[u] \in {NULL} \cup Request
    BY <1>4, <2>1, PlanWriteTyped
  <2>3. TypedOutcome(noted(NoteWrite(w)))
    BY <2>1, <2>2, OutcomeTyped
  <2>4. ProcessSrbCommand(w, r) = Only({noted(x) : x \in {NoteWrite(w)}})
    BY <1>4 DEF ProcessSrbCommand
  <2> HIDE DEF noted
  <2>5. {noted(x) : x \in {NoteWrite(w)}} = {noted(NoteWrite(w))}
    OBVIOUS
  <2>6. Only({noted(NoteWrite(w))}) = noted(NoteWrite(w))
    BY OnlyOne
  <2> QED BY <2>3, <2>4, <2>5, <2>6
<1> QED BY <1>2, <1>3, <1>4

LEMMA ProcessSrbCompletedTyped ==
  ASSUME NEW w, Handled(w), NEW c, NEW n, cmd \in {NULL} \cup Asked
  PROVE  TypedOutcome(ProcessSrbCompleted(w, c, n))
<1>1. Handled(UpdateRAIDStatus(w))
  BY UpdateRAIDStatusTyped
<1>2. TypedOutcome(ReadCompleted(w, c, n))
  <2> DEFINE failed == [res EXCEPT !.ok = FALSE]
             more == [ok |-> TRUE, xfer |-> res.xfer + c.xfer,
                      vals |-> [b \in DOMAIN res.vals \cup DOMAIN c.vals |->
                                  IF b \in DOMAIN c.vals THEN c.vals[b] ELSE res.vals[b]]]
             again(x) == IF \E u \in Unit : Usable(x, u) THEN ProcessSrbCommand(x, failed)
                                                        ELSE Outcome(x, failed, TRUE, ToNone)
             y == UpdateRAIDStatus(w)
  <2>1. ReadCompleted(w, c, n) = IF c.ok THEN Outcome(w, more, n = 0, ToNone)
                                 ELSE Only({again(x) : x \in {y}})
    BY DEF ReadCompleted
  <2>2. TypedOutcome(Outcome(w, more, n = 0, ToNone))
    <3> HIDE DEF more
    <3> QED BY NothingSentTyped
  <2> HIDE DEF more, failed, y
  <2>3. TypedOutcome(again(y))
    <3>1. Handled(y)
      BY <1>1 DEF y
    <3>2. TypedOutcome(Outcome(y, failed, TRUE, ToNone))
      BY <3>1, NothingSentTyped
    <3>3. TypedOutcome(ProcessSrbCommand(y, failed))
      BY <3>1, ProcessSrbCommandTyped
    <3> QED BY <3>2, <3>3
  <2> HIDE DEF again
  <2>4. {again(x) : x \in {y}} = {again(y)}
    OBVIOUS
  <2>5. Only({again(y)}) = again(y)
    BY OnlyOne
  <2> QED BY <2>1, <2>2, <2>3, <2>4, <2>5
<1>3. TypedOutcome(WriteCompleted(w, c, n))
  <2> DEFINE failed == IF n = 0 /\ res.xfer # c.xfer THEN [res EXCEPT !.ok = FALSE] ELSE res
             done == [res EXCEPT !.ok = TRUE, !.xfer = c.xfer]
  <2>1. WriteCompleted(w, c, n) = IF c.ok THEN Outcome(w, done, n = 0, ToNone)
                                  ELSE Outcome(UpdateRAIDStatus(w), failed, n = 0, ToNone)
    BY DEF WriteCompleted
  <2> HIDE DEF failed, done
  <2>2. TypedOutcome(Outcome(w, done, n = 0, ToNone))
    BY NothingSentTyped
  <2>3. TypedOutcome(Outcome(UpdateRAIDStatus(w), failed, n = 0, ToNone))
    BY <1>1, NothingSentTyped
  <2> QED BY <2>1, <2>2, <2>3
<1> DEFINE o == IF c.op = "read" THEN ReadCompleted(w, c, n) ELSE WriteCompleted(w, c, n)
           v == [o EXCEPT !.w = UpdateRAIDStatus(@)]
<1>4. TypedOutcome(o)
  BY <1>2, <1>3
<1>5. ProcessSrbCompleted(w, c, n) = IF cmd = NULL THEN Outcome(w, res, FALSE, ToNone) ELSE v
  BY DEF ProcessSrbCompleted
<1> HIDE DEF o
<1>6. v = Outcome(UpdateRAIDStatus(o.w), o.res, o.fin, o.to)
  BY <1>4 DEF TypedOutcome, Outcome
<1>7. TypedOutcome(v)
  <2>1. Handled(UpdateRAIDStatus(o.w)) /\ \A u \in Unit : o.to[u] \in {NULL} \cup Request
    BY <1>4, UpdateRAIDStatusTyped DEF TypedOutcome
  <2> QED BY <1>6, <2>1, OutcomeTyped
<1>8. TypedOutcome(Outcome(w, res, FALSE, ToNone))
  BY NothingSentTyped
<1> QED BY <1>5, <1>7, <1>8


-----------------------------------------------------------------------------
(* The actions.                                                            *)

LEMMA InitIInv == ASSUME Init PROVE IInv
<1>1. 0 \in Written /\ {} \in Bitmap /\ <<>> \in Seq(Request) /\ <<>> \in Seq(Saved)
      /\ <<>> \in Seq(Block) /\ Len(<<>>) = 0 /\ 0 \in 0..Capacity /\ 0 \in 0..MaxCmds
  BY EmptySeq, Numbers DEF Written, Bitmap
<1>2. Synchronized \in Metadata
  BY DEF Synchronized, Metadata
<1>3. [b \in Block |-> 0] \in [Block -> Held]
  BY <1>1, WrittenIsHeld
<1>4. ASSUME NEW u \in Unit PROVE TypedUnit(unit[u])
  BY <1>1, <1>2, <1>3, Numbers DEF Init, TypedUnit, UnitType, UnitStatus, Sane
<1>5. TypedRaid(raid)
  BY <1>1, Numbers DEF Init, TypedRaid, RaidType, ArrayStatus, UnitStatus, SubStatus
<1>6. unit = [u \in Unit |-> unit[u]]
  BY DEF Init
<1>7. unit \in [Unit -> UnitType]
  BY <1>4, <1>6 DEF TypedUnit
<1>8. TypedWorld(World)
  BY <1>4, <1>5, <1>7 DEF World, TypedWorld, TypedRaid
<1>9. want \in [Block -> SUBSET Written] /\ refused \in SUBSET Written /\ idle \in BOOLEAN /\ issued \in 0..MaxCmds /\ cmd = NULL
  BY <1>1 DEF Init
<1>10. count \in Nat /\ IsQueue(inbox) /\ AnswersExpected
  <2>1. \A u \in Unit : Unanswered(u) = 0
    BY <1>1 DEF Init, Unanswered
  <2>2. Answers = 0
    <3>1. Done(<<>>) = {}
      BY DEF Done
    <3> QED BY <3>1, FS_EmptySet DEF Init, Answers, Done
  <2>3. 0 \in Unit /\ 1 \in Unit
    BY DEF Unit
  <2> QED BY <1>1, <2>1, <2>2, <2>3 DEF Init, AnswersExpected, IsQueue
<1> QED BY <1>8, <1>9, <1>10 DEF IInv

LEMMA UnansweredIsPending == \A u : Unanswered(u) = Pending(unit[u])
BY DEF Unanswered, Pending, OneIfAny

LEMMA AnswersAreDone == Answers = Cardinality(Done(inbox))
BY DEF Answers, Done

(* The numbers that AnswersExpected compares.                              *)
LEMMA Counted ==
  ASSUME IInv
  PROVE  /\ TypedWorld(World) /\ Handled(World) /\ \A u \in Unit : TypedUnit(unit[u])
         /\ Unanswered(0) \in Nat /\ Unanswered(1) \in Nat /\ Answers \in Nat /\ count \in Nat
         /\ \A u \in Unit : Unanswered(u) \in Nat
<1>1. TypedWorld(World) /\ \A u \in Unit : TypedUnit(unit[u])
  BY DEF IInv, TypedWorld, World
<1>2. Handled(World)
  BY <1>1 DEF Handled, SameQueue, World
<1>3. \A u \in Unit : Unanswered(u) \in Nat
  BY <1>1, PendingIsNat, UnansweredIsPending
<1>4. Answers \in Nat /\ count \in Nat
  BY DoneIsFinite, AnswersAreDone DEF IInv
<1> QED BY <1>1, <1>2, <1>3, <1>4 DEF Unit

(* A step that changes the array and the disks by a handler's world.       *)
LEMMA StoresTyped ==
  ASSUME IInv, NEW x, Handled(x), unit' = x.unit, raid' = x.raid
  PROVE  TypedWorld(World)' /\ \A u \in Unit : Unanswered(u)' = Unanswered(u)
<1>1. x = [unit |-> x.unit, raid |-> x.raid]
  BY DEF Handled, TypedWorld
<1>2. World' = x
  BY <1>1 DEF World
<1>3. TypedWorld(World)'
  BY <1>2 DEF Handled
<1>4. \A u \in Unit : unit'[u].queue = unit[u].queue /\ unit'[u].pend = unit[u].pend
  BY DEF Handled, SameQueue
<1>5. \A u \in Unit : Unanswered(u)' = Unanswered(u)
  BY <1>4 DEF Unanswered
<1> QED BY <1>3, <1>5

(* A step that changes a disk.                                             *)
LEMMA StoresUnitTyped ==
  ASSUME IInv, NEW u \in Unit, NEW x, TypedUnit(x), unit' = [unit EXCEPT ![u] = x], raid' = raid
  PROVE  /\ TypedWorld(World)'
         /\ Unanswered(u)' = Pending(x)
         /\ \A v \in Unit : v # u => Unanswered(v)' = Unanswered(v)
<1> DEFINE v == [World EXCEPT !.unit[u] = x]
<1>1. TypedWorld(v)
  BY DEF IInv, TypedWorld, TypedUnit
<1>2. v = World'
  BY DEF World
<1> HIDE DEF v
<1>3. TypedWorld(World)'
  BY <1>1, <1>2
<1>4. unit'[u] = x /\ \A k \in Unit : k # u => unit'[k] = unit[k]
  BY DEF IInv, TypedWorld, World
<1>5. \A k : Unanswered(k)' = Pending(unit'[k])
  BY DEF Unanswered, Pending, OneIfAny
<1>6. \A k : Unanswered(k) = Pending(unit[k])
  BY UnansweredIsPending
<1> QED BY <1>3, <1>4, <1>5, <1>6

LEMMA AnsweredIfTyped ==
  ASSUME IInv, NEW fin, NEW rs, NEW r, AnsweredIf(fin, rs, r)
  PROVE  cmd' \in {NULL} \cup Asked /\ want' \in [Block -> SUBSET Written]
<1>1. CASE UNCHANGED <<cmd, reply, want>>
  BY <1>1 DEF IInv
<1>2. CASE cmd # NULL /\ Answered(r, cmd)
  <2>1. cmd.lo \in Block /\ cmd.val \in Written
    BY <1>2 DEF IInv, Asked
  <2>2. want' \in {want, [want EXCEPT ![cmd.lo] = {cmd.val}]} /\ cmd' = NULL
    BY <1>2 DEF Answered
  <2> QED BY <2>1, <2>2 DEF IInv
<1> QED BY <1>1, <1>2 DEF AnsweredIf

(* A handler of the worker takes effect: each disk that a command is sent  *)
(* to has one more to answer, and the count grows by their number.         *)
LEMMA SettleTyped ==
  ASSUME IInv, NEW o, TypedOutcome(o), NEW n \in Nat, Settle(o, n)
  PROVE  /\ TypedWorld(World)'
         /\ cmd' \in {NULL} \cup Asked /\ want' \in [Block -> SUBSET Written]
         /\ count' \in Nat
         /\ Unanswered(0)' + Unanswered(1)' + n = Unanswered(0) + Unanswered(1) + count'
<1> DEFINE w == AfterCommand(o.w)
           sent == {u \in Unit : o.to[u] # NULL}
           U == [u \in Unit |-> IF u \in sent THEN [w.unit[u] EXCEPT !.queue = Append(@, o.to[u])]
                                             ELSE w.unit[u]]
           more(u) == IF u \in sent THEN 1 ELSE 0
<1>1. Handled(w)
  BY AfterCommandTyped DEF TypedOutcome
<1>2. unit' = U /\ raid' = w.raid /\ AnsweredIf(o.fin, w.raid.rs, o.res)
      /\ count' = n + Cardinality(sent)
  BY DEF Settle
<1> HIDE DEF w
<1>3. ASSUME NEW u \in Unit
      PROVE  /\ TypedUnit(U[u]) /\ U[u].pend = unit[u].pend
             /\ Len(U[u].queue) = Len(unit[u].queue) + more(u)
  <2>1. TypedUnit(w.unit[u]) /\ w.unit[u].queue = unit[u].queue /\ w.unit[u].pend = unit[u].pend
    BY <1>1 DEF Handled, SameQueue, TypedWorld
  <2>2. CASE u \in sent
    <3> DEFINE q == Append(w.unit[u].queue, o.to[u])
    <3>1. o.to[u] \in Request
      BY <2>2 DEF TypedOutcome
    <3>2. q \in Seq(Request) /\ Len(q) = Len(unit[u].queue) + 1
      BY <2>1, <3>1, AppendProperties DEF TypedUnit, UnitType
    <3>3. U[u] = [w.unit[u] EXCEPT !.queue = q]
      BY <2>2
    <3> HIDE DEF q, U
    <3> QED BY <2>1, <2>2, <3>2, <3>3 DEF TypedUnit, UnitType, Sane
  <2>3. CASE u \notin sent
    <3>1. U[u] = w.unit[u] /\ more(u) = 0
      BY <2>3
    <3>2. Len(unit[u].queue) \in Nat
      BY Counted, PendingIsNat
    <3> HIDE DEF U, more
    <3> QED BY <2>1, <3>1, <3>2
  <2> QED BY <2>2, <2>3
<1>4. TypedWorld(World)'
  <2>1. U \in [Unit -> UnitType]
    BY <1>3 DEF TypedUnit
  <2>2. w.raid \in RaidType /\ TypedRaid(w.raid)
    BY <1>1 DEF Handled, TypedWorld
  <2> HIDE DEF U
  <2> QED BY <1>2, <1>3, <2>1, <2>2 DEF TypedWorld, TypedRaid, World
<1>5. Cardinality(sent) = more(0) + more(1) /\ more(0) \in {0, 1} /\ more(1) \in {0, 1}
  <2>1. sent \in SUBSET Unit
    OBVIOUS
  <2> HIDE DEF sent
  <2> QED BY <2>1, UnitsCounted
<1>6. ASSUME NEW u \in Unit PROVE Unanswered(u)' = Unanswered(u) + more(u)
  <2>1. Unanswered(u)' = Len(U[u].queue) + OneIfAny(U[u].pend)
    BY <1>2 DEF Unanswered, OneIfAny
  <2>2. Unanswered(u) = Len(unit[u].queue) + OneIfAny(unit[u].pend)
    BY DEF Unanswered, OneIfAny
  <2>3. OneIfAny(unit[u].pend) \in {0, 1} /\ Len(unit[u].queue) \in Nat /\ more(u) \in {0, 1}
    BY OneOrNone, Counted, PendingIsNat
  <2> HIDE DEF U, more
  <2> QED BY <1>3, <2>1, <2>2, <2>3
<1>7. Unanswered(0)' = Unanswered(0) + more(0) /\ Unanswered(1)' = Unanswered(1) + more(1)
  BY <1>6 DEF Unit
<1>8. Unanswered(0) \in Nat /\ Unanswered(1) \in Nat
  BY Counted
<1> HIDE DEF more, sent, U
<1>9. count' \in Nat /\ Unanswered(0)' + Unanswered(1)' + n = Unanswered(0) + Unanswered(1) + count'
  BY <1>2, <1>5, <1>7, <1>8
<1> QED BY <1>2, <1>4, <1>9, AnsweredIfTyped

(* What becomes of the answers on their way.                               *)
LEMMA InboxKept ==
  ASSUME IInv, inbox' = inbox PROVE IsQueue(inbox') /\ Answers' = Answers
BY DEF IInv, Answers

LEMMA InboxGrows ==
  ASSUME IInv, NEW e, inbox' = Append(inbox, e)
  PROVE  IsQueue(inbox') /\ Answers' = Answers + (IF e.k = "done" THEN 1 ELSE 0)
<1>1. /\ IsQueue(Append(inbox, e))
      /\ Cardinality(Done(Append(inbox, e)))
           = Cardinality(Done(inbox)) + (IF e.k = "done" THEN 1 ELSE 0)
  BY AnswerAdded DEF IInv
<1>2. Answers' = Cardinality(Done(inbox'))
  BY DEF Answers, Done
<1> QED BY <1>1, <1>2, AnswersAreDone

LEMMA InboxShrinks ==
  ASSUME IInv, NEW k, WorkerTakes(k)
  PROVE  IsQueue(inbox') /\ Answers = Answers' + (IF k = "done" THEN 1 ELSE 0) /\ Answers' \in Nat
<1>1. inbox # <<>> /\ Head(inbox).k = k /\ inbox' = Tail(inbox)
  BY DEF WorkerTakes
<1>2. /\ IsQueue(Tail(inbox))
      /\ Cardinality(Done(inbox))
           = Cardinality(Done(Tail(inbox))) + (IF Head(inbox).k = "done" THEN 1 ELSE 0)
  BY <1>1, AnswerTaken DEF IInv
<1>3. Answers' = Cardinality(Done(inbox'))
  BY DEF Answers, Done
<1>4. Cardinality(Done(Tail(inbox))) \in Nat
  BY <1>2, DoneIsFinite
<1> QED BY <1>1, <1>2, <1>3, <1>4, AnswersAreDone

LEMMA IssueKeeps ==
  ASSUME IInv, NEW op \in {"read", "write"}, NEW lo \in Block, NEW hi \in Block, Issue(op, lo, hi)
  PROVE  IInv'
<1> DEFINE c == [op |-> op, lo |-> lo, hi |-> hi, val |-> IF op = "write" THEN issued + 1 ELSE 0]
           e == [k |-> "srb"]
<1>1. /\ cmd' = c /\ issued' = issued + 1 /\ issued < MaxCmds
      /\ want' \in {want, [want EXCEPT ![lo] = @ \cup {c.val}]}
      /\ unit' = unit /\ raid' = raid /\ idle' = idle /\ count' = count /\ refused' = refused
      /\ inbox' = Append(inbox, e)
  BY DEF Issue, faults
<1>2. issued + 1 \in 0..MaxCmds
  BY <1>1, Numbers DEF IInv
<1>3. c \in Asked /\ c.val \in Written
  BY <1>2, Numbers DEF Asked, Written
<1>4. World' = World
  BY <1>1 DEF World
<1>5. IsQueue(inbox') /\ Answers' = Answers + (IF e.k = "done" THEN 1 ELSE 0)
  BY <1>1, InboxGrows
<1>6. Answers' = Answers
  BY <1>5, Counted
<1>7. AnswersExpected'
  BY <1>1, <1>6 DEF AnswersExpected, Unanswered, IInv
<1> HIDE DEF c, e
<1> QED BY <1>1, <1>2, <1>3, <1>4, <1>5, <1>7 DEF IInv

LEMMA UnitStepKeeps ==
  ASSUME IInv, NEW u \in Unit, NEW P, UnitStep(u, P), refused' \in SUBSET Written,
         \A p \in P : TypedUnit(p[1]) /\ Pending(p[1]) + OneIfAny(p[2]) <= Pending(unit[u])
  PROVE  IInv'
<1>1. PICK p \in P : /\ unit' = [unit EXCEPT ![u] = p[1]]
                     /\ inbox' = IF p[2] # NULL /\ unit[u].member
                                 THEN Append(inbox, [k |-> "done", c |-> p[2]]) ELSE inbox
  BY DEF UnitStep
<1>2. /\ TypedUnit(p[1]) /\ raid' = raid /\ count' = count
      /\ Pending(p[1]) + OneIfAny(p[2]) <= Pending(unit[u])
  BY DEF UnitStep, command
<1>3. /\ TypedWorld(World)' /\ Unanswered(u)' = Pending(p[1])
      /\ \A v \in Unit : v # u => Unanswered(v)' = Unanswered(v)
  BY <1>1, <1>2, StoresUnitTyped
<1>4. IsQueue(inbox') /\ Answers' <= Answers + OneIfAny(p[2]) /\ Answers' \in Nat
  <2> DEFINE e == [k |-> "done", c |-> p[2]]
  <2>1. OneIfAny(p[2]) = (IF p[2] = NULL THEN 0 ELSE 1) /\ Answers \in Nat
    BY Counted DEF OneIfAny
  <2>2. CASE p[2] # NULL /\ unit[u].member
    <3>1. IsQueue(inbox') /\ Answers' = Answers + (IF e.k = "done" THEN 1 ELSE 0)
      <4>1. inbox' = Append(inbox, e)
        BY <1>1, <2>2
      <4> HIDE DEF e
      <4> QED BY <4>1, InboxGrows
    <3> QED BY <2>1, <2>2, <3>1
  <2>3. CASE ~(p[2] # NULL /\ unit[u].member)
    BY <1>1, <2>1, <2>3, InboxKept
  <2> QED BY <2>2, <2>3
<1>5. AnswersExpected'
  <2>1. /\ Unanswered(0) \in Nat /\ Unanswered(1) \in Nat /\ Answers \in Nat /\ count \in Nat
        /\ Unanswered(u) = Pending(unit[u]) /\ AnswersExpected
    BY Counted, UnansweredIsPending DEF IInv
  <2>2. Pending(p[1]) \in Nat /\ OneIfAny(p[2]) \in {0, 1}
    BY <1>2, PendingIsNat, OneOrNone
  <2>3. Unanswered(u)' + Answers' <= Unanswered(u) + Answers
    <3>1. Pending(p[1]) + OneIfAny(p[2]) <= Unanswered(u) /\ Unanswered(u) \in Int
      BY <1>2, <2>1, Counted
    <3>2. Pending(p[1]) + Answers' <= Unanswered(u) + Answers
      BY <1>4, <2>1, <2>2, <3>1
    <3> QED BY <1>3, <3>2
  <2>4. /\ u = 0 => Unanswered(1)' = Unanswered(1)
        /\ u = 1 => Unanswered(0)' = Unanswered(0)
        /\ Unanswered(u)' \in Nat
    <3>1. 0 \in Unit /\ 1 \in Unit
      BY DEF Unit
    <3>2. Unanswered(u)' \in Nat
      BY <1>3, <2>2
    <3>3. u = 0 => Unanswered(1)' = Unanswered(1)
      BY <1>3, <3>1
    <3>4. u = 1 => Unanswered(0)' = Unanswered(0)
      BY <1>3, <3>1
    <3> QED BY <3>2, <3>3, <3>4
  <2>5. u \in {0, 1}
    BY DEF Unit
  <2>6. Unanswered(0)' + Unanswered(1)' + Answers' <= Unanswered(0) + Unanswered(1) + Answers
    BY <1>4, <2>1, <2>3, <2>4, <2>5
  <2>7. count' = count /\ Unanswered(0)' \in Nat /\ Unanswered(1)' \in Nat
    BY <1>2, <2>1, <2>4, <2>5
  <2> QED BY <1>4, <2>1, <2>6, <2>7 DEF AnswersExpected
<1> QED BY <1>2, <1>3, <1>4, <1>5 DEF UnitStep, IInv, command, history

(* A step that leaves the queues of the disks and the count alone.         *)
LEMMA QueuesKept ==
  ASSUME IInv, \A u \in Unit : Unanswered(u)' = Unanswered(u), Answers' = Answers, count' = count
  PROVE  AnswersExpected'
BY DEF AnswersExpected, IInv, Unit

LEMMA ByBusKeeps ==
  ASSUME IInv, NEW u \in Unit, NEW x, TypedUnit(x), SameQueue(x, unit[u]), ByBus(u, x),
         inbox' \in {inbox, Append(inbox, [k |-> "noPnp"])}
  PROVE  IInv'
<1> DEFINE v == [World EXCEPT !.unit[u] = x]
           y == UpdateRAIDStatus(v)
           e == [k |-> "noPnp"]
<1>1. Handled(v)
  BY Counted, SetUnitTyped DEF World
<1>2. unit' = y.unit /\ raid' = y.raid
  BY DEF ByBus
<1> HIDE DEF v
<1>3. Handled(y)
  BY <1>1, UpdateRAIDStatusTyped
<1> HIDE DEF y
<1>4. TypedWorld(World)' /\ \A k \in Unit : Unanswered(k)' = Unanswered(k)
  BY <1>2, <1>3, StoresTyped
<1>5. IsQueue(inbox') /\ Answers' = Answers
  <2>1. CASE inbox' = inbox
    BY <2>1, InboxKept
  <2>2. CASE inbox' = Append(inbox, e)
    <3>1. IsQueue(inbox') /\ Answers' = Answers + (IF e.k = "done" THEN 1 ELSE 0)
      BY <2>2, InboxGrows
    <3> QED BY <3>1, Counted
  <2> QED BY <2>1, <2>2
<1>6. AnswersExpected'
  BY <1>4, <1>5, QueuesKept DEF ByBus, command
<1> QED BY <1>4, <1>5, <1>6 DEF ByBus, IInv, command, history, faults

(* A disk is switched off or on.                                           *)
LEMMA SwitchKeeps ==
  ASSUME IInv, NEW u \in Unit, NEW x, TypedUnit(x), SameQueue(x, unit[u]),
         unit' = [unit EXCEPT ![u] = x],
         UNCHANGED <<raid, command, inbox, idle, issued, history, refused>>
  PROVE  IInv'
<1>1. /\ TypedWorld(World)' /\ Unanswered(u)' = Pending(x)
      /\ \A v \in Unit : v # u => Unanswered(v)' = Unanswered(v)
  BY StoresUnitTyped
<1>2. Pending(x) = Unanswered(u)
  BY UnansweredIsPending DEF SameQueue, Pending
<1>3. IsQueue(inbox') /\ Answers' = Answers
  BY InboxKept
<1>4. AnswersExpected'
  BY <1>1, <1>2, <1>3, QueuesKept DEF command
<1> QED BY <1>1, <1>3, <1>4 DEF IInv, command, history

LEMMA SettleKeeps ==
  ASSUME IInv, NEW o, TypedOutcome(o), NEW n \in Nat, Settle(o, n),
         IsQueue(inbox'), Answers' \in Nat, Answers' + count = Answers + n,
         idle' \in BOOLEAN, issued' = issued, refused' = refused
  PROVE  IInv'
<1>1. /\ TypedWorld(World)' /\ count' \in Nat
      /\ cmd' \in {NULL} \cup Asked /\ want' \in [Block -> SUBSET Written]
      /\ Unanswered(0)' + Unanswered(1)' + n = Unanswered(0) + Unanswered(1) + count'
  BY SettleTyped
<1>2. /\ Unanswered(0) \in Nat /\ Unanswered(1) \in Nat /\ Answers \in Nat /\ count \in Nat
      /\ Unanswered(0) + Unanswered(1) + Answers <= count
  BY Counted DEF IInv, AnswersExpected
<1>3. Unanswered(0)' \in Nat /\ Unanswered(1)' \in Nat
  <2>1. \A u \in Unit : TypedUnit(unit'[u])
    BY <1>1 DEF TypedWorld, World
  <2>2. \A u \in Unit : Pending(unit'[u]) \in Nat
    BY <2>1, PendingIsNat
  <2>3. \A u \in Unit : Unanswered(u)' = Pending(unit'[u])
    BY DEF Unanswered, Pending, OneIfAny
  <2>4. 0 \in Unit /\ 1 \in Unit
    BY DEF Unit
  <2> QED BY <2>2, <2>3, <2>4
<1>4. Unanswered(0)' + Unanswered(1)' + Answers' <= count'
  <2> DEFINE a == Unanswered(0)'
             b == Unanswered(1)'
             c == Answers'
             d == count'
             x == Unanswered(0)
             y == Unanswered(1)
             z == Answers
             m == count
  <2>1. /\ {a, b, c, d, x, y, z, m} \subseteq Nat
        /\ a + b + n = x + y + d /\ c + m = z + n /\ x + y + z <= m
    BY <1>1, <1>2, <1>3
  <2> HIDE DEF a, b, c, d, x, y, z, m
  <2>2. a + b + c <= d
    BY <2>1
  <2> QED BY <2>2 DEF a, b, c, d
<1>5. AnswersExpected'
  BY <1>4 DEF AnswersExpected
<1> QED BY <1>1, <1>5 DEF IInv

(* Every step of the mirror preserves the invariant.                       *)
LEMMA StepIInv == ASSUME IInv, [Next]_vars PROVE IInv'
<1>1. /\ TypedWorld(World) /\ Handled(World) /\ \A u \in Unit : TypedUnit(unit[u])
      /\ Unanswered(0) \in Nat /\ Unanswered(1) \in Nat /\ Answers \in Nat /\ count \in Nat
      /\ AnswersExpected /\ cmd \in {NULL} \cup Asked /\ idle \in BOOLEAN
  BY Counted DEF IInv
<1>2. ASSUME NEW op \in {"read", "write"}, NEW lo \in Block, NEW hi \in Block, Issue(op, lo, hi)
      PROVE  IInv'
  BY <1>2, IssueKeeps
<1>3. ASSUME NEW u \in Unit, SwitchOff(u) PROVE IInv'
  <2>1. PICK lost \in SUBSET Cached(unit[u]) : unit' = [unit EXCEPT ![u] = Lose(unit[u], lost)]
    BY <1>3 DEF SwitchOff
  <2>2. TypedUnit(Lose(unit[u], lost))
    BY <1>1, <1>3, LoseTyped DEF SwitchOff
  <2>3. SameQueue(Lose(unit[u], lost), unit[u])
    BY <1>1 DEF Lose, SameQueue, TypedUnit, UnitType
  <2> QED BY <1>3, <2>1, <2>2, <2>3, SwitchKeeps DEF SwitchOff, faults
<1>4. ASSUME NEW u \in Unit, SwitchOn(u) PROVE IInv'
  <2> DEFINE x == [unit[u] EXCEPT !.link = TRUE]
  <2>1. TypedUnit(x) /\ SameQueue(x, unit[u])
    BY <1>1 DEF TypedUnit, UnitType, Sane, SameQueue
  <2>2. unit' = [unit EXCEPT ![u] = x]
    BY <1>4 DEF SwitchOn
  <2> HIDE DEF x
  <2> QED BY <1>4, <2>1, <2>2, SwitchKeeps DEF SwitchOn, faults
<1>5. CASE WorkerSrb
  <2>1. PICK o \in {ProcessSrbCommand(World, res)} : Settle(o, count)
    BY <1>5 DEF WorkerSrb
  <2>2. TypedOutcome(o)
    BY <1>1, ProcessSrbCommandTyped
  <2>3. IsQueue(inbox') /\ Answers' = Answers
    BY <1>1, <1>5, InboxShrinks DEF WorkerSrb
  <2> QED BY <1>1, <1>5, <2>1, <2>2, <2>3, SettleKeeps DEF WorkerSrb, faults
<1>6. CASE WorkerCompleted
  <2>1. PICK o \in {ProcessSrbCompleted(World, Head(inbox).c, count - 1)} : Settle(o, count - 1)
    BY <1>6 DEF WorkerCompleted
  <2>2. TypedOutcome(o)
    BY <1>1, ProcessSrbCompletedTyped
  <2>3. IsQueue(inbox') /\ Answers = Answers' + 1 /\ Answers' \in Nat
    BY <1>6, InboxShrinks DEF WorkerCompleted
  <2>4. count - 1 \in Nat /\ Answers' + count = Answers + (count - 1)
    BY <1>1, <2>3 DEF AnswersExpected
  <2> QED BY <1>1, <1>6, <2>1, <2>2, <2>3, <2>4, SettleKeeps DEF WorkerCompleted, faults
<1>7. ASSUME NEW w, Handled(w), Settle(Outcome(w, res, FALSE, ToNone), count),
             IsQueue(inbox'), Answers' = Answers, idle' = idle, issued' = issued, refused' = refused
      PROVE  IInv'
  <2>1. TypedOutcome(Outcome(w, res, FALSE, ToNone))
    BY <1>7, NothingSentTyped
  <2> QED BY <1>1, <1>7, <2>1, SettleKeeps
<1>8. CASE WorkerNoPnp
  <2>1. PICK w \in {UpdateRaidStatusAndOwn(World)} : Settle(Outcome(w, res, FALSE, ToNone), count)
    BY <1>8 DEF WorkerNoPnp
  <2>2. Handled(w)
    BY <1>1, UpdateOwnTyped
  <2>3. IsQueue(inbox') /\ Answers' = Answers
    BY <1>1, <1>8, InboxShrinks DEF WorkerNoPnp
  <2> QED BY <1>7, <1>8, <2>1, <2>2, <2>3 DEF WorkerNoPnp, faults
<1>9. CASE WorkerPnp
  <2>1. PICK w \in {UpdateRaidStatusAndOwn(World)} :
          \E x \in PnpHandled(w) : Settle(Outcome(x, res, FALSE, ToNone), count)
    BY <1>9 DEF WorkerPnp
  <2>2. PICK x \in PnpHandled(w) : Settle(Outcome(x, res, FALSE, ToNone), count)
    BY <2>1
  <2>3. Handled(w)
    BY <1>1, UpdateOwnTyped
  <2>4. Handled(x)
    BY <2>3, RecoveryTyped DEF PnpHandled
  <2>5. IsQueue(inbox') /\ Answers' = Answers
    BY <1>9, InboxKept DEF WorkerPnp
  <2> QED BY <1>7, <1>9, <2>2, <2>4, <2>5 DEF WorkerPnp, faults
<1>10. CASE TimedOut
  <2>1. World' = World /\ unit' = unit /\ idle' = TRUE /\ issued' = issued /\ count' = count
        /\ inbox' = inbox /\ refused' = refused
    BY <1>10 DEF TimedOut, World, faults
  <2>2. AnsweredIf(FALSE, raid.rs, res)
    BY <1>10 DEF TimedOut
  <2>3. cmd' \in {NULL} \cup Asked /\ want' \in [Block -> SUBSET Written]
    BY <2>2, AnsweredIfTyped
  <2>4. AnswersExpected' /\ IsQueue(inbox')
    BY <2>1 DEF AnswersExpected, Unanswered, Answers, IInv
  <2> QED BY <2>1, <2>3, <2>4 DEF IInv
<1>11. CASE Recover
  <2>1. PICK w \in Recovery(World) : unit' = w.unit /\ raid' = w.raid
    BY <1>11 DEF Recover
  <2>2. Handled(w)
    BY <1>1, RecoveryTyped
  <2>3. TypedWorld(World)' /\ \A u \in Unit : Unanswered(u)' = Unanswered(u)
    BY <2>1, <2>2, StoresTyped
  <2>4. cmd' = cmd /\ want' = want /\ refused' = refused
    BY <1>11 DEF Recover, command, history, faults
  <2>5. inbox' = inbox /\ count' = count /\ idle' = idle /\ issued' = issued
    BY <1>11 DEF Recover, command
  <2>6. IsQueue(inbox') /\ Answers' = Answers
    BY <2>5, InboxKept
  <2>7. AnswersExpected'
    BY <2>3, <2>5, <2>6, QueuesKept
  <2> QED BY <2>3, <2>4, <2>5, <2>6, <2>7 DEF IInv
<1>12. ASSUME NEW u \in Unit, UnitSrb(u) PROVE IInv'
  <2>1. unit[u].queue # <<>> /\ UnitStep(u, {ProcessSrb(unit[u], landed) : landed \in BOOLEAN})
    BY <1>12 DEF UnitSrb
  <2>2. \A p \in {ProcessSrb(unit[u], landed) : landed \in BOOLEAN} :
          TypedUnit(p[1]) /\ Pending(p[1]) + OneIfAny(p[2]) <= Pending(unit[u])
    BY <1>1, <2>1, ProcessSrbTyped, ProcessSrbAnswers
  <2>3. Refusals(u) \subseteq Written
    <3>1. Head(unit[u].queue) \in Request
      BY <1>1, <2>1, HeadTailProperties DEF TypedUnit, UnitType
    <3> QED BY <3>1 DEF Refusals, Request
  <2>4. refused' \in SUBSET Written
    BY <1>12, <2>3 DEF UnitSrb, IInv
  <2> QED BY <2>1, <2>2, <2>4, UnitStepKeeps
<1>13. ASSUME NEW u \in Unit, NEW late \in BOOLEAN, NEW asked \in BOOLEAN, UnitPnp(u, late, asked)
       PROVE  IInv'
  <2> DEFINE q == Broadcast(unit[u], late, asked, asked)
  <2>1. unit[u].link /\ UnitStep(u, {q})
    BY <1>13 DEF UnitPnp
  <2>2. TypedUnit(q[1]) /\ Pending(q[1]) + OneIfAny(q[2]) <= Pending(unit[u])
    BY <1>1, <2>1, BroadcastTyped
  <2> HIDE DEF q
  <2>3. \A p \in {q} : TypedUnit(p[1]) /\ Pending(p[1]) + OneIfAny(p[2]) <= Pending(unit[u])
    BY <2>2
  <2>4. refused' \in SUBSET Written
    BY <1>13 DEF UnitPnp, IInv
  <2> QED BY <2>1, <2>3, <2>4, UnitStepKeeps
<1>14. ASSUME NEW u \in Unit, UnitGone(u) PROVE IInv'
  <2>1. UnitStep(u, {Gone(unit[u])})
    BY <1>14 DEF UnitGone
  <2>2. \A p \in {Gone(unit[u])} :
          TypedUnit(p[1]) /\ Pending(p[1]) + OneIfAny(p[2]) <= Pending(unit[u])
    BY <1>1, GoneTyped, GoneAnswers
  <2>3. refused' \in SUBSET Written
    BY <1>14 DEF UnitGone, IInv
  <2> QED BY <2>1, <2>2, <2>3, UnitStepKeeps
<1>15. ASSUME NEW u \in Unit, BusRemoves(u) PROVE IInv'
  <2> DEFINE x == [unit[u] EXCEPT !.member = FALSE]
  <2>1. TypedUnit(x) /\ SameQueue(x, unit[u])
    BY <1>1 DEF TypedUnit, UnitType, Sane, SameQueue
  <2>2. ByBus(u, x) /\ inbox' = Append(inbox, [k |-> "noPnp"])
    BY <1>15 DEF BusRemoves
  <2> HIDE DEF x
  <2> QED BY <2>1, <2>2, ByBusKeeps
<1>16. ASSUME NEW u \in Unit, Appear(u) PROVE IInv'
  <2> DEFINE f == Found(unit[u])
             x == [f EXCEPT !.member = TRUE]
  <2>1. TypedUnit(f) /\ SameQueue(f, unit[u])
    BY <1>1, <1>16, FoundTyped DEF Appear, Found, SameQueue, TypedUnit, UnitType
  <2>2. ByBus(u, x) /\ inbox' = inbox
    BY <1>16 DEF Appear
  <2> HIDE DEF f
  <2>3. TypedUnit(x) /\ SameQueue(x, unit[u])
    BY <2>1 DEF TypedUnit, UnitType, Sane, SameQueue
  <2> HIDE DEF x
  <2> QED BY <2>2, <2>3, ByBusKeeps
<1>17. ASSUME NEW u \in Unit, NEW k, Falter(u, k) PROVE IInv'
  <2> DEFINE x == [unit[u] EXCEPT !.fails = @ \cup {k}]
  <2>1. TypedUnit(x) /\ SameQueue(x, unit[u])
    BY <1>1, <1>17 DEF Falter, TypedUnit, UnitType, Sane, SameQueue
  <2>2. unit' = [unit EXCEPT ![u] = x]
    BY <1>17 DEF Falter
  <2> HIDE DEF x
  <2> QED BY <1>17, <2>1, <2>2, SwitchKeeps DEF Falter
<1>18. CASE UNCHANGED vars
  BY <1>18 DEF vars, IInv, World, AnswersExpected, Unanswered, Answers
<1> QED BY <1>2, <1>3, <1>4, <1>5, <1>6, <1>8, <1>9, <1>10, <1>11, <1>12, <1>13, <1>14, <1>15,
           <1>16, <1>17, <1>18 DEF Next, Environment

LEMMA IInvAlways == Spec => []IInv
<1>1. Init => IInv
  BY InitIInv
<1>2. IInv /\ [Next]_vars => IInv'
  BY StepIInv
<1> QED BY <1>1, <1>2, PTL DEF Spec

LEMMA TypesFollow == ASSUME IInv PROVE TypeOK
BY DEF IInv, TypedWorld, TypedUnit, TypedRaid, World, UnitType, RaidType, Metadata,
       UnitStatus, ArrayStatus, SubStatus, Written, Held, Bitmap, TypeOK

(* Whatever disks are switched off and on, in whatever windows, and        *)
(* whatever I/O they refuse, the bitmap and the history of writes stay in  *)
(* bounds, the recovery stays within the array (recovery,                  *)
(* NDASRAIDUnitDevice.cpp), and the unsigned counter of commands does not  *)
(* wrap.  What a block of a disk holds is not claimed here: it may be what *)
(* the recovery's buffer held by chance.                                   *)
THEOREM MirrorTypeCorrect == Spec => []TypeOK
<1>1. IInv => TypeOK
  BY TypesFollow
<1> QED BY <1>1, IInvAlways, PTL

(* No answer reaches the worker that it does not expect, though disks are  *)
(* lost with the commands they hold and their answers may be dropped: the  *)
(* counter of outstanding commands, which is unsigned, never wraps below   *)
(* zero (NDASRAIDUnitDeviceController.cpp, workerThread).  Without Careful *)
(* it may stay too high, which is why CountMatches, not only this, is      *)
(* what the runs check.                                                    *)
THEOREM MirrorExpectsAnswers == Spec => [](AnswersExpected /\ count \in Nat)
<1>1. IInv => AnswersExpected /\ count \in Nat
  BY DEF IInv
<1> QED BY <1>1, IInvAlways, PTL
===============================================================================

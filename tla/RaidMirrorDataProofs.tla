------------------------- MODULE RaidMirrorDataProofs -------------------------
(***************************************************************************)
(* Where the data of the two disks of a mirror may differ, in each of its  *)
(* phases: only in blocks that a write under way, the history of writes or *)
(* the bitmap know of, so that a recovery copies them and ends with two    *)
(* equal disks.                                                            *)
(***************************************************************************)
EXTENDS RaidMirrorCountProofs

-----------------------------------------------------------------------------
(* The data of the disks, for a set W of writes that are under way.        *)

Writes(x) == \E i \in DOMAIN x.queue : x.queue[i].op = "write"

(* N are the values that each block may hold for the host, R those of the  *)
(* writes that a disk refused.  Disk x holds what is written, or has the   *)
(* command to write it, or refused it and holds what the block held.       *)
Has(x, c, N, R) ==
  \/ Writes(x)
  \/ x.data[c.lo] = c.val
  \/ c.val \in R /\ x.data[c.lo] \in N[c.lo]

Holds(x, N) == \A b \in Block : x.data[b] \in N[b]

(* Block b is among the last n of the history h.                           *)
Among(h, b, n) == \E j \in DOMAIN h : h[j] = b /\ Len(h) - j < n

(* A write in the cache of a disk that changed the block is as young in    *)
(* the history: it will be marked if the disk loses it.  It is so till a   *)
(* disk refuses a write, which the history has and the cache has not.      *)
Age(x, k) == Len(x.recent) - k + (IF Writes(x) THEN 2 ELSE 1)
Ages(x, h) ==
  \A k \in DOMAIN x.recent :
    LET b == x.recent[k].b
    IN b \in Blocks(h) => x.recent[k].old = x.data[b] \/ Among(h, b, Age(x, k))
Aged(x, h, R) == R = {} => Ages(x, h)

Under == IF cmd # NULL /\ cmd.op = "write" /\ ~Queued("srb") THEN {cmd} ELSE {}

At(b, W) == \E c \in W : c.lo = b
ToCopy(w, b) == w.raid.dirty /\ b \in w.raid.map /\ w.raid.sector <= b

(* The disks differ in block b, and not only because one refused a write.  *)
Differ(w, b, N, R) ==
  LET d(u) == w.unit[u].data[b]
  IN d(0) # d(1) /\ (N[b] \cap R = {} \/ d(0) \notin N[b] \/ d(1) \notin N[b])

(* After one more write the history still knows what a disk has lost.      *)
Safe(w, s, W, N, R) ==
  LET y == w.unit[Other(s)]
  IN /\ \A b \in Block : Differ(w, b, N, R) => \/ Among(w.raid.history, b, Cache)
                                              \/ (At(b, W) /\ Writes(w.unit[s]))
     /\ \A c \in W : \/ Cache # 0
                     \/ y.data[c.lo] = c.val
                     \/ c.val \in R /\ y.data[c.lo] \in N[c.lo]

InMirrored(w, s, W, N, R) ==
  LET y == w.unit[Other(s)]
      h == w.raid.history
  IN /\ \A c \in W : Among(h, c.lo, 1)
     /\ Serves(y) => /\ \A c \in W : Has(y, c, N, R)
                     /\ Aged(y, h, R) /\ Holds(y, N)
                     /\ \A b \in Block : Differ(w, b, N, R) => At(b, W)
     /\ Lost(y) => /\ \A b \in Block : Differ(w, b, N, R) => b \in Blocks(h)
                   /\ W = {} \/ (y.status = "ConnectedRW" /\ ~Writes(y)) => Safe(w, s, W, N, R)

InUnmarked(w, W, N, R) ==
  \A b \in Block : Differ(w, b, N, R) \/ At(b, W) => b \in Blocks(w.raid.history)

InDegraded(w, W, N, R) == \A b \in Block : Differ(w, b, N, R) \/ At(b, W) => b \in w.raid.map

Clean(w, b, R) == ToCopy(w, b) /\ (R = {} => b \notin Blocks(w.raid.history))

InReturned(w, s, W, N, R) ==
  LET y == w.unit[Other(s)]
  IN /\ Aged(y, w.raid.history, R)
     /\ \A b \in Block : /\ Differ(w, b, N, R) => At(b, W) \/ Clean(w, b, R)
                         /\ y.data[b] \in N[b] \/ ToCopy(w, b)
     /\ \A c \in W : Clean(w, c.lo, R) \/ Has(y, c, N, R)

Data(w, s, W, N, R) ==
  LET x == w.unit[s]
      y == w.unit[Other(s)]
      h == w.raid.history
  IN /\ \A c \in W : Has(x, c, N, R) /\ c.val \in N[c.lo]
     /\ Aged(x, h, R) /\ Holds(x, N)
     /\ Writes(x) \/ Writes(y) => \A c \in W : h = <<>> \/ Among(h, c.lo, 1)
     /\ Mirrored(w, s) => InMirrored(w, s, W, N, R)
     /\ Unmarked(w, s) => InUnmarked(w, W, N, R)
     /\ Degraded(w, s) => InDegraded(w, W, N, R)
     /\ Returned(w, s) => InReturned(w, s, W, N, R)

DataInv == \E s \in Unit : Phase(World, s) /\ Data(World, s, Under, want, refused)

CommandWanted ==
  cmd # NULL => /\ cmd.lo <= cmd.hi
                /\ cmd.op = "write" => cmd.lo = cmd.hi /\ cmd.val \in want[cmd.lo]

-----------------------------------------------------------------------------
(* The history of writes and the cache of a disk.                          *)

LEMMA AmongMore ==
  ASSUME NEW h, NEW T, h \in Seq(T), NEW b, NEW n \in Int, NEW m \in Int, n <= m, Among(h, b, n)
  PROVE  Among(h, b, m) /\ b \in Blocks(h)
<1>1. PICK j \in DOMAIN h : h[j] = b /\ Len(h) - j < n
  BY DEF Among
<1>2. j \in Int /\ Len(h) \in Int
  BY LenProperties
<1> QED BY <1>1, <1>2 DEF Among, Blocks

(* A write that is noted pushes the others back by one, and at most the    *)
(* oldest one out.                                                         *)
LEMMA Remembered ==
  ASSUME NEW h \in Seq(Block), NEW b \in Block
  PROVE  LET t == Remember(h, b)
         IN  /\ Among(t, b, 1) /\ Blocks(t) \subseteq Blocks(h) \cup {b}
             /\ \A c : \A n \in Int : Among(h, c, n) /\ c \in Blocks(t) => Among(t, c, n + 1)
             /\ \A c : Among(h, c, Cache) => c \in Blocks(t)
<1> DEFINE w == Append(h, b)
           t == Remember(h, b)
           l == Len(h)
<1>1. /\ w \in Seq(Block) /\ Len(w) = l + 1 /\ l \in Nat /\ DOMAIN h = 1 .. l /\ DOMAIN w = 1 .. l + 1
      /\ \A i \in 1 .. l : w[i] = h[i]
      /\ w[l + 1] = b
  BY AppendProperties, LenProperties
<1>2. t = IF l > Cache THEN Tail(w) ELSE w
  <2>1. Cache \in Int
    BY Numbers
  <2> HIDE DEF w, l
  <2> QED BY <1>1, <2>1 DEF Remember, w, l
<1>3. CASE ~(l > Cache)
  <2>1. t = w
    BY <1>2, <1>3
  <2> HIDE DEF t, w, l
  <2>2. ASSUME NEW c, NEW n \in Int, Among(h, c, n) PROVE Among(t, c, n + 1)
    <3>1. PICK j \in DOMAIN h : h[j] = c /\ l - j < n
      BY <2>2 DEF Among, l
    <3>2. j \in DOMAIN t /\ t[j] = c /\ Len(t) - j < n + 1
      BY <1>1, <2>1, <3>1
    <3> QED BY <3>2 DEF Among
  <2>3. Among(t, b, 1)
    BY <1>1, <2>1 DEF Among
  <2>4. Blocks(t) \subseteq Blocks(h) \cup {b}
    BY <1>1, <2>1 DEF Blocks
  <2>5. \A c : Among(h, c, Cache) => c \in Blocks(t)
    BY <1>1, <2>1 DEF Among, Blocks
  <2> QED BY <2>2, <2>3, <2>4, <2>5 DEF t
<1>4. CASE l > Cache
  <2>1. /\ t = Tail(w) /\ t \in Seq(Block) /\ Len(t) = l /\ DOMAIN t = 1 .. l
        /\ \A i \in 1 .. l : t[i] = w[i + 1]
    <3>1. w # <<>>
      BY <1>1, EmptySeq
    <3>2. t = Tail(w)
      BY <1>2, <1>4
    <3> HIDE DEF t, w, l
    <3>3. t \in Seq(Block) /\ Len(t) = Len(w) - 1 /\ \A i \in 1 .. Len(t) : t[i] = w[i + 1]
      BY <1>1, <3>1, <3>2, HeadTailProperties
    <3>4. DOMAIN t = 1 .. Len(t)
      BY <3>3, LenProperties
    <3> QED BY <1>1, <3>2, <3>3, <3>4
  <2> HIDE DEF t, w, l
  <2>2. ASSUME NEW c, NEW n \in Int, Among(h, c, n), c \in Blocks(t) PROVE Among(t, c, n + 1)
    <3>1. PICK j \in DOMAIN h : h[j] = c /\ l - j < n
      BY <2>2 DEF Among, l
    <3>2. PICK i \in DOMAIN t : t[i] = c
      BY <2>2 DEF Blocks
    <3>3. CASE j = 1
      <4>1. l - i < n + 1
        BY <1>1, <2>1, <3>1, <3>2, <3>3
      <4> QED BY <2>1, <3>2, <4>1 DEF Among
    <3>4. CASE j # 1
      <4>1. j - 1 \in 1 .. l /\ (j - 1) + 1 = j /\ l - (j - 1) < n + 1
        BY <1>1, <3>1, <3>4
      <4>2. t[j - 1] = c
        BY <1>1, <2>1, <3>1, <4>1
      <4> QED BY <2>1, <4>1, <4>2 DEF Among
    <3> QED BY <3>3, <3>4
  <2>3. Among(t, b, 1)
    <3>1. l \in 1 .. l /\ l - l < 1
      BY <1>1, <1>4, Numbers
    <3> QED BY <1>1, <2>1, <3>1 DEF Among
  <2>4. Blocks(t) \subseteq Blocks(h) \cup {b}
    <3> SUFFICES ASSUME NEW i \in DOMAIN t PROVE t[i] \in Blocks(h) \cup {b}
      BY DEF Blocks
    <3>1. i \in 1 .. l /\ t[i] = w[i + 1]
      BY <2>1
    <3>2. CASE i = l
      BY <1>1, <3>1, <3>2
    <3>3. CASE i # l
      <4>1. i + 1 \in 1 .. l
        BY <1>1, <3>1, <3>3
      <4> QED BY <1>1, <3>1, <4>1 DEF Blocks
    <3> QED BY <3>2, <3>3
  <2>5. ASSUME NEW c, Among(h, c, Cache) PROVE c \in Blocks(t)
    <3>1. PICK j \in DOMAIN h : h[j] = c /\ l - j < Cache
      BY <2>5 DEF Among, l
    <3>2. j - 1 \in 1 .. l /\ (j - 1) + 1 = j
      BY <1>1, <1>4, <3>1, Numbers
    <3> QED BY <1>1, <2>1, <3>1, <3>2 DEF Blocks
  <2> QED BY <2>2, <2>3, <2>4, <2>5 DEF t
<1> QED BY <1>3, <1>4

(* A write that the history knows, or that changes nothing, may be stored. *)
LEMMA StoredAges ==
  ASSUME NEW u, TypedUnit(u), NEW k \in Block, NEW v \in Held, NEW h, Ages(u, h),
         NEW T, h \in Seq(T),
         k \in Blocks(h) => u.data[k] = v \/ Among(h, k, 1),
         NEW x, x.data = Store(u, k, v).data, x.recent = Store(u, k, v).recent
  PROVE  Ages(x, h)
<1> DEFINE e == [b |-> k, old |-> u.data[k]]
           w == Append(u.recent, e)
           l == Len(u.recent)
           cut == IF Len(w) > Cache THEN 1 ELSE 0
           r == SubSeq(w, 1 + cut, Len(w))
           aged(y) == IF Writes(y) THEN 2 ELSE 1
<1>1. /\ u.recent \in Seq(Saved) /\ l \in Nat /\ DOMAIN u.recent = 1 .. l
      /\ u.data \in [Block -> Held] /\ e \in Saved
  BY LenProperties DEF TypedUnit, UnitType, Saved
<1>2. x.recent = r /\ x.data = [u.data EXCEPT ![k] = v]
  BY DEF Store, TypedUnit, UnitType
<1> HIDE DEF e
<1>3. /\ w \in Seq(Saved) /\ Len(w) = l + 1 /\ DOMAIN w = 1 .. l + 1
      /\ \A i \in 1 .. l : w[i] = u.recent[i]
      /\ w[l + 1] = e
  BY <1>1, AppendProperties, LenProperties
<1>4. cut \in {0, 1}
  OBVIOUS
<1>5. /\ Len(r) = l + 1 - cut /\ DOMAIN r = 1 .. l + 1 - cut
      /\ \A i \in 1 .. l + 1 - cut : r[i] = w[i + cut]
  <2> HIDE DEF w, cut, l
  <2>1. 1 + cut \in Int /\ Len(w) \in Int /\ \A i \in 1 + cut .. Len(w) : w[i] \in Saved
    BY <1>1, <1>3, <1>4
  <2>2. /\ r \in Seq(Saved)
        /\ Len(r) = IF 1 + cut <= Len(w) THEN Len(w) - (1 + cut) + 1 ELSE 0
        /\ \A i \in 1 .. Len(w) - (1 + cut) + 1 : r[i] = w[(1 + cut) + i - 1]
    BY <2>1, SubSeqProperties
  <2> HIDE DEF r
  <2>3. Len(r) = l + 1 - cut
    BY <1>1, <1>3, <1>4, <2>2
  <2>4. DOMAIN r = 1 .. Len(r)
    BY <2>2, LenProperties
  <2>5. ASSUME NEW i \in 1 .. l + 1 - cut PROVE r[i] = w[i + cut]
    <3>1. i \in 1 .. Len(w) - (1 + cut) + 1 /\ (1 + cut) + i - 1 = i + cut
      BY <1>1, <1>3, <1>4
    <3> QED BY <2>2, <3>1
  <2> QED BY <2>3, <2>4, <2>5
<1> HIDE DEF r, w, cut, l
<1> SUFFICES ASSUME NEW i \in DOMAIN x.recent, x.recent[i].b \in Blocks(h)
             PROVE  \/ x.recent[i].old = x.data[x.recent[i].b]
                    \/ Among(h, x.recent[i].b, Age(x, i))
  BY DEF Ages
<1> DEFINE b == x.recent[i].b
<1>6. /\ i \in Int /\ 1 <= i /\ i <= l + 1 - cut /\ x.recent[i] = w[i + cut]
      /\ Age(x, i) = (l + 1 - cut) - i + aged(x)
  BY <1>2, <1>5 DEF Age
<1>7. aged(x) \in {1, 2} /\ aged(u) \in {1, 2}
  OBVIOUS
<1>8. Age(x, i) \in Int /\ 1 <= Age(x, i)
  <2> HIDE DEF aged
  <2> QED BY <1>1, <1>4, <1>6, <1>7
<1>9. CASE i + cut = l + 1
  <2>1. b = k /\ x.recent[i].old = u.data[k]
    BY <1>3, <1>6, <1>9 DEF e
  <2>2. u.data[k] = v => x.recent[i].old = x.data[b]
    BY <1>1, <1>2, <2>1
  <2>3. Among(h, k, 1) => Among(h, b, Age(x, i))
    BY <1>8, <2>1, AmongMore
  <2> QED BY <2>1, <2>2, <2>3
<1>10. CASE i + cut # l + 1
  <2> DEFINE j == i + cut
  <2>1. j \in 1 .. l /\ x.recent[i] = u.recent[j]
    BY <1>1, <1>3, <1>4, <1>6, <1>10
  <2>2. Age(u, j) = l - j + aged(u)
    BY DEF Age, l
  <2>3. Age(u, j) \in Int /\ Age(u, j) <= Age(x, i)
    <3> HIDE DEF aged
    <3> QED BY <1>1, <1>4, <1>6, <1>7, <2>1, <2>2
  <2>4. u.recent[j].old = u.data[b] \/ Among(h, b, Age(u, j))
    BY <1>1, <2>1 DEF Ages
  <2>5. u.recent[j] \in Saved /\ b \in Block
    <3>1. u.recent[j] \in Saved
      BY <1>1, <2>1, ElementOfSeq
    <3> QED BY <2>1, <3>1 DEF Saved
  <2> HIDE DEF j
  <2>6. CASE Among(h, b, Age(u, j))
    BY <1>8, <2>3, <2>6, AmongMore
  <2>7. CASE u.recent[j].old = u.data[b]
    <3>1. CASE b # k \/ u.data[k] = v
      BY <1>1, <1>2, <2>1, <2>5, <2>7, <3>1
    <3>2. CASE b = k /\ u.data[k] # v
      BY <1>8, <3>2, AmongMore
    <3> QED BY <3>1, <3>2
  <2> QED BY <2>4, <2>6, <2>7
<1> QED BY <1>9, <1>10

-----------------------------------------------------------------------------
(* From phase to phase.                                                    *)

LEMMA PhaseByRating ==
  ASSUME NEW w, NEW s \in Unit, Phase(w, s)
  PROVE  /\ Mirrored(w, s) <=> w.raid.rs = "Good"
         /\ Unmarked(w, s) <=> w.raid.rs = "GoodButPartiallyFailed"
         /\ Degraded(w, s) <=> w.raid.rs = "BrokenButWorkable"
         /\ Returned(w, s) <=> w.raid.rs \in {"ReadyToRecovery", "Recovering"}
BY DEF Phase, Mirrored, Unmarked, Degraded, Returned

(* In which phase a mirror is can be told from either disk that serves.    *)
LEMMA ServesInPhase ==
  ASSUME NEW w, TypedWorld(w), NEW s \in Unit, NEW t \in Unit, Phase(w, t), Serves(w.unit[s]),
         w.raid.sub[s] = "Good"
  PROVE  Phase(w, s)
<1>1. CASE s = t
  BY <1>1
<1>2. CASE s # t
  <2>1. s = Other(t) /\ t = Other(s)
    BY <1>2, TheOther
  <2>2. Mirrored(w, t)
    BY <2>1 DEF Phase, Unmarked, Degraded, Returned
  <2>3. Pending(w.unit[t]) <= 1 /\ Pending(w.unit[s]) <= 1
    BY <2>1, <2>2 DEF Phase, Mirrored, Tidy, Serves, Lost, Is
  <2>4. Serves(w.unit[t]) /\ w.raid.sub[t] = "Good" /\ w.raid.status = "ConnectedRW"
    BY DEF Phase
  <2>5. Mirrored(w, s)
    BY <2>1, <2>2, <2>3, <2>4 DEF Mirrored
  <2>6. Tidy(w.unit[t])
    BY <2>3, <2>4 DEF Tidy, Serves, Is
  <2>7. Labelled(w, s)
    <3>1. w.unit[s].mem.usn = w.unit[t].mem.usn /\ ~w.raid.dirty
      BY <2>1, <2>2, LevelOf DEF Mirrored
    <3>2. Labelled(w, t)
      BY DEF Phase
    <3> DEFINE a == w.unit[t].mem
               z == w.unit[s].mem
    <3>3. /\ w.unit[t].rmd = a /\ w.unit[s].rmd = z /\ a.degraded = w.raid.dirty /\ ~z.degraded
          /\ a.notSynced = {} /\ (z.notSynced = a.notSynced \/ z.notSynced = {})
      BY <2>1, <3>1, <3>2 DEF Labelled
    <3>4. z.degraded = w.raid.dirty
      <4>1. z \in Metadata /\ w.raid.dirty \in BOOLEAN
        BY DEF TypedWorld, TypedUnit, UnitType, RaidType
      <4>2. z.degraded \in BOOLEAN
        BY <4>1 DEF Metadata
      <4> QED BY <3>1, <3>3, <4>1, <4>2
    <3> QED BY <2>1, <3>1, <3>3, <3>4 DEF Labelled
  <2> QED BY <2>1, <2>3, <2>4, <2>5, <2>6, <2>7 DEF Phase
<1> QED BY <1>1, <1>2

(* The blocks, caches and notes of v are those of w.                       *)
SameStock(x, y) == x.data = y.data /\ x.recent = y.recent /\ (Writes(x) <=> Writes(y))

SameData(v, w) ==
  /\ \A u \in Unit : SameStock(v.unit[u], w.unit[u])
  /\ v.raid.history = w.raid.history /\ v.raid.map = w.raid.map
  /\ v.raid.dirty = w.raid.dirty /\ v.raid.sector = w.raid.sector

(* The phase that v is in may follow that of w, unless a disk is lost or   *)
(* copied.                                                                 *)
Leads(w, v, s) ==
  LET y == w.unit[Other(s)]
      z == v.unit[Other(s)]
  IN /\ Mirrored(v, s) => /\ Mirrored(w, s)
                          /\ Serves(z) => Serves(y)
                          /\ Lost(z) => Lost(y)
                          /\ z.status = "ConnectedRW" => y.status = "ConnectedRW"
     /\ Unmarked(v, s) => Unmarked(w, s) \/ (Mirrored(w, s) /\ Lost(y))
     /\ Degraded(v, s) => Degraded(w, s)
     /\ Returned(v, s) => Returned(w, s) \/ Degraded(w, s)

LEMMA StockKept ==
  ASSUME NEW x, NEW y, SameStock(x, y), NEW h, NEW N, NEW R
  PROVE  /\ Ages(y, h) => Ages(x, h)
         /\ Aged(y, h, R) => Aged(x, h, R)
         /\ \A c : Has(y, c, N, R) => Has(x, c, N, R)
<1>1. \A k : Age(x, k) = Age(y, k)
  BY DEF SameStock, Age
<1> QED BY <1>1 DEF SameStock, Ages, Aged, Has

LEMMA DataKept ==
  ASSUME NEW w, TypedWorld(w), NEW s \in Unit, NEW N, NEW R, NEW W, \A c \in W : c.lo \in Block, Data(w, s, W, N, R),
         NEW v, SameData(v, w), Leads(w, v, s)
  PROVE  Data(v, s, W, N, R)
<1> DEFINE f == Other(s)
           x == w.unit[s]
           y == w.unit[f]
           h == w.raid.history
<1>1. f \in Unit /\ SameStock(v.unit[s], x) /\ SameStock(v.unit[f], y) /\ v.raid.history = h
  BY TheOther DEF SameData
<1>2. \A b : (Differ(v, b, N, R) <=> Differ(w, b, N, R)) /\ (ToCopy(v, b) <=> ToCopy(w, b))
  <2>1. 0 \in Unit /\ 1 \in Unit
    BY DEF Unit
  <2> QED BY <2>1 DEF SameData, SameStock, Differ, ToCopy
<1>3. h \in Seq(Block)
  BY DEF TypedWorld, RaidType
<1>4. /\ \A c \in W : Has(v.unit[s], c, N, R)
      /\ \A c \in W : c.val \in N[c.lo]
      /\ Aged(v.unit[s], h, R) /\ Holds(v.unit[s], N)
      /\ Writes(v.unit[s]) \/ Writes(v.unit[f]) => \A c \in W : h = <<>> \/ Among(h, c.lo, 1)
  BY <1>1, StockKept DEF Data, SameStock, Holds
<1>5. \A c : Among(h, c, 1) => c \in Blocks(h)
  BY <1>3, AmongMore
<1>6. Mirrored(v, s) => InMirrored(v, s, W, N, R)
  <2> SUFFICES ASSUME Mirrored(v, s) PROVE InMirrored(v, s, W, N, R)
    OBVIOUS
  <2>1. /\ InMirrored(w, s, W, N, R)
        /\ Serves(v.unit[f]) => Serves(y)
        /\ Lost(v.unit[f]) => Lost(y)
        /\ v.unit[f].status = "ConnectedRW" => y.status = "ConnectedRW"
    BY DEF Leads, Data
  <2>2. Safe(w, s, W, N, R) => Safe(v, s, W, N, R)
    BY <1>1, <1>2 DEF Safe, SameStock
  <2> QED BY <1>1, <1>2, <2>1, <2>2, StockKept DEF InMirrored, SameStock, Holds
<1>7. Unmarked(v, s) => InUnmarked(v, W, N, R)
  <2>1. Unmarked(w, s) => InUnmarked(w, W, N, R)
    BY DEF Data
  <2>2. Mirrored(w, s) /\ Lost(y) => InUnmarked(w, W, N, R)
    BY <1>5 DEF Data, InMirrored, InUnmarked, At
  <2>3. InUnmarked(w, W, N, R) => InUnmarked(v, W, N, R)
    BY <1>1, <1>2 DEF InUnmarked
  <2> QED BY <2>1, <2>2, <2>3 DEF Leads
<1>8. Degraded(v, s) => InDegraded(v, W, N, R)
  BY <1>2 DEF Leads, Data, InDegraded, SameData
<1>9. Returned(v, s) => InReturned(v, s, W, N, R)
  <2>1. Returned(w, s) => InReturned(w, s, W, N, R)
    BY DEF Data
  <2>2. Degraded(w, s) => InReturned(w, s, W, N, R)
    <3> SUFFICES ASSUME Degraded(w, s) PROVE InReturned(w, s, W, N, R)
      OBVIOUS
    <3>1. h = <<>> /\ w.raid.dirty /\ w.raid.sector = 0 /\ InDegraded(w, W, N, R)
      BY DEF Degraded, Data
    <3>2. Blocks(h) = {}
      BY <3>1 DEF Blocks
    <3>3. \A b \in Block : 0 <= b
      BY Numbers
    <3>4. \A b \in Block : Differ(w, b, N, R) \/ At(b, W) => ToCopy(w, b)
      BY <3>1, <3>3 DEF InDegraded, ToCopy
    <3>5. Aged(y, h, R)
      BY <3>2 DEF Ages, Aged
    <3>6. \A c \in W : ToCopy(w, c.lo)
      BY <3>4 DEF At
    <3>7. ASSUME NEW b \in Block, y.data[b] \notin N[b] PROVE Differ(w, b, N, R)
      <4>1. x.data[b] \in N[b]
        BY DEF Data, Holds
      <4> QED BY <1>1, <3>7, <4>1, TheOther DEF Differ, Unit
    <3> QED BY <3>2, <3>4, <3>5, <3>6, <3>7 DEF InReturned, Clean
  <2>3. InReturned(w, s, W, N, R) => InReturned(v, s, W, N, R)
    BY <1>1, <1>2, StockKept DEF InReturned, Clean, SameStock
  <2> QED BY <2>1, <2>2, <2>3 DEF Leads
<1> QED BY <1>1, <1>4, <1>6, <1>7, <1>8, <1>9 DEF Data

(* How the status of the array goes on from a to b, unless a loss is noted *)
(* or a recovery ends.                                                     *)
Goes(a, b) ==
  /\ b = "Good" => a = "Good"
  /\ b = "GoodButPartiallyFailed" => a \in {"Good", "GoodButPartiallyFailed"}
  /\ b = "BrokenButWorkable" => a = "BrokenButWorkable"
  /\ b \in {"ReadyToRecovery", "Recovering"} =>
       a \in {"BrokenButWorkable", "ReadyToRecovery", "Recovering"}

(* A disk that was lost is not connected again, nor one that was not lost. *)
AsLost(z, y) == z.link = y.link /\ (z.status = "ConnectedRW" => y.link \/ y.status = "ConnectedRW")

LEMMA DataGoesOn ==
  ASSUME NEW w, TypedWorld(w), NEW s \in Unit, Phase(w, s), NEW N, NEW R, NEW W, \A c \in W : c.lo \in Block,
         Data(w, s, W, N, R), NEW v, SameData(v, w), Phase(v, s), Goes(w.raid.rs, v.raid.rs),
         v.raid.rs \in {"Good", "GoodButPartiallyFailed"} => AsLost(v.unit[Other(s)], w.unit[Other(s)])
  PROVE  Data(v, s, W, N, R)
<1> DEFINE y == w.unit[Other(s)]
           z == v.unit[Other(s)]
<1>0. Mirrored(v, s) \/ Unmarked(v, s) =>
        z.link = y.link /\ (z.status = "ConnectedRW" => y.link \/ y.status = "ConnectedRW")
  BY DEF Mirrored, Unmarked, AsLost
<1>1. /\ Mirrored(v, s) => Mirrored(w, s)
      /\ Unmarked(v, s) => Unmarked(w, s) \/ Mirrored(w, s)
      /\ Degraded(v, s) => Degraded(w, s)
      /\ Returned(v, s) => Returned(w, s) \/ Degraded(w, s)
  BY PhaseByRating DEF Goes
<1>2. Mirrored(w, s) => IF y.link THEN Serves(y) ELSE Lost(y)
  BY DEF Mirrored, Serves, Lost
<1>3. Serves(y) => y.status = "ConnectedRW"
  BY DEF Serves, Is
<1>4. Mirrored(v, s) => /\ Serves(z) => Serves(y)
                        /\ Lost(z) => Lost(y)
                        /\ z.status = "ConnectedRW" => y.status = "ConnectedRW"
  <2>1. Serves(z) => z.link
    BY DEF Serves
  <2>2. Lost(z) => ~z.link
    BY DEF Lost
  <2> QED BY <1>0, <1>1, <1>2, <1>3, <2>1, <2>2
<1>5. Unmarked(v, s) => ~y.link
  BY <1>0 DEF Unmarked
<1>6. Leads(w, v, s)
  BY <1>1, <1>2, <1>4, <1>5 DEF Leads
<1> QED BY <1>6, DataKept

(* A new rating of the array by the status of its disks goes on from the   *)
(* one before.                                                             *)
LEMMA UpdateGoes ==
  ASSUME Willing, NEW w, Handled(w), NEW s \in Unit, Phase(w, s), NEW v, SameButStatus(v, w), Phase(v, s),
         v.raid.rs = UpdateRAIDStatus(w).raid.rs
  PROVE  Goes(w.raid.rs, v.raid.rs)
<1> DEFINE u == UpdateRAIDStatus(w)
<1> HIDE DEF u
<1>1. /\ u.raid.rs = "Good" => w.raid.rs = "Good"
      /\ u.raid.rs = "GoodButPartiallyFailed" => w.raid.rs \in {"Good", "GoodButPartiallyFailed"}
      /\ u.raid.rs = "BrokenButWorkable" => w.raid.rs = "BrokenButWorkable"
      /\ u.raid.rs = "ReadyToRecovery" =>
           w.raid.rs \in {"BrokenButWorkable", "ReadyToRecovery", "Recovering"}
      /\ u.raid.rs = "Recovering" => w.raid.inRecovery
  BY Rated DEF u
<1>2. v.raid.rs = u.raid.rs
  BY DEF u
<1>3. u.raid.rs = "Recovering" => w.raid.rs \in {"BrokenButWorkable", "ReadyToRecovery", "Recovering"}
  <2> SUFFICES ASSUME v.raid.rs = "Recovering"
               PROVE  w.raid.rs \in {"BrokenButWorkable", "ReadyToRecovery", "Recovering"}
    BY <1>2
  <2>1. Returned(v, s)
    BY PhaseByRating
  <2>2. v.unit = w.unit /\ v.raid.dirty = w.raid.dirty
    BY DEF SameButStatus, SameArray
  <2>3. w.raid.dirty
    BY <2>1, <2>2 DEF Returned
  <2> QED BY <2>3 DEF Phase, Mirrored, Unmarked, Degraded, Returned
<1> QED BY <1>1, <1>2, <1>3 DEF Goes

(* The status is brought up to date, and the loss of a disk is noted.      *)
LEMMA DataUpdated ==
  ASSUME Willing, NEW w, Handled(w), NEW s \in Unit, Phase(w, s), NEW N, NEW R, NEW W, \A c \in W : c.lo \in Block,
         Data(w, s, W, N, R), NEW v, SameButStatus(v, w), Phase(v, s),
         v.raid.rs = UpdateRAIDStatus(w).raid.rs
  PROVE  Data(v, s, W, N, R)
<1>1. Goes(w.raid.rs, v.raid.rs)
  BY UpdateGoes
<1>2. SameData(v, w) /\ v.unit = w.unit
  BY DEF SameButStatus, SameArray, SameData, SameStock
<1>3. TypedWorld(w)
  BY DEF Handled
<1>4. AsLost(v.unit[Other(s)], w.unit[Other(s)])
  BY <1>2 DEF AsLost
<1> QED BY <1>1, <1>2, <1>3, <1>4, DataGoesOn

LEMMA DataNoted ==
  ASSUME Willing, NEW w, Handled(w), NEW s \in Unit, Phase(w, s), NEW N, NEW R, NEW W, \A c \in W : c.lo \in Block,
         Data(w, s, W, N, R)
  PROVE  LET v == AfterCommand(w)
         IN  /\ Handled(v) /\ Phase(v, s) /\ Data(v, s, W, N, R)
             /\ \A u \in Unit : Untouched(v.unit[u], w.unit[u])
             /\ w.raid.dirty => v.raid.dirty
             /\ v.raid.rs # "GoodButPartiallyFailed" => w.raid.rs = "GoodButPartiallyFailed" \/ v = w
<1> DEFINE v == AfterCommand(w)
           f == Other(s)
<1>1. /\ Handled(v) /\ Phase(v, s)
      /\ v.unit[f] = w.unit[f] /\ Untouched(v.unit[s], w.unit[s])
      /\ IF w.raid.rs = "GoodButPartiallyFailed" THEN Degraded(v, s) ELSE v = w
  BY LossIsNoted
<1>2. f \in Unit /\ Unit = {s, f}
  BY TheOther
<1>3. \A u \in Unit : Untouched(v.unit[u], w.unit[u])
  <2> HIDE DEF v
  <2>1. Untouched(w.unit[f], w.unit[f])
    BY DEF Untouched, SameQueue
  <2> QED BY <1>1, <1>2, <2>1
<1>4. CASE w.raid.rs = "GoodButPartiallyFailed"
  <2>1. Unmarked(w, s)
    BY <1>4, PhaseByRating
  <2>2. Blocks(w.raid.history) \subseteq v.raid.map
    BY <2>1, LossNoted
  <2> HIDE DEF v
  <2>3. Degraded(v, s) /\ v.raid.history = <<>> /\ v.raid.dirty
    BY <1>1, <1>4 DEF Degraded
  <2>4. \A u \in Unit : SameStock(v.unit[u], w.unit[u])
    BY <1>3 DEF Untouched, SameQueue, SameStock, Writes
  <2>5. (\A c \in W : Has(v.unit[s], c, N, R) /\ c.val \in N[c.lo]) /\ Holds(v.unit[s], N)
    BY <2>4, StockKept DEF Data, SameStock, Holds
  <2>6. Aged(v.unit[s], <<>>, R)
    BY DEF Ages, Aged, Blocks
  <2>7. InDegraded(v, W, N, R)
    <3>1. 0 \in Unit /\ 1 \in Unit
      BY DEF Unit
    <3>2. \A b : Differ(v, b, N, R) <=> Differ(w, b, N, R)
      BY <2>4, <3>1 DEF Differ, SameStock
    <3>3. InUnmarked(w, W, N, R)
      BY <2>1 DEF Data
    <3> QED BY <2>2, <3>2, <3>3 DEF InDegraded, InUnmarked
  <2>8. ~Mirrored(v, s) /\ ~Unmarked(v, s) /\ ~Returned(v, s)
    BY <2>3 DEF Degraded, Mirrored, Unmarked, Returned
  <2>9. Data(v, s, W, N, R)
    BY <2>3, <2>5, <2>6, <2>7, <2>8 DEF Data
  <2> QED BY <1>1, <1>3, <1>4, <2>3, <2>9 DEF v
<1>5. CASE w.raid.rs # "GoodButPartiallyFailed"
  BY <1>1, <1>3, <1>5
<1> QED BY <1>4, <1>5

(* What a block holds for the host once the command is answered.           *)
WantSettled ==
  \/ want' = want
  \/ /\ cmd.op = "write" /\ cmd.val \notin refused
     /\ want' = [want EXCEPT ![cmd.lo] = {cmd.val}]

(* What a handler of the worker leaves takes effect: the mirror stays in   *)
(* its phase, and the disks have the writes that it sent.                  *)
LEMMA SettledWorld ==
  ASSUME Willing, IInv', PhaseInv', NEW o, TypedOutcome(o), NEW n, Settle(o, n), NEW s \in Unit, Phase(o.w, s)
  PROVE  LET w == AfterCommand(o.w)
         IN  /\ Handled(w) /\ Phase(w, s) /\ Phase(World', s)
             /\ TypedWorld(World') /\ World'.raid = w.raid
             /\ \A u \in Unit : LET x == World'.unit[u]
                                    y == w.unit[u]
                                IN /\ x.data = y.data /\ x.recent = y.recent
                                   /\ x.status = y.status /\ x.link = y.link
                                   /\ Writes(x) <=> Writes(y) \/ (o.to[u] # NULL /\ o.to[u].op = "write")
             /\ IF cmd # NULL /\ o.fin THEN cmd' = NULL /\ WantSettled ELSE cmd' = cmd /\ want' = want
<1> DEFINE w == AfterCommand(o.w)
           sent == {u \in Unit : o.to[u] # NULL}
           U == [u \in Unit |-> IF u \in sent THEN [w.unit[u] EXCEPT !.queue = Append(@, o.to[u])]
                                             ELSE w.unit[u]]
<1>1. Handled(o.w) /\ \A u \in Unit : o.to[u] \in {NULL} \cup Request
  BY DEF TypedOutcome
<1>2. Handled(w) /\ Phase(w, s)
  BY <1>1, LossIsNoted
<1>3. unit' = U /\ raid' = w.raid /\ AnsweredIf(o.fin, w.raid.rs, o.res)
  BY DEF Settle
<1> HIDE DEF w
<1>4. World'.unit = U /\ World'.raid = w.raid
  BY <1>3 DEF World
<1>5. TypedWorld(World')
  BY DEF IInv
<1>6. ASSUME NEW u \in Unit
      PROVE  LET x == U[u]
                 y == w.unit[u]
             IN  /\ x.data = y.data /\ x.recent = y.recent /\ x.sess = y.sess /\ x.member = y.member
                 /\ x.status = y.status /\ x.link = y.link /\ x.pend = y.pend
                 /\ Writes(x) <=> Writes(y) \/ (o.to[u] # NULL /\ o.to[u].op = "write")
  <2> DEFINE y == w.unit[u]
             e == o.to[u]
  <2>1. TypedUnit(y)
    BY <1>2 DEF Handled, TypedWorld
  <2>2. CASE e = NULL
    BY <2>2
  <2>3. CASE e # NULL
    <3> DEFINE q == Append(y.queue, e)
    <3>1. U[u] = [y EXCEPT !.queue = q]
      BY <2>3
    <3>2. IsQueue(y.queue)
      BY <2>1, QueueOf
    <3>3. /\ \A i \in DOMAIN y.queue : i \in DOMAIN q /\ q[i] = y.queue[i]
          /\ \A i \in DOMAIN q : i \in DOMAIN y.queue \/ (i = Len(y.queue) + 1 /\ q[i] = e)
          /\ Len(y.queue) + 1 \in DOMAIN q /\ q[Len(y.queue) + 1] = e
      <4> HIDE DEF y, e
      <4> QED BY <3>2, Appended
    <3> HIDE DEF q, U, e
    <3>4. U[u].queue = q
      BY <2>1, <3>1 DEF TypedUnit, UnitType
    <3>5. Writes(U[u]) <=> Writes(y) \/ e.op = "write"
      BY <3>3, <3>4 DEF Writes
    <3> QED BY <2>1, <2>3, <3>1, <3>5 DEF TypedUnit, UnitType, e
  <2> QED BY <2>2, <2>3
<1> HIDE DEF U, sent
<1>7. Phase(World', s)
  <2> DEFINE v == World'
  <2>1. v.raid = w.raid /\ v.unit = U /\ TypedWorld(v)
    BY <1>4, <1>5
  <2>2. PICK t \in Unit : Phase(v, t)
    BY DEF PhaseInv
  <2> HIDE DEF v
  <2>3. Serves(v.unit[s]) /\ v.raid.sub[s] = "Good"
    BY <1>2, <1>6, <2>1 DEF Phase, Serves, Is
  <2>4. Phase(v, s)
    BY <2>1, <2>2, <2>3, ServesInPhase
  <2> QED BY <2>4 DEF v
<1>8. IF cmd # NULL /\ o.fin THEN cmd' = NULL /\ WantSettled ELSE cmd' = cmd /\ want' = want
  <2>1. w.raid.rs # "Broken"
    BY <1>2 DEF Phase, Mirrored, Unmarked, Degraded, Returned
  <2> QED BY <1>3, <2>1 DEF AnsweredIf, Answered, WantSettled
<1> QED BY <1>2, <1>4, <1>5, <1>6, <1>7, <1>8 DEF w

(* A handler that sends no write.                                          *)
LEMMA DataSettled ==
  ASSUME Willing, IInv', PhaseInv', NEW o, TypedOutcome(o), NEW n, Settle(o, n), NEW s \in Unit, Phase(o.w, s),
         NEW N, NEW R, NEW W, \A c \in W : c.lo \in Block, Data(o.w, s, W, N, R),
         \A u \in Unit : o.to[u] # NULL => o.to[u].op # "write"
  PROVE  /\ Phase(World', s) /\ Data(World', s, W, N, R)
         /\ o.w.raid.dirty => raid'.dirty
<1> DEFINE w == AfterCommand(o.w)
           v == World'
           f == Other(s)
<1>1. Handled(o.w)
  BY DEF TypedOutcome
<1>2. Handled(w) /\ Phase(w, s) /\ Data(w, s, W, N, R) /\ (o.w.raid.dirty => w.raid.dirty)
  BY <1>1, DataNoted
<1>3. Phase(v, s) /\ v.raid = w.raid
  BY SettledWorld
<1>4. \A u \in Unit : /\ SameStock(v.unit[u], w.unit[u]) /\ v.unit[u].link = w.unit[u].link
                      /\ v.unit[u].status = w.unit[u].status
  BY SettledWorld DEF SameStock
<1>5. v.raid.dirty <=> raid'.dirty
  BY DEF World
<1> HIDE DEF w, v
<1>6. SameData(v, w)
  BY <1>3, <1>4 DEF SameData
<1>7. Goes(w.raid.rs, v.raid.rs)
  BY <1>3 DEF Goes
<1>8. TypedWorld(w) /\ f \in Unit
  BY <1>2, TheOther DEF Handled
<1>9. Data(v, s, W, N, R)
  <2>1. AsLost(v.unit[f], w.unit[f])
    BY <1>4, <1>8 DEF AsLost
  <2> QED BY <1>2, <1>3, <1>6, <1>7, <1>8, <2>1, DataGoesOn
<1> QED BY <1>2, <1>3, <1>5, <1>9 DEF v

-----------------------------------------------------------------------------
(* The steps that leave the blocks, the caches and the notes as they are.  *)

(* The mirror stays dirty until a recovery is done.                        *)
StaysDirty == raid.dirty => raid'.dirty \/ raid'.rs = "ReadyToRecovery"

LEMMA UnderIsAsked == ASSUME IInv PROVE \A c \in Under : c \in Asked /\ c.lo \in Block
BY DEF Under, IInv, Asked

LEMMA UnderKept ==
  ASSUME cmd' = cmd, Queued("srb")' <=> Queued("srb")
  PROVE  Under' = Under
BY DEF Under

LEMMA PhaseKept ==
  ASSUME IInv', CInv', NEW s \in Unit, Serves(unit'[s]), raid'.sub[s] = "Good"
  PROVE  Phase(World', s) /\ TypedWorld(World')
<1> DEFINE v == World'
<1>1. v.unit = unit' /\ v.raid = raid' /\ TypedWorld(v) /\ \E t \in Unit : Phase(v, t)
  BY DEF World, IInv, CInv, PhaseInv
<1> HIDE DEF v
<1>2. Phase(v, s)
  BY <1>1, ServesInPhase
<1> QED BY <1>1, <1>2 DEF v

(* A step that changes neither the array nor what the disks store.         *)
LEMMA StoresKept ==
  ASSUME IInv, IInv', CInv', NEW s \in Unit, Phase(World, s), Data(World, s, Under, want, refused),
         raid' = raid, want' = want, refused' = refused, Under' = Under, \A u \in Unit : SameStock(unit'[u], unit[u]),
         Serves(unit'[s]),
         raid.rs \in {"Good", "GoodButPartiallyFailed"} => AsLost(unit'[Other(s)], unit[Other(s)])
  PROVE  DataInv' /\ StaysDirty
<1> DEFINE v == World'
           w == World
<1>1. v.unit = unit' /\ v.raid = raid' /\ w.unit = unit /\ w.raid = raid /\ TypedWorld(w)
  BY DEF World, IInv
<1>2. Phase(v, s)
  <2>1. raid'.sub[s] = "Good"
    BY <1>1 DEF Phase
  <2> QED BY <2>1, PhaseKept
<1>3. \A c \in Under : c.lo \in Block
  BY UnderIsAsked
<1> HIDE DEF v, w
<1>4. SameData(v, w) /\ Goes(w.raid.rs, v.raid.rs)
  BY <1>1 DEF SameData, Goes
<1>5. Data(v, s, Under, want, refused)
  BY <1>1, <1>2, <1>3, <1>4, DataGoesOn DEF w
<1> QED BY <1>2, <1>5 DEF DataInv, StaysDirty, v

-----------------------------------------------------------------------------
(* The host, the pause of the worker, and the threads of the disks.        *)

(* The host may find more in a block: the disks differ nowhere else.       *)
LEMMA DataWidened ==
  ASSUME NEW w, NEW s \in Unit, NEW N, NEW R, Data(w, s, {}, N, R),
         NEW M, \A b \in Block : N[b] \subseteq M[b]
  PROVE  Data(w, s, {}, M, R)
<1>1. \A b \in Block : Differ(w, b, M, R) => Differ(w, b, N, R)
  BY DEF Differ
<1>2. \A u \in Unit : Holds(w.unit[u], N) => Holds(w.unit[u], M)
  BY DEF Holds
<1>3. Other(s) \in Unit
  BY TheOther
<1>4. Safe(w, s, {}, N, R) => Safe(w, s, {}, M, R)
  BY <1>1 DEF Safe
<1>5. Mirrored(w, s) => InMirrored(w, s, {}, M, R)
  BY <1>1, <1>2, <1>3, <1>4 DEF Data, InMirrored
<1>6. Unmarked(w, s) => InUnmarked(w, {}, M, R)
  BY <1>1 DEF Data, InUnmarked
<1>7. Degraded(w, s) => InDegraded(w, {}, M, R)
  BY <1>1 DEF Data, InDegraded
<1>8. Returned(w, s) => InReturned(w, s, {}, M, R)
  BY <1>1 DEF Data, InReturned
<1> QED BY <1>2, <1>5, <1>6, <1>7, <1>8 DEF Data

LEMMA IssueKeepsData ==
  ASSUME IInv, DataInv, NEW op, NEW lo, NEW hi, Issue(op, lo, hi)
  PROVE  DataInv' /\ StaysDirty
<1> DEFINE e == [k |-> "srb"]
<1>1. World' = World /\ raid' = raid /\ cmd = NULL /\ inbox' = Append(inbox, e)
  BY DEF Issue, World
<1>2. Queued("srb")'
  <2>1. Len(inbox) + 1 \in DOMAIN inbox' /\ inbox'[Len(inbox) + 1] = e
    BY <1>1, Appended DEF IInv
  <2> QED BY <2>1 DEF Queued
<1>3. Under = {} /\ Under' = {}
  BY <1>1, <1>2 DEF Under
<1>4. refused' = refused /\ \A b \in Block : want[b] \subseteq want'[b]
  BY DEF Issue, faults, IInv
<1>5. PICK s \in Unit : Phase(World, s) /\ Data(World, s, {}, want, refused)
  BY <1>3 DEF DataInv
<1> DEFINE w == World
           N == want
           M == want'
           R == refused
<1>6. Data(w, s, {}, N, R) /\ \A b \in Block : N[b] \subseteq M[b]
  BY <1>4, <1>5
<1> HIDE DEF w, N, M, R
<1>7. Data(w, s, {}, M, R)
  BY <1>6, DataWidened
<1> QED BY <1>1, <1>3, <1>4, <1>5, <1>7 DEF DataInv, StaysDirty, w, M, R

LEMMA TimedOutKeepsData ==
  ASSUME CInv, DataInv, TimedOut
  PROVE  DataInv' /\ StaysDirty
<1>1. raid.rs # "Broken"
  BY DEF CInv, PhaseInv, Phase, Mirrored, Unmarked, Degraded, Returned, World
<1>2. World' = World /\ raid' = raid /\ cmd' = cmd /\ inbox' = inbox
      /\ want' = want /\ refused' = refused
  BY <1>1 DEF TimedOut, AnsweredIf, World, faults
<1>3. Under' = Under
  BY <1>2 DEF Under, Queued
<1> QED BY <1>2, <1>3 DEF DataInv, StaysDirty

(* The thread of a disk answers: the command in progress stays with the    *)
(* disks.                                                                  *)
LEMMA RepliesKeepUnder ==
  ASSUME IInv, NEW u \in Unit, NEW x, NEW a, Replies(u, x, a)
  PROVE  /\ Under' = Under /\ raid' = raid /\ unit' = [unit EXCEPT ![u] = x]
         /\ unit'[u] = x /\ \A v \in Unit : v # u => unit'[v] = unit[v]
<1> DEFINE e == [k |-> "done", c |-> a]
<1>1. cmd' = cmd /\ raid' = raid /\ unit' = [unit EXCEPT ![u] = x]
  BY DEF Replies, command
<1>2. Queued("srb")' <=> Queued("srb")
  <2>1. e.k = "done"
    OBVIOUS
  <2>2. CASE inbox' = inbox
    BY <2>2 DEF Queued
  <2>3. CASE inbox' = Append(inbox, e)
    <3> HIDE DEF e
    <3>1. /\ \A i \in DOMAIN inbox : i \in DOMAIN inbox' /\ inbox'[i] = inbox[i]
          /\ \A i \in DOMAIN inbox' : i \in DOMAIN inbox \/ (i = Len(inbox) + 1 /\ inbox'[i] = e)
      BY <2>3, Appended DEF IInv
    <3> QED BY <2>1, <3>1 DEF Queued
  <2> QED BY <2>2, <2>3 DEF Replies
<1>3. Under' = Under
  BY <1>1, <1>2, UnderKept
<1>4. unit \in [Unit -> UnitType]
  BY DEF IInv, TypedWorld, World
<1> QED BY <1>1, <1>3, <1>4

(* A disk hears of the array or is given up: it keeps its queue and its    *)
(* blocks, and is not connected again while the array has not noted that   *)
(* it was lost.                                                            *)
LEMMA LinkKeepsData ==
  ASSUME IInv, IInv', CInv', DataInv, NEW u \in Unit, NEW x, NEW a, Replies(u, x, a),
         Keeps(x, unit[u]), x.queue = unit[u].queue, Serves(unit[u]) => Serves(x),
         want' = want, refused' = refused,
         x.link = unit[u].link, x.status = "ConnectedRW" => unit[u].link
  PROVE  DataInv' /\ StaysDirty
<1>1. PICK s \in Unit : Phase(World, s) /\ Data(World, s, Under, want, refused)
  BY DEF DataInv
<1>2. /\ Under' = Under /\ raid' = raid
      /\ unit'[u] = x /\ \A v \in Unit : v # u => unit'[v] = unit[v]
  BY RepliesKeepUnder
<1>3. \A v \in Unit : SameStock(unit'[v], unit[v])
  BY <1>2 DEF SameStock, Keeps, Writes
<1>4. Serves(unit'[s])
  BY <1>1, <1>2 DEF Phase, World
<1>5. AsLost(unit'[Other(s)], unit[Other(s)])
  BY <1>2, TheOther DEF AsLost
<1> QED BY <1>1, <1>2, <1>3, <1>4, <1>5, StoresKept

LEMMA UnitPnpKeepsData ==
  ASSUME Careful, Willing, IInv, CInv, DataInv, IInv', CInv', NEW u \in Unit, NEW late \in BOOLEAN,
         NEW asked \in BOOLEAN, UnitPnp(u, late, asked)
  PROVE  DataInv' /\ StaysDirty
<1> DEFINE y == unit[u]
           p == Broadcast(y, FALSE, asked, asked)
<1>1. PICK s \in Unit : Phase(World, s)
  BY DEF CInv, PhaseInv
<1>2. World.raid = raid /\ World.unit = unit /\ TypedUnit(y)
  BY Counted DEF World
<1>3. ~late /\ y.link /\ y.status # "NotPresent"
  BY DEF UnitPnp
<1>4. Replies(u, p[1], p[2])
  <2>1. UnitStep(u, {p})
    BY <1>3 DEF UnitPnp
  <2> HIDE DEF p
  <2> QED BY <2>1 DEF UnitStep, Replies, command
<1>5. /\ y.status # "ReconnectRW" => y.pend = NULL
      /\ Is(y, "ConnectedRW", "up") \/ Is(y, "ReconnectRW", "none") \/ Is(y, "Disconnected", "none")
  <2>1. CASE u = s
    BY <1>1, <1>2, <2>1 DEF Phase, Serves, Is
  <2>2. CASE u # s
    <3>1. u = Other(s)
      BY <2>2, TheOther
    <3>2. Tidy(y)
      BY <1>1, <1>2, <3>1 DEF Phase
    <3>3. Serves(y) \/ Back(y) \/ Away(y)
      BY <1>1, <1>2, <1>3, <3>1 DEF Phase, Mirrored, Unmarked, Degraded, Returned, Lost
    <3> QED BY <1>3, <3>2, <3>3 DEF Away, Back, Serves, Is, Tidy
  <2> QED BY <2>1, <2>2
<1>6. /\ SameDisk(p[1], y) /\ Keeps(p[1], y) /\ p[1].queue = y.queue
      /\ IF asked \/ y.status = "ConnectedRW" THEN Is(p[1], "ConnectedRW", "up") /\ p[1].pend = NULL
                                              ELSE Is(p[1], y.status, y.sess) /\ p[1].pend = y.pend
  BY <1>2, <1>3, <1>5, BroadcastHeard
<1> HIDE DEF p
<1>7. Serves(y) => Serves(p[1])
  BY <1>6 DEF Serves, Is, SameDisk
<1>8. want' = want /\ refused' = refused
  BY DEF UnitPnp, UnitStep, history
<1> QED BY <1>3, <1>4, <1>6, <1>7, <1>8, LinkKeepsData DEF SameDisk

LEMMA UnitGoneKeepsData ==
  ASSUME IInv, DataInv, IInv', CInv', NEW u \in Unit, UnitGone(u)
  PROVE  DataInv' /\ StaysDirty
<1> DEFINE y == unit[u]
           p == Gone(y)
<1>1. TypedUnit(y) /\ ~y.link
  BY Counted DEF UnitGone
<1>2. /\ Keeps(p[1], y) /\ p[1].queue = y.queue /\ p[1].link = y.link
      /\ p[1].status = "NotPresent"
  <2> DEFINE x == [CheckDataConnection(y) EXCEPT !.status = "NotPresent", !.pend = NULL]
  <2>1. p[1] = x
    BY DEF Gone
  <2>2. Keeps(x, y) /\ x.queue = y.queue /\ x.link = y.link /\ x.status = "NotPresent"
    BY <1>1 DEF CheckDataConnection, TypedUnit, UnitType, Keeps
  <2> QED BY <2>1, <2>2
<1>3. Replies(u, p[1], p[2])
  <2>1. UnitStep(u, {p})
    BY DEF UnitGone
  <2> HIDE DEF p
  <2> QED BY <2>1 DEF UnitStep, Replies, command
<1> HIDE DEF p
<1>4. ~Serves(y)
  BY <1>1 DEF Serves
<1>5. want' = want /\ refused' = refused
  BY DEF UnitGone, UnitStep, history
<1> QED BY <1>2, <1>3, <1>4, <1>5, LinkKeepsData

(* Disk u is to refuse an I/O: nothing that it stores changes.             *)
LEMMA FalterKeepsData ==
  ASSUME IInv, DataInv, IInv', CInv', NEW u \in Unit, NEW k \in Kind, Falter(u, k)
  PROVE  DataInv' /\ StaysDirty
<1>1. PICK s \in Unit : Phase(World, s) /\ Data(World, s, Under, want, refused)
  BY DEF DataInv
<1>2. /\ unit \in [Unit -> UnitType] /\ raid' = raid
      /\ unit' = [unit EXCEPT ![u] = [unit[u] EXCEPT !.fails = @ \cup {k}]]
      /\ cmd' = cmd /\ inbox' = inbox /\ want' = want /\ refused' = refused
  BY DEF World, IInv, TypedWorld, Falter, command, history
<1>3. Under' = Under
  BY <1>2 DEF Under, Queued
<1>4. \A v \in Unit : /\ SameStock(unit'[v], unit[v]) /\ (Serves(unit[v]) => Serves(unit'[v]))
                      /\ AsLost(unit'[v], unit[v])
  BY <1>2 DEF SameStock, Writes, UnitType, Serves, Is, AsLost
<1>5. Serves(unit'[s])
  BY <1>1, <1>4 DEF Phase, World
<1>6. AsLost(unit'[Other(s)], unit[Other(s)])
  BY <1>4, TheOther
<1> QED BY <1>1, <1>2, <1>3, <1>4, <1>5, <1>6, StoresKept

LEMMA SwitchOnKeepsData ==
  ASSUME Careful, Willing, IInv, DataInv, IInv', CInv', NEW u \in Unit, SwitchOn(u)
  PROVE  DataInv' /\ StaysDirty
<1>1. PICK s \in Unit : Phase(World, s) /\ Data(World, s, Under, want, refused)
  BY DEF DataInv
<1>2. /\ unit \in [Unit -> UnitType] /\ raid' = raid /\ raid.rs = "BrokenButWorkable" /\ ~unit[u].link
      /\ unit' = [unit EXCEPT ![u] = [unit[u] EXCEPT !.link = TRUE]]
      /\ cmd' = cmd /\ inbox' = inbox /\ want' = want /\ refused' = refused
  BY DEF World, IInv, TypedWorld, SwitchOn, command, history, faults
<1>3. Under' = Under
  BY <1>2 DEF Under, Queued
<1>4. u # s /\ unit'[s] = unit[s] /\ Serves(unit[s])
  BY <1>1, <1>2 DEF Phase, World, Serves
<1>5. \A v \in Unit : SameStock(unit'[v], unit[v])
  BY <1>2 DEF SameStock, Writes, UnitType
<1> QED BY <1>1, <1>2, <1>3, <1>4, <1>5, StoresKept

(* Disk u takes the command to write c: it stores the block, or, lost, it  *)
(* may fail without.                                                       *)
LEMMA DataStored ==
  ASSUME NEW w, TypedWorld(w), NEW s \in Unit, Phase(w, s), NEW c \in Asked, NEW N, NEW R, Data(w, s, {c}, N, R),
         NEW u \in Unit, Writes(w.unit[u]), NEW v, v.raid = w.raid,
         \A k \in Unit : k # u => v.unit[k] = w.unit[k],
         \/ Stores(v.unit[u], w.unit[u], c)
         \/ u # s /\ Missed(v.unit[u]) /\ Keeps(v.unit[u], w.unit[u]),
         v.unit[u].link = w.unit[u].link,
         u # s => Serves(v.unit[u]) \/ Missed(v.unit[u])
  PROVE  Data(v, s, {c}, N, R)
<1> DEFINE f == Other(s)
           W == {c}
           h == w.raid.history
           x == v.unit[u]
           y == w.unit[u]
<1>1. f \in Unit /\ f # s /\ (u = s \/ u = f) /\ 0 \in Unit /\ 1 \in Unit
  BY TheOther DEF Unit
<1>2. /\ TypedUnit(y) /\ h \in Seq(Block) /\ c.lo \in Block /\ c.val \in Held /\ Cache \in Nat
      /\ y.data \in [Block -> Held] /\ c.val \in N[c.lo]
  BY Numbers DEF TypedWorld, RaidType, Asked, TypedUnit, UnitType, Held, Written, Garbage, Data
<1>3. /\ h = <<>> \/ Among(h, c.lo, 1)
      /\ Aged(w.unit[s], h, R) /\ Has(w.unit[s], c, N, R) /\ Holds(w.unit[s], N)
  BY <1>1 DEF Data
<1>4. \A b : At(b, W) <=> b = c.lo
  BY DEF At
<1>5. Stores(x, y, c) => x.data = [y.data EXCEPT ![c.lo] = c.val]
  BY <1>2 DEF Stores, Store, TypedUnit, UnitType
<1>6. Stores(x, y, c) => Has(x, c, N, R)
  BY <1>2, <1>5 DEF Has
<1>7. Stores(x, y, c) /\ Aged(y, h, R) => Aged(x, h, R)
  <2> SUFFICES ASSUME Stores(x, y, c), R = {}, Ages(y, h) PROVE Ages(x, h)
    BY DEF Aged
  <2>1. c.lo \in Blocks(h) => Among(h, c.lo, 1)
    BY <1>3 DEF Blocks
  <2>2. x.data = Store(y, c.lo, c.val).data /\ x.recent = Store(y, c.lo, c.val).recent
    BY DEF Stores
  <2> HIDE DEF x, y, h
  <2> QED BY <1>2, <2>1, <2>2, StoredAges
<1>8. \A b \in Block : b # c.lo => (Differ(v, b, N, R) <=> Differ(w, b, N, R))
  <2> SUFFICES ASSUME NEW b \in Block, b # c.lo PROVE \A k \in Unit : v.unit[k].data[b] = w.unit[k].data[b]
    BY <1>1 DEF Differ
  <2>1. x.data[b] = y.data[b]
    BY <1>2, <1>5 DEF Keeps
  <2> QED BY <2>1
<1>9. \A b : ToCopy(v, b) <=> ToCopy(w, b)
  BY DEF ToCopy
<1>15. Stores(x, y, c) /\ Holds(y, N) => Holds(x, N)
  <2> SUFFICES ASSUME Stores(x, y, c), Holds(y, N), NEW b \in Block PROVE x.data[b] \in N[b]
    BY DEF Holds
  <2>1. x.data[b] = IF b = c.lo THEN c.val ELSE y.data[b]
    BY <1>2, <1>5
  <2> QED BY <1>2, <2>1 DEF Holds
<1>10. Aged(v.unit[s], h, R) /\ Has(v.unit[s], c, N, R) /\ Holds(v.unit[s], N)
  BY <1>1, <1>3, <1>6, <1>7, <1>15
<1>11. Mirrored(v, s) => InMirrored(v, s, W, N, R)
  <2> SUFFICES ASSUME Mirrored(v, s) PROVE InMirrored(v, s, W, N, R)
    OBVIOUS
  <2>1. InMirrored(w, s, W, N, R)
    BY PhaseByRating DEF Mirrored, Data
  <2>2. Mirrored(w, s)
    BY PhaseByRating DEF Mirrored
  <2>3. Among(h, c.lo, 1) /\ c.lo \in Blocks(h)
    <3>1. Among(h, c.lo, 1)
      BY <2>1 DEF InMirrored
    <3> QED BY <1>2, <3>1, AmongMore
  <2>4. v.unit[f].link = w.unit[f].link
    BY <1>1
  <2>5. IF w.unit[f].link THEN Serves(w.unit[f]) ELSE Lost(w.unit[f])
    BY <2>2 DEF Mirrored, Serves, Lost
  <2>6. Serves(v.unit[f]) => /\ Has(v.unit[f], c, N, R) /\ Aged(v.unit[f], h, R) /\ Holds(v.unit[f], N)
                             /\ \A b \in Block : Differ(v, b, N, R) => At(b, W)
    <3> SUFFICES ASSUME Serves(v.unit[f])
                 PROVE  /\ Has(v.unit[f], c, N, R) /\ Aged(v.unit[f], h, R) /\ Holds(v.unit[f], N)
                        /\ \A b \in Block : Differ(v, b, N, R) => At(b, W)
      OBVIOUS
    <3>1. Serves(w.unit[f])
      BY <2>4, <2>5 DEF Serves
    <3>2. /\ Has(w.unit[f], c, N, R) /\ Aged(w.unit[f], h, R) /\ Holds(w.unit[f], N)
          /\ \A b \in Block : Differ(w, b, N, R) => At(b, W)
      BY <2>1, <3>1 DEF InMirrored
    <3>3. u = f => Stores(x, y, c)
      BY DEF Missed, Serves, Is
    <3>4. Has(v.unit[f], c, N, R) /\ Aged(v.unit[f], h, R) /\ Holds(v.unit[f], N)
      BY <1>1, <1>6, <1>7, <1>15, <3>2, <3>3
    <3> QED BY <1>4, <1>8, <3>2, <3>4
  <2>7. Lost(v.unit[f]) => /\ \A b \in Block : Differ(v, b, N, R) => b \in Blocks(h)
                           /\ v.unit[f].status = "ConnectedRW" /\ ~Writes(v.unit[f]) => Safe(v, s, W, N, R)
    <3> SUFFICES ASSUME Lost(v.unit[f])
                 PROVE  /\ \A b \in Block : Differ(v, b, N, R) => b \in Blocks(h)
                        /\ v.unit[f].status = "ConnectedRW" /\ ~Writes(v.unit[f]) => Safe(v, s, W, N, R)
      OBVIOUS
    <3>1. Lost(w.unit[f])
      BY <2>4, <2>5 DEF Lost
    <3>2. /\ \A b \in Block : Differ(w, b, N, R) => b \in Blocks(h)
          /\ w.unit[f].status = "ConnectedRW" /\ ~Writes(w.unit[f]) => Safe(w, s, W, N, R)
      BY <2>1, <3>1 DEF InMirrored
    <3>3. \A b \in Block : Differ(v, b, N, R) => b \in Blocks(h)
      BY <1>8, <2>3, <3>2
    <3>4. ASSUME v.unit[f].status = "ConnectedRW", ~Writes(v.unit[f]) PROVE Safe(v, s, W, N, R)
      <4>1. u = s
        BY <1>1, <3>4 DEF Lost, Serves, Missed
      <4>2. Safe(w, s, W, N, R) /\ v.unit[f] = w.unit[f] /\ Stores(x, y, c)
        BY <1>1, <3>2, <3>4, <4>1
      <4>3. Cache # 0 \/ w.unit[f].data[c.lo] \in N[c.lo]
        BY <1>2, <4>2 DEF Safe
      <4>4. Differ(v, c.lo, N, R) => Among(h, c.lo, Cache)
        <5>1. CASE Cache # 0
          <6>1. 1 <= Cache /\ 1 \in Int /\ Cache \in Int
            BY <1>2, <5>1
          <6> QED BY <1>2, <2>3, <6>1, AmongMore
        <5>2. CASE Cache = 0 /\ w.unit[f].data[c.lo] = c.val
          <6>1. v.unit[f].data[c.lo] = c.val /\ v.unit[s].data[c.lo] = c.val
            BY <1>2, <1>5, <4>1, <4>2, <5>2
          <6>2. \A k \in Unit : v.unit[k].data[c.lo] = c.val
            BY <6>1, TheOther
          <6> QED BY <1>1, <6>2 DEF Differ
        <5>3. CASE Cache = 0 /\ w.unit[f].data[c.lo] # c.val
          <6>1. c.val \in R /\ v.unit[f].data[c.lo] \in N[c.lo] /\ v.unit[s].data[c.lo] = c.val
            BY <1>1, <1>2, <1>5, <4>1, <4>2, <5>3 DEF Safe
          <6>2. \A k \in Unit : v.unit[k].data[c.lo] \in N[c.lo]
            BY <1>1, <1>2, <6>1, TheOther
          <6> QED BY <1>1, <1>2, <6>1, <6>2 DEF Differ
        <5> QED BY <5>1, <5>2, <5>3
      <4>5. ASSUME NEW b \in Block, Differ(v, b, N, R)
            PROVE  Among(h, b, Cache) \/ (At(b, W) /\ Writes(v.unit[s]))
        BY <1>4, <1>8, <4>2, <4>4, <4>5 DEF Safe
      <4> QED BY <4>2, <4>5 DEF Safe
    <3> QED BY <3>3, <3>4
  <2> QED BY <2>3, <2>6, <2>7 DEF InMirrored
<1>12. Unmarked(v, s) => InUnmarked(v, W, N, R)
  <2>1. Unmarked(v, s) => InUnmarked(w, W, N, R)
    BY PhaseByRating DEF Unmarked, Data
  <2> QED BY <1>4, <1>8, <2>1 DEF InUnmarked
<1>13. Degraded(v, s) => InDegraded(v, W, N, R)
  <2>1. Degraded(v, s) => InDegraded(w, W, N, R)
    BY PhaseByRating DEF Degraded, Data
  <2> QED BY <1>4, <1>8, <2>1 DEF InDegraded
<1>14. Returned(v, s) => InReturned(v, s, W, N, R)
  <2> SUFFICES ASSUME Returned(v, s) PROVE InReturned(v, s, W, N, R)
    OBVIOUS
  <2>1. InReturned(w, s, W, N, R)
    BY PhaseByRating DEF Returned, Data
  <2>2. u = f => Stores(x, y, c)
    BY DEF Missed, Returned, Back, Is
  <2>3. Aged(v.unit[f], h, R)
    BY <1>1, <1>7, <2>1, <2>2 DEF InReturned
  <2>4. Clean(w, c.lo, R) \/ Has(w.unit[f], c, N, R)
    BY <2>1 DEF InReturned
  <2>5. Clean(v, c.lo, R) \/ Has(v.unit[f], c, N, R)
    BY <1>1, <1>6, <1>9, <2>2, <2>4 DEF Clean
  <2>6. \A b \in Block : Differ(v, b, N, R) => At(b, W) \/ Clean(v, b, R)
    BY <1>4, <1>8, <1>9, <2>1 DEF InReturned, Clean
  <2>7. ASSUME NEW b \in Block PROVE v.unit[f].data[b] \in N[b] \/ ToCopy(v, b)
    <3>1. w.unit[f].data[b] \in N[b] \/ ToCopy(w, b)
      BY <2>1 DEF InReturned
    <3>2. u = f => x.data[b] = IF b = c.lo THEN c.val ELSE y.data[b]
      BY <1>2, <1>5, <2>2
    <3> QED BY <1>1, <1>2, <1>9, <3>1, <3>2
  <2> QED BY <2>3, <2>5, <2>6, <2>7 DEF InReturned
<1> QED BY <1>3, <1>10, <1>11, <1>12, <1>13, <1>14 DEF Data

(* A disk has commands of the one in progress only.                        *)
(* Disk u, connected, refuses the command to write c: c may be there or    *)
(* not, on either disk.                                                    *)
LEMMA DataRefused ==
  ASSUME NEW w, TypedWorld(w), NEW s \in Unit, Phase(w, s), NEW c \in Asked,
         NEW N, NEW R, Data(w, s, {c}, N, R), Cache \in Nat,
         NEW u \in Unit, Serves(w.unit[u]), NEW v, v.raid = w.raid, Serves(v.unit[u]),
         \A k \in Unit : k # u => v.unit[k] = w.unit[k],
         Keeps(v.unit[u], w.unit[u]), Writes(w.unit[u]),
         NEW Q, Q = R \cup {c.val}
  PROVE  Data(v, s, {c}, N, Q)
<1> DEFINE f == Other(s)
           W == {c}
           h == w.raid.history
           d(k) == w.unit[k].data
<1>1. f \in Unit /\ f # s /\ (u = s \/ u = f) /\ 0 \in Unit /\ 1 \in Unit /\ Unit = {s, f}
  BY TheOther DEF Unit
<1>2. /\ \A k \in Unit : v.unit[k].data = d(k)
      /\ h \in Seq(Block) /\ c.val \in N[c.lo] /\ c.val \in Q /\ c.lo \in Block
  BY DEF Keeps, TypedWorld, RaidType, Data, Asked
<1>3. \A x : Aged(x, h, Q)
  BY <1>2 DEF Aged
<1>4. \A b \in Block : Differ(v, b, N, Q) => Differ(w, b, N, R)
  BY <1>1, <1>2 DEF Differ
<1>5. \A k \in Unit : Holds(w.unit[k], N) => Holds(v.unit[k], N)
  BY <1>2 DEF Holds
<1>6. \A k \in Unit : Has(w.unit[k], c, N, R) /\ (k = u => Holds(w.unit[k], N)) => Has(v.unit[k], c, N, Q)
  BY <1>2 DEF Has, Holds
<1>7. Holds(w.unit[s], N) /\ Has(w.unit[s], c, N, R)
  BY DEF Data
<1>8. Writes(v.unit[s]) \/ Writes(v.unit[f]) => h = <<>> \/ Among(h, c.lo, 1)
  BY <1>1 DEF Data
<1>9. \A b : At(b, W) <=> b = c.lo
  BY DEF At
<1>10. Mirrored(v, s) => InMirrored(v, s, W, N, Q)
  <2> SUFFICES ASSUME Mirrored(v, s) PROVE InMirrored(v, s, W, N, Q)
    OBVIOUS
  <2>1. Mirrored(w, s) /\ InMirrored(w, s, W, N, R)
    BY PhaseByRating DEF Mirrored, Data
  <2>2. Among(h, c.lo, 1)
    BY <2>1 DEF InMirrored
  <2>3. Serves(v.unit[f]) => Serves(w.unit[f])
    BY <1>1
  <2>4. Lost(v.unit[f]) => Lost(w.unit[f]) /\ u = s /\ v.unit[f] = w.unit[f]
    BY <1>1 DEF Lost, Serves
  <2>5. ASSUME Lost(v.unit[f]), v.unit[f].status = "ConnectedRW", ~Writes(v.unit[f])
        PROVE  Safe(v, s, W, N, Q)
    <3>1. Safe(w, s, W, N, R) /\ v.unit[f] = w.unit[f]
      BY <2>1, <2>4, <2>5 DEF InMirrored
    <3>2. Cache # 0 => Among(h, c.lo, Cache)
      <4>1. Cache # 0 => 1 <= Cache /\ 1 \in Int /\ Cache \in Int
        OBVIOUS
      <4> QED BY <1>2, <2>2, <4>1, AmongMore
    <3>3. Cache # 0 \/ d(f)[c.lo] \in N[c.lo]
      BY <1>2, <3>1 DEF Safe
    <3>4. ASSUME NEW b \in Block, Differ(v, b, N, Q) PROVE Among(h, b, Cache)
      <4>1. CASE b # c.lo
        BY <1>4, <1>9, <3>1, <3>4, <4>1 DEF Safe
      <4>2. CASE b = c.lo /\ Cache # 0
        BY <3>2, <4>2
      <4>3. CASE b = c.lo /\ Cache = 0
        <5>1. \A k \in Unit : v.unit[k].data[b] \in N[b]
          BY <1>1, <1>2, <1>7, <3>3, <4>3 DEF Holds
        <5> QED BY <1>1, <1>2, <3>4, <4>3, <5>1 DEF Differ
      <4> QED BY <4>1, <4>2, <4>3
    <3>5. Cache # 0 \/ (c.val \in Q /\ v.unit[f].data[c.lo] \in N[c.lo])
      BY <1>1, <1>2, <3>3
    <3> QED BY <3>4, <3>5 DEF Safe
  <2>6. Serves(v.unit[f]) => Has(v.unit[f], c, N, Q) /\ Holds(v.unit[f], N)
    BY <1>1, <1>5, <1>6, <2>1, <2>3 DEF InMirrored
  <2>7. Serves(v.unit[f]) => \A b \in Block : Differ(v, b, N, Q) => At(b, W)
    BY <1>4, <2>1, <2>3 DEF InMirrored
  <2>8. Lost(v.unit[f]) => \A b \in Block : Differ(v, b, N, Q) => b \in Blocks(h)
    BY <1>4, <2>1, <2>4 DEF InMirrored
  <2> QED BY <1>3, <2>2, <2>5, <2>6, <2>7, <2>8 DEF InMirrored
<1>11. Unmarked(v, s) => InUnmarked(v, W, N, Q)
  <2>1. Unmarked(v, s) => InUnmarked(w, W, N, R)
    BY PhaseByRating DEF Unmarked, Data
  <2> QED BY <1>4, <2>1 DEF InUnmarked
<1>12. Degraded(v, s) => InDegraded(v, W, N, Q)
  <2>1. Degraded(v, s) => InDegraded(w, W, N, R)
    BY PhaseByRating DEF Degraded, Data
  <2> QED BY <1>4, <2>1 DEF InDegraded
<1>13. Returned(v, s) => InReturned(v, s, W, N, Q)
  <2> SUFFICES ASSUME Returned(v, s) PROVE InReturned(v, s, W, N, Q)
    OBVIOUS
  <2>1. InReturned(w, s, W, N, R)
    BY PhaseByRating DEF Returned, Data
  <2>2. \A b : (ToCopy(v, b) <=> ToCopy(w, b)) /\ (Clean(w, b, R) => Clean(v, b, Q))
    BY <1>2 DEF ToCopy, Clean
  <2>3. \A b \in Block : /\ Differ(v, b, N, Q) => At(b, W) \/ Clean(v, b, Q)
                         /\ v.unit[f].data[b] \in N[b] \/ ToCopy(v, b)
    BY <1>1, <1>2, <1>4, <2>1, <2>2 DEF InReturned
  <2>4. Clean(v, c.lo, Q) \/ Has(v.unit[f], c, N, Q)
    <3>1. Clean(w, c.lo, R) \/ Has(w.unit[f], c, N, R)
      BY <2>1 DEF InReturned
    <3>2. CASE u = s
      BY <1>1, <1>6, <2>2, <3>1, <3>2
    <3>3. CASE u = f
      BY <1>2, <2>3, <3>3 DEF Has, Clean
    <3> QED BY <1>1, <3>2, <3>3
  <2> QED BY <1>3, <2>3, <2>4 DEF InReturned
<1>14. Has(v.unit[s], c, N, Q) /\ Holds(v.unit[s], N)
  BY <1>1, <1>5, <1>6, <1>7
<1> QED BY <1>2, <1>3, <1>8, <1>10, <1>11, <1>12, <1>13, <1>14 DEF Data

LEMMA DiskHasParts ==
  ASSUME IInv, CInv, NEW u \in Unit, unit[u].queue # <<>>
  PROVE  /\ cmd \in Asked /\ ~Queued("srb")
         /\ Writes(unit[u]) <=> cmd.op = "write"
         /\ Under = IF cmd.op = "write" THEN {cmd} ELSE {}
         /\ PartOf(Head(unit[u].queue))
<1>1. TypedUnit(unit[u])
  BY Counted
<1>2. count # 0
  BY NothingLeft DEF CInv
<1>3. cmd # NULL /\ ~Queued("srb")
  BY <1>2 DEF CInv, CountMatches, CommandInv
<1>4. 1 \in DOMAIN unit[u].queue /\ Head(unit[u].queue) = unit[u].queue[1]
  BY <1>1, QueueOf
<1>5. \A i \in DOMAIN unit[u].queue : PartOf(unit[u].queue[i])
  BY DEF CInv, PartsInv, AsSent
<1>6. Writes(unit[u]) <=> cmd.op = "write"
  BY <1>4, <1>5 DEF Writes, PartOf
<1> QED BY <1>3, <1>4, <1>5, <1>6 DEF Under, IInv

(* A disk that has a command serves, or is lost and has not said so.       *)
LEMMA AskedDiskIs ==
  ASSUME IInv, CInv, NEW s \in Unit, Phase(World, s), NEW u \in Unit, unit[u].queue # <<>>
  PROVE  LET y == unit[u]
         IN  /\ y.pend = NULL /\ y.member
             /\ \/ Serves(y)
                \/ u = Other(s) /\ ~y.link /\ Is(y, "ConnectedRW", "broken")
                \/ u = Other(s) /\ Is(y, "NotPresent", "none")
<1> DEFINE y == unit[u]
<1>1. World.raid = raid /\ World.unit = unit /\ cmd # NULL
  BY DiskHasParts, CommandIsNotNull DEF World
<1>2. CASE u = s
  BY <1>1, <1>2 DEF Phase, Serves
<1>3. CASE u = Other(s)
  <2>1. Tidy(y) /\ y.status # "ReconnectRW" /\ y.pend = NULL /\ y.member
    BY <1>1, <1>3 DEF Phase, Tidy
  <2>2. Serves(y) \/ Lost(y) \/ Away(y) \/ Back(y)
    BY <1>1, <1>3 DEF Phase, Mirrored, Unmarked, Degraded, Returned
  <2>3. Back(y) => Serves(y)
    <3>1. y.status # "Disconnected"
      BY <1>1 DEF CInv, CommandInv
    <3> QED BY <2>1, <3>1, BackServes DEF Back, Is
  <2> QED BY <1>3, <2>1, <2>2, <2>3 DEF Lost, Away, Is
<1> QED BY <1>2, <1>3, TheOther

LEMMA UnitSrbKeepsData ==
  ASSUME Willing, IInv, CInv, DataInv, IInv', CInv', NEW u \in Unit, UnitSrb(u)
  PROVE  DataInv' /\ StaysDirty
<1> DEFINE y == unit[u]
           c == Head(y.queue)
           p(landed) == ProcessSrb(y, landed)
<1>1. PICK s \in Unit : Phase(World, s) /\ Data(World, s, Under, want, refused)
  BY DEF DataInv
<1>2. /\ World.raid = raid /\ World.unit = unit /\ \A v \in Unit : TypedUnit(unit[v])
      /\ TypedWorld(World)
  BY Counted DEF World, IInv
<1>3. PICK landed \in BOOLEAN : Replies(u, p(landed)[1], p(landed)[2])
  BY DEF UnitSrb, UnitStep, Replies, command
<1>4. y.queue # <<>> /\ TypedUnit(y)
  BY <1>2 DEF UnitSrb
<1>5. /\ cmd \in Asked /\ cmd # NULL /\ (Writes(y) <=> cmd.op = "write")
      /\ Under = IF cmd.op = "write" THEN {cmd} ELSE {}
      /\ PartOf(c)
  BY <1>4, DiskHasParts, CommandIsNotNull
<1>6. /\ y.pend = NULL /\ y.member
      /\ \/ Serves(y)
         \/ u = Other(s) /\ ~y.link /\ Is(y, "ConnectedRW", "broken")
         \/ u = Other(s) /\ Is(y, "NotPresent", "none")
  BY <1>1, <1>4, AskedDiskIs
<1>7. PICK x, a : /\ Replies(u, x, a) /\ SameDisk(x, y) /\ x.queue = Tail(y.queue)
                  /\ x.pend # NULL => x.status = "ReconnectRW"
                  /\ IF Is(y, "ConnectedRW", "up")
                     THEN Is(x, "ConnectedRW", "up")
                     ELSE Is(x, IF Running(y) THEN "ReconnectRW" ELSE y.status,
                                IF Running(y) THEN "none" ELSE y.sess)
                  /\ \/ Keeps(x, y) /\ (Is(y, "ConnectedRW", "up") => c.op = "read" \/ Refuses(y, c))
                     \/ ~Refuses(y, c) /\ Running(y) /\ c.op = "write" /\ Stores(x, y, c)
  <2>1. ~Running(y) \/ Is(y, "ConnectedRW", "up") \/ Is(y, "ConnectedRW", "broken")
    BY <1>6 DEF Serves, Running, Is
  <2> QED BY <1>3, <1>4, <1>6, <2>1, SrbTaken
<1> HIDE DEF p
<1>8. /\ Under' = Under /\ raid' = raid
      /\ unit'[u] = x /\ \A v \in Unit : v # u => unit'[v] = unit[v]
  BY <1>7, RepliesKeepUnder
<1>9. /\ Serves(y) => Serves(x)
      /\ ~Serves(y) => Missed(x)
      /\ x.link = y.link /\ (x.status = "ConnectedRW" => y.status = "ConnectedRW")
  BY <1>6, <1>7 DEF Serves, SameDisk, Is, Missed, Running
<1>14. /\ want' = want
       /\ IF Refuses(y, c) THEN Serves(y) /\ refused' = refused \cup {c.val} ELSE refused' = refused
  <2>1. want' = want /\ refused' = refused \cup Refusals(u)
    BY DEF UnitSrb, UnitStep, history
  <2>2. Refuses(y, c) => Serves(y) /\ Running(y)
    BY <1>6 DEF Refuses, Is, Serves, Running
  <2>3. Refusals(u) = IF Running(y) /\ Refuses(y, c) THEN {c.val} ELSE {}
    BY DEF Refusals, Refuses
  <2> HIDE DEF y, c
  <2> QED BY <2>1, <2>2, <2>3
<1>10. Serves(unit'[s])
  BY <1>1, <1>2, <1>8, <1>9 DEF Phase
<1>11. CASE cmd.op = "read"
  <2>1. Keeps(x, y) /\ ~Writes(y)
    BY <1>5, <1>7, <1>11 DEF PartOf
  <2>5. refused' = refused /\ want' = want
    BY <1>5, <1>11, <1>14 DEF PartOf, Refuses
  <2>2. ~Writes(x)
    <3>1. IsQueue(y.queue)
      BY <1>4, QueueOf
    <3>2. \A i \in DOMAIN x.queue : i + 1 \in DOMAIN y.queue /\ x.queue[i] = y.queue[i + 1]
      BY <1>4, <1>7, <3>1, Tailed
    <3> QED BY <2>1, <3>2 DEF Writes
  <2>3. \A v \in Unit : SameStock(unit'[v], unit[v])
    BY <1>8, <2>1, <2>2 DEF SameStock, Keeps
  <2>4. AsLost(unit'[Other(s)], unit[Other(s)])
    BY <1>8, <1>9, TheOther DEF AsLost
  <2> HIDE DEF y, c
  <2> QED BY <1>1, <1>8, <1>10, <2>3, <2>4, <2>5, StoresKept
<1>12. CASE cmd.op = "write"
  <2> DEFINE v == World'
             w == World
  <2>1. v.unit = unit' /\ v.raid = raid'
    BY DEF World
  <2>2. c.op = "write" /\ c.lo = cmd.lo /\ c.val = cmd.val
    BY <1>5, <1>12 DEF PartOf
  <2>3. Refuses(y, c) \/ Stores(x, y, cmd) \/ (u # s /\ Missed(x) /\ Keeps(x, y))
    <3>1. Stores(x, y, c) => Stores(x, y, cmd)
      BY <2>2 DEF Stores
    <3>2. Is(y, "ConnectedRW", "up") \/ (u # s /\ Missed(x))
      BY <1>6, <1>9, TheOther DEF Serves
    <3> QED BY <1>7, <2>2, <3>1, <3>2
  <2>4. u # s => Serves(x) \/ Missed(x)
    BY <1>9
  <2>5. Phase(v, s)
    <3>1. raid'.sub[s] = "Good"
      BY <1>1, <1>2, <1>8 DEF Phase
    <3> QED BY <1>10, <3>1, PhaseKept
  <2> HIDE DEF v, w, c
  <2>8. Under' = {cmd}
    BY <1>5, <1>8, <1>12
  <2>9. CASE Refuses(y, c)
    <3> DEFINE Q == refused'
    <3>1. Serves(y) /\ Q = refused \cup {cmd.val} /\ Keeps(x, y) /\ Cache \in Nat /\ Serves(x)
      BY <1>7, <1>9, <1>14, <2>2, <2>9, Numbers
    <3> HIDE DEF Q
    <3>2. /\ TypedWorld(w) /\ Phase(w, s) /\ Data(w, s, {cmd}, want, refused) /\ Writes(w.unit[u])
          /\ v.raid = w.raid /\ \A k \in Unit : k # u => v.unit[k] = w.unit[k]
          /\ Serves(w.unit[u]) /\ Keeps(v.unit[u], w.unit[u]) /\ Serves(v.unit[u])
      BY <1>1, <1>2, <1>5, <1>8, <1>12, <2>1, <3>1 DEF w
    <3>3. Data(v, s, {cmd}, want, Q)
      BY <1>5, <3>1, <3>2, DataRefused
    <3> QED BY <1>8, <1>14, <2>5, <2>8, <3>3 DEF DataInv, StaysDirty, v, Q
  <2>10. CASE ~Refuses(y, c)
    <3>6. /\ TypedWorld(w) /\ Phase(w, s) /\ Data(w, s, {cmd}, want, refused) /\ Writes(w.unit[u])
          /\ v.raid = w.raid /\ \A k \in Unit : k # u => v.unit[k] = w.unit[k]
          /\ Stores(v.unit[u], w.unit[u], cmd) \/ (u # s /\ Missed(v.unit[u]) /\ Keeps(v.unit[u], w.unit[u]))
          /\ v.unit[u].link = w.unit[u].link
          /\ u # s => Serves(v.unit[u]) \/ Missed(v.unit[u])
      BY <1>1, <1>2, <1>5, <1>8, <1>9, <1>12, <2>1, <2>3, <2>4, <2>10 DEF w
    <3>7. Data(v, s, {cmd}, want, refused)
      BY <1>5, <3>6, DataStored
    <3> QED BY <1>8, <1>14, <2>5, <2>8, <2>10, <3>7 DEF DataInv, StaysDirty, v
  <2> QED BY <2>9, <2>10
<1>13. cmd.op \in {"read", "write"}
  BY <1>5 DEF Asked
<1> QED BY <1>11, <1>12, <1>13

-----------------------------------------------------------------------------
(* A disk is switched off.                                                 *)

(* What it loses of its cache, the history is young enough to know.        *)
LEMMA LostIsKnown ==
  ASSUME NEW u, TypedUnit(u), NEW lost \in SUBSET Cached(u), NEW T, NEW h \in Seq(T),
         lost \subseteq Blocks(h), Ages(u, h) \/ (~Writes(u) => \A b \in lost : Among(h, b, Cache))
  PROVE  LET x == Lose(u, lost)
         IN  /\ x.queue = u.queue /\ x.recent = <<>> /\ x.link = FALSE
             /\ \A b \in Block : b \notin lost => x.data[b] = u.data[b]
             /\ ~Writes(u) => \A b \in Block : x.data[b] = u.data[b] \/ Among(h, b, Cache)
             /\ Cache = 0 => \A b \in Block : x.data[b] = u.data[b]
<1> DEFINE x == Lose(u, lost)
           S(b) == {k \in DOMAIN u.recent : u.recent[k].b = b}
           first(b) == CHOOSE k \in S(b) : \A j \in S(b) : k <= j
           d == [b \in DOMAIN u.data |-> IF b \in lost THEN u.recent[first(b)].old ELSE u.data[b]]
<1>1. /\ u.recent \in Seq(Saved) /\ Len(u.recent) \in Nat /\ Len(u.recent) <= Cache
      /\ DOMAIN u.recent = 1 .. Len(u.recent) /\ DOMAIN u.data = Block /\ Cache \in Nat
  BY LenProperties, Numbers DEF TypedUnit, UnitType
<1>2. x.queue = u.queue /\ x.recent = <<>> /\ x.link = FALSE /\ x.data = d
  BY DEF Lose, TypedUnit, UnitType
<1>3. ASSUME NEW b \in lost PROVE first(b) \in DOMAIN u.recent /\ u.recent[first(b)].b = b
  <2>1. PICK n \in DOMAIN u.recent : b = u.recent[n].b
    BY DEF Cached
  <2>2. n \in S(b) /\ S(b) \subseteq Nat
    BY <1>1, <2>1
  <2> HIDE DEF S
  <2>3. first(b) \in S(b)
    BY <2>2, LeastIn
  <2> QED BY <2>3 DEF S
<1> HIDE DEF x, S, first
<1>4. \A b \in Block : b \notin lost => x.data[b] = u.data[b]
  BY <1>1, <1>2
<1>5. ASSUME ~Writes(u), NEW b \in Block PROVE x.data[b] = u.data[b] \/ Among(h, b, Cache)
  <2>1. CASE b \notin lost
    BY <1>4, <2>1
  <2>2. CASE b \in lost
    <3> DEFINE k == first(b)
    <3>1. k \in DOMAIN u.recent /\ u.recent[k].b = b /\ x.data[b] = u.recent[k].old
      BY <1>1, <1>2, <1>3, <2>2
    <3> HIDE DEF k
    <3>2. b \in Blocks(h)
      BY <2>2
    <3>3. \/ u.recent[k].old = u.data[b] \/ Among(h, b, Age(u, k))
          \/ Among(h, b, Cache)
      BY <1>5, <2>2, <3>1, <3>2 DEF Ages
    <3>4. Age(u, k) \in Int /\ Age(u, k) <= Cache /\ Cache \in Int
      BY <1>1, <1>5, <3>1 DEF Age
    <3> QED BY <3>1, <3>3, <3>4, AmongMore
  <2> QED BY <2>1, <2>2
<1>6. ASSUME Cache = 0, NEW b \in Block PROVE x.data[b] = u.data[b]
  <2>1. b \notin lost
    BY <1>1, <1>3, <1>6
  <2> QED BY <1>4, <2>1
<1> QED BY <1>2, <1>4, <1>5, <1>6 DEF x

(* While both disks serve, one is like the other.                          *)
LEMMA BothServe ==
  ASSUME NEW w, NEW s \in Unit, Mirrored(w, s), Serves(w.unit[Other(s)]), NEW N, NEW R, NEW W, Data(w, s, W, N, R)
  PROVE  /\ \A c \in W : Among(w.raid.history, c.lo, 1)
         /\ \A u \in Unit : Aged(w.unit[u], w.raid.history, R) /\ Holds(w.unit[u], N) /\ \A c \in W : Has(w.unit[u], c, N, R)
         /\ \A b \in Block : Differ(w, b, N, R) => At(b, W)
<1>1. InMirrored(w, s, W, N, R)
  BY DEF Data
<1> QED BY <1>1, TheOther DEF InMirrored, Data

LEMMA SwitchOffKeepsData ==
  ASSUME Careful, Willing, IInv, CInv, DataInv, IInv', CInv', NEW u \in Unit, SwitchOff(u)
  PROVE  DataInv' /\ StaysDirty
<1> DEFINE t == Other(u)
           x == unit'[u]
           y == unit[u]
           h == raid.history
           W == Under
           v == World'
           N == want
           R == refused
<1>1. PICK s \in Unit : Phase(World, s) /\ Data(World, s, W, N, R)
  BY DEF DataInv
<1>2. PICK lost \in SUBSET Cached(y) :
        /\ lost \subseteq IF R = {} THEN Blocks(h) ELSE Known(u)
        /\ unit' = [unit EXCEPT ![u] = Lose(y, lost)]
  BY DEF SwitchOff
<1>3. /\ World.raid = raid /\ World.unit = unit /\ \A k \in Unit : TypedUnit(unit[k])
      /\ unit \in [Unit -> UnitType] /\ h \in Seq(Block) /\ Cache \in Nat
  BY Counted, Numbers DEF World, IInv, TypedWorld, RaidType
<1>4. /\ raid' = raid /\ raid.rs = "Good" /\ cmd' = cmd /\ inbox' = inbox
      /\ want' = N /\ refused' = R
      /\ \A k \in Unit : unit[k].sess = "up" /\ unit[k].link
  BY <1>3 DEF SwitchOff, TypedUnit, Sane, command, history, faults
<1>5. Mirrored(World, s) /\ Serves(unit[s]) /\ Serves(unit[Other(s)])
  <2>1. Mirrored(World, s) /\ Serves(unit[s])
    BY <1>1, <1>3, <1>4, PhaseByRating DEF Phase
  <2> QED BY <1>3, <1>4, <2>1, TheOther DEF Mirrored, Lost
<1>6. /\ \A c \in W : Among(h, c.lo, 1) /\ c.lo \in Blocks(h) /\ c.val \in N[c.lo]
      /\ \A k \in Unit : /\ Aged(unit[k], h, R) /\ Holds(unit[k], N)
                         /\ \A c \in W : Has(unit[k], c, N, R)
      /\ \A b \in Block : Differ(World, b, N, R) => At(b, W)
  <2>1. /\ \A c \in W : Among(h, c.lo, 1)
        /\ \A k \in Unit : /\ Aged(unit[k], h, R) /\ Holds(unit[k], N)
                           /\ \A c \in W : Has(unit[k], c, N, R)
        /\ \A b \in Block : Differ(World, b, N, R) => At(b, W)
    BY <1>1, <1>3, <1>5, BothServe
  <2>2. \A c \in W : c.lo \in Blocks(h) /\ c.val \in N[c.lo]
    BY <1>1, <1>3, <2>1, AmongMore DEF Data
  <2> QED BY <2>1, <2>2
<1>7. t \in Unit /\ t # u /\ Other(t) = u /\ 0 \in Unit /\ 1 \in Unit /\ Unit = {u, t}
  BY TheOther DEF Unit
<1>8. x = Lose(y, lost) /\ unit'[t] = unit[t] /\ v.unit = unit' /\ v.raid = raid
  BY <1>2, <1>3, <1>4, <1>7 DEF World
<1>9. W' = W
  BY <1>4 DEF Under, Queued
<1>10. \A c \in W : c.lo \in Block
  BY UnderIsAsked
<1>11. Phase(v, t)
  <2>1. Serves(unit'[t])
    BY <1>5, <1>7, <1>8, TheOther
  <2>2. raid'.sub[t] = "Good"
    BY <1>1, <1>3, <1>4, <1>5, <1>7, TheOther DEF Phase, Mirrored
  <2> QED BY <1>7, <2>1, <2>2, PhaseKept
<1>12. W = {} => ~Writes(y)
  <2>1. Writes(y) => y.queue # <<>>
    BY DEF Writes
  <2> QED BY <2>1, DiskHasParts
<1>21. /\ lost \subseteq Blocks(h)
       /\ R # {} /\ ~Writes(y) => \A b \in lost : Among(h, b, Cache)
  <2> DEFINE more == IF y.queue # <<>> /\ Head(y.queue).op = "write" THEN 0 ELSE 1
  <2>1. Known(u) = {h[k] : k \in {j \in DOMAIN h : Len(h) - j + more <= Cache}}
    BY DEF Known
  <2>2. ~Writes(y) => more = 1
    <3>1. y.queue # <<>> => 1 \in DOMAIN y.queue /\ Head(y.queue) = y.queue[1]
      BY <1>3, QueueOf
    <3> QED BY <3>1 DEF Writes
  <2> HIDE DEF more, h, y
  <2>3. Known(u) \subseteq Blocks(h)
    BY <2>1 DEF Blocks
  <2>4. ASSUME more = 1, NEW b \in Known(u) PROVE Among(h, b, Cache)
    <3>1. PICK k \in DOMAIN h : h[k] = b /\ Len(h) - k + 1 <= Cache
      BY <2>1, <2>4
    <3>2. k \in Int /\ Len(h) \in Int /\ Cache \in Int
      BY <1>3, LenProperties
    <3> QED BY <3>1, <3>2 DEF Among
  <2> QED BY <1>2, <2>2, <2>3, <2>4 DEF h
<1>13. /\ x.queue = y.queue /\ x.link = FALSE
       /\ \A b \in Block : b \notin lost => x.data[b] = y.data[b]
       /\ ~Writes(y) => \A b \in Block : x.data[b] = y.data[b] \/ Among(h, b, Cache)
       /\ Cache = 0 => \A b \in Block : x.data[b] = y.data[b]
  <2>1. /\ TypedUnit(y) /\ h \in Seq(Block) /\ lost \in SUBSET Cached(y)
        /\ lost \subseteq Blocks(h) /\ x = Lose(y, lost)
        /\ Ages(y, h) \/ (~Writes(y) => \A b \in lost : Among(h, b, Cache))
    BY <1>2, <1>3, <1>6, <1>8, <1>21 DEF Aged
  <2> HIDE DEF x, y, h
  <2> QED BY <2>1, LostIsKnown
<1>14. \A b \in Block : x.data[b] = y.data[b] => (Differ(v, b, N, R) <=> Differ(World, b, N, R))
  BY <1>3, <1>7, <1>8 DEF Differ
<1>15. ASSUME NEW b \in Block, unit[0].data[b] \in N[b], unit[1].data[b] \in N[b], Differ(World, b, N, R)
       PROVE  N[b] \cap R = {} /\ unit[u].data[b] # unit[t].data[b]
  BY <1>3, <1>7, <1>15 DEF Differ
<1> HIDE DEF t, x, y, h, W, v, N, R
<1>16. \A b \in Block : Differ(v, b, N, R) => b \in Blocks(h)
  BY <1>21, <1>6, <1>13, <1>14 DEF At
<1>17. ASSUME ~Writes(y) PROVE Safe(v, t, W, N, R)
  <2>1. ASSUME NEW c \in W
        PROVE  LET missed(z) == c.val \in R /\ z.data[c.lo] \in N[c.lo]
               IN  /\ y.data[c.lo] = c.val \/ missed(y)
                   /\ Cache # 0 \/ x.data[c.lo] = c.val \/ missed(x)
    <3>1. y.data[c.lo] = c.val \/ (c.val \in R /\ y.data[c.lo] \in N[c.lo])
      BY <1>6, <1>17, <2>1 DEF Has, y
    <3> QED BY <1>10, <1>13, <3>1
  <2>2. ASSUME NEW b \in Block, Differ(v, b, N, R)
        PROVE  Among(h, b, Cache) \/ (At(b, W) /\ Writes(unit[t]))
    <3>1. CASE Among(h, b, Cache)
      BY <3>1
    <3>2. CASE ~Among(h, b, Cache)
      <4>1. Differ(World, b, N, R)
        BY <1>13, <1>14, <1>17, <2>2, <3>2
      <4>2. PICK c \in W : c.lo = b
        BY <1>6, <4>1 DEF At
      <4>3. N[b] \cap R = {} /\ y.data[b] # unit[t].data[b]
        BY <1>6, <1>7, <1>15, <4>1 DEF Holds, y
      <4>5. c.val \notin R
        BY <1>6, <4>2, <4>3
      <4>4. Writes(unit[t])
        BY <1>6, <1>7, <2>1, <4>2, <4>3, <4>5 DEF Has
      <4> QED BY <4>2, <4>4 DEF At
    <3> QED BY <3>1, <3>2
  <2>3. v.unit[t] = unit[t] /\ v.unit[Other(t)] = x /\ v.raid.history = h
    BY <1>7, <1>8 DEF x, h
  <2> QED BY <2>1, <2>2, <2>3 DEF Safe
<1>18. InMirrored(v, t, W, N, R)
  <2>1. v.unit[Other(t)] = x /\ v.raid.history = h
    BY <1>7, <1>8 DEF x, h
  <2>2. ~Serves(x)
    BY <1>13 DEF Serves
  <2>3. Writes(x) <=> Writes(y)
    BY <1>13 DEF Writes
  <2> QED BY <1>6, <1>12, <1>16, <1>17, <2>1, <2>2, <2>3 DEF InMirrored
<1>19. Data(v, t, W, N, R)
  <2>1. v.unit[t] = unit[t] /\ v.unit[Other(t)] = x /\ v.raid.history = h /\ v.raid.rs = "Good"
    BY <1>4, <1>7, <1>8 DEF x, h
  <2>2. ~Unmarked(v, t) /\ ~Degraded(v, t) /\ ~Returned(v, t)
    BY <2>1 DEF Unmarked, Degraded, Returned
  <2> QED BY <1>6, <1>7, <1>18, <2>1, <2>2 DEF Data
<1>20. Phase(World', t) /\ Data(World', t, Under', want', refused')
  BY <1>4, <1>9, <1>11, <1>19 DEF v, W, N, R
<1> QED BY <1>4, <1>7, <1>20 DEF DataInv, StaysDirty

-----------------------------------------------------------------------------
(* The worker sends the command to the disks.                              *)

LEMMA WriteIsNoted ==
  ASSUME Willing, NEW w, Handled(w), NEW s \in Unit, Phase(w, s), ~Unmarked(w, s), cmd \in Asked,
         w.raid.rs # "ReadyToRecovery"
  PROVE  LET v == NoteWrite(w)
         IN  /\ v.raid.rs = w.raid.rs /\ v.raid.sub = w.raid.sub /\ v.raid.dirty = w.raid.dirty
             /\ v.raid.sector = w.raid.sector
             /\ \A u \in Unit : Untouched(v.unit[u], w.unit[u])
             /\ IF Degraded(w, s)
                THEN v.raid.history = w.raid.history /\ v.raid.map = w.raid.map \cup {cmd.lo}
                ELSE v.raid.history = Remember(w.raid.history, cmd.lo) /\ v.raid.map = w.raid.map
<1> DEFINE v == NoteWrite(w)
<1>1. /\ v.raid.rs = w.raid.rs /\ v.raid.sub = w.raid.sub /\ v.raid.dirty = w.raid.dirty
      /\ v.unit[Other(s)] = w.unit[Other(s)] /\ Untouched(v.unit[s], w.unit[s])
  BY WriteNoted
<1>2. \A u \in Unit : Untouched(v.unit[u], w.unit[u])
  <2> HIDE DEF v
  <2>1. Untouched(w.unit[Other(s)], w.unit[Other(s)])
    BY DEF Untouched, SameQueue
  <2> QED BY <1>1, <2>1, TheOther
<1>3. CASE Degraded(w, s)
  <2>1. SubUnits(w, "Good") = {s}
    BY <1>3, OneIsGood DEF Degraded, Mirrored
  <2>2. v = SetBitmap(w, {cmd.lo})
    BY <1>3 DEF Degraded, NoteWrite
  <2>3. w.raid.status = "ConnectedRW" /\ Serves(w.unit[s]) /\ w.raid.map # NULL
        /\ {cmd.lo} \subseteq 0..Capacity
    BY <1>3, Numbers DEF Phase, Degraded, Asked
  <2>4. Remarked(v, w, w.raid.map \cup {cmd.lo})
    <3> HIDE DEF v
    <3> QED BY <2>1, <2>2, <2>3, BitmapSet
  <2> QED BY <1>1, <1>2, <1>3, <2>4 DEF Remarked
<1>4. CASE ~Degraded(w, s)
  <2> DEFINE h == Remember(w.raid.history, cmd.lo)
  <2>1. w.raid.rs \in {"Good", "Recovering"}
    BY <1>4 DEF Phase, Mirrored, Returned
  <2>2. v = [w EXCEPT !.raid.history = h]
    BY <2>1 DEF NoteWrite
  <2> HIDE DEF h
  <2>3. v.raid.history = h /\ v.raid.map = w.raid.map /\ v.raid.sector = w.raid.sector
    BY <2>2 DEF Handled, TypedWorld, RaidType
  <2> QED BY <1>1, <1>2, <1>4, <2>3 DEF h
<1> QED BY <1>3, <1>4

(* A cache is younger by the write that is now under way.                  *)
LEMMA NotedAges ==
  ASSUME NEW y, TypedUnit(y), NEW h \in Seq(Block), Len(h) <= Cache + 1, NEW b \in Block,
         Ages(y, h), ~Writes(y),
         NEW x, x.data = y.data, x.recent = y.recent, Writes(x)
  PROVE  Ages(x, Remember(h, b))
<1> DEFINE t == Remember(h, b)
<1>1. /\ Among(t, b, 1) /\ Blocks(t) \subseteq Blocks(h) \cup {b}
      /\ \A c : \A n \in Int : Among(h, c, n) /\ c \in Blocks(t) => Among(t, c, n + 1)
  BY Remembered
<1>2. t \in Seq(Block)
  BY RememberTyped
<1> HIDE DEF t
<1> SUFFICES ASSUME NEW k \in DOMAIN y.recent, y.recent[k].b \in Blocks(t)
             PROVE  y.recent[k].old = y.data[y.recent[k].b] \/ Among(t, y.recent[k].b, Age(x, k))
  BY DEF Ages, t
<1> DEFINE c == y.recent[k].b
<1>3. y.recent \in Seq(Saved) /\ Len(y.recent) \in Nat /\ k \in 1 .. Len(y.recent)
  BY LenProperties DEF TypedUnit, UnitType
<1>4. /\ Age(y, k) \in Int /\ Age(x, k) = Age(y, k) + 1 /\ 1 <= Age(x, k) /\ Age(x, k) \in Int
  <2> DEFINE l == Len(y.recent)
  <2>1. Age(y, k) = l - k + 1 /\ Age(x, k) = l - k + 2
    BY DEF Age
  <2>2. l \in Nat /\ k \in 1 .. l
    BY <1>3
  <2> HIDE DEF l
  <2> QED BY <2>1, <2>2
<1>5. CASE c = b
  BY <1>1, <1>2, <1>4, <1>5, AmongMore
<1>6. CASE c # b
  <2>1. c \in Blocks(h)
    BY <1>1, <1>6
  <2>2. y.recent[k].old = y.data[c] \/ Among(h, c, Age(y, k))
    BY <2>1 DEF Ages
  <2> QED BY <1>1, <1>4, <2>2
<1> QED BY <1>5, <1>6

(* World z is what v was, and the write in progress was sent to its disks. *)
SentOn(z, v) ==
  \A u \in Unit : /\ z.unit[u].data = v.unit[u].data /\ z.unit[u].recent = v.unit[u].recent
                  /\ z.unit[u].status = v.unit[u].status /\ z.unit[u].link = v.unit[u].link
                  /\ Writes(z.unit[u]) <=> PlanWrite(v)[u] # NULL

LEMMA DataWritten ==
  ASSUME Willing, NEW w, Handled(w), NEW s \in Unit, Phase(w, s), ~Unmarked(w, s),
         NEW N, NEW R, Data(w, s, {}, N, R), cmd.val \in N[cmd.lo],
         cmd \in Asked, w.raid.rs # "ReadyToRecovery", w.unit[Other(s)].status # "Disconnected",
         \A u \in Unit : ~Writes(w.unit[u]),
         NEW v, v = NoteWrite(w), NEW z, Phase(z, s), z.raid = v.raid,
         SentOn(z, v)
  PROVE  Data(z, s, {cmd}, N, R)
<1> DEFINE f == Other(s)
           W == {cmd}
           h == w.raid.history
           t == z.raid.history
           b0 == cmd.lo
<1>1. f \in Unit /\ f # s /\ 0 \in Unit /\ 1 \in Unit /\ Unit = {s, f}
  BY TheOther DEF Unit
<1>2. /\ z.raid.rs = w.raid.rs /\ z.raid.sub = w.raid.sub /\ z.raid.dirty = w.raid.dirty
      /\ z.raid.sector = w.raid.sector
      /\ IF Degraded(w, s) THEN t = h /\ z.raid.map = w.raid.map \cup {b0}
                           ELSE t = Remember(h, b0) /\ z.raid.map = w.raid.map
      /\ \A u \in Unit : Untouched(v.unit[u], w.unit[u])
  BY WriteIsNoted
<1>3. \A u \in Unit : /\ z.unit[u].data = w.unit[u].data /\ z.unit[u].recent = w.unit[u].recent
                      /\ z.unit[u].status = w.unit[u].status /\ z.unit[u].link = w.unit[u].link
                      /\ TypedUnit(w.unit[u])
  <2> TAKE u \in Unit
  <2>1. /\ z.unit[u].data = v.unit[u].data /\ z.unit[u].recent = v.unit[u].recent
        /\ z.unit[u].status = v.unit[u].status /\ z.unit[u].link = v.unit[u].link
    BY DEF SentOn
  <2>2. Untouched(v.unit[u], w.unit[u])
    BY <1>2
  <2> QED BY <2>1, <2>2 DEF Untouched, Handled, TypedWorld
<1>4. /\ b0 \in Block /\ h \in Seq(Block) /\ Len(h) <= Cache + 1
      /\ Command("write", cmd.lo, cmd.hi, cmd.val) # NULL
  <2>1. Command("write", cmd.lo, cmd.hi, cmd.val) \in Request
    BY CommandTyped DEF Asked
  <2> QED BY <2>1, CommandIsNotNull DEF Asked, Handled, TypedWorld, TypedRaid, RaidType
<1>5. \A u \in Unit : Usable(w, u) /\ w.raid.sub[u] \in {"Good", "NeedRecovery", "Recovering"} =>
                      Writes(z.unit[u])
  <2>1. \A u \in Unit : Usable(v, u) <=> Usable(w, u)
    BY <1>2 DEF Usable, Running, Connected, Untouched
  <2> QED BY <1>2, <1>4, <2>1 DEF PlanWrite, SentOn
<1>6. Writes(z.unit[s])
  <2>1. Usable(w, s) /\ w.raid.sub[s] = "Good"
    BY DEF Phase, Serves, Is, Usable, Running, Connected
  <2> QED BY <1>5, <2>1
<1>7. \A b \in Block : Differ(z, b, N, R) <=> Differ(w, b, N, R)
  BY <1>1, <1>3 DEF Differ
<1>8. \A b : At(b, W) <=> b = b0
  BY DEF At
<1>9. Aged(w.unit[s], h, R) /\ Holds(w.unit[s], N) /\ \A b : ~At(b, {})
  BY DEF Data, At
<1>10. /\ Among(Remember(h, b0), b0, 1) /\ Blocks(Remember(h, b0)) \subseteq Blocks(h) \cup {b0}
       /\ \A c : Among(h, c, Cache) => c \in Blocks(Remember(h, b0))
  BY <1>4, Remembered
<1>15. \A u \in Unit : Holds(w.unit[u], N) => Holds(z.unit[u], N)
  BY <1>3 DEF Holds
<1>11. ASSUME NEW u \in Unit, Aged(w.unit[u], h, R), Writes(z.unit[u])
       PROVE  Aged(z.unit[u], Remember(h, b0), R)
  <2> SUFFICES ASSUME R = {}, Ages(w.unit[u], h) PROVE Ages(z.unit[u], Remember(h, b0))
    BY <1>11 DEF Aged
  <2> DEFINE x == z.unit[u]
             y == w.unit[u]
  <2>1. /\ TypedUnit(y) /\ Ages(y, h) /\ ~Writes(y) /\ Writes(x)
        /\ x.data = y.data /\ x.recent = y.recent
    BY <1>3, <1>11
  <2> HIDE DEF x, y, h, b0
  <2>2. Ages(x, Remember(h, b0))
    BY <1>4, <2>1, NotedAges
  <2> QED BY <2>2 DEF x
<1> HIDE DEF f, t, h, b0
<1>12. CASE Degraded(w, s)
  <2>1. t = <<>> /\ z.raid.map = w.raid.map \cup {b0} /\ z.raid.rs = "BrokenButWorkable"
    BY <1>2, <1>12 DEF Degraded, h
  <2>2. Aged(z.unit[s], t, R)
    BY <2>1 DEF Ages, Aged, Blocks
  <2>3. InDegraded(z, W, N, R)
    <3>1. InDegraded(w, {}, N, R)
      BY <1>12 DEF Data
    <3> QED BY <1>7, <1>8, <2>1, <3>1 DEF InDegraded
  <2>4. ~Mirrored(z, s) /\ ~Unmarked(z, s) /\ ~Returned(z, s)
    BY <2>1 DEF Mirrored, Unmarked, Returned
  <2> QED BY <1>6, <1>9, <1>15, <2>1, <2>2, <2>3, <2>4 DEF Data, Has, t, b0
<1>13. CASE Mirrored(w, s)
  <2>1. t = Remember(h, b0) /\ z.raid.rs = "Good"
    BY <1>2, <1>13 DEF Degraded, Mirrored
  <2>2. InMirrored(w, s, {}, N, R)
    BY <1>13 DEF Data
  <2>3. Aged(z.unit[s], t, R)
    BY <1>6, <1>9, <1>11, <2>1
  <2>4. IF w.unit[f].link THEN Serves(w.unit[f]) ELSE Lost(w.unit[f])
    BY <1>13 DEF Mirrored, Serves, Lost, f
  <2>5. Serves(z.unit[f]) => /\ Has(z.unit[f], cmd, N, R) /\ Aged(z.unit[f], t, R) /\ Holds(z.unit[f], N)
                             /\ \A b \in Block : Differ(z, b, N, R) => At(b, W)
    <3> SUFFICES ASSUME Serves(z.unit[f])
                 PROVE  /\ Has(z.unit[f], cmd, N, R) /\ Aged(z.unit[f], t, R) /\ Holds(z.unit[f], N)
                        /\ \A b \in Block : Differ(z, b, N, R) => At(b, W)
      OBVIOUS
    <3>1. Serves(w.unit[f])
      BY <1>1, <1>3, <2>4 DEF Serves
    <3>2. Aged(w.unit[f], h, R) /\ Holds(w.unit[f], N) /\ \A b \in Block : ~Differ(w, b, N, R)
      BY <1>9, <2>2, <3>1 DEF InMirrored, f, h
    <3>3. Writes(z.unit[f])
      <4>1. Usable(w, f) /\ w.raid.sub[f] = "Good"
        BY <1>13, <3>1 DEF Mirrored, Serves, Is, Usable, Running, Connected, f
      <4> QED BY <1>1, <1>5, <4>1
    <3> QED BY <1>1, <1>7, <1>11, <1>15, <2>1, <3>2, <3>3 DEF Has
  <2>6. Lost(z.unit[f]) => /\ \A b \in Block : Differ(z, b, N, R) => b \in Blocks(t)
                           /\ z.unit[f].status = "ConnectedRW" => Writes(z.unit[f])
    <3> SUFFICES ASSUME Lost(z.unit[f])
                 PROVE  /\ \A b \in Block : Differ(z, b, N, R) => b \in Blocks(t)
                        /\ z.unit[f].status = "ConnectedRW" => Writes(z.unit[f])
      OBVIOUS
    <3>1. Lost(w.unit[f])
      BY <1>1, <1>3, <2>4 DEF Lost
    <3>2. Safe(w, s, {}, N, R)
      BY <2>2, <3>1 DEF InMirrored, f
    <3>3. \A b \in Block : Differ(z, b, N, R) => b \in Blocks(t)
      BY <1>7, <1>9, <1>10, <2>1, <3>2 DEF Safe, h
    <3>4. z.unit[f].status = "ConnectedRW" => Writes(z.unit[f])
      <4>1. w.unit[f].status = "ConnectedRW" => Usable(w, f)
        BY <3>1 DEF Lost, Is, Usable, Running, Connected
      <4>2. w.raid.sub[f] = "Good"
        BY <1>13 DEF Mirrored, f
      <4> QED BY <1>1, <1>3, <1>5, <4>1, <4>2
    <3> QED BY <3>3, <3>4
  <2>7. Among(t, b0, 1)
    BY <1>10, <2>1
  <2>8. InMirrored(z, s, W, N, R)
    BY <2>5, <2>6, <2>7 DEF InMirrored, f, t, b0
  <2>9. ~Unmarked(z, s) /\ ~Degraded(z, s) /\ ~Returned(z, s)
    BY <2>1 DEF Unmarked, Degraded, Returned
  <2> QED BY <1>6, <1>9, <1>15, <2>3, <2>7, <2>8, <2>9 DEF Data, Has, t, b0
<1>14. CASE Returned(w, s)
  <2>1. t = Remember(h, b0) /\ z.raid.rs = "Recovering" /\ z.raid.map = w.raid.map
    BY <1>2, <1>14 DEF Degraded, Returned
  <2>2. InReturned(w, s, {}, N, R)
    BY <1>14 DEF Data
  <2>3. Aged(z.unit[s], t, R)
    BY <1>6, <1>9, <1>11, <2>1
  <2>4. Writes(z.unit[f])
    <3>1. Usable(w, f) /\ w.raid.sub[f] = "Recovering"
      BY <1>2, <1>14, <2>1 DEF Returned, Back, Is, Usable, Running, Connected, f
    <3> QED BY <1>1, <1>5, <3>1
  <2>5. Aged(z.unit[f], t, R)
    BY <1>1, <1>11, <2>1, <2>2, <2>4 DEF InReturned, f, h
  <2>6. Among(t, b0, 1)
    BY <1>10, <2>1
  <2>7. \A b \in Block : Differ(z, b, N, R) => At(b, W) \/ Clean(z, b, R)
    <3>1. \A b \in Block : Differ(w, b, N, R) => ToCopy(w, b) /\ (R = {} => b \notin Blocks(h))
      BY <1>9, <2>2 DEF InReturned, Clean, h
    <3>2. \A b : ToCopy(z, b) <=> ToCopy(w, b)
      BY <1>2, <2>1 DEF ToCopy
    <3> QED BY <1>7, <1>8, <1>10, <2>1, <3>1, <3>2 DEF Clean, t
  <2>10. \A b \in Block : z.unit[f].data[b] \in N[b] \/ ToCopy(z, b)
    BY <1>1, <1>2, <1>3, <2>1, <2>2 DEF InReturned, ToCopy, f
  <2>8. InReturned(z, s, W, N, R)
    BY <2>4, <2>5, <2>7, <2>10 DEF InReturned, Has, f, t
  <2>9. ~Mirrored(z, s) /\ ~Unmarked(z, s) /\ ~Degraded(z, s)
    BY <2>1 DEF Mirrored, Unmarked, Degraded
  <2> QED BY <1>6, <1>9, <1>15, <2>3, <2>6, <2>8, <2>9 DEF Data, Has, t, b0
<1> QED BY <1>12, <1>13, <1>14 DEF Phase

LEMMA WorkerSrbKeepsData ==
  ASSUME Willing, IInv, CInv, CommandWanted, DataInv, IInv', CInv', WorkerSrb
  PROVE  DataInv' /\ StaysDirty
<1>1. PICK s \in Unit : Phase(World, s) /\ Data(World, s, Under, want, refused)
  BY DEF DataInv
<1>2. Handled(World) /\ World.raid = raid /\ World.unit = unit
  BY Counted DEF World
<1>3. Queued("srb") /\ ~Queued("srb")' /\ raid.rs # "GoodButPartiallyFailed"
  BY HeadTaken DEF WorkerSrb
<1>4. cmd # NULL /\ count = 0 /\ raid.rs # "ReadyToRecovery" /\ cmd \in Asked
      /\ \A u \in Unit : unit[u].status # "Disconnected"
  BY <1>3 DEF CInv, CommandInv, IInv
<1>5. Under = {} /\ \A u \in Unit : ~Writes(unit[u])
  <2>1. \A u \in Unit : unit[u].queue = <<>>
    BY <1>4, NothingLeft DEF CInv
  <2> QED BY <1>3, <2>1 DEF Under, Writes
<1>6. PICK o \in {ProcessSrbCommand(World, res)} : Settle(o, count)
  BY DEF WorkerSrb
<1>7. ~Unmarked(World, s)
  BY <1>2, <1>3 DEF Unmarked
<1>8. /\ TypedOutcome(o) /\ Phase(o.w, s) /\ ~o.fin
      /\ o.w.raid.rs = raid.rs /\ o.w.raid.dirty = raid.dirty
      /\ \A u \in Unit : Untouched(o.w.unit[u], unit[u]) /\ MaySend(o.w, o.to, u)
      /\ cmd.op = "read" => o.w = World
      /\ cmd.op = "write" => o.w = NoteWrite(World) /\ o.to = PlanWrite(o.w)
  BY <1>1, <1>2, <1>4, <1>6, <1>7, CommandSends
<1>9. PhaseInv' /\ \A u \in Unit : o.to[u] # NULL => o.to[u].op = cmd.op
  BY <1>8 DEF CInv, MaySend, PartOf
<1>10. cmd' = cmd /\ want' = want /\ refused' = refused
  <2>1. refused' = refused
    BY DEF WorkerSrb, faults
  <2> QED BY <1>4, <1>6, <1>8, <1>9, <2>1, SettledWorld
<1>11. CASE cmd.op = "read"
  <2>1. Data(o.w, s, {}, want, refused) /\ \A c \in {} : c.lo \in Block
    BY <1>1, <1>5, <1>8, <1>11
  <2>2. \A u \in Unit : o.to[u] # NULL => o.to[u].op # "write"
    BY <1>9, <1>11
  <2>3. Phase(World', s) /\ Data(World', s, {}, want, refused) /\ (o.w.raid.dirty => raid'.dirty)
    BY <1>6, <1>8, <1>9, <2>1, <2>2, DataSettled
  <2>4. Under' = {}
    BY <1>10, <1>11 DEF Under
  <2> QED BY <1>8, <1>10, <2>3, <2>4 DEF DataInv, StaysDirty
<1>12. CASE cmd.op = "write"
  <2> DEFINE z == World'
             v == o.w
  <2>1. AfterCommand(v) = v
    BY <1>3, <1>8 DEF AfterCommand
  <2>2. Phase(z, s) /\ z.raid = v.raid /\ z.raid = raid'
    BY <1>6, <1>8, <1>9, <2>1, SettledWorld DEF World
  <2>3. ASSUME NEW u \in Unit
        PROVE  /\ z.unit[u].data = v.unit[u].data /\ z.unit[u].recent = v.unit[u].recent
               /\ z.unit[u].status = v.unit[u].status /\ z.unit[u].link = v.unit[u].link
               /\ Writes(z.unit[u]) <=> PlanWrite(v)[u] # NULL
    <3>1. /\ z.unit[u].data = v.unit[u].data /\ z.unit[u].recent = v.unit[u].recent
          /\ z.unit[u].status = v.unit[u].status /\ z.unit[u].link = v.unit[u].link
          /\ Writes(z.unit[u]) <=> Writes(v.unit[u]) \/ (o.to[u] # NULL /\ o.to[u].op = "write")
      BY <1>6, <1>8, <1>9, <2>1, SettledWorld
    <3>2. ~Writes(v.unit[u])
      BY <1>5, <1>8 DEF Untouched, SameQueue, Writes
    <3>3. o.to[u] # NULL => o.to[u].op = "write"
      BY <1>9, <1>12
    <3>4. o.to = PlanWrite(v)
      BY <1>8, <1>12
    <3> HIDE DEF z, v
    <3> QED BY <3>1, <3>2, <3>3, <3>4
  <2> DEFINE w == World
  <2>8. SentOn(z, v)
    BY <2>3 DEF SentOn
  <2>4. v = NoteWrite(w) /\ w.raid.rs # "ReadyToRecovery" /\ w.unit[Other(s)].status # "Disconnected"
        /\ Data(w, s, {}, want, refused) /\ Handled(w) /\ Phase(w, s) /\ ~Unmarked(w, s)
        /\ (\A u \in Unit : ~Writes(w.unit[u])) /\ cmd.val \in want[cmd.lo]
    BY <1>1, <1>2, <1>4, <1>5, <1>7, <1>8, <1>12, TheOther DEF CommandWanted
  <2> HIDE DEF z, v, w
  <2>5. Data(z, s, {cmd}, want, refused)
    BY <1>4, <2>2, <2>8, <2>4, DataWritten
  <2>6. Under' = {cmd}
    BY <1>3, <1>4, <1>10, <1>12 DEF Under
  <2>7. raid'.dirty = raid.dirty
    BY <1>8, <2>2 DEF v
  <2> QED BY <1>10, <2>2, <2>5, <2>6, <2>7 DEF DataInv, StaysDirty, z
<1> QED BY <1>4, <1>11, <1>12 DEF Asked

(* A write that no disk waits for any more is over: its block is what it   *)
(* wrote, if no disk refused it and it is answered in full.                *)
LEMMA WriteIsOver ==
  ASSUME NEW w, TypedWorld(w), Cache \in Nat, NEW s \in Unit, NEW N, NEW R, NEW W, Data(w, s, W, N, R),
         \A u \in Unit : ~Writes(w.unit[u]),
         Mirrored(w, s) /\ Lost(w.unit[Other(s)]) => w.unit[Other(s)].status = "ConnectedRW",
         NEW M, \A b \in Block : \/ M[b] = N[b]
                                 \/ \E c \in W : c.lo = b /\ c.val \notin R /\ M[b] = {c.val}
  PROVE  Data(w, s, {}, M, R)
<1> DEFINE f == Other(s)
           x == w.unit[s]
           y == w.unit[f]
           h == w.raid.history
<1>1. f \in Unit /\ f # s /\ 0 \in Unit /\ 1 \in Unit /\ Unit = {s, f} /\ h \in Seq(Block)
  BY TheOther DEF Unit, TypedWorld, RaidType
<1>2. \A b : ~At(b, {})
  BY DEF At
<1>3. /\ \A c \in W : /\ c.val \in N[c.lo] /\ (x.data[c.lo] = c.val \/ c.val \in R)
                      /\ Has(y, c, N, R) => y.data[c.lo] = c.val \/ (c.val \in R /\ y.data[c.lo] \in N[c.lo])
      /\ Holds(x, N)
  BY <1>1 DEF Data, Has
<1>4. ASSUME NEW b \in Block, Differ(w, b, M, R)
      PROVE  \/ Differ(w, b, N, R)
             \/ \E c \in W : c.lo = b /\ c.val \notin R /\ ~Has(y, c, N, R)
  <2>1. CASE M[b] = N[b]
    BY <1>4, <2>1 DEF Differ
  <2>2. CASE \E c \in W : c.lo = b /\ c.val \notin R /\ M[b] = {c.val}
    <3>1. PICK c \in W : c.lo = b /\ c.val \notin R
      BY <2>2
    <3>2. x.data[b] = c.val /\ x.data[b] # y.data[b]
      BY <1>1, <1>3, <1>4, <3>1 DEF Differ
    <3>3. ~Has(y, c, N, R)
      BY <1>3, <3>1, <3>2
    <3> QED BY <3>1, <3>3
  <2> QED BY <2>1, <2>2
<1>5. ASSUME NEW b \in Block, At(b, W), \A c \in W : c.lo = b => Has(y, c, N, R)
      PROVE  ~Differ(w, b, N, R)
  <2>1. PICK c \in W : c.lo = b
    BY <1>5 DEF At
  <2>2. CASE c.val \in R
    <3>1. x.data[b] \in N[b] /\ y.data[b] \in N[b] /\ c.val \in N[b] \cap R
      BY <1>3, <1>5, <2>1, <2>2 DEF Holds
    <3> QED BY <1>1, <3>1 DEF Differ
  <2>3. CASE c.val \notin R
    BY <1>1, <1>3, <1>5, <2>1, <2>3 DEF Differ
  <2> QED BY <2>2, <2>3
<1>6. Holds(x, M)
  BY <1>3 DEF Holds
<1>7. ASSUME \A c \in W : Has(y, c, N, R), NEW b \in Block, y.data[b] \in N[b]
      PROVE  y.data[b] \in M[b]
  BY <1>3, <1>7
<1> HIDE DEF x, y, f, h
<1>8. Mirrored(w, s) => InMirrored(w, s, {}, M, R)
  <2> SUFFICES ASSUME Mirrored(w, s) PROVE InMirrored(w, s, {}, M, R)
    OBVIOUS
  <2>1. InMirrored(w, s, W, N, R)
    BY DEF Data
  <2>2. Serves(y) => /\ Aged(y, h, R) /\ Holds(y, M)
                     /\ \A b \in Block : ~Differ(w, b, M, R)
    <3> SUFFICES ASSUME Serves(y)
                 PROVE  Aged(y, h, R) /\ Holds(y, M) /\ \A b \in Block : ~Differ(w, b, M, R)
      OBVIOUS
    <3>1. /\ \A c \in W : Has(y, c, N, R)
          /\ Aged(y, h, R) /\ Holds(y, N)
          /\ \A b \in Block : Differ(w, b, N, R) => At(b, W)
      BY <2>1 DEF InMirrored, x, y, f, h
    <3> QED BY <1>4, <1>5, <1>7, <3>1 DEF Holds
  <2>3. Lost(y) => \A b \in Block : Differ(w, b, M, R) => b \in Blocks(h) /\ Among(h, b, Cache)
    <3> SUFFICES ASSUME Lost(y), NEW b \in Block, Differ(w, b, M, R)
                 PROVE  b \in Blocks(h) /\ Among(h, b, Cache)
      OBVIOUS
    <3>1. /\ \A c \in W : Among(h, c.lo, 1)
          /\ Safe(w, s, W, N, R) /\ (Differ(w, b, N, R) => b \in Blocks(h))
      BY <1>1, <2>1 DEF InMirrored, y, f, h
    <3>2. CASE Differ(w, b, N, R)
      BY <3>1, <3>2 DEF Safe, h
    <3>3. CASE \E c \in W : c.lo = b /\ c.val \notin R /\ ~Has(y, c, N, R)
      <4>1. PICK c \in W : c.lo = b /\ c.val \notin R /\ ~Has(y, c, N, R)
        BY <3>3
      <4>2. Cache # 0
        BY <3>1, <4>1 DEF Safe, Has, y, f
      <4>3. 1 \in Int /\ Cache \in Int /\ 1 <= Cache
        BY <4>2
      <4> QED BY <1>1, <3>1, <4>1, <4>3, AmongMore
    <3> QED BY <1>4, <3>2, <3>3
  <2> QED BY <1>2, <2>2, <2>3 DEF InMirrored, Safe, x, y, f, h
<1>9. Unmarked(w, s) => InUnmarked(w, {}, M, R)
  BY <1>2, <1>4 DEF Data, InUnmarked, At
<1>10. Degraded(w, s) => InDegraded(w, {}, M, R)
  BY <1>2, <1>4 DEF Data, InDegraded, At
<1>11. Returned(w, s) => InReturned(w, s, {}, M, R)
  <2> SUFFICES ASSUME Returned(w, s) PROVE InReturned(w, s, {}, M, R)
    OBVIOUS
  <2>1. /\ Aged(y, h, R)
        /\ \A b \in Block : /\ Differ(w, b, N, R) => At(b, W) \/ Clean(w, b, R)
                            /\ y.data[b] \in N[b] \/ ToCopy(w, b)
        /\ \A c \in W : Clean(w, c.lo, R) \/ Has(y, c, N, R)
    BY DEF Data, InReturned, y, f, h
  <2>2. \A b \in Block : Differ(w, b, M, R) => Clean(w, b, R)
    BY <1>4, <1>5, <2>1
  <2>3. ASSUME NEW b \in Block, ~ToCopy(w, b) PROVE y.data[b] \in M[b]
    <3>1. y.data[b] \in N[b] /\ \A c \in W : c.lo = b => Has(y, c, N, R)
      BY <2>1, <2>3 DEF Clean
    <3> QED BY <1>3, <3>1
  <2> QED BY <2>1, <2>2, <2>3 DEF InReturned, y, f, h
<1> QED BY <1>6, <1>8, <1>9, <1>10, <1>11 DEF Data, x, y, f, h

LEMMA NothingWritten ==
  IInv /\ CInv /\ cmd = NULL => \A u \in Unit : ~Writes(unit[u])
<1> SUFFICES ASSUME IInv, CInv, cmd = NULL
             PROVE  \A u \in Unit : ~Writes(unit[u])
  OBVIOUS
<1>1. \A u \in Unit : unit[u].queue = <<>>
  BY NothingLeft DEF CInv, CountMatches
<1> QED BY <1>1 DEF Writes

LEMMA WriteEnded ==
  ASSUME IInv', CInv', cmd' = NULL
  PROVE  \A u \in Unit : ~Writes(World'.unit[u])
<1>1. (IInv /\ CInv /\ cmd = NULL => \A u \in Unit : ~Writes(unit[u]))'
  BY NothingWritten, PTL
<1>2. World'.unit = unit'
  BY DEF World
<1> QED BY <1>1, <1>2

LEMMA WorkerCompletedKeepsData ==
  ASSUME Willing, IInv, CInv, DataInv, IInv', CInv', WorkerCompleted
  PROVE  DataInv' /\ StaysDirty
<1> DEFINE c == Head(inbox).c
           n == count - 1
           y == UpdateRAIDStatus(World)
<1>1. PICK s \in Unit : Phase(World, s) /\ Data(World, s, Under, want, refused)
  BY DEF DataInv
<1>2. Handled(World) /\ World.raid = raid /\ World.unit = unit /\ count \in Nat
      /\ \A d \in Under : d.lo \in Block
  BY Counted, UnderIsAsked DEF World
<1>3. /\ Queued("done") /\ (Queued("srb")' => Queued("srb"))
      /\ 1 \in DOMAIN inbox /\ inbox[1] = Head(inbox) /\ Head(inbox).k = "done"
  BY HeadTaken DEF WorkerCompleted
<1>4. count # 0 /\ n \in Nat
  BY <1>2, <1>3, NothingLeft DEF CInv
<1>5. cmd # NULL /\ cmd \in Asked /\ ~Queued("srb") /\ ~Queued("srb")'
  BY <1>3, <1>4 DEF CInv, CountMatches, CommandInv, IInv
<1>6. c.op = cmd.op
  BY <1>3 DEF CInv, PartsInv, PartOf
<1>7. SameButStatus(y, World) /\ Phase(y, s)
  BY <1>1, <1>2, PhaseUpdated
<1>8. ~c.ok /\ c.op = "read" => y.raid.rs # "Good"
  <2>1. ~c.ok /\ c.op = "read" => Failing
    BY <1>3 DEF Failing
  <2> HIDE DEF y
  <2>2. Failing => y.raid.rs # "Good"
    BY <1>1, <1>7, UpdateIsGood DEF y
  <2> QED BY <2>1, <2>2
<1>9. y.raid.rs = "Good" => ~Missing(World)
  BY <1>1, <1>2, Rated
<1>10. PICK o \in {ProcessSrbCompleted(World, c, n)} : Settle(o, n)
  BY DEF WorkerCompleted
<1> HIDE DEF c, n
<1>11. /\ TypedOutcome(o)
       /\ SameButStatus(o.w, World) /\ Phase(o.w, s) /\ o.w.raid.rs = y.raid.rs
       /\ \/ NoneSent(o) /\ (o.fin <=> n = 0)
          \/ /\ ~NoneSent(o) /\ ~o.fin /\ o.w.raid.rs # "Good" /\ cmd.op = "read"
             /\ \A u \in Unit : MaySend(o.w, o.to, u) /\ (o.to[u] # NULL => u = s)
  BY <1>1, <1>2, <1>5, <1>6, <1>8, <1>10, CompletedOutcome
<1> HIDE DEF y
<1>12. Data(o.w, s, Under, want, refused)
  BY <1>1, <1>2, <1>11, DataUpdated DEF y
<1>13. \A u \in Unit : o.to[u] # NULL => o.to[u].op # "write"
  BY <1>11 DEF NoneSent, MaySend, PartOf
<1>14. PhaseInv'
  BY DEF CInv
<1>15. Phase(World', s) /\ Data(World', s, Under, want, refused) /\ (o.w.raid.dirty => raid'.dirty)
  BY <1>2, <1>10, <1>11, <1>12, <1>13, <1>14, DataSettled
<1>16. StaysDirty
  BY <1>2, <1>11, <1>15 DEF StaysDirty, SameButStatus, SameArray
<1>17. /\ IF cmd # NULL /\ o.fin THEN cmd' = NULL /\ WantSettled ELSE cmd' = cmd /\ want' = want
       /\ refused' = refused
  <2>1. refused' = refused
    BY DEF WorkerCompleted, faults
  <2> QED BY <1>10, <1>11, <1>14, <2>1, SettledWorld
<1>18. CASE cmd' = cmd /\ want' = want
  <2>1. Under' = Under
    BY <1>5, <1>18, UnderKept
  <2> QED BY <1>15, <1>16, <1>17, <1>18, <2>1 DEF DataInv
<1>19. CASE cmd' = NULL /\ WantSettled
  <2> DEFINE z == World'
             x == z.unit[Other(s)]
  <2>1. \A u \in Unit : ~Writes(z.unit[u])
    BY <1>19, WriteEnded
  <2>2. Mirrored(z, s) /\ Lost(x) => x.status = "ConnectedRW"
    <3>1. /\ z.raid = AfterCommand(o.w).raid
          /\ \A u \in Unit : z.unit[u].status = AfterCommand(o.w).unit[u].status
      BY <1>10, <1>11, <1>14, SettledWorld
    <3>2. /\ AfterCommand(o.w).unit[Other(s)] = o.w.unit[Other(s)]
          /\ IF o.w.raid.rs = "GoodButPartiallyFailed" THEN Degraded(AfterCommand(o.w), s)
                                                       ELSE AfterCommand(o.w) = o.w
      BY <1>11, LossIsNoted DEF SameButStatus
    <3>3. z.raid.rs = "Good" => o.w.raid.rs = "Good"
      BY <3>1, <3>2 DEF Degraded
    <3>4. z.raid.rs = "Good" => ~Missed(World.unit[Other(s)])
      BY <1>9, <1>11, <3>3, TheOther DEF Missing
    <3>5. x.status = World.unit[Other(s)].status
      BY <1>11, <3>1, <3>2, TheOther DEF SameButStatus
    <3> QED BY <3>4, <3>5 DEF Mirrored, Lost, Missed, Is
  <2> HIDE DEF z
  <2>5. \A b \in Block : \/ want'[b] = want[b]
                         \/ \E d \in Under : d.lo = b /\ d.val \notin refused /\ want'[b] = {d.val}
    <3>1. cmd.op = "write" => Under = {cmd}
      BY <1>5 DEF Under
    <3>2. want \in [Block -> SUBSET Written]
      BY DEF IInv
    <3> QED BY <1>19, <3>1, <3>2 DEF WantSettled
  <2>6. TypedWorld(z) /\ Cache \in Nat
    BY <1>10, <1>11, <1>14, SettledWorld, Numbers DEF z
  <2> DEFINE N == want
             R == refused
             M == want'
  <2>7. Data(z, s, Under, N, R) /\ \A b \in Block : \/ M[b] = N[b]
                                                    \/ \E d \in Under : d.lo = b /\ d.val \notin R /\ M[b] = {d.val}
    BY <1>15, <2>5 DEF z
  <2> HIDE DEF N, R, M
  <2>3. Data(z, s, {}, M, R)
    BY <2>1, <2>2, <2>6, <2>7, WriteIsOver
  <2>4. Under' = {}
    BY <1>19 DEF Under
  <2> QED BY <1>15, <1>16, <1>17, <2>3, <2>4 DEF DataInv, z, M, R
<1> QED BY <1>17, <1>18, <1>19

-----------------------------------------------------------------------------
(* The recovery.                                                           *)

LEMMA RecoveryStartsData ==
  ASSUME Willing, NEW w, Handled(w), NEW s \in Unit, Phase(w, s), Returned(w, s), ~w.raid.inRecovery,
         NEW N, NEW R, NEW W, \A c \in W : c.lo \in Block, Data(w, s, W, N, R),
         w.raid.dirty \/ (Pending(w.unit[s]) <= 1 /\ W = {})
  PROVE  LET v == StartRecovery(w)
         IN  Phase(v, s) /\ Data(v, s, W, N, R) /\ v.raid.dirty = w.raid.dirty
<1> DEFINE v == StartRecovery(w)
           f == Other(s)
<1>1. /\ Handled(v) /\ Phase(v, s)
      /\ v.unit[s] = w.unit[s] /\ Untouched(v.unit[f], w.unit[f])
      /\ IF w.raid.rs = "ReadyToRecovery" /\ w.unit[f].status = "ConnectedRW"
         THEN /\ v.raid.rs = IF w.raid.dirty THEN "Recovering" ELSE "Good"
              /\ v.raid.inRecovery /\ v.raid.dirty = w.raid.dirty
              /\ v.raid.history = w.raid.history /\ v.raid.sector = 0
              /\ v.raid.map = IF w.raid.map # NULL THEN w.raid.map ELSE w.unit[s].map
         ELSE v = w
  BY RecoveryStarted
<1> HIDE DEF v
<1>2. CASE v = w
  BY <1>1, <1>2 DEF v
<1>3. CASE v # w
  <2>1. f \in Unit /\ f # s /\ 0 \in Unit /\ 1 \in Unit /\ Unit = {s, f}
    BY TheOther DEF Unit
  <2> HIDE DEF f
  <2>2. /\ v.raid.rs = IF w.raid.dirty THEN "Recovering" ELSE "Good"
        /\ v.raid.dirty = w.raid.dirty /\ v.raid.history = w.raid.history /\ v.raid.sector = 0
        /\ v.raid.map = IF w.raid.map # NULL THEN w.raid.map ELSE w.unit[s].map
    BY <1>1, <1>3
  <2>3. \A u \in Unit : SameStock(v.unit[u], w.unit[u])
    BY <1>1, <2>1 DEF Untouched, SameQueue, SameStock, Writes
  <2>4. CASE w.raid.dirty
    <3>1. w.raid.map # NULL /\ w.raid.sector = 0
      BY <2>4 DEF Returned
    <3>2. SameData(v, w)
      BY <2>2, <2>3, <3>1 DEF SameData
    <3>3. Goes(w.raid.rs, v.raid.rs) /\ v.raid.rs \notin {"Good", "GoodButPartiallyFailed"}
      BY <2>2, <2>4 DEF Goes, Returned
    <3>4. TypedWorld(w)
      BY DEF Handled
    <3>5. Data(v, s, W, N, R)
      BY <1>1, <3>2, <3>3, <3>4, DataGoesOn
    <3> QED BY <1>1, <2>2, <3>5 DEF v
  <2>5. CASE ~w.raid.dirty
    <3>1. W = {} /\ v.raid.rs = "Good" /\ ~v.raid.dirty
      BY <2>2, <2>5
    <3>2. \A b \in Block : ~Differ(w, b, N, R) /\ w.unit[f].data[b] \in N[b]
      BY <2>5, <3>1 DEF Data, InReturned, Clean, ToCopy, At, f
    <3>3. \A b \in Block : ~Differ(v, b, N, R)
      BY <2>1, <2>3, <3>2 DEF SameStock, Differ
    <3>4. \A u \in Unit : Aged(v.unit[u], v.raid.history, R) /\ Holds(v.unit[u], N)
      <4>1. \A u \in Unit : Aged(w.unit[u], w.raid.history, R) /\ Holds(w.unit[u], N)
        BY <2>1, <3>2 DEF Data, InReturned, Holds, f
      <4>2. v.raid.history = w.raid.history
        BY <1>1, <1>3
      <4> QED BY <2>3, <4>1, <4>2, StockKept DEF SameStock, Holds
    <3>5. Mirrored(v, s) /\ ~Unmarked(v, s) /\ ~Degraded(v, s) /\ ~Returned(v, s)
      BY <1>1, <3>1, PhaseByRating
    <3>6. ~Lost(v.unit[f])
      BY <1>1 DEF Returned, Back, Untouched, Lost, f
    <3>7. InMirrored(v, s, {}, N, R)
      BY <2>1, <3>3, <3>4, <3>6 DEF InMirrored, f
    <3>8. Data(v, s, {}, N, R)
      BY <3>4, <3>5, <3>7 DEF Data
    <3> QED BY <1>1, <2>2, <3>1, <3>8 DEF v
  <2> QED BY <2>4, <2>5
<1> QED BY <1>2, <1>3

LEMMA CopyKeepsData ==
  ASSUME Willing, NEW w, Handled(w), NEW s \in Unit, Phase(w, s), Returned(w, s), Level(w), w.raid.dirty,
         w.raid.sector < Capacity, \A u \in Unit : ~Writes(w.unit[u]),
         NEW N, NEW R, Data(w, s, {}, N, R)
  PROVE  LET v == CopyBlock(w)
         IN  Phase(v, s) /\ Data(v, s, {}, N, R) /\ (v.raid.dirty \/ v.raid.rs = "ReadyToRecovery")
<1> DEFINE v == CopyBlock(w)
           p == Passed(w, s)
           f == Other(s)
           k == w.raid.sector
           d == w.unit[s].data[k]
           h == w.raid.history
<1>1. f \in Unit /\ f # s /\ 0 \in Unit /\ 1 \in Unit /\ Unit = {s, f}
  BY TheOther DEF Unit
<1>2. /\ k \in Block /\ d \in Held /\ TypedUnit(w.unit[f]) /\ h \in Seq(Block)
      /\ k \in Int /\ Capacity \in Int
  BY <1>1, Numbers DEF Handled, TypedWorld, TypedUnit, TypedRaid, UnitType, RaidType, Block
<1>5. /\ \A b \in Block : Differ(w, b, N, R) => Clean(w, b, R)
      /\ \A b \in Block : w.unit[f].data[b] \in N[b] \/ ToCopy(w, b)
      /\ Holds(w.unit[s], N)
  BY DEF Data, InReturned, At, f
<1>6. Aged(w.unit[s], h, R) /\ Aged(w.unit[f], h, R)
  BY DEF Data, InReturned, h, f
<1>13. Returned(v, s) => ~Mirrored(v, s) /\ ~Unmarked(v, s) /\ ~Degraded(v, s)
  BY DEF Returned, Mirrored, Unmarked, Degraded
<1>15. CASE ~Copyable(w)
  <2>1. PICK c \in Unit : k \in w.raid.map /\ "copy" \in w.unit[c].fails
    BY <1>15 DEF Copyable
  <2>2. /\ Phase(v, s) /\ Returned(v, s)
        /\ \A u \in Unit : Untouched(v.unit[u], w.unit[u])
        /\ v.raid.history = h /\ v.raid.sector = k /\ v.raid.dirty /\ w.raid.map \subseteq v.raid.map
    BY <2>1, CopyRefused
  <2> HIDE DEF v, h, f
  <2>3. \A u \in Unit : SameStock(v.unit[u], w.unit[u])
    BY <2>2 DEF Untouched, SameStock, SameQueue, Writes
  <2>4. \A u \in Unit : /\ Aged(w.unit[u], h, R) => Aged(v.unit[u], h, R)
                        /\ v.unit[u].data = w.unit[u].data
    BY <2>3, StockKept DEF SameStock
  <2>5. \A b \in Block : /\ Differ(v, b, N, R) <=> Differ(w, b, N, R)
                         /\ ToCopy(w, b) => ToCopy(v, b)
                         /\ Clean(w, b, R) => Clean(v, b, R)
    BY <1>1, <2>2, <2>4 DEF Differ, ToCopy, Clean, h
  <2>6. InReturned(v, s, {}, N, R)
    BY <1>1, <1>5, <1>6, <2>2, <2>4, <2>5 DEF InReturned, f
  <2>7. Data(v, s, {}, N, R)
    BY <1>5, <1>6, <1>13, <2>2, <2>4, <2>6 DEF Data, Holds
  <2> QED BY <2>2, <2>7 DEF v
<1>16. CASE Copyable(w)
  <2>3. /\ Handled(v) /\ Phase(v, s) /\ Returned(v, s)
        /\ Untouched(v.unit[s], w.unit[s]) /\ Untouched(v.unit[f], p.unit[f])
        /\ Intact(v.unit[f], w.unit[f])
        /\ v.raid.history = h /\ v.raid.sector = k + 1
        /\ IF k + 1 >= Capacity
           THEN v.raid.rs = "ReadyToRecovery" /\ ~v.raid.dirty
           ELSE /\ v.raid.rs = "Recovering" /\ v.raid.dirty /\ v.raid.inRecovery
                /\ v.raid.map = p.raid.map
    BY <1>16, BlockCopied
  <2>4. /\ \A x \in w.raid.map : x > k => x \in p.raid.map
        /\ p.unit[f] = Stored(w, s)
    BY BlockPassed
  <2> HIDE DEF v, p, h
  <2>7. R = {} => (k \in Blocks(h) => w.unit[f].data[k] = d \/ Among(h, k, 1))
    BY <1>1, <1>2, <1>5 DEF Differ, Clean, h
  <2>8. /\ \A b \in Block : v.unit[f].data[b] = IF b = k /\ k \in w.raid.map THEN d
                                                ELSE w.unit[f].data[b]
        /\ Aged(v.unit[f], h, R)
    <3>1. CASE k \in w.raid.map
      <4> DEFINE x == Store(w.unit[f], k, d)
      <4>1. v.unit[f].data = x.data /\ v.unit[f].recent = x.recent
        BY <2>3, <2>4, <3>1 DEF Stored, Untouched
      <4>2. \A b \in Block : x.data[b] = IF b = k THEN d ELSE w.unit[f].data[b]
        BY <1>2, StoreIsIntact
      <4> HIDE DEF k, d, f
      <4>3. R = {} => Ages(v.unit[f], h)
        BY <1>2, <1>6, <2>7, <4>1, StoredAges DEF Aged
      <4> HIDE DEF x
      <4> QED BY <3>1, <4>1, <4>2, <4>3 DEF Aged
    <3>2. CASE k \notin w.raid.map
      <4> DEFINE x == w.unit[f]
      <4>1. p.unit[f] = x
        BY <2>4, <3>2 DEF Stored
      <4>2. Untouched(v.unit[f], x)
        BY <2>3, <4>1
      <4> HIDE DEF f, k, d, x
      <4>3. SameStock(v.unit[f], x)
        BY <4>2 DEF Untouched, SameStock, SameQueue, Writes
      <4> USE DEF x
      <4> QED BY <1>6, <3>2, <4>3, StockKept DEF SameStock
    <3> QED BY <3>1, <3>2
  <2>9. Aged(v.unit[s], h, R) /\ v.unit[s].data = w.unit[s].data
    <3>1. SameStock(v.unit[s], w.unit[s])
      BY <2>3 DEF Untouched, SameStock, SameQueue, Writes
    <3> QED BY <1>6, <3>1, StockKept DEF SameStock
  <2>5. ~ToCopy(w, k) <=> k \notin w.raid.map
    BY <1>2 DEF ToCopy
  <2>10. \A b \in Block : Differ(v, b, N, R) => b # k /\ Differ(w, b, N, R)
    <3>1. ASSUME NEW b \in Block, b # k, Differ(v, b, N, R) PROVE Differ(w, b, N, R)
      BY <1>1, <2>8, <2>9, <3>1 DEF Differ
    <3>2. ASSUME Differ(v, k, N, R) PROVE FALSE
      <4>1. CASE k \in w.raid.map
        <5>1. v.unit[s].data[k] = d /\ v.unit[f].data[k] = d
          BY <1>2, <2>8, <2>9, <4>1
        <5> HIDE DEF k, d, f
        <5>2. v.unit[0].data[k] = v.unit[1].data[k]
          BY <1>1, <5>1
        <5> QED BY <3>2, <5>2 DEF Differ
      <4>2. CASE k \notin w.raid.map
        <5>1. Differ(w, k, N, R)
          BY <1>1, <1>2, <2>8, <2>9, <3>2, <4>2 DEF Differ
        <5> QED BY <1>2, <1>5, <2>5, <4>2, <5>1 DEF Clean
      <4> QED BY <4>1, <4>2
    <3> QED BY <3>1, <3>2
  <2>11. ASSUME NEW b \in Block, b # k, ToCopy(w, b) PROVE ToCopy(v, b)
    <3>1. ToCopy(w, b) /\ b \in Int /\ b < Capacity
      BY <1>2, <2>11 DEF Block
    <3>2. b \in w.raid.map /\ b > k /\ k + 1 <= b
      BY <1>2, <2>11, <3>1 DEF ToCopy
    <3>3. v.raid.dirty /\ v.raid.map = p.raid.map /\ v.raid.sector = k + 1
      <4> HIDE DEF k
      <4>1. ~(k + 1 >= Capacity)
        BY <1>2, <3>1, <3>2
      <4> QED BY <2>3, <4>1
    <3>4. b \in p.raid.map
      BY <2>4, <3>2
    <3> HIDE DEF k
    <3> QED BY <3>2, <3>3, <3>4 DEF ToCopy
  <2>12. \A b \in Block : Differ(v, b, N, R) => Clean(v, b, R)
    BY <1>5, <2>3, <2>10, <2>11 DEF Clean, h
  <2>13. \A b \in Block : v.unit[f].data[b] \in N[b] \/ ToCopy(v, b)
    <3> SUFFICES ASSUME NEW b \in Block PROVE v.unit[f].data[b] \in N[b] \/ ToCopy(v, b)
      OBVIOUS
    <3>1. CASE b = k
      BY <1>2, <1>5, <2>5, <2>8, <3>1 DEF Holds
    <3>2. CASE b # k
      BY <1>5, <2>8, <2>11, <3>2
    <3> QED BY <3>1, <3>2
  <2>14. InReturned(v, s, {}, N, R)
    BY <2>3, <2>8, <2>12, <2>13 DEF InReturned, f
  <2>15. Data(v, s, {}, N, R)
    BY <1>5, <1>13, <2>3, <2>9, <2>14 DEF Data, Holds
  <2> QED BY <2>3, <2>15 DEF v
<1> QED BY <1>15, <1>16

LEMMA RecoveryKeepsData ==
  ASSUME Willing, NEW w, Handled(w), NEW s \in Unit, Phase(w, s), Returned(w, s),
         NEW N, NEW R, NEW W, \A c \in W : c.lo \in Block, Data(w, s, W, N, R),
         w.raid.dirty \/ (Pending(w.unit[s]) <= 1 /\ W = {}),
         w.raid.inRecovery => W = {} /\ \A u \in Unit : ~Writes(w.unit[u]), NEW v \in Recovery(w)
  PROVE  /\ Phase(v, s) /\ Data(v, s, W, N, R)
         /\ w.raid.dirty => v.raid.dirty \/ v.raid.rs = "ReadyToRecovery"
<1> DEFINE x == Resumed(w)
<1>1. /\ Handled(x) /\ Phase(x, s) /\ Returned(x, s) /\ x.unit = w.unit
      /\ x.raid.dirty = w.raid.dirty /\ x.raid.map = w.raid.map
      /\ x.raid.sector = w.raid.sector /\ x.raid.history = w.raid.history
      /\ x.raid.inRecovery <=> w.raid.inRecovery /\ Level(w)
      /\ x.raid.rs = IF w.raid.inRecovery THEN "Recovering" ELSE "ReadyToRecovery"
      /\ v = IF ~x.raid.inRecovery THEN StartRecovery(x)
             ELSE IF x.raid.sector >= Capacity THEN x ELSE CopyBlock(x)
  BY RecoveryResumes
<1> HIDE DEF x
<1>2. SameData(x, w) /\ TypedWorld(w)
  BY <1>1 DEF SameData, SameStock, Handled
<1>3. Goes(w.raid.rs, x.raid.rs) /\ x.raid.rs \notin {"Good", "GoodButPartiallyFailed"}
  BY <1>1 DEF Goes, Returned
<1>4. Data(x, s, W, N, R)
  BY <1>1, <1>2, <1>3, DataGoesOn
<1>5. CASE ~x.raid.inRecovery
  BY <1>1, <1>4, <1>5, RecoveryStartsData
<1>6. CASE x.raid.inRecovery
  <2>1. W = {} /\ \A u \in Unit : ~Writes(x.unit[u])
    BY <1>1, <1>6
  <2>2. Level(x) /\ x.raid.dirty
    BY <1>1, <1>6 DEF Returned, Level
  <2>3. CASE x.raid.sector >= Capacity
    BY <1>1, <1>4, <1>6, <2>3
  <2>4. CASE ~(x.raid.sector >= Capacity)
    <3>1. x.raid.sector < Capacity
      BY <1>1, <2>4, Numbers DEF Handled, TypedWorld, TypedRaid, RaidType
    <3> QED BY <1>1, <1>4, <1>6, <2>1, <2>2, <2>4, <3>1, CopyKeepsData
  <2> QED BY <2>3, <2>4
<1> QED BY <1>5, <1>6

LEMMA RecoverKeepsData ==
  ASSUME Willing, IInv, CInv, DataInv, IInv', CInv', Recover
  PROVE  DataInv' /\ StaysDirty
<1>1. PICK s \in Unit : Phase(World, s) /\ Data(World, s, Under, want, refused)
  BY DEF DataInv
<1>2. Handled(World) /\ World.raid = raid /\ World.unit = unit
  BY Counted DEF World
<1>12. /\ cmd' = cmd /\ inbox' = inbox /\ want' = want /\ refused' = refused
       /\ raid.rs = "Recovering" /\ inbox = <<>> /\ \A u \in Unit : unit[u].queue = <<>>
  BY DEF Recover, command, history, faults
<1>13. PICK w \in Recovery(World) : unit' = w.unit /\ raid' = w.raid
  BY DEF Recover
<1>3. /\ unit' = w.unit /\ raid' = w.raid
      /\ raid.rs = "Recovering" /\ inbox = <<>> /\ \A u \in Unit : unit[u].queue = <<>>
  BY <1>12, <1>13
<1>4. Returned(World, s) /\ raid.dirty
  BY <1>1, <1>2, <1>3 DEF Phase, Mirrored, Unmarked, Degraded, Returned
<1>5. \A u \in Unit : ~Writes(unit[u])
  BY <1>3 DEF Writes
<1>6. cmd = NULL
  BY RecoverIsIdle
<1>7. Under = {} /\ \A c \in {} : c.lo \in Block
  BY <1>6 DEF Under
<1>8. /\ Phase(w, s) /\ Data(w, s, {}, want, refused) /\ (raid.dirty => w.raid.dirty \/ w.raid.rs = "ReadyToRecovery")
      /\ Handled(w)
  BY <1>1, <1>2, <1>4, <1>5, <1>7, RecoveryKeepsData, RecoveryKeepsPhase
<1>9. World' = w
  BY <1>3, <1>8 DEF World, Handled, TypedWorld
<1>10. Under' = {}
  BY <1>6, <1>12 DEF Under
<1>11. StaysDirty
  BY <1>3, <1>8 DEF StaysDirty
<1> QED BY <1>8, <1>9, <1>10, <1>11, <1>12 DEF DataInv

LEMMA WorkerNoPnpKeepsData ==
  ASSUME Willing, IInv, CInv, DataInv, IInv', CInv', WorkerNoPnp
  PROVE  DataInv' /\ StaysDirty
<1> DEFINE w == UpdateRAIDStatus(World)
           o == Outcome(w, res, FALSE, ToNone)
<1>1. PICK s \in Unit : Phase(World, s) /\ Data(World, s, Under, want, refused)
  BY DEF DataInv
<1>2. Handled(World) /\ World.raid = raid /\ \A c \in Under : c.lo \in Block
  BY Counted, UnderIsAsked DEF World
<1>3. Settle(o, count)
  BY <1>1, <1>2, OwnStatusKept DEF WorkerNoPnp
<1>4. SameButStatus(w, World) /\ Phase(w, s)
  BY <1>1, <1>2, PhaseUpdated
<1>5. Data(w, s, Under, want, refused)
  BY <1>1, <1>2, <1>4, DataUpdated
<1> HIDE DEF w
<1>6. o.w = w /\ ~o.fin /\ o.to = ToNone /\ TypedOutcome(o)
  BY <1>4, NothingSentTyped DEF Outcome, SameButStatus
<1> HIDE DEF o
<1>7. \A u \in Unit : o.to[u] # NULL => o.to[u].op # "write"
  BY <1>6 DEF ToNone
<1>8. PhaseInv'
  BY DEF CInv
<1>9. Phase(World', s) /\ Data(World', s, Under, want, refused) /\ (o.w.raid.dirty => raid'.dirty)
  BY <1>2, <1>3, <1>4, <1>5, <1>6, <1>7, <1>8, DataSettled
<1>10. cmd' = cmd /\ want' = want /\ refused' = refused
  <2>1. refused' = refused
    BY DEF WorkerNoPnp, faults
  <2> QED BY <1>3, <1>4, <1>6, <1>8, <2>1, SettledWorld
<1>11. Queued("srb")' <=> Queued("srb")
  <2>1. inbox # <<>> /\ inbox' = Tail(inbox) /\ inbox[1].k = "noPnp" /\ (Queued("srb")' => Queued("srb"))
    BY HeadTaken DEF WorkerNoPnp
  <2>2. ASSUME NEW i \in DOMAIN inbox, inbox[i].k = "srb"
        PROVE  Queued("srb")'
    <3>1. i - 1 \in DOMAIN inbox' /\ inbox'[i - 1] = inbox[i]
      BY <2>1, <2>2, Tailed DEF IInv
    <3> QED BY <2>2, <3>1 DEF Queued
  <2> QED BY <2>1, <2>2 DEF Queued
<1>12. Under' = Under
  BY <1>10, <1>11, UnderKept
<1>13. StaysDirty
  BY <1>2, <1>4, <1>6, <1>9 DEF StaysDirty, SameButStatus, SameArray
<1> QED BY <1>9, <1>10, <1>12, <1>13 DEF DataInv

LEMMA WorkerPnpKeepsData ==
  ASSUME Willing, IInv, CInv, DataInv, IInv', CInv', WorkerPnp
  PROVE  DataInv' /\ StaysDirty
<1> DEFINE w == UpdateRAIDStatus(World)
<1>1. PICK s \in Unit : Phase(World, s) /\ Data(World, s, Under, want, refused)
  BY DEF DataInv
<1>2. Handled(World) /\ World.raid = raid /\ World.unit = unit /\ count \in Nat
      /\ \A c \in Under : c.lo \in Block
  BY Counted, UnderIsAsked DEF World
<1>3. PICK x \in PnpHandled(w) : Settle(Outcome(x, res, FALSE, ToNone), count)
  BY <1>1, <1>2, OwnStatusKept DEF WorkerPnp
<1> DEFINE o == Outcome(x, res, FALSE, ToNone)
<1>4. SameButStatus(w, World) /\ Phase(w, s) /\ Handled(w) /\ w.unit = unit
      /\ w.raid.rs = UpdateRAIDStatus(World).raid.rs
  BY <1>1, <1>2, PhaseUpdated DEF SameButStatus
<1>5. Data(w, s, Under, want, refused)
  BY <1>1, <1>2, <1>4, DataUpdated
<1>6. w.raid.rs = "ReadyToRecovery" /\ ~w.raid.dirty => cmd = NULL
  BY <1>1, <1>4, UpdateIsGood
<1> HIDE DEF w
<1>7. /\ Handled(x) /\ Phase(x, s) /\ Data(x, s, Under, want, refused)
      /\ w.raid.dirty => x.raid.dirty \/ x.raid.rs = "ReadyToRecovery"
  <2>1. CASE w.raid.rs # "ReadyToRecovery"
    <3>1. x = w
      BY <1>3, <2>1 DEF PnpHandled
    <3> QED BY <1>4, <1>5, <3>1
  <2>2. CASE w.raid.rs = "ReadyToRecovery"
    <3>1. IsWorkable(w) /\ RaidRunning(w)
      BY <1>4 DEF Phase, Serves, Is, IsWorkable, RaidRunning
    <3>2. x \in Recovery(w)
      BY <1>3, <2>2, <3>1 DEF PnpHandled
    <3>3. Returned(w, s) /\ ~w.raid.inRecovery
      BY <1>4, <2>2 DEF Phase, Mirrored, Unmarked, Degraded, Returned
    <3>4. ~w.raid.dirty => Pending(w.unit[s]) <= 1 /\ Under = {}
      <4> SUFFICES ASSUME ~w.raid.dirty PROVE Pending(w.unit[s]) <= 1 /\ Under = {}
        OBVIOUS
      <4>1. cmd = NULL /\ count = 0
        BY <1>6, <2>2 DEF CInv, CountMatches
      <4>2. Pending(unit[s]) = 0
        BY <4>1, NothingLeft DEF CInv
      <4> QED BY <1>4, <4>1, <4>2 DEF Under
    <3> QED BY <1>2, <1>4, <1>5, <3>2, <3>3, <3>4, RecoveryKeepsData, RecoveryKeepsPhase
  <2> QED BY <2>1, <2>2
<1>8. o.w = x /\ ~o.fin /\ o.to = ToNone /\ TypedOutcome(o) /\ Settle(o, count)
  BY <1>3, <1>7, NothingSentTyped DEF Outcome
<1> HIDE DEF o
<1>9. \A u \in Unit : o.to[u] # NULL => o.to[u].op # "write"
  BY <1>8 DEF ToNone
<1>10. PhaseInv'
  BY DEF CInv
<1>11. Phase(World', s) /\ Data(World', s, Under, want, refused) /\ (o.w.raid.dirty => raid'.dirty)
  BY <1>2, <1>7, <1>8, <1>9, <1>10, DataSettled
<1>12. cmd' = cmd /\ want' = want /\ refused' = refused
  <2>1. refused' = refused
    BY DEF WorkerPnp, faults
  <2> QED BY <1>3, <1>7, <1>8, <1>10, <2>1, SettledWorld
<1>13. Under' = Under
  BY <1>12, UnderKept DEF WorkerPnp, Queued
<1>14. StaysDirty
  <2>1. \/ AfterCommand(x).raid.rs = "ReadyToRecovery" /\ World'.raid = AfterCommand(x).raid
        \/ x.raid.rs # "ReadyToRecovery"
    <3>1. World'.raid = AfterCommand(o.w).raid
      BY <1>3, <1>7, <1>8, <1>10, SettledWorld
    <3> QED BY <1>8, <3>1 DEF AfterCommand
  <2>2. raid.dirty = w.raid.dirty /\ raid' = World'.raid
    BY <1>2, <1>4 DEF SameButStatus, SameArray, World
  <2> QED BY <1>7, <1>8, <1>11, <2>1, <2>2 DEF StaysDirty
<1> QED BY <1>11, <1>12, <1>13, <1>14 DEF DataInv

-----------------------------------------------------------------------------
(* Every step.                                                             *)

LEMMA ByBusKeepsData ==
  ASSUME IInv, IInv', NEW s \in Unit, Phase(World, s), Data(World, s, Under, want, refused), ByBusOnly(s),
         want' = want, refused' = refused
  PROVE  DataInv' /\ StaysDirty
<1> DEFINE f == Other(s)
           w == World
           v == World'
<1>1. f \in Unit /\ f # s /\ Unit = {s, f} /\ w.unit = unit /\ w.raid = raid /\ v.raid = raid'
  BY TheOther DEF World
<1>2. TypedWorld(w)
  BY Counted DEF Handled
<1>3. /\ cmd = NULL /\ cmd' = NULL /\ SameArray(v, w) /\ Phase(v, s)
      /\ v.unit[s] = w.unit[s] /\ v.unit[f].queue = w.unit[f].queue
      /\ v.unit[f].data = w.unit[f].data /\ v.unit[f].recent = w.unit[f].recent
      /\ v.unit[f].link = w.unit[f].link
      /\ w.unit[f].status = "NotPresent" /\ v.unit[f].status # "ConnectedRW" /\ v.raid.rs # "Good"
  BY <1>1 DEF ByBusOnly
<1> HIDE DEF f, v
<1>4. Under = {} /\ Under' = {}
  BY <1>3 DEF Under
<1>5. SameData(v, w)
  BY <1>1, <1>3 DEF SameData, SameStock, Writes, SameArray
<1>6. ~Serves(w.unit[f]) /\ ~Back(w.unit[f])
  BY <1>3 DEF Serves, Back, Is
<1>7. Goes(w.raid.rs, v.raid.rs)
  <2> HIDE DEF w
  <2>1. v.raid.dirty = w.raid.dirty
    BY <1>3 DEF SameArray
  <2>2. ~Returned(w, s)
    BY <1>6 DEF Returned, f
  <2>3. CASE Mirrored(w, s) \/ Unmarked(w, s)
    <3>1. ~w.raid.dirty /\ ~w.unit[f].link /\ w.raid.rs \in {"Good", "GoodButPartiallyFailed"}
      BY <1>6, <2>3 DEF Mirrored, Unmarked, Lost, f
    <3>2. Unmarked(v, s)
      BY <1>3, <2>1, <3>1 DEF Phase, Mirrored, Degraded, Returned, Back, f
    <3> QED BY <3>1, <3>2 DEF Goes, Unmarked
  <2>4. CASE Degraded(w, s)
    <3>1. w.raid.dirty /\ w.raid.rs = "BrokenButWorkable"
      BY <2>4 DEF Degraded
    <3>2. Degraded(v, s) \/ Returned(v, s)
      BY <1>3, <2>1, <3>1 DEF Phase, Mirrored, Unmarked
    <3> QED BY <3>1, <3>2 DEF Goes, Degraded, Returned
  <2>5. Phase(w, s)
    BY DEF w
  <2> QED BY <2>2, <2>3, <2>4, <2>5 DEF Phase
<1>8. AsLost(v.unit[f], w.unit[f])
  BY <1>3 DEF AsLost
<1>9. \A c \in {} : c.lo \in Block
  OBVIOUS
<1>10. Phase(w, s) /\ Data(w, s, {}, want, refused)
  BY <1>4
<1> HIDE DEF w
<1>11. Data(v, s, {}, want, refused)
  BY <1>2, <1>3, <1>5, <1>7, <1>8, <1>9, <1>10, DataGoesOn DEF f
<1>12. StaysDirty
  BY <1>1, <1>3 DEF StaysDirty, SameArray
<1> QED BY <1>3, <1>4, <1>11, <1>12 DEF DataInv, v

LEMMA InitDataInv == Init => DataInv
<1> SUFFICES ASSUME Init PROVE DataInv
  OBVIOUS
<1>1. PICK s \in Unit : Phase(World, s)
  BY InitCInv DEF CInv, PhaseInv
<1>2. Under = {}
  BY DEF Init, Under
<1>3. /\ \A u \in Unit : World.unit[u].data = [b \in Block |-> 0] /\ World.unit[u].recent = <<>>
      /\ World.raid.history = <<>> /\ World.raid.rs = "Good"
      /\ \A u \in Unit : World.unit[u].link /\ 0 \in Unit /\ 1 \in Unit
  BY DEF Init, World, Unit
<1> DEFINE w == World
<1> HIDE DEF w
<1>4. \A b \in Block : ~Differ(w, b, want, refused)
  BY <1>3 DEF Differ, w
<1>5. \A u \in Unit : Aged(w.unit[u], w.raid.history, refused) /\ Holds(w.unit[u], want)
  BY <1>3 DEF Init, Ages, Aged, Holds, Blocks, w
<1>6. Mirrored(w, s) /\ ~Unmarked(w, s) /\ ~Degraded(w, s) /\ ~Returned(w, s)
  BY <1>1, <1>3, PhaseByRating DEF w
<1>7. Other(s) \in Unit
  BY TheOther
<1>8. InMirrored(w, s, {}, want, refused)
  BY <1>4, <1>5, <1>7 DEF InMirrored, Safe
<1>9. Data(w, s, {}, want, refused)
  BY <1>5, <1>6, <1>8 DEF Data
<1> QED BY <1>1, <1>2, <1>9 DEF DataInv, w

(* The host's command is a range of blocks, or the write of one block that *)
(* may hold from then on what is written.                                  *)
LEMMA SettledKeepsCommand ==
  ASSUME CommandWanted, NEW fin, NEW rs, NEW r, AnsweredIf(fin, rs, r)
  PROVE  CommandWanted'
BY DEF CommandWanted, AnsweredIf, Answered

LEMMA StepCommandWanted ==
  ASSUME IInv, CommandWanted, [Next]_vars
  PROVE  CommandWanted'
<1>1. ASSUME NEW op \in {"read", "write"}, NEW lo \in Block, NEW hi \in Block,
             op = "write" => lo = hi, lo = hi \/ (lo = 0 /\ hi = Capacity - 1), Issue(op, lo, hi)
      PROVE  CommandWanted'
  <2>1. lo <= hi /\ lo \in Block
    BY <1>1, Numbers DEF Block
  <2>2. op = "write" => want' = [want EXCEPT ![lo] = @ \cup {issued + 1}]
    BY <1>1 DEF Issue
  <2>3. /\ cmd' = [op |-> op, lo |-> lo, hi |-> hi, val |-> IF op = "write" THEN issued + 1 ELSE 0]
        /\ want \in [Block -> SUBSET Written]
    BY <1>1 DEF Issue, IInv
  <2>4. op = "write" => issued + 1 \in want'[lo]
    BY <2>1, <2>2, <2>3
  <2> QED BY <1>1, <2>1, <2>3, <2>4 DEF CommandWanted
<1>2. ASSUME cmd' = cmd, want' = want PROVE CommandWanted'
  BY <1>2 DEF CommandWanted
<1>3. ASSUME NEW u \in Unit, SwitchOff(u) \/ SwitchOn(u) PROVE CommandWanted'
  BY <1>2, <1>3 DEF SwitchOff, SwitchOn, command, history
<1>4. ASSUME NEW u \in Unit, NEW k \in Kind, Falter(u, k) PROVE CommandWanted'
  BY <1>2, <1>4 DEF Falter, command, history
<1>5. CASE WorkerSrb
  BY <1>5, SettledKeepsCommand DEF WorkerSrb, Settle
<1>6. CASE WorkerCompleted
  BY <1>6, SettledKeepsCommand DEF WorkerCompleted, Settle
<1>7. CASE WorkerNoPnp
  BY <1>7, SettledKeepsCommand DEF WorkerNoPnp, Settle
<1>8. CASE WorkerPnp
  BY <1>8, SettledKeepsCommand DEF WorkerPnp, Settle
<1>9. CASE TimedOut
  BY <1>9, SettledKeepsCommand DEF TimedOut
<1>10. CASE Recover
  BY <1>2, <1>10 DEF Recover, command, history
<1>11. ASSUME NEW u \in Unit, UnitSrb(u) \/ UnitGone(u) PROVE CommandWanted'
  BY <1>2, <1>11 DEF UnitSrb, UnitGone, UnitStep, command, history
<1>12. ASSUME NEW u \in Unit, BusRemoves(u) \/ Appear(u) PROVE CommandWanted'
  BY <1>2, <1>12 DEF BusRemoves, Appear, ByBus, command, history
<1>13. ASSUME NEW u \in Unit, NEW late \in BOOLEAN, NEW asked \in BOOLEAN, UnitPnp(u, late, asked)
       PROVE  CommandWanted'
  BY <1>2, <1>13 DEF UnitPnp, UnitStep, command, history
<1>14. CASE UNCHANGED vars
  BY <1>2, <1>14 DEF vars, command, history
<1> QED BY <1>1, <1>3, <1>4, <1>5, <1>6, <1>7, <1>8, <1>9, <1>10, <1>11, <1>12, <1>13, <1>14
        DEF Next, Environment

LEMMA StepDataInv ==
  ASSUME Careful, Willing, IInv, CInv, CommandWanted, DataInv, [Next]_vars
  PROVE  CommandWanted' /\ DataInv' /\ StaysDirty
<1>1. IInv' /\ CInv' /\ CommandWanted'
  BY StepIInv, StepCInv, StepCommandWanted
<1>2. ASSUME NEW op \in {"read", "write"}, NEW lo \in Block, NEW hi \in Block, Issue(op, lo, hi)
      PROVE  DataInv' /\ StaysDirty
  BY <1>1, <1>2, IssueKeepsData
<1>3. ASSUME NEW u \in Unit, SwitchOff(u) \/ SwitchOn(u) PROVE DataInv' /\ StaysDirty
  BY <1>1, <1>3, SwitchOffKeepsData, SwitchOnKeepsData
<1>15. ASSUME NEW u \in Unit, NEW k \in Kind, Falter(u, k) PROVE DataInv' /\ StaysDirty
  BY <1>1, <1>15, FalterKeepsData
<1>4. CASE WorkerSrb
  BY <1>1, <1>4, WorkerSrbKeepsData
<1>5. CASE WorkerCompleted
  BY <1>1, <1>5, WorkerCompletedKeepsData
<1>6. CASE WorkerNoPnp
  BY <1>1, <1>6, WorkerNoPnpKeepsData
<1>7. CASE WorkerPnp
  BY <1>1, <1>7, WorkerPnpKeepsData
<1>8. CASE TimedOut
  BY <1>1, <1>8, TimedOutKeepsData
<1>9. CASE Recover
  BY <1>1, <1>9, RecoverKeepsData
<1>10. ASSUME NEW u \in Unit, UnitSrb(u) PROVE DataInv' /\ StaysDirty
  BY <1>1, <1>10, UnitSrbKeepsData
<1>11. ASSUME NEW u \in Unit, UnitGone(u) PROVE DataInv' /\ StaysDirty
  BY <1>1, <1>11, UnitGoneKeepsData
<1>12. ASSUME NEW u \in Unit, BusRemoves(u) \/ Appear(u) PROVE DataInv' /\ StaysDirty
  <2>1. PICK s \in Unit : Phase(World, s) /\ Data(World, s, Under, want, refused)
    BY DEF DataInv
  <2>2. ByBusOnly(s)
    BY <1>1, <1>12, <2>1, BusRemovesKeepsPhase, AppearKeepsPhase
  <2>3. want' = want /\ refused' = refused
    BY <1>12 DEF BusRemoves, Appear, ByBus, history, faults
  <2> QED BY <1>1, <2>1, <2>2, <2>3, ByBusKeepsData
<1>13. ASSUME NEW u \in Unit, NEW late \in BOOLEAN, NEW asked \in BOOLEAN, UnitPnp(u, late, asked)
       PROVE  DataInv' /\ StaysDirty
  BY <1>1, <1>13, UnitPnpKeepsData
<1>14. CASE UNCHANGED vars
  <2>1. /\ unit' = unit /\ raid' = raid /\ cmd' = cmd /\ inbox' = inbox
        /\ want' = want /\ refused' = refused
    BY <1>14 DEF vars, command, history, faults
  <2>2. World' = World /\ Under' = Under
    BY <2>1 DEF World, Under, Queued
  <2> QED BY <1>1, <2>1, <2>2 DEF DataInv, StaysDirty
<1> QED BY <1>1, <1>2, <1>3, <1>4, <1>5, <1>6, <1>7, <1>8, <1>9, <1>10, <1>11, <1>12, <1>13, <1>14,
           <1>15
        DEF Next, Environment

LEMMA DataInvAlways ==
  ASSUME Careful, Willing PROVE Spec => [](IInv /\ CInv /\ CommandWanted /\ DataInv)
<1>1. Init => DataInv /\ CommandWanted
  BY InitDataInv DEF Init, CommandWanted
<1>2. IInv /\ CInv /\ CommandWanted /\ DataInv /\ [Next]_vars => CommandWanted' /\ DataInv'
  BY StepDataInv
<1> QED BY <1>1, <1>2, IInvAlways, CInvAlways, PTL DEF Spec

(* A block in which the disks differ is being written, or the bitmap or    *)
(* the history of writes knows it, or a disk refused a write of it that    *)
(* the host has not repeated, in every phase of the array: what a disk     *)
(* lost with its cache, and what it missed, will be copied (the write      *)
(* handler of NDASRAIDUnitDeviceController.cpp, initAndSetBitmap and       *)
(* recovery).  A careful environment (Careful) and disks that refuse only  *)
(* writes and the recovery's I/O (Willing) are assumed.                    *)
THEOREM MirrorRecords == ASSUME Careful, Willing PROVE Spec => []Recorded
<1>1. IInv /\ CInv /\ CommandWanted /\ DataInv => Recorded
  <2> SUFFICES ASSUME Willing, IInv, CInv, DataInv, NEW b \in Block,
                      unit[0].data[b] # unit[1].data[b], ~Doubtful(b),
                      ~(cmd # NULL /\ cmd.op = "write" /\ cmd.lo = b)
               PROVE  Marked(b)
    BY DEF Recorded
  <2> DEFINE w == World
             N == want
             R == refused
  <2>1. PICK s \in Unit : Phase(w, s) /\ Data(w, s, Under, N, R)
    BY DEF DataInv
  <2>2. w.unit = unit /\ w.raid = raid /\ N[b] \cap R = {}
    BY DEF World, Doubtful
  <2> HIDE DEF w, N, R
  <2>3. Differ(w, b, N, R) /\ ~At(b, Under)
    BY <2>2 DEF Differ, At, Under
  <2>4. CASE Mirrored(w, s)
    <3>1. InMirrored(w, s, Under, N, R) /\ ~w.raid.dirty
      BY <2>1, <2>4 DEF Data, Mirrored
    <3>2. b \in Blocks(w.raid.history)
      BY <2>3, <2>4, <3>1 DEF InMirrored, Mirrored
    <3> QED BY <2>2, <3>1, <3>2 DEF Marked
  <2>5. CASE Unmarked(w, s)
    BY <2>1, <2>2, <2>3, <2>5 DEF Data, InUnmarked, Unmarked, Marked
  <2>6. CASE Degraded(w, s)
    BY <2>1, <2>2, <2>3, <2>6 DEF Data, InDegraded, Degraded, Marked
  <2>7. CASE Returned(w, s)
    <3>1. ToCopy(w, b)
      BY <2>1, <2>3, <2>7 DEF Data, InReturned, Clean
    <3> QED BY <2>2, <2>7, <3>1 DEF ToCopy, Returned, Marked
  <2> QED BY <2>1, <2>4, <2>5, <2>6, <2>7 DEF Phase
<1>2. ASSUME Careful, Willing PROVE Spec => [](IInv /\ CInv /\ CommandWanted /\ DataInv)
  BY <1>2, DataInvAlways
<1> QED BY <1>1, <1>2, PTL

(* When the array is no longer dirty its disks hold the same, but in the   *)
(* blocks that a disk refused to write and the host has not written since: *)
(* the recovery ends with every block copied, whatever was written, and    *)
(* wherever, while it went on ("Recovery is done", NDASRAIDUnitDevice.cpp),*)
(* and though the I/O of the recovery is refused now and then.  The same   *)
(* is assumed (Careful, Willing).                                          *)
THEOREM MirrorRecoversInSync == ASSUME Careful, Willing PROVE Spec => RecoveryDoneInSync
<1>1. /\ IInv /\ CInv /\ CommandWanted /\ DataInv /\ IInv' /\ CInv' /\ DataInv' /\ [Next]_vars
      => (raid.dirty /\ ~raid'.dirty => Copies')
  <2> SUFFICES ASSUME IInv, CInv, CommandWanted, DataInv, IInv', CInv', DataInv', [Next]_vars,
                      raid.dirty, ~raid'.dirty
               PROVE  Copies'
    OBVIOUS
  <2> DEFINE v == World'
             N == want'
             R == refused'
  <2>1. raid'.rs = "ReadyToRecovery"
    BY StepDataInv DEF StaysDirty
  <2>2. PICK s \in Unit : Phase(v, s) /\ Data(v, s, Under', N, R)
    BY DEF DataInv
  <2>3. v.unit = unit' /\ v.raid = raid'
    BY DEF World
  <2>4. Under' = {}
    <3>1. cmd' = NULL
      BY <2>1 DEF CInv, CommandInv
    <3> QED BY <3>1 DEF Under
  <2> HIDE DEF v, N, R
  <2>5. InReturned(v, s, {}, N, R)
    BY <2>1, <2>2, <2>3, <2>4, PhaseByRating DEF Data
  <2>6. \A b \in Block : ~Differ(v, b, N, R)
    BY <2>3, <2>5 DEF InReturned, Clean, ToCopy, At
  <2>7. ASSUME NEW b \in Block, N[b] \cap R = {} PROVE unit'[0].data[b] = unit'[1].data[b]
    BY <2>3, <2>6, <2>7 DEF Differ
  <2> QED BY <2>7 DEF Copies, Doubtful, N, R
<1> QED BY <1>1, DataInvAlways, PTL DEF Spec, RecoveryDoneInSync
==============================================================================

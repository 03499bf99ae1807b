------------------------ MODULE RaidMirrorPhaseProofs ------------------------
(***************************************************************************)
(* The phases that a mirror goes through as a disk is lost, comes back and *)
(* is brought up to date, and the commands that are under way in each, as  *)
(* long as outages and commands keep out of the windows that Careful       *)
(* closes: one of the two disks serves all the time.  A disk may refuse    *)
(* writes, and the copying of blocks.                                      *)
(***************************************************************************)
EXTENDS RaidMirrorProofs

-----------------------------------------------------------------------------
(* The disks and the metadata.                                             *)

(* What the disks may refuse: not their metadata, nor their bitmap.        *)
Willing == Refusable \subseteq {"write", "copy"}

Is(x, status, sess) == x.status = status /\ x.sess = sess

Serves(x) == Is(x, "ConnectedRW", "up") /\ x.link /\ x.member /\ x.pend = NULL

(* Switched off, and not yet noticed by the array: the session is broken,  *)
(* or found to be, or the unit device is deleted.                          *)
Lost(x) ==
  /\ ~x.link /\ x.member
  /\ Is(x, "ConnectedRW", "broken") \/ Is(x, "ReconnectRW", "none") \/ Is(x, "NotPresent", "none")

(* Known to be lost.                                                       *)
Away(x) == (Is(x, "ReconnectRW", "none") /\ x.member) \/ Is(x, "NotPresent", "none")

(* Found again, or connected again.                                        *)
Back(x) == x.link /\ x.member /\ (Is(x, "ConnectedRW", "up") \/ Is(x, "Disconnected", "none"))

(* Of a disk that may be lost: it has one command at most, and waits for a *)
(* session with it or not at all; let go, it has none.                     *)
Tidy(x) ==
  /\ Pending(x) <= 1
  /\ x.status # "ReconnectRW" => x.pend = NULL
  /\ x.status = "ReconnectRW" \/ ~x.member => x.queue = <<>>

Level(w) == w.unit[0].mem.usn = w.unit[1].mem.usn

(* Disk s serves.  Its metadata say that the other one is not synced from  *)
(* when its loss is noted until it is copied; the sequence number of the   *)
(* other one is never ahead.                                               *)
Labelled(w, s) ==
  LET a == w.unit[s].mem
      z == w.unit[Other(s)].mem
  IN /\ w.unit[s].rmd = a /\ w.unit[Other(s)].rmd = z
     /\ a.degraded = w.raid.dirty /\ ~z.degraded
     /\ a.notSynced = IF w.raid.dirty THEN {Other(s)} ELSE {}
     /\ \/ z.usn = a.usn /\ z.notSynced = a.notSynced
        \/ z.usn < a.usn /\ z.notSynced = {}

-----------------------------------------------------------------------------
(* The phases.                                                             *)

Mirrored(w, s) ==
  /\ w.raid.rs = "Good" /\ w.raid.sub[Other(s)] = "Good"
  /\ ~w.raid.dirty /\ Level(w) /\ w.raid.sector = 0
  /\ \/ Serves(w.unit[Other(s)]) /\ Pending(w.unit[s]) <= 1
     \/ Lost(w.unit[Other(s)])

(* The loss is seen, but not yet noted in the metadata and the bitmap.     *)
Unmarked(w, s) ==
  /\ w.raid.rs = "GoodButPartiallyFailed" /\ w.raid.sub[Other(s)] \in {"NotPresent", "Failure"}
  /\ ~w.raid.dirty /\ Level(w) /\ w.raid.sector = 0
  /\ Away(w.unit[Other(s)]) /\ ~w.unit[Other(s)].link

Degraded(w, s) ==
  /\ w.raid.rs = "BrokenButWorkable" /\ w.raid.sub[Other(s)] = "Failure"
  /\ w.raid.dirty /\ ~Level(w) /\ w.raid.sector = 0
  /\ w.raid.map # NULL /\ w.raid.history = <<>>
  /\ Away(w.unit[Other(s)]) \/ (Serves(w.unit[Other(s)]) /\ w.unit[Other(s)].queue = <<>>)

(* The lost disk is back.  Its metadata get level with those of the other  *)
(* disk when the recovery starts, and fall behind once more at its end.    *)
Returned(w, s) ==
  /\ Back(w.unit[Other(s)])
  /\ \/ w.raid.rs = "ReadyToRecovery" /\ w.raid.sub[Other(s)] = "NeedRecovery"
        /\ ~Level(w) /\ ~w.raid.inRecovery
     \/ w.raid.rs = "Recovering" /\ w.raid.sub[Other(s)] = "Recovering" /\ w.raid.dirty
  /\ IF w.raid.dirty
     THEN /\ w.raid.map # NULL
          /\ IF Level(w) THEN w.raid.inRecovery /\ w.unit[Other(s)].status = "ConnectedRW"
                         ELSE w.raid.sector = 0
     ELSE ~w.raid.inRecovery /\ w.raid.map = NULL /\ w.unit[Other(s)].status = "ConnectedRW"

(* Disk s serves, and the mirror is in one of its phases.                  *)
Phase(w, s) ==
  /\ w.raid.status = "ConnectedRW" /\ w.raid.sub[s] = "Good" /\ Serves(w.unit[s])
  /\ Tidy(w.unit[Other(s)]) /\ Labelled(w, s)
  /\ Mirrored(w, s) \/ Unmarked(w, s) \/ Degraded(w, s) \/ Returned(w, s)

PhaseInv == \E s \in Unit : Phase(World, s)

-----------------------------------------------------------------------------
(* The command in progress and the worker's queue.                         *)

Queued(k) == \E i \in DOMAIN inbox : inbox[i].k = k

(* A disk has failed a read, which the worker has yet to see.              *)
Failing == \E i \in DOMAIN inbox :
             inbox[i].k = "done" /\ ~inbox[i].c.ok /\ inbox[i].c.op = "read"

(* The command is handed to the worker once, and then to the disks.  A     *)
(* disk that is removed, and an array that has not noted its loss, wait    *)
(* for the worker to hear of it.                                           *)
InboxInv ==
  /\ \A i \in DOMAIN inbox : inbox[i].k \in {"srb", "done", "noPnp"}
  /\ \A i, j \in DOMAIN inbox : inbox[i].k = "srb" /\ inbox[j].k = "srb" => i = j
  /\ raid.rs = "GoodButPartiallyFailed" => inbox # <<>> /\ Head(inbox).k = "noPnp"
  /\ Queued("noPnp") => /\ raid.rs # "Good"
                        /\ raid.rs \in {"GoodButPartiallyFailed", "BrokenButWorkable"} =>
                             \E u \in Unit : unit[u].status = "NotPresent"
                        /\ raid.rs = "ReadyToRecovery" => raid.dirty
                        /\ raid.rs = "Recovering" => raid.inRecovery
  /\ Failing => raid.rs # "Good" \/ \E u \in Unit : unit[u].status \in {"ReconnectRW", "NotPresent"}

(* A command waits for the worker, or the disks have parts of it.          *)
CommandInv ==
  /\ Queued("srb") => cmd # NULL /\ count = 0 /\ raid.rs # "ReadyToRecovery"
  /\ cmd # NULL => (Queued("srb") \/ count > 0) /\ \A u \in Unit : unit[u].status # "Disconnected"
  /\ raid.rs = "ReadyToRecovery" /\ ~raid.dirty => cmd = NULL

(* A command of a disk, or its answer, is a part of the one in progress.   *)
PartOf(c) == c.op = cmd.op /\ (c.op = "write" => c.lo = cmd.lo /\ c.val = cmd.val)

(* A command that waits for a disk is as it was built.                     *)
AsSent(q) == \A i \in DOMAIN q : q[i].ok /\ PartOf(q[i])

PartsInv ==
  /\ \A u \in Unit : AsSent(unit[u].queue) /\ (unit[u].pend # NULL => PartOf(unit[u].pend))
  /\ \A i \in DOMAIN inbox : inbox[i].k = "done" => PartOf(inbox[i].c)

CInv == PhaseInv /\ InboxInv /\ CommandInv /\ PartsInv /\ CountMatches

-----------------------------------------------------------------------------
(* The two disks.                                                          *)

LEMMA TheOther ==
  ASSUME NEW s \in Unit
  PROVE  /\ Other(s) \in Unit /\ Other(s) # s /\ Other(Other(s)) = s
         /\ Unit = {s, Other(s)}
BY DEF Other, Unit

LEMMA LevelOf ==
  ASSUME NEW w, NEW s \in Unit
  PROVE  Level(w) <=> w.unit[s].mem.usn = w.unit[Other(s)].mem.usn
BY DEF Level, Other, Unit

(* A connected disk takes and gives its metadata and its bitmap.           *)
LEMMA WillingLands ==
  ASSUME Willing, NEW x, TypedUnit(x), x.sess = "up" \/ (x.sess = "none" /\ x.link),
         NEW k \in {"readRMD", "writeRMD", "map"}
  PROVE  ManagingLands(x, k) /\ ManagingIsSuccess(x, k) /\ k \notin x.fails
<1>1. k \notin x.fails
  BY DEF Willing, TypedUnit, UnitType
<1> QED BY <1>1 DEF ManagingLands, ManagingIsSuccess, Reached

(* A disk that serves writes what it is told to.                           *)
LEMMA ServerWrites ==
  ASSUME Willing, NEW x, TypedUnit(x), Serves(x)
  PROVE  /\ \A r : WriteRMD(x, r) = [x EXCEPT !.rmd = r]
         /\ \A m : WriteMap(x, m) = [x EXCEPT !.map = m]
         /\ \A k \in {"readRMD", "writeRMD", "map"} :
              ManagingLands(x, k) /\ ManagingIsSuccess(x, k) /\ ManagingAfter(x, k) = x
<1>1. \A k \in {"readRMD", "writeRMD", "map"} :
        ManagingLands(x, k) /\ ManagingIsSuccess(x, k) /\ k \notin x.fails
  BY WillingLands DEF Serves, Is
<1>2. ASSUME NEW k \in {"readRMD", "writeRMD", "map"} PROVE ManagingAfter(x, k) = x
  <2>1. Refused(x, k) = x
    BY <1>1 DEF Refused, TypedUnit, UnitType
  <2>2. ManagingAfter(x, k) = UpdateStatus(x, FALSE, FALSE)
    BY <2>1 DEF ManagingAfter
  <2>3. UpdateStatus(x, FALSE, FALSE) = [x EXCEPT !.status = x.status]
    BY DEF UpdateStatus, CheckDataConnection, Serves, Is
  <2> QED BY <2>2, <2>3 DEF TypedUnit, UnitType
<1> QED BY <1>1, <1>2 DEF WriteRMD, WriteMap

(***************************** the status **********************************)

Missed(x) == x.status \in {"NotPresent", "ReconnectRW"}

(* What updateRAIDStatus needs to find: disk s serves, and the other one   *)
(* can be asked for its metadata if they differ.                           *)
Sound(w, s) ==
  /\ w.raid.status = "ConnectedRW" /\ Serves(w.unit[s]) /\ Labelled(w, s)
  /\ Level(w) \/ Missed(w.unit[Other(s)]) \/ ManagingLands(w.unit[Other(s)], "readRMD")

(* What it says of the other disk, and of the array.                       *)
Verdict(w, s) ==
  LET x == w.unit[Other(s)]
  IN IF Missed(x) THEN IF w.raid.dirty THEN "Failure" ELSE SubOfStatus(x.status)
     ELSE IF Level(w) /\ ~w.raid.dirty THEN "Good"
     ELSE IF w.raid.inRecovery THEN "Recovering" ELSE "NeedRecovery"

Rating(w, s) ==
  IF Missed(w.unit[Other(s)])
  THEN IF w.raid.dirty THEN "BrokenButWorkable" ELSE "GoodButPartiallyFailed"
  ELSE IF Level(w) /\ ~w.raid.dirty THEN "Good"
  ELSE IF w.raid.inRecovery THEN "Recovering" ELSE "ReadyToRecovery"

LEMMA MetadataRead ==
  ASSUME Willing, NEW w, Handled(w), NEW s \in Unit, Sound(w, s)
  PROVE  ReadMetadata(w) = [w EXCEPT !.raid.sub = SubsByStatus(w)]
<1> DEFINE read == [u \in Unit |-> IF ManagingLands(w.unit[u], "readRMD") THEN "Good" ELSE "Failure"]
           U == [u \in Unit |-> CheckRMD(w.unit[u])]
           asked == [unit |-> U, raid |-> [w.raid EXCEPT !.sub = read]]
           differ == /\ \A u \in Unit : SubsByStatus(w)[u] = "Good"
                     /\ w.raid.rs # "Recovering" /\ w.unit[0].mem.usn # w.unit[1].mem.usn
<1>1. ReadMetadata(w) = IF differ THEN asked ELSE [w EXCEPT !.raid.sub = SubsByStatus(w)]
  BY DEF ReadMetadata
<1>2. CASE differ
  <2>1. \A u \in Unit : ManagingLands(w.unit[u], "readRMD")
    <3>1. ~Missed(w.unit[Other(s)])
      BY <1>2, TheOther DEF SubsByStatus, SubOfStatus, Missed
    <3>2. ManagingLands(w.unit[s], "readRMD")
      BY ServerWrites DEF Sound, Handled, TypedWorld
    <3>3. ManagingLands(w.unit[Other(s)], "readRMD")
      BY <1>2, <3>1 DEF Sound, Level
    <3> QED BY <3>2, <3>3, TheOther
  <2>2. \A u \in Unit : w.unit[u].mem = w.unit[u].rmd /\ w.unit[u] \in UnitType
    BY TheOther DEF Sound, Labelled, Handled, TypedWorld
  <2>3. \A u \in Unit : CheckRMD(w.unit[u]) = w.unit[u]
    BY <2>1, <2>2 DEF CheckRMD, UnitType
  <2>4. U = w.unit
    BY <2>3 DEF Handled, TypedWorld
  <2>5. read = SubsByStatus(w)
    BY <1>2, <2>1 DEF SubsByStatus
  <2> HIDE DEF U, read, differ
  <2> QED BY <1>1, <1>2, <2>4, <2>5 DEF Handled, TypedWorld
<1> QED BY <1>1, <1>2

(* updateRAIDStatus leaves the disks as they are.                          *)
LEMMA StatusUpdated ==
  ASSUME Willing, NEW w, Handled(w), NEW s \in Unit, Sound(w, s)
  PROVE  LET v == UpdateRAIDStatus(w)
         IN  /\ Handled(v) /\ SameArray(v, w) /\ v.unit = w.unit
             /\ v.raid.sub[s] = "Good" /\ v.raid.sub[Other(s)] = Verdict(w, s)
             /\ v.raid.rs = Rating(w, s)
<1> DEFINE f == Other(s)
           y == ReadMetadata(w)
           x == Judge(y)
           v == Rank(x)
           st == w.unit[f].status
<1>1. IsWorkable(w)
  BY DEF IsWorkable, RaidRunning, Sound, Serves
<1>2. UpdateRAIDStatus(w) = v
  <2> DEFINE F(z) == IF IsWorkable(z)
                     THEN Only({Rank(j) : j \in {Judge(k) : k \in {ReadMetadata(z)}}})
                     ELSE [z EXCEPT !.raid.sub = SubsByStatus(z), !.raid.rs = "NotReady"]
  <2>1. {Rank(j) : j \in {Judge(k) : k \in {ReadMetadata(w)}}} = {v}
    OBVIOUS
  <2>2. F(w) = v
    BY <1>1, <2>1, OnlyOne
  <2>3. UpdateRAIDStatus(w) = Only({F(z) : z \in {w}})
    BY DEF UpdateRAIDStatus
  <2> HIDE DEF F
  <2>4. {F(z) : z \in {w}} = {F(w)}
    OBVIOUS
  <2> QED BY <2>2, <2>3, <2>4, OnlyOne
<1>3. /\ y.unit = w.unit /\ y.raid = [w.raid EXCEPT !.sub = SubsByStatus(w)]
      /\ y.raid.sub = SubsByStatus(w)
      /\ y.raid.dirty = w.raid.dirty /\ y.raid.inRecovery = w.raid.inRecovery
  BY MetadataRead DEF Handled, TypedWorld, RaidType
<1>4. y.raid.sub[s] = "Good" /\ y.raid.sub[f] = SubOfStatus(st)
  BY <1>3, TheOther DEF SubsByStatus, SubOfStatus, Sound, Serves, Is
<1>5. Handled(y)
  BY ReadMetadataTyped
<1> HIDE DEF y
<1> DEFINE sub == IF SubUnits(y, "Good") = Unit THEN SubOfMetadata(y) ELSE SubOfDegraded(y)
<1>6. sub[s] = "Good" /\ sub[f] = Verdict(w, s)
  <2>1. /\ w.unit[s].mem.degraded = w.raid.dirty /\ ~w.unit[f].mem.degraded
        /\ w.unit[s].mem.notSynced = IF w.raid.dirty THEN {f} ELSE {}
        /\ \/ /\ w.unit[f].mem.usn = w.unit[s].mem.usn
              /\ w.unit[f].mem.notSynced = w.unit[s].mem.notSynced
           \/ w.unit[f].mem.usn < w.unit[s].mem.usn /\ w.unit[f].mem.notSynced = {}
        /\ w.unit[s].mem.usn \in Nat /\ w.unit[f].mem.usn \in Nat
    BY TheOther DEF Sound, Labelled, Handled, TypedWorld, UnitType, Metadata
  <2>2. CASE Missed(w.unit[f])
    <3>1. SubOfStatus(st) # "Good" /\ SubOfStatus(st) \in {"NotPresent", "Failure"}
      BY <2>2 DEF Missed, SubOfStatus
    <3>2. sub = SubOfDegraded(y)
      BY <1>4, <3>1, TheOther DEF SubUnits, Good
    <3>3. sub = [u \in Unit |-> IF /\ y.raid.sub[Other(u)] = "Good" /\ y.unit[Other(u)].mem.degraded
                                   /\ Other(Other(u)) \in y.unit[Other(u)].mem.notSynced
                                THEN "Failure" ELSE y.raid.sub[u]]
      BY <3>2 DEF SubOfDegraded
    <3> HIDE DEF sub
    <3>4. sub[s] = "Good"
      BY <1>4, <3>1, <3>3, TheOther
    <3>5. sub[f] = IF w.raid.dirty THEN "Failure" ELSE SubOfStatus(st)
      BY <1>3, <1>4, <2>1, <3>3, TheOther
    <3> QED BY <2>2, <3>4, <3>5 DEF Verdict
  <2>3. CASE ~Missed(w.unit[f])
    <3>1. SubOfStatus(st) = "Good"
      BY <2>3 DEF Missed, SubOfStatus
    <3>2. sub = SubOfMetadata(y)
      BY <1>4, <3>1, TheOther DEF SubUnits, Good
    <3> DEFINE m(u) == w.unit[u].mem
               behind == IF w.raid.inRecovery THEN "Recovering" ELSE "NeedRecovery"
    <3>3. sub = [u \in Unit |->
                   IF \/ m(0).usn = m(1).usn /\ u \in m(0).notSynced \cup m(1).notSynced
                      \/ m(u).usn < m(Other(u)).usn
                   THEN behind ELSE "Good"]
      <4>1. ~(m(0).degraded /\ m(1).degraded)
        BY <2>1 DEF Unit, Other
      <4>2. m(0) = y.unit[0].mem /\ m(1) = y.unit[1].mem /\ \A u \in Unit : m(u) = y.unit[u].mem
        BY <1>3
      <4>3. \A u \in Unit : m(Other(u)) = y.unit[Other(u)].mem
        BY <1>3
      <4> QED BY <1>3, <3>2, <4>1, <4>2, <4>3 DEF SubOfMetadata
    <3>4. m(0).notSynced \cup m(1).notSynced = m(s).notSynced \cup m(f).notSynced
      BY DEF Unit, Other
    <3>5. m(0).usn = m(1).usn <=> m(s).usn = m(f).usn
      BY DEF Unit, Other
    <3> HIDE DEF sub
    <3>6. sub[s] = "Good"
      BY <2>1, <3>3, <3>4, <3>5, TheOther
    <3>7. sub[f] = IF Level(w) /\ ~w.raid.dirty THEN "Good" ELSE behind
      BY <2>1, <3>3, <3>4, <3>5, TheOther DEF Level
    <3> QED BY <2>3, <3>6, <3>7 DEF Verdict
  <2> QED BY <2>2, <2>3
<1>7. x.unit = y.unit /\ x.raid = [y.raid EXCEPT !.sub = sub] /\ x.raid.sub = sub
      /\ x.raid.dirty = w.raid.dirty
  BY <1>3, <1>5 DEF Judge, Handled, TypedWorld, RaidType
<1>8. Handled(x)
  BY <1>5, JudgeTyped
<1> HIDE DEF x, sub
<1>9. StatusOfArray(x) = Rating(w, s)
  <2>1. \A t : SubUnits(x, t) # {} <=> (t = "Good" \/ t = Verdict(w, s))
    BY <1>6, <1>7, TheOther DEF SubUnits
  <2>2. SubUnits(x, "Good") = Unit <=> Verdict(w, s) = "Good"
    BY <1>6, <1>7, TheOther DEF SubUnits
  <2>3. Verdict(w, s) \in {"Good", "Recovering", "NeedRecovery", "Failure", "NotPresent"}
    BY DEF Verdict, Missed, SubOfStatus
  <2>4. Verdict(w, s) \in {"Failure", "NotPresent"} <=> Missed(w.unit[f])
    BY DEF Verdict, Missed, SubOfStatus
  <2>5. /\ Verdict(w, s) = "Good" => Rating(w, s) = "Good"
        /\ Verdict(w, s) = "Recovering" => Rating(w, s) = "Recovering"
        /\ Verdict(w, s) = "NeedRecovery" => Rating(w, s) = "ReadyToRecovery"
        /\ Missed(w.unit[f]) => Rating(w, s) = IF w.raid.dirty THEN "BrokenButWorkable"
                                                              ELSE "GoodButPartiallyFailed"
    BY DEF Rating, Verdict, Missed, SubOfStatus
  <2>6. SubUnits(x, "NotPresent") # Unit
    BY <1>6, <1>7 DEF SubUnits
  <2>7. CASE Verdict(w, s) = "Good"
    BY <2>1, <2>2, <2>5, <2>6, <2>7 DEF StatusOfArray
  <2>8. CASE Verdict(w, s) \in {"Recovering", "NeedRecovery"}
    BY <2>1, <2>2, <2>5, <2>6, <2>8 DEF StatusOfArray
  <2>9. CASE Verdict(w, s) \in {"Failure", "NotPresent"}
    BY <1>7, <2>1, <2>2, <2>4, <2>5, <2>6, <2>9 DEF StatusOfArray
  <2> QED BY <2>3, <2>7, <2>8, <2>9
<1>10. /\ v.unit = w.unit /\ v.raid.sub = sub /\ v.raid.rs = Rating(w, s)
  BY <1>3, <1>7, <1>8, <1>9 DEF Rank, Handled, TypedWorld, RaidType
<1> HIDE DEF v
<1> QED BY <1>2, <1>6, <1>10, UpdateRAIDStatusTyped

LEMMA PhaseIsSound ==
  ASSUME Willing, NEW w, Handled(w), NEW s \in Unit, Phase(w, s)
  PROVE  Sound(w, s)
<1> DEFINE x == w.unit[Other(s)]
<1>1. TypedUnit(x)
  BY TheOther DEF Handled, TypedWorld
<1>2. CASE Mirrored(w, s) \/ Unmarked(w, s)
  BY <1>2 DEF Mirrored, Unmarked, Sound, Phase
<1>3. CASE Degraded(w, s)
  <2>1. CASE Away(x)
    BY <2>1 DEF Away, Is, Missed, Sound, Phase
  <2>2. CASE Serves(x)
    <3>1. ManagingLands(x, "readRMD")
      BY <1>1, <2>2, WillingLands DEF Serves, Is
    <3> QED BY <3>1 DEF Sound, Phase
  <2> QED BY <1>3, <2>1, <2>2 DEF Degraded
<1>4. CASE Returned(w, s)
  <2>1. x.sess = "up" \/ (x.sess = "none" /\ x.link)
    BY <1>4 DEF Returned, Back, Is
  <2>2. ManagingLands(x, "readRMD")
    BY <1>1, <2>1, WillingLands
  <2> QED BY <2>2 DEF Sound, Phase
<1> QED BY <1>2, <1>3, <1>4 DEF Phase

LEMMA NullIsNoBitmap == NULL \notin Bitmap
BY MirrorAssumption DEF Bitmap

(* Two worlds that agree on all but what updateRAIDStatus sets.            *)
SameButStatus(v, w) == Handled(v) /\ v.unit = w.unit /\ SameArray(v, w)

(* A phase ends when updateRAIDStatus sees what has become of the disk.    *)
LEMMA PhaseUpdated ==
  ASSUME Willing, NEW w, Handled(w), NEW s \in Unit, Phase(w, s)
  PROVE  LET v == UpdateRAIDStatus(w)
         IN  /\ SameButStatus(v, w) /\ Phase(v, s)
             /\ v.raid.rs = Rating(w, s) /\ v.raid.sub[Other(s)] = Verdict(w, s)
<1> DEFINE v == UpdateRAIDStatus(w)
<1>1. /\ Handled(v) /\ SameArray(v, w) /\ v.unit = w.unit
      /\ v.raid.sub[s] = "Good" /\ v.raid.sub[Other(s)] = Verdict(w, s)
      /\ v.raid.rs = Rating(w, s)
  BY PhaseIsSound, StatusUpdated
<1> HIDE DEF v
<1>2. Level(v) <=> Level(w)
  BY <1>1 DEF Level
<1>3. /\ v.raid.status = "ConnectedRW" /\ v.raid.sub[s] = "Good" /\ Serves(v.unit[s])
      /\ Tidy(v.unit[Other(s)]) /\ Labelled(v, s)
  BY <1>1 DEF Phase, SameArray, Labelled
<1>4. Mirrored(v, s) \/ Unmarked(v, s) \/ Degraded(v, s) \/ Returned(v, s)
  <2>1. CASE Mirrored(w, s) /\ ~Missed(w.unit[Other(s)])
    BY <1>1, <1>2, <2>1 DEF Mirrored, SameArray, Verdict, Rating
  <2>2. CASE Mirrored(w, s) /\ Missed(w.unit[Other(s)])
    <3>1. Away(w.unit[Other(s)]) /\ ~w.unit[Other(s)].link
      BY <2>2 DEF Mirrored, Missed, Lost, Away, Serves, Is
    <3>2. Unmarked(v, s)
      BY <1>1, <1>2, <2>2, <3>1 DEF Mirrored, Unmarked, SameArray, Verdict, Rating, SubOfStatus, Missed
    <3> QED BY <3>2
  <2>3. CASE Unmarked(w, s)
    <3>1. Missed(w.unit[Other(s)])
      BY <2>3 DEF Unmarked, Away, Is, Missed
    <3> QED BY <1>1, <1>2, <2>3, <3>1 DEF Unmarked, SameArray, Verdict, Rating, SubOfStatus, Missed
  <2>4. CASE Degraded(w, s) /\ Missed(w.unit[Other(s)])
    BY <1>1, <1>2, <2>4 DEF Degraded, SameArray, Verdict, Rating
  <2>5. CASE Degraded(w, s) /\ ~Missed(w.unit[Other(s)])
    <3>1. Back(w.unit[Other(s)])
      BY <2>5 DEF Degraded, Away, Missed, Is, Serves, Back
    <3>2. Returned(v, s)
      BY <1>1, <1>2, <2>5, <3>1 DEF Degraded, Returned, SameArray, Verdict, Rating
    <3> QED BY <3>2
  <2>6. CASE Returned(w, s)
    <3>1. ~Missed(w.unit[Other(s)])
      BY <2>6 DEF Returned, Back, Is, Missed
    <3>2. Returned(v, s)
      BY <1>1, <1>2, <2>6, <3>1 DEF Returned, SameArray, Verdict, Rating
    <3> QED BY <3>2
  <2> QED BY <2>1, <2>2, <2>3, <2>4, <2>5, <2>6 DEF Phase
<1> QED BY <1>1, <1>3, <1>4 DEF Phase, SameButStatus, v

(************************ the bitmap and the history ***********************)

(* All of a disk but its metadata and its bitmap is as it was.             *)
Untouched(x, y) ==
  /\ SameQueue(x, y) /\ x.status = y.status /\ x.link = y.link /\ x.sess = y.sess
  /\ x.member = y.member /\ x.data = y.data /\ x.recent = y.recent

LEMMA OneKeeper ==
  ASSUME NEW w, NEW s \in Unit, SubUnits(w, "Good") = {s}
  PROVE  Keeper(w) = s
<1>1. Keeper(w) \in SubUnits(w, "Good")
  BY KeeperIsGood DEF SubUnits, Good
<1> QED BY <1>1

LEMMA OneIsGood ==
  ASSUME NEW w, Handled(w), NEW s \in Unit, Phase(w, s), ~Mirrored(w, s)
  PROVE  SubUnits(w, "Good") = {s}
<1>1. w.raid.sub[s] = "Good" /\ w.raid.sub[Other(s)] # "Good"
  BY DEF Phase, Unmarked, Degraded, Returned
<1> QED BY <1>1, TheOther DEF SubUnits

(* The array of v is that of w, but for its bitmap, which is m.            *)
Remarked(v, w, m) ==
  /\ v.raid.rs = w.raid.rs /\ v.raid.status = w.raid.status /\ v.raid.sub = w.raid.sub
  /\ v.raid.inRecovery = w.raid.inRecovery /\ v.raid.sector = w.raid.sector
  /\ v.raid.history = w.raid.history /\ v.raid.dirty /\ v.raid.map = m

LEMMA BitmapSet ==
  ASSUME Willing, NEW w, Handled(w), NEW s \in Unit, SubUnits(w, "Good") = {s},
         w.raid.status = "ConnectedRW", Serves(w.unit[s]),
         w.raid.map # NULL, NEW S, S \subseteq 0..Capacity
  PROVE  LET v == SetBitmap(w, S)
         IN  /\ Remarked(v, w, w.raid.map \cup S) /\ Handled(v)
             /\ v.unit[Other(s)] = w.unit[Other(s)]
             /\ Untouched(v.unit[s], w.unit[s])
             /\ v.unit[s].mem = w.unit[s].mem /\ v.unit[s].rmd = w.unit[s].rmd
<1> DEFINE m == w.raid.map \cup S
           w1 == [w EXCEPT !.raid.dirty = TRUE]
           v == SetBitmap(w, S)
<1>1. Keeper(w) = s
  BY OneKeeper
<1>2. v = IF S \subseteq w.raid.map THEN w1
          ELSE [w1 EXCEPT !.raid.map = m, !.unit[s] = WriteMap(@, m)]
  <2>1. ManagingIsSuccess(w.unit[s], "map")
    BY ServerWrites DEF Handled, TypedWorld
  <2> QED BY <1>1, <2>1 DEF SetBitmap
<1>3. WriteMap(w.unit[s], m) = [w.unit[s] EXCEPT !.map = m]
  BY ServerWrites DEF Handled, TypedWorld
<1>4. w.raid \in RaidType /\ w.unit \in [Unit -> UnitType]
  BY DEF Handled, TypedWorld
<1>5. CASE S \subseteq w.raid.map
  <2>1. m = w.raid.map /\ v = w1
    BY <1>2, <1>5
  <2>2. w1.unit = w.unit /\ Remarked(w1, w, m)
    BY <1>4, <2>1 DEF RaidType, Handled, TypedWorld, Remarked
  <2> QED BY <2>1, <2>2, SetBitmapTyped DEF Untouched, SameQueue
<1>6. CASE ~(S \subseteq w.raid.map)
  <2> DEFINE r == [w.raid EXCEPT !.dirty = TRUE, !.map = m]
  <2>1. v.raid = r /\ v.unit = [w.unit EXCEPT ![s] = [w.unit[s] EXCEPT !.map = m]]
    BY <1>2, <1>3, <1>6 DEF Handled, TypedWorld
  <2>2. v.unit[Other(s)] = w.unit[Other(s)] /\ v.unit[s] = [w.unit[s] EXCEPT !.map = m]
    BY <1>4, <2>1, TheOther
  <2> HIDE DEF v
  <2>3. w.unit[s] \in UnitType
    BY <1>4
  <2>4. Untouched(v.unit[s], w.unit[s])
        /\ v.unit[s].mem = w.unit[s].mem /\ v.unit[s].rmd = w.unit[s].rmd
    BY <2>2, <2>3 DEF UnitType, Untouched, SameQueue
  <2>5. Remarked(v, w, m)
    <3> HIDE DEF m
    <3> QED BY <1>4, <2>1 DEF RaidType, Remarked
  <2> QED BY <2>2, <2>4, <2>5, SetBitmapTyped DEF v
<1> QED BY <1>5, <1>6

(* InitAndSetBitmap: the disk that serves is marked, and the history of    *)
(* writes becomes the bitmap.                                              *)
LEMMA LossNoted ==
  ASSUME Willing, NEW w, Handled(w), NEW s \in Unit, Phase(w, s), Unmarked(w, s)
  PROVE  LET v == AfterCommand(w)
         IN  /\ Handled(v) /\ Phase(v, s) /\ Degraded(v, s)
             /\ v.unit[Other(s)] = w.unit[Other(s)] /\ Untouched(v.unit[s], w.unit[s])
             /\ v.raid.inRecovery = w.raid.inRecovery
             /\ Blocks(w.raid.history) \subseteq v.raid.map
<1> DEFINE f == Other(s)
           old == w.unit[s].mem
           rmd == [old EXCEPT !.degraded = TRUE, !.usn = @ + 1, !.notSynced = @ \cup {f}]
           m == IF w.raid.map = NULL THEN {} ELSE w.raid.map
           H == Blocks(w.raid.history)
           x == [w.unit[s] EXCEPT !.rmd = rmd, !.mem = rmd, !.map = m]
           w1 == [w EXCEPT !.unit[s] = x,
                           !.raid.dirty = TRUE, !.raid.map = m, !.raid.history = <<>>]
           w2 == IF H = {} THEN w1 ELSE SetBitmap(w1, H)
           v == AfterCommand(w)
<1>1. /\ w.raid \in RaidType /\ w.unit \in [Unit -> UnitType]
      /\ TypedUnit(w.unit[s]) /\ TypedUnit(w.unit[f]) /\ f \in Unit
      /\ w = [unit |-> w.unit, raid |-> w.raid]
  BY TheOther DEF Handled, TypedWorld
<1>2. SubUnits(w, "Good") = {s} /\ Keeper(w) = s
  BY OneIsGood, OneKeeper DEF Mirrored, Unmarked
<1>3. /\ old \in Metadata /\ ~old.degraded /\ old.notSynced = {} /\ old.usn \in Nat
      /\ w.unit[f].mem.usn = old.usn /\ w.unit[f].mem.notSynced = {}
      /\ w.unit[f].rmd = w.unit[f].mem /\ ~w.unit[f].mem.degraded
  BY <1>1, LevelOf DEF Phase, Unmarked, Labelled, UnitType, Metadata
<1>4. rmd \in Metadata /\ rmd.usn = old.usn + 1 /\ rmd.degraded /\ rmd.notSynced = {f}
  <2> HIDE DEF old
  <2>1. f \in Unit
    BY <1>1
  <2> HIDE DEF f
  <2>2. old.usn + 1 \in Nat
    BY <1>3
  <2> QED BY <1>3, <2>1, <2>2 DEF Metadata
<1>5. WriteMap(WriteAndCheckRMD(w.unit[s], rmd), m) = x
  <2>1. Serves(w.unit[s])
    BY DEF Phase
  <2> HIDE DEF rmd, m
  <2> DEFINE y == [w.unit[s] EXCEPT !.rmd = rmd]
             z == [y EXCEPT !.mem = rmd]
  <2>2. WriteRMD(w.unit[s], rmd) = y /\ ManagingIsSuccess(w.unit[s], "writeRMD")
    BY <1>1, <2>1, ServerWrites
  <2>3. y.rmd = rmd /\ ManagingLands(y, "readRMD") /\ ManagingLands(z, "map")
    <3>1. ManagingLands(w.unit[s], "readRMD") /\ ManagingLands(w.unit[s], "map")
      BY <1>1, <2>1, ServerWrites
    <3> QED BY <1>1, <3>1 DEF TypedUnit, UnitType, ManagingLands, Reached
  <2>4. WriteAndCheckRMD(w.unit[s], rmd) = z
    BY <2>2, <2>3 DEF WriteAndCheckRMD, CheckRMD
  <2> QED BY <2>3, <2>4 DEF WriteMap
<1>6. v = UpdateRAIDStatus(w2)
  <2>1. w.raid.rs = "GoodButPartiallyFailed" /\ ~w.raid.dirty
    BY DEF Unmarked
  <2>2. {s} \notin {{}, Unit}
    BY TheOther
  <2> HIDE DEF x, m, rmd
  <2>3. [w EXCEPT !.unit[s] = WriteMap(WriteAndCheckRMD(@, rmd), m),
                  !.raid.dirty = TRUE, !.raid.map = m, !.raid.history = <<>>] = w1
    BY <1>1, <1>5
  <2> HIDE DEF w1
  <2> QED BY <1>2, <2>1, <2>2, <2>3 DEF AfterCommand, InitAndSetBitmap, rmd, m
<1>7. m \in Bitmap /\ H \subseteq 0..Capacity
  <2>1. w.raid.map \in {NULL} \cup Bitmap /\ w.raid.history \in Seq(Block)
    BY <1>1 DEF RaidType
  <2>2. \A k \in DOMAIN w.raid.history : w.raid.history[k] \in Block
    BY <2>1
  <2> QED BY <2>1, <2>2, Numbers DEF Bitmap, Blocks
<1>8. /\ w1.raid = [w.raid EXCEPT !.dirty = TRUE, !.map = m, !.history = <<>>]
      /\ w1.unit = [w.unit EXCEPT ![s] = x]
  BY <1>1
<1>9. /\ w1.raid \in RaidType /\ w1.raid.dirty /\ w1.raid.map = m /\ w1.raid.history = <<>>
      /\ w1.raid.status = "ConnectedRW" /\ w1.raid.sub = w.raid.sub /\ w1.raid.sector = 0
      /\ w1.raid.inRecovery = w.raid.inRecovery
  <2>1. <<>> \in Seq(Block)
    BY EmptySeq
  <2> HIDE DEF m, w1
  <2> QED BY <1>1, <1>7, <1>8, <2>1 DEF RaidType, Phase, Unmarked
<1>10. /\ w1.unit[s] = x /\ w1.unit[f] = w.unit[f]
       /\ Untouched(x, w.unit[s]) /\ x.mem = rmd /\ x.rmd = rmd /\ Serves(x)
  <2> HIDE DEF m, rmd
  <2>1. w1.unit[s] = x /\ w1.unit[f] = w.unit[f]
    BY <1>1, <1>8, TheOther
  <2>2. Untouched(x, w.unit[s]) /\ x.mem = rmd /\ x.rmd = rmd
    BY <1>1 DEF TypedUnit, UnitType, Untouched, SameQueue
  <2>3. Serves(w.unit[s])
    BY DEF Phase
  <2> HIDE DEF x
  <2>4. Serves(x)
    BY <2>2, <2>3 DEF Serves, Is, Untouched, SameQueue
  <2> QED BY <2>1, <2>2, <2>4
<1>11. Handled(w1)
  <2>1. TypedUnit(x) /\ SameQueue(x, w.unit[s])
    <3> HIDE DEF rmd, m, old
    <3>2. TypedUnit(WriteAndCheckRMD(w.unit[s], rmd))
      BY <1>1, <1>4, WriteRMDTyped
    <3>3. TypedUnit(x)
      BY <1>5, <1>7, <3>2, WriteMapTyped
    <3> QED BY <1>10, <3>3 DEF Untouched
  <2> DEFINE w0 == [w EXCEPT !.unit[s] = x]
  <2> HIDE DEF x, m
  <2>2. Handled(w0)
    BY <2>1, SetUnitTyped
  <2> DEFINE r == [w.raid EXCEPT !.dirty = TRUE, !.map = m, !.history = <<>>]
  <2>3. w1 = [w0 EXCEPT !.raid = r]
    BY <1>1 DEF Handled, TypedWorld
  <2>4. w0.raid = w.raid /\ w0.unit = w1.unit
    <3> HIDE DEF w1
    <3> QED BY <1>1, <1>8
  <2> HIDE DEF w0, w1, r
  <2>5. TypedRaid(w1.raid)
    <3>1. Len(<<>>) <= Cache + 1
      BY EmptySeq, Numbers
    <3> QED BY <1>7, <1>9, <3>1 DEF TypedRaid
  <2> QED BY <1>9, <2>2, <2>3, <2>4, <2>5 DEF Handled, TypedWorld
<1> HIDE DEF x, w1
<1>12. /\ Handled(w2) /\ Remarked(w2, w1, m \cup H)
       /\ w2.unit[f] = w.unit[f] /\ Untouched(w2.unit[s], w.unit[s])
       /\ w2.unit[s].mem = rmd /\ w2.unit[s].rmd = rmd
  <2>1. CASE H = {}
    <3>1. w2 = w1 /\ m \cup H = m
      BY <2>1
    <3>2. Remarked(w1, w1, m)
      BY <1>9 DEF Remarked
    <3> HIDE DEF w2, rmd, m, H
    <3> QED BY <1>10, <1>11, <3>1, <3>2
  <2>2. CASE H # {}
    <3>1. SubUnits(w1, "Good") = {s}
      BY <1>2, <1>9 DEF SubUnits
    <3>2. w1.raid.map # NULL
      BY <1>7, <1>9, NullIsNoBitmap
    <3> DEFINE z == SetBitmap(w1, H)
    <3>3. w2 = z
      BY <2>2
    <3> HIDE DEF H, m, rmd, old, w2, v
    <3>4. /\ Remarked(z, w1, w1.raid.map \cup H) /\ Handled(z)
          /\ z.unit[f] = w1.unit[f] /\ Untouched(z.unit[s], w1.unit[s])
          /\ z.unit[s].mem = w1.unit[s].mem /\ z.unit[s].rmd = w1.unit[s].rmd
      <4>1. w1.raid.status = "ConnectedRW" /\ Serves(w1.unit[s]) /\ H \subseteq 0..Capacity
        BY <1>7, <1>9, <1>10
      <4> QED BY <1>11, <3>1, <3>2, <4>1, BitmapSet
    <3> HIDE DEF z
    <3>5. Remarked(z, w1, m \cup H)
      BY <1>9, <3>4
    <3> QED BY <1>10, <3>3, <3>4, <3>5 DEF Untouched, SameQueue
  <2> QED BY <2>1, <2>2
<1> HIDE DEF w2, rmd, m, H
<1>13. /\ w2.raid.dirty /\ w2.raid.map = m \cup H /\ w2.raid.history = <<>>
       /\ w2.raid.status = "ConnectedRW" /\ w2.raid.sector = 0
       /\ w2.raid.inRecovery = w.raid.inRecovery
  BY <1>9, <1>12 DEF Remarked
<1>14. Sound(w2, s) /\ ~Level(w2)
  <2>1. LET a == w2.unit[s].mem
            z == w2.unit[f].mem
        IN  /\ w2.unit[s].rmd = a /\ w2.unit[f].rmd = z /\ a.degraded /\ ~z.degraded
            /\ a.notSynced = {f} /\ z.usn < a.usn /\ z.notSynced = {}
    BY <1>3, <1>4, <1>12
  <2>2. ~Level(w2)
    BY <1>3, <2>1, <1>4, <1>12, LevelOf
  <2>3. Serves(w2.unit[s])
    BY <1>12 DEF Phase, Serves, Is, Untouched, SameQueue
  <2>4. Missed(w2.unit[f])
    BY <1>12 DEF Unmarked, Away, Is, Missed
  <2> QED BY <1>13, <2>1, <2>2, <2>3, <2>4 DEF Sound, Labelled
<1> DEFINE u == UpdateRAIDStatus(w2)
<1>15. /\ Handled(u) /\ SameArray(u, w2) /\ u.unit = w2.unit
       /\ u.raid.sub[s] = "Good" /\ u.raid.sub[f] = "Failure" /\ u.raid.rs = "BrokenButWorkable"
  <2>1. Missed(w2.unit[f])
    BY <1>12 DEF Unmarked, Away, Is, Missed
  <2> HIDE DEF u
  <2>2. Verdict(w2, s) = "Failure" /\ Rating(w2, s) = "BrokenButWorkable"
    BY <1>13, <2>1 DEF Verdict, Rating
  <2> QED BY <1>12, <1>14, <2>2, StatusUpdated DEF u
<1>16. Degraded(u, s)
  <2>1. u.raid.map # NULL
    BY <1>7, <1>13, <1>15, NullIsNoBitmap DEF SameArray, Bitmap
  <2>2. Away(u.unit[f]) /\ ~Level(u)
    BY <1>12, <1>14, <1>15 DEF Unmarked, Level
  <2> HIDE DEF u
  <2> QED BY <1>13, <1>15, <2>1, <2>2 DEF Degraded, SameArray
<1>17. Phase(u, s)
  <2> HIDE DEF u
  <2>1. Serves(u.unit[s]) /\ Labelled(u, s)
    BY <1>14, <1>15 DEF Sound, Labelled, SameArray
  <2>2. Tidy(u.unit[f])
    BY <1>12, <1>15 DEF Phase
  <2> QED BY <1>13, <1>15, <1>16, <2>1, <2>2 DEF Phase, SameArray
<1> HIDE DEF u
<1> QED BY <1>6, <1>12, <1>13, <1>15, <1>16, <1>17 DEF u, SameArray, H

(* What the worker does after a command leaves no loss unnoted.            *)
LEMMA LossIsNoted ==
  ASSUME Willing, NEW w, Handled(w), NEW s \in Unit, Phase(w, s)
  PROVE  LET v == AfterCommand(w)
         IN  /\ Handled(v) /\ Phase(v, s) /\ v.raid.inRecovery = w.raid.inRecovery
             /\ v.unit[Other(s)] = w.unit[Other(s)] /\ Untouched(v.unit[s], w.unit[s])
             /\ IF w.raid.rs = "GoodButPartiallyFailed" THEN Degraded(v, s) ELSE v = w
<1>1. CASE w.raid.rs = "GoodButPartiallyFailed"
  <2>1. Unmarked(w, s)
    BY <1>1 DEF Phase, Mirrored, Degraded, Returned
  <2> QED BY <1>1, <2>1, LossNoted
<1>2. CASE w.raid.rs # "GoodButPartiallyFailed"
  BY <1>2 DEF AfterCommand, Untouched, SameQueue
<1> QED BY <1>1, <1>2

(* The array is mounted all the time.                                      *)
LEMMA OwnStatusKept ==
  ASSUME Willing, NEW w, Handled(w), NEW s \in Unit, Phase(w, s)
  PROVE  UpdateRaidStatusAndOwn(w) = UpdateRAIDStatus(w)
<1> DEFINE v == UpdateRAIDStatus(w)
           mounts(x) == w.raid.status \in {"TryConnectRW", "Disconnected"} /\ x.raid.status = "ConnectedRW"
           F(x) == IF mounts(x) THEN PostProcess(x) ELSE x
           G(y) == [y EXCEPT !.raid.status = OwnStatus(y)]
<1>1. Handled(v) /\ Phase(v, s) /\ (v.raid.rs = "Good" => ~Missed(v.unit[Other(s)]))
  BY PhaseUpdated DEF SameButStatus, Rating
<1> HIDE DEF v
<1>2. OwnStatus(v) = "ConnectedRW"
  <2>1. v.unit[s].status = "ConnectedRW" /\ v.raid.sub[s] = "Good"
    BY <1>1 DEF Phase, Serves, Is
  <2>2. v.raid.rs \notin {"NotReady", "Broken"}
    BY <1>1 DEF Phase, Mirrored, Unmarked, Degraded, Returned
  <2>3. CASE v.raid.rs = "Good"
    <3>1. v.unit[Other(s)].status = "ConnectedRW"
      BY <1>1, <2>3 DEF Phase, Mirrored, Unmarked, Degraded, Returned, Serves, Lost, Is, Missed
    <3> QED BY <2>1, <2>3, <3>1 DEF OwnStatus, Unit, Other
  <2>4. CASE v.raid.rs # "Good"
    <3>1. v.raid.sub[Other(s)] # "Good"
      BY <1>1, <2>4 DEF Phase, Mirrored, Unmarked, Degraded, Returned
    <3>2. OwnStatus(v) = IF Good(v, 0) THEN v.unit[0].status ELSE v.unit[1].status
      BY <2>2, <2>4 DEF OwnStatus
    <3> QED BY <2>1, <3>1, <3>2, TheOther DEF Good, Unit, Other
  <2> QED BY <2>3, <2>4
<1>3. G(v) = v
  BY <1>1, <1>2 DEF Phase, Handled, TypedWorld, RaidType
<1>4. F(v) = v
  BY DEF Phase
<1>5. UpdateRaidStatusAndOwn(w) = Only({F(x) : x \in {G(y) : y \in {v}}})
  BY DEF UpdateRaidStatusAndOwn, v
<1>6. {F(x) : x \in {G(y) : y \in {v}}} = {v}
  BY <1>3, <1>4
<1> QED BY <1>5, <1>6, OnlyOne DEF v

(* A disk whose answers to come are the same, and that stands where it did. *)
Intact(x, y) ==
  /\ SameQueue(x, y) /\ x.status = y.status /\ x.link = y.link /\ x.sess = y.sess
  /\ x.member = y.member

(* A write is noted in the history, or in the bitmap.                      *)
LEMMA WriteNoted ==
  ASSUME Willing, NEW w, Handled(w), NEW s \in Unit, Phase(w, s), ~Unmarked(w, s), cmd \in Asked
  PROVE  LET v == NoteWrite(w)
         IN  /\ Handled(v) /\ Phase(v, s)
             /\ v.raid.rs = w.raid.rs /\ v.raid.sub = w.raid.sub
             /\ v.raid.dirty = w.raid.dirty /\ v.raid.inRecovery = w.raid.inRecovery
             /\ v.unit[Other(s)] = w.unit[Other(s)] /\ Untouched(v.unit[s], w.unit[s])
<1> DEFINE v == NoteWrite(w)
<1>1. Handled(v)
  BY NoteWriteTyped DEF Asked
<1>2. cmd.lo \in Block /\ {cmd.lo} \subseteq 0..Capacity
  BY Numbers DEF Asked
<1>3. CASE w.raid.rs \in {"Good", "Recovering"}
  <2> DEFINE h == Remember(w.raid.history, cmd.lo)
  <2>1. v = [w EXCEPT !.raid.history = h]
    BY <1>3 DEF NoteWrite
  <2> HIDE DEF h
  <2>2. /\ v.unit = w.unit /\ v.raid.rs = w.raid.rs /\ v.raid.sub = w.raid.sub
        /\ v.raid.dirty = w.raid.dirty /\ v.raid.inRecovery = w.raid.inRecovery
        /\ v.raid.status = w.raid.status /\ v.raid.sector = w.raid.sector /\ v.raid.map = w.raid.map
    BY <2>1 DEF Handled, TypedWorld, RaidType
  <2> HIDE DEF v
  <2>3. ~Degraded(w, s)
    BY <1>3 DEF Degraded
  <2>4. Level(v) <=> Level(w)
    BY <2>2 DEF Level
  <2>5. Mirrored(w, s) => Mirrored(v, s)
    BY <2>2, <2>4 DEF Mirrored
  <2>6. Returned(w, s) => Returned(v, s)
    BY <2>2, <2>4 DEF Returned
  <2>7. Phase(v, s)
    BY <2>2, <2>3, <2>5, <2>6 DEF Phase, Labelled
  <2> QED BY <1>1, <2>2, <2>7 DEF Untouched, SameQueue, v
<1>4. CASE w.raid.rs \in {"GoodButPartiallyFailed", "BrokenButWorkable"}
  <2>1. Degraded(w, s)
    BY <1>4 DEF Phase, Mirrored, Returned
  <2>2. SubUnits(w, "Good") = {s}
    BY <2>1, OneIsGood DEF Degraded, Mirrored
  <2>3. v = SetBitmap(w, {cmd.lo})
    BY <1>4 DEF NoteWrite
  <2>4. /\ Remarked(v, w, w.raid.map \cup {cmd.lo})
        /\ v.unit[Other(s)] = w.unit[Other(s)]
        /\ Untouched(v.unit[s], w.unit[s])
        /\ v.unit[s].mem = w.unit[s].mem /\ v.unit[s].rmd = w.unit[s].rmd
    <3>1. w.raid.status = "ConnectedRW" /\ Serves(w.unit[s]) /\ w.raid.map # NULL
      BY <2>1 DEF Phase, Degraded
    <3> HIDE DEF v
    <3> QED BY <1>2, <2>2, <2>3, <3>1, BitmapSet
  <2> HIDE DEF v
  <2>5. w.raid.map \cup {cmd.lo} # NULL
    <3>1. w.raid.map \in Bitmap
      BY <2>1 DEF Degraded, Handled, TypedWorld, RaidType
    <3> QED BY <1>2, <3>1, NullIsNoBitmap DEF Bitmap
  <2>6. Level(v) <=> Level(w)
    BY <2>4, LevelOf
  <2>7. Degraded(v, s)
    BY <2>1, <2>4, <2>5, <2>6 DEF Degraded, Remarked
  <2>8. Phase(v, s)
    <3>1. Serves(v.unit[s]) /\ Tidy(v.unit[Other(s)])
      BY <2>4 DEF Phase, Serves, Is, Untouched, SameQueue
    <3>2. Labelled(v, s)
      BY <2>1, <2>4 DEF Phase, Degraded, Labelled, Remarked
    <3> QED BY <2>4, <2>7, <3>1, <3>2 DEF Phase, Remarked
  <2> QED BY <1>1, <2>1, <2>4, <2>8 DEF Remarked, Degraded, v
<1>5. CASE w.raid.rs \notin {"Good", "Recovering", "GoodButPartiallyFailed", "BrokenButWorkable"}
  <2>1. v = w
    BY <1>5 DEF NoteWrite
  <2> QED BY <1>1, <2>1 DEF Untouched, SameQueue
<1> QED BY <1>3, <1>4, <1>5

(***************************** the recovery ********************************)

LEMMA ServerRemarks ==
  ASSUME Willing, NEW x, TypedUnit(x), Serves(x), NEW r \in Metadata
  PROVE  WriteAndCheckRMD(x, r) = [x EXCEPT !.rmd = r, !.mem = r]
<1> DEFINE y == [x EXCEPT !.rmd = r]
           z == [y EXCEPT !.mem = r]
<1>1. /\ WriteRMD(x, r) = y /\ ManagingIsSuccess(x, "writeRMD")
      /\ ManagingLands(x, "readRMD")
  BY ServerWrites
<1>2. y.rmd = r /\ ManagingLands(y, "readRMD")
  BY <1>1 DEF TypedUnit, UnitType, ManagingLands, Reached
<1>3. WriteAndCheckRMD(x, r) = z
  BY <1>1, <1>2 DEF WriteAndCheckRMD, CheckRMD
<1> QED BY <1>3

(* A disk that is back, and not only found, serves as well.                *)
LEMMA BackServes ==
  ASSUME NEW x, Back(x), Tidy(x), x.status = "ConnectedRW"
  PROVE  Serves(x)
BY DEF Back, Tidy, Serves, Is

(* What updateRAIDStatus goes by is the same in v as in w.                 *)
Alike(v, w) ==
  /\ v.raid.rs = w.raid.rs /\ v.raid.status = w.raid.status /\ v.raid.sub = w.raid.sub
  /\ v.raid.dirty = w.raid.dirty /\ v.raid.inRecovery = w.raid.inRecovery
  /\ v.raid.history = w.raid.history

(* The metadata of the bad disk get level, and the bitmap is read into     *)
(* memory if it is not there.                                              *)
Leveled(w, s) ==
  LET f == Other(s)
      rmd == [w.unit[f].mem EXCEPT !.usn = w.unit[s].mem.usn, !.notSynced = w.unit[s].mem.notSynced]
      w1 == [w EXCEPT !.raid.sector = 0]
      w2 == IF w.raid.map # NULL THEN w1 ELSE [w1 EXCEPT !.raid.map = w.unit[s].map]
  IN [w2 EXCEPT !.unit[f] = [@ EXCEPT !.rmd = rmd, !.mem = rmd]]

LEMMA LevelsMetadata ==
  ASSUME Willing, NEW w, Handled(w), NEW s \in Unit, Phase(w, s), Returned(w, s),
         Serves(w.unit[Other(s)])
  PROVE  LET v == Leveled(w, s)
         IN  /\ Handled(v) /\ Alike(v, w) /\ Sound(v, s) /\ Level(v)
             /\ v.raid.sector = 0
             /\ v.raid.map = IF w.raid.map # NULL THEN w.raid.map ELSE w.unit[s].map
             /\ v.unit[s] = w.unit[s] /\ Untouched(v.unit[Other(s)], w.unit[Other(s)])
<1> DEFINE f == Other(s)
           rmd == [w.unit[f].mem EXCEPT !.usn = w.unit[s].mem.usn, !.notSynced = w.unit[s].mem.notSynced]
           M == IF w.raid.map # NULL THEN w.raid.map ELSE w.unit[s].map
           w1 == [w EXCEPT !.raid.sector = 0]
           w2 == IF w.raid.map # NULL THEN w1 ELSE [w1 EXCEPT !.raid.map = w.unit[s].map]
           x == [w2.unit[f] EXCEPT !.rmd = rmd, !.mem = rmd]
           v == Leveled(w, s)
<1>1. f \in Unit /\ f # s /\ TypedUnit(w.unit[f]) /\ TypedUnit(w.unit[s]) /\ w.unit[s].map \in Bitmap
  BY TheOther DEF Handled, TypedWorld, TypedUnit, UnitType
<1>2. /\ rmd \in Metadata /\ rmd.usn = w.unit[s].mem.usn
      /\ rmd.notSynced = w.unit[s].mem.notSynced /\ rmd.degraded = w.unit[f].mem.degraded
  BY <1>1 DEF TypedUnit, UnitType, Metadata
<1> HIDE DEF rmd
<1>3. Handled(w1) /\ w1.unit = w.unit /\ w1.raid.map = w.raid.map /\ w1.raid.sector = 0
      /\ Alike(w1, w)
  <2>1. Alike(w1, w)
    BY DEF Handled, TypedWorld, RaidType, Alike
  <2> QED BY <2>1, Numbers, SetRecoveryTyped
<1> HIDE DEF w1
<1>4. Handled(w2) /\ w2.unit = w.unit /\ w2.raid.map = M /\ w2.raid.sector = 0 /\ Alike(w2, w)
  <2>1. CASE w.raid.map # NULL
    BY <1>3, <2>1
  <2>2. CASE w.raid.map = NULL
    <3> DEFINE z == [w1 EXCEPT !.raid.map = w.unit[s].map]
    <3>1. w2 = z
      BY <2>2
    <3>2. Handled(z) /\ z.unit = w1.unit
      BY <1>1, <1>3, SetMapTyped
    <3>3. Alike(z, w1) /\ z.raid.sector = 0 /\ z.raid.map = w.unit[s].map
      BY <1>3 DEF Handled, TypedWorld, RaidType, Alike
    <3> HIDE DEF z
    <3> QED BY <1>3, <2>2, <3>1, <3>2, <3>3 DEF Alike
  <2> QED BY <2>1, <2>2
<1> HIDE DEF w2, M
<1>5. /\ TypedUnit(x) /\ Untouched(x, w.unit[f]) /\ x.rmd = rmd /\ x.mem = rmd
      /\ SameQueue(x, w2.unit[f])
  <2>1. x = WriteAndCheckRMD(w.unit[f], rmd)
    BY <1>1, <1>2, <1>4, ServerRemarks
  <2>2. Untouched(x, w.unit[f]) /\ x.rmd = rmd /\ x.mem = rmd
    BY <1>1, <1>4 DEF TypedUnit, UnitType, Untouched, SameQueue
  <2> HIDE DEF x
  <2> QED BY <1>1, <1>2, <1>4, <2>1, <2>2, WriteRMDTyped DEF Untouched
<1>6. v = [w2 EXCEPT !.unit[f] = x]
  BY <1>4 DEF Leveled, w2, w1, rmd
<1> HIDE DEF x, v
<1>7. Handled(v) /\ v.raid = w2.raid /\ v.unit[f] = x /\ v.unit[s] = w.unit[s]
  BY <1>1, <1>4, <1>5, <1>6, SetUnitTyped
<1>8. Level(v)
  BY <1>2, <1>5, <1>7, LevelOf
<1>9. Labelled(v, s)
  BY <1>2, <1>4, <1>5, <1>7 DEF Phase, Labelled, Alike
<1> QED BY <1>4, <1>5, <1>7, <1>8, <1>9 DEF v, f, M, Alike, Phase, Sound

LEMMA StartIsLeveling ==
  ASSUME Willing, NEW w, Handled(w), NEW s \in Unit, Phase(w, s), Returned(w, s)
  PROVE  LET L == Leveled(w, s)
         IN  IF w.raid.rs = "ReadyToRecovery" /\ w.unit[Other(s)].status = "ConnectedRW"
             THEN StartRecovery(w) = UpdateRAIDStatus([UpdateRAIDStatus(L) EXCEPT !.raid.inRecovery = TRUE])
             ELSE StartRecovery(w) = [w EXCEPT !.raid.sector = 0]
<1> DEFINE f == Other(s)
           rmd == [w.unit[f].mem EXCEPT !.usn = w.unit[s].mem.usn, !.notSynced = w.unit[s].mem.notSynced]
           readMap == IF ManagingLands(w.unit[s], "map") THEN w.unit[s].map ELSE {}
           w1 == [w EXCEPT !.raid.sector = 0]
           w2 == IF w.raid.map # NULL THEN w1
                 ELSE [w1 EXCEPT !.raid.map = readMap, !.unit[s] = ManagingAfter(@, "map")]
           w3 == [w2 EXCEPT !.unit[f] = WriteAndCheckRMD(@, rmd)]
           L == Leveled(w, s)
<1>1. /\ f \in Unit /\ f # s /\ TypedUnit(w.unit[f]) /\ TypedUnit(w.unit[s])
      /\ SubUnits(w, "Good") = {s} /\ Keeper(w) = s
  BY TheOther, OneIsGood, OneKeeper DEF Handled, TypedWorld, Returned, Mirrored
<1>2. StartRecovery(w) = IF SubUnits(w, "Good") = {} \/ SubUnits(w, "NeedRecovery") = {} THEN w1
                         ELSE IF w.unit[f].status # "ConnectedRW" THEN w1
                         ELSE IF ~ManagingIsSuccess(w.unit[f], "writeRMD") THEN UpdateRAIDStatus(w3)
                         ELSE UpdateRAIDStatus([UpdateRAIDStatus(w3) EXCEPT !.raid.inRecovery = TRUE])
  BY <1>1 DEF StartRecovery
<1>3. SubUnits(w, "NeedRecovery") # {} <=> w.raid.rs = "ReadyToRecovery"
  BY <1>1, TheOther DEF SubUnits, Returned, Phase
<1>4. CASE w.raid.rs = "ReadyToRecovery" /\ w.unit[f].status = "ConnectedRW"
  <2>1. Serves(w.unit[f]) /\ Serves(w.unit[s])
    BY <1>4, BackServes DEF Phase, Returned
  <2>2. ManagingIsSuccess(w.unit[f], "writeRMD")
    BY <1>1, <2>1, ServerWrites
  <2>3. w3 = L
    <3>1. ManagingAfter(w.unit[s], "map") = w.unit[s] /\ readMap = w.unit[s].map
      BY <1>1, <2>1, ServerWrites
    <3>2. w1.unit = w.unit /\ w1 = [unit |-> w.unit, raid |-> w1.raid]
      BY DEF Handled, TypedWorld
    <3> DEFINE z == IF w.raid.map # NULL THEN w1 ELSE [w1 EXCEPT !.raid.map = w.unit[s].map]
    <3>3. w2 = z
      <4> DEFINE q == [w1 EXCEPT !.raid.map = w.unit[s].map]
      <4>1. [w1 EXCEPT !.raid.map = readMap, !.unit[s] = ManagingAfter(@, "map")] = [q EXCEPT !.unit[s] = ManagingAfter(@, "map")]
        BY <3>1
      <4>2. q.unit = w.unit /\ q = [unit |-> w.unit, raid |-> q.raid]
        <5> HIDE DEF w1
        <5> QED BY <3>2
      <4>3. w.unit = [w.unit EXCEPT ![s] = w.unit[s]]
        BY DEF Handled, TypedWorld
      <4> HIDE DEF q, w1
      <4>4. [q EXCEPT !.unit[s] = ManagingAfter(@, "map")] = q
        BY <3>1, <4>2, <4>3
      <4> QED BY <4>1, <4>4 DEF q
    <3>4. z.unit = w.unit
      <4> HIDE DEF w1
      <4> QED BY <3>2
    <3> DEFINE x == [w.unit[f] EXCEPT !.rmd = rmd, !.mem = rmd]
    <3>5. WriteAndCheckRMD(w.unit[f], rmd) = x
      <4>1. rmd \in Metadata
        BY <1>1 DEF TypedUnit, UnitType, Metadata
      <4> HIDE DEF rmd
      <4> QED BY <1>1, <2>1, <4>1, ServerRemarks
    <3>6. L = [z EXCEPT !.unit[f] = x]
      <4>1. L = [z EXCEPT !.unit[f] = [@ EXCEPT !.rmd = rmd, !.mem = rmd]]
        BY DEF Leveled
      <4> HIDE DEF z, rmd, L
      <4> QED BY <3>4, <4>1
    <3>7. w3 = [z EXCEPT !.unit[f] = x]
      <4> DEFINE q == WriteAndCheckRMD(z.unit[f], rmd)
      <4>1. w3 = [z EXCEPT !.unit[f] = q]
        <5> HIDE DEF z, rmd, w2
        <5> QED BY <3>3
      <4>2. q = x
        <5> HIDE DEF z, rmd, x
        <5> QED BY <3>4, <3>5
      <4> HIDE DEF z, rmd, w3, x, q
      <4> QED BY <4>1, <4>2
    <3> QED BY <3>6, <3>7
  <2>4. StartRecovery(w) = UpdateRAIDStatus([UpdateRAIDStatus(w3) EXCEPT !.raid.inRecovery = TRUE])
    <3> HIDE DEF w1, w3
    <3> QED BY <1>1, <1>2, <1>3, <1>4, <2>2
  <2> HIDE DEF w3
  <2> QED BY <1>4, <2>3, <2>4
<1>5. CASE ~(w.raid.rs = "ReadyToRecovery" /\ w.unit[f].status = "ConnectedRW")
  <2> HIDE DEF w3, w1
  <2>1. StartRecovery(w) = w1
    BY <1>2, <1>3, <1>5
  <2> QED BY <1>5, <2>1 DEF w1
<1> QED BY <1>4, <1>5

(* The recovery starts, or, if there is no more to copy, the mirror is one *)
(* again.                                                                  *)
LEMMA RecoveryStarted ==
  ASSUME Willing, NEW w, Handled(w), NEW s \in Unit, Phase(w, s), Returned(w, s), ~w.raid.inRecovery,
         w.raid.dirty \/ Pending(w.unit[s]) <= 1
  PROVE  LET v == StartRecovery(w)
         IN  /\ Handled(v) /\ Phase(v, s)
             /\ v.unit[s] = w.unit[s] /\ Untouched(v.unit[Other(s)], w.unit[Other(s)])
             /\ IF w.raid.rs = "ReadyToRecovery" /\ w.unit[Other(s)].status = "ConnectedRW"
                THEN /\ v.raid.rs = IF w.raid.dirty THEN "Recovering" ELSE "Good"
                     /\ v.raid.inRecovery /\ v.raid.dirty = w.raid.dirty
                     /\ v.raid.history = w.raid.history /\ v.raid.sector = 0
                     /\ v.raid.map = IF w.raid.map # NULL THEN w.raid.map ELSE w.unit[s].map
                ELSE v = w
<1> DEFINE f == Other(s)
           L == Leveled(w, s)
           y == UpdateRAIDStatus(L)
           z == [y EXCEPT !.raid.inRecovery = TRUE]
           v == UpdateRAIDStatus(z)
<1>1. f \in Unit /\ f # s
  BY TheOther
<1>2. CASE w.raid.rs = "ReadyToRecovery" /\ w.unit[f].status = "ConnectedRW"
  <2>1. Serves(w.unit[f]) /\ StartRecovery(w) = v
    BY <1>2, BackServes, StartIsLeveling DEF Phase, Returned
  <2>2. /\ Handled(L) /\ Alike(L, w) /\ Sound(L, s) /\ Level(L)
        /\ L.raid.sector = 0
        /\ L.raid.map = IF w.raid.map # NULL THEN w.raid.map ELSE w.unit[s].map
        /\ L.unit[s] = w.unit[s] /\ Untouched(L.unit[f], w.unit[f])
    BY <2>1, LevelsMetadata
  <2> HIDE DEF L
  <2>3. /\ Handled(y) /\ y.unit = L.unit /\ SameArray(y, L)
    BY <2>2, StatusUpdated
  <2> HIDE DEF y
  <2>4. y.raid.map \in Bitmap
    BY <1>1, <2>2, <2>3 DEF SameArray, Handled, TypedWorld, RaidType, UnitType
  <2>5. /\ Handled(z) /\ z.unit = L.unit /\ z.raid.inRecovery
    BY <2>3, <2>4, SetInRecoveryTyped
  <2>6. /\ z.raid.status = L.raid.status /\ z.raid.dirty = L.raid.dirty
        /\ z.raid.sector = L.raid.sector /\ z.raid.map = L.raid.map
        /\ z.raid.history = L.raid.history
    BY <2>3 DEF SameArray, Handled, TypedWorld, RaidType
  <2> HIDE DEF z
  <2>7. Sound(z, s) /\ Level(z)
    BY <2>2, <2>5, <2>6 DEF Sound, Labelled, Level
  <2>8. /\ Handled(v) /\ SameArray(v, z) /\ v.unit = z.unit
        /\ v.raid.sub[s] = "Good" /\ v.raid.sub[f] = Verdict(z, s)
        /\ v.raid.rs = Rating(z, s)
    BY <2>5, <2>7, StatusUpdated
  <2> HIDE DEF v
  <2>9. ~Missed(z.unit[f]) /\ Serves(v.unit[f]) /\ Serves(v.unit[s]) /\ Level(v)
    BY <2>1, <2>2, <2>5, <2>7, <2>8 DEF Missed, Serves, Is, Untouched, SameQueue, Phase, Level
  <2>10. /\ v.raid.rs = IF w.raid.dirty THEN "Recovering" ELSE "Good"
         /\ v.raid.sub[f] = IF w.raid.dirty THEN "Recovering" ELSE "Good"
    BY <2>2, <2>5, <2>6, <2>7, <2>8, <2>9 DEF Rating, Verdict, Alike
  <2>11. /\ v.raid.status = "ConnectedRW" /\ v.raid.inRecovery /\ v.raid.dirty = w.raid.dirty
         /\ v.raid.sector = 0 /\ v.raid.map = L.raid.map /\ v.raid.history = w.raid.history
         /\ v.unit = L.unit
    BY <2>2, <2>5, <2>6, <2>8 DEF SameArray, Phase, Alike
  <2>12. Tidy(v.unit[f]) /\ Labelled(v, s)
    <3>1. Tidy(v.unit[f])
      BY <2>2, <2>11 DEF Phase, Tidy, Untouched, SameQueue, Pending
    <3>2. Labelled(v, s)
      BY <2>2, <2>11 DEF Sound, Labelled, Alike
    <3> QED BY <3>1, <3>2
  <2>13. CASE w.raid.dirty
    <3>1. w.raid.map # NULL
      BY <2>13 DEF Returned
    <3>2. Returned(v, s)
      BY <2>2, <2>9, <2>10, <2>11, <2>13, <3>1 DEF Returned, Back, Serves, Is
    <3> QED BY <1>2, <2>1, <2>2, <2>8, <2>9, <2>10, <2>11, <2>12, <3>2 DEF Phase
  <2>14. CASE ~w.raid.dirty
    <3>1. Mirrored(v, s)
      BY <2>2, <2>9, <2>10, <2>11, <2>14 DEF Mirrored
    <3> QED BY <1>2, <2>1, <2>2, <2>8, <2>9, <2>10, <2>11, <2>12, <3>1 DEF Phase
  <2> QED BY <2>13, <2>14
<1>3. CASE ~(w.raid.rs = "ReadyToRecovery" /\ w.unit[f].status = "ConnectedRW")
  <2>1. w.raid.sector = 0
    BY <1>3 DEF Returned
  <2>2. [w EXCEPT !.raid.sector = 0] = w
    BY <2>1 DEF Handled, TypedWorld, RaidType
  <2>3. StartRecovery(w) = w
    BY <1>3, <2>2, StartIsLeveling
  <2> QED BY <1>3, <2>3 DEF Untouched, SameQueue
<1> QED BY <1>2, <1>3

(* The end of the recovery: the metadata of the copied disk stay one       *)
(* behind, until the other round.                                          *)
LEMMA RecoveryFinished ==
  ASSUME Willing, NEW w, Handled(w), NEW s \in Unit, Phase(w, s), Returned(w, s), Level(w)
  PROVE  LET v == FinishRecovery(w)
         IN  /\ Handled(v) /\ Sound(v, s) /\ ~Level(v)
             /\ \A u \in Unit : Untouched(v.unit[u], w.unit[u]) /\ v.unit[u].map = w.unit[u].map
             /\ ~v.raid.dirty /\ ~v.raid.inRecovery /\ v.raid.map = NULL
             /\ v.raid.sector = w.raid.sector /\ v.raid.history = w.raid.history
<1> DEFINE f == Other(s)
           usn == w.unit[s].mem.usn
           rs == Synced(w.unit[s].mem, usn + 1, FALSE, f)
           rf == Synced(w.unit[f].mem, usn, FALSE, f)
           w1 == [w EXCEPT !.unit[s] = WriteRMD(@, Synced(@.mem, usn + 1, FALSE, f))]
           w2 == [w1 EXCEPT !.unit[f] = WriteRMD(@, Synced(@.mem, usn, FALSE, f))]
           U == [u \in Unit |-> CheckRMD(w2.unit[u])]
           w3 == [w2 EXCEPT !.unit = U]
           v == FinishRecovery(w)
<1>1. /\ f \in Unit /\ f # s /\ Unit = {s, f} /\ TypedUnit(w.unit[f]) /\ TypedUnit(w.unit[s])
      /\ SubUnits(w, "Good") = {s} /\ Keeper(w) = s
  BY TheOther, OneIsGood, OneKeeper DEF Handled, TypedWorld, Returned, Mirrored
<1>2. Serves(w.unit[s]) /\ Serves(w.unit[f])
  <2>1. ~w.raid.dirty => ~Level(w)
    BY DEF Returned
  <2> QED BY <2>1, BackServes DEF Phase, Returned
<1>3. v = [w3 EXCEPT !.raid.inRecovery = FALSE, !.raid.map = NULL, !.raid.dirty = FALSE]
  <2>1. ManagingIsSuccess(w.unit[s], "writeRMD") /\ ManagingIsSuccess(w.unit[f], "writeRMD")
    BY <1>1, <1>2, ServerWrites
  <2> HIDE DEF w3
  <2> QED BY <1>1, <2>1 DEF FinishRecovery, w3
<1>4. /\ rs \in Metadata /\ rs.usn = usn + 1 /\ rs.degraded = FALSE /\ rs.notSynced = {}
      /\ rf \in Metadata /\ rf.usn = usn /\ rf.degraded = FALSE /\ rf.notSynced = {}
      /\ usn \in Nat
  <2>1. w.unit[s].mem \in Metadata /\ w.unit[f].mem \in Metadata
    BY <1>1 DEF TypedUnit, UnitType
  <2>2. usn \in Nat /\ usn + 1 \in Nat
    BY <2>1 DEF Metadata
  <2>3. w.unit[s].mem.notSynced = {f} /\ w.unit[f].mem.notSynced = {f}
    BY LevelOf, <2>1 DEF Phase, Returned, Labelled, Metadata
  <2> HIDE DEF usn, f
  <2> QED BY <1>1, <2>1, <2>2, <2>3 DEF Synced, Metadata
<1>5. WriteRMD(w.unit[s], rs) = [w.unit[s] EXCEPT !.rmd = rs]
      /\ WriteRMD(w.unit[f], rf) = [w.unit[f] EXCEPT !.rmd = rf]
  <2> HIDE DEF rs, rf
  <2> QED BY <1>1, <1>2, ServerWrites
<1>6. w1.raid = w.raid /\ w1.unit[f] = w.unit[f] /\ w1.unit[s] = [w.unit[s] EXCEPT !.rmd = rs]
      /\ w1.unit = [u \in Unit |-> w1.unit[u]] /\ w1 = [unit |-> w1.unit, raid |-> w1.raid]
  <2> DEFINE a == WriteRMD(w.unit[s], rs)
  <2>1. w1 = [w EXCEPT !.unit[s] = a]
    OBVIOUS
  <2>2. a = [w.unit[s] EXCEPT !.rmd = rs]
    BY <1>5
  <2> HIDE DEF a, w1, rs
  <2> QED BY <1>1, <2>1, <2>2 DEF Handled, TypedWorld
<1>7. w2.raid = w.raid /\ w2.unit[s] = w1.unit[s] /\ w2.unit[f] = [w.unit[f] EXCEPT !.rmd = rf]
      /\ w2.unit = [u \in Unit |-> w2.unit[u]] /\ w2 = [unit |-> w2.unit, raid |-> w2.raid]
  <2> DEFINE a == WriteRMD(w1.unit[f], Synced(w1.unit[f].mem, usn, FALSE, f))
  <2>1. w2 = [w1 EXCEPT !.unit[f] = a]
    OBVIOUS
  <2>2. a = [w.unit[f] EXCEPT !.rmd = rf]
    <3> HIDE DEF w1
    <3>1. Synced(w1.unit[f].mem, usn, FALSE, f) = rf
      BY <1>6
    <3> HIDE DEF rf, usn
    <3> QED BY <1>5, <1>6, <3>1
  <2> HIDE DEF a, w1, w2, rf
  <2> QED BY <1>1, <1>6, <2>1, <2>2
<1>8. /\ w3.raid = w.raid
      /\ w3.unit[s] = [w.unit[s] EXCEPT !.rmd = rs, !.mem = rs]
      /\ w3.unit[f] = [w.unit[f] EXCEPT !.rmd = rf, !.mem = rf]
  <2> DEFINE a == [w.unit[s] EXCEPT !.rmd = rs]
             b == [w.unit[f] EXCEPT !.rmd = rf]
  <2> HIDE DEF w2, rs, rf
  <2>1. w3.raid = w.raid /\ w3.unit = U
    BY <1>7
  <2>2. w3.unit[s] = CheckRMD(a) /\ w3.unit[f] = CheckRMD(b)
    BY <1>1, <1>6, <1>7, <2>1
  <2>3. /\ ManagingLands(a, "readRMD") /\ ManagingLands(b, "readRMD")
        /\ a.rmd = rs /\ b.rmd = rf
    <3>1. ManagingLands(w.unit[s], "readRMD") /\ ManagingLands(w.unit[f], "readRMD")
      BY <1>1, <1>2, ServerWrites
    <3> QED BY <1>1, <3>1 DEF TypedUnit, UnitType, ManagingLands, Reached
  <2>4. CheckRMD(a) = [a EXCEPT !.mem = rs] /\ CheckRMD(b) = [b EXCEPT !.mem = rf]
    BY <2>3 DEF CheckRMD
  <2> QED BY <2>1, <2>2, <2>4
<1> HIDE DEF w3, rs, rf, usn
<1>9. /\ Handled(v) /\ v.unit = w3.unit
      /\ v.raid.dirty = FALSE /\ ~v.raid.inRecovery /\ v.raid.map = NULL
      /\ v.raid.sector = w.raid.sector /\ v.raid.history = w.raid.history
      /\ v.raid.status = w.raid.status
  <2>1. Handled(v)
    BY <1>1, FinishRecoveryTyped
  <2>2. /\ v.unit = w3.unit
        /\ v.raid.dirty = FALSE /\ ~v.raid.inRecovery /\ v.raid.map = NULL
        /\ v.raid.sector = w3.raid.sector /\ v.raid.history = w3.raid.history
        /\ v.raid.status = w3.raid.status
    <3>1. w3 = [unit |-> w3.unit, raid |-> w3.raid] /\ w3.raid \in RaidType
      <4> HIDE DEF w2, U
      <4> QED BY <1>7, <1>8 DEF w3, Handled, TypedWorld
    <3> HIDE DEF v
    <3> QED BY <1>3, <3>1 DEF RaidType
  <2> QED BY <1>8, <2>1, <2>2
<1> HIDE DEF v
<1>10. /\ Untouched(v.unit[s], w.unit[s]) /\ Untouched(v.unit[f], w.unit[f])
       /\ v.unit[s].map = w.unit[s].map /\ v.unit[f].map = w.unit[f].map
       /\ v.unit[s].mem = rs /\ v.unit[s].rmd = rs /\ v.unit[f].mem = rf /\ v.unit[f].rmd = rf
  <2>1. \A u \in Unit : v.unit[u] = w3.unit[u]
    BY <1>9
  <2>2. /\ Untouched(w3.unit[s], w.unit[s]) /\ w3.unit[s].map = w.unit[s].map
        /\ w3.unit[s].mem = rs /\ w3.unit[s].rmd = rs
    BY <1>1, <1>8 DEF TypedUnit, UnitType, Untouched, SameQueue
  <2>3. /\ Untouched(w3.unit[f], w.unit[f]) /\ w3.unit[f].map = w.unit[f].map
        /\ w3.unit[f].mem = rf /\ w3.unit[f].rmd = rf
    BY <1>1, <1>8 DEF TypedUnit, UnitType, Untouched, SameQueue
  <2> QED BY <1>1, <2>1, <2>2, <2>3
<1>11. ~Level(v)
  <2>1. v.unit[s].mem.usn # v.unit[f].mem.usn
    BY <1>4, <1>10
  <2> QED BY <2>1, LevelOf
<1>12. Serves(v.unit[s]) /\ Serves(v.unit[f])
  BY <1>2, <1>10 DEF Serves, Is, Untouched, SameQueue
<1>13. ManagingLands(v.unit[f], "readRMD")
  BY <1>1, <1>9, <1>12, ServerWrites DEF Handled, TypedWorld
<1>14. Labelled(v, s)
  <2>1. rf.usn < rs.usn
    BY <1>4
  <2> QED BY <1>4, <1>9, <1>10, <2>1 DEF Labelled
<1>15. Sound(v, s)
  BY <1>9, <1>12, <1>13, <1>14 DEF Sound, Phase
<1> QED BY <1>1, <1>9, <1>10, <1>11, <1>15 DEF v

(* One turn of the recovery, but for its end: the block is copied and its  *)
(* bit cleared, or it is passed.                                           *)
Stored(w, s) ==
  IF w.raid.sector \in w.raid.map
  THEN Store(w.unit[Other(s)], w.raid.sector, w.unit[s].data[w.raid.sector]) ELSE w.unit[Other(s)]

Passed(w, s) ==
  LET x == [w EXCEPT !.unit[Other(s)] = Stored(w, s)]
      y == [x EXCEPT !.raid.sector = w.raid.sector + 1]
  IN IF w.raid.sector \in w.raid.map THEN ClearBitmap(y) ELSE y

LEMMA StoreIsIntact ==
  ASSUME NEW u, TypedUnit(u), NEW k \in Block, NEW v \in Held
  PROVE  LET x == Store(u, k, v)
         IN  /\ TypedUnit(x) /\ Intact(x, u) /\ x.mem = u.mem /\ x.rmd = u.rmd /\ x.map = u.map
             /\ \A b \in Block : x.data[b] = IF b = k THEN v ELSE u.data[b]
<1> DEFINE t == Append(u.recent, [b |-> k, old |-> u.data[k]])
           r == SubSeq(t, 1 + (IF Len(t) > Cache THEN 1 ELSE 0), Len(t))
           d == [u.data EXCEPT ![k] = v]
           x == Store(u, k, v)
<1>1. x = [u EXCEPT !.data = d, !.recent = r]
  BY DEF Store, TypedUnit, UnitType
<1>2. TypedUnit(x)
  BY StoreTyped
<1> HIDE DEF x, r, d
<1>3. Intact(x, u) /\ x.mem = u.mem /\ x.rmd = u.rmd /\ x.map = u.map /\ x.data = d
  BY <1>1 DEF TypedUnit, UnitType, Intact, SameQueue
<1>4. u.data \in [Block -> Held]
  BY DEF TypedUnit, UnitType
<1> QED BY <1>2, <1>3, <1>4 DEF x, d

LEMMA BlockPassed ==
  ASSUME Willing, NEW w, Handled(w), NEW s \in Unit, Phase(w, s), Returned(w, s), Level(w),
         w.raid.sector < Capacity
  PROVE  LET v == Passed(w, s)
         IN  /\ Handled(v) /\ Phase(v, s) /\ Returned(v, s) /\ Level(v) /\ Alike(v, w)
             /\ v.raid.sector = w.raid.sector + 1
             /\ v.raid.map \subseteq w.raid.map
             /\ \A x \in w.raid.map : x > w.raid.sector => x \in v.raid.map
             /\ Untouched(v.unit[s], w.unit[s]) /\ Intact(v.unit[Other(s)], w.unit[Other(s)])
             /\ v.unit[Other(s)] = Stored(w, s)
<1> DEFINE f == Other(s)
           k == w.raid.sector
           x == Stored(w, s)
           w1 == [w EXCEPT !.unit[f] = x]
           w2 == [w1 EXCEPT !.raid.sector = k + 1]
           m == {b \in w2.raid.map : b >= w2.raid.sector}
           v == Passed(w, s)
<1>1. /\ f \in Unit /\ f # s /\ Unit = {s, f} /\ TypedUnit(w.unit[f]) /\ TypedUnit(w.unit[s])
      /\ SubUnits(w, "Good") = {s}
  BY TheOther, OneIsGood DEF Handled, TypedWorld, Returned, Mirrored
<1>2. /\ k \in Block /\ k + 1 \in 0..Capacity /\ k \in Nat /\ w.raid.dirty
      /\ w.raid.map \in Bitmap /\ w.unit[f].status = "ConnectedRW" /\ w.raid.inRecovery
      /\ w.raid.rs = "Recovering"
  <2>1. w.raid.sector \in 0..Capacity /\ w.raid.map \in {NULL} \cup Bitmap
    BY DEF Handled, TypedWorld, RaidType
  <2>2. w.raid.sector \in Block
    BY <2>1, Numbers DEF Block
  <2> QED BY <2>1, <2>2, Numbers DEF Returned
<1>3. /\ TypedUnit(x) /\ Intact(x, w.unit[f]) /\ x.mem = w.unit[f].mem /\ x.rmd = w.unit[f].rmd
      /\ SameQueue(x, w.unit[f])
  <2> DEFINE z == w.unit[s].data[k]
  <2>1. z \in Held
    BY <1>1, <1>2 DEF TypedUnit, UnitType
  <2>2. /\ TypedUnit(Store(w.unit[f], k, z)) /\ Intact(Store(w.unit[f], k, z), w.unit[f])
        /\ Store(w.unit[f], k, z).mem = w.unit[f].mem /\ Store(w.unit[f], k, z).rmd = w.unit[f].rmd
    <3> HIDE DEF z
    <3> QED BY <1>1, <1>2, <2>1, StoreIsIntact
  <2>3. x = Store(w.unit[f], k, z) \/ x = w.unit[f]
    BY DEF Stored
  <2> HIDE DEF x, z
  <2> QED BY <1>1, <2>2, <2>3 DEF Intact, SameQueue
<1>4. /\ Handled(w1) /\ w1.raid = w.raid /\ w1.unit[f] = x /\ w1.unit[s] = w.unit[s]
  <2> HIDE DEF x
  <2> QED BY <1>1, <1>3, SetUnitTyped
<1> HIDE DEF w1
<1>5. /\ Handled(w2) /\ w2.unit = w1.unit /\ Alike(w2, w)
      /\ w2.raid.map = w.raid.map /\ w2.raid.sector = k + 1
  <2>1. Alike(w2, w1)
    BY <1>4 DEF Handled, TypedWorld, RaidType, Alike
  <2> HIDE DEF k
  <2>2. Handled(w2) /\ w2.unit = w1.unit /\ w2.raid.map = w1.raid.map /\ w2.raid.sector = k + 1
    BY <1>2, <1>4, SetRecoveryTyped
  <2> QED BY <1>4, <2>1, <2>2 DEF Alike
<1> HIDE DEF w2
<1>6. Serves(w2.unit[s]) /\ SubUnits(w2, "Good") = {s} /\ Keeper(w2) = s
  <2>1. Serves(w2.unit[s]) /\ SubUnits(w2, "Good") = {s}
    BY <1>1, <1>4, <1>5 DEF Phase, SubUnits, Alike
  <2> QED BY <2>1, OneKeeper
<1>7. /\ Handled(v) /\ Alike(v, w) /\ v.raid.sector = k + 1
      /\ v.raid.map \in Bitmap /\ v.raid.map \subseteq w.raid.map
      /\ \A b \in w.raid.map : b > k => b \in v.raid.map
      /\ Untouched(v.unit[s], w2.unit[s]) /\ v.unit[f] = w2.unit[f]
      /\ v.unit[s].mem = w2.unit[s].mem /\ v.unit[s].rmd = w2.unit[s].rmd
  <2>1. v = IF k \in w.raid.map THEN ClearBitmap(w2) ELSE w2
    BY DEF Passed, w1, w2
  <2>2. CASE v = w2
    <3> HIDE DEF v, k
    <3> QED BY <1>2, <1>5, <2>2 DEF Untouched, SameQueue
  <2>3. CASE v = ClearBitmap(w2) /\ v # w2
    <3>1. v = [w2 EXCEPT !.raid.map = m, !.unit[s] = WriteMap(@, m)]
      <4>1. ManagingIsSuccess(w2.unit[s], "map")
        BY <1>5, <1>6, ServerWrites DEF Handled, TypedWorld
      <4> QED BY <1>6, <2>3, <4>1 DEF ClearBitmap
    <3>2. WriteMap(w2.unit[s], m) = [w2.unit[s] EXCEPT !.map = m]
      BY <1>1, <1>5, <1>6, ServerWrites DEF Handled, TypedWorld
    <3>3. /\ m \in Bitmap /\ m \subseteq w.raid.map
          /\ \A b \in w.raid.map : b > k => b \in m
      <4>1. \A b \in w.raid.map : b \in Int /\ k \in Int
        BY <1>2 DEF Bitmap
      <4> HIDE DEF k
      <4> QED BY <1>2, <1>5, <4>1 DEF Bitmap
    <3>4. Handled(v)
      BY <1>5, <1>6, <2>3, <1>2, ClearBitmapTyped
    <3> HIDE DEF m, v
    <3>5. /\ v.raid = [w2.raid EXCEPT !.map = m]
          /\ v.unit[s] = [w2.unit[s] EXCEPT !.map = m] /\ v.unit[f] = w2.unit[f]
      <4> DEFINE q == [w2.unit[s] EXCEPT !.map = m]
      <4>1. v = [w2 EXCEPT !.raid.map = m, !.unit[s] = q]
        <5> HIDE DEF q
        <5> QED BY <1>5, <3>1, <3>2 DEF Handled, TypedWorld, q
      <4> HIDE DEF q
      <4>2. v.unit = [w2.unit EXCEPT ![s] = q] /\ v.raid = [w2.raid EXCEPT !.map = m]
        BY <1>5, <4>1 DEF Handled, TypedWorld
      <4> QED BY <1>1, <1>5, <4>2 DEF Handled, TypedWorld, q
    <3>6. Alike(v, w2) /\ v.raid.map = m /\ v.raid.sector = w2.raid.sector
      BY <1>5, <3>5 DEF Handled, TypedWorld, RaidType, Alike
    <3>7. w2.unit[s] \in UnitType
      BY <1>5 DEF Handled, TypedWorld
    <3>8. Untouched(v.unit[s], w2.unit[s])
          /\ v.unit[s].mem = w2.unit[s].mem /\ v.unit[s].rmd = w2.unit[s].rmd
      BY <3>5, <3>7 DEF UnitType, Untouched, SameQueue
    <3> QED BY <1>5, <3>3, <3>4, <3>5, <3>6, <3>8 DEF Alike
  <2> QED BY <2>1, <2>2, <2>3
<1> HIDE DEF v, x, k
<1>8. /\ v.unit[f] = x /\ v.unit[f].mem = w.unit[f].mem /\ v.unit[f].rmd = w.unit[f].rmd
      /\ Intact(v.unit[f], w.unit[f])
      /\ Untouched(v.unit[s], w.unit[s])
      /\ v.unit[s].mem = w.unit[s].mem /\ v.unit[s].rmd = w.unit[s].rmd
  BY <1>3, <1>4, <1>5, <1>7
<1>9. Level(v)
  BY <1>8, LevelOf
<1>10. Returned(v, s)
  <2>1. Back(v.unit[f]) /\ v.unit[f].status = "ConnectedRW"
    BY <1>2, <1>8 DEF Returned, Back, Is, Intact
  <2>2. v.raid.map # NULL
    BY <1>7, NullIsNoBitmap
  <2> QED BY <1>2, <1>7, <1>9, <2>1, <2>2 DEF Returned, Alike
<1>11. Phase(v, s)
  <2>1. Serves(v.unit[s])
    BY <1>8 DEF Phase, Serves, Is, Untouched, SameQueue
  <2>2. Tidy(v.unit[f])
    BY <1>8 DEF Phase, Tidy, Intact, SameQueue, Pending
  <2>3. Labelled(v, s)
    BY <1>7, <1>8 DEF Phase, Labelled, Alike
  <2> QED BY <1>7, <1>10, <2>1, <2>2, <2>3 DEF Phase, Alike
<1> QED BY <1>7, <1>8, <1>9, <1>10, <1>11 DEF v, x, k

(* The disks do not refuse to copy the block at hand.                      *)
Copyable(w) == w.raid.sector \in w.raid.map => \A u \in Unit : "copy" \notin w.unit[u].fails

(* A disk that serves copies a block, unless it refuses to.                *)
LEMMA ServerCopies ==
  ASSUME NEW x, TypedUnit(x), Serves(x)
  PROVE  LET y == Refused(x, "copy")
         IN  /\ ManagingLands(x, "copy") <=> "copy" \notin x.fails
             /\ ManagingIsSuccess(x, "copy") <=> "copy" \notin x.fails
             /\ ManagingAfter(x, "copy") = y /\ ("copy" \notin x.fails => y = x)
             /\ TypedUnit(y) /\ Untouched(y, x)
             /\ y.mem = x.mem /\ y.rmd = x.rmd /\ y.map = x.map
<1> DEFINE y == Refused(x, "copy")
<1>1. /\ ManagingLands(x, "copy") <=> "copy" \notin x.fails
      /\ ManagingIsSuccess(x, "copy") <=> "copy" \notin x.fails
      /\ ManagingAfter(x, "copy") = UpdateStatus(y, FALSE, FALSE)
  BY DEF Serves, Is, ManagingLands, ManagingIsSuccess, ManagingAfter, Reached
<1>2. "copy" \notin x.fails => y = x
  BY DEF Refused, TypedUnit, UnitType
<1>3. /\ TypedUnit(y) /\ Untouched(y, x) /\ y.mem = x.mem /\ y.rmd = x.rmd /\ y.map = x.map
  <2>1. TypedUnit(y)
    BY RefusedTyped
  <2> QED BY <2>1 DEF Refused, TypedUnit, UnitType, Untouched, SameQueue
<1>4. UpdateStatus(y, FALSE, FALSE) = y
  <2>1. y.sess = "up" /\ y.status = "ConnectedRW"
    BY <1>3 DEF Untouched, Serves, Is
  <2> HIDE DEF y
  <2>2. UpdateStatus(y, FALSE, FALSE) = [y EXCEPT !.status = y.status]
    BY <2>1 DEF UpdateStatus, CheckDataConnection
  <2> QED BY <1>3, <2>2 DEF TypedUnit, UnitType
<1> QED BY <1>1, <1>2, <1>3, <1>4

LEMMA CopyIsPassing ==
  ASSUME Willing, NEW w, Handled(w), NEW s \in Unit, Phase(w, s), Returned(w, s), Level(w),
         Copyable(w)
  PROVE  CopyBlock(w) = UpdateRAIDStatus(IF w.raid.sector + 1 >= Capacity
                                         THEN FinishRecovery(Passed(w, s)) ELSE Passed(w, s))
<1> DEFINE f == Other(s)
           k == w.raid.sector
           read == ReadBlock(w.unit[s], k)
           unread == [w EXCEPT !.unit[s] = ManagingAfter(@, "copy")]
           written == [unread EXCEPT !.unit[f] = IF ManagingLands(@, "copy") THEN Store(@, k, read)
                                                                             ELSE ManagingAfter(@, "copy")]
           pass(x) == [x EXCEPT !.raid.sector = k + 1]
           next(x) == IF k + 1 >= Capacity THEN FinishRecovery(x) ELSE x
           last == Only({next(x) : x \in {ClearBitmap(pass(y)) : y \in {written}}})
           p == Passed(w, s)
<1>1. /\ f \in Unit /\ f # s /\ TypedUnit(w.unit[f]) /\ TypedUnit(w.unit[s])
      /\ SubUnits(w, "Good") = {s} /\ Keeper(w) = s
  BY TheOther, OneIsGood, OneKeeper DEF Handled, TypedWorld, Returned, Mirrored
<1>2. Serves(w.unit[s]) /\ Serves(w.unit[f])
  <2>1. ~w.raid.dirty => ~Level(w)
    BY DEF Returned
  <2> QED BY <2>1, BackServes DEF Phase, Returned
<1>3. k \in w.raid.map =>
        /\ ManagingIsSuccess(w.unit[s], "copy") /\ ManagingIsSuccess(w.unit[f], "copy")
        /\ ManagingLands(w.unit[s], "copy") /\ ManagingLands(w.unit[f], "copy")
        /\ ManagingAfter(w.unit[s], "copy") = w.unit[s]
  BY <1>1, <1>2, ServerCopies DEF Copyable
<1>4. IsDirtyBitSet(w) <=> k \in w.raid.map
  BY DEF IsDirtyBitSet, Phase
<1>5. CopyBlock(w) = UpdateRAIDStatus(IF k \in w.raid.map THEN last ELSE next(pass(w)))
  <2>1. CopyBlock(w) = UpdateRAIDStatus(
               IF ~IsDirtyBitSet(w) THEN next(pass(w))
               ELSE IF ~ManagingIsSuccess(w.unit[s], "copy") THEN unread
               ELSE IF ~ManagingIsSuccess(w.unit[f], "copy") THEN SetBitmap(written, Rollback(k))
               ELSE last)
    BY <1>1 DEF CopyBlock
  <2> HIDE DEF last, next, pass, unread, written, k
  <2> QED BY <1>3, <1>4, <2>1
<1>6. CASE k \in w.raid.map
  <2> DEFINE a == Store(w.unit[f], k, w.unit[s].data[k])
             x == [w EXCEPT !.unit[f] = a]
  <2>1. unread = w
    <3>1. w.unit = [w.unit EXCEPT ![s] = w.unit[s]]
      BY DEF Handled, TypedWorld
    <3> QED BY <1>3, <1>6, <3>1 DEF Handled, TypedWorld
  <2>2. written = x
    <3>1. read = w.unit[s].data[k]
      BY <1>3, <1>6 DEF ReadBlock
    <3> DEFINE q == IF ManagingLands(w.unit[f], "copy") THEN Store(w.unit[f], k, read)
                                                        ELSE ManagingAfter(w.unit[f], "copy")
    <3>2. q = a
      BY <1>3, <1>6, <3>1
    <3>3. written = [w EXCEPT !.unit[f] = q]
      <4> HIDE DEF unread, read
      <4> QED BY <2>1
    <3> HIDE DEF q, a, written
    <3> QED BY <3>2, <3>3
  <2>3. {ClearBitmap(pass(y)) : y \in {written}} = {ClearBitmap(pass(x))}
    <3> HIDE DEF written, x, pass
    <3> QED BY <2>2
  <2>4. p = ClearBitmap(pass(x))
    BY <1>6 DEF Passed, Stored
  <2>5. last = next(p)
    <3> HIDE DEF next, p, x, pass, written
    <3>1. {next(z) : z \in {p}} = {next(p)}
      OBVIOUS
    <3> QED BY <2>3, <2>4, <3>1, OnlyOne
  <2> HIDE DEF last
  <2> QED BY <1>5, <1>6, <2>5
<1>7. CASE k \notin w.raid.map
  <2>1. [w EXCEPT !.unit[f] = w.unit[f]] = w
    <3>1. w.unit = [w.unit EXCEPT ![f] = w.unit[f]]
      BY DEF Handled, TypedWorld
    <3> QED BY <3>1 DEF Handled, TypedWorld
  <2>2. p = pass([w EXCEPT !.unit[f] = w.unit[f]])
    BY <1>7 DEF Passed, Stored
  <2>3. p = pass(w)
    BY <2>1, <2>2
  <2> HIDE DEF pass, last
  <2> QED BY <1>5, <1>7, <2>3
<1> QED BY <1>6, <1>7

(* A disk refuses the copying of a block: it is tried again.               *)
LEMMA CopyRefused ==
  ASSUME Willing, NEW w, Handled(w), NEW s \in Unit, Phase(w, s), Returned(w, s), Level(w),
         w.raid.sector \in w.raid.map, NEW c \in Unit, "copy" \in w.unit[c].fails
  PROVE  LET v == CopyBlock(w)
         IN  /\ Handled(v) /\ Phase(v, s) /\ Returned(v, s)
             /\ \A u \in Unit : Untouched(v.unit[u], w.unit[u])
             /\ v.raid.history = w.raid.history /\ v.raid.sector = w.raid.sector
             /\ v.raid.rs = "Recovering" /\ v.raid.dirty /\ v.raid.inRecovery
             /\ w.raid.map \subseteq v.raid.map
<1> DEFINE f == Other(s)
           k == w.raid.sector
           read == ReadBlock(w.unit[s], k)
           xs == Refused(w.unit[s], "copy")
           xf == Refused(w.unit[f], "copy")
           unread == [w EXCEPT !.unit[s] = xs]
           spoilt == [w EXCEPT !.unit[f] = xf]
           y == IF "copy" \in w.unit[s].fails THEN unread ELSE SetBitmap(spoilt, Rollback(k))
           v == CopyBlock(w)
<1>1. /\ f \in Unit /\ f # s /\ Unit = {s, f} /\ TypedUnit(w.unit[f]) /\ TypedUnit(w.unit[s])
      /\ SubUnits(w, "Good") = {s} /\ Keeper(w) = s
  BY TheOther, OneIsGood, OneKeeper DEF Handled, TypedWorld, Returned, Mirrored
<1>2. Serves(w.unit[s]) /\ Serves(w.unit[f])
  <2>1. ~w.raid.dirty => ~Level(w)
    BY DEF Returned
  <2> QED BY <2>1, BackServes DEF Phase, Returned
<1>3. /\ w.raid.dirty /\ w.raid.inRecovery /\ w.raid.map \in Bitmap /\ w.raid.rs = "Recovering"
      /\ w.raid.status = "ConnectedRW"
  BY DEF Returned, Phase, Handled, TypedWorld, RaidType
<1>4. /\ TypedUnit(xs) /\ Untouched(xs, w.unit[s]) /\ xs.mem = w.unit[s].mem /\ xs.rmd = w.unit[s].rmd
      /\ TypedUnit(xf) /\ Untouched(xf, w.unit[f]) /\ xf.mem = w.unit[f].mem /\ xf.rmd = w.unit[f].rmd
      /\ "copy" \notin w.unit[s].fails => xs = w.unit[s]
  BY <1>1, <1>2, ServerCopies
<1>5. v = UpdateRAIDStatus(y)
  <2> DEFINE again == [unread EXCEPT !.unit[f] = IF ManagingLands(@, "copy") THEN Store(@, k, read)
                                                                            ELSE ManagingAfter(@, "copy")]
             fresh == [w EXCEPT !.unit[s] = ManagingAfter(@, "copy")]
             pass(x) == [x EXCEPT !.raid.sector = k + 1]
             next(x) == IF k + 1 >= Capacity THEN FinishRecovery(x) ELSE x
             rest == Only({next(x) : x \in {ClearBitmap(pass(z)) : z \in {again}}})
  <2>1. fresh = unread
    BY <1>1, <1>2, ServerCopies
  <2>2. IsDirtyBitSet(w)
    BY <1>3 DEF IsDirtyBitSet
  <2>3. v = UpdateRAIDStatus(
              IF ~IsDirtyBitSet(w) THEN next(pass(w))
              ELSE IF ~ManagingIsSuccess(w.unit[s], "copy") THEN unread
              ELSE IF ~ManagingIsSuccess(w.unit[f], "copy") THEN SetBitmap(again, Rollback(k))
              ELSE rest)
    <3> DEFINE F(fr) == LET ag == [fr EXCEPT !.unit[f] = IF ManagingLands(@, "copy") THEN Store(@, k, read)
                                                                            ELSE ManagingAfter(@, "copy")]
                        IN  UpdateRAIDStatus(
                              IF ~IsDirtyBitSet(w) THEN next(pass(w))
                              ELSE IF ~ManagingIsSuccess(w.unit[s], "copy") THEN fr
                              ELSE IF ~ManagingIsSuccess(w.unit[f], "copy") THEN SetBitmap(ag, Rollback(k))
                              ELSE Only({next(x) : x \in {ClearBitmap(pass(z)) : z \in {ag}}}))
    <3>1. v = F(fresh)
      BY <1>1 DEF CopyBlock
    <3>2. F(fresh) = F(unread)
      <4> HIDE DEF F, fresh, unread
      <4> QED BY <2>1
    <3> QED BY <3>1, <3>2
  <2>4. CASE "copy" \in w.unit[s].fails
    <3>1. ~ManagingIsSuccess(w.unit[s], "copy")
      BY <1>1, <1>2, <2>4, ServerCopies
    <3> HIDE DEF rest, next, pass, unread, again
    <3> QED BY <2>2, <2>3, <2>4, <3>1
  <2>5. CASE "copy" \notin w.unit[s].fails
    <3>1. "copy" \in w.unit[f].fails
      BY <1>1, <2>5
    <3>2. ManagingIsSuccess(w.unit[s], "copy") /\ ~ManagingIsSuccess(w.unit[f], "copy")
          /\ ~ManagingLands(w.unit[f], "copy") /\ ManagingAfter(w.unit[f], "copy") = xf
      BY <1>1, <1>2, <2>5, <3>1, ServerCopies
    <3>3. unread = w
      <4>1. w.unit = [w.unit EXCEPT ![s] = w.unit[s]]
        BY DEF Handled, TypedWorld
      <4> QED BY <1>4, <2>5, <4>1 DEF Handled, TypedWorld
    <3>4. again = spoilt
      <4> HIDE DEF unread, read, xf
      <4> QED BY <3>2, <3>3
    <3> HIDE DEF rest, next, pass, unread, again, spoilt
    <3> QED BY <2>2, <2>3, <2>5, <3>2, <3>4
  <2> QED BY <2>4, <2>5
<1> HIDE DEF v, xs, xf
<1>6. /\ Handled(unread) /\ unread.raid = w.raid /\ unread.unit[s] = xs /\ unread.unit[f] = w.unit[f]
      /\ Handled(spoilt) /\ spoilt.raid = w.raid /\ spoilt.unit[f] = xf /\ spoilt.unit[s] = w.unit[s]
  BY <1>1, <1>4, SetUnitTyped DEF Untouched
<1> HIDE DEF unread, spoilt
<1>7. /\ Handled(y) /\ Alike(y, w) /\ y.raid.sector = k
      /\ w.raid.map \subseteq y.raid.map /\ y.raid.map \in Bitmap
      /\ \A u \in Unit : /\ Untouched(y.unit[u], w.unit[u])
                         /\ y.unit[u].mem = w.unit[u].mem /\ y.unit[u].rmd = w.unit[u].rmd
  <2>1. CASE "copy" \in w.unit[s].fails
    <3>1. y = unread
      BY <2>1
    <3> HIDE DEF y, f, k
    <3>2. \A u \in Unit : /\ Untouched(y.unit[u], w.unit[u])
                         /\ y.unit[u].mem = w.unit[u].mem /\ y.unit[u].rmd = w.unit[u].rmd
      BY <1>1, <1>4, <1>6, <3>1 DEF Untouched, SameQueue
    <3>3. Handled(y) /\ y.raid = w.raid
      BY <1>6, <3>1
    <3> QED BY <1>3, <3>2, <3>3 DEF Alike, k
  <2>2. CASE "copy" \notin w.unit[s].fails
    <3> DEFINE S == Rollback(k)
    <3>1. y = SetBitmap(spoilt, S)
      BY <2>2
    <3> HIDE DEF y, S
    <3>2. SubUnits(spoilt, "Good") = {s} /\ Serves(spoilt.unit[s])
      BY <1>1, <1>2, <1>6 DEF SubUnits
    <3>3. CASE S \subseteq 0..Capacity
      <4>1. spoilt.raid.map # NULL /\ spoilt.raid.status = "ConnectedRW"
        BY <1>3, <1>6, NullIsNoBitmap
      <4>2. /\ Remarked(y, spoilt, spoilt.raid.map \cup S) /\ Handled(y)
            /\ y.unit[f] = spoilt.unit[f] /\ Untouched(y.unit[s], spoilt.unit[s])
            /\ y.unit[s].mem = spoilt.unit[s].mem /\ y.unit[s].rmd = spoilt.unit[s].rmd
        <5> DEFINE z == SetBitmap(spoilt, S)
        <5>1. Handled(spoilt) /\ Serves(spoilt.unit[s]) /\ SubUnits(spoilt, "Good") = {s}
          BY <1>6, <3>2
        <5>2. /\ Remarked(z, spoilt, spoilt.raid.map \cup S) /\ Handled(z)
              /\ z.unit[Other(s)] = spoilt.unit[Other(s)] /\ Untouched(z.unit[s], spoilt.unit[s])
              /\ z.unit[s].mem = spoilt.unit[s].mem /\ z.unit[s].rmd = spoilt.unit[s].rmd
          BY ONLY Willing, s \in Unit, <5>1, <3>3, <4>1, BitmapSet
        <5> HIDE DEF z
        <5> QED BY <3>1, <5>2 DEF z
      <4>3. spoilt.raid.map \cup S \in Bitmap
        BY <1>3, <1>6, <3>3 DEF Bitmap
      <4> HIDE DEF f, k
      <4>4. \A u \in Unit : /\ Untouched(y.unit[u], w.unit[u])
                           /\ y.unit[u].mem = w.unit[u].mem /\ y.unit[u].rmd = w.unit[u].rmd
        BY <1>1, <1>4, <1>6, <4>2 DEF Untouched, SameQueue
      <4>5. Alike(y, w) /\ y.raid.sector = w.raid.sector /\ y.raid.map = w.raid.map \cup S
        BY <1>3, <1>6, <4>2 DEF Remarked, Alike
      <4> QED BY <1>6, <4>2, <4>3, <4>4, <4>5 DEF k
    <3>4. CASE ~(S \subseteq 0..Capacity)
      <4>1. y = [spoilt EXCEPT !.raid.dirty = TRUE]
        BY <3>1, <3>4 DEF SetBitmap
      <4>2. y = spoilt
        BY <1>3, <1>6, <4>1 DEF Handled, TypedWorld, RaidType
      <4> HIDE DEF f, k
      <4>3. \A u \in Unit : /\ Untouched(y.unit[u], w.unit[u])
                           /\ y.unit[u].mem = w.unit[u].mem /\ y.unit[u].rmd = w.unit[u].rmd
        BY <1>1, <1>4, <1>6, <4>2 DEF Untouched, SameQueue
      <4> QED BY <1>3, <1>6, <4>2, <4>3 DEF Alike, k
    <3> QED BY <3>3, <3>4
  <2> QED BY <2>1, <2>2
<1> HIDE DEF y, k
<1>8. Level(y)
  BY <1>1, <1>7, LevelOf
<1>9. Phase(y, s) /\ Returned(y, s)
  <2>1. Back(y.unit[f]) /\ y.unit[f].status = "ConnectedRW"
    BY <1>1, <1>2, <1>7 DEF Serves, Back, Is, Untouched
  <2>2. y.raid.map # NULL
    BY <1>7, NullIsNoBitmap
  <2>3. Returned(y, s)
    BY <1>3, <1>7, <1>8, <2>1, <2>2 DEF Returned, Alike
  <2>4. Serves(y.unit[s])
    BY <1>1, <1>2, <1>7 DEF Serves, Is, Untouched, SameQueue
  <2>5. Tidy(y.unit[f])
    BY <1>1, <1>7 DEF Phase, Tidy, Untouched, SameQueue, Pending
  <2>6. Labelled(y, s)
    BY <1>1, <1>7 DEF Phase, Labelled, Alike
  <2> QED BY <1>3, <1>7, <2>3, <2>4, <2>5, <2>6 DEF Phase, Alike
<1>10. /\ SameButStatus(v, y) /\ Phase(v, s) /\ v.raid.rs = Rating(y, s)
  BY <1>5, <1>7, <1>9, PhaseUpdated
<1>11. Rating(y, s) = "Recovering"
  <2>1. ~Missed(y.unit[f])
    BY <1>9 DEF Returned, Back, Is, Missed
  <2> QED BY <1>3, <1>7, <2>1 DEF Rating, Alike
<1>12. Returned(v, s)
  BY <1>10, <1>11 DEF Phase, Mirrored, Unmarked, Degraded
<1> QED BY <1>3, <1>7, <1>10, <1>11, <1>12 DEF SameButStatus, SameArray, Alike, Untouched, SameQueue, v, k

LEMMA BlockCopied ==
  ASSUME Willing, NEW w, Handled(w), NEW s \in Unit, Phase(w, s), Returned(w, s), Level(w),
         w.raid.sector < Capacity, Copyable(w)
  PROVE  LET v == CopyBlock(w)
             p == Passed(w, s)
         IN  /\ Handled(v) /\ Phase(v, s) /\ Returned(v, s)
             /\ Untouched(v.unit[s], w.unit[s]) /\ Untouched(v.unit[Other(s)], p.unit[Other(s)])
             /\ Intact(v.unit[Other(s)], w.unit[Other(s)])
             /\ v.raid.history = w.raid.history
             /\ v.raid.sector = w.raid.sector + 1
             /\ IF w.raid.sector + 1 >= Capacity
                THEN v.raid.rs = "ReadyToRecovery" /\ ~v.raid.dirty
                ELSE /\ v.raid.rs = "Recovering" /\ v.raid.dirty /\ v.raid.inRecovery
                     /\ v.raid.map = p.raid.map
<1> DEFINE f == Other(s)
           p == Passed(w, s)
           e == FinishRecovery(p)
           v == CopyBlock(w)
<1>1. /\ Handled(p) /\ Phase(p, s) /\ Returned(p, s) /\ Level(p) /\ Alike(p, w)
      /\ p.raid.sector = w.raid.sector + 1
      /\ Untouched(p.unit[s], w.unit[s]) /\ Intact(p.unit[f], w.unit[f])
  BY BlockPassed
<1>2. v = UpdateRAIDStatus(IF w.raid.sector + 1 >= Capacity THEN e ELSE p)
  BY CopyIsPassing
<1>3. f \in Unit
  BY TheOther
<1>4. CASE w.raid.sector + 1 >= Capacity
  <2>1. /\ Handled(e) /\ Sound(e, s) /\ ~Level(e)
        /\ \A u \in Unit : Untouched(e.unit[u], p.unit[u]) /\ e.unit[u].map = p.unit[u].map
        /\ ~e.raid.dirty /\ ~e.raid.inRecovery /\ e.raid.map = NULL
        /\ e.raid.sector = p.raid.sector /\ e.raid.history = p.raid.history
    <3> HIDE DEF p
    <3> QED BY <1>1, RecoveryFinished
  <2> HIDE DEF e
  <2>2. /\ Handled(v) /\ SameArray(v, e) /\ v.unit = e.unit
        /\ v.raid.sub[s] = "Good" /\ v.raid.sub[f] = Verdict(e, s)
        /\ v.raid.rs = Rating(e, s)
    BY <1>2, <1>4, <2>1, StatusUpdated
  <2> HIDE DEF v, p
  <2>3. Untouched(v.unit[s], p.unit[s]) /\ Untouched(v.unit[f], p.unit[f])
    BY <1>3, <2>1, <2>2
  <2>4. ~Missed(e.unit[f]) /\ Back(v.unit[f]) /\ v.unit[f].status = "ConnectedRW"
    <3>1. p.unit[f].status = "ConnectedRW" /\ Back(p.unit[f])
      BY <1>1 DEF Returned
    <3> QED BY <2>2, <2>3, <3>1 DEF Missed, Back, Is, Untouched
  <2>5. v.raid.rs = "ReadyToRecovery" /\ v.raid.sub[f] = "NeedRecovery"
    BY <2>1, <2>2, <2>4 DEF Rating, Verdict
  <2>6. ~Level(v) /\ ~v.raid.dirty /\ ~v.raid.inRecovery /\ v.raid.map = NULL
        /\ v.raid.sector = p.raid.sector /\ v.raid.history = p.raid.history
        /\ v.raid.status = "ConnectedRW"
    BY <2>1, <2>2 DEF Level, SameArray, Sound
  <2>7. Returned(v, s)
    BY <2>4, <2>5, <2>6 DEF Returned
  <2>8. Phase(v, s)
    <3>1. Serves(v.unit[s])
      BY <2>1, <2>2 DEF Sound
    <3>2. Tidy(v.unit[f])
      BY <1>1, <2>3 DEF Phase, Tidy, Untouched, SameQueue, Pending
    <3>3. Labelled(v, s)
      BY <2>1, <2>2 DEF Sound, Labelled, SameArray
    <3> QED BY <2>2, <2>6, <2>7, <3>1, <3>2, <3>3 DEF Phase
  <2>9. Untouched(v.unit[s], w.unit[s]) /\ Intact(v.unit[f], w.unit[f])
    BY <1>1, <2>3 DEF Untouched, Intact, SameQueue
  <2> QED BY <1>1, <1>4, <2>2, <2>3, <2>5, <2>6, <2>7, <2>8, <2>9 DEF v, p, Alike
<1>5. CASE ~(w.raid.sector + 1 >= Capacity)
  <2>1. v = UpdateRAIDStatus(p)
    BY <1>2, <1>5
  <2> HIDE DEF v, p
  <2>2. /\ SameButStatus(v, p) /\ Phase(v, s)
        /\ v.raid.rs = Rating(p, s) /\ v.raid.sub[f] = Verdict(p, s)
    BY <1>1, <2>1, PhaseUpdated
  <2>3. p.raid.dirty /\ p.raid.inRecovery /\ ~Missed(p.unit[f]) /\ p.raid.rs = "Recovering"
    BY <1>1 DEF Returned, Back, Is, Missed
  <2>4. v.raid.rs = "Recovering"
    BY <2>2, <2>3 DEF Rating
  <2>5. Returned(v, s)
    BY <2>2, <2>4 DEF Phase, Mirrored, Unmarked, Degraded
  <2>6. Untouched(v.unit[s], w.unit[s]) /\ Intact(v.unit[f], w.unit[f])
        /\ Untouched(v.unit[f], p.unit[f])
    BY <1>1, <2>2 DEF SameButStatus, Untouched, Intact, SameQueue
  <2> QED BY <1>1, <1>5, <2>2, <2>3, <2>4, <2>5, <2>6 DEF v, p, SameButStatus, SameArray, Alike
<1> QED BY <1>4, <1>5

(* The threads of the disks have nothing to notice.                        *)
LEMMA NothingMeanwhile ==
  ASSUME NEW w, Handled(w), NEW s \in Unit, Phase(w, s), Returned(w, s)
  PROVE  Meanwhile(w) = {w}
<1>1. \A u \in Unit : Between(w.unit[u]) = {w.unit[u]}
  <2>1. \A u \in Unit : w.unit[u].link /\ w.unit[u].sess # "broken"
    BY TheOther DEF Phase, Returned, Serves, Back, Is
  <2> QED BY <2>1 DEF Between
<1>2. w.unit \in [Unit -> UnitType] /\ [w EXCEPT !.unit = w.unit] = w
  BY DEF Handled, TypedWorld
<1> DEFINE F == {g \in [Unit -> Between(w.unit[0]) \cup Between(w.unit[1])] :
                   \A u \in Unit : g[u] \in Between(w.unit[u])}
<1>3. F = {w.unit}
  <2>1. \A u \in Unit : w.unit[u] \in Between(w.unit[0]) \cup Between(w.unit[1])
    BY <1>1 DEF Unit
  <2>2. w.unit \in F
    BY <1>1, <1>2, <2>1
  <2>3. ASSUME NEW g \in F PROVE g = w.unit
    <3>1. \A u \in Unit : g[u] = w.unit[u]
      BY <1>1
    <3> QED BY <1>2, <3>1
  <2> QED BY <2>2, <2>3
<1>4. Meanwhile(w) = {[w EXCEPT !.unit = f] : f \in F}
  BY DEF Meanwhile
<1> HIDE DEF F
<1> QED BY <1>2, <1>3, <1>4

(* The recovery goes on only while the disks' metadata agree.              *)
Resumed(w) ==
  LET y == UpdateRAIDStatus(w) IN [y EXCEPT !.raid.inRecovery = y.raid.inRecovery /\ Level(y)]

LEMMA RecoveryResumes ==
  ASSUME Willing, NEW w, Handled(w), NEW s \in Unit, Phase(w, s), Returned(w, s)
  PROVE  LET x == Resumed(w)
         IN  /\ Handled(x) /\ Phase(x, s) /\ Returned(x, s) /\ x.unit = w.unit
             /\ x.raid.dirty = w.raid.dirty /\ x.raid.map = w.raid.map
             /\ x.raid.sector = w.raid.sector /\ x.raid.history = w.raid.history
             /\ x.raid.inRecovery <=> w.raid.inRecovery /\ Level(w)
             /\ x.raid.rs = IF w.raid.inRecovery THEN "Recovering" ELSE "ReadyToRecovery"
             /\ Recovery(w) = {IF ~x.raid.inRecovery THEN StartRecovery(x)
                               ELSE IF x.raid.sector >= Capacity THEN x ELSE CopyBlock(x)}
<1> DEFINE f == Other(s)
           y == UpdateRAIDStatus(w)
           d == y.raid.inRecovery /\ Level(y)
           x == Resumed(w)
           same(z) == z.unit[0].mem.usn = z.unit[1].mem.usn
           T == {[z EXCEPT !.raid.inRecovery = @ /\ same(z)] : z \in {UpdateRAIDStatus(w)}}
<1>1. ~Missed(w.unit[f]) /\ (~w.raid.dirty => ~Level(w))
  BY DEF Returned, Back, Is, Missed
<1>2. /\ SameButStatus(y, w) /\ Phase(y, s)
      /\ y.raid.rs = IF w.raid.inRecovery THEN "Recovering" ELSE "ReadyToRecovery"
  BY <1>1, PhaseUpdated DEF Rating
<1>3. T = {x}
  BY DEF Resumed, Level
<1>4. Recovery(w) = {RecoveryTurn(z) : z \in UNION {Meanwhile(t) : t \in T}}
  BY DEF Recovery, RaidRunning, Phase
<1> HIDE DEF T
<1>5. x = [y EXCEPT !.raid.inRecovery = d]
  BY DEF Resumed
<1> HIDE DEF x, y
<1>6. /\ Handled(x) /\ x.unit = y.unit /\ x.raid.inRecovery = d
      /\ x.raid.rs = y.raid.rs /\ x.raid.sub = y.raid.sub /\ x.raid.sector = y.raid.sector
  <2>1. d \in BOOLEAN /\ (d => y.raid.map \in Bitmap)
    BY <1>2 DEF SameButStatus, Handled, TypedWorld, TypedRaid, RaidType
  <2> HIDE DEF d
  <2> QED BY <1>2, <1>5, <2>1, SetInRecoveryTyped DEF SameButStatus
<1>7. /\ x.raid.status = y.raid.status /\ x.raid.dirty = y.raid.dirty
      /\ x.raid.map = y.raid.map /\ x.raid.history = y.raid.history
  <2> HIDE DEF d
  <2> QED BY <1>2, <1>5 DEF SameButStatus, Handled, TypedWorld, RaidType
<1>8. Level(x) <=> Level(y)
  BY <1>6 DEF Level
<1>9. Returned(y, s)
  BY <1>2 DEF Phase, Mirrored, Unmarked, Degraded
<1>10. Returned(x, s)
  BY <1>6, <1>7, <1>8, <1>9 DEF Returned
<1>11. Phase(x, s)
  <2>1. Labelled(x, s)
    BY <1>2, <1>6, <1>7 DEF Phase, Labelled
  <2> QED BY <1>2, <1>6, <1>7, <1>10, <2>1 DEF Phase
<1>12. x.raid.inRecovery => x.raid.rs = "Recovering"
  BY <1>6, <1>8, <1>10 DEF Returned
<1>13. RecoveryTurn(x) = IF ~x.raid.inRecovery THEN StartRecovery(x)
                         ELSE IF x.raid.sector >= Capacity THEN x ELSE CopyBlock(x)
  BY <1>12 DEF RecoveryTurn
<1>14. /\ x.unit = w.unit /\ x.raid.dirty = w.raid.dirty /\ x.raid.map = w.raid.map
       /\ x.raid.sector = w.raid.sector /\ x.raid.history = w.raid.history
       /\ y.raid.inRecovery = w.raid.inRecovery /\ (Level(y) <=> Level(w))
  BY <1>2, <1>6, <1>7 DEF SameButStatus, SameArray, Level
<1>15. Recovery(w) = {RecoveryTurn(x)}
  <2>1. Meanwhile(x) = {x}
    BY <1>6, <1>10, <1>11, NothingMeanwhile
  <2>2. UNION {Meanwhile(t) : t \in T} = {x}
    BY <1>3, <2>1
  <2> QED BY <1>4, <2>2
<1> QED BY <1>2, <1>6, <1>10, <1>11, <1>13, <1>14, <1>15 DEF x

LEMMA RecoveryKeepsPhase ==
  ASSUME Willing, NEW w, Handled(w), NEW s \in Unit, Phase(w, s), Returned(w, s),
         w.raid.dirty \/ Pending(w.unit[s]) <= 1, NEW v \in Recovery(w)
  PROVE  /\ Handled(v) /\ Phase(v, s)
         /\ Untouched(v.unit[s], w.unit[s]) /\ Intact(v.unit[Other(s)], w.unit[Other(s)])
         /\ v.raid.rs \in {"Good", "ReadyToRecovery", "Recovering"}
         /\ v.raid.rs = "Good" => ~w.raid.dirty
         /\ ~w.raid.inRecovery =>
              /\ v.raid.dirty = w.raid.dirty
              /\ v.raid.rs = "Recovering" => v.raid.inRecovery
              /\ v.raid.rs = "ReadyToRecovery" => w.unit[Other(s)].status # "ConnectedRW"
<1> DEFINE f == Other(s)
           x == Resumed(w)
<1>1. /\ Handled(x) /\ Phase(x, s) /\ Returned(x, s) /\ x.unit = w.unit
      /\ x.raid.dirty = w.raid.dirty /\ x.raid.map = w.raid.map
      /\ x.raid.sector = w.raid.sector /\ x.raid.history = w.raid.history
      /\ x.raid.inRecovery <=> w.raid.inRecovery /\ Level(w)
      /\ x.raid.rs = IF w.raid.inRecovery THEN "Recovering" ELSE "ReadyToRecovery"
      /\ v = IF ~x.raid.inRecovery THEN StartRecovery(x)
             ELSE IF x.raid.sector >= Capacity THEN x ELSE CopyBlock(x)
  BY RecoveryResumes
<1> HIDE DEF x
<1>2. x.raid.sector \in Int /\ Capacity \in Int
  BY <1>1, Numbers DEF Handled, TypedWorld, RaidType
<1>3. CASE ~x.raid.inRecovery
  <2> DEFINE z == StartRecovery(x)
  <2>1. /\ Handled(z) /\ Phase(z, s)
        /\ z.unit[s] = x.unit[s] /\ Untouched(z.unit[f], x.unit[f])
        /\ IF x.raid.rs = "ReadyToRecovery" /\ x.unit[f].status = "ConnectedRW"
           THEN /\ z.raid.rs = IF x.raid.dirty THEN "Recovering" ELSE "Good"
                /\ z.raid.inRecovery /\ z.raid.dirty = x.raid.dirty
           ELSE z = x
    BY <1>1, <1>3, RecoveryStarted
  <2>2. v = z
    BY <1>1, <1>3
  <2> HIDE DEF z
  <2>3. Untouched(v.unit[s], w.unit[s]) /\ Intact(v.unit[f], w.unit[f])
    BY <1>1, <2>1, <2>2 DEF Untouched, Intact, SameQueue
  <2> QED BY <1>1, <2>1, <2>2, <2>3
<1>4. CASE x.raid.inRecovery /\ x.raid.sector >= Capacity
  <2>1. v = x
    BY <1>1, <1>4
  <2> QED BY <1>1, <1>4, <2>1 DEF Untouched, Intact, SameQueue
<1>5. CASE x.raid.inRecovery /\ x.raid.sector < Capacity
  <2> DEFINE z == CopyBlock(x)
  <2>1. Level(x)
    BY <1>1, <1>5 DEF Level
  <2>2. /\ Handled(z) /\ Phase(z, s)
        /\ Untouched(z.unit[s], x.unit[s]) /\ Intact(z.unit[f], x.unit[f])
        /\ z.raid.rs \in {"ReadyToRecovery", "Recovering"}
    <3>1. CASE Copyable(x)
      BY <1>1, <1>5, <2>1, <3>1, BlockCopied
    <3>2. CASE ~Copyable(x)
      <4>1. PICK c \in Unit : "copy" \in x.unit[c].fails /\ x.raid.sector \in x.raid.map
        BY <3>2 DEF Copyable
      <4>2. /\ Handled(z) /\ Phase(z, s) /\ \A u \in Unit : Untouched(z.unit[u], x.unit[u])
            /\ z.raid.rs = "Recovering"
        BY <1>1, <2>1, <4>1, CopyRefused
      <4> HIDE DEF z, x
      <4> QED BY <4>2, TheOther DEF Untouched, Intact
    <3> QED BY <3>1, <3>2
  <2>3. v = z
    BY <1>1, <1>2, <1>5
  <2> HIDE DEF z
  <2> QED BY <1>1, <1>5, <2>2, <2>3
<1> QED BY <1>2, <1>3, <1>4, <1>5
=============================================================================

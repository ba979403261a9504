-------------------------- MODULE FatVolumeProofs --------------------------
(***************************************************************************)
(* For every volume whose calls of FatFs exclude one another: the types     *)
(* (VolumeInv), that the chains on the card are sound and the files closed  *)
(* with FR_OK stay readable (ChainInv), that the count of free clusters is  *)
(* true (CountInv), that a file opened after the check of the free space    *)
(* is never cut short (FitInv), and that the volume implements a store of   *)
(* whole files (StoredIs).                                                  *)
(*                                                                         *)
(* VolumeInv is about window, threads, counters and the file object.        *)
(* ChainInv says that the clusters can be given an owner and a position     *)
(* such that links lead to the next position, both on the card and as       *)
(* FatFs sees the FAT through its window.  A free, a mark, a link and a     *)
(* saved entry change owners; no other step does.                           *)
(*                                                                         *)
(* CountInv relates free_clst, FSInfo and a full count in progress to the   *)
(* free entries of the FAT.  It needs that key1 finds the window clean when *)
(* it mounts again (CleanInv).  FitInv counts the clusters a file has used  *)
(* since the check; create_chain then finds one of those that are left,     *)
(* since it goes round the whole FAT (SearchInv) and no entry is ever 1     *)
(* (LinkValues).                                                            *)
(***************************************************************************)
EXTENDS FatVolume, FiniteSetTheorems, WellFoundedInduction, TLAPS

-----------------------------------------------------------------------------
(* The volume as FatFs sees it: a sector is what the window holds of it, if *)
(* the window is dirty, and what the card holds otherwise.                  *)
Cur(s) == IF win.dirty /\ win.sect = s THEN win.data ELSE disk[s]

FatValue == 0 .. EOC
MaxSize == WriteNum * Buffer
EntryType == [used : BOOLEAN, clust : Cluster \union {0}, size : 0 .. MaxSize]

(* What a sector may hold.                                                  *)
SectorOK(s, d) ==
  /\ d = [k \in Fields(s) |-> d[k]]
  /\ s \in FatSectors => \A k \in Fields(s) : d[k] \in FatValue
  /\ s = Dir => \A k \in Fields(s) : d[k] \in EntryType
  /\ s = FSInfo => \A k \in Fields(s) : d[k] \in 0 .. Unknown

CardOK == /\ disk = [s \in Sector |-> disk[s]]
          /\ \A s \in Sector : SectorOK(s, disk[s])
          /\ data = [c \in Cluster |-> data[c]]

-----------------------------------------------------------------------------
(* Where a thread is in FatFs.                                              *)
OpenPlaces == {"find", "get", "free", "back"}
SavedPlaces == {"sync", "fsinfo", "closed"}
ClosePlaces == {"close", "save"} \union SavedPlaces
WritePlaces == {"data", "new", "follow", "search", "mark", "link"}
FilePlaces == WritePlaces \union ClosePlaces \union {"idle", "written", "refused"}
KeysPlaces == {"idle", "boot", "info", "pause", "unmount"} \union OpenPlaces \union ClosePlaces
StoragePlaces == {"idle", "written", "refused", "getfree", "scan", "decide", "unmount"}
                   \union WritePlaces \union OpenPlaces \union ClosePlaces
(* Where it works on a sector.                                              *)
Reading == {"boot", "info", "find", "get", "free", "back", "save",
            "follow", "search", "mark", "link", "scan"}

Locals == [pc : KeysPlaces \union StoragePlaces, loaded : BOOLEAN,
           cl : Nat, scl : Nat, left : Nat, name : File, low : BOOLEAN]

LocalsOK(l) ==
  /\ l \in Locals
  /\ l.pc = "idle" => l = Idle
  /\ l.pc \in {"get", "free", "search", "mark", "link"} => l.cl \in Cluster
  /\ l.pc \in {"get", "free", "back"} => l.scl \in Cluster
  /\ l.pc = "free" => l.left \in 2 .. EOC
  /\ l.pc = "scan" => l.cl \in 0 .. Last \div PerSector
  /\ l.pc \in WritePlaces => l.left > 0
  /\ l.loaded => l.pc \in Reading

(* One thread is inside FatFs at a time (Exclusive), and its locals are     *)
(* what its place needs.                                                    *)
ThreadInv ==
  /\ th = [p \in Thread |-> th[p]]
  /\ \A p \in Thread : LocalsOK(th[p])
  /\ th["keys"].pc \in KeysPlaces /\ th["storage"].pc \in StoragePlaces
  /\ th["keys"].pc = "idle" \/ th["storage"].pc = "idle"

(* The window holds the sector its number says, but between the read and    *)
(* the store of the number.                                                 *)
WindowInv ==
  /\ win = [sect |-> win.sect, data |-> win.data, dirty |-> win.dirty]
  /\ win.sect \in Sector \union {NoSector} /\ win.dirty \in BOOLEAN
  /\ win.dirty => win.sect \in FatSectors \union {Dir}
  /\ \A p \in Thread : th[p].loaded => ~win.dirty /\ win.data = disk[Need(p)]
  /\ (\A p \in Thread : ~th[p].loaded) /\ win.sect # NoSector =>
       SectorOK(win.sect, win.data) /\ (~win.dirty => win.data = disk[win.sect])
  /\ \A p \in Thread : th[p].pc = "fsinfo" => ~win.dirty
  /\ \A p \in Thread : th[p].pc = "sync" => win.sect = Dir /\ win.dirty

-----------------------------------------------------------------------------
(* The session, the count of free clusters, and the file object.            *)
SessionInv ==
  /\ number \in 0 .. MaxFile + 1 /\ count \in 0 .. WriteNum - 1 /\ sampling \in BOOLEAN
  /\ sampling => number <= MaxFile
  /\ th["keys"].pc \in {"boot", "info"} \union OpenPlaces => sampling
  /\ th["storage"].pc \notin {"idle", "close", "unmount"} => sampling
  /\ th["storage"].pc = "close" /\ ~th["storage"].low => sampling
  /\ th["storage"].low => th["storage"].pc \in {"close", "unmount"} /\ ~fil.open
  /\ kept \in [File -> NotKept .. MaxSize]

FsInv ==
  /\ fs \in [mounted : BOOLEAN, free : 0 .. Unknown, next : 0 .. Unknown, info : BOOLEAN]
  /\ th["storage"].pc = "scan" =>
       th["storage"].left <=
         Cardinality({c \in Cluster : c \div PerSector < th["storage"].cl})
  /\ \A p \in Thread : th[p].pc \in OpenPlaces \union {"scan"} => fs.mounted
  /\ th["storage"].pc = "decide" /\ th["storage"].left > 0 => fs.mounted

FilType ==
  [open : BOOLEAN, name : File, sclust : Cluster \union {0}, clust : Cluster \union {0},
   size : 0 .. MaxSize, modified : BOOLEAN, err : BOOLEAN, checked : BOOLEAN]

(* A file is open in these places only, on a mounted volume, and holds what *)
(* the calls of f_write before this one, and this one so far, have written. *)
FilInv ==
  /\ fil \in FilType
  /\ fil.open => /\ fs.mounted /\ \A p \in Thread : th[p].pc \in FilePlaces
                 /\ (\A p \in Thread : th[p].pc = "idle") => sampling
                 /\ th["storage"].pc = "idle" => fil.size <= count * Buffer
                 /\ th["storage"].pc = "refused" => fil.size <= (count + 1) * Buffer
                 /\ (\A p \in Thread : th[p].pc \notin SavedPlaces) => fil.modified
  /\ th["storage"].pc \in WritePlaces \union {"written"} =>
       fil.open /\ fil.size + th["storage"].left <= (count + 1) * Buffer
  /\ \A p \in Thread : th[p].pc \in {"save"} \union SavedPlaces => fil.open
  /\ fil.open /\ fil.size > 0 => fil.clust \in Cluster
  /\ th["storage"].pc \in {"follow", "link"} => fil.size > 0
  /\ th["storage"].pc = "data" => fil.clust \in Cluster
  /\ th["storage"].pc = "new" => fil.size = 0

(* A file that is being cut is empty in the directory already.              *)
CutInv ==
  \A p \in Thread : th[p].pc \in {"get", "free", "back"} =>
    Cur(Dir)[Entry(th[p].name)] = [used |-> TRUE, clust |-> 0, size |-> 0]

VolumeInv ==
  /\ CardOK /\ ThreadInv /\ WindowInv /\ SessionInv /\ FsInv /\ FilInv /\ CutInv

-----------------------------------------------------------------------------
(* The names of sectors and fields.                                         *)
LEMMA Names ==
  /\ \A c, d \in Cluster : Link(c) = Link(d) => c = d
  /\ \A m, n \in File : Entry(m) = Entry(n) => m = n
  /\ Free # Next_Free
  /\ Dir # FSInfo /\ Dir # Boot /\ Dir # NoSector
  /\ FSInfo # Boot /\ FSInfo # NoSector /\ Boot # NoSector
  /\ \A s \in FatSectors : s # Dir /\ s # FSInfo /\ s # Boot /\ s # NoSector
  /\ NoSector \notin Sector
  BY DEF Link, Entry, Free, Next_Free, Dir, FSInfo, Boot, NoSector, FatSectors,
         FatOf, Sector

LEMMA FieldsAre ==
  /\ \A c \in Cluster : FatOf(c) \in FatSectors /\ Link(c) \in Fields(FatOf(c))
  /\ \A s \in FatSectors : \A k \in Fields(s) :
       \E c \in Cluster : k = Link(c) /\ FatOf(c) = s
  /\ Fields(Dir) = {Entry(n) : n \in File}
  /\ Fields(FSInfo) = {Free, Next_Free}
  BY Names DEF Fields, FatSectors

(* A whole part of a bounded number is bounded.                             *)
LEMMA Quotient ==
  ASSUME NEW a \in Nat, NEW b \in Nat, b > 0
  PROVE  /\ a \div b \in Nat /\ a % b \in 0 .. b - 1
         /\ a = b * (a \div b) + (a % b)
  OBVIOUS

LEMMA QuotientIs ==
  ASSUME NEW b \in Nat, b > 0, NEW q \in Nat, NEW r \in 0 .. b - 1
  PROVE  (b * q + r) \div b = q /\ (b * q + r) % b = r
  OBVIOUS

(* Every sector up to the last cluster's is a sector of the FAT.            *)
LEMMA FatSectorIs ==
  ASSUME NEW k \in 0 .. Last \div PerSector
  PROVE  <<"fat", k>> \in FatSectors
<1> DEFINE q == Last \div PerSector
           c == PerSector * k
<1>1. Last \in Nat /\ Last >= 2 /\ PerSector \in Nat /\ PerSector > 2
  BY VolumeAssumption
<1>2. q \in Nat /\ PerSector * q <= Last
  BY <1>1, Quotient
<1>3. k \in Nat /\ k <= q
  BY <1>2
<1> HIDE DEF q
<1>4. c \in Nat /\ c <= PerSector * q /\ c \div PerSector = k
  BY <1>1, <1>2, <1>3
<1>5. CASE k = 0
  <2>1. 2 \in Cluster /\ 2 \div PerSector = 0
    BY <1>1 DEF Cluster
  <2>2. QED BY <1>5, <2>1 DEF FatSectors, FatOf
<1>6. CASE k > 0
  <2>1. c >= PerSector
    BY <1>1, <1>3, <1>6
  <2>2. c \in Cluster
    BY <1>1, <1>2, <1>4, <2>1 DEF Cluster
  <2>3. FatOf(c) = <<"fat", k>>
    BY <1>4 DEF FatOf
  <2>4. QED BY <2>2, <2>3 DEF FatSectors
<1>7. QED BY <1>3, <1>5, <1>6

-----------------------------------------------------------------------------
(* The invariant at the start.                                              *)
LEMMA Constants ==
  /\ Last \in Nat /\ Last >= 2
  /\ PerSector \in Nat /\ PerSector > 2
  /\ ClusterSize \in Nat /\ ClusterSize > 0
  /\ Buffer \in Nat /\ Buffer > 0 /\ WriteNum \in Nat /\ WriteNum > 0
  /\ MinFree \in Nat /\ MinFree > 0 /\ MaxFile \in Nat /\ MaxResets \in Nat
  /\ MaxSize \in Nat
  /\ \A c \in Cluster : c \in Nat /\ 2 <= c /\ c <= Last /\ c # 0 /\ c # EOC
  /\ Unknown = Last + 1 /\ EOC = Last + 1 /\ EOC \notin Cluster
  BY VolumeAssumption DEF MaxSize, Cluster, EOC, Unknown

LEMMA IdleOK == LocalsOK(Idle)
<1>1. 0 \in File
  BY VolumeAssumption DEF File
<1>2. QED BY <1>1 DEF LocalsOK, Idle, Locals, KeysPlaces, WritePlaces

LEMMA NoFileOK == NoFile \in FilType
<1>1. 0 \in File /\ 0 \in 0 .. MaxSize
  BY VolumeAssumption DEF File, MaxSize
<1>2. QED BY <1>1 DEF NoFile, FilType

FreshState ==
  /\ th = [p \in Thread |-> Idle] /\ fil = NoFile /\ win = NoWindow /\ fs = NoFs
  /\ number = 0 /\ count = 0 /\ sampling = FALSE /\ kept \in [File -> NotKept .. MaxSize]

LEMMA Fresh ==
  FreshState => ThreadInv /\ WindowInv /\ SessionInv /\ FsInv /\ FilInv /\ CutInv
<1> SUFFICES ASSUME FreshState
             PROVE  ThreadInv /\ WindowInv /\ SessionInv /\ FsInv /\ FilInv /\ CutInv
  OBVIOUS
<1>0. /\ th = [p \in Thread |-> Idle] /\ fil = NoFile /\ win = NoWindow /\ fs = NoFs
      /\ number = 0 /\ count = 0 /\ sampling = FALSE /\ kept \in [File -> NotKept .. MaxSize]
  BY DEF FreshState
<1>1. \A p \in Thread : th[p] = Idle
  BY <1>0
<1>2. "keys" \in Thread /\ "storage" \in Thread
  BY DEF Thread
<1>3. ThreadInv
  BY <1>0, <1>1, <1>2, IdleOK DEF ThreadInv, Idle, KeysPlaces, StoragePlaces
<1>4. WindowInv
  BY <1>0, <1>1, Names DEF WindowInv, Idle, NoWindow
<1>5. SessionInv
  <2>1. 0 \in 0 .. MaxFile + 1 /\ 0 \in 0 .. WriteNum - 1 /\ 0 <= MaxFile
    BY Constants
  <2>2. "idle" \notin {"boot", "info"} \union OpenPlaces
    BY DEF OpenPlaces
  <2>3. th["keys"].pc = "idle" /\ th["storage"].pc = "idle" /\ ~th["storage"].low
    BY <1>1, <1>2 DEF Idle
  <2>4. QED BY <1>0, <2>1, <2>2, <2>3 DEF SessionInv
<1>6. FsInv
  BY <1>0, <1>1, <1>2, VolumeAssumption DEF FsInv, Idle, NoFs, Unknown, OpenPlaces
<1>7. FilInv
  BY <1>0, <1>1, <1>2, NoFileOK DEF FilInv, Idle, NoFile, WritePlaces, SavedPlaces
<1>8. CutInv
  BY <1>1 DEF CutInv, Idle
<1>9. QED BY <1>3, <1>4, <1>5, <1>6, <1>7, <1>8

LEMMA Clusters ==
  /\ IsFiniteSet(Cluster) /\ Cardinality(Cluster) = Last - 1
  /\ \A S \in SUBSET Cluster : IsFiniteSet(S) /\ Cardinality(S) \in 0 .. Last - 1
<1>1. Last \in Nat /\ Last >= 2
  BY VolumeAssumption
<1>2. IsFiniteSet(Cluster) /\ Cardinality(Cluster) = Last - 1
  BY <1>1, FS_Interval DEF Cluster
<1>3. ASSUME NEW S \in SUBSET Cluster
      PROVE  IsFiniteSet(S) /\ Cardinality(S) \in 0 .. Last - 1
  <2>1. IsFiniteSet(S) /\ Cardinality(S) <= Last - 1
    BY <1>2, FS_Subset
  <2>2. Cardinality(S) \in Nat
    BY <2>1, FS_CardinalityType
  <2>3. QED BY <1>1, <2>1, <2>2
<1>4. QED BY <1>2, <1>3

LEMMA VolumeInit == Init => VolumeInv
<1> SUFFICES ASSUME Init PROVE VolumeInv
  OBVIOUS
<1>1. Last \in Nat /\ Last >= 2 /\ MaxSize \in Nat
  BY VolumeAssumption DEF MaxSize
<1>2. CardOK
  <2>1. PICK free \in {Cardinality(Cluster \ Taken), Unknown} :
          disk = [s \in Sector |->
                   [k \in Fields(s) |->
                      CASE s \in FatSectors -> IF k[2] \in Taken THEN EOC ELSE 0
                        [] s = Dir -> Absent
                        [] OTHER -> IF k = Free THEN free ELSE Unknown]]
    BY DEF Init
  <2>2. free \in 0 .. Unknown
    BY <1>1, Clusters DEF Unknown
  <2>3. data = [c \in Cluster |-> data[c]]
    BY DEF Init
  <2>4. Absent \in EntryType
    BY <1>1 DEF Absent, EntryType
  <2>5. ASSUME NEW s \in Sector PROVE SectorOK(s, disk[s])
    <3>1. DOMAIN disk[s] = Fields(s) /\ disk[s] = [k \in Fields(s) |-> disk[s][k]]
      BY <2>1
    <3>2. CASE s \in FatSectors
      BY <1>1, <2>1, <3>1, <3>2, Names DEF SectorOK, FatValue, EOC
    <3>3. CASE s = Dir
      BY <2>1, <2>4, <3>1, <3>3, Names DEF SectorOK
    <3>4. CASE s = FSInfo
      BY <1>1, <2>1, <2>2, <3>1, <3>4, Names DEF SectorOK, Unknown
    <3>5. CASE s = Boot
      BY <3>1, <3>5, Names DEF SectorOK
    <3>6. QED BY <3>2, <3>3, <3>4, <3>5 DEF Sector
  <2>6. QED BY <2>1, <2>3, <2>5 DEF CardOK
<1>3. kept \in [File -> NotKept .. MaxSize]
  BY <1>1 DEF Init, NotKept
<1>4. FreshState
  BY <1>3 DEF Init, FreshState
<1>5. QED BY <1>2, <1>4, Fresh DEF VolumeInv

(* One thread at a time is inside.                                          *)
LEMMA Alone ==
  ASSUME VolumeInv, NEW p \in Thread, th[p].pc # "idle"
  PROVE  /\ \A q \in Thread : q # p => th[q] = Idle
         /\ LocalsOK(th[p]) /\ th = [q \in Thread |-> th[q]]
         /\ p = "keys" => th[p].pc \in KeysPlaces
         /\ p = "storage" => th[p].pc \in StoragePlaces
  BY DEF VolumeInv, ThreadInv, LocalsOK, Thread

(* A thread takes a step: where it goes must be a place of its own.         *)
LEMMA Goes ==
  ASSUME VolumeInv, NEW p \in Thread, NEW l, th' = [th EXCEPT ![p] = l],
         LocalsOK(l), \A q \in Thread : q # p => th[q] = Idle,
         p = "keys" => l.pc \in KeysPlaces, p = "storage" => l.pc \in StoragePlaces
  PROVE  ThreadInv' /\ th'[p] = l /\ \A q \in Thread : q # p => th'[q] = Idle
<1>1. th = [q \in Thread |-> th[q]]
  BY DEF VolumeInv, ThreadInv
<1>2. th' = [q \in Thread |-> IF q = p THEN l ELSE Idle]
  BY <1>1
<1>3. th'[p] = l /\ \A q \in Thread : q # p => th'[q] = Idle
  BY <1>2
<1>4. \A q \in Thread : LocalsOK(th'[q])
  BY <1>3, IdleOK
<1>5. Idle.pc = "idle" /\ "idle" \in KeysPlaces /\ "idle" \in StoragePlaces
  BY DEF Idle, KeysPlaces, StoragePlaces
<1>6. QED BY <1>2, <1>3, <1>4, <1>5 DEF ThreadInv, LocalsOK, Thread

-----------------------------------------------------------------------------
(* A place's sector is a sector of the volume.                              *)
LEMMA NeedIs ==
  ASSUME VolumeInv, NEW p \in Thread
  PROVE  /\ Need(p) # NoSector => th[p].pc \in Reading
         /\ th[p].pc \in Reading => Need(p) \in Sector
         /\ th[p].pc \in {"follow", "link", "get", "free", "search", "mark", "scan"} =>
              Need(p) \in FatSectors
         /\ th[p].pc \in {"find", "back", "save"} => Need(p) = Dir
         /\ th[p].pc = "info" => Need(p) = FSInfo
<1>1. LocalsOK(th[p]) /\ (th[p].pc \in {"follow", "link"} => fil.clust \in Cluster)
  <2>1. LocalsOK(th[p]) /\ th[p].pc \in KeysPlaces \union StoragePlaces
    BY DEF VolumeInv, ThreadInv, LocalsOK, Locals
  <2>2. p = "keys" => th[p].pc \notin {"follow", "link"}
    BY DEF VolumeInv, ThreadInv, KeysPlaces, OpenPlaces, ClosePlaces, SavedPlaces
  <2>3. p = "keys" \/ p = "storage"
    BY DEF Thread
  <2>4. th["storage"].pc \in {"follow", "link"} => fil.clust \in Cluster
    BY DEF VolumeInv, FilInv, WritePlaces
  <2>5. QED BY <2>1, <2>2, <2>3, <2>4
<1>2. th[p].pc \in {"get", "free", "search", "mark", "link"} => th[p].cl \in Cluster
  BY <1>1 DEF LocalsOK
<1>3. th[p].pc = "scan" => <<"fat", th[p].cl>> \in FatSectors
  BY <1>1, FatSectorIs DEF LocalsOK
<1>4. \A c \in Cluster : FatOf(c) \in FatSectors
  BY FieldsAre
<1> DEFINE at == th[p].pc
<1>5. at = "boot" => Need(p) = Boot
  BY DEF Need
<1>6. at = "info" => Need(p) = FSInfo
  BY DEF Need
<1>7. at \in {"find", "back", "save"} => Need(p) = Dir
  BY DEF Need
<1>8. at \in {"follow", "link"} => Need(p) = FatOf(fil.clust)
  BY DEF Need
<1>9. at \in {"get", "free", "search", "mark"} => Need(p) = FatOf(th[p].cl)
  BY DEF Need
<1>10. at = "scan" => Need(p) = <<"fat", th[p].cl>>
  BY DEF Need
<1>11. at \notin Reading => Need(p) = NoSector
  BY DEF Need, Reading
<1>12. at \in {"follow", "link", "get", "free", "search", "mark", "scan"} =>
         Need(p) \in FatSectors
  BY <1>1, <1>2, <1>3, <1>4, <1>8, <1>9, <1>10
<1>13. QED BY <1>5, <1>6, <1>7, <1>11, <1>12 DEF Reading, Sector

(* With the window on its sector, a thread sees the sector as FatFs does.   *)
LEMMA HereIs ==
  ASSUME VolumeInv, NEW p \in Thread, NEW at \in Reading, Here(p, at)
  PROVE  /\ th[p].pc = at /\ ~th[p].loaded /\ win.sect = Need(p)
         /\ SectorOK(win.sect, win.data) /\ win.data = Cur(win.sect)
         /\ \A q \in Thread : q # p => th[q] = Idle
<1>1. th[p].pc = at /\ ~th[p].loaded /\ win.sect = Need(p)
  BY DEF Here, At
<1>2. at # "idle"
  BY DEF Reading
<1>3. \A q \in Thread : q # p => th[q] = Idle
  BY <1>1, <1>2, Alone
<1>4. \A q \in Thread : ~th[q].loaded
  BY <1>1, <1>3 DEF Idle
<1>5. win.sect # NoSector
  BY <1>1, NeedIs, Names
<1>6. SectorOK(win.sect, win.data) /\ (~win.dirty => win.data = disk[win.sect])
  BY <1>4, <1>5 DEF VolumeInv, WindowInv
<1>7. QED BY <1>1, <1>3, <1>6 DEF Cur

(* While no sector is being read, what FatFs sees is well formed.           *)
LEMMA CurOK ==
  ASSUME VolumeInv, NEW s \in Sector
  PROVE  SectorOK(s, Cur(s))
<1>1. CASE win.dirty /\ win.sect = s
  <2>1. s # NoSector
    BY Names
  <2>2. \A p \in Thread : ~th[p].loaded
    BY <1>1 DEF VolumeInv, WindowInv
  <2>3. QED BY <1>1, <2>1, <2>2 DEF VolumeInv, WindowInv, Cur
<1>2. CASE ~(win.dirty /\ win.sect = s)
  BY <1>2 DEF VolumeInv, CardOK, Cur
<1>3. QED BY <1>1, <1>2

(* The dirty window goes to the card: FatFs sees what it saw, and the card  *)
(* is up to date.                                                          *)
LEMMA SyncWindowStep ==
  ASSUME VolumeInv, NEW p \in Thread, SyncWindow(p)
  PROVE  VolumeInv' /\ \A s \in Sector : disk'[s] = Cur(s) /\ Cur(s)' = Cur(s)
<1>1. /\ win.dirty /\ th' = th /\ fil' = fil /\ fs' = fs /\ data' = data
      /\ number' = number /\ count' = count /\ sampling' = sampling /\ kept' = kept
      /\ disk' = [disk EXCEPT ![win.sect] = win.data]
      /\ win' = [win EXCEPT !.dirty = FALSE]
  BY DEF SyncWindow, session
<1>2. Need(p) # NoSector /\ ~th[p].loaded /\ win.sect # Need(p)
  BY DEF SyncWindow, Moves
<1>3. th[p].pc \in Reading
  BY <1>2, NeedIs
<1>4. \A q \in Thread : ~th[q].loaded /\ th[q].pc \notin {"sync"}
  <2>1. th[p].pc # "idle" /\ th[p].pc # "sync"
    BY <1>3 DEF Reading
  <2>2. \A q \in Thread : q # p => th[q] = Idle
    BY <2>1, Alone
  <2>3. QED BY <1>2, <2>1, <2>2 DEF Idle
<1>5. win.sect \in Sector /\ win.sect # NoSector
  BY <1>1, Names DEF VolumeInv, WindowInv, Sector
<1>6. SectorOK(win.sect, win.data)
  BY <1>4, <1>5 DEF VolumeInv, WindowInv
<1>7. disk' = [s \in Sector |-> Cur(s)] /\ disk = [s \in Sector |-> disk[s]]
  BY <1>1, <1>5 DEF VolumeInv, CardOK, Cur
<1>8. win' = [sect |-> win.sect, data |-> win.data, dirty |-> FALSE]
  BY <1>1 DEF VolumeInv, WindowInv
<1>9. \A s \in Sector : disk'[s] = Cur(s) /\ Cur(s)' = Cur(s)
  BY <1>7, <1>8 DEF Cur
<1>10. CardOK'
  BY <1>1, <1>7, CurOK DEF VolumeInv, CardOK
<1>11. ThreadInv' /\ SessionInv' /\ FsInv' /\ FilInv'
  BY <1>1 DEF VolumeInv, ThreadInv, SessionInv, FsInv, FilInv
<1>12. WindowInv'
  <2>1. disk'[win.sect] = win.data
    BY <1>1, <1>5, <1>7 DEF Cur
  <2>2. QED BY <1>1, <1>4, <1>5, <1>6, <1>8, <2>1 DEF VolumeInv, WindowInv
<1>13. CutInv'
  BY <1>1, <1>9 DEF VolumeInv, CutInv, Sector
<1>14. QED BY <1>9, <1>10, <1>11, <1>12, <1>13 DEF VolumeInv

LEMMA MoveWindowStep ==
  ASSUME VolumeInv, NEW p \in Thread, MoveWindow(p)
  PROVE  VolumeInv' /\ disk' = disk /\ \A s \in Sector : Cur(s)' = Cur(s)
<1> DEFINE l == [th[p] EXCEPT !.loaded = TRUE]
<1>1. /\ ~win.dirty /\ fil' = fil /\ fs' = fs /\ disk' = disk /\ data' = data
      /\ number' = number /\ count' = count /\ sampling' = sampling /\ kept' = kept
      /\ win' = [win EXCEPT !.data = disk[Need(p)]]
      /\ th' = [th EXCEPT ![p] = l]
  BY DEF MoveWindow, session
<1>2. Need(p) # NoSector /\ ~th[p].loaded
  BY DEF MoveWindow, Moves
<1>3. th[p].pc \in Reading /\ th[p].pc # "idle"
  BY <1>2, NeedIs DEF Reading
<1>4. LocalsOK(th[p]) /\ LocalsOK(l) /\ l.pc = th[p].pc /\ l.cl = th[p].cl
        /\ l.name = th[p].name /\ l.left = th[p].left /\ l.low = th[p].low /\ l.loaded
  BY <1>3, Alone DEF LocalsOK, Locals
<1>5. ThreadInv' /\ th'[p] = l /\ \A q \in Thread : q # p => th'[q] = Idle /\ th[q] = Idle
  BY <1>1, <1>3, <1>4, Alone, Goes
<1> HIDE DEF l
<1>6. \A q \in Thread : /\ th'[q].pc = th[q].pc /\ th'[q].name = th[q].name
                        /\ th'[q].left = th[q].left /\ th'[q].cl = th[q].cl
                        /\ th'[q].low = th[q].low
  BY <1>4, <1>5
<1>7. win' = [sect |-> win.sect, data |-> disk[Need(p)], dirty |-> FALSE]
  BY <1>1 DEF VolumeInv, WindowInv
<1>8. \A s \in Sector : Cur(s)' = Cur(s)
  BY <1>1, <1>7 DEF Cur
<1>9. CardOK'
  BY <1>1 DEF VolumeInv, CardOK
<1>10. "keys" \in Thread /\ "storage" \in Thread
  BY DEF Thread
<1>11. SessionInv' /\ FsInv' /\ FilInv'
  <2>1. SessionInv'
    BY <1>1, <1>6, <1>10 DEF VolumeInv, SessionInv
  <2>2. FsInv'
    BY <1>1, <1>6, <1>10 DEF VolumeInv, FsInv
  <2>3. FilInv'
    BY <1>1, <1>6, <1>10 DEF VolumeInv, FilInv
  <2>4. QED BY <2>1, <2>2, <2>3
<1>12. WindowInv'
  <2>1. Need(p)' = Need(p)
    BY <1>1, <1>6 DEF Need
  <2>2. \A q \in Thread : th'[q].loaded => q = p
    BY <1>5 DEF Idle
  <2>3. p \in Thread /\ th'[p].loaded
    BY <1>4, <1>5
  <2>4. th[p].pc # "sync"
    BY <1>3 DEF Reading
  <2>5. \A q \in Thread : th'[q].pc # "sync"
    BY <1>5, <1>6, <2>4 DEF Idle
  <2>6. QED BY <1>1, <1>5, <1>7, <2>1, <2>2, <2>3, <2>5 DEF VolumeInv, WindowInv
<1>13. CutInv'
  BY <1>6, <1>8 DEF VolumeInv, CutInv, Sector
<1>14. QED BY <1>1, <1>5, <1>8, <1>9, <1>11, <1>12, <1>13 DEF VolumeInv

LEMMA WindowMovedStep ==
  ASSUME VolumeInv, NEW p \in Thread, WindowMoved(p)
  PROVE  VolumeInv' /\ disk' = disk /\ \A s \in Sector : Cur(s)' = Cur(s)
<1> DEFINE l == [th[p] EXCEPT !.loaded = FALSE]
<1>1. /\ fil' = fil /\ fs' = fs /\ disk' = disk /\ data' = data
      /\ number' = number /\ count' = count /\ sampling' = sampling /\ kept' = kept
      /\ win' = [win EXCEPT !.sect = Need(p)]
      /\ th' = [th EXCEPT ![p] = l] /\ th[p].loaded
  BY DEF WindowMoved, session
<1>2. th[p].pc \in Reading /\ th[p].pc # "idle" /\ th[p].pc # "sync" /\ th[p].pc # "fsinfo"
  BY <1>1 DEF VolumeInv, ThreadInv, LocalsOK, Reading
<1>3. Need(p) \in Sector /\ Need(p) # NoSector
  BY <1>2, NeedIs, Names
<1>4. LocalsOK(th[p]) /\ LocalsOK(l) /\ l.pc = th[p].pc /\ l.cl = th[p].cl
        /\ l.name = th[p].name /\ l.left = th[p].left /\ l.low = th[p].low /\ ~l.loaded
  BY <1>2, Alone DEF LocalsOK, Locals
<1>5. ThreadInv' /\ th'[p] = l /\ \A q \in Thread : q # p => th'[q] = Idle /\ th[q] = Idle
  BY <1>1, <1>2, <1>4, Alone, Goes
<1> HIDE DEF l
<1>6. \A q \in Thread : /\ th'[q].pc = th[q].pc /\ th'[q].name = th[q].name
                        /\ th'[q].left = th[q].left /\ th'[q].cl = th[q].cl
                        /\ th'[q].low = th[q].low
  BY <1>4, <1>5
<1>7. /\ win' = [sect |-> Need(p), data |-> disk[Need(p)], dirty |-> FALSE] /\ ~win.dirty
  BY <1>1 DEF VolumeInv, WindowInv
<1>8. \A s \in Sector : Cur(s)' = Cur(s)
  BY <1>1, <1>7 DEF Cur
<1>9. CardOK'
  BY <1>1 DEF VolumeInv, CardOK
<1>10. "keys" \in Thread /\ "storage" \in Thread
  BY DEF Thread
<1>11. SessionInv' /\ FsInv' /\ FilInv'
  <2>1. SessionInv'
    BY <1>1, <1>6, <1>10 DEF VolumeInv, SessionInv
  <2>2. FsInv'
    BY <1>1, <1>6, <1>10 DEF VolumeInv, FsInv
  <2>3. FilInv'
    BY <1>1, <1>6, <1>10 DEF VolumeInv, FilInv
  <2>4. QED BY <2>1, <2>2, <2>3
<1>12. WindowInv'
  <2>1. \A q \in Thread : ~th'[q].loaded /\ th'[q].pc # "sync" /\ th'[q].pc # "fsinfo"
    <3>1. ~th'[p].loaded /\ th'[p].pc # "sync" /\ th'[p].pc # "fsinfo"
      BY <1>2, <1>4, <1>5
    <3>2. QED BY <1>5, <3>1 DEF Idle
  <2>2. SectorOK(Need(p), disk[Need(p)])
    BY <1>3 DEF VolumeInv, CardOK
  <2>3. /\ win'.sect = Need(p) /\ win'.data = disk[Need(p)] /\ win'.dirty = FALSE
        /\ win' = [sect |-> win'.sect, data |-> win'.data, dirty |-> win'.dirty]
    BY <1>7
  <2>4. QED BY <1>1, <1>3, <2>1, <2>2, <2>3 DEF WindowInv
<1>13. CutInv'
  BY <1>6, <1>8 DEF VolumeInv, CutInv, Sector
<1>14. QED BY <1>1, <1>5, <1>8, <1>9, <1>11, <1>12, <1>13 DEF VolumeInv

-----------------------------------------------------------------------------
(* A thread goes on and leaves the window and the FAT alone.                *)
LEMMA Moved ==
  ASSUME VolumeInv, NEW p \in Thread, NEW l, th' = [th EXCEPT ![p] = l],
         LocalsOK(l), ~l.loaded, ~th[p].loaded, l.pc \notin {"sync", "fsinfo"},
         \A q \in Thread : q # p => th[q] = Idle,
         p = "keys" => l.pc \in KeysPlaces, p = "storage" => l.pc \in StoragePlaces,
         win' = win, disk' = disk, data' = [c \in Cluster |-> data'[c]]
  PROVE  /\ ThreadInv' /\ CardOK' /\ WindowInv'
         /\ th'[p] = l /\ \A q \in Thread : q # p => th'[q] = Idle
         /\ \A s \in Sector : Cur(s)' = Cur(s)
<1>1. ThreadInv' /\ th'[p] = l /\ \A q \in Thread : q # p => th'[q] = Idle
  BY Goes
<1>2. \A q \in Thread : ~th'[q].loaded /\ th'[q].pc # "sync" /\ th'[q].pc # "fsinfo"
  BY <1>1 DEF Idle
<1>3. \A q \in Thread : ~th[q].loaded
  BY DEF Idle
<1>4. WindowInv'
  BY <1>2, <1>3 DEF VolumeInv, WindowInv
<1>5. CardOK'
  BY DEF VolumeInv, CardOK
<1>6. \A s \in Sector : Cur(s)' = Cur(s)
  BY DEF Cur
<1>7. QED BY <1>1, <1>4, <1>5, <1>6

(* A thread writes field k of the sector in the window, and goes on.        *)
LEMMA PutStep ==
  ASSUME VolumeInv, NEW p \in Thread, NEW at \in Reading, Here(p, at),
         NEW l, th' = [th EXCEPT ![p] = l],
         LocalsOK(l), ~l.loaded, l.pc # "fsinfo", l.pc = "sync" => win.sect = Dir,
         p = "keys" => l.pc \in KeysPlaces, p = "storage" => l.pc \in StoragePlaces,
         NEW k \in Fields(win.sect), NEW v, Put(k, v),
         \/ win.sect \in FatSectors /\ v \in FatValue
         \/ win.sect = Dir /\ v \in EntryType,
         disk' = disk, data' = data
  PROVE  /\ ThreadInv' /\ CardOK' /\ WindowInv'
         /\ th'[p] = l /\ \A q \in Thread : q # p => th'[q] = Idle
         /\ \A s \in Sector :
              Cur(s)' = IF s = win.sect THEN [Cur(s) EXCEPT ![k] = v] ELSE Cur(s)
         /\ win'.sect = win.sect /\ win'.dirty
<1>1. /\ win.sect = Need(p) /\ ~th[p].loaded
      /\ SectorOK(win.sect, win.data) /\ win.data = Cur(win.sect)
      /\ \A q \in Thread : q # p => th[q] = Idle
  BY HereIs
<1>2. ThreadInv' /\ th'[p] = l /\ \A q \in Thread : q # p => th'[q] = Idle
  BY <1>1, Goes
<1> DEFINE d == [win.data EXCEPT ![k] = v]
<1>3. win.data = [x \in Fields(win.sect) |-> win.data[x]]
  BY <1>1 DEF SectorOK
<1>4. Store(win.data, k, v) = d
  <2>1. DOMAIN win.data \union {k} = Fields(win.sect)
    BY <1>3
  <2>2. QED BY <1>3, <2>1 DEF Store
<1>5. win' = [sect |-> win.sect, data |-> d, dirty |-> TRUE]
  BY <1>4 DEF Put, VolumeInv, WindowInv
<1>6. d = [x \in Fields(win.sect) |-> d[x]] /\ \A x \in Fields(win.sect) : d[x] = v \/ d[x] = win.data[x]
  BY <1>3
<1> HIDE DEF d
<1>7. win.sect # FSInfo /\ (win.sect \in FatSectors => win.sect # Dir)
  BY Names
<1>8. SectorOK(win.sect, d)
  BY <1>1, <1>6, <1>7 DEF SectorOK
<1>9. \A q \in Thread : ~th'[q].loaded /\ th'[q].pc # "fsinfo"
                        /\ (th'[q].pc = "sync" => win.sect = Dir)
  BY <1>2 DEF Idle
<1>10. WindowInv'
  BY <1>5, <1>8, <1>9, HereIs DEF WindowInv, VolumeInv
<1>11. CardOK'
  BY DEF VolumeInv, CardOK
<1>12. ASSUME NEW s \in Sector
       PROVE  Cur(s)' = IF s = win.sect THEN [Cur(s) EXCEPT ![k] = v] ELSE Cur(s)
  <2>1. CASE s = win.sect
    <3>1. Cur(s)' = d /\ Cur(s) = win.data
      BY <1>1, <1>5, <2>1 DEF Cur
    <3>2. QED BY <2>1, <3>1 DEF d
  <2>2. CASE s # win.sect
    BY <1>5, <2>2 DEF Cur
  <2>3. QED BY <2>1, <2>2
<1>13. win'.sect = win.sect /\ win'.dirty
  BY <1>5
<1>14. QED BY <1>2, <1>10, <1>11, <1>12, <1>13

-----------------------------------------------------------------------------
(* f_mount and f_open.                                                      *)
LEMMA Both ==
  /\ Thread = {"keys", "storage"} /\ "keys" \in Thread /\ "storage" \in Thread
  /\ Idle.pc = "idle" /\ ~Idle.loaded /\ ~Idle.low
  BY DEF Thread, Idle

LEMMA BootReadStep ==
  ASSUME VolumeInv, NEW p \in Thread, BootRead(p)
  PROVE  VolumeInv' /\ disk' = disk /\ \A s \in Sector : Cur(s)' = Cur(s)
<1> DEFINE l == [th[p] EXCEPT !.pc = "info"]
<1>1. /\ win' = win /\ fs' = fs /\ fil' = fil /\ disk' = disk /\ data' = data
      /\ number' = number /\ count' = count /\ sampling' = sampling /\ kept' = kept
      /\ Here(p, "boot") /\ th' = [th EXCEPT ![p] = l]
  BY DEF BootRead, Goto, medium, session
<1>2. /\ th[p].pc = "boot" /\ ~th[p].loaded /\ \A q \in Thread : q # p => th[q] = Idle
  BY <1>1, HereIs DEF Reading
<1>3. LocalsOK(th[p]) /\ p = "keys"
  BY <1>2, Alone, Both DEF StoragePlaces, WritePlaces, OpenPlaces, ClosePlaces, SavedPlaces
<1>4. LocalsOK(l) /\ ~l.loaded /\ l.pc = "info" /\ l.pc \in KeysPlaces
  BY <1>2, <1>3 DEF LocalsOK, Locals, KeysPlaces, WritePlaces
<1>5. data' = [c \in Cluster |-> data'[c]]
  BY <1>1 DEF VolumeInv, CardOK
<1>6. /\ ThreadInv' /\ CardOK' /\ WindowInv'
      /\ th'[p] = l /\ \A q \in Thread : q # p => th'[q] = Idle
      /\ \A s \in Sector : Cur(s)' = Cur(s)
  BY <1>1, <1>2, <1>3, <1>4, <1>5, Moved
<1> HIDE DEF l
<1>7. SessionInv' /\ FsInv'
  BY <1>1, <1>2, <1>3, <1>4, <1>6, Both DEF VolumeInv, SessionInv, FsInv, OpenPlaces
<1>8. ~fil.open
  BY <1>2 DEF VolumeInv, FilInv, FilePlaces, WritePlaces, ClosePlaces, SavedPlaces
<1>9. FilInv'
  BY <1>1, <1>3, <1>4, <1>6, <1>8, Both DEF VolumeInv, FilInv, WritePlaces, SavedPlaces
<1>10. CutInv'
  BY <1>3, <1>4, <1>6, Both DEF CutInv
<1>11. QED BY <1>1, <1>6, <1>7, <1>9, <1>10 DEF VolumeInv

LEMMA MountedStep ==
  ASSUME VolumeInv, NEW p \in Thread, Mounted(p)
  PROVE  VolumeInv' /\ disk' = disk /\ \A s \in Sector : Cur(s)' = Cur(s)
<1> DEFINE l == [th[p] EXCEPT !.pc = "find", !.name = number]
<1>1. /\ win' = win /\ fil' = fil /\ disk' = disk /\ data' = data
      /\ number' = number /\ count' = count /\ sampling' = sampling /\ kept' = kept
      /\ Here(p, "info") /\ th' = [th EXCEPT ![p] = l]
  BY DEF Mounted, medium, session
<1>2. /\ th[p].pc = "info" /\ ~th[p].loaded /\ \A q \in Thread : q # p => th[q] = Idle
      /\ win.sect = FSInfo /\ SectorOK(win.sect, win.data)
  BY <1>1, HereIs, NeedIs DEF Reading
<1>3. LocalsOK(th[p]) /\ p = "keys" /\ number \in File
  <2>1. LocalsOK(th[p]) /\ p = "keys"
    BY <1>2, Alone, Both DEF StoragePlaces, WritePlaces, OpenPlaces, ClosePlaces, SavedPlaces
  <2>2. number \in File
    BY <1>2, <2>1, Constants DEF VolumeInv, SessionInv, File
  <2>3. QED BY <2>1, <2>2
<1>4. LocalsOK(l) /\ ~l.loaded /\ l.pc = "find" /\ l.pc \in KeysPlaces
  BY <1>2, <1>3 DEF LocalsOK, Locals, KeysPlaces, OpenPlaces, WritePlaces
<1>5. data' = [c \in Cluster |-> data'[c]]
  BY <1>1 DEF VolumeInv, CardOK
<1>6. /\ ThreadInv' /\ CardOK' /\ WindowInv'
      /\ th'[p] = l /\ \A q \in Thread : q # p => th'[q] = Idle
      /\ \A s \in Sector : Cur(s)' = Cur(s)
  BY <1>1, <1>2, <1>3, <1>4, <1>5, Moved
<1>7. fs'.mounted /\ fs' \in [mounted : BOOLEAN, free : 0 .. Unknown, next : 0 .. Unknown, info : BOOLEAN]
  <2>1. win.data[Free] \in 0 .. Unknown /\ win.data[Next_Free] \in 0 .. Unknown
    BY <1>2, FieldsAre DEF SectorOK
  <2>2. Unknown \in 0 .. Unknown
    BY Constants
  <2>3. QED BY <2>1, <2>2 DEF Mounted
<1> HIDE DEF l
<1>8. SessionInv' /\ FsInv'
  BY <1>1, <1>2, <1>3, <1>4, <1>6, <1>7, Both DEF VolumeInv, SessionInv, FsInv
<1>9. ~fil.open
  BY <1>2 DEF VolumeInv, FilInv, FilePlaces, WritePlaces, ClosePlaces, SavedPlaces
<1>10. FilInv'
  BY <1>1, <1>3, <1>4, <1>6, <1>9, Both DEF VolumeInv, FilInv, WritePlaces, SavedPlaces
<1>11. CutInv'
  BY <1>3, <1>4, <1>6, Both DEF CutInv
<1>12. QED BY <1>1, <1>6, <1>8, <1>10, <1>11 DEF VolumeInv

(* What a thread in f_open knows.                                           *)
LEMMA AtOpen ==
  ASSUME VolumeInv, NEW p \in Thread, NEW at \in OpenPlaces, Here(p, at)
  PROVE  /\ th[p].pc = at /\ ~th[p].loaded /\ \A q \in Thread : q # p => th[q] = Idle
         /\ LocalsOK(th[p]) /\ ~fil.open /\ fs.mounted /\ sampling /\ th[p].name \in File
         /\ win.sect = Need(p) /\ SectorOK(win.sect, win.data) /\ win.data = Cur(win.sect)
         /\ p = "storage" => ~th[p].low
<1>1. at \in Reading /\ at # "idle"
  BY DEF OpenPlaces, Reading
<1>2. /\ th[p].pc = at /\ ~th[p].loaded /\ \A q \in Thread : q # p => th[q] = Idle
      /\ win.sect = Need(p) /\ SectorOK(win.sect, win.data) /\ win.data = Cur(win.sect)
  BY <1>1, HereIs
<1>3. LocalsOK(th[p]) /\ th[p].name \in File
  BY <1>1, <1>2, Alone DEF LocalsOK, Locals
<1>4. ~fil.open
  BY <1>2 DEF VolumeInv, FilInv, FilePlaces, WritePlaces, ClosePlaces, SavedPlaces, OpenPlaces
<1>5. fs.mounted
  BY <1>2 DEF VolumeInv, FsInv
<1>6. sampling
  BY <1>2, Both DEF VolumeInv, SessionInv, OpenPlaces
<1>7. p = "storage" => ~th[p].low
  BY <1>2 DEF VolumeInv, SessionInv, OpenPlaces
<1>8. QED BY <1>2, <1>3, <1>4, <1>5, <1>6, <1>7

(* Where a step of f_open leads keeps the session, FsInv and FilInv.        *)
LEMMA OpenStep ==
  ASSUME VolumeInv, NEW p \in Thread, NEW at \in OpenPlaces, Here(p, at),
         number' = number, count' = count, sampling' = sampling,
         kept' \in [File -> NotKept .. MaxSize],
         NEW l, l = Idle \/ l.pc \in OpenPlaces, p = "storage" => ~l.low, th'[p] = l,
         \A q \in Thread : q # p => th'[q] = Idle,
         fs' \in [mounted : BOOLEAN, free : 0 .. Unknown, next : 0 .. Unknown, info : BOOLEAN],
         fs'.mounted,
         \/ fil' = fil
         \/ fil' = NoFile
         \/ fil' \in FilType /\ fil'.open /\ fil'.modified /\ fil'.size = 0 /\ l = Idle
  PROVE  SessionInv' /\ FsInv' /\ FilInv'
<1>1. /\ th[p].pc = at /\ \A q \in Thread : q # p => th[q] = Idle
      /\ LocalsOK(th[p]) /\ ~fil.open /\ sampling
  BY AtOpen
<1>2. l.pc \in OpenPlaces \union {"idle"}
  BY Both
<1>3. /\ \A q \in Thread : th'[q].pc \in OpenPlaces \union {"idle"}
      /\ ~th'["storage"].low
  BY <1>2, Both
<1>4. SessionInv'
  BY <1>1, <1>3, Both DEF VolumeInv, SessionInv, OpenPlaces
<1>5. FsInv'
  BY <1>3, Both DEF FsInv, OpenPlaces
<1>6. FilInv'
  <2>1. fil' \in FilType
    BY NoFileOK DEF VolumeInv, FilInv
  <2>2. \A q \in Thread : th'[q].pc \notin WritePlaces \union {"written", "refused", "save"}
                                              \union SavedPlaces
    BY <1>3 DEF OpenPlaces, WritePlaces, SavedPlaces
  <2>3. count' * Buffer \in Nat
    BY Constants DEF VolumeInv, SessionInv
  <2>4. CASE ~fil'.open
    BY <2>1, <2>2, <2>4, Both DEF FilInv, WritePlaces
  <2>5. CASE fil'.open
    <3>1. fil'.modified /\ fil'.size = 0 /\ l = Idle
      BY <1>1, <2>5 DEF NoFile
    <3>2. \A q \in Thread : th'[q] = Idle
      BY <3>1
    <3>3. fil'.size <= count' * Buffer /\ ~(fil'.size > 0)
      BY <2>3, <3>1
    <3>4. QED BY <1>1, <2>1, <2>2, <3>1, <3>2, <3>3, Both DEF FilInv, WritePlaces, FilePlaces
  <2>6. QED BY <2>4, <2>5
<1>7. QED BY <1>4, <1>5, <1>6

(* The file that f_open leaves behind.                                      *)
LEMMA OpenedIs ==
  ASSUME NEW p \in Thread, th[p].name \in File, NEW e,
         e.clust = 0, e.size = 0
  PROVE  /\ Opened(p, e) \in FilType
         /\ Opened(p, e).open /\ Opened(p, e).modified /\ Opened(p, e).name = th[p].name
         /\ Opened(p, e).sclust = 0 /\ Opened(p, e).clust = 0 /\ Opened(p, e).size = 0
<1>1. 0 \in 0 .. MaxSize
  BY Constants
<1>2. QED BY <1>1 DEF Opened, NoFile, FilType

(* The entry of a file in the window.                                       *)
LEMMA EntryIs ==
  ASSUME SectorOK(Dir, win.data), NEW n \in File
  PROVE  EntryOf(n) = win.data[Entry(n)] /\ win.data[Entry(n)] \in EntryType
         /\ Entry(n) \in Fields(Dir)
<1>1. Entry(n) \in Fields(Dir)
  BY FieldsAre
<1>2. Entry(n) \in DOMAIN win.data /\ win.data[Entry(n)] \in EntryType
  BY <1>1 DEF SectorOK
<1>3. QED BY <1>1, <1>2 DEF EntryOf

(* The link of a cluster in the window.                                     *)
LEMMA LinkIs ==
  ASSUME NEW c \in Cluster, SectorOK(FatOf(c), win.data)
  PROVE  /\ Found(Link(c)) = {win.data[Link(c)]} /\ win.data[Link(c)] \in FatValue
         /\ Link(c) \in Fields(FatOf(c))
<1>1. Link(c) \in Fields(FatOf(c)) /\ FatOf(c) \in FatSectors
  BY FieldsAre
<1>2. Link(c) \in DOMAIN win.data /\ win.data[Link(c)] \in FatValue
  BY <1>1 DEF SectorOK
<1>3. QED BY <1>1, <1>2 DEF Found

LEMMA FindStep ==
  ASSUME VolumeInv, NEW p \in Thread, Find(p)
  PROVE  /\ VolumeInv' /\ disk' = disk
         /\ \A s \in Sector : s # Dir => Cur(s)' = Cur(s)
         /\ Cur(Dir)' = [Cur(Dir) EXCEPT ![Entry(th[p].name)] =
                                           [used |-> TRUE, clust |-> 0, size |-> 0]]
         /\ win'.sect = Dir /\ win'.dirty
         /\ th[p].name \in File /\ ~fil.open
<1> DEFINE n == th[p].name
           e == [used |-> TRUE, clust |-> 0, size |-> 0]
           old == EntryOf(n).clust
           l == IF old # 0 THEN [th[p] EXCEPT !.pc = "get", !.cl = old, !.scl = old]
                           ELSE Idle
<1>1. /\ Here(p, "find") /\ Put(Entry(n), e) /\ kept' = [kept EXCEPT ![n] = NotKept]
      /\ disk' = disk /\ data' = data /\ fs' = fs
      /\ number' = number /\ count' = count /\ sampling' = sampling
      /\ th' = [th EXCEPT ![p] = l]
      /\ old # 0 => fil' = fil
      /\ old = 0 => fil' = Opened(p, Absent)
  BY DEF Find, Return, medium, session
<1>2. /\ th[p].pc = "find" /\ \A q \in Thread : q # p => th[q] = Idle
      /\ LocalsOK(th[p]) /\ ~fil.open /\ fs.mounted /\ sampling /\ n \in File /\ ~th[p].loaded
      /\ win.sect = Dir /\ SectorOK(Dir, win.data) /\ win.data = Cur(Dir)
      /\ p = "storage" => ~th[p].low
  BY <1>1, AtOpen, NeedIs DEF OpenPlaces
<1>3. old \in Cluster \union {0} /\ Entry(n) \in Fields(Dir)
  BY <1>2, EntryIs DEF EntryType
<1>4. e \in EntryType
  BY Constants DEF EntryType
<1>6. LocalsOK(l) /\ ~l.loaded /\ l.pc \in {"get", "idle"}
        /\ (l.pc = "get" => old # 0 /\ l.name = n /\ l.low = th[p].low)
        /\ (l.pc = "idle" => l = Idle /\ old = 0)
  <2>1. CASE old = 0
    BY <2>1, IdleOK, Both
  <2>2. CASE old # 0
    BY <1>2, <1>3, <2>2, Constants DEF LocalsOK, Locals, KeysPlaces, OpenPlaces, WritePlaces, Reading
  <2>3. QED BY <2>1, <2>2
<1>7. l.pc \in KeysPlaces /\ l.pc \in StoragePlaces /\ l.pc # "fsinfo" /\ l.pc # "sync"
  BY <1>6 DEF KeysPlaces, StoragePlaces, OpenPlaces
<1> HIDE DEF l
<1>8. /\ ThreadInv' /\ CardOK' /\ WindowInv'
      /\ th'[p] = l /\ \A q \in Thread : q # p => th'[q] = Idle
      /\ \A s \in Sector :
           Cur(s)' = IF s = win.sect THEN [Cur(s) EXCEPT ![Entry(n)] = e] ELSE Cur(s)
      /\ win'.sect = win.sect /\ win'.dirty
  BY <1>1, <1>2, <1>3, <1>4, <1>6, <1>7, PutStep DEF Reading
<1>9. Dir \in Sector
  BY DEF Sector
<1>10. Cur(Dir)' = [Cur(Dir) EXCEPT ![Entry(n)] = e] /\ win'.sect = Dir /\ win'.dirty
       /\ \A s \in Sector : s # Dir => Cur(s)' = Cur(s)
  BY <1>2, <1>8, <1>9
<1>11. kept' \in [File -> NotKept .. MaxSize]
  <2>1. NotKept \in NotKept .. MaxSize
    BY Constants DEF NotKept
  <2>2. kept \in [File -> NotKept .. MaxSize]
    BY DEF VolumeInv, SessionInv
  <2>3. QED BY <1>1, <2>1, <2>2
<1>12. fs' \in [mounted : BOOLEAN, free : 0 .. Unknown, next : 0 .. Unknown, info : BOOLEAN]
  BY <1>1 DEF VolumeInv, FsInv
<1>13. fil' = fil \/ (fil' \in FilType /\ fil'.open /\ fil'.modified /\ fil'.size = 0 /\ l = Idle)
  <2>1. CASE old = 0
    <3>1. Absent.clust = 0 /\ Absent.size = 0
      BY DEF Absent
    <3>2. l = Idle
      BY <2>1 DEF l
    <3>3. fil' = Opened(p, Absent)
      BY <1>1, <2>1
    <3>4. QED BY <1>2, <3>1, <3>2, <3>3, OpenedIs
  <2>2. QED BY <1>1, <2>1
<1>14. l = Idle \/ l.pc \in OpenPlaces
  BY <1>6 DEF OpenPlaces
<1>15. p = "storage" => ~l.low
  BY <1>2, <1>6, Both
<1>16. SessionInv' /\ FsInv' /\ FilInv'
  BY <1>1, <1>2, <1>8, <1>11, <1>12, <1>13, <1>14, <1>15, OpenStep DEF OpenPlaces
<1>17. CutInv'
  <2>1. Entry(n) \in DOMAIN Cur(Dir)
    BY <1>2, <1>3 DEF SectorOK
  <2>2. Cur(Dir)'[Entry(n)] = e
    BY <1>10, <2>1
  <2>3. th'[p].pc \in {"get", "free", "back"} => th'[p].name = n
    BY <1>6, <1>8
  <2>4. QED BY <1>8, <2>2, <2>3, Both DEF CutInv
<1>18. QED BY <1>1, <1>2, <1>8, <1>10, <1>16, <1>17 DEF VolumeInv

LEMMA GetLinkStep ==
  ASSUME VolumeInv, NEW p \in Thread, GetLink(p)
  PROVE  VolumeInv' /\ disk' = disk /\ \A s \in Sector : Cur(s)' = Cur(s)
<1> DEFINE c == th[p].cl
           v == win.data[Link(c)]
           l == IF v = 0 THEN [th[p] EXCEPT !.pc = "back"]
                ELSE IF v = 1 THEN Idle
                ELSE [th[p] EXCEPT !.pc = "free", !.left = v]
<1>1. /\ Here(p, "get") /\ disk' = disk /\ data' = data /\ win' = win /\ fs' = fs
      /\ number' = number /\ count' = count /\ sampling' = sampling /\ kept' = kept
  BY DEF GetLink, medium, session
<1>2. /\ th[p].pc = "get" /\ \A q \in Thread : q # p => th[q] = Idle
      /\ LocalsOK(th[p]) /\ ~fil.open /\ fs.mounted /\ sampling /\ ~th[p].loaded
      /\ win.sect = Need(p) /\ SectorOK(win.sect, win.data)
      /\ p = "storage" => ~th[p].low
  BY <1>1, AtOpen DEF OpenPlaces
<1>3. c \in Cluster /\ win.sect = FatOf(c)
  BY <1>2 DEF LocalsOK, Need
<1>4. v \in FatValue /\ Found(Link(c)) = {v}
  BY <1>2, <1>3, LinkIs
<1> HIDE DEF v
<1>5. v \in Nat /\ v <= EOC /\ (v >= 2 => v \in 2 .. EOC)
  BY <1>4, Constants DEF FatValue
<1>6. th' = [th EXCEPT ![p] = l] /\ (fil' = fil \/ fil' = NoFile)
  <2>1. \/ v = 0 /\ Goto(p, "back") /\ UNCHANGED fil
        \/ v = 1 /\ Return(p) /\ fil' = NoFile
        \/ /\ v >= 2 /\ UNCHANGED fil
           /\ th' = [th EXCEPT ![p].pc = "free", ![p].left = v]
    BY <1>4 DEF GetLink
  <2>2. CASE v = 0
    BY <2>1, <2>2 DEF Goto
  <2>3. CASE v = 1
    BY <2>1, <2>3 DEF Return
  <2>4. CASE v >= 2
    <3>1. l = [th[p] EXCEPT !.pc = "free", !.left = v] /\ v # 0 /\ v # 1
      BY <1>5, <2>4
    <3>2. fil' = fil /\ th' = [th EXCEPT ![p].pc = "free", ![p].left = v]
      BY <2>1, <3>1
    <3> HIDE DEF l
    <3>3. QED BY <3>1, <3>2
  <2>5. QED BY <1>5, <2>2, <2>3, <2>4
<1>7. LocalsOK(l) /\ ~l.loaded /\ l.pc \in {"back", "idle", "free"}
        /\ (l.pc # "idle" => l.name = th[p].name /\ l.low = th[p].low)
        /\ (l.pc = "idle" => l = Idle)
  <2>1. CASE v = 1
    BY <2>1, IdleOK, Both
  <2>2. CASE v = 0
    BY <1>2, <2>2 DEF LocalsOK, Locals, KeysPlaces, OpenPlaces, WritePlaces
  <2>3. CASE v >= 2
    <3>1. l = [th[p] EXCEPT !.pc = "free", !.left = v]
      BY <1>5, <2>3
    <3> HIDE DEF l
    <3>2. QED BY <1>2, <1>5, <2>3, <3>1
          DEF LocalsOK, Locals, KeysPlaces, OpenPlaces, WritePlaces
  <2>4. QED BY <1>5, <2>1, <2>2, <2>3
<1> HIDE DEF l
<1>8. l.pc \in KeysPlaces /\ l.pc \in StoragePlaces /\ l.pc # "fsinfo" /\ l.pc # "sync"
  BY <1>7 DEF KeysPlaces, StoragePlaces, OpenPlaces
<1>9. data' = [x \in Cluster |-> data'[x]]
  BY <1>1 DEF VolumeInv, CardOK
<1>10. /\ ThreadInv' /\ CardOK' /\ WindowInv'
       /\ th'[p] = l /\ \A q \in Thread : q # p => th'[q] = Idle
       /\ \A s \in Sector : Cur(s)' = Cur(s)
  BY <1>1, <1>2, <1>6, <1>7, <1>8, <1>9, Moved
<1>11. l = Idle \/ l.pc \in OpenPlaces
  BY <1>7 DEF OpenPlaces
<1>12. p = "storage" => ~l.low
  BY <1>2, <1>7, Both
<1>13. /\ fs' \in [mounted : BOOLEAN, free : 0 .. Unknown, next : 0 .. Unknown, info : BOOLEAN]
       /\ kept' \in [File -> NotKept .. MaxSize]
  BY <1>1 DEF VolumeInv, FsInv, SessionInv
<1>14. SessionInv' /\ FsInv' /\ FilInv'
  BY <1>1, <1>2, <1>6, <1>10, <1>11, <1>12, <1>13, OpenStep DEF OpenPlaces
<1>15. CutInv'
  <2>1. l.pc # "idle" => Cur(Dir)[Entry(l.name)] = [used |-> TRUE, clust |-> 0, size |-> 0]
    BY <1>2, <1>7 DEF VolumeInv, CutInv
  <2>2. Dir \in Sector
    BY DEF Sector
  <2>3. QED BY <1>7, <1>10, <2>1, <2>2, Both DEF CutInv
<1>16. QED BY <1>1, <1>10, <1>14, <1>15 DEF VolumeInv

(* free_clst counts up, but not past the last cluster.                      *)
LEMMA FreeClusterStep ==
  ASSUME VolumeInv, NEW p \in Thread, FreeCluster(p)
  PROVE  /\ VolumeInv' /\ disk' = disk /\ th[p].cl \in Cluster /\ win.sect = FatOf(th[p].cl)
         /\ \A s \in Sector :
              Cur(s)' = IF s = FatOf(th[p].cl) THEN [Cur(s) EXCEPT ![Link(th[p].cl)] = 0]
                                               ELSE Cur(s)
<1> DEFINE c == th[p].cl
           next == th[p].left
           l == [th[p] EXCEPT !.pc = IF IsCluster(next) THEN "get" ELSE "back", !.cl = next]
<1>1. /\ Here(p, "free") /\ Put(Link(c), 0) /\ disk' = disk /\ data' = data /\ fil' = fil
      /\ number' = number /\ count' = count /\ sampling' = sampling /\ kept' = kept
      /\ th' = [th EXCEPT ![p] = l]
      /\ fs' = IF fs.free < Last - 1 THEN [fs EXCEPT !.free = @ + 1, !.info = TRUE] ELSE fs
  BY DEF FreeCluster, GotoWith, medium, session
<1>2. /\ th[p].pc = "free" /\ \A q \in Thread : q # p => th[q] = Idle
      /\ LocalsOK(th[p]) /\ ~fil.open /\ fs.mounted /\ sampling /\ ~th[p].loaded
      /\ win.sect = Need(p) /\ SectorOK(win.sect, win.data)
      /\ p = "storage" => ~th[p].low
  BY <1>1, AtOpen DEF OpenPlaces
<1>3. c \in Cluster /\ win.sect = FatOf(c) /\ next \in 2 .. EOC
  BY <1>2 DEF LocalsOK, Need
<1>4. Link(c) \in Fields(win.sect) /\ win.sect \in FatSectors /\ win.sect # Dir
  BY <1>3, FieldsAre, Names
<1>5. 0 \in FatValue
  BY Constants DEF FatValue
<1>6. LocalsOK(l) /\ ~l.loaded /\ l.pc \in {"get", "back"} /\ l.name = th[p].name
        /\ l.low = th[p].low
  BY <1>2, <1>3, Constants DEF LocalsOK, Locals, KeysPlaces, OpenPlaces, WritePlaces, IsCluster
<1> HIDE DEF l
<1>7. l.pc \in KeysPlaces /\ l.pc \in StoragePlaces /\ l.pc # "fsinfo" /\ l.pc # "sync"
  BY <1>6 DEF KeysPlaces, StoragePlaces, OpenPlaces
<1>8. /\ ThreadInv' /\ CardOK' /\ WindowInv'
      /\ th'[p] = l /\ \A q \in Thread : q # p => th'[q] = Idle
      /\ \A s \in Sector :
           Cur(s)' = IF s = win.sect THEN [Cur(s) EXCEPT ![Link(c)] = 0] ELSE Cur(s)
  <2>1. "free" \in Reading
    BY DEF Reading
  <2>2. QED BY <1>1, <1>4, <1>5, <1>6, <1>7, <2>1, PutStep
<1>9. /\ fs'.mounted
      /\ fs' \in [mounted : BOOLEAN, free : 0 .. Unknown, next : 0 .. Unknown, info : BOOLEAN]
  <2>1. fs \in [mounted : BOOLEAN, free : 0 .. Unknown, next : 0 .. Unknown, info : BOOLEAN]
    BY DEF VolumeInv, FsInv
  <2>2. fs.free < Last - 1 => fs.free + 1 \in 0 .. Unknown
    BY <2>1, Constants
  <2>3. QED BY <1>1, <1>2, <2>1, <2>2
<1>10. l.pc \in OpenPlaces /\ (p = "storage" => ~l.low)
  BY <1>2, <1>6 DEF OpenPlaces
<1>11. kept' \in [File -> NotKept .. MaxSize]
  BY <1>1 DEF VolumeInv, SessionInv
<1>12. SessionInv' /\ FsInv' /\ FilInv'
  BY <1>1, <1>2, <1>8, <1>9, <1>10, <1>11, OpenStep DEF OpenPlaces
<1>13. CutInv'
  <2>1. Cur(Dir)[Entry(l.name)] = [used |-> TRUE, clust |-> 0, size |-> 0]
    BY <1>2, <1>6 DEF VolumeInv, CutInv
  <2>2. Cur(Dir)' = Cur(Dir)
    BY <1>4, <1>8 DEF Sector
  <2>3. QED BY <1>8, <2>1, <2>2, Both DEF CutInv
<1>14. VolumeInv'
  BY <1>8, <1>12, <1>13 DEF VolumeInv
<1>15. QED BY <1>1, <1>3, <1>8, <1>14

LEMMA BackToEntryStep ==
  ASSUME VolumeInv, NEW p \in Thread, BackToEntry(p)
  PROVE  /\ VolumeInv' /\ disk' = disk /\ \A s \in Sector : Cur(s)' = Cur(s)
         /\ fil' = Opened(p, [used |-> TRUE, clust |-> 0, size |-> 0])
         /\ th[p].name \in File
<1> DEFINE e == [used |-> TRUE, clust |-> 0, size |-> 0]
<1>1. /\ Here(p, "back") /\ disk' = disk /\ data' = data /\ win' = win
      /\ fs' = [fs EXCEPT !.next = th[p].scl - 1] /\ fil' = Opened(p, EntryOf(th[p].name))
      /\ number' = number /\ count' = count /\ sampling' = sampling /\ kept' = kept
      /\ th' = [th EXCEPT ![p] = Idle]
  BY DEF BackToEntry, Return, medium, session
<1>2. /\ th[p].pc = "back" /\ \A q \in Thread : q # p => th[q] = Idle
      /\ LocalsOK(th[p]) /\ ~fil.open /\ fs.mounted /\ sampling /\ ~th[p].loaded
      /\ win.sect = Dir /\ SectorOK(Dir, win.data) /\ win.data = Cur(Dir)
      /\ th[p].name \in File
  BY <1>1, AtOpen, NeedIs DEF OpenPlaces
<1>3. EntryOf(th[p].name) = e
  BY <1>2, EntryIs DEF VolumeInv, CutInv
<1>4. /\ fil' \in FilType /\ fil'.open /\ fil'.modified /\ fil'.size = 0
  BY <1>1, <1>2, <1>3, OpenedIs
<1>5. data' = [x \in Cluster |-> data'[x]]
  BY <1>1 DEF VolumeInv, CardOK
<1>6. Idle.pc \in KeysPlaces /\ Idle.pc \in StoragePlaces /\ Idle.pc \notin {"sync", "fsinfo"}
  BY Both DEF KeysPlaces, StoragePlaces
<1>7. /\ ThreadInv' /\ CardOK' /\ WindowInv'
      /\ th'[p] = Idle /\ \A q \in Thread : q # p => th'[q] = Idle
      /\ \A s \in Sector : Cur(s)' = Cur(s)
  BY <1>1, <1>2, <1>5, <1>6, IdleOK, Both, Moved
<1>8. /\ fs'.mounted
      /\ fs' \in [mounted : BOOLEAN, free : 0 .. Unknown, next : 0 .. Unknown, info : BOOLEAN]
  <2>1. th[p].scl - 1 \in 0 .. Unknown
    BY <1>2, Constants DEF LocalsOK
  <2>2. QED BY <1>1, <1>2, <2>1 DEF VolumeInv, FsInv
<1>9. kept' \in [File -> NotKept .. MaxSize]
  BY <1>1 DEF VolumeInv, SessionInv
<1>10. SessionInv' /\ FsInv' /\ FilInv'
  BY <1>1, <1>2, <1>4, <1>7, <1>8, <1>9, Both, OpenStep DEF OpenPlaces
<1>11. CutInv'
  BY <1>7, Both DEF CutInv
<1>12. QED BY <1>1, <1>2, <1>3, <1>7, <1>10, <1>11 DEF VolumeInv

-----------------------------------------------------------------------------
(* f_write.                                                                 *)
LEMMA Times ==
  ASSUME NEW a \in Nat, NEW b \in Nat, NEW k \in Nat, a <= b
  PROVE  /\ a * k <= b * k /\ (a + 1) * k = a * k + k
         /\ a * k \in Nat /\ b * k \in Nat
  OBVIOUS

(* The calls that a file may still get.                                     *)
LEMMA Room ==
  ASSUME VolumeInv
  PROVE  /\ count \in Nat /\ count * Buffer \in Nat /\ (count + 1) * Buffer \in Nat
         /\ (count + 1) * Buffer = count * Buffer + Buffer
         /\ (count + 1) * Buffer <= MaxSize
<1>1. count \in Nat /\ count + 1 \in Nat /\ count + 1 <= WriteNum
  BY Constants DEF VolumeInv, SessionInv
<1>2. (count + 1) * Buffer <= WriteNum * Buffer /\ (count + 1) * Buffer \in Nat
  BY <1>1, Constants, Times
<1>3. count * Buffer \in Nat /\ (count + 1) * Buffer = count * Buffer + Buffer
  BY <1>1, Constants, Times
<1>4. QED BY <1>1, <1>2, <1>3 DEF MaxSize

(* What the storage thread in f_write knows.                                *)
LEMMA AtWrite ==
  ASSUME VolumeInv, th["storage"].pc \in WritePlaces
  PROVE  /\ th["keys"] = Idle /\ \A q \in Thread : q # "storage" => th[q] = Idle
         /\ LocalsOK(th["storage"]) /\ sampling /\ ~th["storage"].low
         /\ fil.open /\ fs.mounted /\ fil.modified /\ fil \in FilType
         /\ th["storage"].left \in Nat /\ th["storage"].left > 0
         /\ fil.size \in Nat /\ fil.size + th["storage"].left <= (count + 1) * Buffer
<1>1. th["storage"].pc # "idle" /\ th["storage"].pc \notin SavedPlaces
  BY DEF WritePlaces, SavedPlaces
<1>2. /\ \A q \in Thread : q # "storage" => th[q] = Idle
      /\ LocalsOK(th["storage"])
  BY <1>1, Both, Alone
<1>3. sampling /\ ~th["storage"].low
  BY DEF VolumeInv, SessionInv, WritePlaces
<1>4. fil.open /\ fil \in FilType /\ fil.size + th["storage"].left <= (count + 1) * Buffer
  BY DEF VolumeInv, FilInv
<1>5. \A q \in Thread : th[q].pc \notin SavedPlaces
  BY <1>1, <1>2, Both DEF SavedPlaces
<1>6. fs.mounted /\ fil.modified
  BY <1>4, <1>5 DEF VolumeInv, FilInv
<1>7. th["storage"].left \in Nat /\ th["storage"].left > 0
  BY <1>2 DEF LocalsOK, Locals
<1>8. fil.size \in Nat
  BY <1>4, Constants DEF FilType
<1>9. "keys" # "storage" /\ "keys" \in Thread
  BY Both
<1>10. QED BY <1>2, <1>3, <1>4, <1>6, <1>7, <1>8, <1>9

(* Where a step of f_write leads keeps the session, FsInv and FilInv.       *)
LEMMA WriteStep ==
  ASSUME VolumeInv, number' = number, count' = count, sampling' = sampling, sampling,
         kept' = kept,
         NEW l, l.pc \in WritePlaces \union {"written", "refused"}, ~l.low,
         th'["storage"] = l, th'["keys"] = Idle,
         fs' \in [mounted : BOOLEAN, free : 0 .. Unknown, next : 0 .. Unknown, info : BOOLEAN],
         fil'.open => fs'.mounted, fil' \in FilType,
         l.pc # "refused" => fil'.open,
         fil'.open => fil'.modified,
         l.left \in Nat, l.pc # "refused" => fil'.size + l.left <= (count + 1) * Buffer,
         l.pc = "refused" => (fil'.open => fil'.size <= (count + 1) * Buffer),
         fil'.open /\ fil'.size > 0 => fil'.clust \in Cluster,
         l.pc \in {"follow", "link"} => fil'.size > 0,
         l.pc = "data" => fil'.clust \in Cluster,
         l.pc = "new" => fil'.size = 0
  PROVE  SessionInv' /\ FsInv' /\ FilInv' /\ CutInv'
<1>1. /\ l.pc \notin {"idle", "close", "unmount", "scan", "decide", "save", "get", "free", "back"}
      /\ l.pc \notin OpenPlaces /\ l.pc \notin SavedPlaces /\ l.pc \in FilePlaces
      /\ "idle" \notin OpenPlaces /\ "idle" \in FilePlaces /\ "idle" \notin SavedPlaces
      /\ "idle" \notin WritePlaces
  BY DEF WritePlaces, OpenPlaces, SavedPlaces, FilePlaces
<1>2. \A q \in Thread : th'[q] = IF q = "storage" THEN l ELSE Idle
  BY Both
<1>3. SessionInv'
  BY <1>1, <1>2, Both DEF VolumeInv, SessionInv
<1>4. FsInv'
  BY <1>1, <1>2, Both DEF FsInv
<1>5. FilInv'
  <2>1. fil'.open =>
          /\ fs'.mounted /\ \A p \in Thread : th'[p].pc \in FilePlaces
          /\ sampling' /\ fil'.modified /\ th'["storage"].pc # "idle"
    BY <1>1, <1>2, Both
  <2>2. fil'.open /\ th'["storage"].pc = "refused" => fil'.size <= (count' + 1) * Buffer
    BY <1>2, Both
  <2>3. th'["storage"].pc \in WritePlaces \union {"written"} =>
          fil'.open /\ fil'.size + th'["storage"].left <= (count' + 1) * Buffer
    <3>1. "refused" \notin WritePlaces
      BY DEF WritePlaces
    <3>2. QED BY <1>2, <3>1, Both
  <2>4. \A p \in Thread : th'[p].pc \notin {"save"} \union SavedPlaces
    BY <1>1, <1>2, Both
  <2>5. th'["storage"] = l
    BY <1>2, Both
  <2>6. QED BY <1>1, <2>1, <2>2, <2>3, <2>4, <2>5 DEF FilInv
<1>6. CutInv'
  BY <1>1, <1>2, Both DEF CutInv
<1>7. QED BY <1>3, <1>4, <1>5, <1>6

(* Where f_write goes on.                                                   *)
LEMMA OnwardIs ==
  ASSUME NEW size \in Nat, NEW left \in Nat
  PROVE  /\ Onward(size, left) \in {"written", "data", "new", "follow"}
         /\ Onward(size, left) = "written" <=> left = 0
         /\ Onward(size, left) = "data" <=> left # 0 /\ size % ClusterSize # 0
         /\ Onward(size, left) \in {"data", "follow"} => size > 0
         /\ Onward(size, left) = "new" => size = 0
         /\ Onward(size, left) = "follow" => size % ClusterSize = 0
<1>1. size % ClusterSize # 0 => size > 0
  BY Constants
<1>2. CASE left = 0
  BY <1>2 DEF Onward
<1>3. CASE left # 0 /\ size % ClusterSize # 0
  BY <1>1, <1>3 DEF Onward
<1>4. CASE left # 0 /\ size % ClusterSize = 0 /\ size = 0
  BY <1>4 DEF Onward
<1>5. CASE left # 0 /\ size % ClusterSize = 0 /\ size # 0
  BY <1>5 DEF Onward
<1>6. QED BY <1>2, <1>3, <1>4, <1>5

LEMMA WriteBeginStep ==
  ASSUME VolumeInv, Write
  PROVE  VolumeInv' /\ disk' = disk /\ \A s \in Sector : Cur(s)' = Cur(s)
<1> DEFINE go == Valid /\ ~fil.err
           l == IF go THEN [Idle EXCEPT !.pc = Onward(fil.size, Buffer), !.left = Buffer]
                      ELSE [Idle EXCEPT !.pc = "refused"]
<1>1. /\ win' = win /\ fs' = fs /\ fil' = fil /\ disk' = disk /\ data' = data
      /\ number' = number /\ count' = count /\ sampling' = sampling /\ kept' = kept
      /\ th["storage"].pc = "idle" /\ th["keys"].pc = "idle" /\ sampling
      /\ th' = [th EXCEPT !["storage"] = l]
  BY DEF Write, At, medium, session
<1>2. th["storage"] = Idle /\ th["keys"] = Idle
  BY <1>1, Both DEF VolumeInv, ThreadInv, LocalsOK
<1>3. fil.size \in Nat /\ fil \in FilType /\ Buffer \in Nat /\ Buffer > 0
  BY Constants DEF VolumeInv, FilInv, FilType
<1>4. /\ Onward(fil.size, Buffer) \in {"data", "new", "follow"}
      /\ Onward(fil.size, Buffer) \in {"data", "follow"} => fil.size > 0
      /\ Onward(fil.size, Buffer) = "new" => fil.size = 0
  BY <1>3, OnwardIs
<1>5. /\ LocalsOK(l) /\ ~l.loaded /\ ~l.low /\ l.left \in Nat
      /\ l.pc \in {"data", "new", "follow", "refused"}
      /\ l.pc # "refused" => /\ go /\ l.left = Buffer
                             /\ l.pc \in {"data", "follow"} => fil.size > 0
                             /\ l.pc = "new" => fil.size = 0
  <2>1. 0 \in File
    BY Constants DEF File
  <2>2. CASE go
    BY <1>3, <1>4, <2>1, <2>2
       DEF LocalsOK, Locals, Idle, StoragePlaces, WritePlaces, Reading
  <2>3. CASE ~go
    BY <2>1, <2>3 DEF LocalsOK, Locals, Idle, StoragePlaces, WritePlaces, Reading
  <2>4. QED BY <2>2, <2>3
<1> HIDE DEF l
<1>6. l.pc \in StoragePlaces /\ l.pc \notin {"sync", "fsinfo"}
        /\ l.pc \in WritePlaces \union {"written", "refused"}
  BY <1>5 DEF StoragePlaces, WritePlaces
<1>7. data' = [c \in Cluster |-> data'[c]]
  BY <1>1 DEF VolumeInv, CardOK
<1>8. /\ ThreadInv' /\ CardOK' /\ WindowInv'
      /\ th'["storage"] = l /\ \A q \in Thread : q # "storage" => th'[q] = Idle
      /\ \A s \in Sector : Cur(s)' = Cur(s)
  BY <1>1, <1>2, <1>5, <1>6, <1>7, Both, Moved
<1>9. fil.open => fs.mounted /\ fil.modified /\ fil.size <= count * Buffer
  BY <1>2, Both DEF VolumeInv, FilInv, SavedPlaces
<1>10. fil.open /\ fil.size > 0 => fil.clust \in Cluster
  BY DEF VolumeInv, FilInv
<1>11. go => fil.open /\ fs.mounted
  BY DEF Valid
<1>12. fil.open => fil.size + Buffer <= (count + 1) * Buffer /\ fil.size <= (count + 1) * Buffer
  BY <1>3, <1>9, Room
<1>13. fs \in [mounted : BOOLEAN, free : 0 .. Unknown, next : 0 .. Unknown, info : BOOLEAN]
  BY DEF VolumeInv, FsInv
<1>14. SessionInv' /\ FsInv' /\ FilInv' /\ CutInv'
  <2>1. l.pc # "refused" => fil.open /\ fil.size + l.left <= (count + 1) * Buffer
    BY <1>5, <1>11, <1>12
  <2>2. l.pc = "data" => fil.clust \in Cluster
    BY <1>5, <1>10, <2>1
  <2>3. th'["storage"] = l /\ th'["keys"] = Idle
    BY <1>8, Both
  <2>4. fil.open => fil.size <= (count + 1) * Buffer
    BY <1>12
  <2>5. l.pc \in {"follow", "link"} => fil.size > 0
    BY <1>5
  <2>6. l.pc = "new" => fil.size = 0
    BY <1>5
  <2> HIDE DEF go
  <2>7. QED BY <1>1, <1>3, <1>5, <1>6, <1>9, <1>10, <1>13, <2>1, <2>2, <2>3, <2>4, <2>5,
               <2>6, WriteStep
<1>15. QED BY <1>1, <1>8, <1>14 DEF VolumeInv

(* A step of f_write that leaves the window and the file's size alone.      *)
LEMMA WriteMoved ==
  ASSUME VolumeInv, th["storage"].pc \in WritePlaces, ~th["storage"].loaded,
         NEW l, th' = [th EXCEPT !["storage"] = l], LocalsOK(l), ~l.loaded, ~l.low,
         l.pc \in WritePlaces \union {"written", "refused"},
         l.left = th["storage"].left,
         win' = win, disk' = disk, data' = data, fs' = fs,
         number' = number, count' = count, sampling' = sampling, kept' = kept,
         fil' \in FilType, fil'.open, fil'.modified, fil'.size = fil.size,
         fil.size > 0 => fil'.clust \in Cluster,
         l.pc \in {"follow", "link"} => fil.size > 0,
         l.pc = "data" => fil'.clust \in Cluster,
         l.pc = "new" => fil.size = 0
  PROVE  VolumeInv' /\ \A s \in Sector : Cur(s)' = Cur(s)
<1>1. /\ th["keys"] = Idle /\ \A q \in Thread : q # "storage" => th[q] = Idle
      /\ sampling /\ fs.mounted
      /\ th["storage"].left \in Nat /\ fil.size \in Nat
      /\ fil.size + th["storage"].left <= (count + 1) * Buffer
  BY AtWrite
<1>2. l.pc \in StoragePlaces /\ l.pc \notin {"sync", "fsinfo"}
  BY DEF StoragePlaces, WritePlaces
<1>3. data' = [c \in Cluster |-> data'[c]]
  BY DEF VolumeInv, CardOK
<1>4. /\ ThreadInv' /\ CardOK' /\ WindowInv'
      /\ th'["storage"] = l /\ \A q \in Thread : q # "storage" => th'[q] = Idle
      /\ \A s \in Sector : Cur(s)' = Cur(s)
  BY <1>1, <1>2, <1>3, Both, Moved
<1>5. fs' \in [mounted : BOOLEAN, free : 0 .. Unknown, next : 0 .. Unknown, info : BOOLEAN]
  BY DEF VolumeInv, FsInv
<1>6. th'["keys"] = Idle
  BY <1>4, Both
<1>7. fil.size <= (count + 1) * Buffer
  BY <1>1, Room
<1>8. SessionInv' /\ FsInv' /\ FilInv' /\ CutInv'
  BY <1>1, <1>4, <1>5, <1>6, <1>7, WriteStep
<1>9. QED BY <1>4, <1>8 DEF VolumeInv

(* A place to search from, and the cluster that is searched first.          *)
LEMMA SearchFromIs ==
  ASSUME LocalsOK(th["storage"]), ~th["storage"].loaded, th["storage"].left > 0,
         NEW scl \in 1 .. Last, SearchFrom(scl)
  PROVE  \E l : /\ th' = [th EXCEPT !["storage"] = l] /\ LocalsOK(l) /\ ~l.loaded
                /\ l.pc = "search" /\ l.low = th["storage"].low
                /\ l.left = th["storage"].left /\ l.name = th["storage"].name
                /\ l.scl = scl
<1> DEFINE c == IF scl < Last THEN scl + 1 ELSE 2
           l == [th["storage"] EXCEPT !.pc = "search", !.scl = scl, !.cl = c]
<1>1. c \in Cluster /\ c \in Nat /\ scl \in Nat
  BY Constants DEF Cluster
<1>2. th' = [th EXCEPT !["storage"] = l]
  BY DEF SearchFrom
<1> HIDE DEF c
<1>3. /\ LocalsOK(l) /\ ~l.loaded
      /\ l.pc = "search" /\ l.low = th["storage"].low
      /\ l.left = th["storage"].left /\ l.name = th["storage"].name /\ l.scl = scl
  BY <1>1 DEF LocalsOK, Locals, StoragePlaces, WritePlaces
<1>4. QED BY <1>2, <1>3

LEMMA NewChainStep ==
  ASSUME VolumeInv, NewChain
  PROVE  VolumeInv' /\ disk' = disk /\ \A s \in Sector : Cur(s)' = Cur(s)
<1> DEFINE scl == IF fs.next = 0 \/ fs.next > Last THEN 1 ELSE fs.next
<1>1. /\ win' = win /\ fs' = fs /\ fil' = fil /\ disk' = disk /\ data' = data
      /\ number' = number /\ count' = count /\ sampling' = sampling /\ kept' = kept
      /\ th["storage"].pc = "new" /\ SearchFrom(scl)
  BY DEF NewChain, At, medium, session
<1>2. th["storage"].pc \in WritePlaces
  BY <1>1 DEF WritePlaces
<1>3. scl \in 1 .. Last
  <2>1. fs.next \in Nat
    BY Constants DEF VolumeInv, FsInv
  <2>2. QED BY <2>1, Constants
<1>4. LocalsOK(th["storage"]) /\ ~th["storage"].loaded /\ th["storage"].left > 0
        /\ ~th["storage"].low /\ fil.open /\ fil.modified /\ fil \in FilType
  BY <1>1, <1>2, AtWrite DEF LocalsOK, Reading
<1> HIDE DEF scl
<1>5. PICK l : /\ th' = [th EXCEPT !["storage"] = l] /\ LocalsOK(l) /\ ~l.loaded
               /\ l.pc = "search" /\ l.low = th["storage"].low
               /\ l.left = th["storage"].left
  BY <1>1, <1>3, <1>4, SearchFromIs
<1>6. fil.size > 0 => fil.clust \in Cluster
  BY <1>4 DEF VolumeInv, FilInv
<1>7. l.pc \in WritePlaces
  BY <1>5 DEF WritePlaces
<1>8. QED BY <1>1, <1>2, <1>4, <1>5, <1>6, <1>7, WriteMoved

LEMMA FollowStep ==
  ASSUME VolumeInv, Follow
  PROVE  /\ VolumeInv' /\ disk' = disk /\ \A s \in Sector : Cur(s)' = Cur(s)
         /\ fil.clust \in Cluster /\ win.data = Cur(FatOf(fil.clust))
         /\ Found(Link(fil.clust)) = {win.data[Link(fil.clust)]}
         /\ win.data[Link(fil.clust)] \in FatValue
<1>1. /\ Here("storage", "follow") /\ win' = win /\ fs' = fs /\ disk' = disk /\ data' = data
      /\ number' = number /\ count' = count /\ sampling' = sampling /\ kept' = kept
  BY DEF Follow, medium, session
<1>2. /\ th["storage"].pc = "follow" /\ ~th["storage"].loaded
      /\ win.sect = Need("storage") /\ SectorOK(win.sect, win.data) /\ win.data = Cur(win.sect)
  BY <1>1, Both, HereIs DEF Reading
<1>3. th["storage"].pc \in WritePlaces
  BY <1>2 DEF WritePlaces
<1>4. LocalsOK(th["storage"]) /\ th["storage"].left > 0
        /\ ~th["storage"].low /\ fil.open /\ fil.modified /\ fil \in FilType
  BY <1>3, AtWrite
<1>5. fil.size > 0 /\ fil.clust \in Cluster /\ win.sect = FatOf(fil.clust)
  BY <1>2, <1>4 DEF VolumeInv, FilInv, Need
<1> DEFINE v == win.data[Link(fil.clust)]
<1>6. Found(Link(fil.clust)) = {v} /\ v \in FatValue
  BY <1>2, <1>5, LinkIs
<1>7. v \in Nat
  BY <1>6, Constants DEF FatValue
<1>8. \/ v < 2 /\ Abort
      \/ IsCluster(v) /\ fil' = [fil EXCEPT !.clust = v] /\ Goto("storage", "data")
      \/ v > Last /\ SearchFrom(fil.clust) /\ UNCHANGED fil
  BY <1>6 DEF Follow
<1> HIDE DEF v
<1>9. CASE Abort
  <2> DEFINE l == [th["storage"] EXCEPT !.pc = "refused"]
  <2>1. th' = [th EXCEPT !["storage"] = l] /\ fil' = [fil EXCEPT !.err = TRUE]
    BY <1>9 DEF Abort, Goto
  <2>2. LocalsOK(l) /\ ~l.loaded /\ l.pc = "refused" /\ ~l.low
          /\ l.left = th["storage"].left
    BY <1>2, <1>4 DEF LocalsOK, Locals, StoragePlaces, WritePlaces
  <2>3. /\ fil' \in FilType /\ fil'.open /\ fil'.modified /\ fil'.size = fil.size
        /\ fil'.clust = fil.clust
    BY <1>4, <2>1 DEF FilType
  <2> HIDE DEF l
  <2>4. QED BY <1>1, <1>2, <1>3, <1>5, <1>6, <2>1, <2>2, <2>3, WriteMoved DEF v
<1>10. CASE IsCluster(v) /\ fil' = [fil EXCEPT !.clust = v] /\ Goto("storage", "data")
  <2> DEFINE l == [th["storage"] EXCEPT !.pc = "data"]
  <2>1. th' = [th EXCEPT !["storage"] = l] /\ v \in Cluster
    BY <1>10 DEF Goto, IsCluster
  <2>2. LocalsOK(l) /\ ~l.loaded /\ l.pc = "data" /\ ~l.low
          /\ l.left = th["storage"].left /\ l.pc \in WritePlaces
    BY <1>2, <1>4 DEF LocalsOK, Locals, StoragePlaces, WritePlaces
  <2>3. /\ fil' \in FilType /\ fil'.open /\ fil'.modified /\ fil'.size = fil.size
        /\ fil'.clust \in Cluster
    BY <1>4, <1>10, <2>1 DEF FilType
  <2> HIDE DEF l
  <2>4. QED BY <1>1, <1>2, <1>3, <1>5, <1>6, <2>1, <2>2, <2>3, WriteMoved DEF v
<1>11. CASE v > Last /\ SearchFrom(fil.clust) /\ UNCHANGED fil
  <2>1. fil.clust \in 1 .. Last
    BY <1>5, Constants
  <2>2. PICK l : /\ th' = [th EXCEPT !["storage"] = l] /\ LocalsOK(l) /\ ~l.loaded
                 /\ l.pc = "search" /\ l.low = th["storage"].low
                 /\ l.left = th["storage"].left
    BY <1>2, <1>4, <1>11, <2>1, SearchFromIs
  <2>3. l.pc \in WritePlaces /\ fil' = fil
    BY <1>11, <2>2 DEF WritePlaces
  <2>4. QED BY <1>1, <1>2, <1>3, <1>4, <1>5, <1>6, <2>2, <2>3, WriteMoved DEF v
<1>12. QED BY <1>8, <1>9, <1>10, <1>11

LEMMA SearchStep ==
  ASSUME VolumeInv, Search
  PROVE  /\ VolumeInv' /\ disk' = disk /\ \A s \in Sector : Cur(s)' = Cur(s)
         /\ th["storage"].cl \in Cluster /\ win.data = Cur(FatOf(th["storage"].cl))
         /\ Found(Link(th["storage"].cl)) = {win.data[Link(th["storage"].cl)]}
<1> DEFINE c == th["storage"].cl
           scl == th["storage"].scl
           v == win.data[Link(c)]
<1>1. /\ Here("storage", "search") /\ win' = win /\ fs' = fs /\ disk' = disk /\ data' = data
      /\ number' = number /\ count' = count /\ sampling' = sampling /\ kept' = kept
  BY DEF Search, medium, session
<1>2. /\ th["storage"].pc = "search" /\ ~th["storage"].loaded
      /\ win.sect = Need("storage") /\ SectorOK(win.sect, win.data) /\ win.data = Cur(win.sect)
  BY <1>1, Both, HereIs DEF Reading
<1>3. th["storage"].pc \in WritePlaces
  BY <1>2 DEF WritePlaces
<1>4. LocalsOK(th["storage"]) /\ th["storage"].left > 0
        /\ ~th["storage"].low /\ fil.open /\ fil.modified /\ fil \in FilType
        /\ (fil.size > 0 => fil.clust \in Cluster)
  BY <1>3, AtWrite DEF VolumeInv, FilInv
<1>5. c \in Cluster /\ win.sect = FatOf(c)
  BY <1>2, <1>4 DEF LocalsOK, Need
<1>6. Found(Link(c)) = {v} /\ v \in FatValue
  BY <1>2, <1>5, LinkIs
<1>7. \/ Goto("storage", "mark") /\ UNCHANGED fil
      \/ Abort
      \/ DiskFull /\ UNCHANGED fil
      \/ GotoWith("storage", "search", IF c < Last THEN c + 1 ELSE 2) /\ UNCHANGED fil
  BY <1>6 DEF Search
<1> HIDE DEF v, c, scl
<1>8. ASSUME NEW l, th' = [th EXCEPT !["storage"] = l], LocalsOK(l), ~l.loaded, ~l.low,
             l.pc \in {"mark", "refused", "written", "search"},
             l.left = th["storage"].left,
             fil' = fil \/ fil' = [fil EXCEPT !.err = TRUE]
      PROVE  VolumeInv' /\ \A s \in Sector : Cur(s)' = Cur(s)
  <2>1. l.pc \in WritePlaces \union {"written", "refused"} /\ l.pc \notin {"follow", "link", "data", "new"}
    BY <1>8 DEF WritePlaces
  <2>2. /\ fil' \in FilType /\ fil'.open /\ fil'.modified /\ fil'.size = fil.size
        /\ fil'.clust = fil.clust
    BY <1>4, <1>8 DEF FilType
  <2>3. QED BY <1>1, <1>2, <1>3, <1>4, <1>8, <2>1, <2>2, WriteMoved
<1>9. CASE Goto("storage", "mark") /\ UNCHANGED fil
  <2> DEFINE l == [th["storage"] EXCEPT !.pc = "mark"]
  <2>1. th' = [th EXCEPT !["storage"] = l] /\ fil' = fil
    BY <1>9 DEF Goto
  <2>2. LocalsOK(l) /\ ~l.loaded /\ l.pc = "mark" /\ ~l.low /\ l.left = th["storage"].left
    BY <1>2, <1>4 DEF LocalsOK, Locals, StoragePlaces, WritePlaces
  <2> HIDE DEF l
  <2>3. QED BY <1>1, <1>2, <1>5, <1>6, <1>8, <2>1, <2>2 DEF c, v
<1>10. CASE Abort
  <2> DEFINE l == [th["storage"] EXCEPT !.pc = "refused"]
  <2>1. th' = [th EXCEPT !["storage"] = l] /\ fil' = [fil EXCEPT !.err = TRUE]
    BY <1>10 DEF Abort, Goto
  <2>2. LocalsOK(l) /\ ~l.loaded /\ l.pc = "refused" /\ ~l.low /\ l.left = th["storage"].left
    BY <1>2, <1>4 DEF LocalsOK, Locals, StoragePlaces, WritePlaces
  <2> HIDE DEF l
  <2>3. QED BY <1>1, <1>2, <1>5, <1>6, <1>8, <2>1, <2>2 DEF c, v
<1>11. CASE DiskFull /\ UNCHANGED fil
  <2> DEFINE l == [th["storage"] EXCEPT !.pc = "written"]
  <2>1. th' = [th EXCEPT !["storage"] = l] /\ fil' = fil
    BY <1>11 DEF DiskFull, Goto
  <2>2. LocalsOK(l) /\ ~l.loaded /\ l.pc = "written" /\ ~l.low /\ l.left = th["storage"].left
    BY <1>2, <1>4 DEF LocalsOK, Locals, StoragePlaces, WritePlaces
  <2> HIDE DEF l
  <2>3. QED BY <1>1, <1>2, <1>5, <1>6, <1>8, <2>1, <2>2 DEF c, v
<1>12. CASE GotoWith("storage", "search", IF c < Last THEN c + 1 ELSE 2) /\ UNCHANGED fil
  <2> DEFINE d == IF c < Last THEN c + 1 ELSE 2
             l == [th["storage"] EXCEPT !.pc = "search", !.cl = d]
  <2>1. th' = [th EXCEPT !["storage"] = l] /\ fil' = fil
    BY <1>12 DEF GotoWith
  <2>2. d \in Cluster /\ d \in Nat
    BY <1>5, Constants DEF Cluster
  <2> HIDE DEF d
  <2>3. LocalsOK(l) /\ ~l.loaded /\ l.pc = "search" /\ ~l.low /\ l.left = th["storage"].left
    BY <1>2, <1>4, <2>2 DEF LocalsOK, Locals, StoragePlaces, WritePlaces
  <2> HIDE DEF l
  <2>4. QED BY <1>1, <1>2, <1>5, <1>6, <1>8, <2>1, <2>3 DEF c, v
<1>13. QED BY <1>7, <1>9, <1>10, <1>11, <1>12

(* create_chain's last part keeps the types.                                *)
LEMMA ChainedIs ==
  ASSUME VolumeInv, NEW c \in Cluster, Chained(c), fil.open, fil.modified, fs.mounted
  PROVE  /\ fs' \in [mounted : BOOLEAN, free : 0 .. Unknown, next : 0 .. Unknown, info : BOOLEAN]
         /\ fs'.mounted /\ fil' \in FilType /\ fil'.open /\ fil'.modified
         /\ fil'.clust = c /\ fil'.size = fil.size /\ fil'.name = fil.name
         /\ fil'.sclust = IF fil.sclust = 0 THEN c ELSE fil.sclust
         /\ Goto("storage", "data")
<1>1. fs \in [mounted : BOOLEAN, free : 0 .. Unknown, next : 0 .. Unknown, info : BOOLEAN]
  BY DEF VolumeInv, FsInv
<1>2. fil \in FilType
  BY DEF VolumeInv, FilInv
<1> DEFINE f == CASE fs.free = 0 -> Unknown [] fs.free = Unknown -> fs.free
                  [] OTHER -> fs.free - 1
<1>3. f \in 0 .. Unknown
  <2>1. fs.free \in Nat /\ fs.free <= Unknown /\ Unknown \in Nat
    BY <1>1, Constants
  <2>2. CASE fs.free = 0
    BY <2>1, <2>2
  <2>3. CASE fs.free = Unknown
    BY <2>1, <2>3, Constants
  <2>4. CASE fs.free # 0 /\ fs.free # Unknown
    BY <2>1, <2>4
  <2>5. QED BY <2>2, <2>3, <2>4
<1>4. c \in 0 .. Unknown
  BY Constants
<1>5. fs' = [fs EXCEPT !.next = c, !.info = TRUE, !.free = f]
  BY DEF Chained
<1> HIDE DEF f
<1>6. /\ fs' \in [mounted : BOOLEAN, free : 0 .. Unknown, next : 0 .. Unknown, info : BOOLEAN]
      /\ fs'.mounted
  BY <1>1, <1>3, <1>4, <1>5
<1>7. /\ fil' = [fil EXCEPT !.clust = c, !.sclust = IF fil.sclust = 0 THEN c ELSE fil.sclust]
      /\ Goto("storage", "data")
  BY DEF Chained
<1>8. QED BY <1>2, <1>6, <1>7 DEF FilType

(* A step of f_write that writes a link of the FAT.                         *)
LEMMA WritePut ==
  ASSUME VolumeInv, NEW at \in {"mark", "link"}, Here("storage", at),
         NEW k \in Cluster, Need("storage") = FatOf(k), NEW v \in FatValue, Put(Link(k), v),
         NEW l, th' = [th EXCEPT !["storage"] = l], LocalsOK(l), ~l.loaded, ~l.low,
         l.pc \in {"data", "link"}, l.left = th["storage"].left,
         disk' = disk, data' = data,
         number' = number, count' = count, sampling' = sampling, kept' = kept,
         fs' \in [mounted : BOOLEAN, free : 0 .. Unknown, next : 0 .. Unknown, info : BOOLEAN],
         fs'.mounted, fil' \in FilType, fil'.open, fil'.modified, fil'.size = fil.size,
         fil.size > 0 => fil'.clust \in Cluster,
         l.pc = "link" => fil.size > 0,
         l.pc = "data" => fil'.clust \in Cluster
  PROVE  /\ VolumeInv' /\ win.sect = FatOf(k)
         /\ \A s \in Sector :
              Cur(s)' = IF s = FatOf(k) THEN [Cur(s) EXCEPT ![Link(k)] = v] ELSE Cur(s)
<1>1. th["storage"].pc \in WritePlaces /\ win.sect = FatOf(k)
  BY DEF Here, At, WritePlaces
<1>2. /\ sampling /\ th["storage"].left \in Nat /\ fil.size \in Nat
      /\ fil.size + th["storage"].left <= (count + 1) * Buffer
  BY <1>1, AtWrite
<1>3. /\ l.pc \in StoragePlaces /\ l.pc \notin {"sync", "fsinfo"}
      /\ l.pc \in WritePlaces \union {"written", "refused"} /\ at \in Reading
  BY DEF StoragePlaces, WritePlaces, Reading
<1>4. win.sect \in FatSectors /\ Link(k) \in Fields(win.sect)
  BY <1>1, FieldsAre
<1>5. /\ ThreadInv' /\ CardOK' /\ WindowInv'
      /\ th'["storage"] = l /\ \A q \in Thread : q # "storage" => th'[q] = Idle
      /\ \A s \in Sector :
           Cur(s)' = IF s = win.sect THEN [Cur(s) EXCEPT ![Link(k)] = v] ELSE Cur(s)
  <2>1. "storage" \in Thread /\ "storage" # "keys" /\ at \in Reading
    BY <1>3, Both
  <2>2. l.pc # "fsinfo" /\ l.pc # "sync" /\ l.pc \in StoragePlaces
    BY <1>3
  <2>3. win.sect \in FatSectors /\ v \in FatValue /\ Link(k) \in Fields(win.sect)
    BY <1>4
  <2>4. QED BY <2>1, <2>2, <2>3, PutStep, ZenonT(60)
<1>6. th'["keys"] = Idle
  BY <1>5, Both
<1>7. SessionInv' /\ FsInv' /\ FilInv' /\ CutInv'
  BY <1>2, <1>3, <1>5, <1>6, WriteStep
<1>8. QED BY <1>1, <1>5, <1>7 DEF VolumeInv

LEMMA MarkStep ==
  ASSUME VolumeInv, Mark
  PROVE  /\ VolumeInv' /\ disk' = disk
         /\ th["storage"].cl \in Cluster /\ win.sect = FatOf(th["storage"].cl)
         /\ \A s \in Sector :
              Cur(s)' = IF s = FatOf(th["storage"].cl)
                        THEN [Cur(s) EXCEPT ![Link(th["storage"].cl)] = EOC] ELSE Cur(s)
<1> DEFINE c == th["storage"].cl
<1>1. /\ Here("storage", "mark") /\ Put(Link(c), EOC) /\ disk' = disk /\ data' = data
      /\ number' = number /\ count' = count /\ sampling' = sampling /\ kept' = kept
      /\ \/ fil.size = 0 /\ Chained(c)
         \/ fil.size # 0 /\ Goto("storage", "link") /\ UNCHANGED <<fs, fil>>
  BY DEF Mark, medium, session
<1>2. th["storage"].pc = "mark" /\ ~th["storage"].loaded /\ win.sect = Need("storage")
  BY <1>1, Both, HereIs DEF Reading
<1>3. th["storage"].pc \in WritePlaces
  BY <1>2 DEF WritePlaces
<1>4. /\ LocalsOK(th["storage"]) /\ th["storage"].left > 0 /\ ~th["storage"].low
      /\ fil.open /\ fil.modified /\ fil \in FilType /\ fs.mounted /\ fil.size \in Nat
      /\ (fil.size > 0 => fil.clust \in Cluster)
  BY <1>3, AtWrite DEF VolumeInv, FilInv
<1>5. c \in Cluster /\ Need("storage") = FatOf(c) /\ EOC \in FatValue
  BY <1>2, <1>4, Constants DEF LocalsOK, Need, FatValue
<1>6. CASE fil.size = 0 /\ Chained(c)
  <2> DEFINE l == [th["storage"] EXCEPT !.pc = "data"]
  <2>1. /\ fs' \in [mounted : BOOLEAN, free : 0 .. Unknown, next : 0 .. Unknown, info : BOOLEAN]
        /\ fs'.mounted /\ fil' \in FilType /\ fil'.open /\ fil'.modified
        /\ fil'.clust = c /\ fil'.size = fil.size /\ Goto("storage", "data")
    BY <1>4, <1>5, <1>6, ChainedIs
  <2>2. th' = [th EXCEPT !["storage"] = l]
    BY <2>1 DEF Goto
  <2>3. LocalsOK(l) /\ ~l.loaded /\ l.pc = "data" /\ ~l.low /\ l.left = th["storage"].left
    BY <1>2, <1>4 DEF LocalsOK, Locals, StoragePlaces, WritePlaces
  <2> HIDE DEF l
  <2>4. /\ VolumeInv' /\ win.sect = FatOf(c)
        /\ \A s \in Sector :
             Cur(s)' = IF s = FatOf(c) THEN [Cur(s) EXCEPT ![Link(c)] = EOC] ELSE Cur(s)
    BY <1>1, <1>5, <2>1, <2>2, <2>3, WritePut
  <2>5. QED BY <1>1, <1>5, <2>4
<1>7. CASE fil.size # 0 /\ Goto("storage", "link") /\ UNCHANGED <<fs, fil>>
  <2> DEFINE l == [th["storage"] EXCEPT !.pc = "link"]
  <2>1. /\ fs' \in [mounted : BOOLEAN, free : 0 .. Unknown, next : 0 .. Unknown, info : BOOLEAN]
        /\ fs'.mounted /\ fil' = fil /\ fil.size > 0
    BY <1>4, <1>7 DEF VolumeInv, FsInv
  <2>2. th' = [th EXCEPT !["storage"] = l]
    BY <1>7 DEF Goto
  <2>3. LocalsOK(l) /\ ~l.loaded /\ l.pc = "link" /\ ~l.low /\ l.left = th["storage"].left
    BY <1>2, <1>4, <1>5 DEF LocalsOK, Locals, StoragePlaces, WritePlaces
  <2> HIDE DEF l
  <2>4. /\ VolumeInv' /\ win.sect = FatOf(c)
        /\ \A s \in Sector :
             Cur(s)' = IF s = FatOf(c) THEN [Cur(s) EXCEPT ![Link(c)] = EOC] ELSE Cur(s)
    BY <1>1, <1>4, <1>5, <2>1, <2>2, <2>3, WritePut
  <2>5. QED BY <1>1, <1>5, <2>4
<1>8. QED BY <1>1, <1>6, <1>7

LEMMA LinkClusterStep ==
  ASSUME VolumeInv, LinkCluster
  PROVE  /\ VolumeInv' /\ disk' = disk
         /\ th["storage"].cl \in Cluster /\ fil.clust \in Cluster
         /\ win.sect = FatOf(fil.clust)
         /\ \A k \in {fil.clust}, s \in Sector :
              Cur(s)' = IF s = FatOf(k)
                        THEN [Cur(s) EXCEPT ![Link(k)] = th["storage"].cl] ELSE Cur(s)
<1> DEFINE c == th["storage"].cl
           l == [th["storage"] EXCEPT !.pc = "data"]
<1>1. /\ Here("storage", "link") /\ Put(Link(fil.clust), c) /\ disk' = disk /\ data' = data
      /\ number' = number /\ count' = count /\ sampling' = sampling /\ kept' = kept
      /\ Chained(c)
  BY DEF LinkCluster, medium, session
<1>2. th["storage"].pc = "link" /\ ~th["storage"].loaded /\ win.sect = Need("storage")
  BY <1>1, Both, HereIs DEF Reading
<1>3. th["storage"].pc \in WritePlaces
  BY <1>2 DEF WritePlaces
<1>4. /\ LocalsOK(th["storage"]) /\ th["storage"].left > 0 /\ ~th["storage"].low
      /\ fil.open /\ fil.modified /\ fil \in FilType /\ fs.mounted /\ fil.size \in Nat
      /\ fil.clust \in Cluster
  BY <1>2, <1>3, AtWrite DEF VolumeInv, FilInv
<1>5. c \in Cluster /\ Need("storage") = FatOf(fil.clust) /\ c \in FatValue
  BY <1>2, <1>4, Constants DEF LocalsOK, Need, FatValue
<1>6. /\ fs' \in [mounted : BOOLEAN, free : 0 .. Unknown, next : 0 .. Unknown, info : BOOLEAN]
      /\ fs'.mounted /\ fil' \in FilType /\ fil'.open /\ fil'.modified
      /\ fil'.clust = c /\ fil'.size = fil.size /\ Goto("storage", "data")
  BY <1>1, <1>4, <1>5, ChainedIs
<1>7. th' = [th EXCEPT !["storage"] = l]
  BY <1>6 DEF Goto
<1>8. LocalsOK(l) /\ ~l.loaded /\ l.pc = "data" /\ ~l.low /\ l.left = th["storage"].left
  BY <1>2, <1>4 DEF LocalsOK, Locals, StoragePlaces, WritePlaces
<1> HIDE DEF l
<1>9. ASSUME NEW k \in {fil.clust}
      PROVE  /\ VolumeInv' /\ win.sect = FatOf(k)
             /\ \A s \in Sector :
                  Cur(s)' = IF s = FatOf(k) THEN [Cur(s) EXCEPT ![Link(k)] = c] ELSE Cur(s)
  <2>1. k \in Cluster /\ Need("storage") = FatOf(k) /\ Put(Link(k), c)
    BY <1>1, <1>4, <1>5, <1>9
  <2>2. QED BY <1>1, <1>5, <1>6, <1>7, <1>8, <2>1, WritePut
<1>10. QED BY <1>1, <1>4, <1>5, <1>9

(* What fits in the cluster goes to the card.                               *)
LEMMA WriteDataStep ==
  ASSUME VolumeInv, WriteData
  PROVE  /\ VolumeInv' /\ disk' = disk /\ \A s \in Sector : Cur(s)' = Cur(s)
         /\ fil.clust \in Cluster
<1> DEFINE first == fil.size % ClusterSize
           left == th["storage"].left
           room == ClusterSize - first
           cc == IF left < room THEN left ELSE room
           l == [th["storage"] EXCEPT !.left = left - cc, !.pc = Onward(fil.size + cc, left - cc)]
<1>1. /\ th["storage"].pc = "data" /\ disk' = disk /\ win' = win /\ fs' = fs
      /\ number' = number /\ count' = count /\ sampling' = sampling /\ kept' = kept
      /\ data' = [data EXCEPT ![fil.clust] =
                    [i \in 0 .. ClusterSize - 1 |->
                       IF i >= first /\ i < first + cc
                       THEN <<fil.name, fil.size + i - first>> ELSE @[i]]]
      /\ fil' = [fil EXCEPT !.size = @ + cc]
      /\ th' = [th EXCEPT !["storage"] = l]
  BY DEF WriteData, At, session
<1>2. th["storage"].pc \in WritePlaces
  BY <1>1 DEF WritePlaces
<1>3. /\ \A q \in Thread : q # "storage" => th[q] = Idle
      /\ LocalsOK(th["storage"]) /\ ~th["storage"].low /\ ~th["storage"].loaded /\ sampling
      /\ fil.open /\ fil.modified /\ fil \in FilType /\ fs.mounted
      /\ left \in Nat /\ left > 0 /\ fil.size \in Nat /\ fil.clust \in Cluster
      /\ fil.size + left <= (count + 1) * Buffer
  BY <1>1, <1>2, AtWrite DEF VolumeInv, FilInv, LocalsOK, Reading
<1>4. first \in 0 .. ClusterSize - 1
  BY <1>3, Constants
<1> HIDE DEF first
<1>5. cc \in Nat /\ cc > 0 /\ cc <= left
  BY <1>3, <1>4, Constants
<1> HIDE DEF cc
<1>6. /\ left - cc \in Nat /\ fil.size + cc \in Nat /\ fil.size + cc > 0
      /\ (fil.size + cc) + (left - cc) = fil.size + left
  BY <1>3, <1>5
<1> DEFINE go == Onward(fil.size + cc, left - cc)
<1>7. go \in {"written", "data", "new", "follow"} /\ (go = "written" <=> left - cc = 0)
        /\ go # "new"
  BY <1>6, OnwardIs
<1> HIDE DEF go
<1>8. l = [th["storage"] EXCEPT !.left = left - cc, !.pc = go]
  BY DEF go
<1> HIDE DEF l
<1>9. /\ LocalsOK(l) /\ ~l.loaded /\ ~l.low /\ l.left = left - cc /\ l.left \in Nat
      /\ l.pc \in {"written", "data", "follow"}
  <2>1. left - cc # 0 => left - cc > 0
    BY <1>6
  <2>2. QED BY <1>3, <1>6, <1>7, <1>8, <2>1
            DEF LocalsOK, Locals, StoragePlaces, WritePlaces, Reading
<1>10. l.pc \in StoragePlaces /\ l.pc \notin {"sync", "fsinfo"}
         /\ l.pc \in WritePlaces \union {"written", "refused"}
  BY <1>9 DEF StoragePlaces, WritePlaces
<1>11. data' = [c \in Cluster |-> data'[c]]
  BY <1>1 DEF VolumeInv, CardOK
<1>12. /\ ThreadInv' /\ CardOK' /\ WindowInv'
       /\ th'["storage"] = l /\ \A q \in Thread : q # "storage" => th'[q] = Idle
       /\ \A s \in Sector : Cur(s)' = Cur(s)
  BY <1>1, <1>3, <1>9, <1>10, <1>11, Both, Moved
<1>13. /\ fil' \in FilType /\ fil'.open /\ fil'.modified /\ fil'.size = fil.size + cc
       /\ fil'.clust = fil.clust
  <2>1. fil.size + cc <= (count + 1) * Buffer /\ (count + 1) * Buffer <= MaxSize
          /\ (count + 1) * Buffer \in Nat
    BY <1>3, <1>5, Room
  <2>2. fil.size + cc \in 0 .. MaxSize
    BY <1>6, <2>1, Constants
  <2>3. QED BY <1>1, <1>3, <2>2 DEF FilType
<1>14. fil'.size + l.left <= (count + 1) * Buffer /\ fil'.size > 0
  BY <1>3, <1>6, <1>9, <1>13
<1>15. fs \in [mounted : BOOLEAN, free : 0 .. Unknown, next : 0 .. Unknown, info : BOOLEAN]
  BY DEF VolumeInv, FsInv
<1>16. th'["keys"] = Idle /\ l.pc # "refused" /\ l.pc # "new"
  BY <1>9, <1>12, Both
<1>17. SessionInv' /\ FsInv' /\ FilInv' /\ CutInv'
  BY <1>1, <1>3, <1>9, <1>10, <1>12, <1>13, <1>14, <1>15, <1>16, WriteStep
<1>18. QED BY <1>1, <1>3, <1>12, <1>17 DEF VolumeInv

LEMMA WrittenStep ==
  ASSUME VolumeInv, Written
  PROVE  VolumeInv' /\ disk' = disk /\ \A s \in Sector : Cur(s)' = Cur(s)
<1> DEFINE last == count + 1 = WriteNum
           l == IF last THEN [th["storage"] EXCEPT !.pc = "close"] ELSE Idle
<1>1. /\ disk' = disk /\ win' = win /\ fs' = fs /\ data' = data
      /\ number' = number /\ sampling' = sampling /\ kept' = kept
      /\ th["storage"].pc \in {"written", "refused"}
      /\ fil' = [fil EXCEPT !.modified = @ \/ th["storage"].pc = "written"]
      /\ th' = [th EXCEPT !["storage"] = l]
      /\ count' = IF last THEN 0 ELSE count + 1
  BY DEF Written, At, Return, Goto, medium
<1>2. th["storage"].pc # "idle" /\ th["storage"].pc \notin Reading /\ th["storage"].pc \notin SavedPlaces
  BY <1>1 DEF Reading, SavedPlaces
<1>3. /\ \A q \in Thread : q # "storage" => th[q] = Idle
      /\ LocalsOK(th["storage"]) /\ ~th["storage"].loaded
      /\ ~th["storage"].low /\ sampling
  <2>1. \A q \in Thread : q # "storage" => th[q] = Idle
    BY <1>2, Both, Alone
  <2>2. LocalsOK(th["storage"]) /\ ~th["storage"].loaded
    BY <1>2, Both, Alone DEF LocalsOK
  <2>3. ~th["storage"].low /\ sampling
    BY <1>1 DEF VolumeInv, SessionInv
  <2>4. QED BY <2>1, <2>2, <2>3
<1>4. fil \in FilType /\ fil.size \in Nat
  BY Constants DEF VolumeInv, FilInv, FilType
<1>5. fil.open => fs.mounted /\ fil.modified /\ fil.size <= (count + 1) * Buffer
  <2>1. \A q \in Thread : th[q].pc \notin SavedPlaces
    BY <1>2, <1>3, Both DEF SavedPlaces
  <2>2. fil.open => fs.mounted /\ fil.modified
    BY <2>1 DEF VolumeInv, FilInv
  <2>3. th["storage"].pc = "refused" => (fil.open => fil.size <= (count + 1) * Buffer)
    BY DEF VolumeInv, FilInv
  <2>4. th["storage"].pc = "written" => fil.size + th["storage"].left <= (count + 1) * Buffer
    BY DEF VolumeInv, FilInv
  <2>5. th["storage"].left \in Nat
    BY <1>3 DEF LocalsOK, Locals
  <2>6. QED BY <1>1, <1>4, <2>2, <2>3, <2>4, <2>5, Room
<1>6. LocalsOK(l) /\ ~l.loaded /\ ~l.low /\ l.pc \in {"close", "idle"} /\ (l.pc = "idle" => ~last)
  <2>1. CASE last
    BY <1>3, <2>1 DEF LocalsOK, Locals, StoragePlaces, ClosePlaces, WritePlaces
  <2>2. CASE ~last
    BY <2>2, IdleOK, Both
  <2>3. QED BY <2>1, <2>2
<1> HIDE DEF l
<1>7. /\ l.pc \in StoragePlaces /\ l.pc \notin {"sync", "fsinfo"} /\ l.pc \in FilePlaces
      /\ "idle" \in FilePlaces
  BY <1>6 DEF StoragePlaces, ClosePlaces, FilePlaces
<1>8. data' = [c \in Cluster |-> data'[c]]
  BY <1>1 DEF VolumeInv, CardOK
<1>9. /\ ThreadInv' /\ CardOK' /\ WindowInv'
      /\ th'["storage"] = l /\ \A q \in Thread : q # "storage" => th'[q] = Idle
      /\ \A s \in Sector : Cur(s)' = Cur(s)
  BY <1>1, <1>3, <1>6, <1>7, <1>8, Both, Moved
<1>10. \A q \in Thread : th'[q].pc \in {"close", "idle"} /\ ~th'[q].low
  BY <1>6, <1>9, Both
<1>11. SessionInv'
  <2>1. count' \in 0 .. WriteNum - 1
    BY <1>1, Constants DEF VolumeInv, SessionInv
  <2>2. QED BY <1>1, <1>3, <1>10, <2>1, Both DEF VolumeInv, SessionInv, OpenPlaces
<1>12. FsInv'
  BY <1>1, <1>10, Both DEF VolumeInv, FsInv, OpenPlaces
<1>13. FilInv'
  <2>1. fil' \in FilType /\ fil'.open = fil.open /\ fil'.size = fil.size
          /\ fil'.clust = fil.clust /\ (fil.modified => fil'.modified)
    BY <1>1, <1>4 DEF FilType
  <2>2. \A q \in Thread : th'[q].pc \notin WritePlaces \union {"written", "refused", "save"}
                                              \union SavedPlaces
    BY <1>10 DEF WritePlaces, SavedPlaces
  <2>3. fil.open /\ th'["storage"].pc = "idle" => fil.size <= count' * Buffer
    BY <1>1, <1>5, <1>6, <1>9
  <2>4. fil'.open => /\ fs'.mounted /\ \A p \in Thread : th'[p].pc \in FilePlaces
                     /\ sampling' /\ fil'.modified
    BY <1>1, <1>3, <1>5, <1>7, <1>9, <2>1, Both
  <2>5. fil'.open /\ fil'.size > 0 => fil'.clust \in Cluster
    BY <2>1 DEF VolumeInv, FilInv
  <2>6. QED BY <2>1, <2>2, <2>3, <2>4, <2>5, Both DEF FilInv, WritePlaces
<1>14. CutInv'
  BY <1>10 DEF CutInv
<1>15. QED BY <1>1, <1>9, <1>11, <1>12, <1>13, <1>14 DEF VolumeInv

-----------------------------------------------------------------------------
(* f_close, the free space, and what follows.                               *)
EndPlaces == {"pause", "unmount", "getfree", "scan", "decide"}

LEMMA AtClose ==
  ASSUME VolumeInv, NEW p \in Thread, th[p].pc \in ClosePlaces \union EndPlaces
  PROVE  /\ \A q \in Thread : q # p => th[q] = Idle
         /\ LocalsOK(th[p]) /\ fil \in FilType
         /\ th[p].pc \notin {"save", "scan"} => ~th[p].loaded
         /\ p = "storage" /\ th[p].pc # "unmount" /\ ~th[p].low => sampling
         /\ p = "storage" /\ th[p].low => th[p].pc \in {"close", "unmount"} /\ ~fil.open
         /\ fil.open => fs.mounted /\ th[p].pc \in ClosePlaces
         /\ fil.open /\ th[p].pc \notin SavedPlaces => fil.modified
         /\ th[p].pc \in {"save"} \union SavedPlaces => fil.open
         /\ th[p].pc = "pause" => p = "keys"
         /\ th[p].pc \in {"getfree", "scan", "decide"} => p = "storage"
<1>1. th[p].pc # "idle"
  BY DEF ClosePlaces, EndPlaces, SavedPlaces
<1>2. \A q \in Thread : q # p => th[q] = Idle
  BY <1>1, Alone
<1>3. LocalsOK(th[p]) /\ fil \in FilType
  BY <1>1, Alone DEF VolumeInv, FilInv
<1>4. th[p].pc \notin {"save", "scan"} => ~th[p].loaded
  BY <1>3 DEF LocalsOK, Reading, ClosePlaces, EndPlaces, SavedPlaces
<1>5. p = "storage" /\ th[p].pc # "unmount" /\ ~th[p].low => sampling
  BY <1>1 DEF VolumeInv, SessionInv
<1>6. p = "storage" /\ th[p].low => th[p].pc \in {"close", "unmount"} /\ ~fil.open
  BY DEF VolumeInv, SessionInv
<1>7. fil.open => fs.mounted /\ th[p].pc \in ClosePlaces
  <2>1. fil.open => fs.mounted /\ th[p].pc \in FilePlaces
    BY DEF VolumeInv, FilInv
  <2>2. th[p].pc \in EndPlaces => th[p].pc \notin FilePlaces
    BY DEF EndPlaces, FilePlaces, WritePlaces, ClosePlaces, SavedPlaces
  <2>3. QED BY <2>1, <2>2
<1>8. fil.open /\ th[p].pc \notin SavedPlaces => fil.modified
  <2>1. th[p].pc \notin SavedPlaces => \A q \in Thread : th[q].pc \notin SavedPlaces
    BY <1>2, Both DEF SavedPlaces
  <2>2. QED BY <2>1 DEF VolumeInv, FilInv
<1>9. th[p].pc \in {"save"} \union SavedPlaces => fil.open
  BY DEF VolumeInv, FilInv
<1>10. /\ th[p].pc = "pause" => p = "keys"
       /\ th[p].pc \in {"getfree", "scan", "decide"} => p = "storage"
  BY <1>1, Alone, Both DEF KeysPlaces, StoragePlaces, OpenPlaces, WritePlaces, ClosePlaces, SavedPlaces
<1>11. QED BY <1>2, <1>3, <1>4, <1>5, <1>6, <1>7, <1>8, <1>9, <1>10

(* Where a step of f_close, or one after it, leads keeps the rest.          *)
LEMMA CloseStep ==
  ASSUME VolumeInv, NEW p \in Thread, th[p].pc \in ClosePlaces \union EndPlaces,
         NEW l, l.pc \in ClosePlaces \union EndPlaces, th'[p] = l,
         \A q \in Thread : q # p => th'[q] = Idle,
         number' = number, count' = count, sampling' = sampling,
         kept' \in [File -> NotKept .. MaxSize],
         fs' \in [mounted : BOOLEAN, free : 0 .. Unknown, next : 0 .. Unknown, info : BOOLEAN],
         fs'.mounted = fs.mounted,
         fil' \in FilType, fil'.open => fil.open, fil'.size = fil.size, fil'.clust = fil.clust,
         fil'.open => l.pc \in ClosePlaces,
         fil'.open /\ l.pc \notin SavedPlaces => fil'.modified,
         l.pc \in {"save"} \union SavedPlaces => fil'.open,
         p = "storage" /\ l.low => l.pc \in {"close", "unmount"} /\ ~fil'.open,
         p = "storage" /\ l.pc # "unmount" /\ ~l.low => sampling,
         l.pc \in {"scan", "decide"} => fs.mounted \/ (l.pc = "decide" /\ l.left = 0),
         l.pc = "scan" =>
           l.left <= Cardinality({c \in Cluster : c \div PerSector < l.cl})
  PROVE  SessionInv' /\ FsInv' /\ FilInv' /\ CutInv'
<1>1. \A q \in Thread : q # p => th[q] = Idle
  BY AtClose
<1>2. /\ ClosePlaces \subseteq FilePlaces /\ "idle" \in FilePlaces
      /\ l.pc \notin WritePlaces \union {"written", "refused", "boot", "info", "idle"}
      /\ l.pc \notin OpenPlaces /\ "idle" \notin OpenPlaces /\ "idle" \notin WritePlaces
      /\ "idle" \notin SavedPlaces
  BY DEF FilePlaces, ClosePlaces, EndPlaces, WritePlaces, OpenPlaces, SavedPlaces
<1>3. \A q \in Thread : th'[q] = IF q = p THEN l ELSE Idle
  OBVIOUS
<1>4. SessionInv'
  <2>1. CASE p = "keys"
    BY <1>2, <1>3, <2>1, Both DEF VolumeInv, SessionInv
  <2>2. CASE p = "storage"
    BY <1>2, <1>3, <2>2, Both DEF VolumeInv, SessionInv
  <2>3. QED BY <2>1, <2>2, Both
<1>5. FsInv'
  <2>1. \A q \in Thread : th'[q].pc \in OpenPlaces \union {"scan"} => fs'.mounted
    BY <1>2, <1>3, Both
  <2>2. CASE p = "keys"
    BY <1>2, <1>3, <2>1, <2>2, Both DEF FsInv
  <2>3. CASE p = "storage"
    <3>1. th'["storage"] = l
      BY <2>3
    <3>2. l.pc = "decide" /\ l.left > 0 => fs'.mounted
      OBVIOUS
    <3>3. QED BY <2>1, <3>1, <3>2 DEF FsInv
  <2>4. QED BY <2>2, <2>3, Both
<1>6. FilInv'
  <2>1. fil.open => fs.mounted
    BY DEF VolumeInv, FilInv
  <2>2. fil'.open /\ fil'.size > 0 => fil'.clust \in Cluster
    BY DEF VolumeInv, FilInv
  <2>3. \A q \in Thread : th'[q].pc \notin WritePlaces \union {"written", "refused"}
    BY <1>2, <1>3, Both
  <2>4. \A q \in Thread : th'[q].pc \in {"save"} \union SavedPlaces => fil'.open
    BY <1>2, <1>3, Both
  <2>5. fil'.open => /\ fs'.mounted /\ \A q \in Thread : th'[q].pc \in FilePlaces
                     /\ ~\A q \in Thread : th'[q].pc = "idle"
                     /\ (\A q \in Thread : th'[q].pc \notin SavedPlaces) => fil'.modified
    BY <1>2, <1>3, <2>1, Both
  <2>6. fil'.open /\ th'["storage"].pc = "idle" => fil'.size <= count' * Buffer
    <3>1. CASE p = "storage"
      BY <1>2, <1>3, <3>1
    <3>2. CASE p = "keys"
      <4>1. th["storage"] = Idle
        BY <1>1, <3>2, Both
      <4>2. fil.open => fil.size <= count * Buffer
        BY <4>1, Both DEF VolumeInv, FilInv
      <4>3. QED BY <4>2
    <3>3. QED BY <3>1, <3>2, Both
  <2>7. QED BY <2>2, <2>3, <2>4, <2>5, <2>6, Both DEF FilInv, WritePlaces
<1>7. CutInv'
  BY <1>2, <1>3, Both DEF CutInv, OpenPlaces
<1>8. QED BY <1>4, <1>5, <1>6, <1>7

(* The same of a step that leaves the window alone.                         *)
LEMMA CloseMoved ==
  ASSUME VolumeInv, NEW p \in Thread, th[p].pc \in ClosePlaces \union EndPlaces,
         ~th[p].loaded, NEW l, th' = [th EXCEPT ![p] = l], LocalsOK(l), ~l.loaded,
         l.pc \in ClosePlaces \union EndPlaces, l.pc \notin {"sync", "fsinfo"},
         p = "keys" => l.pc \in KeysPlaces, p = "storage" => l.pc \in StoragePlaces,
         win' = win, disk' = disk, data' = data,
         number' = number, count' = count, sampling' = sampling,
         kept' \in [File -> NotKept .. MaxSize],
         fs' \in [mounted : BOOLEAN, free : 0 .. Unknown, next : 0 .. Unknown, info : BOOLEAN],
         fs'.mounted = fs.mounted,
         fil' \in FilType, fil'.open => fil.open, fil'.size = fil.size, fil'.clust = fil.clust,
         fil'.open => l.pc \in ClosePlaces,
         fil'.open /\ l.pc \notin SavedPlaces => fil'.modified,
         l.pc \in {"save"} \union SavedPlaces => fil'.open,
         p = "storage" /\ l.low => l.pc \in {"close", "unmount"} /\ ~fil'.open,
         p = "storage" /\ l.pc # "unmount" /\ ~l.low => sampling,
         l.pc \in {"scan", "decide"} => fs.mounted \/ (l.pc = "decide" /\ l.left = 0),
         l.pc = "scan" =>
           l.left <= Cardinality({c \in Cluster : c \div PerSector < l.cl})
  PROVE  VolumeInv' /\ disk' = disk /\ \A s \in Sector : Cur(s)' = Cur(s)
<1>1. \A q \in Thread : q # p => th[q] = Idle
  BY AtClose
<1>2. data' = [c \in Cluster |-> data'[c]]
  BY DEF VolumeInv, CardOK
<1>3. /\ ThreadInv' /\ CardOK' /\ WindowInv'
      /\ th'[p] = l /\ \A q \in Thread : q # p => th'[q] = Idle
      /\ \A s \in Sector : Cur(s)' = Cur(s)
  BY <1>1, <1>2, Moved
<1>4. SessionInv' /\ FsInv' /\ FilInv' /\ CutInv'
  BY <1>3, CloseStep
<1>5. QED BY <1>3, <1>4 DEF VolumeInv

LEMMA FsTyped ==
  ASSUME VolumeInv
  PROVE  /\ fs \in [mounted : BOOLEAN, free : 0 .. Unknown, next : 0 .. Unknown, info : BOOLEAN]
         /\ kept \in [File -> NotKept .. MaxSize]
  BY DEF VolumeInv, FsInv, SessionInv

LEMMA AfterCloseIs ==
  ASSUME NEW p \in Thread, NEW failed
  PROVE  /\ p = "keys" => AfterClose(p, failed) \in {"pause", "unmount"}
         /\ p = "storage" /\ th[p].low => AfterClose(p, failed) = "unmount"
         /\ p = "storage" /\ ~th[p].low => AfterClose(p, failed) = "getfree"
<1>1. CASE p = "keys"
  BY <1>1 DEF AfterClose
<1>2. CASE p = "storage"
  BY <1>2 DEF AfterClose
<1>3. QED BY <1>1, <1>2, Both

LEMMA FileCloseStep ==
  ASSUME VolumeInv, NEW p \in Thread, Close(p)
  PROVE  /\ VolumeInv' /\ disk' = disk /\ \A s \in Sector : Cur(s)' = Cur(s)
         /\ \A q \in Thread : th'[q].pc \notin SavedPlaces
<1> DEFINE go == IF ~Valid THEN AfterClose(p, TRUE)
                 ELSE IF fil.modified THEN "save" ELSE "closed"
           l == [th[p] EXCEPT !.pc = go]
<1>1. /\ win' = win /\ fs' = fs /\ fil' = fil /\ disk' = disk /\ data' = data
      /\ number' = number /\ count' = count /\ sampling' = sampling /\ kept' = kept
      /\ th[p].pc = "close" /\ th' = [th EXCEPT ![p] = l]
  BY DEF Close, At, Goto, medium, session
<1>2. th[p].pc \in ClosePlaces \union EndPlaces /\ th[p].pc \notin {"save", "scan"} \union SavedPlaces
  BY <1>1 DEF ClosePlaces, SavedPlaces
<1>3. /\ \A q \in Thread : q # p => th[q] = Idle
      /\ LocalsOK(th[p]) /\ fil \in FilType /\ ~th[p].loaded
      /\ p = "storage" /\ ~th[p].low => sampling
      /\ p = "storage" /\ th[p].low => ~fil.open
      /\ fil.open => fs.mounted /\ fil.modified
  BY <1>1, <1>2, AtClose
<1>4. Valid <=> fil.open
  BY <1>3 DEF Valid
<1>5. /\ go \in {"save", "pause", "unmount", "getfree"} /\ (go = "save" <=> fil.open)
      /\ p = "keys" => go \in {"save", "pause", "unmount"}
      /\ p = "storage" => go \in {"save", "unmount", "getfree"}
      /\ p = "storage" /\ th[p].low => go = "unmount"
  <2>1. CASE fil.open
    BY <1>3, <1>4, <2>1
  <2>2. CASE ~fil.open
    BY <1>4, <2>2, AfterCloseIs, Both
  <2>3. QED BY <2>1, <2>2
<1> HIDE DEF go
<1>6. LocalsOK(l) /\ ~l.loaded /\ l.pc = go /\ l.low = th[p].low
  BY <1>3, <1>5 DEF LocalsOK, Locals, KeysPlaces, StoragePlaces, ClosePlaces, WritePlaces, Reading
<1> HIDE DEF l
<1>7. /\ l.pc \in ClosePlaces \union EndPlaces /\ l.pc \notin SavedPlaces
      /\ l.pc \notin {"sync", "fsinfo", "scan", "decide"}
      /\ p = "keys" => l.pc \in KeysPlaces
      /\ p = "storage" => l.pc \in StoragePlaces
      /\ l.pc = "save" => l.pc \in ClosePlaces
  BY <1>5, <1>6 DEF ClosePlaces, EndPlaces, SavedPlaces, KeysPlaces, StoragePlaces
<1>8. VolumeInv' /\ disk' = disk /\ \A s \in Sector : Cur(s)' = Cur(s)
  BY <1>1, <1>2, <1>3, <1>5, <1>6, <1>7, FsTyped, CloseMoved
<1>9. \A q \in Thread : th'[q].pc \notin SavedPlaces
  BY <1>1, <1>3, <1>7, Both DEF SavedPlaces, VolumeInv, ThreadInv
<1>10. QED BY <1>8, <1>9

LEMMA CloseAgainStep ==
  ASSUME VolumeInv, CloseAgain
  PROVE  VolumeInv' /\ disk' = disk /\ \A s \in Sector : Cur(s)' = Cur(s)
<1> DEFINE l == [th["keys"] EXCEPT !.pc = "close", !.low = TRUE]
<1>1. /\ win' = win /\ fs' = fs /\ fil' = fil /\ disk' = disk /\ data' = data
      /\ number' = number /\ count' = count /\ sampling' = sampling /\ kept' = kept
      /\ th["keys"].pc = "pause" /\ th' = [th EXCEPT !["keys"] = l]
  BY DEF CloseAgain, At, medium, session
<1>2. th["keys"].pc \in ClosePlaces \union EndPlaces /\ th["keys"].pc \notin {"save", "scan"}
        /\ th["keys"].pc \notin ClosePlaces
  BY <1>1 DEF ClosePlaces, EndPlaces, SavedPlaces
<1>3. LocalsOK(th["keys"]) /\ fil \in FilType /\ ~th["keys"].loaded /\ ~fil.open
  BY <1>2, AtClose, Both
<1>4. LocalsOK(l) /\ ~l.loaded /\ l.pc = "close"
  BY <1>3 DEF LocalsOK, Locals, KeysPlaces, ClosePlaces, WritePlaces, Reading
<1> HIDE DEF l
<1>5. l.pc \in ClosePlaces \union EndPlaces /\ l.pc \in KeysPlaces
        /\ l.pc \notin {"save", "scan", "decide", "sync", "fsinfo"} \union SavedPlaces
  BY <1>4 DEF ClosePlaces, KeysPlaces, SavedPlaces
<1>6. QED BY <1>1, <1>2, <1>3, <1>4, <1>5, FsTyped, Both, CloseMoved

(* The entry goes into the window when the FAT is on the card.              *)
LEMMA SaveEntryStep ==
  ASSUME VolumeInv, NEW p \in Thread, SaveEntry(p)
  PROVE  /\ VolumeInv' /\ disk' = disk /\ fil.open /\ fil.name \in File
         /\ win.sect = Dir /\ th[p].pc = "save" /\ \A q \in Thread : q # p => th[q] = Idle
         /\ \A n \in {fil.name}, c \in {fil.sclust}, k \in {fil.size}, s \in Sector :
              Cur(s)' = IF s = Dir
                        THEN [Cur(s) EXCEPT ![Entry(n)] =
                                [used |-> TRUE, clust |-> c, size |-> k]]
                        ELSE Cur(s)
<1> DEFINE l == [th[p] EXCEPT !.pc = "sync"]
           e == [used |-> TRUE, clust |-> fil.sclust, size |-> fil.size]
<1>1. /\ fs' = fs /\ fil' = fil /\ disk' = disk /\ data' = data
      /\ number' = number /\ count' = count /\ sampling' = sampling /\ kept' = kept
      /\ Here(p, "save") /\ Put(Entry(fil.name), e) /\ th' = [th EXCEPT ![p] = l]
  BY DEF SaveEntry, Goto, medium, session
<1>2. th[p].pc = "save" /\ ~th[p].loaded /\ win.sect = Dir
  BY <1>1, HereIs, NeedIs DEF Reading
<1>3. th[p].pc \in ClosePlaces \union EndPlaces
  BY <1>2 DEF ClosePlaces
<1>4. /\ \A q \in Thread : q # p => th[q] = Idle
      /\ LocalsOK(th[p]) /\ fil \in FilType /\ fil.open
      /\ p = "storage" => ~th[p].low /\ sampling
  <2>1. \A q \in Thread : q # p => th[q] = Idle
    BY <1>3, AtClose
  <2>2. LocalsOK(th[p]) /\ fil \in FilType /\ fil.open
    BY <1>2, <1>3, AtClose
  <2>3. p = "storage" => ~th[p].low
    BY <1>2, <1>3, AtClose
  <2>4. p = "storage" => sampling
    BY <1>2, <1>3, <2>3, AtClose
  <2>5. QED BY <2>1, <2>2, <2>3, <2>4
<1>5. fil.name \in File /\ e \in EntryType
  BY <1>4 DEF FilType, EntryType
<1>6. LocalsOK(l) /\ ~l.loaded /\ l.pc = "sync" /\ l.low = th[p].low
  BY <1>2, <1>4 DEF LocalsOK, Locals, KeysPlaces, ClosePlaces, SavedPlaces, WritePlaces, Reading
<1> HIDE DEF l
<1>7. /\ l.pc \in ClosePlaces \union EndPlaces /\ l.pc \in SavedPlaces /\ l.pc \in ClosePlaces
      /\ l.pc \notin {"fsinfo", "scan", "decide"}
      /\ l.pc \in KeysPlaces /\ l.pc \in StoragePlaces
  BY <1>6 DEF ClosePlaces, SavedPlaces, KeysPlaces, StoragePlaces
<1>8. Entry(fil.name) \in Fields(win.sect) /\ "save" \in Reading
  BY <1>2, <1>5, FieldsAre DEF Reading
<1> HIDE DEF e
<1>9. /\ ThreadInv' /\ CardOK' /\ WindowInv'
      /\ th'[p] = l /\ \A q \in Thread : q # p => th'[q] = Idle
      /\ \A s \in Sector :
           Cur(s)' = IF s = win.sect THEN [Cur(s) EXCEPT ![Entry(fil.name)] = e] ELSE Cur(s)
  <2>1. l.pc # "fsinfo" /\ (l.pc = "sync" => win.sect = Dir)
    BY <1>2, <1>6
  <2>2. win.sect = Dir /\ e \in EntryType
    BY <1>2, <1>5
  <2>3. Here(p, "save") /\ Put(Entry(fil.name), e) /\ th' = [th EXCEPT ![p] = l]
          /\ disk' = disk /\ data' = data
    BY <1>1
  <2>4. LocalsOK(l) /\ ~l.loaded
    BY <1>6
  <2>5. QED BY <1>7, <1>8, <2>1, <2>2, <2>3, <2>4, PutStep, ZenonT(60)
<1>10. SessionInv' /\ FsInv' /\ FilInv' /\ CutInv'
  BY <1>1, <1>3, <1>4, <1>6, <1>7, <1>9, FsTyped, CloseStep
<1>11. VolumeInv'
  BY <1>9, <1>10 DEF VolumeInv
<1>12. QED BY <1>1, <1>2, <1>4, <1>5, <1>9, <1>11 DEF e

LEMMA SyncEntryStep ==
  ASSUME VolumeInv, NEW p \in Thread, SyncEntry(p)
  PROVE  /\ VolumeInv' /\ th[p].pc = "sync" /\ th'[p].pc = "fsinfo"
         /\ \A q \in Thread : q # p => th[q] = Idle /\ th'[q] = Idle
         /\ \A s \in Sector : disk'[s] = Cur(s) /\ Cur(s)' = Cur(s)
<1> DEFINE l == [th[p] EXCEPT !.pc = "fsinfo"]
<1>1. /\ fs' = fs /\ fil' = fil /\ data' = data
      /\ number' = number /\ count' = count /\ sampling' = sampling /\ kept' = kept
      /\ th[p].pc = "sync" /\ th' = [th EXCEPT ![p] = l]
      /\ disk' = IF win.dirty THEN [disk EXCEPT ![win.sect] = win.data] ELSE disk
      /\ win' = [win EXCEPT !.dirty = FALSE]
  BY DEF SyncEntry, At, Goto, session
<1>2. th[p].pc \in ClosePlaces \union EndPlaces /\ th[p].pc \in SavedPlaces
        /\ th[p].pc \notin {"save", "scan"}
  BY <1>1 DEF ClosePlaces, SavedPlaces
<1>3. /\ \A q \in Thread : q # p => th[q] = Idle
      /\ LocalsOK(th[p]) /\ fil \in FilType /\ fil.open /\ ~th[p].loaded
  BY <1>2, AtClose
<1>4. p = "storage" => ~th[p].low /\ sampling
  <2>1. p = "storage" => ~th[p].low
    BY <1>1, <1>2, AtClose
  <2>2. QED BY <1>1, <1>2, <2>1, AtClose
<1>5. win.sect = Dir /\ win.dirty
  BY <1>1 DEF VolumeInv, WindowInv
<1>6. Dir \in Sector /\ Dir # NoSector
  BY Names DEF Sector
<1>7. disk' = [s \in Sector |-> Cur(s)]
  BY <1>1, <1>5, <1>6 DEF VolumeInv, CardOK, Cur
<1>8. win' = [sect |-> Dir, data |-> win.data, dirty |-> FALSE]
  BY <1>1, <1>5 DEF VolumeInv, WindowInv
<1>9. \A s \in Sector : disk'[s] = Cur(s) /\ Cur(s)' = Cur(s)
  BY <1>7, <1>8 DEF Cur
<1>10. LocalsOK(l) /\ ~l.loaded /\ l.pc = "fsinfo" /\ l.low = th[p].low
  BY <1>3 DEF LocalsOK, Locals, KeysPlaces, ClosePlaces, SavedPlaces, WritePlaces, Reading
<1> HIDE DEF l
<1>11. /\ l.pc \in ClosePlaces \union EndPlaces /\ l.pc \in SavedPlaces /\ l.pc \in ClosePlaces
       /\ l.pc \notin {"scan", "decide"} /\ l.pc \in KeysPlaces /\ l.pc \in StoragePlaces
  BY <1>10 DEF ClosePlaces, SavedPlaces, KeysPlaces, StoragePlaces
<1>12. ThreadInv' /\ th'[p] = l /\ \A q \in Thread : q # p => th'[q] = Idle
  BY <1>1, <1>3, <1>10, <1>11, Goes
<1>13. CardOK'
  BY <1>1, <1>7, CurOK DEF VolumeInv, CardOK
<1>14. WindowInv'
  <2>1. \A q \in Thread : ~th'[q].loaded /\ th'[q].pc # "sync"
    BY <1>10, <1>12, Both
  <2>2. \A q \in Thread : ~th[q].loaded
    BY <1>3, Both
  <2>3. SectorOK(Dir, win.data)
    BY <1>5, <1>6, <2>2 DEF VolumeInv, WindowInv
  <2>4. disk'[Dir] = win.data
    BY <1>5, <1>6, <1>7 DEF Cur
  <2>5. /\ win'.sect = Dir /\ win'.data = win.data /\ win'.dirty = FALSE
        /\ win' = [sect |-> win'.sect, data |-> win'.data, dirty |-> win'.dirty]
    BY <1>8
  <2>6. QED BY <1>6, <2>1, <2>3, <2>4, <2>5 DEF WindowInv
<1>15. SessionInv' /\ FsInv' /\ FilInv' /\ CutInv'
  BY <1>1, <1>2, <1>3, <1>4, <1>10, <1>11, <1>12, FsTyped, CloseStep
<1>16. QED BY <1>1, <1>3, <1>9, <1>10, <1>12, <1>13, <1>14, <1>15 DEF VolumeInv

(* FSInfo goes through the window, which holds nothing that is not on the   *)
(* card.                                                                   *)
LEMMA SyncInfoStep ==
  ASSUME VolumeInv, NEW p \in Thread, SyncInfo(p)
  PROVE  /\ VolumeInv' /\ th[p].pc = "fsinfo" /\ th'[p].pc = "closed"
         /\ \A q \in Thread : q # p => th[q] = Idle /\ th'[q] = Idle
         /\ \A s \in Sector : s # FSInfo => disk'[s] = disk[s] /\ Cur(s)' = Cur(s)
<1> DEFINE info == [f \in {Free, Next_Free} |-> IF f = Free THEN fs.free ELSE fs.next]
           l == [th[p] EXCEPT !.pc = "closed"]
<1>1. /\ data' = data
      /\ number' = number /\ count' = count /\ sampling' = sampling /\ kept' = kept
      /\ th[p].pc = "fsinfo" /\ th' = [th EXCEPT ![p] = l]
      /\ fil' = [fil EXCEPT !.modified = FALSE]
      /\ \/ /\ win' = [win EXCEPT !.sect = FSInfo, !.data = info]
            /\ disk' = [disk EXCEPT ![FSInfo] = info] /\ fs' = [fs EXCEPT !.info = FALSE]
         \/ win' = win /\ disk' = disk /\ fs' = fs
  BY DEF SyncInfo, At, Goto, session
<1>2. th[p].pc \in ClosePlaces \union EndPlaces /\ th[p].pc \in SavedPlaces
        /\ th[p].pc \notin {"save", "scan"}
  BY <1>1 DEF ClosePlaces, SavedPlaces
<1>3. /\ \A q \in Thread : q # p => th[q] = Idle
      /\ LocalsOK(th[p]) /\ fil \in FilType /\ fil.open /\ ~th[p].loaded
  BY <1>2, AtClose
<1>4. p = "storage" => ~th[p].low /\ sampling
  <2>1. p = "storage" => ~th[p].low
    BY <1>1, <1>2, AtClose
  <2>2. QED BY <1>1, <1>2, <2>1, AtClose
<1>5. ~win.dirty
  BY <1>1 DEF VolumeInv, WindowInv
<1>6. FSInfo \in Sector /\ FSInfo # NoSector
  BY Names DEF Sector
<1>7. LocalsOK(l) /\ ~l.loaded /\ l.pc = "closed" /\ l.low = th[p].low
  BY <1>3 DEF LocalsOK, Locals, KeysPlaces, ClosePlaces, SavedPlaces, WritePlaces, Reading
<1> HIDE DEF l
<1>8. /\ l.pc \in ClosePlaces \union EndPlaces /\ l.pc \in SavedPlaces /\ l.pc \in ClosePlaces
      /\ l.pc \notin {"scan", "decide"} /\ l.pc \in KeysPlaces /\ l.pc \in StoragePlaces
  BY <1>7 DEF ClosePlaces, SavedPlaces, KeysPlaces, StoragePlaces
<1>9. ThreadInv' /\ th'[p] = l /\ \A q \in Thread : q # p => th'[q] = Idle
  BY <1>1, <1>3, <1>7, <1>8, Goes
<1>10. /\ fs' \in [mounted : BOOLEAN, free : 0 .. Unknown, next : 0 .. Unknown, info : BOOLEAN]
       /\ fs'.mounted = fs.mounted
  BY <1>1, FsTyped
<1>11. /\ fil' \in FilType /\ fil'.open /\ fil'.size = fil.size /\ fil'.clust = fil.clust
  BY <1>1, <1>3 DEF FilType
<1>12. SessionInv' /\ FsInv' /\ FilInv' /\ CutInv'
  BY <1>1, <1>2, <1>3, <1>4, <1>7, <1>8, <1>9, <1>10, <1>11, FsTyped, CloseStep
<1>13. \A q \in Thread : /\ ~th[q].loaded /\ ~th'[q].loaded /\ th'[q].pc # "sync"
                         /\ th'[q].pc # "fsinfo"
  BY <1>3, <1>7, <1>9, Both
<1>14. CardOK' /\ WindowInv' /\ \A s \in Sector : s # FSInfo => disk'[s] = disk[s] /\ Cur(s)' = Cur(s)
  <2>1. CASE win' = win /\ disk' = disk /\ fs' = fs
    <3>1. CardOK'
      BY <1>1, <2>1 DEF VolumeInv, CardOK
    <3>2. WindowInv'
      BY <1>13, <2>1 DEF VolumeInv, WindowInv
    <3>3. QED BY <2>1, <3>1, <3>2 DEF Cur
  <2>2. CASE /\ win' = [win EXCEPT !.sect = FSInfo, !.data = info]
             /\ disk' = [disk EXCEPT ![FSInfo] = info] /\ fs' = [fs EXCEPT !.info = FALSE]
    <3>1. info = [f \in Fields(FSInfo) |-> info[f]]
      BY FieldsAre
    <3>2. \A f \in Fields(FSInfo) : info[f] \in 0 .. Unknown
      <4>1. fs.free \in 0 .. Unknown /\ fs.next \in 0 .. Unknown
        BY FsTyped
      <4>2. QED BY <4>1, FieldsAre
    <3> HIDE DEF info
    <3>3. SectorOK(FSInfo, info)
      BY <3>1, <3>2, Names DEF SectorOK
    <3>4. disk' = [s \in Sector |-> IF s = FSInfo THEN info ELSE disk[s]]
      BY <1>6, <2>2 DEF VolumeInv, CardOK
    <3>5. win' = [sect |-> FSInfo, data |-> info, dirty |-> win.dirty]
      BY <2>2 DEF VolumeInv, WindowInv
    <3>6. CardOK'
      BY <1>1, <3>3, <3>4 DEF VolumeInv, CardOK
    <3>7. /\ win'.sect = FSInfo /\ win'.data = info /\ ~win'.dirty /\ win'.dirty = win.dirty
          /\ win' = [sect |-> win'.sect, data |-> win'.data, dirty |-> win'.dirty]
          /\ win.dirty \in BOOLEAN /\ disk'[FSInfo] = info
      BY <1>5, <1>6, <3>4, <3>5 DEF VolumeInv, WindowInv
    <3>8. WindowInv'
      BY <1>6, <1>13, <3>3, <3>7 DEF WindowInv
    <3>9. ASSUME NEW s \in Sector, s # FSInfo PROVE disk'[s] = disk[s] /\ Cur(s)' = Cur(s)
      BY <1>5, <3>4, <3>7, <3>9 DEF Cur
    <3>10. QED BY <3>6, <3>8, <3>9
  <2>3. QED BY <1>1, <2>1, <2>2
<1>15. QED BY <1>1, <1>3, <1>7, <1>9, <1>12, <1>14 DEF VolumeInv

LEMMA ClosedStep ==
  ASSUME VolumeInv, NEW p \in Thread, Closed(p)
  PROVE  /\ VolumeInv' /\ disk' = disk /\ \A s \in Sector : Cur(s)' = Cur(s)
         /\ th[p].pc = "closed" /\ fil.open /\ ~fil'.open
         /\ kept' = [kept EXCEPT ![fil.name] = fil.size] /\ fil.name \in File
         /\ \A q \in Thread : th'[q].pc \notin {"get", "free", "back"} \union SavedPlaces
<1> DEFINE go == AfterClose(p, ~Valid)
           l == [th[p] EXCEPT !.pc = go]
<1>1. /\ win' = win /\ fs' = fs /\ disk' = disk /\ data' = data
      /\ number' = number /\ count' = count /\ sampling' = sampling
      /\ th[p].pc = "closed" /\ th' = [th EXCEPT ![p] = l]
      /\ Valid => /\ fil' = [fil EXCEPT !.open = FALSE]
                  /\ kept' = [kept EXCEPT ![fil.name] = fil.size]
  BY DEF Closed, At, Goto, medium, session
<1>2. th[p].pc \in ClosePlaces \union EndPlaces /\ th[p].pc \in SavedPlaces
        /\ th[p].pc \notin {"save", "scan"}
  BY <1>1 DEF ClosePlaces, SavedPlaces
<1>3. /\ \A q \in Thread : q # p => th[q] = Idle
      /\ LocalsOK(th[p]) /\ fil \in FilType /\ fil.open /\ ~th[p].loaded /\ fs.mounted
  BY <1>2, AtClose
<1>4. p = "storage" => ~th[p].low /\ sampling
  <2>1. p = "storage" => ~th[p].low
    BY <1>1, <1>2, AtClose
  <2>2. QED BY <1>1, <1>2, <2>1, AtClose
<1>5. Valid
  BY <1>3 DEF Valid
<1>6. /\ go \in {"pause", "unmount", "getfree"}
      /\ p = "keys" => go \in {"pause", "unmount"}
      /\ p = "storage" => go = "getfree"
  BY <1>4, AfterCloseIs, Both
<1> HIDE DEF go
<1>7. LocalsOK(l) /\ ~l.loaded /\ l.pc = go /\ l.low = th[p].low
  BY <1>3, <1>6 DEF LocalsOK, Locals, KeysPlaces, StoragePlaces, ClosePlaces, WritePlaces, Reading
<1> HIDE DEF l
<1>8. /\ l.pc \in ClosePlaces \union EndPlaces
      /\ l.pc \notin {"save", "sync", "fsinfo", "scan", "decide", "get", "free", "back"}
           \union SavedPlaces
      /\ p = "keys" => l.pc \in KeysPlaces
      /\ p = "storage" => l.pc \in StoragePlaces
  BY <1>6, <1>7 DEF ClosePlaces, EndPlaces, SavedPlaces, KeysPlaces, StoragePlaces
<1>9. fil' \in FilType /\ ~fil'.open /\ fil'.size = fil.size /\ fil'.clust = fil.clust
        /\ fil.name \in File
  BY <1>1, <1>3, <1>5 DEF FilType
<1>10. kept' = [kept EXCEPT ![fil.name] = fil.size] /\ kept' \in [File -> NotKept .. MaxSize]
  <2>1. fil.size \in NotKept .. MaxSize
    BY <1>3, Constants DEF FilType, NotKept
  <2>2. kept' = [kept EXCEPT ![fil.name] = fil.size]
    BY <1>1, <1>5
  <2>3. QED BY <2>1, <2>2, FsTyped
<1>11. VolumeInv' /\ disk' = disk /\ \A s \in Sector : Cur(s)' = Cur(s)
  BY <1>1, <1>2, <1>3, <1>4, <1>7, <1>8, <1>9, <1>10, FsTyped, CloseMoved
<1>12. th'[p] = l /\ \A q \in Thread : q # p => th'[q] = Idle
  BY <1>1, <1>3 DEF VolumeInv, ThreadInv
<1>13. \A q \in Thread : th'[q].pc \notin {"get", "free", "back"} \union SavedPlaces
  BY <1>8, <1>12, Both DEF SavedPlaces
<1>14. QED BY <1>1, <1>3, <1>9, <1>10, <1>11, <1>13

(* The rest of the session, where no file is open.                          *)
LEMMA ShutStep ==
  ASSUME VolumeInv, fil' \in FilType, ~fil'.open,
         number' \in 0 .. MaxFile + 1, count' \in 0 .. WriteNum - 1,
         sampling' \in BOOLEAN, sampling' => number' <= MaxFile,
         kept' = kept, fs' \in [mounted : BOOLEAN, free : 0 .. Unknown,
                                next : 0 .. Unknown, info : BOOLEAN],
         NEW p \in Thread, NEW l, th'[p] = l, \A q \in Thread : q # p => th'[q] = Idle,
         l.pc \in {"idle", "boot", "find", "scan", "decide", "close"},
         p = "keys" /\ l.pc \in {"boot", "find"} => sampling',
         p = "storage" /\ l.pc \notin {"idle", "close"} => sampling',
         p = "storage" /\ l.pc = "close" /\ ~l.low => sampling',
         p = "storage" /\ l.low => l.pc = "close",
         l.pc \in {"find", "scan"} => fs'.mounted,
         l.pc = "decide" /\ l.left > 0 => fs'.mounted,
         l.pc = "scan" =>
           l.left <= Cardinality({c \in Cluster : c \div PerSector < l.cl})
  PROVE  SessionInv' /\ FsInv' /\ FilInv' /\ CutInv'
<1>1. \A q \in Thread : th'[q] = IF q = p THEN l ELSE Idle
  OBVIOUS
<1>2. /\ l.pc \notin WritePlaces \union SavedPlaces \union {"written", "refused", "save"}
      /\ "idle" \notin WritePlaces \union SavedPlaces \union {"written", "refused", "save"}
      /\ l.pc \in OpenPlaces => l.pc = "find"
      /\ "idle" \notin OpenPlaces
  BY DEF WritePlaces, SavedPlaces, OpenPlaces
<1>3. SessionInv'
  <2>0. kept' \in [File -> NotKept .. MaxSize]
    BY FsTyped
  <2>1. CASE p = "keys"
    BY <1>1, <1>2, <2>0, <2>1, Both DEF SessionInv
  <2>2. CASE p = "storage"
    BY <1>1, <1>2, <2>0, <2>2, Both DEF SessionInv
  <2>3. QED BY <2>1, <2>2, Both
<1>4. FsInv'
  <2>1. \A q \in Thread : th'[q].pc \in OpenPlaces \union {"scan"} => fs'.mounted
    BY <1>1, <1>2, Both
  <2>2. CASE p = "keys"
    BY <1>1, <2>1, <2>2, Both DEF FsInv
  <2>3. CASE p = "storage"
    <3>1. th'["storage"] = l
      BY <2>3
    <3>2. QED BY <2>1, <3>1 DEF FsInv
  <2>4. QED BY <2>2, <2>3, Both
<1>5. FilInv'
  <2>1. \A q \in Thread :
          th'[q].pc \notin WritePlaces \union SavedPlaces \union {"written", "refused", "save"}
    BY <1>1, <1>2, Both
  <2>2. QED BY <2>1, Both DEF FilInv, WritePlaces
<1>6. CutInv'
  BY <1>1, <1>2, Both DEF CutInv, OpenPlaces
<1>7. QED BY <1>3, <1>4, <1>5, <1>6

LEMMA UnmountStep ==
  ASSUME VolumeInv, NEW p \in Thread, Unmount(p)
  PROVE  VolumeInv' /\ disk' = disk /\ \A s \in Sector : Cur(s)' = Cur(s)
<1>1. /\ win' = win /\ fil' = fil /\ disk' = disk /\ data' = data
      /\ number' = number /\ count' = count /\ sampling' = sampling /\ kept' = kept
      /\ th[p].pc = "unmount" /\ th' = [th EXCEPT ![p] = Idle]
      /\ fs' = [fs EXCEPT !.mounted = FALSE]
  BY DEF Unmount, At, Return, medium, session
<1>2. th[p].pc \in ClosePlaces \union EndPlaces /\ th[p].pc \notin {"save", "scan"}
        /\ th[p].pc \notin ClosePlaces
  BY <1>1 DEF ClosePlaces, EndPlaces, SavedPlaces
<1>3. /\ \A q \in Thread : q # p => th[q] = Idle
      /\ ~th[p].loaded /\ fil \in FilType /\ ~fil.open
  BY <1>2, AtClose
<1>4. data' = [c \in Cluster |-> data'[c]]
  BY <1>1 DEF VolumeInv, CardOK
<1>5. Idle.pc \in KeysPlaces /\ Idle.pc \in StoragePlaces
  BY Both DEF KeysPlaces, StoragePlaces
<1>6. /\ ThreadInv' /\ CardOK' /\ WindowInv'
      /\ th'[p] = Idle /\ \A q \in Thread : q # p => th'[q] = Idle
      /\ \A s \in Sector : Cur(s)' = Cur(s)
  BY <1>1, <1>3, <1>4, <1>5, IdleOK, Both, Moved
<1>7. fs' \in [mounted : BOOLEAN, free : 0 .. Unknown, next : 0 .. Unknown, info : BOOLEAN]
  BY <1>1, FsTyped
<1>8. /\ number' \in 0 .. MaxFile + 1 /\ count' \in 0 .. WriteNum - 1
      /\ sampling' \in BOOLEAN /\ (sampling' => number' <= MaxFile)
  BY <1>1 DEF VolumeInv, SessionInv
<1>9. SessionInv' /\ FsInv' /\ FilInv' /\ CutInv'
  BY <1>1, <1>3, <1>6, <1>7, <1>8, Both, ShutStep
<1>10. QED BY <1>1, <1>6, <1>9 DEF VolumeInv

LEMMA GetFreeStep ==
  ASSUME VolumeInv, GetFree
  PROVE  VolumeInv' /\ disk' = disk /\ \A s \in Sector : Cur(s)' = Cur(s)
<1> DEFINE old == th["storage"]
<1>1. /\ win' = win /\ fil' = fil /\ fs' = fs /\ disk' = disk /\ data' = data
      /\ number' = number /\ count' = count /\ sampling' = sampling /\ kept' = kept
      /\ old.pc = "getfree"
  BY DEF GetFree, At, medium, session
<1>2. old.pc \in ClosePlaces \union EndPlaces /\ old.pc \notin {"save", "scan", "close", "unmount"}
        /\ old.pc \notin ClosePlaces
  BY <1>1 DEF ClosePlaces, EndPlaces, SavedPlaces
<1>3. /\ \A q \in Thread : q # "storage" => th[q] = Idle
      /\ ~old.loaded /\ ~old.low /\ fil \in FilType /\ ~fil.open /\ LocalsOK(old) /\ sampling
  BY <1>2, AtClose, Both
<1>4. fs.free \in 0 .. Unknown
  BY FsTyped
<1>5. PICK l : /\ th' = [th EXCEPT !["storage"] = l]
               /\ \/ l = [old EXCEPT !.pc = "decide", !.left = 0]
                  \/ fs.mounted /\ l = [old EXCEPT !.pc = "decide", !.left = fs.free]
                  \/ fs.mounted /\ l = [old EXCEPT !.pc = "scan", !.cl = 0, !.left = 0]
  <2>1. CASE ~fs.mounted /\ Count(0)
    BY <2>1 DEF Count
  <2>2. CASE fs.mounted /\ fs.free <= Last - 1 /\ Count(fs.free)
    BY <2>2 DEF Count
  <2>3. CASE /\ fs.mounted /\ fs.free > Last - 1
             /\ th' = [th EXCEPT !["storage"].pc = "scan", !["storage"].cl = 0,
                                 !["storage"].left = 0]
    BY <2>3
  <2>4. QED BY <2>1, <2>2, <2>3 DEF GetFree
<1>6. 0 \in 0 .. Last \div PerSector
  BY Constants, Quotient
<1>7. /\ LocalsOK(l) /\ ~l.loaded /\ ~l.low /\ l.pc \in {"decide", "scan"}
      /\ l.pc = "decide" /\ l.left > 0 => fs.mounted
      /\ l.pc = "scan" => fs.mounted /\ l.left = 0
  <2>1. ASSUME NEW n \in Nat, l = [old EXCEPT !.pc = "decide", !.left = n]
        PROVE  LocalsOK(l) /\ ~l.loaded /\ ~l.low /\ l.pc = "decide" /\ l.left = n
    BY <1>3, <2>1 DEF LocalsOK, Locals, StoragePlaces, WritePlaces
  <2>2. CASE l = [old EXCEPT !.pc = "decide", !.left = 0]
    <3>1. 0 \in Nat /\ ~(0 > 0)
      OBVIOUS
    <3>2. LocalsOK(l) /\ ~l.loaded /\ ~l.low /\ l.pc = "decide" /\ l.left = 0
      BY <2>1, <2>2, <3>1, Zenon
    <3>3. QED BY <3>1, <3>2
  <2>3. CASE fs.mounted /\ l = [old EXCEPT !.pc = "decide", !.left = fs.free]
    <3>1. fs.free \in Nat
      BY <1>4, Constants
    <3>2. QED BY <2>1, <2>3, <3>1
  <2>4. CASE fs.mounted /\ l = [old EXCEPT !.pc = "scan", !.cl = 0, !.left = 0]
    BY <1>3, <1>6, <2>4 DEF LocalsOK, Locals, StoragePlaces, WritePlaces
  <2>5. QED BY <1>5, <2>2, <2>3, <2>4
<1>8. l.pc \in ClosePlaces \union EndPlaces /\ l.pc \in StoragePlaces
        /\ l.pc \notin {"sync", "fsinfo", "save"} \union SavedPlaces
  BY <1>7 DEF EndPlaces, StoragePlaces, SavedPlaces
<1>9. l.pc = "scan" => l.left <= Cardinality({c \in Cluster : c \div PerSector < l.cl})
  <2>1. {c \in Cluster : c \div PerSector < l.cl} \in SUBSET Cluster
    OBVIOUS
  <2>2. Cardinality({c \in Cluster : c \div PerSector < l.cl}) >= 0
    BY <2>1, Clusters
  <2>3. QED BY <1>7, <2>2
<1>10. kept' \in [File -> NotKept .. MaxSize] /\
       fs' \in [mounted : BOOLEAN, free : 0 .. Unknown, next : 0 .. Unknown, info : BOOLEAN]
  BY <1>1, FsTyped
<1>11. fs'.mounted = fs.mounted /\ (l.pc \in {"scan", "decide"} =>
                                     fs.mounted \/ (l.pc = "decide" /\ l.left = 0))
  <2>1. l.pc = "decide" => fs.mounted \/ l.left = 0
    BY <1>7 DEF LocalsOK, Locals
  <2>2. QED BY <1>1, <1>7, <2>1
<1>12. QED BY <1>1, <1>2, <1>3, <1>5, <1>7, <1>8, <1>9, <1>10, <1>11, Both, CloseMoved, ZenonT(60)

(* The entries of a FAT sector are as many as the clusters it has.          *)
LEMMA Zeros ==
  ASSUME NEW k \in 0 .. Last \div PerSector, NEW d,
         d = [x \in Fields(<<"fat", k>>) |-> d[x]]
  PROVE  LET zeros == Cardinality({x \in DOMAIN d : d[x] = 0})
             S == {c \in Cluster : c \div PerSector < k}
             U == {c \in Cluster : c \div PerSector < k + 1}
         IN /\ zeros \in Nat /\ Cardinality(S) + zeros <= Cardinality(U)
            /\ Cardinality(S) \in Nat /\ Cardinality(U) \in 0 .. Last - 1
<1> DEFINE s == <<"fat", k>>
           Z == {x \in DOMAIN d : d[x] = 0}
           S == {c \in Cluster : c \div PerSector < k}
           T == {c \in Cluster : c \div PerSector = k}
           U == {c \in Cluster : c \div PerSector < k + 1}
           f == [c \in T |-> Link(c)]
<1>1. s \in FatSectors
  BY FatSectorIs
<1>2. Fields(s) = {Link(c) : c \in T}
  <2>1. Fields(s) = {Link(c) : c \in {x \in Cluster : FatOf(x) = s}}
    <3> HIDE DEF s
    <3>1. QED BY <1>1, Names DEF Fields
  <2>2. \A x \in Cluster : FatOf(x) = s <=> x \div PerSector = k
    BY DEF FatOf
  <2>3. QED BY <2>1, <2>2
<1>3. f \in Bijection(T, Fields(s))
  <2>1. f \in [T -> Fields(s)] /\ DOMAIN f = T
    BY <1>2
  <2>2. \A a, b \in T : f[a] = f[b] => a = b
    BY Names
  <2>3. \A x \in Fields(s) : \E c \in T : f[c] = x
    BY <1>2
  <2>4. QED BY <2>1, <2>2, <2>3 DEF Bijection, Injection, Surjection, IsInjective
<1>4. /\ S \in SUBSET Cluster /\ T \in SUBSET Cluster /\ U \in SUBSET Cluster
  OBVIOUS
<1>5. /\ IsFiniteSet(S) /\ Cardinality(S) \in Nat /\ IsFiniteSet(T) /\ Cardinality(T) \in Nat
      /\ Cardinality(U) \in 0 .. Last - 1
  BY <1>4, Clusters, Constants
<1>6. IsFiniteSet(Fields(s)) /\ Cardinality(Fields(s)) = Cardinality(T)
  <2>1. ExistsBijection(T, Fields(s))
    BY <1>3 DEF ExistsBijection
  <2>2. QED BY <1>5, <2>1, FS_Bijection
<1>7. Z \in SUBSET Fields(s)
  OBVIOUS
<1>8. IsFiniteSet(Z) /\ Cardinality(Z) <= Cardinality(T) /\ Cardinality(Z) \in Nat
  BY <1>6, <1>7, FS_Subset, FS_CardinalityType
<1>9. U = S \union T /\ S \intersect T = {}
  <2>1. k \in Nat
    OBVIOUS
  <2>2. ASSUME NEW c \in Cluster PROVE c \div PerSector \in Nat
    <3>1. c \in Nat /\ PerSector \in Nat /\ PerSector > 0
      BY Constants
    <3>2. QED BY <3>1, Quotient
  <2>3. \A c \in Cluster : c \div PerSector < k + 1 <=> c \div PerSector < k \/ c \div PerSector = k
    BY <2>1, <2>2
  <2>4. \A c \in Cluster : ~(c \div PerSector < k /\ c \div PerSector = k)
    BY <2>1
  <2>5. QED BY <2>3, <2>4
<1> HIDE DEF S, T, U, Z, f
<1>10. Cardinality(U) = Cardinality(S) + Cardinality(T)
  <2>1. Cardinality(S \intersect T) = 0
    BY <1>9, FS_EmptySet
  <2>2. Cardinality(S \union T) = Cardinality(S) + Cardinality(T) - Cardinality(S \intersect T)
    BY <1>5, FS_Union
  <2>3. QED BY <1>5, <1>9, <2>1, <2>2
<1>11. Cardinality(Z) \in Nat /\ Cardinality(S) + Cardinality(Z) <= Cardinality(U)
         /\ Cardinality(S) \in Nat /\ Cardinality(U) \in 0 .. Last - 1
  BY <1>5, <1>8, <1>10
<1>12. QED BY <1>11 DEF S, U, Z

LEMMA ScanStep ==
  ASSUME VolumeInv, Scan
  PROVE  VolumeInv' /\ disk' = disk /\ \A s \in Sector : Cur(s)' = Cur(s)
<1> DEFINE old == th["storage"]
           k == old.cl
           total == old.left + Cardinality({x \in DOMAIN win.data : win.data[x] = 0})
<1>1. /\ win' = win /\ fil' = fil /\ disk' = disk /\ data' = data
      /\ number' = number /\ count' = count /\ sampling' = sampling /\ kept' = kept
      /\ Here("storage", "scan")
  BY DEF Scan, medium, session
<1>2. /\ old.pc = "scan" /\ ~old.loaded /\ win.sect = Need("storage")
      /\ SectorOK(win.sect, win.data)
  BY <1>1, HereIs, Both DEF Reading
<1>3. old.pc \in ClosePlaces \union EndPlaces /\ old.pc \notin {"save", "close", "unmount"}
        /\ old.pc \notin ClosePlaces
  BY <1>2 DEF ClosePlaces, EndPlaces, SavedPlaces
<1>4. /\ \A q \in Thread : q # "storage" => th[q] = Idle
      /\ ~old.low /\ fil \in FilType /\ ~fil.open /\ LocalsOK(old) /\ sampling
  BY <1>3, AtClose, Both
<1>5. k \in 0 .. Last \div PerSector /\ win.sect = <<"fat", k>> /\ old.left \in Nat
  BY <1>2, <1>4 DEF LocalsOK, Locals, Need
<1>6. /\ fs.mounted /\ old.left <= Cardinality({c \in Cluster : c \div PerSector < k})
  BY <1>2, Both DEF VolumeInv, FsInv
<1>7. /\ total \in Nat /\ total <= Cardinality({c \in Cluster : c \div PerSector < k + 1})
      /\ total \in 0 .. Unknown
  <2> DEFINE z == Cardinality({x \in DOMAIN win.data : win.data[x] = 0})
             cs == Cardinality({c \in Cluster : c \div PerSector < k})
             cu == Cardinality({c \in Cluster : c \div PerSector < k + 1})
  <2>1. win.data = [x \in Fields(<<"fat", k>>) |-> win.data[x]]
    BY <1>2, <1>5 DEF SectorOK
  <2>2. z \in Nat /\ cs \in Nat /\ cs + z <= cu /\ cu \in 0 .. Last - 1
    BY <1>5, <2>1, Zeros
  <2>3. old.left <= cs /\ total = old.left + z
    BY <1>6
  <2> HIDE DEF z, cs, cu, total
  <2>4. total \in Nat /\ total <= cu /\ total \in 0 .. Unknown
    BY <1>5, <2>2, <2>3, Constants
  <2>5. QED BY <2>4 DEF cu
<1> HIDE DEF total
<1>8. PICK l : /\ th' = [th EXCEPT !["storage"] = l]
               /\ \/ /\ k < Last \div PerSector /\ fs' = fs
                     /\ l = [old EXCEPT !.cl = k + 1, !.left = total]
                  \/ /\ l = [old EXCEPT !.pc = "decide", !.left = total]
                     /\ fs' = [fs EXCEPT !.free = total, !.info = TRUE]
  <2>1. CASE /\ k < Last \div PerSector /\ fs' = fs
             /\ th' = [th EXCEPT !["storage"].cl = k + 1, !["storage"].left = total]
    BY <2>1
  <2>2. CASE Count(total) /\ fs' = [fs EXCEPT !.free = total, !.info = TRUE]
    BY <2>2 DEF Count
  <2>3. QED BY <2>1, <2>2 DEF Scan, total
<1>9. Last \div PerSector \in Nat
  BY Constants, Quotient
<1>10. /\ LocalsOK(l) /\ ~l.loaded /\ ~l.low /\ l.pc \in {"decide", "scan"}
       /\ l.pc = "scan" =>
            l.left <= Cardinality({c \in Cluster : c \div PerSector < l.cl})
  <2>1. CASE k < Last \div PerSector /\ l = [old EXCEPT !.cl = k + 1, !.left = total]
    <3>1. k + 1 \in 0 .. Last \div PerSector /\ k + 1 \in Nat
      BY <1>5, <1>9, <2>1
    <3>2. LocalsOK(l) /\ ~l.loaded /\ ~l.low /\ l.pc = "scan" /\ l.cl = k + 1 /\ l.left = total
      BY <1>2, <1>4, <1>7, <2>1, <3>1 DEF LocalsOK, Locals, WritePlaces
    <3>3. QED BY <1>7, <3>2
  <2>2. CASE l = [old EXCEPT !.pc = "decide", !.left = total]
    BY <1>2, <1>4, <1>7, <2>2 DEF LocalsOK, Locals, StoragePlaces, WritePlaces
  <2>3. QED BY <1>8, <2>1, <2>2
<1>11. l.pc \in ClosePlaces \union EndPlaces /\ l.pc \in StoragePlaces
         /\ l.pc \notin {"sync", "fsinfo", "save"} \union SavedPlaces
  BY <1>10 DEF EndPlaces, StoragePlaces, SavedPlaces
<1>12. /\ kept' \in [File -> NotKept .. MaxSize] /\ fs'.mounted = fs.mounted
       /\ fs' \in [mounted : BOOLEAN, free : 0 .. Unknown, next : 0 .. Unknown, info : BOOLEAN]
  BY <1>1, <1>7, <1>8, FsTyped
<1>13. QED
  BY <1>1, <1>2, <1>3, <1>4, <1>6, <1>8, <1>10, <1>11, <1>12, Both, CloseMoved, ZenonT(60)

LEMMA NextFileStep ==
  ASSUME VolumeInv, NextFile
  PROVE  VolumeInv' /\ disk' = disk /\ \A s \in Sector : Cur(s)' = Cur(s)
<1> DEFINE old == th["storage"]
           l == [Idle EXCEPT !.pc = "find", !.name = number + 1]
<1>1. /\ win' = win /\ fil' = fil /\ fs' = fs /\ disk' = disk /\ data' = data
      /\ number' = number + 1 /\ count' = count /\ sampling' = sampling /\ kept' = kept
      /\ old.pc = "decide" /\ old.left >= MinFree /\ number < MaxFile
      /\ th' = [th EXCEPT !["storage"] = l]
  BY DEF NextFile, At, medium, session
<1>2. old.pc \in ClosePlaces \union EndPlaces /\ old.pc \notin {"save", "scan", "close", "unmount"}
        /\ old.pc \notin ClosePlaces
  BY <1>1 DEF ClosePlaces, EndPlaces, SavedPlaces
<1>3. /\ \A q \in Thread : q # "storage" => th[q] = Idle
      /\ ~old.loaded /\ ~old.low /\ fil \in FilType /\ ~fil.open /\ LocalsOK(old) /\ sampling
  BY <1>2, AtClose, Both
<1>4. fs.mounted
  <2>1. old.left \in Nat
    BY <1>3 DEF LocalsOK, Locals
  <2>2. old.left > 0
    BY <1>1, <2>1, Constants
  <2>3. QED BY <1>1, <2>2 DEF VolumeInv, FsInv
<1>5. /\ number + 1 \in File /\ number' \in 0 .. MaxFile + 1 /\ number' <= MaxFile
      /\ count' \in 0 .. WriteNum - 1 /\ sampling' \in BOOLEAN /\ sampling'
  BY <1>1, <1>3, Constants DEF VolumeInv, SessionInv, File
<1>6. LocalsOK(l) /\ ~l.loaded /\ l.pc = "find" /\ ~l.low
  BY <1>5, IdleOK DEF LocalsOK, Locals, Idle, StoragePlaces, OpenPlaces, WritePlaces
<1> HIDE DEF l
<1>7. l.pc \in StoragePlaces /\ l.pc \notin {"sync", "fsinfo"}
  BY <1>6 DEF StoragePlaces, OpenPlaces
<1>8. data' = [c \in Cluster |-> data'[c]]
  BY <1>1 DEF VolumeInv, CardOK
<1>9. /\ ThreadInv' /\ CardOK' /\ WindowInv'
      /\ th'["storage"] = l /\ \A q \in Thread : q # "storage" => th'[q] = Idle
      /\ \A s \in Sector : Cur(s)' = Cur(s)
  BY <1>1, <1>3, <1>6, <1>7, <1>8, Both, Moved
<1>10. SessionInv' /\ FsInv' /\ FilInv' /\ CutInv'
  <2>1. fs' \in [mounted : BOOLEAN, free : 0 .. Unknown, next : 0 .. Unknown, info : BOOLEAN]
    BY <1>1, FsTyped
  <2>2. fil' \in FilType /\ ~fil'.open /\ fs'.mounted
    BY <1>1, <1>3, <1>4
  <2>3. QED BY <1>1, <1>5, <1>6, <1>9, <2>1, <2>2, Both, ShutStep, ZenonT(60)
<1>11. QED BY <1>1, <1>9, <1>10 DEF VolumeInv

LEMMA LowSpaceStep ==
  ASSUME VolumeInv, LowSpace
  PROVE  VolumeInv' /\ disk' = disk /\ \A s \in Sector : Cur(s)' = Cur(s)
<1> DEFINE old == th["storage"]
           l == [Idle EXCEPT !.pc = "close", !.low = TRUE]
<1>1. /\ win' = win /\ fil' = fil /\ fs' = fs /\ disk' = disk /\ data' = data
      /\ number' = number /\ count' = count /\ sampling' = FALSE /\ kept' = kept
      /\ old.pc = "decide" /\ th' = [th EXCEPT !["storage"] = l]
  BY DEF LowSpace, At, medium
<1>2. old.pc \in ClosePlaces \union EndPlaces /\ old.pc \notin {"save", "scan", "close", "unmount"}
        /\ old.pc \notin ClosePlaces
  BY <1>1 DEF ClosePlaces, EndPlaces, SavedPlaces
<1>3. /\ \A q \in Thread : q # "storage" => th[q] = Idle
      /\ ~old.loaded /\ fil \in FilType /\ ~fil.open
  BY <1>2, AtClose, Both
<1>4. /\ number' \in 0 .. MaxFile + 1 /\ count' \in 0 .. WriteNum - 1
      /\ sampling' \in BOOLEAN /\ ~sampling'
  BY <1>1 DEF VolumeInv, SessionInv
<1>5. LocalsOK(l) /\ ~l.loaded /\ l.pc = "close" /\ l.low
  BY IdleOK DEF LocalsOK, Locals, Idle, StoragePlaces, ClosePlaces, WritePlaces
<1> HIDE DEF l
<1>6. l.pc \in StoragePlaces /\ l.pc \notin {"sync", "fsinfo"}
  BY <1>5 DEF StoragePlaces, ClosePlaces
<1>7. data' = [c \in Cluster |-> data'[c]]
  BY <1>1 DEF VolumeInv, CardOK
<1>8. /\ ThreadInv' /\ CardOK' /\ WindowInv'
      /\ th'["storage"] = l /\ \A q \in Thread : q # "storage" => th'[q] = Idle
      /\ \A s \in Sector : Cur(s)' = Cur(s)
  BY <1>1, <1>3, <1>5, <1>6, <1>7, Both, Moved
<1>9. SessionInv' /\ FsInv' /\ FilInv' /\ CutInv'
  <2>1. fs' \in [mounted : BOOLEAN, free : 0 .. Unknown, next : 0 .. Unknown, info : BOOLEAN]
    BY <1>1, FsTyped
  <2>2. fil' \in FilType /\ ~fil'.open
    BY <1>1, <1>3
  <2>3. QED BY <1>1, <1>4, <1>5, <1>8, <2>1, <2>2, Both, ShutStep, ZenonT(60)
<1>10. QED BY <1>1, <1>8, <1>9 DEF VolumeInv

-----------------------------------------------------------------------------
(* The keys and the reset.                                                  *)
LEMMA BothIdle ==
  ASSUME VolumeInv, Exclusive, KeysMay
  PROVE  /\ \A q \in Thread : th[q] = Idle
         /\ fil \in FilType /\ (fil.open => sampling /\ fs.mounted /\ fil.modified)
         /\ fil.open => fil.size <= count * Buffer
         /\ win.sect # NoSector =>
              SectorOK(win.sect, win.data) /\ (~win.dirty => win.data = disk[win.sect])
<1>1. \A q \in Thread : th[q] = Idle
  BY Both DEF KeysMay, VolumeInv, ThreadInv, LocalsOK
<1>2. "idle" \notin SavedPlaces
  BY DEF SavedPlaces
<1>3. fil \in FilType /\ (fil.open => sampling /\ fs.mounted /\ fil.modified)
  BY <1>1, <1>2, Both DEF VolumeInv, FilInv
<1>4. fil.open => fil.size <= count * Buffer
  BY <1>1, Both DEF VolumeInv, FilInv
<1>5. win.sect # NoSector =>
        SectorOK(win.sect, win.data) /\ (~win.dirty => win.data = disk[win.sect])
  BY <1>1, Both DEF VolumeInv, WindowInv
<1>6. QED BY <1>1, <1>3, <1>4, <1>5

(* f_mount drops what the window holds.                                     *)
LEMMA StartStep ==
  ASSUME VolumeInv, Exclusive, Start
  PROVE  VolumeInv' /\ disk' = disk /\ \A s \in Sector : Cur(s)' = disk[s]
<1> DEFINE l == [th["keys"] EXCEPT !.pc = "boot"]
<1>1. /\ fil' = fil /\ disk' = disk /\ data' = data
      /\ number' = number /\ count' = count /\ sampling' = TRUE /\ kept' = kept
      /\ KeysMay /\ ~sampling /\ number <= MaxFile /\ th' = [th EXCEPT !["keys"] = l]
      /\ fs' = [fs EXCEPT !.mounted = FALSE]
      /\ win' = [win EXCEPT !.sect = NoSector, !.dirty = FALSE]
  BY DEF Start, Mount, Goto, medium
<1>2. /\ \A q \in Thread : th[q] = Idle
      /\ fil \in FilType /\ ~fil.open
  BY <1>1, BothIdle
<1>3. LocalsOK(l) /\ ~l.loaded /\ l.pc = "boot" /\ ~l.low
  BY <1>2, Both, IdleOK DEF LocalsOK, Locals, Idle, KeysPlaces, WritePlaces
<1> HIDE DEF l
<1>4. l.pc \in KeysPlaces
  BY <1>3 DEF KeysPlaces
<1>5. ThreadInv' /\ th'["keys"] = l /\ \A q \in Thread : q # "keys" => th'[q] = Idle
  BY <1>1, <1>2, <1>3, <1>4, Both, Goes
<1>6. win' = [sect |-> NoSector, data |-> win.data, dirty |-> FALSE]
  BY <1>1 DEF VolumeInv, WindowInv
<1>7. \A q \in Thread : ~th'[q].loaded /\ th'[q].pc # "sync" /\ th'[q].pc # "fsinfo"
  BY <1>3, <1>5, Both
<1>8. WindowInv'
  <2>1. /\ win'.sect = NoSector /\ win'.dirty = FALSE
        /\ win' = [sect |-> win'.sect, data |-> win'.data, dirty |-> win'.dirty]
    BY <1>6
  <2>2. QED BY <1>7, <2>1 DEF WindowInv
<1>9. CardOK'
  BY <1>1 DEF VolumeInv, CardOK
<1>10. /\ number' \in 0 .. MaxFile + 1 /\ count' \in 0 .. WriteNum - 1
       /\ sampling' \in BOOLEAN /\ sampling' /\ number' <= MaxFile
       /\ fs' \in [mounted : BOOLEAN, free : 0 .. Unknown, next : 0 .. Unknown, info : BOOLEAN]
  BY <1>1, FsTyped DEF VolumeInv, SessionInv
<1>11. SessionInv' /\ FsInv' /\ FilInv' /\ CutInv'
  BY <1>1, <1>2, <1>3, <1>5, <1>10, Both, ShutStep, ZenonT(60)
<1>12. \A s \in Sector : Cur(s)' = disk[s]
  BY <1>1, <1>6 DEF Cur
<1>13. QED BY <1>1, <1>5, <1>8, <1>9, <1>11, <1>12 DEF VolumeInv

LEMMA StartNoCardStep ==
  ASSUME VolumeInv, Exclusive, StartNoCard
  PROVE  VolumeInv' /\ disk' = disk /\ fil'.open = fil.open /\ \A s \in Sector : Cur(s)' = Cur(s)
<1>1. /\ disk' = disk /\ data' = data /\ win' = win /\ th' = th
      /\ number' = number /\ count' = count /\ sampling' = TRUE /\ kept' = kept
      /\ KeysMay /\ ~sampling /\ number <= MaxFile
      /\ fs' = [fs EXCEPT !.mounted = FALSE] /\ fil' = [fil EXCEPT !.open = FALSE]
  BY DEF StartNoCard, medium
<1>2. /\ \A q \in Thread : th[q] = Idle
      /\ fil \in FilType /\ ~fil.open
  BY <1>1, BothIdle
<1>3. ThreadInv' /\ CardOK' /\ WindowInv'
  <2>1. ThreadInv'
    BY <1>1 DEF VolumeInv, ThreadInv
  <2>2. CardOK'
    BY <1>1 DEF VolumeInv, CardOK
  <2>3. WindowInv'
    BY <1>1, <1>2, Both DEF VolumeInv, WindowInv
  <2>4. QED BY <2>1, <2>2, <2>3
<1>4. /\ number' \in 0 .. MaxFile + 1 /\ count' \in 0 .. WriteNum - 1
      /\ sampling' \in BOOLEAN /\ sampling' /\ number' <= MaxFile
      /\ fs' \in [mounted : BOOLEAN, free : 0 .. Unknown, next : 0 .. Unknown, info : BOOLEAN]
  BY <1>1, FsTyped DEF VolumeInv, SessionInv
<1>5. fil' \in FilType /\ ~fil'.open /\ fil'.open = fil.open
  <2>1. fil.open = FALSE
    BY <1>2 DEF FilType
  <2>2. QED BY <1>1, <1>2, <2>1 DEF FilType
<1>6. th'["keys"] = Idle /\ \A q \in Thread : q # "keys" => th'[q] = Idle
  BY <1>1, <1>2, Both
<1>7. SessionInv' /\ FsInv' /\ FilInv' /\ CutInv'
  BY <1>1, <1>4, <1>5, <1>6, Both, ShutStep, ZenonT(60)
<1>8. \A s \in Sector : Cur(s)' = Cur(s)
  BY <1>1 DEF Cur
<1>9. QED BY <1>1, <1>3, <1>5, <1>7, <1>8 DEF VolumeInv

LEMMA StopStep ==
  ASSUME VolumeInv, Exclusive, Stop
  PROVE  VolumeInv' /\ disk' = disk /\ \A s \in Sector : Cur(s)' = Cur(s)
<1> DEFINE l == [th["keys"] EXCEPT !.pc = "close"]
<1>1. /\ fil' = fil /\ fs' = fs /\ disk' = disk /\ data' = data /\ win' = win
      /\ number' = number + 1 /\ count' = count /\ sampling' = FALSE /\ kept' = kept
      /\ KeysMay /\ sampling /\ th' = [th EXCEPT !["keys"] = l]
  BY DEF Stop, Goto, medium
<1>2. /\ \A q \in Thread : th[q] = Idle
      /\ fil \in FilType /\ (fil.open => sampling /\ fs.mounted /\ fil.modified)
      /\ fil.open => fil.size <= count * Buffer
  BY <1>1, BothIdle
<1>3. LocalsOK(l) /\ ~l.loaded /\ l.pc = "close" /\ ~l.low
  BY <1>2, Both, IdleOK DEF LocalsOK, Locals, Idle, KeysPlaces, ClosePlaces, WritePlaces
<1> HIDE DEF l
<1>4. /\ l.pc \in KeysPlaces /\ l.pc \in FilePlaces /\ "idle" \in FilePlaces
      /\ l.pc \notin OpenPlaces \union SavedPlaces \union {"sync", "fsinfo"}
      /\ "idle" \notin OpenPlaces \union SavedPlaces \union WritePlaces
  BY <1>3 DEF KeysPlaces, ClosePlaces, FilePlaces, OpenPlaces, SavedPlaces, WritePlaces
<1>5. data' = [c \in Cluster |-> data'[c]]
  BY <1>1 DEF VolumeInv, CardOK
<1>6. /\ ThreadInv' /\ CardOK' /\ WindowInv'
      /\ th'["keys"] = l /\ \A q \in Thread : q # "keys" => th'[q] = Idle
      /\ \A s \in Sector : Cur(s)' = Cur(s)
  BY <1>1, <1>2, <1>3, <1>4, <1>5, Both, Moved
<1>7. /\ number' \in 0 .. MaxFile + 1 /\ count' \in 0 .. WriteNum - 1
      /\ sampling' \in BOOLEAN /\ ~sampling'
  <2>1. number \in Nat /\ number <= MaxFile /\ count \in 0 .. WriteNum - 1
    BY <1>1, Constants DEF VolumeInv, SessionInv
  <2>2. number' \in 0 .. MaxFile + 1
    BY <1>1, <2>1, Constants
  <2>3. count' \in 0 .. WriteNum - 1
    BY <1>1, <2>1
  <2>4. sampling' \in BOOLEAN /\ ~sampling'
    BY <1>1
  <2>5. QED BY <2>2, <2>3, <2>4
<1>8. SessionInv'
  BY <1>1, <1>3, <1>4, <1>6, <1>7, FsTyped, Both DEF SessionInv
<1>9. FsInv'
  BY <1>1, <1>3, <1>4, <1>6, FsTyped, Both DEF FsInv
<1>10. FilInv'
  <2>1. fil.open /\ fil.size > 0 => fil.clust \in Cluster
    BY DEF VolumeInv, FilInv
  <2>2. \A q \in Thread : /\ th'[q].pc \in FilePlaces
                          /\ th'[q].pc \notin {"save"} \union SavedPlaces
    BY <1>3, <1>4, <1>6, Both
  <2>3. th'["storage"].pc = "idle" /\ th'["keys"].pc = "close"
    BY <1>3, <1>6, Both
  <2>4. fil.open => fil'.size <= count' * Buffer /\ fs'.mounted /\ fil'.modified
    BY <1>1, <1>2
  <2>5. QED BY <1>1, <1>2, <1>4, <2>1, <2>2, <2>3, <2>4, Both DEF FilInv
<1>11. CutInv'
  BY <1>3, <1>6, Both DEF CutInv
<1>12. QED BY <1>1, <1>6, <1>8, <1>9, <1>10, <1>11 DEF VolumeInv

LEMMA ResetStep ==
  ASSUME VolumeInv, Reset
  PROVE  VolumeInv' /\ disk' = disk /\ \A s \in Sector : Cur(s)' = disk[s]
<1>1. /\ disk' = disk /\ data' = data /\ kept' = kept
      /\ win' = NoWindow /\ fs' = NoFs /\ fil' = NoFile
      /\ th' = [p \in Thread |-> Idle]
      /\ number' = 0 /\ count' = 0 /\ sampling' = FALSE
  BY DEF Reset, medium
<1>2. kept' \in [File -> NotKept .. MaxSize]
  BY <1>1, FsTyped
<1>3. (ThreadInv /\ WindowInv /\ SessionInv /\ FsInv /\ FilInv /\ CutInv)'
  <2>1. FreshState'
    BY <1>1, <1>2 DEF FreshState
  <2>2. QED BY <2>1, Fresh, PTL
<1>4. CardOK'
  BY <1>1 DEF VolumeInv, CardOK
<1>5. \A s \in Sector : Cur(s)' = disk[s]
  BY <1>1 DEF Cur, NoWindow
<1>6. QED BY <1>1, <1>3, <1>4, <1>5 DEF VolumeInv

-----------------------------------------------------------------------------
(* Every step.                                                              *)
LEMMA VolumeStep == VolumeInv /\ Exclusive /\ [Next]_vars => VolumeInv'
<1> SUFFICES ASSUME VolumeInv, Exclusive, [Next]_vars PROVE VolumeInv'
  OBVIOUS
<1>1. CASE Window
  BY <1>1, SyncWindowStep, MoveWindowStep, WindowMovedStep DEF Window
<1>2. CASE Open
  BY <1>2, BootReadStep, MountedStep, FindStep, GetLinkStep, FreeClusterStep, BackToEntryStep
     DEF Open
<1>3. CASE WriteBuffer
  BY <1>3, WriteBeginStep, NewChainStep, FollowStep, SearchStep, MarkStep, LinkClusterStep,
     WriteDataStep, WrittenStep DEF WriteBuffer
<1>4. CASE CloseFile
  <2>1. CASE \E p \in Thread : \/ Close(p) \/ SaveEntry(p) \/ SyncEntry(p)
                               \/ SyncInfo(p) \/ Closed(p) \/ Unmount(p)
    BY <2>1, FileCloseStep, SaveEntryStep, SyncEntryStep, SyncInfoStep, ClosedStep, UnmountStep
  <2>2. CASE CloseAgain \/ GetFree \/ Scan \/ NextFile \/ LowSpace
    BY <2>2, CloseAgainStep, GetFreeStep, ScanStep, NextFileStep, LowSpaceStep
  <2>3. QED BY <1>4, <2>1, <2>2 DEF CloseFile
<1>5. CASE Start \/ StartNoCard \/ Stop \/ Reset
  BY <1>5, StartStep, StartNoCardStep, StopStep, ResetStep
<1>6. CASE UNCHANGED vars
  <2>1. /\ disk' = disk /\ data' = data /\ win' = win /\ fs' = fs /\ fil' = fil /\ th' = th
        /\ number' = number /\ count' = count /\ sampling' = sampling /\ kept' = kept
    BY <1>6 DEF vars, session
  <2>2. CardOK' /\ ThreadInv' /\ WindowInv'
    <3>1. CardOK'
      BY <2>1 DEF VolumeInv, CardOK
    <3>2. ThreadInv'
      BY <2>1 DEF VolumeInv, ThreadInv
    <3>3. Need("keys")' = Need("keys") /\ Need("storage")' = Need("storage")
      BY <2>1 DEF Need
    <3>4. WindowInv'
      BY <2>1, <3>3, Both DEF VolumeInv, WindowInv
    <3>5. QED BY <3>1, <3>2, <3>4
  <2>3. SessionInv' /\ FsInv'
    BY <2>1 DEF VolumeInv, SessionInv, FsInv
  <2>4. FilInv'
    BY <2>1 DEF VolumeInv, FilInv
  <2>5. CutInv'
    <3>1. Cur(Dir)' = Cur(Dir)
      BY <2>1 DEF Cur
    <3>2. QED BY <2>1, <3>1 DEF VolumeInv, CutInv
  <2>6. QED BY <2>2, <2>3, <2>4, <2>5 DEF VolumeInv
<1>7. QED BY <1>1, <1>2, <1>3, <1>4, <1>5, <1>6 DEF Next

LEMMA VolumeTyped == VolumeInv => TypeOK
<1> SUFFICES ASSUME VolumeInv PROVE TypeOK
  OBVIOUS
<1>1. DOMAIN disk = Sector /\ DOMAIN data = Cluster
  BY DEF VolumeInv, CardOK
<1>2. win.sect \in Sector \union {NoSector} /\ (win.dirty => win.sect \in FatSectors \union {Dir})
  BY DEF VolumeInv, WindowInv
<1>3. fs.free \in 0 .. Unknown /\ fs.next \in 0 .. Unknown
  BY FsTyped
<1>4. /\ fil.clust \in Cluster \union {0} /\ fil.sclust \in Cluster \union {0}
      /\ fil.size \in 0 .. WriteNum * Buffer
  BY DEF VolumeInv, FilInv, FilType, MaxSize
<1>5. \A p \in Thread : th[p].loaded => Need(p) # NoSector
  <2>1. ASSUME NEW p \in Thread, th[p].loaded PROVE Need(p) # NoSector
    <3>1. th[p].pc \in Reading
      BY <2>1 DEF VolumeInv, ThreadInv, LocalsOK
    <3>2. QED BY <3>1, NeedIs, Names
  <2>2. QED BY <2>1
<1>6. /\ number \in 0 .. MaxFile + 1 /\ count \in 0 .. WriteNum - 1
      /\ kept \in [File -> NotKept .. WriteNum * Buffer]
  BY DEF VolumeInv, SessionInv, MaxSize
<1>7. QED BY <1>1, <1>2, <1>3, <1>4, <1>5, <1>6 DEF TypeOK

(* When the keys wait for the storage thread, every sector, counter and     *)
(* file object of the volume keeps its type: the window is dirty with a     *)
(* sector of the FAT or the directory only, a window being read has a       *)
(* sector, free_clst stays a count or 0xFFFFFFFF, and no file grows beyond  *)
(* FS_WRITE_NUM buffers (hdas_thread.c, ff.c).                             *)
THEOREM VolumeTypes == ASSUME Exclusive PROVE Spec => []TypeOK
<1>1. Init => VolumeInv
  BY VolumeInit
<1>2. VolumeInv /\ [Next]_vars => VolumeInv'
  BY VolumeStep
<1>3. VolumeInv => TypeOK
  BY VolumeTyped
<1>4. QED BY <1>1, <1>2, <1>3, PTL DEF Spec

-----------------------------------------------------------------------------
(* What FatFs, and what a reader of the card, sees of FAT and directory.    *)
CurFat == [c \in Cluster |-> Cur(FatOf(c))[Link(c)]]
CardFat == [c \in Cluster |-> disk[FatOf(c)][Link(c)]]
CurDir == [n \in File |-> Cur(Dir)[Entry(n)]]
CardDir == [n \in File |-> disk[Dir][Entry(n)]]

LEMMA InSector ==
  /\ Dir \in Sector /\ \A c \in Cluster : FatOf(c) \in Sector /\ FatOf(c) # Dir
  BY FieldsAre, Names DEF Sector

LEMMA ViewTypes ==
  ASSUME VolumeInv
  PROVE  /\ CurFat \in [Cluster -> FatValue] /\ CardFat \in [Cluster -> FatValue]
         /\ CurDir \in [File -> EntryType] /\ CardDir \in [File -> EntryType]
<1>1. \A s \in Sector : SectorOK(s, Cur(s)) /\ SectorOK(s, disk[s])
  BY CurOK DEF VolumeInv, CardOK
<1>2. ASSUME NEW c \in Cluster
      PROVE  Cur(FatOf(c))[Link(c)] \in FatValue /\ disk[FatOf(c)][Link(c)] \in FatValue
  BY <1>1, FieldsAre, InSector DEF SectorOK
<1>3. ASSUME NEW n \in File
      PROVE  Cur(Dir)[Entry(n)] \in EntryType /\ disk[Dir][Entry(n)] \in EntryType
  BY <1>1, FieldsAre, InSector DEF SectorOK
<1>4. QED BY <1>2, <1>3 DEF CurFat, CardFat, CurDir, CardDir

(* The window differs from the card in one sector at most.                  *)
LEMMA OneSector ==
  /\ win.sect = Dir => CurFat = CardFat
  /\ win.sect # Dir => CurDir = CardDir
  BY InSector DEF CurFat, CardFat, CurDir, CardDir, Cur

LEMMA SeesInfo ==
  ASSUME \A s \in Sector : s # FSInfo => disk'[s] = disk[s] /\ Cur(s)' = Cur(s)
  PROVE  CurFat' = CurFat /\ CardFat' = CardFat /\ CurDir' = CurDir /\ CardDir' = CardDir
<1>1. \A c \in Cluster : Cur(FatOf(c))' = Cur(FatOf(c)) /\ disk'[FatOf(c)] = disk[FatOf(c)]
  BY InSector, FieldsAre, Names
<1>2. Cur(Dir)' = Cur(Dir) /\ disk'[Dir] = disk[Dir]
  BY InSector, Names
<1>3. QED BY <1>1, <1>2 DEF CurFat, CardFat, CurDir, CardDir

LEMMA SeesSame ==
  ASSUME disk' = disk, \A s \in Sector : Cur(s)' = Cur(s)
  PROVE  CurFat' = CurFat /\ CardFat' = CardFat /\ CurDir' = CurDir /\ CardDir' = CardDir
  BY SeesInfo

LEMMA SeesSynced ==
  ASSUME \A s \in Sector : disk'[s] = Cur(s) /\ Cur(s)' = Cur(s)
  PROVE  CurFat' = CurFat /\ CardFat' = CurFat /\ CurDir' = CurDir /\ CardDir' = CurDir
<1>1. \A c \in Cluster : Cur(FatOf(c))' = Cur(FatOf(c)) /\ disk'[FatOf(c)] = Cur(FatOf(c))
  BY InSector
<1>2. Cur(Dir)' = Cur(Dir) /\ disk'[Dir] = Cur(Dir)
  BY InSector
<1>3. QED BY <1>1, <1>2 DEF CurFat, CardFat, CurDir, CardDir

LEMMA SeesCard ==
  ASSUME disk' = disk, \A s \in Sector : Cur(s)' = disk[s]
  PROVE  CurFat' = CardFat /\ CardFat' = CardFat /\ CurDir' = CardDir /\ CardDir' = CardDir
<1>1. \A c \in Cluster : Cur(FatOf(c))' = disk[FatOf(c)]
  BY InSector
<1>2. Cur(Dir)' = disk[Dir]
  BY InSector
<1>3. QED BY <1>1, <1>2 DEF CurFat, CardFat, CurDir, CardDir

LEMMA SeesLink ==
  ASSUME VolumeInv, disk' = disk, NEW c \in Cluster, NEW v,
         \A s \in Sector : Cur(s)' = IF s = FatOf(c) THEN [Cur(s) EXCEPT ![Link(c)] = v] ELSE Cur(s)
  PROVE  /\ CurFat' = [CurFat EXCEPT ![c] = v]
         /\ CardFat' = CardFat /\ CurDir' = CurDir /\ CardDir' = CardDir
<1>1. ASSUME NEW d \in Cluster
      PROVE  Cur(FatOf(d))'[Link(d)] = IF d = c THEN v ELSE Cur(FatOf(d))[Link(d)]
  <2>1. Cur(FatOf(d))' = IF FatOf(d) = FatOf(c) THEN [Cur(FatOf(d)) EXCEPT ![Link(c)] = v]
                                                ELSE Cur(FatOf(d))
    BY InSector
  <2>2. Link(d) = Link(c) => d = c
    BY Names
  <2>3. Link(d) \in DOMAIN Cur(FatOf(d))
    <3>1. SectorOK(FatOf(d), Cur(FatOf(d)))
      BY InSector, CurOK
    <3>2. QED BY <3>1, FieldsAre DEF SectorOK
  <2>4. QED BY <2>1, <2>2, <2>3
<1>2. Cur(Dir)' = Cur(Dir)
  BY InSector
<1>3. CurFat' = [CurFat EXCEPT ![c] = v]
  BY <1>1 DEF CurFat
<1>4. QED BY <1>2, <1>3 DEF CardFat, CurDir, CardDir

LEMMA SeesEntry ==
  ASSUME VolumeInv, disk' = disk, NEW n \in File, NEW e,
         \A s \in Sector : Cur(s)' = IF s = Dir THEN [Cur(s) EXCEPT ![Entry(n)] = e] ELSE Cur(s)
  PROVE  /\ CurDir' = [CurDir EXCEPT ![n] = e]
         /\ CurFat' = CurFat /\ CardFat' = CardFat /\ CardDir' = CardDir
<1>1. ASSUME NEW m \in File
      PROVE  Cur(Dir)'[Entry(m)] = IF m = n THEN e ELSE Cur(Dir)[Entry(m)]
  <2>1. Cur(Dir)' = [Cur(Dir) EXCEPT ![Entry(n)] = e]
    BY InSector
  <2>2. Entry(m) = Entry(n) => m = n
    BY Names
  <2>3. Entry(m) \in DOMAIN Cur(Dir)
    <3>1. SectorOK(Dir, Cur(Dir))
      BY InSector, CurOK
    <3>2. QED BY <3>1, FieldsAre DEF SectorOK
  <2>4. QED BY <2>1, <2>2, <2>3
<1>2. \A c \in Cluster : Cur(FatOf(c))' = Cur(FatOf(c))
  BY InSector
<1>3. CurDir' = [CurDir EXCEPT ![n] = e]
  BY <1>1 DEF CurDir
<1>4. QED BY <1>2, <1>3 DEF CurFat, CardFat, CardDir

-----------------------------------------------------------------------------
(* The clusters of the files.  own says whose cluster it is, pos which of   *)
(* the file's it is, counted from 0; a cluster of a chain that nothing on   *)
(* the card or in the window leads to is nobody's.                          *)
Nobody == -1
Owners == [Cluster -> File \union {Nobody}]
Positions == [Cluster -> Nat]

Live(n) == CardDir[n].clust # 0 \/ CurDir[n].clust # 0

LinkOK(own, pos, c, v) ==
  \/ v \in Cluster /\ own[v] = own[c] /\ pos[v] = pos[c] + 1
  \/ v = EOC /\ \A d \in Cluster : own[d] = own[c] => pos[d] <= pos[c]

(* The clusters of file n hold the first size sectors written to it.        *)
Holds(own, pos, n, size) ==
  \A c \in Cluster : own[c] = n =>
     \A j \in 0 .. ClusterSize - 1 :
        pos[c] * ClusterSize + j < size => data[c][j] = <<n, pos[c] * ClusterSize + j>>

EntryOK(own, pos, n, e) ==
  /\ e.clust = 0 => e.size = 0
  /\ e.clust # 0 =>
       /\ own[e.clust] = n /\ pos[e.clust] = 0
       /\ \E c \in Cluster : own[c] = n /\ e.size <= (pos[c] + 1) * ClusterSize
       /\ Holds(own, pos, n, e.size)

Shared(own, pos) ==
  \A c, d \in Cluster : own[c] # Nobody /\ own[c] = own[d] /\ pos[c] = pos[d] => c = d
TakenInv(own) ==
  \A c \in Taken : own[c] = Nobody /\ CardFat[c] # 0 /\ CurFat[c] # 0
Linked(own, pos) ==
  \A c \in Cluster : own[c] # Nobody =>
     LinkOK(own, pos, c, CurFat[c]) /\ (Live(own[c]) => LinkOK(own, pos, c, CardFat[c]))
Entries(own, pos) ==
  \A n \in File : EntryOK(own, pos, n, CardDir[n]) /\ EntryOK(own, pos, n, CurDir[n])

(* A chain that is being given back is freed from its head: what is left of *)
(* it starts at cl.                                                        *)
Removal(own, pos) ==
  \A p \in Thread :
     /\ th[p].pc \in {"get", "free"} =>
          /\ own[th[p].cl] = th[p].name
          /\ \A c \in Cluster : own[c] = th[p].name => pos[c] >= pos[th[p].cl]
     /\ th[p].pc = "free" => th[p].left = CurFat[th[p].cl]
     /\ th[p].pc \in {"free", "back"} => CardDir[th[p].name].clust = 0
     /\ th[p].pc = "mark" => CurFat[th[p].cl] = 0
     /\ th[p].pc = "link" => /\ own[th[p].cl] = Nobody /\ th[p].cl \notin Taken
                             /\ CurFat[th[p].cl] = EOC

(* The file that is being written ends in fil.clust, which holds its last   *)
(* sector or, before f_write fills it, its next one.                        *)
AtEnd(own, pos) ==
  /\ own[fil.sclust] = fil.name /\ pos[fil.sclust] = 0
  /\ fil.clust \in Cluster /\ own[fil.clust] = fil.name /\ CurFat[fil.clust] = EOC
  /\ Holds(own, pos, fil.name, fil.size)
  /\ th["storage"].pc = "data" =>
       /\ pos[fil.clust] * ClusterSize <= fil.size
       /\ fil.size < (pos[fil.clust] + 1) * ClusterSize
  /\ th["storage"].pc # "data" =>
       /\ pos[fil.clust] * ClusterSize < fil.size
       /\ fil.size <= (pos[fil.clust] + 1) * ClusterSize
Extending == {"new", "follow", "search", "mark", "link"}
Growing(own, pos) ==
  (fil.open /\ \A p \in Thread : th[p].pc \notin SavedPlaces) =>
     /\ ~Live(fil.name)
     /\ fil.sclust = 0 => fil.clust = 0 /\ fil.size = 0 /\ \A c \in Cluster : own[c] # fil.name
     /\ fil.sclust # 0 => AtEnd(own, pos)
     /\ th["storage"].pc \in Extending => fil.size % ClusterSize = 0

(* The card and the window may disagree on where a file starts only while   *)
(* it is being cut or saved.                                               *)
Agree ==
  \A n \in File : CurDir[n].clust # CardDir[n].clust =>
     \E p \in Thread : \/ th[p].pc = "get" /\ th[p].name = n
                       \/ th[p].pc = "sync" /\ fil.name = n
FilEntry == [used |-> TRUE, clust |-> fil.sclust, size |-> fil.size]
Saved ==
  /\ \A n \in File : kept[n] # NotKept =>
        /\ CardDir[n].size = kept[n] /\ CurDir[n].size = kept[n]
        /\ fil.open => fil.name # n
        /\ \A p \in Thread : th[p].pc \in {"get", "free", "back"} => th[p].name # n
  /\ \A p \in Thread : th[p].pc \in SavedPlaces => CurDir[fil.name] = FilEntry
  /\ \A p \in Thread : th[p].pc \in {"fsinfo", "closed"} => CardDir[fil.name] = FilEntry

Core(own, pos) ==
  Shared(own, pos) /\ TakenInv(own) /\ Linked(own, pos) /\ Entries(own, pos)
Places(own, pos) == Removal(own, pos) /\ Growing(own, pos)
ChainInv ==
  /\ Agree /\ Saved
  /\ \E own \in Owners, pos \in Positions : Core(own, pos) /\ Places(own, pos)

LEMMA CoreSame ==
  ASSUME NEW own, NEW pos, Core(own, pos), data' = data,
         CurFat' = CurFat, CardFat' = CardFat, CurDir' = CurDir, CardDir' = CardDir
  PROVE  Core(own, pos)'
<1>1. \A n : Live(n)' <=> Live(n)
  BY DEF Live
<1>2. \A n, k : Holds(own, pos, n, k)' <=> Holds(own, pos, n, k)
  BY DEF Holds
<1>3. \A n, e : EntryOK(own, pos, n, e)' <=> EntryOK(own, pos, n, e)
  BY <1>2 DEF EntryOK
<1>4. Entries(own, pos)'
  BY <1>3 DEF Core, Entries
<1>5. Linked(own, pos)'
  BY <1>1 DEF Core, Linked, LinkOK
<1>6. TakenInv(own)' /\ Shared(own, pos)'
  BY DEF Core, TakenInv, Shared
<1>7. QED BY <1>4, <1>5, <1>6 DEF Core

(* A step that touches neither FAT nor directory nor data.                  *)
LEMMA Quiet ==
  ASSUME Agree, Saved, NEW own \in Owners, NEW pos \in Positions,
         Core(own, pos), Places(own, pos),
         data' = data, kept' = kept,
         CurFat' = CurFat, CardFat' = CardFat, CurDir' = CurDir, CardDir' = CardDir,
         NEW p \in Thread, NEW l, th'[p] = l, 
         \A q \in Thread : q # p => th[q] = Idle /\ th'[q] = Idle,
         th[p].pc \notin {"get", "sync", "data"},
         l.pc \notin {"get", "free", "back", "link"} \union SavedPlaces,
         p = "keys" => l.pc # "data",
         p = "keys" => l.pc \notin Extending,
         l.pc = "mark" => CurFat[l.cl] = 0,
         fil'.open => /\ fil.open /\ fil'.name = fil.name /\ fil'.sclust = fil.sclust
                      /\ fil'.clust = fil.clust /\ fil'.size = fil.size
                      /\ th[p].pc \notin SavedPlaces
                      /\ l.pc \in Extending => fil.size % ClusterSize = 0
                      /\ l.pc = "data" => fil.size % ClusterSize # 0 /\ fil.size \in Nat
  PROVE  ChainInv'
<1>1. \A q \in Thread : th'[q] = IF q = p THEN l ELSE Idle
  OBVIOUS
<1>2. "idle" \notin SavedPlaces /\ "idle" \notin Extending
  BY DEF SavedPlaces, Extending
<1>3. Core(own, pos)'
  BY CoreSame
<1>4. Removal(own, pos)'
  BY <1>1, Both DEF Removal
<1>5. Growing(own, pos)'
  <2> SUFFICES ASSUME fil'.open
               PROVE  /\ ~Live(fil.name)'
                      /\ fil'.sclust = 0 => /\ fil'.clust = 0 /\ fil'.size = 0
                                            /\ \A c \in Cluster : own[c] # fil'.name
                      /\ fil'.sclust # 0 => AtEnd(own, pos)'
                      /\ th'["storage"].pc \in Extending => fil'.size % ClusterSize = 0
    BY DEF Growing, Live
  <2>1. \A q \in Thread : th[q].pc \notin SavedPlaces
    BY <1>2, Both
  <2>2. /\ ~Live(fil.name)
        /\ fil.sclust = 0 => fil.clust = 0 /\ fil.size = 0 /\ \A c \in Cluster : own[c] # fil.name
        /\ fil.sclust # 0 => AtEnd(own, pos)
    BY <2>1 DEF Places, Growing
  <2>3. th'["storage"].pc \in Extending => fil'.size % ClusterSize = 0
    <3>1. CASE p = "storage"
      BY <3>1, <1>1
    <3>2. CASE p = "keys"
      BY <1>1, <1>2, <3>2, Both
    <3>3. QED BY <3>1, <3>2, Both
  <2>4. ASSUME fil'.sclust # 0 PROVE AtEnd(own, pos)'
    <3>1. AtEnd(own, pos)
      BY <2>2, <2>4
    <3>2. th["storage"].pc # "data"
      BY Both
    <3>3. /\ pos[fil.clust] * ClusterSize < fil.size /\ fil.clust \in Cluster
          /\ fil.size <= (pos[fil.clust] + 1) * ClusterSize
      BY <3>1, <3>2 DEF AtEnd
    <3>4. th'["storage"].pc = "data" => /\ pos[fil.clust] * ClusterSize <= fil.size
                                        /\ fil.size < (pos[fil.clust] + 1) * ClusterSize
      <4>1. ASSUME th'["storage"].pc = "data" PROVE fil.size % ClusterSize # 0 /\ fil.size \in Nat
        BY <1>1, <4>1, Both
      <4> DEFINE k == pos[fil.clust]
      <4>2. k \in Nat
        BY <3>3 DEF Positions
      <4> HIDE DEF k
      <4>3. ASSUME fil.size \in Nat, fil.size % ClusterSize # 0 PROVE fil.size # (k + 1) * ClusterSize
        BY <4>2, <4>3, Constants
      <4>4. k * ClusterSize \in Nat /\ (k + 1) * ClusterSize \in Nat
        BY <4>2, Constants
      <4>5. ASSUME fil.size \in Nat, fil.size % ClusterSize # 0,
                   k * ClusterSize < fil.size, fil.size <= (k + 1) * ClusterSize
            PROVE  k * ClusterSize <= fil.size /\ fil.size < (k + 1) * ClusterSize
        BY <4>3, <4>4, <4>5
      <4>6. QED BY <3>3, <4>1, <4>5 DEF k
    <3>5. Holds(own, pos, fil.name, fil.size)' <=> Holds(own, pos, fil.name, fil.size)
      BY DEF Holds
    <3>6. QED BY <3>1, <3>3, <3>4, <3>5 DEF AtEnd, Holds
  <2>5. QED BY <2>2, <2>3, <2>4 DEF Live
<1>6. Agree'
  <2>1. \A n \in File : CurDir[n].clust = CardDir[n].clust
    BY Both DEF Agree
  <2>2. QED BY <2>1 DEF Agree
<1>7. Saved'
  BY <1>1, <1>2, Both DEF Saved, SavedPlaces
<1>8. QED BY <1>3, <1>4, <1>5, <1>6, <1>7 DEF ChainInv, Places

(* A step that does not change where the threads are, nor what they see.    *)
LEMMA SamePlaces ==
  ASSUME Agree, Saved, NEW own \in Owners, NEW pos \in Positions,
         Core(own, pos), Places(own, pos),
         data' = data, kept' = kept, fil' = fil,
         CurFat' = CurFat, CardFat' = CardFat, CurDir' = CurDir, CardDir' = CardDir,
         \A q \in Thread : /\ th'[q].pc = th[q].pc /\ th'[q].cl = th[q].cl
                           /\ th'[q].name = th[q].name /\ th'[q].left = th[q].left
  PROVE  ChainInv'
<1>1. Core(own, pos)'
  BY CoreSame
<1>2. Removal(own, pos)'
  BY DEF Places, Removal
<1>3. Growing(own, pos)'
  <2>1. AtEnd(own, pos) => AtEnd(own, pos)'
    BY Both DEF AtEnd, Holds
  <2>2. QED BY <2>1, Both DEF Places, Growing, Live
<1>4. Agree' /\ Saved'
  <2>1. FilEntry' = FilEntry
    BY DEF FilEntry
  <2>2. Agree'
    BY DEF Agree
  <2>3. Saved'
    BY <2>1 DEF Saved
  <2>4. QED BY <2>2, <2>3
<1>5. QED BY <1>1, <1>2, <1>3, <1>4 DEF ChainInv, Places

-----------------------------------------------------------------------------
(* f_open cuts a file.                                                      *)

(* Nothing leads to the clusters of file n any more.                        *)
LEMMA Dropped ==
  ASSUME NEW own \in Owners, NEW pos \in Positions, Core(own, pos),
         NEW n \in File, NEW new,
         new = [c \in Cluster |-> IF own[c] = n THEN Nobody ELSE own[c]],
         CardDir[n].clust = 0, data' = data,
         CurFat' = CurFat, CardFat' = CardFat, CardDir' = CardDir,
         \A m \in File : m # n => CurDir'[m] = CurDir[m],
         CurDir'[n].clust = 0, CurDir'[n].size = 0,
         CardDir \in [File -> EntryType], CurDir \in [File -> EntryType]
  PROVE  /\ new \in Owners /\ Core(new, pos)' /\ \A c \in Cluster : new[c] # n
<1>1. n # Nobody /\ (\A m \in File : m # Nobody) /\ \A c \in Cluster : own[c] # Nobody => own[c] \in File
  BY DEF Nobody, File, Owners
<1>2. /\ new \in Owners /\ \A c \in Cluster : new[c] # n
      /\ \A c \in Cluster : new[c] # Nobody => new[c] = own[c] /\ own[c] # n /\ own[c] \in File
      /\ \A c \in Cluster : own[c] # n => new[c] = own[c]
  BY <1>1 DEF Owners
<1> HIDE DEF Nobody
<1>3. Shared(new, pos)'
  BY <1>2 DEF Core, Shared
<1>4. TakenInv(new)'
  BY <1>2, VolumeAssumption DEF Core, TakenInv, Cluster
<1>5. \A m \in File : m # n => (Live(m)' <=> Live(m))
  BY DEF Live
<1>6. ASSUME NEW c \in Cluster, NEW v, new[c] # Nobody, LinkOK(own, pos, c, v)
      PROVE  LinkOK(new, pos, c, v)
  BY <1>2, <1>6 DEF LinkOK
<1>7. Linked(new, pos)'
  <2>1. ASSUME NEW c \in Cluster, new[c] # Nobody
        PROVE  LinkOK(new, pos, c, CurFat[c]) /\ (Live(new[c])' => LinkOK(new, pos, c, CardFat[c]))
    <3>1. own[c] # Nobody /\ new[c] = own[c] /\ own[c] # n /\ own[c] \in File
      BY <1>2, <2>1
    <3>2. LinkOK(own, pos, c, CurFat[c]) /\ (Live(own[c]) => LinkOK(own, pos, c, CardFat[c]))
      BY <3>1 DEF Core, Linked
    <3>3. Live(new[c])' => Live(own[c])
      BY <3>1, <1>5
    <3>4. QED BY <2>1, <3>2, <3>3, <1>6
  <2>2. QED BY <2>1 DEF Linked, LinkOK
<1>8. ASSUME NEW m \in File, m # n, NEW e, EntryOK(own, pos, m, e), e.clust \in Cluster \union {0}
      PROVE  EntryOK(new, pos, m, e)
  <2>1. \A k : Holds(own, pos, m, k) => Holds(new, pos, m, k)
    <3>1. \A c \in Cluster : new[c] = m => own[c] = m
      BY <1>1, <1>2, <1>8
    <3>2. QED BY <3>1 DEF Holds
  <2>2. \A c \in Cluster : own[c] = m => new[c] = m
    BY <1>2, <1>8
  <2>3. QED BY <1>8, <2>1, <2>2 DEF EntryOK
<1>9. Entries(new, pos)'
  <2>1. \A m, k : Holds(new, pos, m, k)' <=> Holds(new, pos, m, k)
    BY DEF Holds
  <2>2. \A m, e : EntryOK(new, pos, m, e)' <=> EntryOK(new, pos, m, e)
    BY <2>1 DEF EntryOK
  <2>3. \A m, e : e.clust = 0 /\ e.size = 0 => EntryOK(new, pos, m, e)
    BY DEF EntryOK
  <2>4. CardDir[n].size = 0
    BY DEF Core, Entries, EntryOK
  <2>5. ASSUME NEW m \in File
        PROVE  EntryOK(new, pos, m, CardDir[m]) /\ EntryOK(new, pos, m, CurDir'[m])
    <3>1. CASE m = n
      BY <2>3, <2>4, <3>1
    <3>2. CASE m # n
      <4>1. CurDir'[m] = CurDir[m]
        BY <3>2
      <4>2. CardDir[m].clust \in Cluster \union {0} /\ CurDir[m].clust \in Cluster \union {0}
        BY DEF EntryType
      <4>3. EntryOK(own, pos, m, CardDir[m]) /\ EntryOK(own, pos, m, CurDir[m])
        BY DEF Core, Entries
      <4>4. QED BY <1>8, <3>2, <4>1, <4>2, <4>3
    <3>3. QED BY <3>1, <3>2
  <2>6. QED BY <2>2, <2>5 DEF Entries
<1>10. QED BY <1>2, <1>3, <1>4, <1>7, <1>9 DEF Core

(* After f_open the file is open and empty.                                 *)
LEMMA OpenedChain ==
  ASSUME Agree, Saved, NEW own \in Owners, NEW pos \in Positions, Core(own, pos),
         NEW n \in File, CardDir[n].clust = 0, data' = data,
         CurFat' = CurFat, CardFat' = CardFat, CardDir' = CardDir,
         \A m \in File : m # n => CurDir'[m] = CurDir[m],
         CurDir'[n].clust = 0, CurDir'[n].size = 0,
         CardDir \in [File -> EntryType], CurDir \in [File -> EntryType],
         \A q \in Thread : th[q].pc \notin {"get", "sync"} /\ th'[q] = Idle,
         fil'.open, fil'.name = n, fil'.sclust = 0, fil'.clust = 0, fil'.size = 0,
         kept'[n] = NotKept, \A m \in File : m # n => kept'[m] = kept[m]
  PROVE  ChainInv'
<1> DEFINE new == [c \in Cluster |-> IF own[c] = n THEN Nobody ELSE own[c]]
<1>1. /\ new \in Owners /\ Core(new, pos)' /\ \A c \in Cluster : new[c] # n
  BY Dropped
<1> HIDE DEF new
<1>2. \A q \in Thread : th'[q].pc = "idle"
  BY Both
<1>3. "idle" \notin SavedPlaces /\ "idle" \notin Extending
  BY DEF SavedPlaces, Extending
<1>4. Removal(new, pos)'
  BY <1>2 DEF Removal
<1>5. Growing(new, pos)'
  <2>1. ~Live(n)'
    BY DEF Live
  <2>2. Live(fil.name)' <=> Live(n)'
    BY DEF Live
  <2>3. QED BY <1>1, <1>2, <1>3, <2>1, <2>2, Both DEF Growing
<1>6. Agree'
  <2>1. \A m \in File : CurDir[m].clust = CardDir[m].clust
    BY DEF Agree
  <2>2. QED BY <2>1 DEF Agree
<1>7. Saved'
  BY <1>2, <1>3 DEF Saved, SavedPlaces
<1>8. QED BY <1>1, <1>4, <1>5, <1>6, <1>7 DEF ChainInv, Places

-----------------------------------------------------------------------------
(* The steps of the window.                                                 *)

(* When the card has caught up with the window, so has what leads to files. *)
LEMMA CoreSynced ==
  ASSUME NEW own, NEW pos, Core(own, pos), data' = data,
         CurFat' = CurFat, CardFat' = CurFat, CurDir' = CurDir, CardDir' = CurDir
  PROVE  Core(own, pos)'
<1>1. \A n, k : Holds(own, pos, n, k)' <=> Holds(own, pos, n, k)
  BY DEF Holds
<1>2. \A n, e : EntryOK(own, pos, n, e)' <=> EntryOK(own, pos, n, e)
  BY <1>1 DEF EntryOK
<1>3. Entries(own, pos)'
  BY <1>2 DEF Core, Entries
<1>4. Linked(own, pos)'
  BY DEF Core, Linked, LinkOK
<1>5. TakenInv(own)' /\ Shared(own, pos)'
  BY DEF Core, TakenInv, Shared
<1>6. QED BY <1>3, <1>4, <1>5 DEF Core

LEMMA SyncWindowChain ==
  ASSUME VolumeInv, ChainInv, NEW p \in Thread, SyncWindow(p)
  PROVE  ChainInv'
<1>1. PICK own \in Owners, pos \in Positions : Core(own, pos) /\ Places(own, pos)
  BY DEF ChainInv
<1>2. /\ CurFat' = CurFat /\ CardFat' = CurFat /\ CurDir' = CurDir /\ CardDir' = CurDir
      /\ VolumeInv'
  BY SyncWindowStep, SeesSynced
<1>3. data' = data /\ fil' = fil /\ th' = th /\ kept' = kept
  BY DEF SyncWindow
<1>4. \A q \in Thread : th[q].pc \notin SavedPlaces
  <2>1. th[p].pc \in Reading
    BY NeedIs DEF SyncWindow, Moves
  <2>2. th[p].pc # "idle" /\ th[p].pc \notin SavedPlaces /\ "idle" \notin SavedPlaces
    BY <2>1 DEF Reading, SavedPlaces
  <2>3. QED BY <2>2, Alone, Both
<1>5. Core(own, pos)'
  BY <1>1, <1>2, <1>3, CoreSynced
<1>6. \A q \in Thread : th[q].pc \in {"free", "back"} => CurDir[th[q].name].clust = 0
  <2>1. ASSUME NEW q \in Thread, th[q].pc \in {"free", "back"}
        PROVE  CurDir[th[q].name].clust = 0
    <3>1. th[q].name \in File
      BY DEF VolumeInv, ThreadInv, LocalsOK, Locals
    <3>2. Cur(Dir)[Entry(th[q].name)].clust = 0
      BY <2>1 DEF VolumeInv, CutInv
    <3>3. QED BY <3>1, <3>2 DEF CurDir
  <2>2. QED BY <2>1
<1>7. Removal(own, pos)'
  BY <1>1, <1>2, <1>3, <1>6 DEF Places, Removal
<1>8. Growing(own, pos)'
  <2>1. Live(fil.name)' => Live(fil.name)
    BY <1>2, <1>3 DEF Live
  <2>2. AtEnd(own, pos) => AtEnd(own, pos)'
    BY <1>2, <1>3 DEF AtEnd, Holds
  <2>3. QED BY <1>1, <1>3, <2>1, <2>2 DEF Places, Growing
<1>9. Agree'
  BY <1>2 DEF Agree
<1>10. Saved'
  <2>1. \A q \in Thread : th'[q].pc \notin SavedPlaces /\ th'[q].pc \notin {"fsinfo", "closed"}
    BY <1>3, <1>4 DEF SavedPlaces
  <2>2. QED BY <1>2, <1>3, <2>1 DEF ChainInv, Saved
<1>11. QED BY <1>5, <1>7, <1>8, <1>9, <1>10 DEF ChainInv, Places

LEMMA MoveWindowChain ==
  ASSUME VolumeInv, ChainInv, NEW p \in Thread, MoveWindow(p) \/ WindowMoved(p)
  PROVE  ChainInv'
<1>1. PICK own \in Owners, pos \in Positions : Core(own, pos) /\ Places(own, pos)
  BY DEF ChainInv
<1>2. CurFat' = CurFat /\ CardFat' = CardFat /\ CurDir' = CurDir /\ CardDir' = CardDir
  BY MoveWindowStep, WindowMovedStep, SeesSame
<1>3. /\ data' = data /\ fil' = fil /\ kept' = kept
      /\ \E v : th' = [th EXCEPT ![p].loaded = v]
  BY DEF MoveWindow, WindowMoved
<1>4. \A q \in Thread : /\ th'[q].pc = th[q].pc /\ th'[q].cl = th[q].cl
                        /\ th'[q].name = th[q].name /\ th'[q].left = th[q].left
  <2>1. th = [q \in Thread |-> th[q]] /\ th[p] \in Locals
    BY DEF VolumeInv, ThreadInv, LocalsOK
  <2>2. QED BY <1>3, <2>1 DEF Locals
<1>5. QED BY <1>1, <1>2, <1>3, <1>4, SamePlaces DEF ChainInv

-----------------------------------------------------------------------------
(* The steps of f_mount and f_open.                                         *)
LEMMA OpenChain ==
  ASSUME VolumeInv, ChainInv, NEW p \in Thread, BootRead(p) \/ Mounted(p)
  PROVE  ChainInv'
<1>1. PICK own \in Owners, pos \in Positions : Core(own, pos) /\ Places(own, pos)
  BY DEF ChainInv
<1>2. CurFat' = CurFat /\ CardFat' = CardFat /\ CurDir' = CurDir /\ CardDir' = CardDir
  BY BootReadStep, MountedStep, SeesSame
<1>3. /\ data' = data /\ fil' = fil /\ kept' = kept /\ th[p].pc \in {"boot", "info"}
      /\ \E l : th' = [th EXCEPT ![p] = l] /\ l.pc \in {"info", "find"}
  <2>1. th[p] \in Locals
    BY DEF VolumeInv, ThreadInv, LocalsOK
  <2>2. CASE BootRead(p)
    <3> DEFINE l == [th[p] EXCEPT !.pc = "info"]
    <3>1. th' = [th EXCEPT ![p] = l] /\ l.pc = "info" /\ th[p].pc = "boot"
            /\ data' = data /\ fil' = fil /\ kept' = kept
      BY <2>1, <2>2 DEF BootRead, Here, At, Goto, medium, Locals
    <3>2. QED BY <3>1
  <2>3. CASE Mounted(p)
    <3> DEFINE l == [th[p] EXCEPT !.pc = "find", !.name = number]
    <3>1. th' = [th EXCEPT ![p] = l] /\ l.pc = "find" /\ th[p].pc = "info"
            /\ data' = data /\ fil' = fil /\ kept' = kept
      BY <2>1, <2>3 DEF Mounted, Here, At, medium, Locals
    <3>2. QED BY <3>1
  <2>4. QED BY <2>2, <2>3
<1>4. PICK l : th' = [th EXCEPT ![p] = l] /\ l.pc \in {"info", "find"}
  BY <1>3
<1>5. th'[p] = l /\ \A q \in Thread : q # p => th[q] = Idle /\ th'[q] = Idle
  <2>1. th[p].pc # "idle" /\ th = [q \in Thread |-> th[q]]
    BY <1>3 DEF VolumeInv, ThreadInv
  <2>2. QED BY <1>4, <2>1, Alone
<1>6. ~fil.open
  <2>1. th[p].pc \notin FilePlaces
    BY <1>3 DEF FilePlaces, WritePlaces, ClosePlaces, SavedPlaces
  <2>2. QED BY <2>1 DEF VolumeInv, FilInv
<1>7. l.pc \notin {"get", "free", "back", "link", "mark", "data"} \union SavedPlaces \union Extending
  BY <1>4 DEF SavedPlaces, Extending
<1>8. QED BY <1>1, <1>2, <1>3, <1>5, <1>6, <1>7, Quiet, ZenonT(60) DEF ChainInv

LEMMA FindChain ==
  ASSUME VolumeInv, ChainInv, NEW p \in Thread, Find(p)
  PROVE  ChainInv'
<1> DEFINE n == th[p].name
           e == [used |-> TRUE, clust |-> 0, size |-> 0]
           old == CurDir[n].clust
<1>1. PICK own \in Owners, pos \in Positions : Core(own, pos) /\ Places(own, pos)
  BY DEF ChainInv
<1>2. /\ th[p].pc = "find" /\ \A q \in Thread : q # p => th[q] = Idle
      /\ LocalsOK(th[p]) /\ ~fil.open /\ n \in File
      /\ win.sect = Dir /\ SectorOK(Dir, win.data) /\ win.data = Cur(Dir)
  <2>1. Here(p, "find")
    BY DEF Find
  <2>2. QED BY <2>1, AtOpen, NeedIs DEF OpenPlaces
<1>3. EntryOf(n) = CurDir[n]
  BY <1>2, EntryIs DEF CurDir
<1>4. /\ data' = data /\ kept' = [kept EXCEPT ![n] = NotKept]
      /\ \/ /\ old # 0 /\ fil' = fil
            /\ th' = [th EXCEPT ![p] = [th[p] EXCEPT !.pc = "get", !.cl = old, !.scl = old]]
         \/ old = 0 /\ fil' = Opened(p, Absent) /\ th' = [th EXCEPT ![p] = Idle]
  BY <1>3 DEF Find, Return, medium
<1>5. /\ CurDir' = [CurDir EXCEPT ![n] = e]
      /\ CurFat' = CurFat /\ CardFat' = CardFat /\ CardDir' = CardDir
  <2>1. disk' = disk
    BY FindStep
  <2>2. \A s \in Sector : Cur(s)' = IF s = Dir THEN [Cur(s) EXCEPT ![Entry(n)] = e] ELSE Cur(s)
    BY FindStep
  <2>3. QED BY <1>2, <2>1, <2>2, SeesEntry
<1>6. CurDir \in [File -> EntryType] /\ CardDir \in [File -> EntryType]
  BY ViewTypes
<1>7. CurDir'[n] = e /\ \A m \in File : m # n => CurDir'[m] = CurDir[m]
  BY <1>2, <1>5, <1>6
<1>8. \A m \in File : CurDir[m].clust = CardDir[m].clust
  <2>1. \A q \in Thread : th[q].pc \notin {"get", "sync"}
    BY <1>2, Both
  <2>2. QED BY <2>1 DEF ChainInv, Agree
<1>9. /\ kept'[n] = NotKept /\ \A m \in File : m # n => kept'[m] = kept[m]
  <2>1. kept \in [File -> NotKept .. MaxSize]
    BY FsTyped
  <2>2. QED BY <1>2, <1>4, <2>1
<1>10. th = [q \in Thread |-> th[q]]
  BY DEF VolumeInv, ThreadInv
<1>11. CASE old = 0
  <2>1. fil' = Opened(p, Absent) /\ \A q \in Thread : th'[q] = Idle
    BY <1>2, <1>4, <1>10, <1>11
  <2>2. /\ fil'.open /\ fil'.name = n /\ fil'.sclust = 0 /\ fil'.clust = 0 /\ fil'.size = 0
    <3>1. Absent.clust = 0 /\ Absent.size = 0
      BY DEF Absent
    <3>2. QED BY <1>2, <2>1, <3>1, OpenedIs
  <2>3. CardDir[n].clust = 0
    BY <1>2, <1>8, <1>11
  <2>4. \A q \in Thread : th[q].pc \notin {"get", "sync"}
    BY <1>2, Both
  <2>5. CurDir'[n].clust = 0 /\ CurDir'[n].size = 0
    BY <1>7
  <2>6. QED BY <1>1, <1>2, <1>4, <1>5, <1>6, <1>7, <1>9, <2>1, <2>2, <2>3, <2>4, <2>5,
               OpenedChain, ZenonT(60) DEF ChainInv
<1>12. CASE old # 0
  <2> DEFINE l == [th[p] EXCEPT !.pc = "get", !.cl = old, !.scl = old]
  <2>1. fil' = fil /\ th'[p] = l /\ (\A q \in Thread : q # p => th'[q] = Idle)
    BY <1>2, <1>4, <1>10, <1>12
  <2>2. l.pc = "get" /\ l.cl = old /\ l.name = n
    BY <1>2 DEF LocalsOK, Locals
  <2> HIDE DEF l
  <2>3. old \in Cluster
    BY <1>2, <1>6, <1>12 DEF EntryType
  <2>4. own[old] = n /\ pos[old] = 0
    BY <1>1, <1>2, <1>12 DEF Core, Entries, EntryOK
  <2>5. Core(own, pos)'
    <3>1. \A m, k : Holds(own, pos, m, k)' <=> Holds(own, pos, m, k)
      BY <1>4 DEF Holds
    <3>2. \A m, x : EntryOK(own, pos, m, x)' <=> EntryOK(own, pos, m, x)
      BY <3>1 DEF EntryOK
    <3>3. EntryOK(own, pos, n, e)
      BY DEF EntryOK
    <3>4. \A m \in File : EntryOK(own, pos, m, CardDir[m]) /\ EntryOK(own, pos, m, CurDir'[m])
      BY <1>1, <1>7, <3>3 DEF Core, Entries
    <3>5. Entries(own, pos)'
      BY <1>5, <3>2, <3>4 DEF Entries
    <3>6. \A m \in File : Live(m)' => Live(m)
      BY <1>2, <1>5, <1>7, <1>8, <1>12 DEF Live
    <3>7. \A c \in Cluster : own[c] # Nobody => own[c] \in File
      BY DEF Owners
    <3>8. Linked(own, pos)'
      BY <1>1, <1>5, <3>6, <3>7 DEF Core, Linked, LinkOK
    <3>9. TakenInv(own)' /\ Shared(own, pos)'
      BY <1>1, <1>5 DEF Core, TakenInv, Shared
    <3>10. QED BY <3>5, <3>8, <3>9 DEF Core
  <2>6. \A c \in Cluster : pos[c] >= 0
    BY DEF Positions
  <2>7. Removal(own, pos)'
    BY <2>1, <2>2, <2>4, <2>6, Both DEF Removal
  <2>8. Growing(own, pos)'
    BY <1>2, <2>1 DEF Growing
  <2>9. Agree'
    BY <1>5, <1>7, <1>8, <2>1, <2>2 DEF Agree
  <2>10. Saved'
    <3>1. \A q \in Thread : th'[q].pc \notin SavedPlaces /\ th'[q].pc \notin {"fsinfo", "closed"}
      BY <2>1, <2>2, Both DEF SavedPlaces
    <3>2. \A m \in File : kept'[m] # NotKept => m # n /\ CardDir'[m].size = kept'[m]
                                                /\ CurDir'[m].size = kept'[m]
      BY <1>5, <1>7, <1>9 DEF ChainInv, Saved
    <3>3. \A q \in Thread : th'[q].pc \in {"get", "free", "back"} => th'[q].name = n
      BY <2>1, <2>2, Both
    <3>4. QED BY <1>2, <2>1, <3>1, <3>2, <3>3 DEF Saved
  <2>11. QED BY <2>5, <2>7, <2>8, <2>9, <2>10 DEF ChainInv, Places
<1>13. QED BY <1>11, <1>12

LEMMA GetLinkChain ==
  ASSUME VolumeInv, ChainInv, NEW p \in Thread, GetLink(p)
  PROVE  ChainInv'
<1> DEFINE n == th[p].name
           c == th[p].cl
           v == CurFat[c]
           l == [th[p] EXCEPT !.pc = "free", !.left = v]
<1>1. PICK own \in Owners, pos \in Positions : Core(own, pos) /\ Places(own, pos)
  BY DEF ChainInv
<1>2. /\ th[p].pc = "get" /\ \A q \in Thread : q # p => th[q] = Idle
      /\ LocalsOK(th[p]) /\ ~fil.open /\ n \in File
      /\ win.sect = Need(p) /\ SectorOK(win.sect, win.data) /\ win.data = Cur(win.sect)
  <2>1. Here(p, "get")
    BY DEF GetLink
  <2>2. QED BY <2>1, AtOpen DEF OpenPlaces
<1>3. c \in Cluster /\ win.sect = FatOf(c)
  BY <1>2 DEF LocalsOK, Need
<1>4. v = win.data[Link(c)] /\ Found(Link(c)) = {v}
  BY <1>2, <1>3, LinkIs DEF CurFat
<1>5. own[c] = n /\ n # Nobody
  BY <1>1, <1>2 DEF Places, Removal, File, Nobody
<1>6. v \in Cluster \/ v = EOC
  BY <1>1, <1>3, <1>5 DEF Core, Linked, LinkOK
<1>7. v >= 2 /\ v # 0 /\ v # 1
  BY <1>6, Constants
<1>8. /\ fil' = fil /\ th' = [th EXCEPT ![p] = l] /\ data' = data /\ kept' = kept
  <2>1. fil' = fil /\ th' = [th EXCEPT ![p].pc = "free", ![p].left = v]
    BY <1>4, <1>7 DEF GetLink
  <2>2. QED BY <2>1 DEF GetLink, medium
<1>9. CurFat' = CurFat /\ CardFat' = CardFat /\ CurDir' = CurDir /\ CardDir' = CardDir
  BY GetLinkStep, SeesSame
<1>10. CurDir = CardDir
  BY <1>3, InSector, OneSector
<1>11. CardDir[n].clust = 0
  <2>1. Cur(Dir)[Entry(n)].clust = 0
    BY <1>2 DEF VolumeInv, CutInv
  <2>2. QED BY <1>2, <1>10, <2>1 DEF CurDir
<1>12. th'[p] = l /\ \A q \in Thread : q # p => th'[q] = Idle
  BY <1>2, <1>8 DEF VolumeInv, ThreadInv
<1>13. l.pc = "free" /\ l.left = v /\ l.cl = c /\ l.name = n
  BY <1>2 DEF LocalsOK, Locals
<1> HIDE DEF l
<1>14. Core(own, pos)'
  BY <1>1, <1>8, <1>9, CoreSame
<1>15. \A x \in Cluster : own[x] = n => pos[x] >= pos[c]
  BY <1>1, <1>2 DEF Places, Removal
<1>16. Removal(own, pos)'
  <2>1. /\ own[l.cl] = l.name /\ l.left = CurFat'[l.cl] /\ CardDir'[l.name].clust = 0
        /\ \A x \in Cluster : own[x] = l.name => pos[x] >= pos[l.cl]
    BY <1>5, <1>9, <1>11, <1>13, <1>15
  <2>2. \A q \in Thread : th'[q] = IF q = p THEN l ELSE Idle
    BY <1>12
  <2>3. QED BY <1>13, <2>1, <2>2, Both DEF Removal
<1>17. Growing(own, pos)'
  BY <1>2, <1>8 DEF Growing
<1>18. Agree'
  BY <1>9, <1>10 DEF Agree
<1>19. Saved'
  <2>1. \A q \in Thread : /\ th'[q].pc \notin SavedPlaces
                          /\ th'[q].pc \notin {"fsinfo", "closed"}
                          /\ th'[q].pc \in {"get", "free", "back"} => q = p /\ th'[q].name = n
    BY <1>12, <1>13, Both DEF SavedPlaces
  <2>2. \A m \in File : kept[m] # NotKept => n # m
    BY <1>2 DEF ChainInv, Saved
  <2>3. QED BY <1>2, <1>8, <1>9, <2>1, <2>2 DEF ChainInv, Saved
<1>20. QED BY <1>14, <1>16, <1>17, <1>18, <1>19 DEF ChainInv, Places

LEMMA FreeClusterChain ==
  ASSUME VolumeInv, ChainInv, NEW p \in Thread, FreeCluster(p)
  PROVE  ChainInv'
<1> DEFINE n == th[p].name
           k == th[p].cl
           next == th[p].left
           l == [th[p] EXCEPT !.pc = IF IsCluster(next) THEN "get" ELSE "back", !.cl = next]
<1>1. PICK own \in Owners, pos \in Positions : Core(own, pos) /\ Places(own, pos)
  BY DEF ChainInv
<1>0. PICK new : new = [own EXCEPT ![k] = Nobody]
  OBVIOUS
<1>2. /\ th[p].pc = "free" /\ \A q \in Thread : q # p => th[q] = Idle
      /\ LocalsOK(th[p]) /\ ~fil.open /\ n \in File
  <2>1. Here(p, "free")
    BY DEF FreeCluster
  <2>2. QED BY <2>1, AtOpen DEF OpenPlaces
<1>3. k \in Cluster
  BY FreeClusterStep
<1>4. /\ CurFat' = [CurFat EXCEPT ![k] = 0]
      /\ CardFat' = CardFat /\ CurDir' = CurDir /\ CardDir' = CardDir
  <2>1. disk' = disk /\ \A s \in Sector :
              Cur(s)' = IF s = FatOf(k) THEN [Cur(s) EXCEPT ![Link(k)] = 0] ELSE Cur(s)
    BY FreeClusterStep
  <2>2. QED BY <1>3, <2>1, SeesLink
<1>5. /\ own[k] = n /\ n # Nobody /\ next = CurFat[k] /\ CardDir[n].clust = 0
      /\ \A x \in Cluster : own[x] = n => pos[x] >= pos[k]
  BY <1>1, <1>2 DEF Places, Removal, File, Nobody
<1>6. CurDir[n].clust = 0
  <2>1. Cur(Dir)[Entry(n)].clust = 0
    BY <1>2 DEF VolumeInv, CutInv
  <2>2. QED BY <1>2, <2>1 DEF CurDir
<1>7. /\ fil' = fil /\ th' = [th EXCEPT ![p] = l] /\ data' = data /\ kept' = kept
  BY DEF FreeCluster, GotoWith, medium
<1>8. th'[p] = l /\ \A q \in Thread : q # p => th'[q] = Idle
  BY <1>2, <1>7 DEF VolumeInv, ThreadInv
<1>9. /\ l.pc = (IF IsCluster(next) THEN "get" ELSE "back") /\ l.cl = next /\ l.name = n
  BY <1>2 DEF LocalsOK, Locals
<1> HIDE DEF l
<1>10. LinkOK(own, pos, k, next)
  BY <1>1, <1>3, <1>5 DEF Core, Linked
<1>11. /\ new \in Owners /\ new[k] = Nobody
       /\ \A x \in Cluster : x # k => new[x] = own[x]
       /\ \A x \in Cluster : new[x] # Nobody => x # k /\ new[x] = own[x]
  <2>1. Nobody \in File \union {Nobody} /\ own \in [Cluster -> File \union {Nobody}]
    BY DEF Owners
  <2>2. new \in [Cluster -> File \union {Nobody}]
    BY <1>0, <2>1
  <2>3. new[k] = Nobody /\ \A x \in Cluster : x # k => new[x] = own[x]
    BY <1>0, <1>3, <2>1
  <2>4. QED BY <2>2, <2>3 DEF Owners
<1> HIDE DEF Nobody
<1>12. \A x \in Cluster : pos[x] \in Nat
  BY DEF Positions
<1>13. CurFat'[k] = 0 /\ \A x \in Cluster : x # k => CurFat'[x] = CurFat[x]
  BY <1>3, <1>4, ViewTypes
<1>14. ASSUME NEW x \in Cluster, NEW v, x # k, own[x] # Nobody, LinkOK(own, pos, x, v),
              own[x] # n \/ pos[x] >= pos[k]
       PROVE  LinkOK(new, pos, x, v)
  <2>1. CASE v \in Cluster /\ own[v] = own[x] /\ pos[v] = pos[x] + 1
    <3>1. v # k
      <4>1. CASE own[x] # n
        BY <1>5, <2>1, <4>1
      <4>2. CASE pos[x] >= pos[k]
        BY <1>3, <1>12, <1>14, <2>1, <4>2
      <4>3. QED BY <1>14, <4>1, <4>2
    <3>2. QED BY <1>11, <1>14, <2>1, <3>1 DEF LinkOK
  <2>2. CASE v = EOC /\ \A d \in Cluster : own[d] = own[x] => pos[d] <= pos[x]
    BY <1>11, <1>14, <2>2 DEF LinkOK
  <2>3. QED BY <1>14, <2>1, <2>2 DEF LinkOK
<1>15. ASSUME NEW x \in Cluster, new[x] # Nobody
       PROVE  /\ LinkOK(new, pos, x, CurFat'[x])
              /\ Live(new[x]) => LinkOK(new, pos, x, CardFat[x])
  <2>1. x # k /\ new[x] = own[x] /\ own[x] # Nobody
    BY <1>11, <1>15
  <2>2. LinkOK(own, pos, x, CurFat[x]) /\ (Live(own[x]) => LinkOK(own, pos, x, CardFat[x]))
    BY <1>1, <2>1 DEF Core, Linked
  <2>3. own[x] # n \/ pos[x] >= pos[k]
    BY <1>5
  <2>4. LinkOK(new, pos, x, CurFat'[x])
    BY <1>13, <1>14, <2>1, <2>2, <2>3
  <2>5. ASSUME Live(own[x]) PROVE LinkOK(new, pos, x, CardFat[x])
    BY <1>14, <2>1, <2>2, <2>3, <2>5
  <2>6. QED BY <2>1, <2>4, <2>5
<1>16. Core(new, pos)'
  <2>1. Shared(new, pos)'
    BY <1>1, <1>11 DEF Core, Shared
  <2>2. TakenInv(new)'
    <3>1. ASSUME NEW x \in Taken PROVE new[x] = Nobody /\ CardFat'[x] # 0 /\ CurFat'[x] # 0
      <4>1. x \in Cluster
        BY VolumeAssumption DEF Cluster
      <4>2. own[x] = Nobody /\ CardFat[x] # 0 /\ CurFat[x] # 0
        BY <1>1 DEF Core, TakenInv
      <4>3. x # k
        BY <1>5, <4>2
      <4>4. QED BY <1>4, <1>11, <1>13, <4>1, <4>2, <4>3
    <3>2. QED BY <3>1 DEF TakenInv
  <2>3. Linked(new, pos)'
    <3>1. \A m : Live(m)' <=> Live(m)
      BY <1>4 DEF Live
    <3>2. QED BY <1>4, <1>15, <3>1 DEF Linked, LinkOK
  <2>4. Entries(new, pos)'
    <3>1. \A m, j : Holds(new, pos, m, j)' <=> Holds(new, pos, m, j)
      BY <1>7 DEF Holds
    <3>2. \A m, x : EntryOK(new, pos, m, x)' <=> EntryOK(new, pos, m, x)
      BY <3>1 DEF EntryOK
    <3>3. ASSUME NEW m \in File, NEW x \in EntryType, EntryOK(own, pos, m, x), m = n => x.clust = 0
          PROVE  EntryOK(new, pos, m, x)
      <4>1. CASE m = n
        BY <3>3, <4>1 DEF EntryOK
      <4>2. CASE m # n
        <5>1. \A c \in Cluster : own[c] = m => new[c] = m
          BY <1>5, <1>11, <4>2
        <5>2. \A c \in Cluster : new[c] = m => own[c] = m
          <6>1. m # Nobody
            BY DEF File, Nobody
          <6>2. QED BY <1>11, <6>1
        <5>3. \A j : Holds(own, pos, m, j) => Holds(new, pos, m, j)
          BY <5>2 DEF Holds
        <5>4. x.clust \in Cluster \union {0}
          BY <3>3 DEF EntryType
        <5>5. QED BY <3>3, <5>1, <5>3, <5>4 DEF EntryOK
      <4>3. QED BY <4>1, <4>2
    <3>4. \A m \in File : EntryOK(own, pos, m, CardDir[m]) /\ EntryOK(own, pos, m, CurDir[m])
      BY <1>1 DEF Core, Entries
    <3>5. \A m \in File : CardDir[m] \in EntryType /\ CurDir[m] \in EntryType
      BY ViewTypes
    <3>6. \A m \in File : EntryOK(new, pos, m, CardDir[m]) /\ EntryOK(new, pos, m, CurDir[m])
      BY <1>5, <1>6, <3>3, <3>4, <3>5
    <3>7. QED BY <1>4, <3>2, <3>6 DEF Entries
  <2>5. QED BY <2>1, <2>2, <2>3, <2>4 DEF Core
<1>17. Removal(new, pos)'
  <2>1. \A q \in Thread : th'[q] = IF q = p THEN l ELSE Idle
    BY <1>8
  <2>2. CASE IsCluster(next)
    <3>1. next \in Cluster
      BY <2>2 DEF IsCluster
    <3>2. own[next] = n /\ pos[next] = pos[k] + 1
      BY <1>5, <1>10, <3>1, Constants DEF LinkOK
    <3>3. next # k
      BY <1>3, <1>12, <3>2
    <3>4. new[next] = n
      BY <1>11, <3>1, <3>2, <3>3
    <3>5. ASSUME NEW x \in Cluster, new[x] = n PROVE pos[x] >= pos[next]
      <4>1. x # k /\ own[x] = n /\ pos[x] >= pos[k]
        BY <1>5, <1>11, <3>5
      <4>2. pos[x] # pos[k]
        BY <1>1, <1>3, <1>5, <4>1 DEF Core, Shared
      <4>3. QED BY <1>3, <1>12, <3>2, <4>1, <4>2
    <3>6. l.pc = "get" /\ l.cl = next /\ l.name = n
      BY <1>9, <2>2
    <3>7. QED BY <2>1, <3>4, <3>5, <3>6, Both DEF Removal
  <2>3. CASE ~IsCluster(next)
    BY <1>4, <1>5, <1>9, <2>1, <2>3, Both DEF Removal
  <2>4. QED BY <2>2, <2>3
<1>18. Growing(new, pos)'
  BY <1>2, <1>7 DEF Growing
<1>19. Agree'
  <2>1. \A q \in Thread : th[q].pc \notin {"get", "sync"}
    BY <1>2, Both
  <2>2. QED BY <1>4, <2>1 DEF ChainInv, Agree
<1>20. Saved'
  <2>1. \A q \in Thread : /\ th'[q].pc \notin SavedPlaces
                          /\ th'[q].pc \notin {"fsinfo", "closed"}
                          /\ th'[q].pc \in {"get", "free", "back"} => th'[q].name = n
    BY <1>8, <1>9, Both DEF SavedPlaces
  <2>2. \A m \in File : kept[m] # NotKept => n # m
    BY <1>2 DEF ChainInv, Saved
  <2>3. QED BY <1>2, <1>4, <1>7, <2>1, <2>2 DEF ChainInv, Saved
<1>21. QED BY <1>11, <1>16, <1>17, <1>18, <1>19, <1>20 DEF ChainInv, Places

LEMMA BackToEntryChain ==
  ASSUME VolumeInv, ChainInv, NEW p \in Thread, BackToEntry(p)
  PROVE  ChainInv'
<1> DEFINE n == th[p].name
           e == [used |-> TRUE, clust |-> 0, size |-> 0]
<1>1. PICK own \in Owners, pos \in Positions : Core(own, pos) /\ Places(own, pos)
  BY DEF ChainInv
<1>2. /\ th[p].pc = "back" /\ \A q \in Thread : q # p => th[q] = Idle
      /\ n \in File
  <2>1. Here(p, "back")
    BY DEF BackToEntry
  <2>2. QED BY <2>1, AtOpen DEF OpenPlaces
<1>3. CurFat' = CurFat /\ CardFat' = CardFat /\ CurDir' = CurDir /\ CardDir' = CardDir
  BY BackToEntryStep, SeesSame
<1>4. /\ fil'.open /\ fil'.name = n /\ fil'.sclust = 0 /\ fil'.clust = 0 /\ fil'.size = 0
  <2>1. fil' = Opened(p, e)
    BY BackToEntryStep
  <2>2. QED BY <1>2, <2>1, OpenedIs
<1>5. CardDir[n].clust = 0
  BY <1>1, <1>2 DEF Places, Removal
<1>6. CurDir'[n].clust = 0 /\ CurDir'[n].size = 0
  <2>1. Cur(Dir)[Entry(n)] = e
    BY <1>2 DEF VolumeInv, CutInv
  <2>2. CurDir[n] = e
    BY <1>2, <2>1 DEF CurDir
  <2>3. QED BY <1>3, <2>2
<1>7. CurDir \in [File -> EntryType] /\ CardDir \in [File -> EntryType]
  BY ViewTypes
<1>8. kept[n] = NotKept
  BY <1>2 DEF ChainInv, Saved
<1>9. /\ data' = data /\ kept' = kept /\ \A q \in Thread : th'[q] = Idle
      /\ \A q \in Thread : th[q].pc \notin {"get", "sync"}
  <2>1. th' = [th EXCEPT ![p] = Idle] /\ data' = data /\ kept' = kept
    BY DEF BackToEntry, Return, medium
  <2>2. th = [q \in Thread |-> th[q]]
    BY DEF VolumeInv, ThreadInv
  <2>3. QED BY <1>2, <2>1, <2>2, Both
<1>10. /\ kept'[n] = NotKept /\ \A m \in File : m # n => kept'[m] = kept[m]
  BY <1>8, <1>9
<1>11. QED BY <1>1, <1>2, <1>3, <1>4, <1>5, <1>6, <1>7, <1>9, <1>10, OpenedChain, ZenonT(60)
           DEF ChainInv

-----------------------------------------------------------------------------
(* The steps of f_write.                                                    *)

(* What is known of a file that f_write works on.                           *)
LEMMA AtFile ==
  ASSUME VolumeInv, NEW own \in Owners, NEW pos \in Positions, Places(own, pos),
         th["storage"].pc \in WritePlaces
  PROVE  /\ \A q \in Thread : q # "storage" => th[q] = Idle
         /\ \A q \in Thread : th[q].pc \notin SavedPlaces
         /\ fil.open /\ ~Live(fil.name) /\ fil.name \in File
         /\ fil.sclust = 0 => fil.clust = 0 /\ fil.size = 0 /\ \A c \in Cluster : own[c] # fil.name
         /\ fil.sclust # 0 => AtEnd(own, pos)
         /\ th["storage"].pc \in Extending => fil.size % ClusterSize = 0
         /\ fil.size \in Nat /\ LocalsOK(th["storage"])
<1>1. /\ \A q \in Thread : q # "storage" => th[q] = Idle
      /\ fil.open /\ fil \in FilType /\ fil.size \in Nat /\ LocalsOK(th["storage"])
  BY AtWrite
<1>2. \A q \in Thread : th[q].pc \notin SavedPlaces
  <2>1. th["storage"].pc \notin SavedPlaces /\ "idle" \notin SavedPlaces
    BY DEF WritePlaces, SavedPlaces
  <2>2. QED BY <1>1, <2>1, Both
<1>3. fil.name \in File
  BY <1>1 DEF FilType
<1>4. QED BY <1>1, <1>2, <1>3 DEF Places, Growing

LEMMA WriteBeginChain ==
  ASSUME VolumeInv, ChainInv, Write
  PROVE  ChainInv'
<1> DEFINE go == Valid /\ ~fil.err
           to == Onward(fil.size, Buffer)
           l == IF go THEN [Idle EXCEPT !.pc = to, !.left = Buffer]
                      ELSE [Idle EXCEPT !.pc = "refused"]
<1>1. PICK own \in Owners, pos \in Positions : Core(own, pos) /\ Places(own, pos)
  BY DEF ChainInv
<1>2. /\ fil' = fil /\ data' = data /\ kept' = kept
      /\ th["storage"].pc = "idle" /\ th["keys"].pc = "idle"
      /\ th' = [th EXCEPT !["storage"] = l]
  BY DEF Write, At, medium
<1>3. CurFat' = CurFat /\ CardFat' = CardFat /\ CurDir' = CurDir /\ CardDir' = CardDir
  BY WriteBeginStep, SeesSame
<1>4. /\ th'["storage"] = l
      /\ \A q \in Thread : q # "storage" => th[q] = Idle /\ th'[q] = Idle
  <2>1. \A q \in Thread : th[q] = Idle
    BY <1>2, Both DEF VolumeInv, ThreadInv, LocalsOK
  <2>2. th = [q \in Thread |-> th[q]]
    BY DEF VolumeInv, ThreadInv
  <2>3. QED BY <1>2, <2>1, <2>2, Both
<1>5. fil.size \in Nat /\ Buffer \in Nat /\ Buffer > 0
  BY Constants DEF VolumeInv, FilInv, FilType
<1>6. /\ to \in {"written", "data", "new", "follow"}
      /\ to = "data" => fil.size % ClusterSize # 0
      /\ to = "new" => fil.size % ClusterSize = 0
      /\ to = "follow" => fil.size % ClusterSize = 0
  <2>1. /\ to \in {"written", "data", "new", "follow"}
        /\ to = "data" => fil.size % ClusterSize # 0
        /\ to = "follow" => fil.size % ClusterSize = 0
        /\ to = "new" => fil.size = 0
    BY <1>5, OnwardIs
  <2>2. 0 % ClusterSize = 0
    BY Constants
  <2>3. QED BY <2>1, <2>2
<1> HIDE DEF to
<1>7. /\ l.pc \in {"written", "data", "new", "follow", "refused"}
      /\ l.pc = "data" => fil.size % ClusterSize # 0
      /\ l.pc \in {"new", "follow"} => fil.size % ClusterSize = 0
  <2>1. l.pc = IF go THEN to ELSE "refused"
    BY DEF Idle
  <2> HIDE DEF l, go
  <2>2. QED BY <1>6, <2>1
<1> HIDE DEF l
<1>8. /\ l.pc \notin {"get", "free", "back", "link", "mark"} \union SavedPlaces
      /\ l.pc \in Extending => l.pc \in {"new", "follow"}
      /\ "idle" \notin SavedPlaces
  BY <1>7 DEF SavedPlaces, Extending
<1>9. th["storage"].pc \notin {"get", "sync", "data"} \union SavedPlaces
  BY <1>2, <1>8
<1>10. QED BY <1>1, <1>2, <1>3, <1>4, <1>5, <1>7, <1>8, <1>9, Both, Quiet, ZenonT(60) DEF ChainInv

LEMMA NewChainChain ==
  ASSUME VolumeInv, ChainInv, NewChain
  PROVE  ChainInv'
<1>1. PICK own \in Owners, pos \in Positions : Core(own, pos) /\ Places(own, pos)
  BY DEF ChainInv
<1>2. /\ fil' = fil /\ data' = data /\ kept' = kept
      /\ th["storage"].pc = "new"
      /\ \E s : SearchFrom(s)
  BY DEF NewChain, At, medium
<1>3. CurFat' = CurFat /\ CardFat' = CardFat /\ CurDir' = CurDir /\ CardDir' = CardDir
  BY NewChainStep, SeesSame
<1>4. /\ \A q \in Thread : q # "storage" => th[q] = Idle
      /\ fil.size % ClusterSize = 0 /\ fil.size \in Nat
      /\ \A q \in Thread : th[q].pc \notin SavedPlaces
  BY <1>1, <1>2, AtFile DEF WritePlaces, Extending
<1>5. th'["storage"].pc = "search" /\ \A q \in Thread : q # "storage" => th'[q] = Idle
  <2>1. th = [q \in Thread |-> th[q]] /\ th["storage"] \in Locals
    BY Both DEF VolumeInv, ThreadInv, LocalsOK
  <2>2. QED BY <1>2, <1>4, <2>1, Both DEF SearchFrom, Locals
<1>6. "search" \notin SavedPlaces
  BY DEF SavedPlaces
<1>7. QED BY <1>1, <1>2, <1>3, <1>4, <1>5, <1>6, Both, Quiet, ZenonT(60) DEF ChainInv

(* The last cluster of the file ends its chain, so f_write makes it longer. *)
LEMMA FollowChain ==
  ASSUME VolumeInv, ChainInv, Follow
  PROVE  ChainInv'
<1>1. PICK own \in Owners, pos \in Positions : Core(own, pos) /\ Places(own, pos)
  BY DEF ChainInv
<1>2. th["storage"].pc = "follow" /\ data' = data /\ kept' = kept
  BY DEF Follow, Here, At, medium
<1>3. /\ CurFat' = CurFat /\ CardFat' = CardFat /\ CurDir' = CurDir /\ CardDir' = CardDir
      /\ fil.clust \in Cluster /\ Found(Link(fil.clust)) = {CurFat[fil.clust]}
  BY FollowStep, SeesSame DEF CurFat
<1>4. /\ \A q \in Thread : q # "storage" => th[q] = Idle
      /\ fil.size % ClusterSize = 0 /\ fil.size \in Nat
      /\ \A q \in Thread : th[q].pc \notin SavedPlaces
      /\ fil.sclust = 0 => fil.size = 0
      /\ fil.sclust # 0 => AtEnd(own, pos)
  BY <1>1, <1>2, AtFile DEF WritePlaces, Extending
<1>5. fil.size > 0
  BY <1>2 DEF VolumeInv, FilInv
<1>6. CurFat[fil.clust] = EOC
  BY <1>4, <1>5 DEF AtEnd
<1>7. fil' = fil /\ SearchFrom(fil.clust)
  <2>1. ~(EOC < 2) /\ ~IsCluster(EOC)
    BY Constants DEF IsCluster
  <2>2. QED BY <1>3, <1>6, <2>1 DEF Follow
<1>8. th'["storage"].pc = "search" /\ \A q \in Thread : q # "storage" => th'[q] = Idle
  <2>1. th = [q \in Thread |-> th[q]] /\ th["storage"] \in Locals
    BY Both DEF VolumeInv, ThreadInv, LocalsOK
  <2>2. QED BY <1>4, <1>7, <2>1, Both DEF SearchFrom, Locals
<1>9. "search" \notin SavedPlaces
  BY DEF SavedPlaces
<1>10. QED BY <1>1, <1>2, <1>3, <1>4, <1>7, <1>8, <1>9, Both, Quiet, ZenonT(60) DEF ChainInv

(* The next free cluster is marked, or there is none.                       *)
LEMMA SearchChain ==
  ASSUME VolumeInv, ChainInv, Search
  PROVE  ChainInv'
<1> DEFINE c == th["storage"].cl
           v == CurFat[c]
<1>1. PICK own \in Owners, pos \in Positions : Core(own, pos) /\ Places(own, pos)
  BY DEF ChainInv
<1>2. th["storage"].pc = "search" /\ data' = data /\ kept' = kept
  BY DEF Search, Here, At, medium
<1>3. /\ CurFat' = CurFat /\ CardFat' = CardFat /\ CurDir' = CurDir /\ CardDir' = CardDir
      /\ Found(Link(c)) = {v}
  BY SearchStep, SeesSame DEF CurFat
<1>4. /\ \A q \in Thread : q # "storage" => th[q] = Idle
      /\ fil.size % ClusterSize = 0 /\ fil.size \in Nat
      /\ \A q \in Thread : th[q].pc \notin SavedPlaces
      /\ LocalsOK(th["storage"])
  BY <1>1, <1>2, AtFile DEF WritePlaces, Extending
<1>5. th = [q \in Thread |-> th[q]] /\ th["storage"] \in Locals /\ fil \in FilType
  BY Both DEF VolumeInv, ThreadInv, LocalsOK, FilInv
<1>6. /\ fil' = fil \/ fil' = [fil EXCEPT !.err = TRUE]
      /\ \/ v = 0 /\ th' = [th EXCEPT !["storage"].pc = "mark"]
         \/ th' = [th EXCEPT !["storage"].pc = "refused"]
         \/ th' = [th EXCEPT !["storage"].pc = "written"]
         \/ \E d : th' = [th EXCEPT !["storage"].pc = "search", !["storage"].cl = d]
  BY <1>3 DEF Search, Goto, GotoWith, Abort, DiskFull
<1>7. /\ \A q \in Thread : q # "storage" => th[q] = Idle /\ th'[q] = Idle
      /\ th'["storage"].pc \in {"mark", "refused", "written", "search"}
      /\ th'["storage"].pc = "mark" => v = 0 /\ th'["storage"].cl = c
  <2>1. CASE v = 0 /\ th' = [th EXCEPT !["storage"].pc = "mark"]
    BY <1>4, <1>5, <2>1, Both DEF Locals
  <2>2. CASE th' = [th EXCEPT !["storage"].pc = "refused"]
    BY <1>4, <1>5, <2>2, Both DEF Locals
  <2>3. CASE th' = [th EXCEPT !["storage"].pc = "written"]
    BY <1>4, <1>5, <2>3, Both DEF Locals
  <2>4. CASE \E d : th' = [th EXCEPT !["storage"].pc = "search", !["storage"].cl = d]
    BY <1>4, <1>5, <2>4, Both DEF Locals
  <2>5. QED BY <1>6, <2>1, <2>2, <2>3, <2>4
<1>8. /\ fil'.name = fil.name /\ fil'.sclust = fil.sclust /\ fil'.open = fil.open
      /\ fil'.clust = fil.clust /\ fil'.size = fil.size
  BY <1>5, <1>6 DEF FilType
<1>9. th'["storage"].pc \notin {"get", "free", "back", "link", "data"} \union SavedPlaces
  BY <1>7 DEF SavedPlaces
<1>10. PICK l : l = th'["storage"]
  OBVIOUS
<1> HIDE DEF c, v
<1>11. /\ l.pc \notin {"get", "free", "back", "link"} \union SavedPlaces /\ l.pc # "data"
       /\ th'["storage"] = l
  BY <1>9, <1>10
<1>12. l.pc = "mark" => CurFat[l.cl] = 0
  BY <1>7, <1>10 DEF c, v
<1>13. th["storage"].pc \notin {"get", "sync", "data"}
  BY <1>2
<1>14. fil'.open => /\ fil.open /\ fil'.name = fil.name /\ fil'.sclust = fil.sclust
                    /\ fil'.clust = fil.clust /\ fil'.size = fil.size
                    /\ th["storage"].pc \notin SavedPlaces
                    /\ l.pc \in Extending => fil.size % ClusterSize = 0
                    /\ l.pc = "data" => fil.size % ClusterSize # 0 /\ fil.size \in Nat
  BY <1>4, <1>8, <1>11, Both
<1>15. Agree /\ Saved /\ "storage" \in Thread /\ "storage" # "keys"
  BY Both DEF ChainInv
<1>16. QED BY <1>1, <1>2, <1>3, <1>7, <1>11, <1>12, <1>13, <1>14, <1>15, Quiet, ZenonT(60)

(* A step that leaves the file as it is, or not open.                       *)
LEMMA QuietStep ==
  ASSUME VolumeInv, ChainInv, data' = data, kept' = kept, disk' = disk,
         \A s \in Sector : Cur(s)' = Cur(s),
         NEW p \in Thread, \A q \in Thread : q # p => th[q] = Idle /\ th'[q] = Idle,
         th[p].pc \notin {"get", "sync", "data"},
         th'[p].pc \notin {"get", "free", "back", "link", "mark", "data", "new", "follow", "search"},
         th'[p].pc \notin SavedPlaces,
         fil'.open => /\ fil.open /\ fil'.name = fil.name /\ fil'.sclust = fil.sclust
                      /\ fil'.clust = fil.clust /\ fil'.size = fil.size
                      /\ th[p].pc \notin SavedPlaces
  PROVE  ChainInv'
<1>1. PICK own \in Owners, pos \in Positions : Core(own, pos) /\ Places(own, pos)
  BY DEF ChainInv
<1>2. CurFat' = CurFat /\ CardFat' = CardFat /\ CurDir' = CurDir /\ CardDir' = CardDir
  BY SeesSame
<1>3. PICK l : th'[p] = l
  OBVIOUS
<1>4. l.pc \notin {"get", "free", "back", "link", "mark", "data"} \union SavedPlaces
        /\ l.pc \notin Extending
  BY <1>3 DEF Extending
<1>5. QED BY <1>1, <1>2, <1>3, <1>4, Quiet, ZenonT(60) DEF ChainInv

LEMMA WrittenChain ==
  ASSUME VolumeInv, ChainInv, Written
  PROVE  ChainInv'
<1>1. /\ data' = data /\ kept' = kept /\ th["storage"].pc \in {"written", "refused"}
      /\ \E m : fil' = [fil EXCEPT !.modified = m]
      /\ \/ th' = [th EXCEPT !["storage"] = Idle] \/ th' = [th EXCEPT !["storage"].pc = "close"]
  BY DEF Written, At, Return, Goto, medium
<1>2. fil \in FilType /\ th["storage"].pc # "idle" /\ th["storage"].pc \notin SavedPlaces
        /\ "idle" \notin SavedPlaces /\ "close" \notin SavedPlaces
  BY <1>1 DEF VolumeInv, FilInv, SavedPlaces
<1>3. /\ \A q \in Thread : q # "storage" => th[q] = Idle
      /\ th = [q \in Thread |-> th[q]] /\ th["storage"] \in Locals
  BY <1>2, Alone, Both DEF LocalsOK
<1>4. /\ \A q \in Thread : q # "storage" => th[q] = Idle /\ th'[q] = Idle
      /\ th'["storage"].pc \in {"idle", "close"}
  <2>1. CASE th' = [th EXCEPT !["storage"] = Idle]
    BY <1>3, <2>1, Both
  <2>2. CASE th' = [th EXCEPT !["storage"].pc = "close"]
    BY <1>3, <2>2, Both DEF Locals
  <2>3. QED BY <1>1, <2>1, <2>2
<1>5. /\ fil'.name = fil.name /\ fil'.sclust = fil.sclust /\ fil'.open = fil.open
      /\ fil'.clust = fil.clust /\ fil'.size = fil.size
  BY <1>1, <1>2 DEF FilType
<1>6. /\ th["storage"].pc \notin {"get", "sync", "data"}
      /\ th'["storage"].pc \notin {"get", "free", "back", "link", "mark", "data", "new", "follow", "search"}
      /\ th'["storage"].pc \notin SavedPlaces
  BY <1>1, <1>2, <1>4
<1>7. disk' = disk /\ \A s \in Sector : Cur(s)' = Cur(s)
  BY WrittenStep
<1>8. QED BY <1>1, <1>2, <1>4, <1>5, <1>6, <1>7, Both, QuietStep, ZenonT(60)

-----------------------------------------------------------------------------
(* The steps of f_close, and what follows it.                               *)
LEMMA CloseChain ==
  ASSUME VolumeInv, ChainInv, NEW p \in Thread, Close(p)
  PROVE  ChainInv'
<1>1. /\ data' = data /\ kept' = kept /\ th[p].pc = "close" /\ fil' = fil
      /\ \E pc : pc \in {"save", "closed", "pause", "unmount", "getfree"} /\
                 th' = [th EXCEPT ![p].pc = pc]
  <2> DEFINE go == IF ~Valid THEN AfterClose(p, TRUE) ELSE IF fil.modified THEN "save" ELSE "closed"
  <2>1. /\ data' = data /\ kept' = kept /\ th[p].pc = "close" /\ fil' = fil
        /\ th' = [th EXCEPT ![p].pc = go]
    BY DEF Close, At, Goto, medium
  <2>2. go \in {"save", "closed", "pause", "unmount", "getfree"}
    BY AfterCloseIs, Both
  <2> HIDE DEF go
  <2>3. QED BY <2>1, <2>2
<1>2. th[p].pc \notin SavedPlaces /\ th[p].pc # "idle"
  BY <1>1 DEF SavedPlaces
<1>3. /\ \A q \in Thread : q # p => th[q] = Idle
      /\ th = [q \in Thread |-> th[q]] /\ th[p] \in Locals
  BY <1>2, Alone DEF LocalsOK
<1>4. /\ \A q \in Thread : q # p => th[q] = Idle /\ th'[q] = Idle
      /\ th'[p].pc \in {"save", "closed", "pause", "unmount", "getfree"}
  BY <1>1, <1>3 DEF Locals
<1>5. disk' = disk /\ (\A s \in Sector : Cur(s)' = Cur(s)) /\ th'[p].pc \notin SavedPlaces
  BY FileCloseStep
<1>6. /\ th[p].pc \notin {"get", "sync", "data"}
      /\ th'[p].pc \notin {"get", "free", "back", "link", "mark", "data", "new", "follow", "search"}
  BY <1>1, <1>4
<1>7. QED BY <1>1, <1>2, <1>4, <1>5, <1>6, QuietStep, ZenonT(60)

(* No file is open here.                                                    *)
LEMMA EndChain ==
  ASSUME VolumeInv, ChainInv, NEW p \in Thread, th[p].pc \in EndPlaces,
         data' = data, kept' = kept, fil' = fil, disk' = disk,
         \A s \in Sector : Cur(s)' = Cur(s),
         NEW l, th' = [th EXCEPT ![p] = l],
         l.pc \in {"idle", "close", "decide", "scan", "find"}
  PROVE  ChainInv'
<1>1. ~fil.open /\ \A q \in Thread : q # p => th[q] = Idle
  <2>1. th[p].pc \notin ClosePlaces /\ th[p].pc \in ClosePlaces \union EndPlaces
    BY DEF ClosePlaces, EndPlaces, SavedPlaces
  <2>2. QED BY <2>1, AtClose
<1>2. th'[p] = l /\ \A q \in Thread : q # p => th[q] = Idle /\ th'[q] = Idle
  BY <1>1 DEF VolumeInv, ThreadInv
<1>3. /\ th[p].pc \notin {"get", "sync", "data"}
      /\ l.pc \notin {"get", "free", "back", "link", "mark", "data", "new", "follow", "search"}
      /\ l.pc \notin SavedPlaces
  BY DEF EndPlaces, SavedPlaces
<1>4. QED BY <1>1, <1>2, <1>3, QuietStep, ZenonT(60)

LEMMA CloseAgainChain ==
  ASSUME VolumeInv, ChainInv, CloseAgain
  PROVE  ChainInv'
<1> DEFINE l == [th["keys"] EXCEPT !.pc = "close", !.low = TRUE]
<1>1. /\ data' = data /\ kept' = kept /\ fil' = fil /\ th["keys"].pc = "pause"
      /\ th' = [th EXCEPT !["keys"] = l]
  BY DEF CloseAgain, At, medium
<1>2. l.pc = "close"
  BY Both DEF VolumeInv, ThreadInv, LocalsOK, Locals
<1> HIDE DEF l
<1>3. QED BY <1>1, <1>2, CloseAgainStep, EndChain, Both DEF EndPlaces

LEMMA UnmountChain ==
  ASSUME VolumeInv, ChainInv, NEW p \in Thread, Unmount(p)
  PROVE  ChainInv'
<1>1. /\ data' = data /\ kept' = kept /\ fil' = fil /\ th[p].pc = "unmount"
      /\ th' = [th EXCEPT ![p] = Idle]
  BY DEF Unmount, At, Return, medium
<1>2. QED BY <1>1, UnmountStep, EndChain, Both DEF EndPlaces

LEMMA GetFreeChain ==
  ASSUME VolumeInv, ChainInv, GetFree
  PROVE  ChainInv'
<1>1. /\ data' = data /\ kept' = kept /\ fil' = fil /\ th["storage"].pc = "getfree"
      /\ \/ \E n : th' = [th EXCEPT !["storage"] = [th["storage"] EXCEPT !.pc = "decide", !.left = n]]
         \/ th' = [th EXCEPT !["storage"] = [th["storage"] EXCEPT !.pc = "scan", !.cl = 0, !.left = 0]]
  BY DEF GetFree, Count, At, medium
<1>2. th["storage"] \in Locals
  BY Both DEF VolumeInv, ThreadInv, LocalsOK
<1>3. PICK l : th' = [th EXCEPT !["storage"] = l] /\ l.pc \in {"decide", "scan"}
  <2>1. \A n : [th["storage"] EXCEPT !.pc = "decide", !.left = n].pc = "decide"
    BY <1>2 DEF Locals
  <2>2. [th["storage"] EXCEPT !.pc = "scan", !.cl = 0, !.left = 0].pc = "scan"
    BY <1>2 DEF Locals
  <2>3. ASSUME NEW n, th' = [th EXCEPT !["storage"] = [th["storage"] EXCEPT !.pc = "decide", !.left = n]]
        PROVE  \E l : th' = [th EXCEPT !["storage"] = l] /\ l.pc \in {"decide", "scan"}
    BY <2>1, <2>3
  <2>4. QED BY <1>1, <2>2, <2>3
<1>4. QED BY <1>1, <1>3, GetFreeStep, EndChain, Both DEF EndPlaces

LEMMA ScanChain ==
  ASSUME VolumeInv, ChainInv, Scan
  PROVE  ChainInv'
<1>1. /\ data' = data /\ kept' = kept /\ fil' = fil /\ th["storage"].pc = "scan"
      /\ \/ \E n : th' = [th EXCEPT !["storage"] = [th["storage"] EXCEPT !.pc = "decide", !.left = n]]
         \/ \E c, n : th' = [th EXCEPT !["storage"] = [th["storage"] EXCEPT !.cl = c, !.left = n]]
  <2> DEFINE c == th["storage"].cl + 1
             n == th["storage"].left + Cardinality({k \in DOMAIN win.data : win.data[k] = 0})
  <2>1. /\ data' = data /\ kept' = kept /\ fil' = fil /\ th["storage"].pc = "scan"
        /\ \/ th' = [th EXCEPT !["storage"] = [th["storage"] EXCEPT !.pc = "decide", !.left = n]]
           \/ th' = [th EXCEPT !["storage"] = [th["storage"] EXCEPT !.cl = c, !.left = n]]
    BY DEF Scan, Count, Here, At, medium
  <2> HIDE DEF c, n
  <2>2. QED BY <2>1
<1>2. th["storage"] \in Locals
  BY Both DEF VolumeInv, ThreadInv, LocalsOK
<1>3. PICK l : th' = [th EXCEPT !["storage"] = l] /\ l.pc \in {"decide", "scan"}
  <2>1. \A n : [th["storage"] EXCEPT !.pc = "decide", !.left = n].pc = "decide"
    BY <1>2 DEF Locals
  <2>2. \A c, n : [th["storage"] EXCEPT !.cl = c, !.left = n].pc = "scan"
    BY <1>1, <1>2 DEF Locals
  <2>3. ASSUME NEW n, th' = [th EXCEPT !["storage"] = [th["storage"] EXCEPT !.pc = "decide", !.left = n]]
        PROVE  \E l : th' = [th EXCEPT !["storage"] = l] /\ l.pc \in {"decide", "scan"}
    BY <2>1, <2>3
  <2>4. ASSUME NEW c, NEW n, th' = [th EXCEPT !["storage"] = [th["storage"] EXCEPT !.cl = c, !.left = n]]
        PROVE  \E l : th' = [th EXCEPT !["storage"] = l] /\ l.pc \in {"decide", "scan"}
    BY <2>2, <2>4
  <2>5. QED BY <1>1, <2>3, <2>4
<1>4. QED BY <1>1, <1>3, ScanStep, EndChain, Both DEF EndPlaces

LEMMA DecideChain ==
  ASSUME VolumeInv, ChainInv, NextFile \/ LowSpace
  PROVE  ChainInv'
<1>1. /\ data' = data /\ kept' = kept /\ fil' = fil /\ th["storage"].pc = "decide"
      /\ \/ th' = [th EXCEPT !["storage"] = [Idle EXCEPT !.pc = "find", !.name = number + 1]]
         \/ th' = [th EXCEPT !["storage"] = [Idle EXCEPT !.pc = "close", !.low = TRUE]]
  BY DEF NextFile, LowSpace, At, medium
<1>2. PICK l : th' = [th EXCEPT !["storage"] = l] /\ l.pc \in {"find", "close"}
  <2>1. /\ [Idle EXCEPT !.pc = "find", !.name = number + 1].pc = "find"
        /\ [Idle EXCEPT !.pc = "close", !.low = TRUE].pc = "close"
    BY DEF Idle
  <2>2. QED BY <1>1, <2>1
<1>3. disk' = disk /\ \A s \in Sector : Cur(s)' = Cur(s)
  BY NextFileStep, LowSpaceStep
<1>4. QED BY <1>1, <1>2, <1>3, EndChain, Both DEF EndPlaces

-----------------------------------------------------------------------------
(* A file gets one more cluster.                                            *)
LEMMA Grown ==
  ASSUME VolumeInv, NEW own \in Owners, NEW pos \in Positions, Core(own, pos),
         NEW n \in File, ~Live(n),
         NEW c \in Cluster, own[c] = Nobody, c \notin Taken,
         NEW new \in Owners, NEW at \in Positions, new[c] = n,
         \A x \in Cluster : x # c => new[x] = own[x] /\ at[x] = pos[x],
         \A x \in Cluster : own[x] = n => pos[x] # at[c],
         data' = data, CardFat' = CardFat, CurDir' = CurDir, CardDir' = CardDir,
         \A x \in Cluster : own[x] # n /\ x # c => CurFat'[x] = CurFat[x],
         \A x \in Cluster : new[x] = n => LinkOK(new, at, x, CurFat'[x])
  PROVE  Core(new, at)'
<1>1. new[c] = n /\ \A x \in Cluster : x # c => new[x] = own[x] /\ at[x] = pos[x]
  OBVIOUS
<1>2. n # Nobody /\ (\A m \in File : m # Nobody)
  BY DEF File, Nobody
<1> HIDE DEF Nobody
<1>3. Shared(new, at)'
  BY <1>1, <1>2 DEF Core, Shared
<1>4. TakenInv(new)'
  <2>1. ASSUME NEW x \in Taken PROVE new[x] = Nobody /\ CardFat'[x] # 0 /\ CurFat'[x] # 0
    <3>1. x \in Cluster /\ x # c
      BY VolumeAssumption DEF Cluster
    <3>2. own[x] = Nobody /\ CardFat[x] # 0 /\ CurFat[x] # 0
      BY DEF Core, TakenInv
    <3>3. QED BY <1>1, <1>2, <3>1, <3>2
  <2>2. QED BY <2>1 DEF TakenInv
<1>5. \A m : Live(m)' <=> Live(m)
  BY DEF Live
<1>6. ASSUME NEW x \in Cluster, own[x] # Nobody, own[x] # n, x # c, NEW v, LinkOK(own, pos, x, v)
      PROVE  LinkOK(new, at, x, v)
  <2>1. CASE v \in Cluster /\ own[v] = own[x] /\ pos[v] = pos[x] + 1
    <3>1. v # c
      BY <1>6, <2>1
    <3>2. QED BY <1>1, <1>6, <2>1, <3>1 DEF LinkOK
  <2>2. CASE v = EOC /\ \A d \in Cluster : own[d] = own[x] => pos[d] <= pos[x]
    <3>1. \A d \in Cluster : new[d] = new[x] => own[d] = own[x] /\ d # c
      BY <1>1, <1>6
    <3>2. QED BY <1>1, <1>6, <2>2, <3>1 DEF LinkOK
  <2>3. QED BY <1>6, <2>1, <2>2 DEF LinkOK
<1>7. Linked(new, at)'
  <2>1. ASSUME NEW x \in Cluster, new[x] # Nobody
        PROVE  LinkOK(new, at, x, CurFat'[x]) /\ (Live(new[x]) => LinkOK(new, at, x, CardFat'[x]))
    <3>1. CASE new[x] = n
      BY <3>1
    <3>2. CASE new[x] # n
      <4>1. x # c /\ own[x] = new[x] /\ own[x] # n
        BY <1>1, <3>2
      <4>2. LinkOK(own, pos, x, CurFat[x]) /\ (Live(own[x]) => LinkOK(own, pos, x, CardFat[x]))
        BY <2>1, <4>1 DEF Core, Linked
      <4>3. QED BY <1>6, <2>1, <4>1, <4>2
    <3>3. QED BY <3>1, <3>2
  <2>2. QED BY <1>5, <2>1 DEF Linked, LinkOK
<1>8. ASSUME NEW m \in File, NEW e \in EntryType, EntryOK(own, pos, m, e), m = n => e.clust = 0
      PROVE  EntryOK(new, at, m, e)
  <2>1. CASE m = n
    BY <1>8, <2>1 DEF EntryOK
  <2>2. CASE m # n
    <3>1. \A x \in Cluster : new[x] = m => own[x] = m /\ at[x] = pos[x]
      BY <1>1, <2>2
    <3>2. \A x \in Cluster : own[x] = m => new[x] = m /\ at[x] = pos[x]
      BY <1>1, <1>2
    <3>3. \A j : Holds(own, pos, m, j) => Holds(new, at, m, j)
      BY <3>1 DEF Holds
    <3>4. e.clust \in Cluster \union {0}
      BY <1>8 DEF EntryType
    <3>5. QED BY <1>8, <3>2, <3>3, <3>4 DEF EntryOK
  <2>3. QED BY <2>1, <2>2
<1>9. Entries(new, at)'
  <2>1. \A m, j : Holds(new, at, m, j)' <=> Holds(new, at, m, j)
    BY DEF Holds
  <2>2. \A m, x : EntryOK(new, at, m, x)' <=> EntryOK(new, at, m, x)
    BY <2>1 DEF EntryOK
  <2>3. \A m \in File : EntryOK(own, pos, m, CardDir[m]) /\ EntryOK(own, pos, m, CurDir[m])
    BY DEF Core, Entries
  <2>4. \A m \in File : CardDir[m] \in EntryType /\ CurDir[m] \in EntryType
    BY ViewTypes
  <2>5. \A m \in File : EntryOK(new, at, m, CardDir[m]) /\ EntryOK(new, at, m, CurDir[m])
    BY <1>8, <2>3, <2>4 DEF Live
  <2>6. QED BY <2>2, <2>5 DEF Entries
<1>10. QED BY <1>1, <1>3, <1>4, <1>7, <1>9 DEF Core

(* f_write may fill the file's new last cluster.                            *)
LEMMA FilledNext ==
  ASSUME VolumeInv, ChainInv, th["storage"].pc \in {"mark", "link"},
         NEW new \in Owners, NEW at \in Positions, Core(new, at)',
         data' = data, kept' = kept, CurDir' = CurDir, CardDir' = CardDir,
         th'["storage"].pc = "data", \A q \in Thread : q # "storage" => th[q] = Idle /\ th'[q] = Idle,
         fil'.open, fil'.name = fil.name, ~Live(fil.name), fil'.sclust # 0, AtEnd(new, at)'
  PROVE  ChainInv'
<1>1. th["storage"].pc \notin {"get", "sync"} /\ fil.open
  <2>1. th["storage"].pc \in WritePlaces
    BY DEF WritePlaces
  <2>2. QED BY <2>1, AtWrite
<1>2. \A q \in Thread : th'[q].pc \in {"data", "idle"} /\ th[q].pc \notin {"get", "sync"}
  BY <1>1, Both
<1>3. Removal(new, at)'
  BY <1>2 DEF Removal
<1>4. Growing(new, at)'
  <2>1. Live(fil.name)' <=> Live(fil.name)
    BY DEF Live
  <2>2. "data" \notin Extending
    BY DEF Extending
  <2>3. QED BY <2>1, <2>2 DEF Growing
<1>5. Agree'
  BY <1>2 DEF ChainInv, Agree
<1>6. Saved'
  <2>1. "data" \notin SavedPlaces /\ "idle" \notin SavedPlaces
    BY DEF SavedPlaces
  <2>2. QED BY <1>1, <1>2, <2>1 DEF ChainInv, Saved
<1>7. QED BY <1>3, <1>4, <1>5, <1>6 DEF ChainInv, Places

LEMMA MarkChain ==
  ASSUME VolumeInv, ChainInv, Mark
  PROVE  ChainInv'
<1> DEFINE c == th["storage"].cl
           n == fil.name
<1>1. PICK own \in Owners, pos \in Positions : Core(own, pos) /\ Places(own, pos)
  BY DEF ChainInv
<1>0. PICK new, at : new = [own EXCEPT ![c] = n] /\ at = [pos EXCEPT ![c] = 0]
  OBVIOUS
<1>2. /\ th["storage"].pc = "mark" /\ data' = data /\ kept' = kept
      /\ \/ fil.size = 0 /\ Chained(c)
         \/ fil.size # 0 /\ Goto("storage", "link") /\ fil' = fil
  BY DEF Mark, Here, At, medium
<1>3. th["storage"].pc \in WritePlaces /\ th["storage"].pc \in Extending /\ th["storage"].pc # "data"
  BY <1>2 DEF WritePlaces, Extending
<1>4. /\ \A q \in Thread : q # "storage" => th[q] = Idle
      /\ fil.size % ClusterSize = 0 /\ fil.size \in Nat
      /\ \A q \in Thread : th[q].pc \notin SavedPlaces
      /\ fil.open /\ ~Live(n) /\ n \in File
      /\ fil.sclust = 0 => \A x \in Cluster : own[x] # n
      /\ fil.sclust # 0 => AtEnd(own, pos)
  BY <1>1, <1>3, AtFile
<1>5. /\ c \in Cluster /\ CurFat' = [CurFat EXCEPT ![c] = EOC]
      /\ CardFat' = CardFat /\ CurDir' = CurDir /\ CardDir' = CardDir
  BY MarkStep, SeesLink
<1>6. CurFat[c] = 0 /\ own[c] = Nobody /\ c \notin Taken
  <2>1. CurFat[c] = 0
    BY <1>1, <1>2, Both DEF Places, Removal
  <2>2. ~LinkOK(own, pos, c, 0)
    BY Constants DEF LinkOK
  <2>3. QED BY <1>1, <1>5, <2>1, <2>2 DEF Core, Linked, TakenInv
<1>7. CurFat'[c] = EOC /\ \A x \in Cluster : x # c => CurFat'[x] = CurFat[x]
  BY <1>5, ViewTypes
<1>8. th = [q \in Thread |-> th[q]] /\ th["storage"] \in Locals
  BY Both DEF VolumeInv, ThreadInv, LocalsOK
<1>9. CASE fil.size = 0 /\ Chained(c)
  <2>1. fil.sclust = 0
    <3>1. AtEnd(own, pos) => pos[fil.clust] * ClusterSize < 0 /\ pos[fil.clust] \in Nat
      BY <1>3, <1>9 DEF AtEnd, Positions
    <3>2. \A k \in Nat : ~(k * ClusterSize < 0)
      BY Constants
    <3>3. QED BY <1>4, <3>1, <3>2
  <2>2. /\ fil'.open /\ fil'.clust = c /\ fil'.size = 0 /\ fil'.name = n /\ fil'.sclust = c
        /\ Goto("storage", "data")
    <3>1. fil.open /\ fil.modified /\ fs.mounted
      BY <1>3, AtWrite
    <3>2. QED BY <1>5, <1>9, <2>1, <3>1, ChainedIs
  <2>3. /\ th'["storage"].pc = "data"
        /\ \A q \in Thread : q # "storage" => th[q] = Idle /\ th'[q] = Idle
    BY <1>4, <1>8, <2>2, Both DEF Goto, Locals
  <2>4. /\ new \in [Cluster -> File \union {Nobody}] /\ new[c] = n
        /\ at \in [Cluster -> Nat] /\ at[c] = 0
        /\ \A x \in Cluster : x # c => new[x] = own[x] /\ at[x] = pos[x]
    BY <1>0, <1>4, <1>5 DEF Owners, Positions
  <2>5. \A x \in Cluster : new[x] = n => x = c
    BY <1>4, <2>1, <2>4
  <2>6. \A x \in Cluster : new[x] = n => LinkOK(new, at, x, CurFat'[x])
    BY <1>7, <2>4, <2>5 DEF LinkOK
  <2>7. new \in Owners /\ at \in Positions /\ Core(new, at)'
    <3>1. \A x \in Cluster : own[x] = n => pos[x] # at[c]
      BY <1>4, <2>1
    <3>2. \A x \in Cluster : own[x] # n /\ x # c => CurFat'[x] = CurFat[x]
      BY <1>7
    <3>3. new \in Owners /\ at \in Positions
      BY <2>4 DEF Owners, Positions
    <3> HIDE DEF c, n
    <3>4. QED BY <1>1, <1>2, <1>4, <1>5, <1>6, <2>4, <2>6, <3>1, <3>2, <3>3, Grown
  <2>8. AtEnd(new, at)'
    <3>1. Holds(new, at, n, 0)'
      <4>1. \A k \in Nat : \A j \in 0 .. ClusterSize - 1 : ~(k * ClusterSize + j < 0)
        BY Constants
      <4>2. QED BY <2>4, <4>1 DEF Holds
    <3>2. 0 * ClusterSize <= 0 /\ 0 < (0 + 1) * ClusterSize
      BY Constants
    <3>3. Holds(new, at, fil.name, fil.size)'
      BY <2>2, <3>1 DEF Holds
    <3>4. QED BY <1>5, <1>7, <2>2, <2>3, <2>4, <3>2, <3>3 DEF AtEnd
  <2>9. fil'.sclust # 0
    BY <1>5, <2>2, Constants
  <2>10. QED BY <1>2, <1>4, <1>5, <2>2, <2>3, <2>7, <2>8, <2>9, FilledNext
<1>10. CASE fil.size # 0 /\ Goto("storage", "link") /\ fil' = fil
  <2>1. /\ th'["storage"].pc = "link" /\ th'["storage"].cl = c
        /\ \A q \in Thread : q # "storage" => th'[q] = Idle
    BY <1>4, <1>8, <1>10, Both DEF Goto, Locals
  <2>2. \A x \in Cluster : own[x] # Nobody => CurFat'[x] = CurFat[x]
    BY <1>6, <1>7
  <2>3. Core(own, pos)'
    <3>1. \A m, j : Holds(own, pos, m, j)' <=> Holds(own, pos, m, j)
      BY <1>2 DEF Holds
    <3>2. \A m, x : EntryOK(own, pos, m, x)' <=> EntryOK(own, pos, m, x)
      BY <3>1 DEF EntryOK
    <3>3. Entries(own, pos)'
      BY <1>1, <1>5, <3>2 DEF Core, Entries
    <3>4. \A m : Live(m)' <=> Live(m)
      BY <1>5 DEF Live
    <3>5. Linked(own, pos)'
      BY <1>1, <1>5, <2>2, <3>4 DEF Core, Linked, LinkOK
    <3>6. TakenInv(own)' /\ Shared(own, pos)'
      <4>1. \A x \in Taken : x \in Cluster /\ x # c
        BY <1>6, VolumeAssumption DEF Cluster
      <4>2. QED BY <1>1, <1>5, <1>7, <4>1 DEF Core, TakenInv, Shared
    <3>7. QED BY <3>3, <3>5, <3>6 DEF Core
  <2>4. Removal(own, pos)'
    BY <1>6, <1>7, <2>1, Both DEF Removal
  <2>5. Growing(own, pos)'
    <3>1. Live(fil.name)' <=> Live(fil.name)
      BY <1>5, <1>10 DEF Live
    <3>2. AtEnd(own, pos) => AtEnd(own, pos)'
      <4>1. Holds(own, pos, fil.name, fil.size)' <=> Holds(own, pos, fil.name, fil.size)
        BY <1>2, <1>10 DEF Holds
      <4>2. fil.clust \in Cluster /\ own[fil.clust] = n => CurFat'[fil.clust] = CurFat[fil.clust]
        BY <1>4, <2>2 DEF File, Nobody
      <4>3. QED BY <1>3, <1>10, <2>1, <4>1, <4>2 DEF AtEnd
    <3>3. /\ ~Live(fil.name)
          /\ fil.sclust = 0 => fil.clust = 0 /\ fil.size = 0 /\ \A x \in Cluster : own[x] # fil.name
          /\ fil.sclust # 0 => AtEnd(own, pos)
      BY <1>1, <1>3, AtFile
    <3>4. QED BY <1>4, <1>10, <3>1, <3>2, <3>3 DEF Growing
  <2>6. Agree'
    <3>1. \A q \in Thread : th[q].pc \notin {"get", "sync"}
      BY <1>2, <1>4, Both
    <3>2. QED BY <1>5, <3>1 DEF ChainInv, Agree
  <2>7. Saved'
    <3>1. \A q \in Thread : th'[q].pc \in {"link", "idle"}
      BY <2>1, Both
    <3>2. "link" \notin SavedPlaces /\ "idle" \notin SavedPlaces
      BY DEF SavedPlaces
    <3>3. QED BY <1>2, <1>5, <1>10, <3>1, <3>2 DEF ChainInv, Saved
  <2>8. QED BY <1>1, <2>3, <2>4, <2>5, <2>6, <2>7 DEF ChainInv, Places
<1>11. QED BY <1>2, <1>9, <1>10

(* The marked cluster becomes the file's last one.                          *)
LEMMA LinkClusterChain ==
  ASSUME VolumeInv, ChainInv, LinkCluster
  PROVE  ChainInv'
<1> DEFINE c == th["storage"].cl
           n == fil.name
           k == fil.clust
<1>1. PICK own \in Owners, pos \in Positions : Core(own, pos) /\ Places(own, pos)
  BY DEF ChainInv
<1>0. PICK new, at : new = [own EXCEPT ![c] = n] /\ at = [pos EXCEPT ![c] = pos[k] + 1]
  OBVIOUS
<1>2. th["storage"].pc = "link" /\ data' = data /\ kept' = kept /\ Chained(c)
  BY DEF LinkCluster, Here, At, medium
<1>3. th["storage"].pc \in WritePlaces /\ th["storage"].pc \in Extending /\ th["storage"].pc # "data"
  BY <1>2 DEF WritePlaces, Extending
<1>4. /\ \A q \in Thread : q # "storage" => th[q] = Idle
      /\ fil.size % ClusterSize = 0 /\ fil.size \in Nat
      /\ fil.open /\ ~Live(n) /\ n \in File
      /\ fil.sclust = 0 => fil.size = 0
      /\ fil.sclust # 0 => AtEnd(own, pos)
  BY <1>1, <1>3, AtFile
<1>5. fil.sclust # 0 /\ AtEnd(own, pos) /\ fil.sclust \in Cluster
  <2>1. fil.size > 0 /\ fil \in FilType
    BY <1>2 DEF VolumeInv, FilInv
  <2>2. QED BY <1>4, <2>1 DEF FilType
<1>6. /\ c \in Cluster /\ k \in Cluster /\ CurFat' = [CurFat EXCEPT ![k] = c]
      /\ CardFat' = CardFat /\ CurDir' = CurDir /\ CardDir' = CardDir
  <2>1. \E x \in Cluster, v \in {c} : x = k /\ disk' = disk /\ \A s \in Sector :
            Cur(s)' = IF s = FatOf(x) THEN [Cur(s) EXCEPT ![Link(x)] = v] ELSE Cur(s)
    BY LinkClusterStep
  <2>2. PICK x \in Cluster, v \in {c} : x = k /\ disk' = disk /\ \A s \in Sector :
            Cur(s)' = IF s = FatOf(x) THEN [Cur(s) EXCEPT ![Link(x)] = v] ELSE Cur(s)
    BY <2>1
  <2>3. /\ CurFat' = [CurFat EXCEPT ![x] = v]
        /\ CardFat' = CardFat /\ CurDir' = CurDir /\ CardDir' = CardDir
    BY <2>2, SeesLink
  <2>4. QED BY <2>2, <2>3, LinkClusterStep
<1>7. own[c] = Nobody /\ c \notin Taken /\ CurFat[c] = EOC
  BY <1>1, <1>2, Both DEF Places, Removal
<1>8. /\ own[k] = n /\ CurFat[k] = EOC /\ own[fil.sclust] = n /\ pos[fil.sclust] = 0
      /\ Holds(own, pos, n, fil.size)
      /\ pos[k] * ClusterSize < fil.size /\ fil.size <= (pos[k] + 1) * ClusterSize
  BY <1>3, <1>5 DEF AtEnd
<1>9. n # Nobody /\ c # k
  BY <1>4, <1>7, <1>8 DEF File, Nobody
<1>10. CurFat'[k] = c /\ \A x \in Cluster : x # k => CurFat'[x] = CurFat[x]
  BY <1>6, ViewTypes
<1>11. /\ pos[k] \in Nat /\ pos[k] + 1 \in Nat
       /\ new \in Owners /\ new[c] = n /\ at \in Positions /\ at[c] = pos[k] + 1
       /\ \A x \in Cluster : x # c => new[x] = own[x] /\ at[x] = pos[x]
  BY <1>0, <1>4, <1>6 DEF Owners, Positions
<1>12. fil.size = (pos[k] + 1) * ClusterSize
  <2>1. ASSUME NEW i \in Nat, NEW size \in Nat, i * ClusterSize < size,
               size <= (i + 1) * ClusterSize, size % ClusterSize = 0
        PROVE  size = (i + 1) * ClusterSize
    <3> DEFINE q == size \div ClusterSize
    <3>1. q \in Nat /\ size = ClusterSize * q
      BY <2>1, Constants, Quotient
    <3> HIDE DEF q
    <3>2. size = q * ClusterSize
      BY <3>1, Constants
    <3>3. ~(q <= i)
      BY <2>1, <3>1, <3>2, Constants, Times
    <3>4. ~(i + 2 <= q)
      <4>1. ASSUME i + 2 <= q PROVE FALSE
        <5>1. i + 2 \in Nat /\ i + 1 \in Nat
          OBVIOUS
        <5>2. (i + 2) * ClusterSize <= size
          BY <3>1, <3>2, <4>1, <5>1, Constants, Times
        <5>3. (i + 2) * ClusterSize = (i + 1) * ClusterSize + ClusterSize
          BY Constants
        <5>4. (i + 1) * ClusterSize \in Nat
          BY Constants
        <5>5. QED BY <2>1, <5>2, <5>3, <5>4, Constants
      <4>2. QED BY <4>1
    <3>5. q = i + 1
      BY <3>1, <3>3, <3>4
    <3>6. QED BY <3>2, <3>5
  <2>2. QED BY <1>4, <1>8, <1>11, <2>1
<1>13. \A x \in Cluster : own[x] = n => pos[x] <= pos[k]
  <2>1. LinkOK(own, pos, k, EOC)
    BY <1>1, <1>6, <1>8, <1>9 DEF Core, Linked
  <2>2. QED BY <1>8, <2>1, Constants DEF LinkOK
<1>14. th = [q \in Thread |-> th[q]] /\ th["storage"] \in Locals
  BY Both DEF VolumeInv, ThreadInv, LocalsOK
<1>15. /\ fil'.open /\ fil'.clust = c /\ fil'.size = fil.size /\ fil'.name = n
       /\ fil'.sclust = fil.sclust /\ Goto("storage", "data")
  <2>1. fil.open /\ fil.modified /\ fs.mounted
    BY <1>3, AtWrite
  <2>2. QED BY <1>2, <1>5, <1>6, <2>1, ChainedIs
<1>16. /\ th'["storage"].pc = "data"
       /\ \A q \in Thread : q # "storage" => th[q] = Idle /\ th'[q] = Idle
  BY <1>4, <1>14, <1>15, Both DEF Goto, Locals
<1>17. ASSUME NEW x \in Cluster, new[x] = n
       PROVE  LinkOK(new, at, x, CurFat'[x])
  <2>1. CASE x = c
    <3>1. \A d \in Cluster : new[d] = n => at[d] <= at[c]
      <4>1. \A d \in Cluster : pos[d] \in Nat
        BY DEF Positions
      <4>2. QED BY <1>11, <1>13, <4>1
    <3>2. QED BY <1>6, <1>7, <1>9, <1>10, <1>11, <2>1, <3>1 DEF LinkOK
  <2>2. CASE x = k
    BY <1>6, <1>8, <1>9, <1>10, <1>11, <2>2 DEF LinkOK
  <2>3. CASE x # c /\ x # k
    <3>1. own[x] = n /\ own[x] # Nobody
      BY <1>9, <1>11, <1>17, <2>3
    <3>2. LinkOK(own, pos, x, CurFat[x])
      BY <1>1, <3>1 DEF Core, Linked
    <3>3. pos[x] # pos[k]
      BY <1>1, <1>6, <1>8, <2>3, <3>1 DEF Core, Shared
    <3>4. CurFat[x] \in Cluster /\ own[CurFat[x]] = n /\ pos[CurFat[x]] = pos[x] + 1
      <4>1. pos[x] \in Nat /\ pos[x] <= pos[k]
        BY <1>13, <3>1 DEF Positions
      <4>2. ~(pos[k] <= pos[x])
        BY <1>11, <3>3, <4>1
      <4>3. QED BY <1>6, <1>8, <3>1, <3>2, <4>2 DEF LinkOK
    <3>5. CurFat[x] # c
      BY <1>7, <1>9, <3>4
    <3>6. QED BY <1>10, <1>11, <1>17, <2>3, <3>4, <3>5 DEF LinkOK
  <2>4. QED BY <2>1, <2>2, <2>3
<1>18. Core(new, at)'
  <2>1. \A x \in Cluster : own[x] = n => pos[x] # at[c]
    BY <1>11, <1>13
  <2>2. \A x \in Cluster : own[x] # n /\ x # c => CurFat'[x] = CurFat[x]
    BY <1>8, <1>10
  <2>3. \A x \in Cluster : new[x] = n => LinkOK(new, at, x, CurFat'[x])
    BY <1>17
  <2> HIDE DEF c, n
  <2>4. QED BY <1>1, <1>2, <1>4, <1>6, <1>7, <1>11, <2>1, <2>2, <2>3, Grown
<1>19. AtEnd(new, at)'
  <2>1. fil.sclust # c
    BY <1>7, <1>8, <1>9
  <2>2. Holds(new, at, n, fil.size)
    <3>1. ASSUME NEW x \in Cluster, new[x] = n, NEW j \in 0 .. ClusterSize - 1,
                 at[x] * ClusterSize + j < fil.size
          PROVE  data[x][j] = <<n, at[x] * ClusterSize + j>>
      <4>1. CASE x = c
        <5>1. ~((pos[k] + 1) * ClusterSize + j < fil.size)
          <6>1. \A i \in Nat : ~(i + j < i)
            OBVIOUS
          <6>2. (pos[k] + 1) * ClusterSize \in Nat
            BY <1>4, <1>12
          <6>3. QED BY <1>12, <6>1, <6>2
        <5>2. QED BY <1>11, <3>1, <4>1, <5>1
      <4>2. CASE x # c
        BY <1>8, <1>11, <3>1, <4>2 DEF Holds
      <4>3. QED BY <4>1, <4>2
    <3>2. QED BY <3>1 DEF Holds
  <2>3. Holds(new, at, fil.name, fil.size)' <=> Holds(new, at, n, fil.size)
    BY <1>2, <1>15 DEF Holds
  <2>4. at[c] * ClusterSize <= fil.size /\ fil.size < (at[c] + 1) * ClusterSize
    <3>1. ASSUME NEW i \in Nat PROVE /\ i * ClusterSize <= i * ClusterSize
                                     /\ i * ClusterSize < (i + 1) * ClusterSize
      BY Constants
    <3>2. QED BY <1>11, <1>12, <3>1
  <2>5. QED BY <1>5, <1>6, <1>7, <1>8, <1>9, <1>10, <1>11, <1>15, <1>16, <2>1, <2>2, <2>3, <2>4
            DEF AtEnd
<1>20. QED BY <1>2, <1>4, <1>5, <1>6, <1>11, <1>15, <1>16, <1>18, <1>19, FilledNext

(* Where offset size of a file is in the cluster that holds it.             *)
LEMMA Within ==
  ASSUME NEW i \in Nat, NEW size \in Nat,
         i * ClusterSize <= size, size < (i + 1) * ClusterSize
  PROVE  size = i * ClusterSize + (size % ClusterSize) /\ size % ClusterSize \in 0 .. ClusterSize - 1
<1> DEFINE r == size - i * ClusterSize
<1>1. i * ClusterSize \in Nat /\ (i + 1) * ClusterSize = i * ClusterSize + ClusterSize
  BY Constants
<1>2. r \in 0 .. ClusterSize - 1 /\ size = i * ClusterSize + r
  BY <1>1, Constants
<1> HIDE DEF r
<1>3. ClusterSize * i = i * ClusterSize
  BY Constants
<1>4. (ClusterSize * i + r) % ClusterSize = r
  BY <1>2, Constants, QuotientIs
<1>5. QED BY <1>2, <1>3, <1>4

LEMMA WriteDataChain ==
  ASSUME VolumeInv, ChainInv, WriteData
  PROVE  ChainInv'
<1> DEFINE n == fil.name
           k == fil.clust
           size == fil.size
           first == size % ClusterSize
           left == th["storage"].left
           room == ClusterSize - first
           cc == IF left < room THEN left ELSE room
           go == Onward(size + cc, left - cc)
<1>1. PICK own \in Owners, pos \in Positions : Core(own, pos) /\ Places(own, pos)
  BY DEF ChainInv
<1>2. /\ th["storage"].pc = "data" /\ kept' = kept
      /\ data' = [data EXCEPT ![k] =
                    [i \in 0 .. ClusterSize - 1 |->
                       IF i >= first /\ i < first + cc THEN <<n, size + i - first>> ELSE @[i]]]
      /\ fil' = [fil EXCEPT !.size = size + cc]
      /\ th' = [th EXCEPT !["storage"].left = left - cc, !["storage"].pc = go]
  BY DEF WriteData, At
<1>3. CurFat' = CurFat /\ CardFat' = CardFat /\ CurDir' = CurDir /\ CardDir' = CardDir
        /\ k \in Cluster
  BY WriteDataStep, SeesSame
<1>4. th["storage"].pc \in WritePlaces
  BY <1>2 DEF WritePlaces
<1>5. /\ \A q \in Thread : q # "storage" => th[q] = Idle
      /\ fil.open /\ ~Live(n) /\ n \in File /\ fil.sclust # 0 /\ AtEnd(own, pos)
      /\ size \in Nat /\ fil \in FilType
      /\ left \in Nat /\ left > 0
  BY <1>1, <1>3, <1>4, AtFile, AtWrite, Constants
<1>6. /\ own[k] = n /\ CurFat[k] = EOC /\ own[fil.sclust] = n /\ pos[fil.sclust] = 0
      /\ Holds(own, pos, n, size)
      /\ pos[k] * ClusterSize <= size /\ size < (pos[k] + 1) * ClusterSize
  BY <1>2, <1>5 DEF AtEnd
<1>7. n # Nobody
  BY <1>5 DEF File, Nobody
<1>8. \A x \in Cluster : pos[x] \in Nat
  BY DEF Positions
<1>9. \A x \in Cluster : own[x] = n => pos[x] <= pos[k]
  <2>1. LinkOK(own, pos, k, EOC)
    BY <1>1, <1>3, <1>6, <1>7 DEF Core, Linked
  <2>2. QED BY <1>6, <2>1, Constants DEF LinkOK
<1>10. size = pos[k] * ClusterSize + first /\ first \in 0 .. ClusterSize - 1
  BY <1>3, <1>5, <1>6, <1>8, Within
<1>11. th = [q \in Thread |-> th[q]] /\ th["storage"] \in Locals
  BY Both DEF VolumeInv, ThreadInv, LocalsOK
<1> HIDE DEF first
<1>12. cc \in Nat /\ cc > 0 /\ cc <= left /\ first + cc <= ClusterSize
  BY <1>5, <1>10, Constants
<1>13. \A i \in 0 .. ClusterSize - 1 :
         data'[k][i] = IF i >= first /\ i < first + cc THEN <<n, size + i - first>> ELSE data[k][i]
  BY <1>2, <1>3 DEF VolumeInv, CardOK
<1>14. \A x \in Cluster : x # k => data'[x] = data[x]
  BY <1>2 DEF VolumeInv, CardOK
<1> HIDE DEF cc
<1>15. size + cc \in Nat /\ left - cc \in Nat
  BY <1>5, <1>12
<1>16. /\ go \in {"written", "data", "new", "follow"} /\ go # "new"
       /\ go = "data" => (size + cc) % ClusterSize # 0
       /\ go = "follow" => (size + cc) % ClusterSize = 0
  <2>1. size + cc > 0
    BY <1>5, <1>12
  <2>2. QED BY <1>15, <2>1, OnwardIs
<1> HIDE DEF go
<1>17. /\ th'["storage"].pc = go
       /\ \A q \in Thread : q # "storage" => th'[q] = Idle
  BY <1>2, <1>5, <1>11, Both DEF Locals
<1>18. /\ fil'.open /\ fil'.clust = k /\ fil'.size = size + cc /\ fil'.name = n
       /\ fil'.sclust = fil.sclust
  BY <1>2, <1>5 DEF FilType
<1> HIDE DEF left, size
<1>19. /\ pos[k] * ClusterSize < size + cc /\ size + cc <= (pos[k] + 1) * ClusterSize
       /\ go = "data" => size + cc < (pos[k] + 1) * ClusterSize
  <2>1. pos[k] * ClusterSize \in Nat /\ (pos[k] + 1) * ClusterSize = pos[k] * ClusterSize + ClusterSize
    BY <1>3, <1>8, Constants
  <2>2. pos[k] * ClusterSize < size + cc /\ size + cc <= (pos[k] + 1) * ClusterSize
    BY <1>10, <1>12, <2>1, Constants
  <2>3. ((pos[k] + 1) * ClusterSize) % ClusterSize = 0
    BY <1>3, <1>8, Constants
  <2>4. QED BY <1>15, <1>16, <2>1, <2>2, <2>3, Constants
<1>20. ASSUME NEW x \in Cluster, own[x] = n, NEW j \in 0 .. ClusterSize - 1,
              pos[x] * ClusterSize + j < size + cc
       PROVE  data'[x][j] = <<n, pos[x] * ClusterSize + j>>
  <2>1. CASE x = k
    <3>1. CASE j < first
      <4>1. pos[k] * ClusterSize + j < size
        <5>1. pos[k] * ClusterSize \in Nat
          BY <1>3, <1>8, Constants
        <5>2. QED BY <1>10, <3>1, <5>1, Constants
      <4>2. data'[k][j] = data[k][j]
        <5>1. ~(j >= first)
          BY <1>10, <3>1, Constants
        <5>2. QED BY <1>13, <5>1
      <4>3. QED BY <1>3, <1>6, <2>1, <4>1, <4>2 DEF Holds
    <3>2. CASE ~(j < first)
      <4>1. pos[k] * ClusterSize \in Nat
        BY <1>3, <1>8, Constants
      <4>2. j >= first /\ j < first + cc
        BY <1>10, <1>12, <1>20, <2>1, <3>2, <4>1, Constants
      <4>3. size + j - first = pos[k] * ClusterSize + j
        BY <1>10, <4>1, Constants
      <4>4. QED BY <1>13, <2>1, <4>2, <4>3
    <3>3. QED BY <3>1, <3>2
  <2>2. CASE x # k
    <3>1. pos[x] # pos[k]
      BY <1>1, <1>3, <1>6, <1>7, <1>20, <2>2 DEF Core, Shared
    <3>2. pos[x] + 1 <= pos[k] /\ pos[x] + 1 \in Nat
      BY <1>3, <1>8, <1>9, <1>20, <3>1
    <3>3. (pos[x] + 1) * ClusterSize <= pos[k] * ClusterSize
      BY <1>3, <1>8, <3>2, Times, Constants
    <3>4. (pos[x] + 1) * ClusterSize = pos[x] * ClusterSize + ClusterSize
            /\ pos[x] * ClusterSize \in Nat /\ pos[k] * ClusterSize \in Nat
      BY <1>3, <1>8, Constants
    <3>5. pos[x] * ClusterSize + j < size
      BY <1>5, <1>6, <3>3, <3>4, Constants DEF size
    <3>6. data[x][j] = <<n, pos[x] * ClusterSize + j>>
      BY <1>6, <1>20, <3>5 DEF Holds
    <3>7. QED BY <1>14, <2>2, <3>6
  <2>3. QED BY <2>1, <2>2
<1>21. Core(own, pos)'
  <2>1. ASSUME NEW m \in File, NEW e, m # n \/ e.clust = 0, EntryOK(own, pos, m, e)
        PROVE  EntryOK(own, pos, m, e)'
    <3>1. CASE m # n
      <4>1. \A x \in Cluster : own[x] = m => data'[x] = data[x]
        BY <1>6, <1>14, <3>1
      <4>2. \A j : Holds(own, pos, m, j)' <=> Holds(own, pos, m, j)
        BY <4>1 DEF Holds
      <4>3. QED BY <2>1, <4>2 DEF EntryOK
    <3>2. CASE e.clust = 0
      BY <2>1, <3>2 DEF EntryOK
    <3>3. QED BY <2>1, <3>1, <3>2
  <2>2. Entries(own, pos)'
    <3>1. ASSUME NEW m \in File
          PROVE  EntryOK(own, pos, m, CardDir[m])' /\ EntryOK(own, pos, m, CurDir[m])'
      <4>1. EntryOK(own, pos, m, CardDir[m]) /\ EntryOK(own, pos, m, CurDir[m])
        BY <1>1 DEF Core, Entries
      <4>2. m = n => CardDir[m].clust = 0 /\ CurDir[m].clust = 0
        BY <1>5 DEF Live
      <4>3. PICK e, f : e = CardDir[m] /\ f = CurDir[m]
        OBVIOUS
      <4>4. EntryOK(own, pos, m, e)' /\ EntryOK(own, pos, m, f)'
        BY <2>1, <4>1, <4>2, <4>3
      <4>5. QED BY <1>3, <4>3, <4>4 DEF EntryOK
    <3>2. QED BY <3>1 DEF Entries
  <2>3. \A m : Live(m)' <=> Live(m)
    BY <1>3 DEF Live
  <2>4. Linked(own, pos)'
    BY <1>1, <1>3, <2>3 DEF Core, Linked, LinkOK
  <2>5. TakenInv(own)' /\ Shared(own, pos)'
    BY <1>1, <1>3 DEF Core, TakenInv, Shared
  <2>6. QED BY <2>2, <2>4, <2>5 DEF Core
<1>22. \A q \in Thread : th'[q].pc \in {"written", "data", "follow", "idle"}
  BY <1>16, <1>17, Both
<1>23. Removal(own, pos)'
  BY <1>22 DEF Removal
<1>24. Growing(own, pos)'
  <2>1. Live(fil.name)' <=> Live(fil.name)
    BY <1>3, <1>18 DEF Live
  <2>2. Holds(own, pos, fil.name, fil.size)'
    BY <1>18, <1>20 DEF Holds
  <2>3. AtEnd(own, pos)'
    <3>1. /\ own[fil'.sclust] = fil'.name /\ pos[fil'.sclust] = 0
          /\ fil'.clust \in Cluster /\ own[fil'.clust] = fil'.name /\ CurFat'[fil'.clust] = EOC
      BY <1>3, <1>6, <1>18
    <3>2. /\ pos[fil'.clust] * ClusterSize < fil'.size
          /\ fil'.size <= (pos[fil'.clust] + 1) * ClusterSize
          /\ th'["storage"].pc = "data" => fil'.size < (pos[fil'.clust] + 1) * ClusterSize
      BY <1>17, <1>18, <1>19
    <3>3. pos[fil'.clust] * ClusterSize \in Nat /\ fil'.size \in Nat
      BY <1>3, <1>8, <1>15, <1>18, Constants
    <3>4. pos[fil'.clust] * ClusterSize <= fil'.size
      BY <3>2, <3>3
    <3>5. QED BY <2>2, <3>1, <3>2, <3>4 DEF AtEnd
  <2>4. th'["storage"].pc \in Extending => (size + cc) % ClusterSize = 0
    BY <1>16, <1>17 DEF Extending
  <2>5. QED BY <1>5, <1>18, <2>1, <2>3, <2>4 DEF Growing
<1>25. Agree'
  <2>1. \A q \in Thread : th[q].pc \notin {"get", "sync"}
    BY <1>2, <1>5, Both
  <2>2. QED BY <1>3, <2>1 DEF ChainInv, Agree
<1>26. Saved'
  <2>1. \A q \in Thread : th'[q].pc \notin SavedPlaces /\ th'[q].pc \notin {"get", "free", "back", "fsinfo", "closed"}
    BY <1>22 DEF SavedPlaces
  <2>2. QED BY <1>2, <1>3, <1>5, <1>18, <2>1 DEF ChainInv, Saved
<1>27. QED BY <1>1, <1>21, <1>23, <1>24, <1>25, <1>26 DEF ChainInv, Places

(* The entry of a file is in the window: its whole chain is on the card.    *)
LEMMA SaveEntryChain ==
  ASSUME VolumeInv, ChainInv, NEW p \in Thread, SaveEntry(p)
  PROVE  ChainInv'
<1> DEFINE n == fil.name
           e == FilEntry
<1>1. PICK own \in Owners, pos \in Positions : Core(own, pos) /\ Places(own, pos)
  BY DEF ChainInv
<1>2. /\ data' = data /\ kept' = kept /\ fil' = fil
      /\ th' = [th EXCEPT ![p] = [th[p] EXCEPT !.pc = "sync"]]
  BY DEF SaveEntry, Goto, medium
<1>3. /\ th[p].pc = "save" /\ win.sect = Dir /\ fil.open /\ n \in File
      /\ \A q \in Thread : q # p => th[q] = Idle
  BY SaveEntryStep
<1>4. /\ CurDir' = [CurDir EXCEPT ![n] = e]
      /\ CurFat' = CurFat /\ CardFat' = CardFat /\ CardDir' = CardDir
  <2>1. disk' = disk /\ \E m \in File, x \in {e} : m = n /\ \A s \in Sector :
            Cur(s)' = IF s = Dir THEN [Cur(s) EXCEPT ![Entry(m)] = x] ELSE Cur(s)
    BY SaveEntryStep DEF FilEntry
  <2>2. PICK m \in File, x \in {e} : m = n /\ \A s \in Sector :
            Cur(s)' = IF s = Dir THEN [Cur(s) EXCEPT ![Entry(m)] = x] ELSE Cur(s)
    BY <2>1
  <2>3. /\ CurDir' = [CurDir EXCEPT ![m] = x]
        /\ CurFat' = CurFat /\ CardFat' = CardFat /\ CardDir' = CardDir
    BY <2>1, <2>2, SeesEntry
  <2>4. QED BY <2>2, <2>3
<1>5. CurFat = CardFat
  BY <1>3, OneSector
<1>6. CurDir'[n] = e /\ \A m \in File : m # n => CurDir'[m] = CurDir[m]
  BY <1>3, <1>4, ViewTypes
<1>7. /\ th' = [q \in Thread |-> th'[q]] /\ th'[p].pc = "sync"
      /\ \A q \in Thread : q # p => th'[q] = Idle
  BY <1>2, <1>3 DEF VolumeInv, ThreadInv, LocalsOK, Locals
<1>8. \A q \in Thread : /\ th[q].pc \in {"save", "idle"} /\ th[q].pc \notin SavedPlaces
                        /\ th[q].pc # "data"
  BY <1>3, Both DEF SavedPlaces
<1>9. /\ ~Live(n)
      /\ fil.sclust = 0 => fil.size = 0
      /\ fil.sclust # 0 => AtEnd(own, pos)
  BY <1>1, <1>3, <1>8 DEF Places, Growing
<1>10. e.clust = fil.sclust /\ e.size = fil.size
  BY DEF FilEntry
<1>11. EntryOK(own, pos, n, e)
  <2>1. ASSUME fil.sclust # 0
        PROVE  /\ own[fil.sclust] = n /\ pos[fil.sclust] = 0 /\ Holds(own, pos, n, fil.size)
               /\ \E c \in Cluster : own[c] = n /\ fil.size <= (pos[c] + 1) * ClusterSize
    <3>1. AtEnd(own, pos) /\ th["storage"].pc # "data"
      BY <1>8, <1>9, <2>1, Both
    <3>2. QED BY <3>1 DEF AtEnd
  <2>2. QED BY <1>9, <1>10, <2>1 DEF EntryOK
<1> HIDE DEF e
<1>12. Core(own, pos)'
  <2>1. \A m, j : Holds(own, pos, m, j)' <=> Holds(own, pos, m, j)
    BY <1>2 DEF Holds
  <2>2. \A m, x : EntryOK(own, pos, m, x)' <=> EntryOK(own, pos, m, x)
    BY <2>1 DEF EntryOK
  <2>3. \A m \in File : EntryOK(own, pos, m, CardDir[m]) /\ EntryOK(own, pos, m, CurDir'[m])
    BY <1>1, <1>6, <1>11 DEF Core, Entries
  <2>4. Entries(own, pos)'
    BY <1>4, <2>2, <2>3 DEF Entries
  <2>5. Linked(own, pos)'
    BY <1>1, <1>4, <1>5 DEF Core, Linked, LinkOK
  <2>6. TakenInv(own)' /\ Shared(own, pos)'
    BY <1>1, <1>4 DEF Core, TakenInv, Shared
  <2>7. QED BY <2>4, <2>5, <2>6 DEF Core
<1>13. \A q \in Thread : th'[q].pc \in {"sync", "idle"} /\ (th'[q].pc = "sync" => q = p)
  BY <1>7, Both
<1>14. Removal(own, pos)'
  BY <1>13 DEF Removal
<1>15. Growing(own, pos)'
  BY <1>7 DEF Growing, SavedPlaces
<1>16. Agree'
  <2>1. \A m \in File : CurDir[m].clust = CardDir[m].clust
    BY <1>8 DEF ChainInv, Agree
  <2>2. ASSUME NEW m \in File, CurDir'[m].clust # CardDir'[m].clust PROVE m = n
    BY <1>4, <1>6, <2>1, <2>2
  <2>3. QED BY <1>2, <1>7, <2>2 DEF Agree
<1>17. Saved'
  <2>1. FilEntry' = e
    BY <1>2 DEF FilEntry, e
  <2>2. CurDir'[fil'.name] = FilEntry'
    BY <1>2, <1>6, <2>1
  <2>3. \A m \in File : kept[m] # NotKept =>
            CardDir'[m].size = kept[m] /\ CurDir'[m].size = kept[m] /\ m # n
    BY <1>3, <1>4, <1>6 DEF ChainInv, Saved
  <2>4. QED BY <1>2, <1>13, <2>2, <2>3 DEF Saved
<1>18. QED BY <1>1, <1>12, <1>14, <1>15, <1>16, <1>17 DEF ChainInv, Places

LEMMA SyncEntryChain ==
  ASSUME VolumeInv, ChainInv, NEW p \in Thread, SyncEntry(p)
  PROVE  ChainInv'
<1>1. PICK own \in Owners, pos \in Positions : Core(own, pos) /\ Places(own, pos)
  BY DEF ChainInv
<1>2. data' = data /\ kept' = kept /\ fil' = fil
  BY DEF SyncEntry
<1>3. /\ th[p].pc = "sync" /\ th'[p].pc = "fsinfo"
      /\ \A q \in Thread : q # p => th[q] = Idle /\ th'[q] = Idle
      /\ CurFat' = CurFat /\ CardFat' = CurFat /\ CurDir' = CurDir /\ CardDir' = CurDir
  BY SyncEntryStep, SeesSynced
<1>4. Core(own, pos)'
  BY <1>1, <1>2, <1>3, CoreSynced
<1>5. \A q \in Thread : th'[q].pc \in {"fsinfo", "idle"}
  BY <1>3, Both
<1>6. Removal(own, pos)'
  BY <1>5 DEF Removal
<1>7. Growing(own, pos)'
  BY <1>3 DEF Growing, SavedPlaces
<1>8. Agree'
  BY <1>3 DEF Agree
<1>9. Saved'
  <2>1. FilEntry' = FilEntry
    BY <1>2 DEF FilEntry
  <2>2. CurDir[fil.name] = FilEntry
    BY <1>3 DEF ChainInv, Saved, SavedPlaces
  <2>3. QED BY <1>2, <1>3, <1>5, <2>1, <2>2 DEF ChainInv, Saved
<1>10. QED BY <1>1, <1>4, <1>6, <1>7, <1>8, <1>9 DEF ChainInv, Places

LEMMA SyncInfoChain ==
  ASSUME VolumeInv, ChainInv, NEW p \in Thread, SyncInfo(p)
  PROVE  ChainInv'
<1>1. PICK own \in Owners, pos \in Positions : Core(own, pos) /\ Places(own, pos)
  BY DEF ChainInv
<1>2. /\ data' = data /\ kept' = kept /\ fil'.open = fil.open /\ fil'.name = fil.name
      /\ FilEntry' = FilEntry
  <2>1. data' = data /\ kept' = kept /\ fil' = [fil EXCEPT !.modified = FALSE] /\ fil \in FilType
    BY DEF SyncInfo, VolumeInv, FilInv
  <2>2. QED BY <2>1 DEF FilType, FilEntry
<1>3. /\ th[p].pc = "fsinfo" /\ th'[p].pc = "closed"
      /\ \A q \in Thread : q # p => th[q] = Idle /\ th'[q] = Idle
      /\ CurFat' = CurFat /\ CardFat' = CardFat /\ CurDir' = CurDir /\ CardDir' = CardDir
  BY SyncInfoStep, SeesInfo
<1>4. Core(own, pos)'
  BY <1>1, <1>2, <1>3, CoreSame
<1>5. \A q \in Thread : th'[q].pc \in {"closed", "idle"} /\ th[q].pc \in {"fsinfo", "idle"}
  BY <1>3, Both
<1>6. Removal(own, pos)'
  BY <1>5 DEF Removal
<1>7. Growing(own, pos)'
  BY <1>3 DEF Growing, SavedPlaces
<1>8. Agree'
  BY <1>3, <1>5 DEF ChainInv, Agree
<1>9. Saved'
  <2>1. CurDir[fil.name] = FilEntry /\ CardDir[fil.name] = FilEntry
    BY <1>3 DEF ChainInv, Saved, SavedPlaces
  <2>2. QED BY <1>2, <1>3, <1>5, <2>1 DEF ChainInv, Saved
<1>10. QED BY <1>1, <1>4, <1>6, <1>7, <1>8, <1>9 DEF ChainInv, Places

(* f_close has returned FR_OK: the file is kept.                            *)
LEMMA ClosedChain ==
  ASSUME VolumeInv, ChainInv, NEW p \in Thread, Closed(p)
  PROVE  ChainInv'
<1>1. PICK own \in Owners, pos \in Positions : Core(own, pos) /\ Places(own, pos)
  BY DEF ChainInv
<1>2. /\ data' = data /\ th' = [th EXCEPT ![p] = [th[p] EXCEPT !.pc = AfterClose(p, ~Valid)]]
  BY DEF Closed, Goto, medium
<1>3. /\ th[p].pc = "closed" /\ fil.open /\ ~fil'.open /\ fil.name \in File
      /\ kept' = [kept EXCEPT ![fil.name] = fil.size]
      /\ CurFat' = CurFat /\ CardFat' = CardFat /\ CurDir' = CurDir /\ CardDir' = CardDir
      /\ \A q \in Thread : th'[q].pc \notin {"get", "free", "back"} \union SavedPlaces
  BY ClosedStep, SeesSame
<1>4. /\ \A q \in Thread : q # p => th[q] = Idle
      /\ th = [q \in Thread |-> th[q]] /\ th[p] \in Locals
  <2>1. th[p].pc # "idle"
    BY <1>3
  <2>2. QED BY <2>1, Alone DEF LocalsOK
<1>5. \A q \in Thread : /\ th'[q].pc \in {"pause", "unmount", "getfree", "idle"}
                        /\ th[q].pc \in {"closed", "idle"}
  <2> DEFINE go == AfterClose(p, ~Valid)
  <2>1. go \in {"pause", "unmount", "getfree"}
    BY AfterCloseIs, Both
  <2> HIDE DEF go
  <2>2. th' = [th EXCEPT ![p] = [th[p] EXCEPT !.pc = go]]
    BY <1>2 DEF go
  <2>3. th'[p].pc = go /\ \A q \in Thread : q # p => th'[q] = Idle
    BY <1>4, <2>2 DEF Locals
  <2>4. QED BY <1>3, <1>4, <2>1, <2>3, Both
<1>6. Core(own, pos)'
  BY <1>1, <1>2, <1>3, CoreSame
<1>7. Removal(own, pos)'
  BY <1>5 DEF Removal
<1>8. Growing(own, pos)'
  BY <1>3 DEF Growing
<1>9. Agree'
  BY <1>3, <1>5 DEF ChainInv, Agree
<1>10. Saved'
  <2>1. CurDir[fil.name].size = fil.size /\ CardDir[fil.name].size = fil.size
    <3>1. CurDir[fil.name] = FilEntry /\ CardDir[fil.name] = FilEntry
      BY <1>3 DEF ChainInv, Saved, SavedPlaces
    <3>2. QED BY <3>1 DEF FilEntry
  <2>2. kept'[fil.name] = fil.size /\ \A m \in File : m # fil.name => kept'[m] = kept[m]
    BY <1>3, FsTyped
  <2>3. \A m \in File : kept'[m] # NotKept => CardDir'[m].size = kept'[m] /\ CurDir'[m].size = kept'[m]
    BY <1>3, <2>1, <2>2 DEF ChainInv, Saved
  <2>4. \A q \in Thread : /\ th'[q].pc \notin SavedPlaces
                          /\ th'[q].pc \notin {"fsinfo", "closed", "get", "free", "back"}
    BY <1>5 DEF SavedPlaces
  <2>5. QED BY <1>3, <2>3, <2>4 DEF Saved
<1>11. QED BY <1>1, <1>6, <1>7, <1>8, <1>9, <1>10 DEF ChainInv, Places

-----------------------------------------------------------------------------
(* The keys and the reset.                                                  *)
LEMMA StopChain ==
  ASSUME VolumeInv, Exclusive, ChainInv, Stop
  PROVE  ChainInv'
<1>1. /\ data' = data /\ kept' = kept /\ fil' = fil
      /\ th' = [th EXCEPT !["keys"] = [th["keys"] EXCEPT !.pc = "close"]] /\ KeysMay
  BY DEF Stop, Goto, medium
<1>2. \A q \in Thread : th[q] = Idle
  BY <1>1, BothIdle
<1>3. th'["keys"].pc = "close" /\ \A q \in Thread : q # "keys" => th[q] = Idle /\ th'[q] = Idle
  BY <1>1, <1>2, Both DEF VolumeInv, ThreadInv, Idle
<1>4. "close" \notin SavedPlaces /\ "idle" \notin SavedPlaces
  BY DEF SavedPlaces
<1>5. /\ th["keys"].pc \notin {"get", "sync", "data"} /\ th["keys"].pc \notin SavedPlaces
      /\ th'["keys"].pc \notin {"get", "free", "back", "link", "mark", "data", "new", "follow", "search"}
      /\ th'["keys"].pc \notin SavedPlaces
  BY <1>2, <1>3, <1>4, Both
<1>6. disk' = disk /\ \A s \in Sector : Cur(s)' = Cur(s)
  BY StopStep
<1>7. QED BY <1>1, <1>3, <1>5, <1>6, Both, QuietStep

LEMMA StartNoCardChain ==
  ASSUME VolumeInv, Exclusive, ChainInv, StartNoCard
  PROVE  ChainInv'
<1>1. /\ data' = data /\ kept' = kept /\ th' = th /\ fil' = [fil EXCEPT !.open = FALSE] /\ KeysMay
  BY DEF StartNoCard, medium
<1>2. fil \in FilType /\ \A q \in Thread : th[q] = Idle
  BY <1>1, BothIdle
<1>3. ~fil'.open /\ \A q \in Thread : q # "keys" => th[q] = Idle /\ th'[q] = Idle
  BY <1>1, <1>2 DEF FilType
<1>4. /\ th["keys"].pc \notin {"get", "sync", "data"}
      /\ th'["keys"].pc \notin {"get", "free", "back", "link", "mark", "data", "new", "follow", "search"}
      /\ th'["keys"].pc \notin SavedPlaces
  BY <1>1, <1>2, Both DEF SavedPlaces
<1>5. disk' = disk /\ \A s \in Sector : Cur(s)' = Cur(s)
  BY StartNoCardStep
<1>6. QED BY <1>1, <1>3, <1>4, <1>5, Both, QuietStep

(* What was only in the window is lost; the chains that no entry on the     *)
(* card leads to are nobody's.                                              *)
LEMMA AfreshChain ==
  ASSUME VolumeInv, ChainInv, data' = data, kept' = kept, disk' = disk,
         \A s \in Sector : Cur(s)' = disk[s], ~fil'.open,
         \A q \in Thread : th'[q].pc \in {"idle", "boot"}
  PROVE  ChainInv'
<1>1. PICK own \in Owners, pos \in Positions : Core(own, pos) /\ Places(own, pos)
  BY DEF ChainInv
<1>0. PICK new : new = [c \in Cluster |-> IF own[c] # Nobody /\ CardDir[own[c]].clust # 0
                                          THEN own[c] ELSE Nobody]
  OBVIOUS
<1>2. CurFat' = CardFat /\ CardFat' = CardFat /\ CurDir' = CardDir /\ CardDir' = CardDir
  BY SeesCard
<1>3. /\ new \in Owners
      /\ \A c \in Cluster : new[c] # Nobody => new[c] = own[c] /\ CardDir[own[c]].clust # 0
      /\ \A c \in Cluster : own[c] # Nobody /\ CardDir[own[c]].clust # 0 => new[c] = own[c]
      /\ \A c \in Cluster : own[c] = Nobody => new[c] = Nobody
  BY <1>0 DEF Owners
<1>4. \A n \in File : n # Nobody
  BY DEF File, Nobody
<1> HIDE DEF Nobody
<1>5. Shared(new, pos)'
  BY <1>1, <1>3 DEF Core, Shared
<1>6. TakenInv(new)'
  <2>1. Taken \subseteq Cluster
    BY VolumeAssumption DEF Cluster
  <2>2. QED BY <1>1, <1>2, <1>3, <2>1 DEF Core, TakenInv
<1>7. ASSUME NEW c \in Cluster, new[c] # Nobody PROVE LinkOK(new, pos, c, CardFat[c])
  <2>1. own[c] # Nobody /\ new[c] = own[c] /\ CardDir[own[c]].clust # 0
    BY <1>3, <1>7
  <2>2. LinkOK(own, pos, c, CardFat[c])
    BY <1>1, <2>1 DEF Core, Linked, Live
  <2>3. \A d \in Cluster : own[d] = own[c] <=> new[d] = new[c]
    BY <1>3, <2>1
  <2>4. QED BY <2>2, <2>3 DEF LinkOK
<1>8. Linked(new, pos)'
  BY <1>2, <1>7 DEF Linked, LinkOK
<1>9. Entries(new, pos)'
  <2>1. \A m, j : Holds(new, pos, m, j)' <=> Holds(new, pos, m, j)
    BY DEF Holds
  <2>2. \A m, x : EntryOK(new, pos, m, x)' <=> EntryOK(new, pos, m, x)
    BY <2>1 DEF EntryOK
  <2>3. ASSUME NEW m \in File PROVE EntryOK(new, pos, m, CardDir[m])
    <3>1. EntryOK(own, pos, m, CardDir[m])
      BY <1>1 DEF Core, Entries
    <3>2. CASE CardDir[m].clust = 0
      BY <3>1, <3>2 DEF EntryOK
    <3>3. CASE CardDir[m].clust # 0
      <4>1. \A c \in Cluster : own[c] = m <=> new[c] = m
        BY <1>3, <1>4, <3>3
      <4>2. \A j : Holds(own, pos, m, j) => Holds(new, pos, m, j)
        BY <4>1 DEF Holds
      <4>3. CardDir[m].clust \in Cluster \union {0}
        BY ViewTypes DEF EntryType
      <4>4. QED BY <3>1, <3>3, <4>1, <4>2, <4>3 DEF EntryOK
    <3>4. QED BY <3>2, <3>3
  <2>4. QED BY <1>2, <2>2, <2>3 DEF Entries
<1>10. Core(new, pos)'
  BY <1>5, <1>6, <1>8, <1>9 DEF Core
<1>11. Removal(new, pos)'
  BY DEF Removal
<1>12. Growing(new, pos)'
  BY DEF Growing
<1>13. Agree'
  BY <1>2 DEF Agree
<1>14. Saved'
  <2>1. \A q \in Thread : th'[q].pc \notin SavedPlaces
    BY DEF SavedPlaces
  <2>2. QED BY <1>2, <2>1 DEF ChainInv, Saved
<1>15. QED BY <1>1, <1>3, <1>10, <1>11, <1>12, <1>13, <1>14 DEF ChainInv, Places

LEMMA StartChain ==
  ASSUME VolumeInv, Exclusive, ChainInv, Start \/ Reset
  PROVE  ChainInv'
<1>1. CASE Start
  <2>1. /\ data' = data /\ kept' = kept /\ fil' = fil /\ KeysMay /\ ~sampling
        /\ th' = [th EXCEPT !["keys"] = [th["keys"] EXCEPT !.pc = "boot"]]
    BY <1>1 DEF Start, Mount, Goto, medium
  <2>2. ~fil.open /\ \A q \in Thread : th[q] = Idle
    BY <2>1, BothIdle
  <2>3. \A q \in Thread : th'[q].pc \in {"idle", "boot"}
    BY <2>1, <2>2, Both DEF VolumeInv, ThreadInv, Idle
  <2>4. QED BY <1>1, <2>1, <2>2, <2>3, StartStep, AfreshChain
<1>2. CASE Reset
  <2>1. /\ data' = data /\ kept' = kept /\ fil' = NoFile /\ th' = [q \in Thread |-> Idle]
    BY <1>2 DEF Reset, medium
  <2>2. ~fil'.open /\ \A q \in Thread : th'[q].pc \in {"idle", "boot"}
    BY <2>1, Both DEF NoFile
  <2>3. QED BY <1>2, <2>1, <2>2, ResetStep, AfreshChain
<1>3. QED BY <1>1, <1>2

LEMMA ChainInit == Init => ChainInv
<1> SUFFICES ASSUME Init PROVE ChainInv
  OBVIOUS
<1>1. /\ win = NoWindow /\ fil = NoFile /\ th = [p \in Thread |-> Idle]
      /\ kept = [n \in File |-> NotKept] /\ VolumeInv
  BY VolumeInit DEF Init
<1>2. PICK free :
         disk = [s \in Sector |->
                   [k \in Fields(s) |->
                      CASE s \in FatSectors -> IF k[2] \in Taken THEN EOC ELSE 0
                        [] s = Dir -> Absent
                        [] OTHER -> IF k = Free THEN free ELSE Unknown]]
  BY DEF Init
<1>3. \A s : Cur(s) = disk[s]
  BY <1>1 DEF Cur, NoWindow
<1>4. \A c \in Cluster : CardFat[c] = IF c \in Taken THEN EOC ELSE 0
  <2>1. \A s \in FatSectors : \A k \in Fields(s) : disk[s][k] = IF k[2] \in Taken THEN EOC ELSE 0
    BY <1>2, Names DEF Sector
  <2>2. \A c \in Cluster : Link(c)[2] = c
    BY DEF Link
  <2>3. ASSUME NEW c \in Cluster
        PROVE  disk[FatOf(c)][Link(c)] = IF c \in Taken THEN EOC ELSE 0
    <3>1. FatOf(c) \in FatSectors /\ Link(c) \in Fields(FatOf(c))
      BY FieldsAre
    <3>2. disk[FatOf(c)][Link(c)] = IF Link(c)[2] \in Taken THEN EOC ELSE 0
      BY <2>1, <3>1
    <3>3. QED BY <2>2, <3>2
  <2>4. QED BY <2>3 DEF CardFat
<1>5. \A n \in File : CardDir[n] = Absent
  <2>1. ASSUME NEW n \in File PROVE disk[Dir][Entry(n)] = Absent
    <3>1. Dir \in Sector /\ Dir \notin FatSectors /\ Entry(n) \in Fields(Dir)
      BY InSector, FieldsAre, Names
    <3>2. QED BY <1>2, <3>1
  <2>2. QED BY <2>1 DEF CardDir
<1>6. CurFat = CardFat /\ CurDir = CardDir
  BY <1>3 DEF CurFat, CardFat, CurDir, CardDir
<1> DEFINE own == [c \in Cluster |-> Nobody]
           pos == [c \in Cluster |-> 0]
<1>7. own \in Owners /\ pos \in Positions /\ \A c \in Cluster : own[c] = Nobody
  BY DEF Owners, Positions
<1> HIDE DEF own, pos
<1>8. Absent.clust = 0 /\ Absent.size = 0
  BY DEF Absent
<1>9. Shared(own, pos) /\ Linked(own, pos)
  BY <1>7 DEF Shared, Linked
<1>10. TakenInv(own)
  <2>1. \A c \in Taken : c \in Cluster /\ EOC # 0
    BY VolumeAssumption DEF Cluster, EOC
  <2>2. QED BY <1>4, <1>6, <1>7, <2>1 DEF TakenInv
<1>11. Entries(own, pos)
  BY <1>5, <1>6, <1>8 DEF Entries, EntryOK
<1>12. ~fil.open /\ \A q \in Thread : th[q].pc = "idle"
  BY <1>1, Both DEF NoFile
<1>13. Removal(own, pos)
  BY <1>12 DEF Removal
<1>14. Growing(own, pos)
  BY <1>12 DEF Growing
<1>15. Agree /\ Saved
  <2>1. "idle" \notin SavedPlaces
    BY DEF SavedPlaces
  <2>2. QED BY <1>1, <1>6, <1>12, <2>1 DEF Agree, Saved
<1>16. QED BY <1>7, <1>9, <1>10, <1>11, <1>13, <1>14, <1>15 DEF ChainInv, Core, Places

LEMMA ChainStep == VolumeInv /\ ChainInv /\ Exclusive /\ [Next]_vars => ChainInv'
<1> SUFFICES ASSUME VolumeInv, ChainInv, Exclusive, [Next]_vars PROVE ChainInv'
  OBVIOUS
<1>1. CASE Window
  BY <1>1, SyncWindowChain, MoveWindowChain DEF Window
<1>2. CASE Open
  BY <1>2, OpenChain, FindChain, GetLinkChain, FreeClusterChain, BackToEntryChain DEF Open
<1>3. CASE WriteBuffer
  BY <1>3, WriteBeginChain, NewChainChain, FollowChain, SearchChain, MarkChain,
     LinkClusterChain, WriteDataChain, WrittenChain DEF WriteBuffer
<1>4. CASE CloseFile
  BY <1>4, CloseChain, SaveEntryChain, SyncEntryChain, SyncInfoChain, ClosedChain,
     UnmountChain, CloseAgainChain, GetFreeChain, ScanChain, DecideChain DEF CloseFile
<1>5. CASE Start \/ StartNoCard \/ Stop \/ Reset
  BY <1>5, StartChain, StartNoCardChain, StopChain
<1>6. CASE UNCHANGED vars
  <2>1. data' = data /\ kept' = kept /\ fil' = fil /\ th' = th /\ disk' = disk /\ win' = win
    BY <1>6 DEF vars
  <2>2. CurFat' = CurFat /\ CardFat' = CardFat /\ CurDir' = CurDir /\ CardDir' = CardDir
    BY <2>1, SeesSame DEF Cur
  <2>3. PICK own \in Owners, pos \in Positions : Core(own, pos) /\ Places(own, pos)
    BY DEF ChainInv
  <2>4. QED BY <2>1, <2>2, <2>3, SamePlaces DEF ChainInv
<1>7. QED BY <1>1, <1>2, <1>3, <1>4, <1>5, <1>6 DEF Next

-----------------------------------------------------------------------------
(* The chain a reader of the card follows is the clusters of the file, in   *)
(* the order of their positions.                                            *)
LEMMA Least ==
  ASSUME NEW S, S \subseteq Nat, S # {}
  PROVE  \E x \in S : \A y \in S : x <= y
<1> DEFINE R == OpToRel(<, Nat)
<1>1. IsWellFoundedOn(R, Nat)
  BY NatLessThanWellFounded
<1>2. \A a, b \in Nat : a < b => <<a, b>> \in R
  BY DEF OpToRel
<1> HIDE DEF R
<1>3. PICK x \in S : \A y \in S : ~(<<y, x>> \in R)
  BY <1>1, WFMin
<1>4. ASSUME NEW y \in S PROVE x <= y
  <2>1. x \in Nat /\ y \in Nat
    OBVIOUS
  <2>2. ~(y < x)
    BY <1>2, <1>3, <2>1
  <2>3. QED BY <2>1, <2>2
<1>5. QED BY <1>4

Whole(own, pos, n, h) ==
  /\ own \in Owners /\ pos \in Positions /\ n \in File
  /\ h \in Cluster /\ own[h] = n /\ pos[h] = 0 /\ Shared(own, pos)
  /\ \A x \in Cluster : own[x] = n => LinkOK(own, pos, x, CardFat[x])
AtPos(own, pos, n, k) == {x \in Cluster : own[x] = n /\ pos[x] = k}

LEMMA NoGap ==
  ASSUME NEW own, NEW pos, NEW n, NEW h, Whole(own, pos, n, h),
         NEW x \in Cluster, own[x] = n, NEW k \in 0 .. pos[x]
  PROVE  AtPos(own, pos, n, k) # {}
<1> DEFINE S == {j \in 0 .. pos[x] : AtPos(own, pos, n, j) = {}}
<1>1. pos[x] \in Nat /\ \A y \in Cluster : pos[y] \in Nat
  BY DEF Whole, Positions
<1>2. ASSUME S # {} PROVE FALSE
  <2> HIDE DEF S
  <2>a. S \subseteq Nat
    BY <1>1 DEF S
  <2>b. PICK j \in S : \A i \in S : j <= i
    BY <1>2, <2>a, Least
  <2>1. /\ j \in 0 .. pos[x] /\ AtPos(own, pos, n, j) = {}
        /\ \A i \in 0 .. pos[x] : AtPos(own, pos, n, i) = {} => j <= i
    BY <2>b DEF S
  <2>2. j # 0
    BY <2>1 DEF Whole, AtPos
  <2>3. j \in Nat /\ j <= pos[x] /\ j - 1 \in 0 .. pos[x] /\ j - 1 < j
    BY <1>1, <2>1, <2>2
  <2>4. AtPos(own, pos, n, j - 1) # {}
    <3>1. ~(j <= j - 1)
      BY <2>3
    <3>2. QED BY <2>1, <2>3, <3>1
  <2>5. PICK y \in Cluster : own[y] = n /\ pos[y] = j - 1
    BY <2>4 DEF AtPos
  <2>6. LinkOK(own, pos, y, CardFat[y])
    BY <2>5 DEF Whole
  <2>7. CASE CardFat[y] \in Cluster /\ own[CardFat[y]] = n /\ pos[CardFat[y]] = pos[y] + 1
    <3>1. pos[y] + 1 = j
      BY <2>3, <2>5
    <3>2. QED BY <2>1, <2>7, <3>1 DEF AtPos
  <2>8. CASE \A d \in Cluster : own[d] = n => pos[d] <= pos[y]
    <3>1. ~(pos[x] <= pos[y])
      BY <1>1, <2>3, <2>5
    <3>2. QED BY <2>8, <3>1
  <2>9. QED BY <2>5, <2>6, <2>7, <2>8 DEF LinkOK
<1>3. QED BY <1>2

(* A chain has fewer clusters than the card.                                *)
LEMMA Bounded ==
  ASSUME NEW own, NEW pos, NEW n, NEW h, Whole(own, pos, n, h),
         NEW x \in Cluster, own[x] = n
  PROVE  pos[x] < Last
<1>1. pos[x] \in Nat /\ Last \in Nat
  BY Constants DEF Whole, Positions
<1>2. ASSUME ~(pos[x] < Last) PROVE FALSE
  <2> DEFINE f == [k \in 0 .. Last |-> CHOOSE y \in Cluster : y \in AtPos(own, pos, n, k)]
  <2>1. ASSUME NEW k \in 0 .. Last
        PROVE  f[k] \in Cluster /\ own[f[k]] = n /\ pos[f[k]] = k
    <3>1. k \in 0 .. pos[x]
      BY <1>1, <1>2
    <3>2. \E y \in Cluster : y \in AtPos(own, pos, n, k)
      BY <3>1, NoGap DEF AtPos
    <3>3. f[k] \in Cluster /\ f[k] \in AtPos(own, pos, n, k)
      BY <3>2
    <3>4. QED BY <3>3 DEF AtPos
  <2>2. f \in [0 .. Last -> Cluster]
    BY <2>1
  <2> HIDE DEF f
  <2>3. f \in Injection(0 .. Last, Cluster)
    BY <2>1, <2>2 DEF Injection, IsInjective
  <2>4. IsFiniteSet(Cluster) /\ Cardinality(Cluster) = Last - 1
    BY Clusters
  <2>5. Cardinality(0 .. Last) <= Cardinality(Cluster)
    BY <2>3, <2>4, FS_Injection
  <2>6. Cardinality(0 .. Last) = Last + 1
    BY <1>1, FS_Interval
  <2>7. QED BY <1>1, <2>4, <2>5, <2>6
<1>3. QED BY <1>2

(* The only function that f_read's walk along the FAT can be.               *)
LEMMA ChainIs ==
  ASSUME NEW c, NEW W,
         W = [k \in 0 .. Last |-> IF k = 0 THEN c
                                  ELSE IF W[k - 1] \in Cluster THEN CardFat[W[k - 1]] ELSE W[k - 1]]
  PROVE  Chain(c) = W
<1> DEFINE Walk(u) == [k \in 0 .. Last |->
                         IF k = 0 THEN c
                         ELSE LET v == u[k - 1] IN
                              IF IsCluster(v) THEN disk[FatOf(v)][Link(v)] ELSE v]
           D == CHOOSE u : u = Walk(u)
<1>1. Last \in Nat
  BY Constants
<1>2. W = Walk(W)
  <2>1. \A v : v \in Cluster => CardFat[v] = disk[FatOf(v)][Link(v)]
    BY DEF CardFat
  <2>2. ASSUME NEW k \in 0 .. Last
        PROVE  (IF k = 0 THEN c ELSE IF W[k - 1] \in Cluster THEN CardFat[W[k - 1]] ELSE W[k - 1])
               = (IF k = 0 THEN c ELSE LET v == W[k - 1] IN
                                       IF IsCluster(v) THEN disk[FatOf(v)][Link(v)] ELSE v)
    BY <2>1 DEF IsCluster
  <2>3. QED BY <2>2
<1>3. Chain(c) = D
  BY DEF Chain
<1> HIDE DEF Walk
<1>4. D = Walk(D)
  BY <1>2
<1> HIDE DEF D
<1>5. DOMAIN D = 0 .. Last /\ D = [k \in 0 .. Last |-> D[k]]
  BY <1>4 DEF Walk
<1> DEFINE S == {k \in 0 .. Last : D[k] # W[k]}
<1>6. ASSUME S # {} PROVE FALSE
  <2> HIDE DEF S
  <2>a. S \subseteq Nat
    BY <1>1 DEF S
  <2>b. PICK k \in S : \A j \in S : k <= j
    BY <1>6, <2>a, Least
  <2>1. /\ k \in 0 .. Last /\ D[k] # W[k]
        /\ \A j \in 0 .. Last : D[j] # W[j] => k <= j
    BY <2>b DEF S
  <2>2. D[0] = c /\ W[0] = c /\ 0 \in 0 .. Last
    BY <1>1, <1>2, <1>4 DEF Walk
  <2>3. k \in 0 .. Last /\ k # 0
    BY <2>1, <2>2
  <2>4. k - 1 \in 0 .. Last /\ ~(k <= k - 1)
    BY <1>1, <2>3
  <2>5. D[k - 1] = W[k - 1]
    BY <2>1, <2>4
  <2>6. D[k] = Walk(D)[k] /\ W[k] = Walk(W)[k]
    BY <1>2, <1>4
  <2>7. Walk(D)[k] = Walk(W)[k]
    BY <2>3, <2>5 DEF Walk
  <2>8. QED BY <2>1, <2>6, <2>7
<1>7. \A k \in 0 .. Last : D[k] = W[k]
  BY <1>6
<1>8. W = [k \in 0 .. Last |-> W[k]]
  BY <1>2 DEF Walk
<1>9. QED BY <1>3, <1>5, <1>7, <1>8

(* From the head of a file the walk visits the file's clusters in the order *)
(* of their positions, and then stays at the end mark.                      *)
LEMMA WholeChain ==
  ASSUME NEW own, NEW pos, NEW n, NEW h, Whole(own, pos, n, h)
  PROVE  /\ DOMAIN Chain(h) = 0 .. Last /\ Chain(h)[Last] = EOC
         /\ \A k \in 0 .. Last : Chain(h)[k] \in Cluster => own[Chain(h)[k]] = n
         /\ \A x \in Cluster : own[x] = n => pos[x] \in 0 .. Last /\ Chain(h)[pos[x]] = x
<1> DEFINE W == [k \in 0 .. Last |-> IF AtPos(own, pos, n, k) # {}
                                     THEN CHOOSE x \in Cluster : x \in AtPos(own, pos, n, k)
                                     ELSE EOC]
<1>1. Last \in Nat /\ EOC \notin Cluster /\ \A x \in Cluster : pos[x] \in Nat
  BY Constants DEF Whole, Positions
<1>2. ASSUME NEW k \in 0 .. Last, NEW x \in AtPos(own, pos, n, k) PROVE W[k] = x
  <2>1. W[k] = CHOOSE y \in Cluster : y \in AtPos(own, pos, n, k)
    OBVIOUS
  <2>2. x \in Cluster
    BY DEF AtPos
  <2>3. W[k] \in Cluster /\ W[k] \in AtPos(own, pos, n, k)
    BY <2>1, <2>2
  <2>4. n # Nobody
    BY Constants DEF Whole, File, Nobody
  <2>5. own[x] = own[W[k]] /\ pos[x] = pos[W[k]] /\ own[x] # Nobody
    BY <2>3, <2>4 DEF AtPos
  <2>6. QED BY <2>2, <2>3, <2>5 DEF Whole, Shared
<1>3. ASSUME NEW k \in 0 .. Last
      PROVE  \/ W[k] \in AtPos(own, pos, n, k)
             \/ W[k] = EOC /\ AtPos(own, pos, n, k) = {}
  <2>1. CASE AtPos(own, pos, n, k) # {}
    BY <1>2, <2>1
  <2>2. CASE AtPos(own, pos, n, k) = {}
    BY <2>2
  <2>3. QED BY <2>1, <2>2
<1>4. W = [k \in 0 .. Last |-> W[k]]
  OBVIOUS
<1> HIDE DEF W
<1>5. ASSUME NEW k \in 0 .. Last, k # 0
      PROVE  W[k] = IF W[k - 1] \in Cluster THEN CardFat[W[k - 1]] ELSE W[k - 1]
  <2>1. k - 1 \in 0 .. Last /\ k = (k - 1) + 1 /\ ~(k <= k - 1)
    BY <1>1, <1>5
  <2>2. CASE W[k - 1] \in Cluster
    <3>1. W[k - 1] \in AtPos(own, pos, n, k - 1)
      BY <1>1, <1>3, <2>1, <2>2
    <3>2. own[W[k - 1]] = n /\ pos[W[k - 1]] = k - 1
      BY <3>1 DEF AtPos
    <3>3. LinkOK(own, pos, W[k - 1], CardFat[W[k - 1]])
      BY <2>2, <3>2 DEF Whole
    <3>4. CASE /\ CardFat[W[k - 1]] \in Cluster /\ own[CardFat[W[k - 1]]] = n
               /\ pos[CardFat[W[k - 1]]] = pos[W[k - 1]] + 1
      <4>1. CardFat[W[k - 1]] \in AtPos(own, pos, n, k)
        BY <2>1, <3>2, <3>4 DEF AtPos
      <4>2. QED BY <1>2, <2>2, <4>1
    <3>5. CASE /\ CardFat[W[k - 1]] = EOC
               /\ \A d \in Cluster : own[d] = n => pos[d] <= pos[W[k - 1]]
      <4>1. AtPos(own, pos, n, k) = {}
        BY <2>1, <3>2, <3>5 DEF AtPos
      <4>2. QED BY <1>3, <2>2, <3>5, <4>1
    <3>6. QED BY <3>2, <3>3, <3>4, <3>5 DEF LinkOK
  <2>3. CASE W[k - 1] \notin Cluster
    <3>1. W[k - 1] = EOC /\ AtPos(own, pos, n, k - 1) = {}
      <4>1. W[k - 1] \notin AtPos(own, pos, n, k - 1)
        BY <2>3 DEF AtPos
      <4>2. QED BY <1>3, <2>1, <4>1
    <3>2. ASSUME NEW x \in AtPos(own, pos, n, k) PROVE FALSE
      <4>1. x \in Cluster /\ own[x] = n /\ pos[x] = k
        BY DEF AtPos
      <4>2. k - 1 \in 0 .. pos[x]
        BY <2>1, <4>1
      <4>3. QED BY <3>1, <4>1, <4>2, NoGap
    <3>3. QED BY <1>3, <2>3, <3>1, <3>2
  <2>4. QED BY <2>2, <2>3
<1>6. W[0] = h
  <2>1. h \in AtPos(own, pos, n, 0) /\ 0 \in 0 .. Last
    BY <1>1 DEF Whole, AtPos
  <2>2. QED BY <1>2, <2>1
<1>7. Chain(h) = W
  <2>1. W = [k \in 0 .. Last |-> IF k = 0 THEN h
                                 ELSE IF W[k - 1] \in Cluster THEN CardFat[W[k - 1]] ELSE W[k - 1]]
    BY <1>4, <1>5, <1>6
  <2>2. QED BY <2>1, ChainIs
<1>8. W[Last] = EOC
  <2>1. Last \in 0 .. Last
    BY <1>1
  <2>2. W[Last] \notin AtPos(own, pos, n, Last)
    <3>1. ASSUME W[Last] \in AtPos(own, pos, n, Last) PROVE FALSE
      <4>1. W[Last] \in Cluster /\ own[W[Last]] = n /\ pos[W[Last]] = Last
        BY <3>1 DEF AtPos
      <4>2. pos[W[Last]] < Last
        BY <4>1, Bounded
      <4>3. QED BY <1>1, <4>1, <4>2
    <3>2. QED BY <3>1
  <2>3. QED BY <1>3, <2>1, <2>2
<1>9. ASSUME NEW k \in 0 .. Last, W[k] \in Cluster PROVE own[W[k]] = n
  BY <1>1, <1>3, <1>9 DEF AtPos
<1>10. ASSUME NEW x \in Cluster, own[x] = n PROVE pos[x] \in 0 .. Last /\ W[pos[x]] = x
  <2>1. pos[x] \in 0 .. Last
    <3>1. pos[x] < Last
      BY <1>10, Bounded
    <3>2. QED BY <1>1, <3>1
  <2>2. x \in AtPos(own, pos, n, pos[x])
    BY <1>10 DEF AtPos
  <2>3. QED BY <1>2, <2>1, <2>2
<1>11. QED BY <1>4, <1>7, <1>8, <1>9, <1>10

(* The walk from no cluster finds none.                                     *)
LEMMA NoChain == ClustersOf(Chain(0)) = {}
<1> DEFINE W == [k \in 0 .. Last |-> 0]
<1>1. 0 \notin Cluster /\ Last \in Nat
  BY Constants
<1>2. W = [k \in 0 .. Last |-> IF k = 0 THEN 0
                               ELSE IF W[k - 1] \in Cluster THEN CardFat[W[k - 1]] ELSE W[k - 1]]
  <2>1. ASSUME NEW k \in 0 .. Last, k # 0 PROVE k - 1 \in 0 .. Last
    BY <1>1, <2>1
  <2>2. QED BY <1>1, <2>1
<1> HIDE DEF W
<1>3. Chain(0) = W
  BY <1>2, ChainIs
<1>4. QED BY <1>1, <1>3 DEF W, ClustersOf

(* It is long enough for every position of the file.                        *)
LEMMA ChainLength ==
  ASSUME NEW own, NEW pos, NEW n, NEW h, Whole(own, pos, n, h),
         NEW x \in Cluster, own[x] = n
  PROVE  Cardinality(ClustersOf(Chain(h))) >= pos[x] + 1
<1> DEFINE C == ClustersOf(Chain(h))
           f == [k \in 0 .. pos[x] |-> Chain(h)[k]]
<1>1. pos[x] \in Nat /\ \A y \in Cluster : pos[y] \in Nat
  BY DEF Whole, Positions
<1>2. ASSUME NEW k \in 0 .. pos[x]
      PROVE  Chain(h)[k] \in Cluster /\ pos[Chain(h)[k]] = k /\ Chain(h)[k] \in C
  <2>1. PICK y \in Cluster : own[y] = n /\ pos[y] = k
    BY NoGap DEF AtPos
  <2>2. Chain(h)[k] = y /\ k \in DOMAIN Chain(h)
    <3>1. DOMAIN Chain(h) = 0 .. Last
      BY WholeChain
    <3>2. pos[y] \in 0 .. Last /\ Chain(h)[pos[y]] = y
      BY <2>1, WholeChain
    <3>3. QED BY <2>1, <3>1, <3>2
  <2>3. QED BY <2>1, <2>2 DEF ClustersOf
<1>3. C \subseteq Cluster
  BY DEF ClustersOf
<1> HIDE DEF C
<1>4. f \in [0 .. pos[x] -> C] /\ \A k \in 0 .. pos[x] : pos[f[k]] = k
  BY <1>2
<1> HIDE DEF f
<1>5. f \in Injection(0 .. pos[x], C)
  BY <1>4 DEF Injection, IsInjective
<1>6. IsFiniteSet(C) /\ Cardinality(C) \in 0 .. Last - 1
  BY <1>3, Clusters
<1>7. Cardinality(0 .. pos[x]) <= Cardinality(C)
  BY <1>5, <1>6, FS_Injection
<1>8. Cardinality(0 .. pos[x]) = pos[x] + 1
  BY <1>1, FS_Interval
<1>9. Cardinality(C) >= pos[x] + 1
  BY <1>1, <1>6, <1>7, <1>8, Constants
<1>10. QED BY <1>9 DEF C

-----------------------------------------------------------------------------
(* What a reader of the card finds.                                         *)
LEMMA OnCardIs ==
  ASSUME NEW n \in File
  PROVE  OnCard(n) = CardDir[n]
  BY DEF OnCard, CardDir

LEMMA CardFormed == VolumeInv => WellFormed
  BY DEF VolumeInv, CardOK, SectorOK, WellFormed

(* A file that the directory of the card names is whole.                    *)
LEMMA CardWhole ==
  ASSUME VolumeInv, NEW own \in Owners, NEW pos \in Positions, Core(own, pos),
         NEW n \in File, CardDir[n].clust # 0
  PROVE  /\ Whole(own, pos, n, CardDir[n].clust)
         /\ \E c \in Cluster : own[c] = n /\ CardDir[n].size <= (pos[c] + 1) * ClusterSize
         /\ Holds(own, pos, n, CardDir[n].size)
<1>1. CardDir[n].clust \in Cluster
  BY ViewTypes DEF EntryType
<1>2. EntryOK(own, pos, n, CardDir[n])
  BY DEF Core, Entries
<1>3. n # Nobody
  BY Constants DEF File, Nobody
<1>4. Live(n)
  BY DEF Live
<1>5. ASSUME NEW x \in Cluster, own[x] = n PROVE LinkOK(own, pos, x, CardFat[x])
  BY <1>3, <1>4, <1>5 DEF Core, Linked
<1>6. Shared(own, pos)
  BY DEF Core
<1>7. QED BY <1>1, <1>2, <1>5, <1>6 DEF EntryOK, Whole

LEMMA CardChain ==
  ASSUME VolumeInv, NEW own \in Owners, NEW pos \in Positions, Core(own, pos),
         NEW n \in File
  PROVE  \A x \in ClustersOf(Chain(OnCard(n).clust)) : x \in Cluster /\ own[x] = n
<1>1. CASE CardDir[n].clust = 0
  BY <1>1, OnCardIs, NoChain
<1>2. CASE CardDir[n].clust # 0
  <2> DEFINE h == CardDir[n].clust
  <2>1. Whole(own, pos, n, h)
    BY <1>2, CardWhole
  <2>2. /\ DOMAIN Chain(h) = 0 .. Last
        /\ \A k \in 0 .. Last : Chain(h)[k] \in Cluster => own[Chain(h)[k]] = n
    BY <2>1, WholeChain
  <2>3. ASSUME NEW x \in ClustersOf(Chain(h)) PROVE x \in Cluster /\ own[x] = n
    BY <2>2 DEF ClustersOf
  <2>4. QED BY <2>3, OnCardIs
<1>3. QED BY <1>1, <1>2

LEMMA VolumeSound == VolumeInv /\ ChainInv => ChainsSound
<1> SUFFICES ASSUME VolumeInv, ChainInv PROVE ChainsSound
  OBVIOUS
<1>1. PICK own \in Owners, pos \in Positions : Core(own, pos)
  BY DEF ChainInv
<1>2. ASSUME NEW n \in File, OnCard(n).clust # 0
      PROVE  /\ Ends(Chain(OnCard(n).clust)) = EOC
             /\ Cardinality(ClustersOf(Chain(OnCard(n).clust))) * ClusterSize >= OnCard(n).size
             /\ ClustersOf(Chain(OnCard(n).clust)) \cap Taken = {}
             /\ \A m \in File \ {n} : ClustersOf(Chain(OnCard(n).clust))
                                        \cap ClustersOf(Chain(OnCard(m).clust)) = {}
  <2> DEFINE h == CardDir[n].clust
             C == ClustersOf(Chain(h))
  <2>1. OnCard(n) = CardDir[n] /\ CardDir[n].clust # 0
    BY <1>2, OnCardIs
  <2>2. Whole(own, pos, n, h)
    BY <1>1, <2>1, CardWhole
  <2>3. PICK c \in Cluster : own[c] = n /\ CardDir[n].size <= (pos[c] + 1) * ClusterSize
    BY <1>1, <2>1, CardWhole
  <2>4. Ends(Chain(h)) = EOC
    BY <2>2, WholeChain DEF Ends
  <2>5. \A x \in C : x \in Cluster /\ own[x] = n
    <3>1. C = ClustersOf(Chain(OnCard(n).clust))
      BY <2>1
    <3>2. QED BY <1>1, <3>1, CardChain
  <2>6. n # Nobody
    BY Constants DEF File, Nobody
  <2>7. Cardinality(C) * ClusterSize >= CardDir[n].size
    <3>1. Cardinality(C) >= pos[c] + 1
      BY <2>2, <2>3, ChainLength
    <3>2. pos[c] \in Nat /\ CardDir[n].size \in Nat
      BY <2>3, ViewTypes, Constants DEF Positions, EntryType
    <3>3. C \subseteq Cluster
      BY <2>5
    <3>4. Cardinality(C) \in Nat
      BY <3>3, Clusters, Constants
    <3> HIDE DEF C
    <3>5. (pos[c] + 1) * ClusterSize <= Cardinality(C) * ClusterSize
      BY <3>1, <3>2, <3>4, Constants, Times
    <3>6. Cardinality(C) * ClusterSize \in Nat /\ (pos[c] + 1) * ClusterSize \in Nat
      BY <3>2, <3>4, Constants
    <3>7. QED BY <2>3, <3>2, <3>5, <3>6
  <2>8. C \cap Taken = {}
    <3>1. \A x \in Taken : own[x] = Nobody
      BY <1>1 DEF Core, TakenInv
    <3>2. QED BY <2>5, <2>6, <3>1
  <2>9. ASSUME NEW m \in File \ {n} PROVE C \cap ClustersOf(Chain(OnCard(m).clust)) = {}
    <3>1. \A x \in ClustersOf(Chain(OnCard(m).clust)) : own[x] = m
      BY <1>1, CardChain
    <3>2. QED BY <2>5, <3>1
  <2>10. QED BY <2>1, <2>4, <2>7, <2>8, <2>9
<1>3. QED BY <1>2, CardFormed DEF ChainsSound

(* A sector of a file that was kept is where its number says.               *)
LEMMA ReadsIs ==
  ASSUME VolumeInv, NEW own \in Owners, NEW pos \in Positions, Core(own, pos),
         NEW n \in File, CardDir[n].clust # 0, NEW i \in 0 .. CardDir[n].size - 1
  PROVE  Reads(n)[i] = <<n, i>>
<1> DEFINE h == CardDir[n].clust
           k == i \div ClusterSize
           r == i % ClusterSize
<1>1. OnCard(n) = CardDir[n]
  BY OnCardIs
<1>2. Whole(own, pos, n, h) /\ Holds(own, pos, n, CardDir[n].size)
  BY CardWhole
<1>3. PICK c \in Cluster : own[c] = n /\ CardDir[n].size <= (pos[c] + 1) * ClusterSize
  BY CardWhole
<1>4. i \in Nat /\ CardDir[n].size \in Nat /\ i < CardDir[n].size /\ pos[c] \in Nat
  BY ViewTypes, Constants DEF Positions, EntryType
<1>5. /\ k \in Nat /\ r \in 0 .. ClusterSize - 1 /\ i = ClusterSize * k + r
  BY <1>4, Constants, Quotient
<1> HIDE DEF k, r
<1>6. k \in 0 .. pos[c]
  <2>1. ASSUME pos[c] + 1 <= k PROVE FALSE
    <3>1. (pos[c] + 1) * ClusterSize <= k * ClusterSize
      BY <1>4, <1>5, <2>1, Constants, Times
    <3>2. k * ClusterSize = ClusterSize * k /\ k * ClusterSize \in Nat
          /\ (pos[c] + 1) * ClusterSize \in Nat
      BY <1>4, <1>5, Constants
    <3> DEFINE a == (pos[c] + 1) * ClusterSize
               b == ClusterSize * k
    <3>3. a \in Nat /\ b \in Nat /\ a <= b /\ i = b + r /\ CardDir[n].size <= a
      BY <1>3, <1>5, <3>1, <3>2
    <3> HIDE DEF a, b
    <3>4. QED BY <1>4, <1>5, <3>3, Constants
  <2>2. QED BY <1>4, <1>5, <2>1
<1>7. PICK x \in Cluster : own[x] = n /\ pos[x] = k
  BY <1>2, <1>3, <1>6, NoGap DEF AtPos
<1>8. Chain(h)[k] = x
  BY <1>2, <1>7, WholeChain
<1>9. pos[x] * ClusterSize + r = i
  BY <1>5, <1>7, Constants
<1>10. data[x][r] = <<n, i>>
  <2>1. pos[x] * ClusterSize + r < CardDir[n].size
    BY <1>4, <1>9
  <2>2. QED BY <1>2, <1>5, <1>7, <1>9, <2>1 DEF Holds
<1>11. Reads(n)[i] = LET d == Chain(h)[k] IN
                     IF IsCluster(d) THEN data[d][r] ELSE <<0, NotKept>>
  <2>1. i \in 0 .. OnCard(n).size - 1
    BY <1>1
  <2>2. QED BY <1>1, <2>1 DEF Reads, k, r
<1>12. QED BY <1>8, <1>10, <1>11 DEF IsCluster

LEMMA VolumeReadable == VolumeInv /\ ChainInv => ClosedFilesReadable
<1> SUFFICES ASSUME VolumeInv, ChainInv, NEW n \in File, kept[n] # NotKept
             PROVE  /\ OnCard(n).size = kept[n]
                    /\ \A i \in 0 .. kept[n] - 1 : Reads(n)[i] = <<n, i>>
  BY DEF ClosedFilesReadable
<1>1. PICK own \in Owners, pos \in Positions : Core(own, pos)
  BY DEF ChainInv
<1>2. CardDir[n].size = kept[n]
  BY DEF ChainInv, Saved
<1>3. ASSUME NEW i \in 0 .. kept[n] - 1 PROVE Reads(n)[i] = <<n, i>>
  <2>1. EntryOK(own, pos, n, CardDir[n])
    BY <1>1 DEF Core, Entries
  <2>2. kept[n] \in Int
    BY Constants DEF VolumeInv, SessionInv, NotKept
  <2>3. CardDir[n].size # 0
    BY <1>2, <2>2
  <2>4. CardDir[n].clust # 0 /\ i \in 0 .. CardDir[n].size - 1
    BY <1>2, <2>1, <2>3 DEF EntryOK
  <2>5. QED BY <1>1, <2>4, ReadsIs
<1>4. QED BY <1>2, <1>3, OnCardIs

-----------------------------------------------------------------------------
(* At every moment, and so whenever the device is reset, the chain of every *)
(* file on the card ends, is long enough for the file's size, and shares no *)
(* cluster with another file's, when the keys wait for the storage thread   *)
(* (put_fat, move_window, create_chain, remove_chain, f_sync in ff.c).      *)
THEOREM VolumeChains == ASSUME Exclusive PROVE Spec => []ChainsSound
<1>1. Init => VolumeInv /\ ChainInv
  BY VolumeInit, ChainInit
<1>2. VolumeInv /\ ChainInv /\ [Next]_vars => (VolumeInv /\ ChainInv)'
  BY VolumeStep, ChainStep
<1>3. VolumeInv /\ ChainInv => ChainsSound
  BY VolumeSound
<1>4. QED BY <1>1, <1>2, <1>3, PTL DEF Spec

(* A file whose f_close returned FR_OK stays on the card with its size and  *)
(* every sector written to it, through every later file and every reset,    *)
(* until f_open creates it again, when the keys wait for the storage thread *)
(* (f_write, f_close and f_open in ff.c).                                   *)
THEOREM ClosedFilesStay == ASSUME Exclusive PROVE Spec => []ClosedFilesReadable
<1>1. Init => VolumeInv /\ ChainInv
  BY VolumeInit, ChainInit
<1>2. VolumeInv /\ ChainInv /\ [Next]_vars => (VolumeInv /\ ChainInv)'
  BY VolumeStep, ChainStep
<1>3. VolumeInv /\ ChainInv => ClosedFilesReadable
  BY VolumeReadable
<1>4. QED BY <1>1, <1>2, <1>3, PTL DEF Spec

-----------------------------------------------------------------------------
(* The count of free clusters.                                              *)
FreeIn(F) == {c \in Cluster : F[c] = 0}
FreeNow == Cardinality(FreeIn(CurFat))
OnInfo == disk[FSInfo][Free]
Cutting == {"get", "free", "back"}
LinkPending == IF th["storage"].pc = "link" THEN 1 ELSE 0

(* Before a reset: free_clst is the number of free entries, or one more     *)
(* while a cluster is marked and not yet linked (Known).  FSInfo on the     *)
(* card is what fs holds unless fsi_flag says otherwise (Flagged), and it   *)
(* is behind only while a file is open or cut (Behind); f_close leaves it   *)
(* true (Flushed).  A scan has counted the sectors before its own.          *)
Known == fs.mounted /\ fs.free # Unknown => fs.free = FreeNow + LinkPending
Flagged == fs.mounted /\ ~fs.info => OnInfo = fs.free
Behind == \/ OnInfo \in {Unknown, FreeNow} \/ th["storage"].pc = "link"
          \/ /\ fs.mounted /\ fs.info
             /\ fil.open \/ \E p \in Thread : th[p].pc \in Cutting
Flushed == \A p \in Thread : th[p].pc = "closed" => ~fs.info
ScannedIs(l) == Cardinality({c \in FreeIn(CurFat) : c \div PerSector < l.cl})
Scanned == th["storage"].pc = "scan" => th["storage"].left = ScannedIs(th["storage"])
Decided == th["storage"].pc = "decide" /\ th["storage"].left > 0 =>
             th["storage"].left = FreeNow
CountInv == resets = 0 => Known /\ Flagged /\ Behind /\ Flushed /\ Scanned /\ Decided

(* create_chain has found no free entry between where it began and where it *)
(* is, going round at the last cluster.                                     *)
Passed(x, scl, cl) == IF scl < cl THEN scl < x /\ x < cl ELSE x > scl \/ x < cl
SearchInv ==
  th["storage"].pc = "search" =>
     /\ th["storage"].scl \in 1 .. Last
     /\ \A x \in Cluster : Passed(x, th["storage"].scl, th["storage"].cl) => CurFat[x] # 0

(* A file that was opened after the check has room: with a clusters used,   *)
(* of ClusterSize sectors, at least MinFree were free at its start.  So no  *)
(* call of f_write is cut short, if the check asks for the room of a file.  *)
Fits(a) ==
  /\ FreeNow + a + LinkPending >= MinFree
  /\ a * ClusterSize <= fil.size + ClusterSize
  /\ th["storage"].pc # "data" => a * ClusterSize < fil.size + ClusterSize
Rotating == {"getfree", "scan", "decide"} \union OpenPlaces
Complete ==
  /\ ~fil.err /\ th["storage"].pc # "refused"
  /\ \E a \in Nat : Fits(a)
  /\ th["storage"].pc = "idle" => fil.size = count * Buffer
  /\ th["storage"].pc \in WritePlaces => fil.size + th["storage"].left = (count + 1) * Buffer
  /\ th["storage"].pc = "written" => fil.size = (count + 1) * Buffer
AtRotation ==
  /\ th["storage"].pc \in Rotating => count = 0
  /\ th["storage"].pc \in ClosePlaces /\ ~th["storage"].low => count = 0
  /\ th["storage"].pc \in OpenPlaces => FreeNow >= MinFree
RoomForFile == MaxSize <= MinFree * ClusterSize
FitInv == RoomForFile /\ resets = 0 => AtRotation /\ (fil.open /\ fil.checked => Complete)

LEMMA FreeType ==
  FreeNow \in 0 .. Last - 1 /\ FreeNow \in Nat /\ FreeNow' \in 0 .. Last - 1
<1>1. FreeIn(CurFat) \in SUBSET Cluster /\ FreeIn(CurFat)' \in SUBSET Cluster
  BY DEF FreeIn
<1>2. QED BY <1>1, Clusters, Constants DEF FreeNow

(* One entry of the FAT changes.                                            *)
LEMMA FreeChanges ==
  ASSUME VolumeInv, NEW c \in Cluster, NEW v, CurFat' = [CurFat EXCEPT ![c] = v]
  PROVE  /\ CurFat[c] = 0 /\ v # 0 => FreeNow' = FreeNow - 1
         /\ CurFat[c] # 0 /\ v = 0 => FreeNow' = FreeNow + 1
         /\ CurFat[c] # 0 /\ v # 0 => FreeNow' = FreeNow
<1> DEFINE A == FreeIn(CurFat)
           B == FreeIn(CurFat')
<1>1. \A x \in Cluster : CurFat'[x] = IF x = c THEN v ELSE CurFat[x]
  BY ViewTypes
<1>2. IsFiniteSet(A) /\ IsFiniteSet(B)
  <2>1. A \in SUBSET Cluster /\ B \in SUBSET Cluster
    BY DEF FreeIn
  <2>2. QED BY <2>1, Clusters
<1>3. FreeNow = Cardinality(A) /\ FreeNow' = Cardinality(B)
  BY DEF FreeNow, FreeIn
<1>4. CASE CurFat[c] = 0 /\ v # 0
  <2>1. B = A \ {c} /\ c \in A
    BY <1>1, <1>4 DEF FreeIn
  <2> HIDE DEF A, B
  <2>2. QED BY <1>2, <1>3, <1>4, <2>1, FS_RemoveElement
<1>5. CASE CurFat[c] # 0 /\ v = 0
  <2>1. B = A \union {c} /\ c \notin A
    BY <1>1, <1>5 DEF FreeIn
  <2> HIDE DEF A, B
  <2>2. QED BY <1>2, <1>3, <1>5, <2>1, FS_AddElement
<1>6. CASE CurFat[c] # 0 <=> v # 0
  <2>1. B = A
    BY <1>1, <1>6 DEF FreeIn
  <2>2. QED BY <1>3, <1>6, <2>1
<1>7. QED BY <1>4, <1>5, <1>6

LEMMA FreeSame ==
  ASSUME CurFat' = CurFat
  PROVE  FreeNow' = FreeNow /\ \A l : ScannedIs(l)' = ScannedIs(l)
  BY DEF FreeNow, FreeIn, ScannedIs

LEMMA InfoSame ==
  ASSUME VolumeInv, disk' = disk \/ \A s \in Sector : disk'[s] = Cur(s)
  PROVE  OnInfo' = OnInfo
<1>1. FSInfo \in Sector
  BY DEF Sector
<1>2. Cur(FSInfo) = disk[FSInfo]
  BY Names DEF Cur, VolumeInv, WindowInv
<1>3. QED BY <1>1, <1>2 DEF OnInfo

(* A thread takes a step.                                                   *)
LEMMA Going ==
  ASSUME VolumeInv, NEW p \in Thread, th[p].pc # "idle", NEW l, th' = [th EXCEPT ![p] = l]
  PROVE  th'[p] = l /\ \A q \in Thread : q # p => th[q] = Idle /\ th'[q] = Idle
<1>1. th = [q \in Thread |-> th[q]] /\ \A q \in Thread : q # p => th[q] = Idle
  BY Alone
<1>2. QED BY <1>1

LEMMA LocalsAre ==
  ASSUME VolumeInv, NEW p \in Thread
  PROVE  /\ th[p] = [pc |-> th[p].pc, loaded |-> th[p].loaded, cl |-> th[p].cl,
                     scl |-> th[p].scl, left |-> th[p].left, name |-> th[p].name,
                     low |-> th[p].low]
         /\ th[p].cl \in Nat /\ th[p].scl \in Nat /\ th[p].left \in Nat
  BY DEF VolumeInv, ThreadInv, LocalsOK, Locals

(* f_open begins to cut a chain.                                            *)
LEMMA Cuts ==
  ASSUME VolumeInv, NEW p \in Thread,
         \E c : th' = [th EXCEPT ![p].pc = "get", ![p].cl = c, ![p].scl = c]
  PROVE  \E l : l.pc = "get" /\ th' = [th EXCEPT ![p] = l]
<1>1. PICK c : th' = [th EXCEPT ![p].pc = "get", ![p].cl = c, ![p].scl = c]
  OBVIOUS
<1>2. PICK l : l = [th[p] EXCEPT !.pc = "get", !.cl = c, !.scl = c]
  OBVIOUS
<1>3. th' = [th EXCEPT ![p] = l]
  BY <1>1, <1>2
<1>4. l.pc = "get"
  BY <1>2, LocalsAre
<1>5. QED BY <1>3, <1>4

(* Steps that leave the FAT and the counts alone.                           *)
LEMMA CountQuiet ==
  ASSUME VolumeInv, CountInv, resets' = resets, CurFat' = CurFat, OnInfo' = OnInfo,
         fs'.mounted = fs.mounted, fs'.free = fs.free, fs'.info = fs.info,
         NEW p \in Thread, NEW l, th'[p] = l,
         \A q \in Thread : q # p => th[q] = Idle /\ th'[q] = Idle,
         th[p].pc = "link" <=> l.pc = "link",
         (fil.open \/ th[p].pc \in Cutting) /\ resets = 0 /\ fs.info =>
            fil'.open \/ l.pc \in Cutting,
         l.pc = "closed" /\ resets = 0 => ~fs.info,
         p = "storage" /\ l.pc = "scan" /\ resets = 0 => l.left = ScannedIs(l),
         p = "storage" /\ l.pc = "decide" /\ l.left > 0 /\ resets = 0 => l.left = FreeNow
  PROVE  CountInv'
<1> SUFFICES ASSUME resets = 0
             PROVE  (Known /\ Flagged /\ Behind /\ Flushed /\ Scanned /\ Decided)'
  BY DEF CountInv
<1>0. Known /\ Flagged /\ Behind /\ Flushed /\ Scanned /\ Decided
  BY DEF CountInv
<1>1. FreeNow' = FreeNow /\ ScannedIs(l)' = ScannedIs(l)
  BY FreeSame
<1>2. (th'["storage"].pc = "link") <=> (th["storage"].pc = "link")
  BY Both
<1>3. Known'
  BY <1>0, <1>1, <1>2 DEF Known, LinkPending
<1>4. Flagged'
  BY <1>0 DEF Flagged
<1>5. Behind'
  <2>1. (\E q \in Thread : th[q].pc \in Cutting) => th[p].pc \in Cutting
    BY Both DEF Cutting
  <2>2. QED BY <1>0, <1>1, <1>2, <2>1 DEF Behind
<1>6. Flushed'
  BY Both DEF Flushed
<1>7. p # "storage" => th'["storage"].pc = "idle"
  BY Both
<1>8. Scanned'
  <2>1. ScannedIs(th'["storage"]) = ScannedIs(th["storage"])'
    BY DEF ScannedIs
  <2>2. QED BY <1>1, <1>7, Both DEF Scanned, ScannedIs
<1>9. Decided'
  BY <1>1, <1>7, Both DEF Decided
<1>10. QED BY <1>3, <1>4, <1>5, <1>6, <1>8, <1>9

LEMMA SearchQuiet ==
  ASSUME SearchInv, CurFat' = CurFat,
         th'["storage"].pc = "search" =>
            /\ th["storage"].pc = "search" /\ th'["storage"].scl = th["storage"].scl
            /\ th'["storage"].cl = th["storage"].cl
  PROVE  SearchInv'
  BY DEF SearchInv, Passed

Lengthening == {"new", "follow", "search", "mark"}
LEMMA FitQuiet ==
  ASSUME VolumeInv, FitInv, resets' = resets, CurFat' = CurFat, count' = count,
         NEW p \in Thread, NEW l, th'[p] = l,
         \A q \in Thread : q # p => th[q] = Idle /\ th'[q] = Idle,
         fil'.open /\ fil'.checked => fil.open /\ fil.checked /\ fil'.err = fil.err
                                      /\ fil'.size = fil.size,
         p = "storage" /\ fil'.open /\ fil'.checked =>
            \/ l.pc = th[p].pc /\ l.left = th[p].left
            \/ th[p].pc \in ClosePlaces /\ l.pc \in ClosePlaces
            \/ th[p].pc \in Lengthening /\ l.pc \in Lengthening /\ l.left = th[p].left,
         p = "storage" /\ l.pc \in Rotating =>
            th[p].pc \in Rotating \/ (th[p].pc \in ClosePlaces /\ ~th[p].low),
         p = "storage" /\ l.pc \in ClosePlaces /\ ~l.low => th[p].pc \in ClosePlaces /\ ~th[p].low,
         p = "storage" /\ l.pc \in OpenPlaces =>
            th[p].pc \in OpenPlaces \/ (resets = 0 => FreeNow >= MinFree)
  PROVE  FitInv'
<1> SUFFICES ASSUME RoomForFile, resets = 0
             PROVE  (AtRotation /\ (fil.open /\ fil.checked => Complete))'
  BY DEF FitInv
<1>0. AtRotation /\ (fil.open /\ fil.checked => Complete)
  BY DEF FitInv
<1>1. FreeNow' = FreeNow
  BY FreeSame
<1>2. p # "storage" => th'["storage"] = th["storage"] /\ th["storage"].pc = "idle"
  BY Both
<1>3. AtRotation'
  <2>1. CASE p = "storage"
    BY <1>0, <1>1, <2>1 DEF AtRotation, Rotating
  <2>2. CASE p # "storage"
    BY <1>2, <2>2 DEF AtRotation, Rotating, OpenPlaces, ClosePlaces, SavedPlaces
  <2>3. QED BY <2>1, <2>2
<1>4. ASSUME fil'.open, fil'.checked PROVE Complete'
  <2>0. Complete /\ fil'.err = fil.err /\ fil'.size = fil.size
    BY <1>0, <1>4
  <2>1. CASE th'["storage"].pc = th["storage"].pc /\ th'["storage"].left = th["storage"].left
    BY <1>1, <2>0, <2>1 DEF Complete, Fits, LinkPending
  <2>2. CASE p = "storage" /\ th[p].pc \in ClosePlaces /\ l.pc \in ClosePlaces
    <3>1. /\ th'["storage"].pc \notin WritePlaces \union {"idle", "written", "refused", "data"}
          /\ th'["storage"].pc # "link" /\ th["storage"].pc # "link" /\ th["storage"].pc # "data"
      BY <2>2 DEF ClosePlaces, SavedPlaces, WritePlaces
    <3>2. QED BY <1>1, <2>0, <3>1 DEF Complete, Fits, LinkPending
  <2>3. CASE /\ p = "storage" /\ th[p].pc \in Lengthening /\ l.pc \in Lengthening
             /\ l.left = th[p].left
    BY <1>1, <2>0, <2>3 DEF Complete, Fits, LinkPending, Lengthening, WritePlaces
  <2>4. QED BY <1>2, <1>4, <2>1, <2>2, <2>3
<1>5. QED BY <1>3, <1>4

FreeInv == CountInv /\ SearchInv /\ FitInv

(* The window and the mount.                                                *)
LEMMA WindowFree ==
  ASSUME VolumeInv, FreeInv, NEW p \in Thread,
         SyncWindow(p) \/ MoveWindow(p) \/ WindowMoved(p)
  PROVE  FreeInv'
<1>1. /\ resets' = resets /\ fs' = fs /\ fil' = fil /\ count' = count
      /\ \E b : th' = [th EXCEPT ![p].loaded = b]
  <2>1. CASE SyncWindow(p)
    <3>1. th' = th /\ resets' = resets /\ fs' = fs /\ fil' = fil /\ count' = count
      BY <2>1 DEF SyncWindow, session
    <3>2. th = [q \in Thread |-> th[q]] /\ th[p] = [th[p] EXCEPT !.loaded = th[p].loaded]
      BY LocalsAre DEF VolumeInv, ThreadInv
    <3>3. th' = [th EXCEPT ![p].loaded = th[p].loaded]
      BY <3>1, <3>2
    <3>4. QED BY <3>1, <3>3
  <2>2. CASE MoveWindow(p)
    BY <2>2 DEF MoveWindow, session
  <2>3. CASE WindowMoved(p)
    BY <2>3 DEF WindowMoved, session
  <2>4. QED BY <2>1, <2>2, <2>3
<1>2. th[p].pc # "idle"
  <2>1. Need(p) # NoSector \/ th[p].loaded
    BY DEF SyncWindow, MoveWindow, WindowMoved, Moves
  <2>2. th[p].pc \in Reading
    BY <2>1, NeedIs DEF VolumeInv, ThreadInv, LocalsOK
  <2>3. QED BY <2>2 DEF Reading
<1>3. PICK b : th' = [th EXCEPT ![p].loaded = b]
  BY <1>1
<1>4. PICK l : l = [th[p] EXCEPT !.loaded = b] /\ th' = [th EXCEPT ![p] = l]
  BY <1>3
<1>5. /\ l.pc = th[p].pc /\ l.cl = th[p].cl /\ l.scl = th[p].scl /\ l.left = th[p].left
      /\ l.low = th[p].low
  BY <1>4, LocalsAre
<1>6. th'[p] = l /\ \A q \in Thread : q # p => th[q] = Idle /\ th'[q] = Idle
  BY <1>2, <1>4, Going
<1>7. CurFat' = CurFat /\ OnInfo' = OnInfo
  <2>1. CASE SyncWindow(p)
    BY <2>1, SyncWindowStep, SeesSynced, InfoSame
  <2>2. CASE MoveWindow(p) \/ WindowMoved(p)
    BY <2>2, MoveWindowStep, WindowMovedStep, SeesSame, InfoSame
  <2>3. QED BY <2>1, <2>2
<1>8. ScannedIs(l) = ScannedIs(th[p])
  BY <1>5 DEF ScannedIs
<1>9. CountInv'
  <2>1. /\ l.pc = "closed" /\ resets = 0 => ~fs.info
        /\ p = "storage" /\ l.pc = "scan" /\ resets = 0 => l.left = ScannedIs(l)
        /\ p = "storage" /\ l.pc = "decide" /\ l.left > 0 /\ resets = 0 => l.left = FreeNow
    BY <1>5, <1>8 DEF FreeInv, CountInv, Flushed, Scanned, Decided
  <2>2. /\ th[p].pc = "link" <=> l.pc = "link"
        /\ (fil.open \/ th[p].pc \in Cutting) /\ resets = 0 /\ fs.info =>
              fil'.open \/ l.pc \in Cutting
    BY <1>1, <1>5
  <2>3. CountInv
    BY DEF FreeInv
  <2>4. QED BY <1>1, <1>6, <1>7, <2>1, <2>2, <2>3, CountQuiet
<1>10. SearchInv'
  <2>1. th'["storage"].pc = "search" =>
            /\ th["storage"].pc = "search" /\ th'["storage"].scl = th["storage"].scl
            /\ th'["storage"].cl = th["storage"].cl
    BY <1>5, <1>6, Both
  <2>2. QED BY <1>7, <2>1, SearchQuiet DEF FreeInv
<1>11. FitInv'
  BY <1>1, <1>5, <1>6, <1>7, FitQuiet, ZenonT(60) DEF FreeInv
<1>12. QED BY <1>9, <1>10, <1>11 DEF FreeInv

(* A step that leaves FAT, fs and file alone and goes to a place that needs *)
(* no count.                                                                *)
LEMMA Passing ==
  ASSUME VolumeInv, FreeInv, resets' = resets, fs' = fs, count' = count,
         CurFat' = CurFat, OnInfo' = OnInfo,
         NEW p \in Thread, NEW l, th'[p] = l,
         \A q \in Thread : q # p => th[q] = Idle /\ th'[q] = Idle,
         fil'.open = fil.open, fil'.checked = fil.checked, fil'.err = fil.err,
         fil'.size = fil.size,
         th[p].pc \notin {"link"} \union Cutting,
         l.pc \notin {"link", "search", "closed", "scan", "decide"} \union Cutting,
         p = "storage" /\ fil'.open /\ fil'.checked =>
            \/ l.pc = th[p].pc /\ l.left = th[p].left
            \/ th[p].pc \in ClosePlaces /\ l.pc \in ClosePlaces
            \/ th[p].pc \in Lengthening /\ l.pc \in Lengthening /\ l.left = th[p].left,
         p = "storage" /\ l.pc \in Rotating =>
            th[p].pc \in Rotating \/ (th[p].pc \in ClosePlaces /\ ~th[p].low),
         p = "storage" /\ l.pc \in ClosePlaces /\ ~l.low => th[p].pc \in ClosePlaces /\ ~th[p].low,
         p = "storage" /\ l.pc \in OpenPlaces =>
            th[p].pc \in OpenPlaces \/ (resets = 0 => FreeNow >= MinFree)
  PROVE  FreeInv'
<1>1. CountInv'
  BY CountQuiet, ZenonT(60) DEF FreeInv
<1>2. SearchInv'
  <2>1. th'["storage"].pc # "search"
    BY Both
  <2>2. QED BY <2>1 DEF SearchInv
<1>3. FitInv'
  BY FitQuiet, ZenonT(60) DEF FreeInv
<1>4. QED BY <1>1, <1>2, <1>3 DEF FreeInv

LEMMA BootReadFree ==
  ASSUME VolumeInv, FreeInv, NEW p \in Thread, BootRead(p)
  PROVE  FreeInv'
<1>1. /\ resets' = resets /\ fs' = fs /\ fil' = fil /\ count' = count
      /\ Here(p, "boot") /\ th' = [th EXCEPT ![p].pc = "info"]
  BY DEF BootRead, Goto, session
<1>2. PICK l : l = [th[p] EXCEPT !.pc = "info"] /\ th' = [th EXCEPT ![p] = l]
  BY <1>1
<1>3. th[p].pc = "boot" /\ l.pc = "info"
  BY <1>1, <1>2, LocalsAre DEF Here, At
<1>4. th'[p] = l /\ \A q \in Thread : q # p => th[q] = Idle /\ th'[q] = Idle
  BY <1>2, <1>3, Going
<1>5. p = "keys"
  BY <1>3, Alone, Both DEF StoragePlaces, WritePlaces, OpenPlaces, ClosePlaces, SavedPlaces
<1>6. CurFat' = CurFat /\ OnInfo' = OnInfo
  BY BootReadStep, SeesSame, InfoSame
<1>7. th[p].pc \notin {"link"} \union Cutting
        /\ l.pc \notin {"link", "search", "closed", "scan", "decide"} \union Cutting
  BY <1>3 DEF Cutting
<1>8. QED BY <1>1, <1>4, <1>5, <1>6, <1>7, Passing, ZenonT(60)

(* The mount takes over the count that FSInfo has.                          *)
LEMMA MountedFree ==
  ASSUME VolumeInv, FreeInv, NEW p \in Thread, Mounted(p)
  PROVE  FreeInv'
<1>1. /\ resets' = resets /\ fil' = fil /\ count' = count
      /\ Here(p, "info") /\ th' = [th EXCEPT ![p].pc = "find", ![p].name = number]
      /\ fs'.mounted /\ ~fs'.info
      /\ fs'.free = IF {Free, Next_Free} \subseteq DOMAIN win.data THEN win.data[Free] ELSE Unknown
  BY DEF Mounted, session
<1>2. PICK l : /\ l = [th[p] EXCEPT !.pc = "find", !.name = number]
               /\ th' = [th EXCEPT ![p] = l]
  BY <1>1
<1>3. th[p].pc = "info" /\ l.pc = "find"
  BY <1>1, <1>2, LocalsAre DEF Here, At
<1>4. th'[p] = l /\ \A q \in Thread : q # p => th[q] = Idle /\ th'[q] = Idle
  BY <1>2, <1>3, Going
<1>5. p = "keys" /\ ~fil.open
  <2>1. p = "keys"
    BY <1>3, Alone, Both DEF StoragePlaces, WritePlaces, OpenPlaces, ClosePlaces, SavedPlaces
  <2>2. ~fil.open
    BY <1>3 DEF VolumeInv, FilInv, FilePlaces, WritePlaces, ClosePlaces, SavedPlaces
  <2>3. QED BY <2>1, <2>2
<1>6. CurFat' = CurFat /\ OnInfo' = OnInfo /\ FreeNow' = FreeNow
  BY MountedStep, SeesSame, InfoSame, FreeSame
<1>7. fs'.free = OnInfo
  <2>1. win.sect = FSInfo /\ SectorOK(FSInfo, win.data) /\ win.data = Cur(FSInfo)
    BY <1>1, HereIs, NeedIs, <1>3 DEF Reading
  <2>2. Cur(FSInfo) = disk[FSInfo]
    BY Names DEF Cur, VolumeInv, WindowInv
  <2>3. {Free, Next_Free} \subseteq DOMAIN win.data
    BY <2>1, FieldsAre DEF SectorOK
  <2>4. QED BY <1>1, <2>1, <2>2, <2>3 DEF OnInfo
<1>8. th["storage"] = Idle /\ th'["storage"] = Idle
  BY <1>4, <1>5, Both
<1>9. CountInv'
  <2> SUFFICES ASSUME resets = 0
               PROVE  (Known /\ Flagged /\ Behind /\ Flushed /\ Scanned /\ Decided)'
    BY <1>1 DEF CountInv
  <2>1. OnInfo \in {Unknown, FreeNow}
    <3>1. ~(\E q \in Thread : th[q].pc \in Cutting)
      BY <1>3, <1>4, Both DEF Cutting
    <3>2. QED BY <1>5, <1>8, <3>1, Both DEF FreeInv, CountInv, Behind
  <2>2. Known'
    <3>1. LinkPending' = 0
      BY <1>8, Both DEF LinkPending
    <3>2. QED BY <1>6, <1>7, <2>1, <3>1, FreeType DEF Known
  <2>3. Flagged' /\ Behind'
    BY <1>1, <1>6, <1>7, <2>1 DEF Flagged, Behind
  <2>4. Flushed' /\ Scanned' /\ Decided'
    BY <1>3, <1>4, <1>8, Both DEF Flushed, Scanned, Decided
  <2>5. QED BY <2>2, <2>3, <2>4
<1>10. SearchInv'
  BY <1>8, Both DEF SearchInv
<1>11. FitInv'
  BY <1>1, <1>4, <1>5, <1>6, FitQuiet, ZenonT(60) DEF FreeInv
<1>12. QED BY <1>9, <1>10, <1>11 DEF FreeInv

(* A file has been opened: it is empty, and its room is there if the free   *)
(* space was checked.                                                      *)
LEMMA OpenedFree ==
  ASSUME VolumeInv, FreeInv, NEW p \in Thread, th[p].pc \in OpenPlaces, th'[p] = Idle,
         \A q \in Thread : q # p => th[q] = Idle /\ th'[q] = Idle,
         resets' = resets, count' = count, CurFat' = CurFat, OnInfo' = OnInfo,
         fs'.mounted = fs.mounted, fs'.free = fs.free, fs'.info = fs.info,
         NEW e, e.size = 0, fil' = Opened(p, e)
  PROVE  FreeInv'
<1>1. /\ fil'.open /\ fil'.size = 0 /\ ~fil'.err
      /\ fil'.checked <=> p = "storage"
  BY DEF Opened, NoFile
<1>2. \A q \in Thread : th'[q] = Idle
  OBVIOUS
<1>3. FreeNow' = FreeNow
  BY FreeSame
<1>4. CountInv'
  <2>1. th[p].pc # "link" /\ Idle.pc \notin {"link", "closed", "scan", "decide"}
    BY Both DEF OpenPlaces
  <2>2. QED BY <1>1, <2>1, CountQuiet, ZenonT(60) DEF FreeInv
<1>5. SearchInv'
  BY <1>2, Both DEF SearchInv
<1>6. FitInv'
  <2> SUFFICES ASSUME RoomForFile, resets = 0
               PROVE  AtRotation' /\ (fil'.open /\ fil'.checked => Complete')
    BY DEF FitInv
  <2>1. AtRotation'
    BY <1>2, Both DEF AtRotation, Rotating, OpenPlaces, ClosePlaces, SavedPlaces
  <2>2. ASSUME fil'.checked PROVE Complete'
    <3>1. p = "storage"
      BY <1>1, <2>2
    <3>2. count = 0 /\ FreeNow >= MinFree
      BY <3>1 DEF FreeInv, FitInv, AtRotation, Rotating
    <3>3. LinkPending' = 0 /\ FreeNow \in Nat
      BY <1>2, FreeType, Both DEF LinkPending
    <3>4. Fits(0)'
      BY <1>1, <1>2, <1>3, <3>2, <3>3, Constants DEF Fits
    <3>5. fil'.size = count' * Buffer
      BY <1>1, <3>2, Constants
    <3>6. QED BY <1>1, <1>2, <3>4, <3>5, Both DEF Complete, WritePlaces
  <2>3. QED BY <2>1, <2>2
<1>7. QED BY <1>4, <1>5, <1>6 DEF FreeInv

LEMMA FindFree ==
  ASSUME VolumeInv, FreeInv, NEW p \in Thread, Find(p)
  PROVE  FreeInv'
<1>1. /\ resets' = resets /\ fs' = fs /\ count' = count /\ Here(p, "find")
  BY DEF Find, session
<1>2. th[p].pc = "find" /\ th[p].pc # "idle"
  BY <1>1 DEF Here, At
<1>3. ~fil.open /\ th[p].name \in File
  BY FindStep
<1>4. CurFat' = CurFat /\ OnInfo' = OnInfo
  <2>1. \E n \in File, e \in {[used |-> TRUE, clust |-> 0, size |-> 0]} :
          disk' = disk /\ \A s \in Sector :
           Cur(s)' = IF s = Dir THEN [Cur(s) EXCEPT ![Entry(n)] = e] ELSE Cur(s)
    <3>1. \A s \in Sector : Cur(s)' = IF s = Dir
             THEN [Cur(s) EXCEPT ![Entry(th[p].name)] = [used |-> TRUE, clust |-> 0, size |-> 0]]
             ELSE Cur(s)
      BY FindStep
    <3>2. disk' = disk
      BY FindStep
    <3>3. QED BY <1>3, <3>1, <3>2
  <2>2. QED BY <2>1, SeesEntry, InfoSame
<1>5. CASE fil' = Opened(p, Absent) /\ th' = [th EXCEPT ![p] = Idle]
  <2>1. th'[p] = Idle /\ \A q \in Thread : q # p => th[q] = Idle /\ th'[q] = Idle
    BY <1>2, <1>5, Going
  <2>2. Absent.size = 0 /\ th[p].pc \in OpenPlaces
    BY <1>2 DEF Absent, OpenPlaces
  <2>3. QED BY <1>1, <1>4, <1>5, <2>1, <2>2, OpenedFree
<1>6. CASE fil' = fil /\ \E c : th' = [th EXCEPT ![p].pc = "get", ![p].cl = c, ![p].scl = c]
  <2>2. PICK l : l.pc = "get" /\ th' = [th EXCEPT ![p] = l]
    BY <1>6, Cuts
  <2>3. th'[p] = l /\ \A q \in Thread : q # p => th[q] = Idle /\ th'[q] = Idle
    BY <1>2, <2>2, Going
  <2>4. CountInv'
    BY <1>1, <1>2, <1>3, <1>4, <2>2, <2>3, CountQuiet DEF FreeInv, Cutting
  <2>5. SearchInv'
    BY <2>2, <2>3, Both DEF SearchInv
  <2>6. FitInv'
    BY <1>1, <1>2, <1>3, <1>4, <1>6, <2>2, <2>3, FitQuiet
       DEF FreeInv, OpenPlaces, ClosePlaces, SavedPlaces, Rotating
  <2>7. QED BY <2>4, <2>5, <2>6 DEF FreeInv
<1>7. QED
  <2>1. \/ /\ fil' = fil
           /\ \E c : th' = [th EXCEPT ![p].pc = "get", ![p].cl = c, ![p].scl = c]
        \/ fil' = Opened(p, Absent) /\ th' = [th EXCEPT ![p] = Idle]
    BY DEF Find, Return
  <2>2. QED BY <1>5, <1>6, <2>1

(* A chain that is given back is one of clusters in use.                    *)
LEMMA CutLink ==
  ASSUME VolumeInv, ChainInv, NEW p \in Thread, th[p].pc \in {"get", "free"}
  PROVE  th[p].cl \in Cluster /\ CurFat[th[p].cl] \in Cluster \union {EOC}
<1>1. PICK own \in Owners, pos \in Positions : Core(own, pos) /\ Places(own, pos)
  BY DEF ChainInv
<1>2. th[p].cl \in Cluster /\ th[p].name \in File
  BY DEF VolumeInv, ThreadInv, LocalsOK, Locals
<1>3. own[th[p].cl] = th[p].name
  BY <1>1 DEF Places, Removal
<1>4. own[th[p].cl] # Nobody
  BY <1>2, <1>3 DEF File, Nobody
<1>5. LinkOK(own, pos, th[p].cl, CurFat[th[p].cl])
  BY <1>1, <1>2, <1>4 DEF Core, Linked
<1>6. QED BY <1>2, <1>5 DEF LinkOK

LEMMA GetLinkCuts ==
  ASSUME VolumeInv, ChainInv, NEW p \in Thread, GetLink(p)
  PROVE  /\ th[p].pc = "get" /\ ~fil.open /\ fil' = fil
         /\ th' = [th EXCEPT ![p].pc = "free", ![p].left = CurFat[th[p].cl]]
<1>1. Here(p, "get") /\ th[p].pc = "get"
  BY DEF GetLink, Here, At
<1>2. /\ win.sect = Need(p) /\ SectorOK(win.sect, win.data) /\ win.data = Cur(win.sect) /\ ~fil.open
  BY <1>1, AtOpen DEF OpenPlaces
<1>3. th[p].cl \in Cluster /\ CurFat[th[p].cl] \in Cluster \union {EOC}
  BY <1>1, CutLink
<1>4. Found(Link(th[p].cl)) = {CurFat[th[p].cl]}
  <2>1. win.sect = FatOf(th[p].cl)
    BY <1>1, <1>2 DEF Need
  <2>2. QED BY <1>2, <1>3, <2>1, LinkIs DEF CurFat
<1>5. CurFat[th[p].cl] \in Nat /\ CurFat[th[p].cl] >= 2
  BY <1>3, Constants DEF EOC
<1>6. fil' = fil /\ th' = [th EXCEPT ![p].pc = "free", ![p].left = CurFat[th[p].cl]]
  BY <1>4, <1>5 DEF GetLink
<1>7. QED BY <1>1, <1>2, <1>6

LEMMA GetLinkFree ==
  ASSUME VolumeInv, ChainInv, FreeInv, NEW p \in Thread, GetLink(p)
  PROVE  FreeInv'
<1>1. resets' = resets /\ fs' = fs /\ count' = count
  BY DEF GetLink, session
<1>2. /\ th[p].pc = "get" /\ th[p].pc # "idle" /\ ~fil.open /\ fil' = fil
      /\ th' = [th EXCEPT ![p].pc = "free", ![p].left = CurFat[th[p].cl]]
  BY GetLinkCuts
<1>3. PICK l : /\ l = [th[p] EXCEPT !.pc = "free", !.left = CurFat[th[p].cl]]
               /\ th' = [th EXCEPT ![p] = l]
  BY <1>2
<1>4. l.pc = "free"
  BY <1>3, LocalsAre
<1>5. th'[p] = l /\ \A q \in Thread : q # p => th[q] = Idle /\ th'[q] = Idle
  BY <1>2, <1>3, Going
<1>6. CurFat' = CurFat /\ OnInfo' = OnInfo
  BY GetLinkStep, SeesSame, InfoSame
<1>7. CountInv'
  BY <1>1, <1>2, <1>4, <1>5, <1>6, CountQuiet DEF FreeInv, Cutting
<1>8. SearchInv'
  BY <1>4, <1>5, Both DEF SearchInv
<1>9. FitInv'
  BY <1>1, <1>2, <1>4, <1>5, <1>6, FitQuiet
     DEF FreeInv, OpenPlaces, ClosePlaces, SavedPlaces, Rotating
<1>10. QED BY <1>7, <1>8, <1>9 DEF FreeInv

(* free_clst counts the cluster that is freed; it is below its cap.         *)
LEMMA FreeClusterFree ==
  ASSUME VolumeInv, ChainInv, FreeInv, NEW p \in Thread, FreeCluster(p)
  PROVE  FreeInv'
<1> DEFINE k == th[p].cl
           to == IF IsCluster(th[p].left) THEN "get" ELSE "back"
<1>1. /\ resets' = resets /\ fil' = fil /\ count' = count /\ Here(p, "free")
      /\ fs' = IF fs.free < Last - 1 THEN [fs EXCEPT !.free = @ + 1, !.info = TRUE] ELSE fs
      /\ th' = [th EXCEPT ![p].pc = to, ![p].cl = th[p].left]
  BY DEF FreeCluster, GotoWith, session
<1>2. th[p].pc = "free" /\ th[p].pc # "idle" /\ to \in {"get", "back"}
  BY <1>1 DEF Here, At
<1>3. ~fil.open /\ fs.mounted
  BY <1>1, AtOpen DEF OpenPlaces
<1>4. k \in Cluster /\ CurFat[k] \in Cluster \union {EOC} /\ CurFat[k] # 0
  BY <1>2, CutLink, Constants
<1>5. PICK l : l = [th[p] EXCEPT !.pc = to, !.cl = th[p].left] /\ th' = [th EXCEPT ![p] = l]
  BY <1>1
<1>6. l.pc = to
  BY <1>5, LocalsAre
<1> HIDE DEF to
<1>7. th'[p] = l /\ \A q \in Thread : q # p => th[q] = Idle /\ th'[q] = Idle
  BY <1>2, <1>5, Going
<1>8. OnInfo' = OnInfo /\ CurFat' = [CurFat EXCEPT ![k] = 0] /\ FreeNow' = FreeNow + 1
  <2>1. disk' = disk /\ \A s \in Sector :
              Cur(s)' = IF s = FatOf(k) THEN [Cur(s) EXCEPT ![Link(k)] = 0] ELSE Cur(s)
    BY FreeClusterStep
  <2>2. CurFat' = [CurFat EXCEPT ![k] = 0]
    BY <1>4, <2>1, SeesLink
  <2>3. QED BY <1>4, <2>1, <2>2, FreeChanges, InfoSame
<1>9. FreeNow \in 0 .. Last - 2
  <2>1. FreeNow' \in 0 .. Last - 1
    BY FreeType
  <2>2. QED BY <1>8, <2>1, FreeType, Constants
<1>10. /\ th["storage"].pc # "link" /\ th'["storage"].pc # "link"
       /\ th'["storage"].pc \notin {"search", "scan", "decide"}
  BY <1>2, <1>6, <1>7, Both
<1>11. CountInv'
  <2> SUFFICES ASSUME resets = 0
               PROVE  (Known /\ Flagged /\ Behind /\ Flushed /\ Scanned /\ Decided)'
    BY <1>1 DEF CountInv
  <2>0. Known /\ Flagged /\ Behind
    BY DEF FreeInv, CountInv
  <2>1. LinkPending = 0 /\ LinkPending' = 0
    BY <1>10 DEF LinkPending
  <2>2. fs.free \in 0 .. Unknown /\ fs.mounted /\ (fs.free # Unknown => fs.free = FreeNow)
    BY <1>3, <2>0, <2>1, <1>9, FsTyped DEF Known
  <2>3. CASE fs.free = FreeNow
    <3>1. fs'.free = FreeNow' /\ fs'.info /\ fs'.mounted = fs.mounted
      <4>1. fs.free < Last - 1
        BY <1>9, <2>3, Constants
      <4>2. fs' = [fs EXCEPT !.free = @ + 1, !.info = TRUE]
        BY <1>1, <4>1
      <4>3. fs'.free = fs.free + 1 /\ fs'.info /\ fs'.mounted = fs.mounted
        BY <4>2, FsTyped
      <4>4. QED BY <1>8, <2>3, <4>3
    <3>2. QED
      <4>1. Known' /\ Flagged'
        BY <1>9, <2>1, <1>8, <3>1 DEF Known, Flagged
      <4>2. Behind'
        <5>1. CASE OnInfo = Unknown \/ l.pc \in Cutting
          BY <1>3, <1>7, <1>8, <3>1, <5>1 DEF Behind
        <5>2. QED BY <1>2, <1>6, <5>1 DEF Cutting
      <4>3. Flushed' /\ Scanned' /\ Decided'
        BY <1>2, <1>6, <1>7, <1>10, Both DEF Flushed, Scanned, Decided
      <4>4. QED BY <4>1, <4>2, <4>3
  <2>4. CASE fs.free = Unknown
    <3>1. fs' = fs
      BY <1>1, <2>4, Constants
    <3>2. Known' /\ Flagged'
      BY <1>8, <2>0, <2>4, <3>1 DEF Known, Flagged
    <3>3. Behind'
      <4>1. CASE fs.info
        <5>1. l.pc \in Cutting
          BY <1>2, <1>6 DEF Cutting
        <5>2. QED BY <1>3, <1>7, <3>1, <4>1, <5>1 DEF Behind
      <4>2. CASE ~fs.info
        BY <1>3, <1>8, <2>0, <2>4, <4>2 DEF Flagged, Behind
      <4>3. QED BY <4>1, <4>2
    <3>4. Flushed' /\ Scanned' /\ Decided'
      BY <1>2, <1>6, <1>7, <1>10, Both DEF Flushed, Scanned, Decided
    <3>5. QED BY <3>2, <3>3, <3>4
  <2>5. QED BY <2>2, <2>3, <2>4
<1>12. SearchInv'
  BY <1>10 DEF SearchInv
<1>13. FitInv'
  <2> SUFFICES ASSUME RoomForFile, resets = 0 PROVE AtRotation'
    BY <1>1, <1>3 DEF FitInv
  <2>1. CASE p = "storage"
    <3>1. count = 0 /\ FreeNow >= MinFree
      BY <1>2, <2>1 DEF FreeInv, FitInv, AtRotation, Rotating, OpenPlaces
    <3>2. l.pc \notin ClosePlaces
      BY <1>2, <1>6 DEF ClosePlaces, SavedPlaces
    <3>3. QED BY <1>1, <1>7, <1>8, <1>9, <2>1, <3>1, <3>2, Constants DEF AtRotation
  <2>2. CASE p # "storage"
    BY <1>7, <2>2, Both DEF AtRotation, Rotating, OpenPlaces, ClosePlaces, SavedPlaces
  <2>3. QED BY <2>1, <2>2
<1>14. QED BY <1>11, <1>12, <1>13 DEF FreeInv

LEMMA BackToEntryFree ==
  ASSUME VolumeInv, FreeInv, NEW p \in Thread, BackToEntry(p)
  PROVE  FreeInv'
<1>1. /\ resets' = resets /\ count' = count /\ Here(p, "back")
      /\ fs' = [fs EXCEPT !.next = th[p].scl - 1] /\ th' = [th EXCEPT ![p] = Idle]
  BY DEF BackToEntry, Return, session
<1>2. th[p].pc = "back" /\ th[p].pc # "idle" /\ th[p].pc \in OpenPlaces
  BY <1>1 DEF Here, At, OpenPlaces
<1>3. th'[p] = Idle /\ \A q \in Thread : q # p => th[q] = Idle /\ th'[q] = Idle
  BY <1>1, <1>2, Going
<1>4. fs'.mounted = fs.mounted /\ fs'.free = fs.free /\ fs'.info = fs.info
  BY <1>1, FsTyped
<1>5. CurFat' = CurFat /\ OnInfo' = OnInfo
  BY BackToEntryStep, SeesSame, InfoSame
<1>6. PICK e : e = [used |-> TRUE, clust |-> 0, size |-> 0] /\ fil' = Opened(p, e)
  BY BackToEntryStep
<1>7. e.size = 0
  BY <1>6
<1>8. QED BY <1>1, <1>2, <1>3, <1>4, <1>5, <1>6, <1>7, OpenedFree

-----------------------------------------------------------------------------
(* f_write.                                                                 *)
LEMMA WriteFree ==
  ASSUME VolumeInv, FreeInv, Write
  PROVE  FreeInv'
<1>1. /\ resets' = resets /\ fs' = fs /\ fil' = fil /\ count' = count
      /\ th["storage"].pc = "idle" /\ th["keys"].pc = "idle"
  BY DEF Write, At, session
<1>2. PICK l : /\ th' = [th EXCEPT !["storage"] = l]
               /\ l = IF Valid /\ ~fil.err
                      THEN [Idle EXCEPT !.pc = Onward(fil.size, Buffer), !.left = Buffer]
                      ELSE [Idle EXCEPT !.pc = "refused"]
  BY DEF Write
<1>3. th'["storage"] = l /\ th["keys"] = Idle /\ th'["keys"] = Idle /\ th["storage"] = Idle
  BY <1>1, <1>2, Both DEF VolumeInv, ThreadInv, LocalsOK
<1>4. \A q \in Thread : q # "storage" => th[q] = Idle /\ th'[q] = Idle
  BY <1>3, Both
<1>5. CurFat' = CurFat /\ OnInfo' = OnInfo /\ FreeNow' = FreeNow
  BY WriteBeginStep, SeesSame, InfoSame, FreeSame
<1>6. fil.size \in Nat /\ Buffer \in Nat /\ Buffer # 0 /\ (fil.open => fs.mounted)
  BY Constants DEF VolumeInv, FilInv, FilType
<1>7. /\ l.pc \in {"new", "follow", "data", "refused"}
      /\ l.pc = "refused" => ~fil.open \/ fil.err
      /\ l.pc # "refused" => l.left = Buffer /\ l.pc = Onward(fil.size, Buffer)
  <2>1. CASE Valid /\ ~fil.err
    <3>1. l = [Idle EXCEPT !.pc = Onward(fil.size, Buffer), !.left = Buffer]
      BY <1>2, <2>1
    <3>2. Onward(fil.size, Buffer) \in {"new", "follow", "data"}
      BY <1>6, OnwardIs
    <3>3. QED BY <3>1, <3>2 DEF Idle
  <2>2. CASE ~(Valid /\ ~fil.err)
    <3>1. l = [Idle EXCEPT !.pc = "refused"]
      BY <1>2, <2>2
    <3>2. QED BY <1>6, <2>2, <3>1 DEF Idle, Valid
  <2>3. QED BY <2>1, <2>2
<1>8. CountInv'
  <2>1. /\ ~(th["storage"].pc = "link") /\ ~(l.pc = "link")
        /\ th["storage"].pc \notin Cutting
        /\ l.pc \notin {"closed", "scan", "decide"}
    BY <1>1, <1>7 DEF Cutting
  <2>2. QED BY <1>1, <1>3, <1>4, <1>5, <2>1, Both, CountQuiet DEF FreeInv
<1>9. SearchInv'
  BY <1>3, <1>7 DEF SearchInv
<1>10. FitInv'
  <2> SUFFICES ASSUME RoomForFile, resets = 0
               PROVE  AtRotation' /\ (fil'.open /\ fil'.checked => Complete')
    BY <1>1 DEF FitInv
  <2>1. AtRotation'
    BY <1>3, <1>7 DEF AtRotation, Rotating, OpenPlaces, ClosePlaces, SavedPlaces
  <2>2. ASSUME fil'.open, fil'.checked PROVE Complete'
    <3>1. Complete
      BY <1>1, <2>2 DEF FreeInv, FitInv
    <3>2. ~fil'.err /\ fil.size = count * Buffer /\ l.pc # "refused"
      BY <1>1, <1>7, <2>2, <3>1 DEF Complete
    <3>3. fil'.size + l.left = (count + 1) * Buffer
      BY <1>1, <1>7, <3>2, Room
    <3>4. PICK a \in Nat : Fits(a)
      BY <3>1 DEF Complete
    <3>5. LinkPending' = 0 /\ LinkPending = 0
      BY <1>1, <1>3, <1>7 DEF LinkPending
    <3>6. Fits(a)'
      BY <1>1, <1>5, <3>4, <3>5 DEF Fits
    <3>7. th'["storage"].pc \notin {"idle", "written", "refused"}
      BY <1>3, <1>7, <3>2
    <3>8. QED BY <1>1, <1>3, <3>2, <3>3, <3>6, <3>7 DEF Complete
  <2>3. QED BY <2>1, <2>2
<1>11. QED BY <1>8, <1>9, <1>10 DEF FreeInv

(* The search starts with nothing passed.                                   *)
LEMMA SearchStarts ==
  ASSUME VolumeInv, CurFat' = CurFat, NEW scl \in 1 .. Last, NEW l, th'["storage"] = l,
         l.pc = "search", l.scl = scl, l.cl = IF scl < Last THEN scl + 1 ELSE 2
  PROVE  SearchInv'
<1>1. \A x \in Cluster : x \in Nat /\ 2 <= x /\ x <= Last
  BY Constants
<1>2. \A x \in Cluster : ~Passed(x, l.scl, l.cl)
  BY <1>1, Constants DEF Passed
<1>3. QED BY <1>2 DEF SearchInv

LEMMA SearchFromFree ==
  ASSUME VolumeInv, FreeInv, resets' = resets, fs' = fs, fil' = fil, count' = count,
         CurFat' = CurFat, OnInfo' = OnInfo,
         th["storage"].pc \in {"new", "follow"}, NEW scl \in 1 .. Last, SearchFrom(scl)
  PROVE  FreeInv'
<1>1. PICK l : /\ l = [th["storage"] EXCEPT !.pc = "search", !.scl = scl,
                          !.cl = IF scl < Last THEN scl + 1 ELSE 2]
               /\ th' = [th EXCEPT !["storage"] = l]
  BY DEF SearchFrom
<1>2. /\ l.pc = "search" /\ l.scl = scl /\ l.cl = (IF scl < Last THEN scl + 1 ELSE 2)
      /\ l.left = th["storage"].left
  BY <1>1, LocalsAre, Both
<1>3. /\ th'["storage"] = l
      /\ \A q \in Thread : q # "storage" => th[q] = Idle /\ th'[q] = Idle
  BY <1>1, Going, Both
<1>4. CountInv'
  BY <1>2, <1>3, Both, CountQuiet DEF FreeInv, Cutting
<1>5. SearchInv'
  BY <1>2, <1>3, SearchStarts
<1>6. FitInv'
  BY <1>2, <1>3, Both, FitQuiet
     DEF FreeInv, OpenPlaces, ClosePlaces, SavedPlaces, Rotating, Lengthening
<1>7. QED BY <1>4, <1>5, <1>6 DEF FreeInv

LEMMA NewChainFree ==
  ASSUME VolumeInv, FreeInv, NewChain
  PROVE  FreeInv'
<1>1. /\ resets' = resets /\ fs' = fs /\ fil' = fil /\ count' = count
      /\ th["storage"].pc = "new"
      /\ SearchFrom(IF fs.next = 0 \/ fs.next > Last THEN 1 ELSE fs.next)
  BY DEF NewChain, At, session
<1>2. (IF fs.next = 0 \/ fs.next > Last THEN 1 ELSE fs.next) \in 1 .. Last
  BY FsTyped, Constants
<1>3. CurFat' = CurFat /\ OnInfo' = OnInfo
  BY NewChainStep, SeesSame, InfoSame
<1>4. QED BY <1>1, <1>2, <1>3, SearchFromFree

(* The file that is written ends with its last cluster.                     *)
LEMMA EndMark ==
  ASSUME VolumeInv, ChainInv, th["storage"].pc \in WritePlaces, fil.size > 0
  PROVE  fil.clust \in Cluster /\ CurFat[fil.clust] = EOC
<1>1. PICK own \in Owners, pos \in Positions : Core(own, pos) /\ Places(own, pos)
  BY DEF ChainInv
<1>2. /\ fil.sclust = 0 => fil.size = 0
      /\ fil.sclust # 0 => AtEnd(own, pos)
  BY <1>1, AtFile
<1>3. AtEnd(own, pos)
  BY <1>2
<1>4. QED BY <1>3 DEF AtEnd

LEMMA FollowFree ==
  ASSUME VolumeInv, ChainInv, FreeInv, Follow
  PROVE  FreeInv'
<1>1. /\ resets' = resets /\ fs' = fs /\ count' = count /\ th["storage"].pc = "follow"
  BY DEF Follow, Here, At, session
<1>2. th["storage"].pc \in WritePlaces /\ fil.size > 0
  BY <1>1 DEF WritePlaces, VolumeInv, FilInv
<1>3. fil.clust \in Cluster /\ CurFat[fil.clust] = EOC
  BY <1>2, EndMark
<1>4. Found(Link(fil.clust)) = {EOC}
  BY <1>3, FollowStep DEF CurFat
<1>5. EOC > Last /\ ~(EOC < 2) /\ ~IsCluster(EOC) /\ fil.clust \in 1 .. Last
  BY <1>3, Constants DEF IsCluster
<1>6. SearchFrom(fil.clust) /\ fil' = fil
  BY <1>4, <1>5 DEF Follow
<1>7. CurFat' = CurFat /\ OnInfo' = OnInfo
  BY FollowStep, SeesSame, InfoSame
<1>8. QED BY <1>1, <1>5, <1>6, <1>7, SearchFromFree

(* A checked file that needs a cluster finds one.                           *)
LEMMA RoomLeft ==
  ASSUME VolumeInv, ChainInv, FreeInv, RoomForFile, resets = 0, fil.open, fil.checked,
         th["storage"].pc \in {"search", "mark", "link"}
  PROVE  /\ FreeNow >= 1 \/ th["storage"].pc = "link"
         /\ fil.size % ClusterSize = 0 /\ fil.size \in Nat
         /\ \E a \in Nat : Fits(a) /\ a * ClusterSize <= fil.size
<1>1. Complete
  BY DEF FreeInv, FitInv
<1>2. th["storage"].pc \in WritePlaces /\ th["storage"].pc \in Extending
  BY DEF WritePlaces, Extending
<1>3. fil.size % ClusterSize = 0 /\ fil.size \in Nat
  <2>1. PICK own \in Owners, pos \in Positions : Core(own, pos) /\ Places(own, pos)
    BY DEF ChainInv
  <2>2. QED BY <1>2, <2>1, AtFile
<1>4. PICK a \in Nat : Fits(a)
  BY <1>1 DEF Complete
<1>5. a * ClusterSize < fil.size + ClusterSize
  BY <1>4 DEF Fits
<1>6. PICK q \in Nat : fil.size = q * ClusterSize
  <2>1. /\ fil.size \div ClusterSize \in Nat
        /\ fil.size = ClusterSize * (fil.size \div ClusterSize) + 0
    BY <1>3, Quotient, Constants
  <2>2. fil.size = (fil.size \div ClusterSize) * ClusterSize
    BY <2>1, Constants
  <2>3. QED BY <2>1, <2>2
<1>7. a <= q
  <2>1. ASSUME q + 1 <= a PROVE FALSE
    <3>1. (q + 1) * ClusterSize <= a * ClusterSize /\ a * ClusterSize \in Nat
          /\ (q + 1) * ClusterSize \in Nat
      BY <2>1, Times, Constants
    <3>2. (q + 1) * ClusterSize = q * ClusterSize + ClusterSize
      BY Times, Constants
    <3>3. QED BY <1>5, <1>6, <3>1, <3>2, Constants
  <2>2. QED BY <2>1
<1>8. a * ClusterSize <= fil.size
  BY <1>6, <1>7, Times, Constants
<1>9. FreeNow >= 1 \/ th["storage"].pc = "link"
  <2>1. ASSUME th["storage"].pc # "link", FreeNow = 0 PROVE FALSE
    <3>1. MinFree <= a
      BY <1>4, <2>1, Constants DEF Fits, LinkPending
    <3>2. MinFree * ClusterSize <= a * ClusterSize /\ MinFree * ClusterSize \in Nat
          /\ a * ClusterSize \in Nat
      BY <3>1, Times, Constants
    <3>3. fil.size < MaxSize
      <4>1. fil.size + th["storage"].left = (count + 1) * Buffer /\ th["storage"].left > 0
            /\ th["storage"].left \in Nat
        BY <1>1, <1>2, AtWrite DEF Complete
      <4>2. (count + 1) * Buffer <= MaxSize /\ (count + 1) * Buffer \in Nat
        BY Room
      <4>3. QED BY <1>3, <4>1, <4>2, Constants
    <3>4. QED BY <1>3, <1>8, <3>2, <3>3, Constants DEF RoomForFile
  <2>2. QED BY <2>1, FreeType
<1>10. QED BY <1>3, <1>4, <1>8, <1>9

-----------------------------------------------------------------------------
(* What the FAT never holds, and when the window is clean.                  *)
LinkValues == \A c \in Cluster : CurFat[c] # 1 /\ CardFat[c] # 1
CleanInv ==
  /\ win.dirty => fil.open \/ \E p \in Thread : th[p].pc \in Cutting
  /\ \A p \in Thread : th[p].pc = "closed" => ~win.dirty

LEMMA LinkValuesPut ==
  ASSUME VolumeInv, LinkValues, NEW c \in Cluster, NEW v, v # 1,
         CurFat' = [CurFat EXCEPT ![c] = v], CardFat' = CardFat
  PROVE  LinkValues'
  BY ViewTypes DEF LinkValues

LEMMA LinkValuesStep ==
  ASSUME VolumeInv, LinkValues, Exclusive, [Next]_vars
  PROVE  LinkValues'
<1>1. CASE CurFat' \in {CurFat, CardFat} /\ CardFat' \in {CurFat, CardFat}
  BY <1>1 DEF LinkValues
<1>2. CASE Window
  BY <1>1, <1>2, SyncWindowStep, MoveWindowStep, WindowMovedStep, SeesSame, SeesSynced DEF Window
<1>3. ASSUME NEW p \in Thread,
             \/ BootRead(p) \/ Mounted(p) \/ GetLink(p) \/ BackToEntry(p) \/ Close(p)
             \/ Closed(p) \/ Unmount(p)
      PROVE  LinkValues'
  BY <1>1, <1>3, BootReadStep, MountedStep, GetLinkStep, BackToEntryStep, FileCloseStep,
     ClosedStep, UnmountStep, SeesSame
<1>4. ASSUME NEW p \in Thread, FreeCluster(p) PROVE LinkValues'
  <2>1. /\ disk' = disk /\ th[p].cl \in Cluster
        /\ \A s \in Sector :
              Cur(s)' = IF s = FatOf(th[p].cl) THEN [Cur(s) EXCEPT ![Link(th[p].cl)] = 0]
                                               ELSE Cur(s)
    BY <1>4, FreeClusterStep
  <2>2. CurFat' = [CurFat EXCEPT ![th[p].cl] = 0] /\ CardFat' = CardFat
    BY <2>1, SeesLink
  <2>3. PICK c \in Cluster : CurFat' = [CurFat EXCEPT ![c] = 0]
    BY <2>1, <2>2
  <2>4. CardFat' = CardFat /\ 0 # 1
    BY <2>2
  <2>5. QED BY <2>3, <2>4, LinkValuesPut
<1>5. ASSUME NEW p \in Thread, Find(p) PROVE LinkValues'
  <2>1. \A s \in Sector : Cur(s)' = IF s = Dir
           THEN [Cur(s) EXCEPT ![Entry(th[p].name)] = [used |-> TRUE, clust |-> 0, size |-> 0]]
           ELSE Cur(s)
    BY <1>5, FindStep
  <2>2. disk' = disk /\ th[p].name \in File
    BY <1>5, FindStep
  <2>3. QED BY <1>1, <2>1, <2>2, SeesEntry
<1>6. ASSUME NEW p \in Thread, SaveEntry(p) PROVE LinkValues'
  <2>1. PICK e : \A s \in Sector : Cur(s)' = IF s = Dir
           THEN [Cur(s) EXCEPT ![Entry(fil.name)] = e] ELSE Cur(s)
    BY <1>6, SaveEntryStep
  <2>2. disk' = disk /\ fil.name \in File
    BY <1>6, SaveEntryStep
  <2>3. QED BY <1>1, <2>1, <2>2, SeesEntry
<1>7. ASSUME NEW p \in Thread, SyncEntry(p) \/ SyncInfo(p) PROVE LinkValues'
  BY <1>1, <1>7, SyncEntryStep, SyncInfoStep, SeesSynced, SeesInfo
<1>8. CASE Write \/ NewChain \/ Follow \/ Search \/ WriteData \/ Written
  BY <1>1, <1>8, WriteBeginStep, NewChainStep, FollowStep, SearchStep, WriteDataStep,
     WrittenStep, SeesSame
<1>9. CASE Mark
  BY <1>9, MarkStep, SeesLink, LinkValuesPut, Constants
<1>10. CASE LinkCluster
  <2>1. /\ disk' = disk /\ th["storage"].cl \in Cluster /\ fil.clust \in Cluster
        /\ \A s \in Sector :
              Cur(s)' = IF s = FatOf(fil.clust)
                        THEN [Cur(s) EXCEPT ![Link(fil.clust)] = th["storage"].cl] ELSE Cur(s)
    BY <1>10, LinkClusterStep
  <2>2. th["storage"].cl # 1
    BY <2>1, Constants
  <2>3. QED BY <2>1, <2>2, SeesLink, LinkValuesPut
<1>11. CASE CloseAgain \/ GetFree \/ Scan \/ NextFile \/ LowSpace
  BY <1>1, <1>11, CloseAgainStep, GetFreeStep, ScanStep, NextFileStep, LowSpaceStep, SeesSame
<1>12. CASE Start \/ StartNoCard \/ Stop \/ Reset
  BY <1>1, <1>12, StartStep, StartNoCardStep, StopStep, ResetStep, SeesSame, SeesCard
<1>13. CASE UNCHANGED vars
  <2>1. disk' = disk /\ win' = win
    BY <1>13 DEF vars
  <2>2. QED BY <1>1, <2>1, SeesSame DEF Cur
<1>14. CASE Open
  BY <1>3, <1>4, <1>5, <1>14 DEF Open
<1>15. CASE WriteBuffer
  BY <1>8, <1>9, <1>10, <1>15 DEF WriteBuffer
<1>16. CASE CloseFile
  BY <1>3, <1>6, <1>7, <1>11, <1>16 DEF CloseFile
<1>17. QED BY <1>2, <1>12, <1>13, <1>14, <1>15, <1>16 DEF Next

(* Where a thread goes.                                                     *)
LEMMA Sent ==
  ASSUME VolumeInv, NEW p \in Thread
  PROVE  \A pc : \/ Goto(p, pc)
                 \/ \E c : GotoWith(p, pc, c)
                 \/ \E n : th' = [th EXCEPT ![p].pc = pc, ![p].name = n]
                 \/ \E n : th' = [th EXCEPT ![p].pc = pc, ![p].left = n]
                 \/ \E l : th' = [th EXCEPT ![p] = l] /\ l.pc = pc
                 \/ p = "storage" /\ pc = "search" /\ \E scl : SearchFrom(scl)
                 \/ pc = "idle" /\ Return(p)
                 => th'[p].pc = pc /\ \A q \in Thread : q # p => th'[q] = th[q]
<1> SUFFICES ASSUME NEW pc,
                 \/ Goto(p, pc)
                 \/ \E c : GotoWith(p, pc, c)
                 \/ \E n : th' = [th EXCEPT ![p].pc = pc, ![p].name = n]
                 \/ \E n : th' = [th EXCEPT ![p].pc = pc, ![p].left = n]
                 \/ \E l : th' = [th EXCEPT ![p] = l] /\ l.pc = pc
                 \/ p = "storage" /\ pc = "search" /\ \E scl : SearchFrom(scl)
                 \/ pc = "idle" /\ Return(p)
             PROVE  th'[p].pc = pc /\ \A q \in Thread : q # p => th'[q] = th[q]
  OBVIOUS
<1>1. th[p] \in Locals /\ th = [q \in Thread |-> th[q]]
  BY DEF VolumeInv, ThreadInv, LocalsOK
<1>2. CASE Goto(p, pc)
  BY <1>1, <1>2 DEF Goto, Locals
<1>3. ASSUME NEW c, GotoWith(p, pc, c)
      PROVE  th'[p].pc = pc /\ \A q \in Thread : q # p => th'[q] = th[q]
  BY <1>1, <1>3 DEF GotoWith, Locals
<1>4. ASSUME NEW n, th' = [th EXCEPT ![p].pc = pc, ![p].name = n]
      PROVE  th'[p].pc = pc /\ \A q \in Thread : q # p => th'[q] = th[q]
  BY <1>1, <1>4 DEF Locals
<1>5. ASSUME NEW n, th' = [th EXCEPT ![p].pc = pc, ![p].left = n]
      PROVE  th'[p].pc = pc /\ \A q \in Thread : q # p => th'[q] = th[q]
  BY <1>1, <1>5 DEF Locals
<1>6. ASSUME NEW l, th' = [th EXCEPT ![p] = l] /\ l.pc = pc
      PROVE  th'[p].pc = pc /\ \A q \in Thread : q # p => th'[q] = th[q]
  BY <1>1, <1>6
<1>7. ASSUME NEW scl, SearchFrom(scl), p = "storage", pc = "search"
      PROVE  th'[p].pc = pc /\ \A q \in Thread : q # p => th'[q] = th[q]
  BY <1>1, <1>7 DEF SearchFrom, Locals
<1>8. CASE pc = "idle" /\ Return(p)
  BY <1>1, <1>8, Both DEF Return
<1>9. QED BY <1>2, <1>3, <1>4, <1>5, <1>6, <1>7, <1>8

LEMMA CleanQuiet ==
  ASSUME VolumeInv, CleanInv, NEW p \in Thread, th'[p].pc # "closed",
         \A q \in Thread : q # p => th'[q] = th[q] /\ th[q].pc # "closed",
         fil'.open \/ th'[p].pc \in Cutting
           \/ (win'.dirty = win.dirty /\ fil'.open = fil.open /\ th[p].pc \notin Cutting)
  PROVE  CleanInv'
  BY DEF CleanInv

LEMMA CleanWindow ==
  ASSUME VolumeInv, CleanInv, NEW p \in Thread,
         SyncWindow(p) \/ MoveWindow(p) \/ WindowMoved(p)
  PROVE  CleanInv'
<1>1. CASE SyncWindow(p)
  <2>1. ~win'.dirty
    BY <1>1 DEF SyncWindow, VolumeInv, WindowInv
  <2>2. QED BY <2>1 DEF CleanInv
<1>2. CASE MoveWindow(p) \/ WindowMoved(p)
  <2>1. fil' = fil /\ win'.dirty = win.dirty
    BY <1>2 DEF MoveWindow, WindowMoved, VolumeInv, WindowInv
  <2>2. \A q \in Thread : th'[q].pc = th[q].pc
    BY <1>2 DEF MoveWindow, WindowMoved, VolumeInv, ThreadInv, LocalsOK, Locals
  <2>3. QED BY <2>1, <2>2 DEF CleanInv
<1>3. QED BY <1>1, <1>2

(* A sector is changed for a file that is open or cut.                      *)
LEMMA CleanOpen ==
  ASSUME VolumeInv, ChainInv, CleanInv, NEW p \in Thread,
         \/ BootRead(p) \/ Mounted(p) \/ Find(p) \/ GetLink(p)
         \/ FreeCluster(p) \/ BackToEntry(p)
  PROVE  CleanInv'
<1>1. th[p].pc \in {"boot", "info", "find", "get", "free", "back"}
  BY DEF BootRead, Mounted, Find, GetLink, FreeCluster, BackToEntry, Here, At
<1>2. \A q \in Thread : q # p => th[q].pc = "idle"
  BY <1>1, Alone, Both
<1>3. \E pc \in {"info", "find", "get", "free", "back", "idle"} :
        /\ th'[p].pc = pc /\ \A q \in Thread : q # p => th'[q] = th[q]
        /\ \/ fil'.open
           \/ pc \in Cutting
           \/ win' = win /\ th[p].pc \notin Cutting /\ fil' = fil
  <2>1. CASE BootRead(p) \/ Mounted(p)
    <3>1. th[p].pc \notin Cutting /\ win' = win /\ fil' = fil
      BY <2>1 DEF BootRead, Mounted, Here, At, Cutting
    <3>2. PICK pc \in {"info", "find"} :
             Goto(p, pc) \/ \E n : th' = [th EXCEPT ![p].pc = pc, ![p].name = n]
      BY <2>1 DEF BootRead, Mounted
    <3>3. th'[p].pc = pc /\ \A q \in Thread : q # p => th'[q] = th[q]
      BY <3>2, Sent
    <3>4. QED BY <3>1, <3>3
  <2>2. CASE Find(p)
    <3>1. Opened(p, Absent).open
      BY DEF Opened, NoFile
    <3>2. CASE \E c : th' = [th EXCEPT ![p].pc = "get", ![p].cl = c, ![p].scl = c]
      <4>2. PICK l : l.pc = "get" /\ th' = [th EXCEPT ![p] = l]
        BY <3>2, Cuts
      <4>3. th'[p].pc = "get" /\ \A q \in Thread : q # p => th'[q] = th[q]
        BY <4>2, Sent
      <4>4. QED BY <4>3 DEF Cutting
    <3>3. CASE fil' = Opened(p, Absent) /\ Return(p)
      BY <3>1, <3>3, Sent
    <3>4. QED BY <2>2, <3>2, <3>3 DEF Find
  <2>3. CASE GetLink(p)
    <3>1. \E n : th' = [th EXCEPT ![p].pc = "free", ![p].left = n]
      BY <2>3, GetLinkCuts
    <3>2. QED BY <3>1, Sent DEF Cutting
  <2>4. CASE FreeCluster(p)
    <3>1. PICK pc \in {"get", "back"} : \E c : GotoWith(p, pc, c)
      BY <2>4 DEF FreeCluster
    <3>2. QED BY <3>1, Sent DEF Cutting
  <2>5. CASE BackToEntry(p)
    <3>1. fil'.open /\ Return(p)
      BY <2>5 DEF BackToEntry, Opened, NoFile
    <3>2. QED BY <3>1, Sent
  <2>6. QED BY <2>1, <2>2, <2>3, <2>4, <2>5
<1>4. QED BY <1>2, <1>3, CleanQuiet

LEMMA CleanWrite ==
  ASSUME VolumeInv, CleanInv, WriteBuffer
  PROVE  CleanInv'
<1>1. CASE Write \/ Written
  <2>1. /\ th["storage"].pc \in {"idle", "written", "refused"} /\ win' = win
        /\ fil'.open = fil.open
    BY <1>1 DEF Write, Written, At, VolumeInv, FilInv, FilType
  <2>2. \E pc : th'["storage"].pc = pc /\ pc # "closed"
                /\ \A q \in Thread : q # "storage" => th'[q] = th[q]
    <3>1. fil.size \in Nat /\ Onward(fil.size, Buffer) # "closed"
      <4>1. fil.size \in Nat
        BY Constants DEF VolumeInv, FilInv, FilType
      <4>2. QED BY <4>1, OnwardIs, Constants
    <3>2. \E pc : /\ pc # "closed"
                  /\ \/ Goto("storage", pc) \/ (Return("storage") /\ pc = "idle")
                     \/ \E l : th' = [th EXCEPT !["storage"] = l] /\ l.pc = pc
      <4>1. CASE Write
        <5>1. PICK l : th' = [th EXCEPT !["storage"] = l]
                       /\ l = IF Valid /\ ~fil.err
                              THEN [Idle EXCEPT !.pc = Onward(fil.size, Buffer), !.left = Buffer]
                              ELSE [Idle EXCEPT !.pc = "refused"]
          BY <4>1 DEF Write
        <5>2. l.pc # "closed"
          BY <3>1, <5>1 DEF Idle
        <5>3. QED BY <5>1, <5>2
      <4>2. CASE Written
        BY <4>2 DEF Written
      <4>3. QED BY <1>1, <4>1, <4>2
    <3>3. QED BY <3>2, Sent, Both
  <2>3. th["keys"].pc # "closed"
    <3>1. CASE th["storage"].pc = "idle"
      BY <1>1, <3>1 DEF Write, Written, At
    <3>2. CASE th["storage"].pc # "idle"
      BY <3>2, Alone, Both
    <3>3. QED BY <3>1, <3>2
  <2>4. QED BY <2>1, <2>2, <2>3, Both, CleanQuiet DEF Cutting
<1>2. CASE NewChain \/ Follow \/ Search \/ Mark \/ LinkCluster \/ WriteData
  <2>1. th["storage"].pc \in WritePlaces
    BY <1>2 DEF NewChain, Follow, Search, Mark, LinkCluster, WriteData, Here, At, WritePlaces
  <2>2. fil.open /\ \A q \in Thread : q # "storage" => th[q].pc = "idle"
    BY <2>1, AtWrite, Both
  <2>3. fil'.open
    BY <1>2, <2>2 DEF NewChain, Follow, Search, Mark, LinkCluster, WriteData, Chained, Abort,
                VolumeInv, FilInv, FilType
  <2>4. \E pc : th'["storage"].pc = pc /\ pc # "closed"
                /\ \A q \in Thread : q # "storage" => th'[q] = th[q]
    <3>1. CASE \E scl : SearchFrom(scl)
      <4>1. th'["storage"].pc = "search" /\ \A q \in Thread : q # "storage" => th'[q] = th[q]
        BY <3>1, Sent, Both
      <4>2. QED BY <4>1
    <3>2. CASE \E pc, c : pc # "closed" /\ (Goto("storage", pc) \/ GotoWith("storage", pc, c))
      BY <3>2, Sent, Both
    <3>3. CASE NewChain \/ Follow
      BY <3>1, <3>2, <3>3 DEF NewChain, Follow, Abort
    <3>4. CASE Search
      BY <3>2, <3>4 DEF Search, DiskFull, Abort
    <3>5. CASE Mark \/ LinkCluster
      BY <3>2, <3>5 DEF Mark, LinkCluster, Chained
    <3>6. CASE WriteData
      <4> DEFINE first == fil.size % ClusterSize
                 left == th["storage"].left
                 room == ClusterSize - first
                 cc == IF left < room THEN left ELSE room
                 to == Onward(fil.size + cc, left - cc)
                 l == [th["storage"] EXCEPT !.left = left - cc, !.pc = to]
      <4>1. left \in Nat /\ fil.size \in Nat
        BY <2>1, AtWrite
      <4>2. first \in 0 .. ClusterSize - 1
        BY <4>1, Constants
      <4>3. th' = [th EXCEPT !["storage"] = l]
        BY <3>6 DEF WriteData
      <4> HIDE DEF first
      <4>4. cc \in Nat /\ left - cc \in Nat /\ fil.size + cc \in Nat
        BY <4>1, <4>2, Constants
      <4>5. to # "closed"
        BY <4>4, OnwardIs
      <4> HIDE DEF to
      <4>6. l.pc = to
        BY LocalsAre, Both
      <4> HIDE DEF l
      <4>7. QED BY <4>3, <4>5, <4>6, Sent, Both
    <3>7. QED BY <1>2, <3>3, <3>4, <3>5, <3>6
  <2>5. QED BY <2>2, <2>3, <2>4, Both, CleanQuiet
<1>3. QED BY <1>1, <1>2 DEF WriteBuffer

(* f_close leaves a clean window.                                           *)
LEMMA CleanClose ==
  ASSUME VolumeInv, CleanInv, CloseFile
  PROVE  CleanInv'
<1>1. ASSUME NEW p \in Thread, \/ Close(p) \/ SaveEntry(p) \/ SyncEntry(p)
                               \/ SyncInfo(p) \/ Closed(p) \/ Unmount(p)
      PROVE  CleanInv'
  <2>1. th[p].pc \in {"close", "save", "sync", "fsinfo", "closed", "unmount"}
    BY <1>1 DEF Close, SaveEntry, SyncEntry, SyncInfo, Closed, Unmount, Here, At
  <2>2. \A q \in Thread : q # p => th[q].pc = "idle"
    BY <2>1, Alone, Both
  <2>3. th[p].pc \notin Cutting
    BY <2>1 DEF Cutting
  <2>4. CASE Close(p)
    <3>1. win' = win /\ fil' = fil /\ \E pc : Goto(p, pc)
      BY <2>4 DEF Close
    <3>2. th'[p].pc # "closed"
      BY <2>4, FileCloseStep DEF SavedPlaces
    <3>3. \A q \in Thread : q # p => th'[q] = th[q]
      BY <3>1, Sent
    <3>4. QED BY <2>2, <2>3, <3>1, <3>2, <3>3, CleanQuiet
  <2>5. CASE SaveEntry(p)
    <3>1. fil.open /\ fil' = fil /\ Goto(p, "sync")
      BY <2>5, SaveEntryStep DEF SaveEntry
    <3>2. th'[p].pc = "sync" /\ \A q \in Thread : q # p => th'[q] = th[q]
      BY <3>1, Sent
    <3>3. QED BY <2>2, <3>1, <3>2, CleanQuiet
  <2>6. CASE SyncEntry(p) \/ SyncInfo(p)
    <3>1. ~win'.dirty
      BY <2>6 DEF SyncEntry, SyncInfo, At, VolumeInv, WindowInv
    <3>2. QED BY <3>1 DEF CleanInv
  <2>7. CASE Closed(p)
    <3>1. ~win.dirty
      BY <2>7 DEF Closed, At, CleanInv
    <3>2. win' = win
      BY <2>7 DEF Closed
    <3>3. QED BY <3>1, <3>2 DEF CleanInv
  <2>8. CASE Unmount(p)
    <3>1. win' = win /\ fil' = fil /\ Return(p)
      BY <2>8 DEF Unmount
    <3>2. th'[p].pc = "idle" /\ \A q \in Thread : q # p => th'[q] = th[q]
      BY <3>1, Sent
    <3>3. QED BY <2>2, <2>3, <3>1, <3>2, CleanQuiet
  <2>9. QED BY <1>1, <2>4, <2>5, <2>6, <2>7, <2>8
<1>2. CASE CloseAgain
  <2>1. th["keys"].pc = "pause" /\ win' = win /\ fil' = fil
        /\ \E n : th' = [th EXCEPT !["keys"].pc = "close", !["keys"].low = n]
    BY <1>2 DEF CloseAgain, At
  <2>2. PICK l : \E n : /\ l = [th["keys"] EXCEPT !.pc = "close", !.low = n]
                        /\ th' = [th EXCEPT !["keys"] = l]
    BY <2>1
  <2>3. l.pc = "close" /\ th' = [th EXCEPT !["keys"] = l]
    BY <2>2, LocalsAre, Both
  <2>4. th'["keys"].pc = "close" /\ \A q \in Thread : q # "keys" => th'[q] = th[q]
    BY <2>3, Sent, Both
  <2>5. \A q \in Thread : q # "keys" => th[q].pc = "idle"
    BY <2>1, Alone, Both
  <2>6. QED BY <2>1, <2>4, <2>5, Both, CleanQuiet DEF Cutting
<1>3. CASE GetFree \/ Scan \/ NextFile \/ LowSpace
  <2>1. th["storage"].pc \in {"getfree", "scan", "decide"} /\ win' = win /\ fil' = fil
    BY <1>3 DEF GetFree, Scan, NextFile, LowSpace, Here, At
  <2>2. \E l : th' = [th EXCEPT !["storage"] = l] /\ l.pc # "closed"
    <3>1. CASE \E n : Count(n)
      <4>1. PICK l : \E n : /\ l = [th["storage"] EXCEPT !.pc = "decide", !.left = n]
                            /\ th' = [th EXCEPT !["storage"] = l]
        BY <3>1 DEF Count
      <4>2. l.pc = "decide" /\ th' = [th EXCEPT !["storage"] = l]
        BY <4>1, LocalsAre, Both
      <4>3. QED BY <4>2
    <3>2. CASE GetFree
      <4>1. CASE th' = [th EXCEPT !["storage"].pc = "scan", !["storage"].cl = 0,
                                  !["storage"].left = 0]
        <5>1. PICK l : /\ l = [th["storage"] EXCEPT !.pc = "scan", !.cl = 0, !.left = 0]
                       /\ th' = [th EXCEPT !["storage"] = l]
          BY <4>1
        <5>2. l.pc = "scan"
          BY <5>1, LocalsAre, Both
        <5>3. QED BY <5>1, <5>2
      <4>2. QED BY <3>1, <3>2, <4>1 DEF GetFree
    <3>3. CASE Scan
      <4>1. ASSUME NEW c, NEW n,
                   th' = [th EXCEPT !["storage"].cl = c, !["storage"].left = n]
            PROVE  \E l : th' = [th EXCEPT !["storage"] = l] /\ l.pc # "closed"
        <5>1. PICK l : /\ l = [th["storage"] EXCEPT !.cl = c, !.left = n]
                       /\ th' = [th EXCEPT !["storage"] = l]
          BY <4>1
        <5>2. l.pc = th["storage"].pc /\ th' = [th EXCEPT !["storage"] = l]
          BY <5>1, LocalsAre, Both
        <5>3. QED BY <2>1, <5>2
      <4>2. QED BY <3>1, <3>3, <4>1 DEF Scan
    <3>4. CASE NextFile \/ LowSpace
      <4>1. PICK l : /\ th' = [th EXCEPT !["storage"] = l]
                     /\ l = [Idle EXCEPT !.pc = "find", !.name = number + 1]
                          \/ l = [Idle EXCEPT !.pc = "close", !.low = TRUE]
        BY <3>4 DEF NextFile, LowSpace
      <4>2. l.pc # "closed"
        BY <4>1 DEF Idle
      <4>3. QED BY <4>1, <4>2
    <3>5. QED BY <1>3, <3>2, <3>3, <3>4
  <2>3. th'["storage"].pc # "closed" /\ \A q \in Thread : q # "storage" => th'[q] = th[q]
    <3>1. PICK l : th' = [th EXCEPT !["storage"] = l] /\ l.pc # "closed"
      BY <2>2
    <3>2. th'["storage"].pc = l.pc /\ \A q \in Thread : q # "storage" => th'[q] = th[q]
      BY <3>1, Sent, Both
    <3>3. QED BY <3>1, <3>2
  <2>4. \A q \in Thread : q # "storage" => th[q].pc = "idle"
    BY <2>1, Alone, Both
  <2>5. QED BY <2>1, <2>3, <2>4, Both, CleanQuiet DEF Cutting
<1>4. QED BY <1>1, <1>2, <1>3 DEF CloseFile

LEMMA CleanStep ==
  ASSUME VolumeInv, ChainInv, CleanInv, Exclusive, [Next]_vars
  PROVE  CleanInv'
<1>1. CASE Window
  BY <1>1, CleanWindow DEF Window
<1>2. CASE Open
  BY <1>2, CleanOpen DEF Open
<1>3. CASE Start \/ Reset
  <2>1. ~win'.dirty
    <3>1. win' = [win EXCEPT !.sect = NoSector, !.dirty = FALSE] \/ win' = NoWindow
      BY <1>3 DEF Start, Mount, Reset
    <3>2. win = [sect |-> win.sect, data |-> win.data, dirty |-> win.dirty]
      BY DEF VolumeInv, WindowInv
    <3>3. CASE win' = [win EXCEPT !.sect = NoSector, !.dirty = FALSE]
      BY <3>2, <3>3
    <3>4. CASE win' = NoWindow
      BY <3>4 DEF NoWindow
    <3>5. QED BY <3>1, <3>3, <3>4
  <2>2. QED BY <2>1 DEF CleanInv
<1>4. CASE StartNoCard
  <2>1. win' = win /\ th' = th /\ fil'.open = fil.open
    BY <1>4, StartNoCardStep DEF StartNoCard
  <2>2. QED BY <2>1 DEF CleanInv
<1>5. CASE Stop
  <2>1. th["keys"] = Idle /\ th["storage"] = Idle
    BY <1>5, BothIdle, Both DEF Stop
  <2>2. win' = win /\ fil' = fil /\ Goto("keys", "close")
    BY <1>5 DEF Stop
  <2>3. th'["keys"].pc = "close" /\ \A q \in Thread : q # "keys" => th'[q] = th[q]
    BY <2>2, Sent, Both
  <2>4. QED BY <2>1, <2>2, <2>3, Both, CleanQuiet DEF Cutting
<1>6. CASE UNCHANGED vars
  <2>1. win' = win /\ th' = th /\ fil' = fil
    BY <1>6 DEF vars
  <2>2. QED BY <2>1 DEF CleanInv
<1>7. QED BY <1>1, <1>2, <1>3, <1>4, <1>5, <1>6, CleanWrite, CleanClose DEF Next

-----------------------------------------------------------------------------
(* create_chain passes the cluster it has read, or has passed them all.     *)
LEMMA PassedNext ==
  ASSUME NEW c \in Cluster, NEW scl \in 1 .. Last, c # scl, ~(c = Last /\ scl = 1),
         NEW x \in Cluster, Passed(x, scl, IF c < Last THEN c + 1 ELSE 2)
  PROVE  x = c \/ Passed(x, scl, c)
<1>1. /\ c \in Nat /\ 2 <= c /\ c <= Last /\ x \in Nat /\ 2 <= x /\ x <= Last
      /\ scl \in Nat /\ 1 <= scl /\ scl <= Last /\ Last \in Nat
  BY Constants
<1>2. QED BY <1>1 DEF Passed

LEMMA PassedAll ==
  ASSUME NEW c \in Cluster, NEW scl \in 1 .. Last, c = scl \/ (c = Last /\ scl = 1),
         NEW x \in Cluster, x # c
  PROVE  Passed(x, scl, c)
<1>1. /\ c \in Nat /\ 2 <= c /\ c <= Last /\ x \in Nat /\ 2 <= x /\ x <= Last
      /\ scl \in Nat /\ 1 <= scl /\ scl <= Last /\ Last \in Nat
  BY Constants
<1>2. QED BY <1>1 DEF Passed

LEMMA SearchFree ==
  ASSUME VolumeInv, ChainInv, LinkValues, FreeInv, Search
  PROVE  FreeInv'
<1> DEFINE c == th["storage"].cl
           scl == th["storage"].scl
           v == CurFat[c]
<1>1. /\ resets' = resets /\ fs' = fs /\ count' = count /\ th["storage"].pc = "search"
  BY DEF Search, Here, At, session
<1>2. /\ c \in Cluster /\ Found(Link(c)) = {v}
      /\ CurFat' = CurFat /\ OnInfo' = OnInfo
  BY SearchStep, SeesSame, InfoSame DEF CurFat
<1>3. /\ scl \in 1 .. Last /\ c # 1 /\ v # 1 /\ v \in Nat
      /\ \A x \in Cluster : Passed(x, scl, c) => CurFat[x] # 0
  BY <1>1, <1>2, ViewTypes, Constants DEF FreeInv, SearchInv, LinkValues, FatValue
<1>4. /\ fil' = fil
      /\ \/ v = 0 /\ Goto("storage", "mark")
         \/ /\ v # 0 /\ (c = scl \/ (c = Last /\ scl = 1))
            /\ Goto("storage", "written")
         \/ /\ v # 0 /\ c # scl /\ ~(c = Last /\ scl = 1)
            /\ GotoWith("storage", "search", IF c < Last THEN c + 1 ELSE 2)
  BY <1>2, <1>3 DEF Search, DiskFull
<1> HIDE DEF v
<1>5. PICK l : /\ th' = [th EXCEPT !["storage"] = l] /\ l.left = th["storage"].left
               /\ l.scl = scl /\ l.pc \in {"mark", "written", "search"}
               /\ l.pc = "written" => v # 0 /\ (c = scl \/ (c = Last /\ scl = 1))
               /\ l.pc = "search" => /\ v # 0 /\ c # scl /\ ~(c = Last /\ scl = 1)
                                     /\ l.cl = IF c < Last THEN c + 1 ELSE 2
  <2> DEFINE to == IF c < Last THEN c + 1 ELSE 2
  <2>1. CASE v = 0 /\ Goto("storage", "mark")
    <3>1. PICK l : /\ l = [th["storage"] EXCEPT !.pc = "mark"]
                   /\ th' = [th EXCEPT !["storage"] = l]
      BY <2>1 DEF Goto
    <3>2. l.left = th["storage"].left /\ l.scl = scl /\ l.pc = "mark"
      BY <3>1, LocalsAre, Both
    <3>3. QED BY <3>1, <3>2
  <2>2. CASE /\ v # 0 /\ (c = scl \/ (c = Last /\ scl = 1))
             /\ Goto("storage", "written")
    <3>1. PICK l : /\ l = [th["storage"] EXCEPT !.pc = "written"]
                   /\ th' = [th EXCEPT !["storage"] = l]
      BY <2>2 DEF Goto
    <3>2. l.left = th["storage"].left /\ l.scl = scl /\ l.pc = "written"
      BY <3>1, LocalsAre, Both
    <3>3. QED BY <2>2, <3>1, <3>2
  <2>3. CASE /\ v # 0 /\ c # scl /\ ~(c = Last /\ scl = 1)
             /\ GotoWith("storage", "search", to)
    <3>1. PICK l : /\ l = [th["storage"] EXCEPT !.pc = "search", !.cl = to]
                   /\ th' = [th EXCEPT !["storage"] = l]
      BY <2>3 DEF GotoWith
    <3>2. l.left = th["storage"].left /\ l.scl = scl /\ l.pc = "search" /\ l.cl = to
      BY <3>1, LocalsAre, Both
    <3>3. QED BY <2>3, <3>1, <3>2
  <2>4. QED BY <1>4, <2>1, <2>2, <2>3
<1>6. /\ th'["storage"] = l
      /\ \A q \in Thread : q # "storage" => th[q] = Idle /\ th'[q] = Idle
  BY <1>1, <1>5, Going, Both
<1>7. CountInv'
  BY <1>1, <1>2, <1>4, <1>5, <1>6, Both, CountQuiet DEF FreeInv, Cutting
<1>8. SearchInv'
  <2>1. CASE l.pc = "search"
    <3>1. \A x \in Cluster : Passed(x, scl, l.cl) => CurFat'[x] # 0
      BY <1>2, <1>3, <1>5, <2>1, PassedNext DEF v
    <3>2. QED BY <1>3, <1>5, <1>6, <2>1, <3>1 DEF SearchInv
  <2>2. QED BY <1>6, <2>1 DEF SearchInv
<1>9. FitInv'
  <2>1. CASE l.pc # "written"
    BY <1>1, <1>2, <1>4, <1>5, <1>6, <2>1, Both, FitQuiet
       DEF FreeInv, OpenPlaces, ClosePlaces, SavedPlaces, Rotating, Lengthening
  <2>2. CASE l.pc = "written"
    <3> SUFFICES ASSUME RoomForFile, resets = 0
                 PROVE  AtRotation' /\ (fil'.open /\ fil'.checked => Complete')
      BY <1>1 DEF FitInv
    <3>1. AtRotation'
      BY <1>6, <2>2 DEF AtRotation, Rotating, OpenPlaces, ClosePlaces, SavedPlaces
    <3>2. ASSUME fil'.open, fil'.checked PROVE FALSE
      <4>1. FreeNow >= 1
        BY <1>1, <1>4, <3>2, RoomLeft
      <4>2. \A x \in Cluster : CurFat[x] # 0
        BY <1>2, <1>3, <1>5, <2>2, PassedAll DEF v
      <4>3. FreeIn(CurFat) = {}
        BY <4>2 DEF FreeIn
      <4>4. QED BY <4>1, <4>3, FS_EmptySet DEF FreeNow
    <3>3. QED BY <3>1, <3>2
  <2>3. QED BY <2>1, <2>2
<1>10. QED BY <1>7, <1>8, <1>9 DEF FreeInv

(* A cluster has been added to the file: one that was free is not.          *)
LEMMA ChainedFree ==
  ASSUME VolumeInv, ChainInv, FreeInv, th["storage"].pc \in {"mark", "link"},
         NEW c \in Cluster, Chained(c), resets' = resets, count' = count, OnInfo' = OnInfo,
         FreeNow' = FreeNow + LinkPending - 1
  PROVE  FreeInv'
<1>1. /\ fs' = [fs EXCEPT !.next = c, !.info = TRUE,
                   !.free = CASE @ = 0 -> Unknown [] @ = Unknown -> @ [] OTHER -> @ - 1]
      /\ fil' = [fil EXCEPT !.clust = c, !.sclust = IF @ = 0 THEN c ELSE @]
      /\ Goto("storage", "data")
  BY DEF Chained
<1>2. PICK l : l = [th["storage"] EXCEPT !.pc = "data"] /\ th' = [th EXCEPT !["storage"] = l]
  BY <1>1 DEF Goto
<1>3. l.pc = "data" /\ l.left = th["storage"].left
  BY <1>2, LocalsAre, Both
<1>4. /\ th'["storage"] = l
      /\ \A q \in Thread : q # "storage" => th[q] = Idle /\ th'[q] = Idle
  BY <1>2, Going, Both
<1>5. th["storage"].pc \in WritePlaces
  BY DEF WritePlaces
<1>6. fil.open /\ fs.mounted /\ fil \in FilType
  BY <1>5, AtWrite
<1>7. /\ fil'.open /\ fil'.size = fil.size /\ fil'.err = fil.err /\ fil'.checked = fil.checked
  BY <1>1, <1>6 DEF FilType
<1>8. /\ fs'.mounted /\ fs'.info
      /\ fs'.free = CASE fs.free = 0 -> Unknown [] fs.free = Unknown -> fs.free
                      [] OTHER -> fs.free - 1
  BY <1>1, <1>6, FsTyped
<1>9. LinkPending \in {0, 1} /\ LinkPending' = 0
  BY <1>3, <1>4 DEF LinkPending
<1>10. FreeNow \in Nat /\ FreeNow' \in Nat
  BY FreeType, Constants
<1>11. CountInv'
  <2> SUFFICES ASSUME resets = 0
               PROVE  (Known /\ Flagged /\ Behind /\ Flushed /\ Scanned /\ Decided)'
    BY DEF CountInv
  <2>1. Known'
    <3>1. fs.free # Unknown => fs.free = FreeNow + LinkPending
      BY <1>6 DEF FreeInv, CountInv, Known
    <3>2. fs.free \in 0 .. Unknown /\ Unknown \in Nat /\ Unknown # 0
      BY FsTyped, Constants
    <3>3. fs'.free # Unknown => fs'.free = FreeNow' + 0
      BY <1>8, <1>9, <1>10, <3>1, <3>2
    <3>4. QED BY <1>9, <3>3 DEF Known
  <2>2. Flagged' /\ Behind'
    BY <1>7, <1>8 DEF Flagged, Behind
  <2>3. Flushed' /\ Scanned' /\ Decided'
    BY <1>3, <1>4, Both DEF Flushed, Scanned, Decided
  <2>4. QED BY <2>1, <2>2, <2>3
<1>12. SearchInv'
  BY <1>3, <1>4 DEF SearchInv
<1>13. FitInv'
  <2> SUFFICES ASSUME RoomForFile, resets = 0
               PROVE  AtRotation' /\ (fil'.open /\ fil'.checked => Complete')
    BY DEF FitInv
  <2>1. AtRotation'
    BY <1>3, <1>4 DEF AtRotation, Rotating, OpenPlaces, ClosePlaces, SavedPlaces
  <2>2. ASSUME fil'.checked PROVE Complete'
    <3>1. Complete
      BY <1>6, <1>7, <2>2 DEF FreeInv, FitInv
    <3>2. PICK a \in Nat : Fits(a) /\ a * ClusterSize <= fil.size
      BY <1>6, <1>7, <2>2, RoomLeft
    <3>3. /\ (a + 1) * ClusterSize = a * ClusterSize + ClusterSize
          /\ a * ClusterSize \in Nat /\ fil.size \in Nat
      BY <1>6, Times, Constants DEF FilType
    <3>4. FreeNow' + (a + 1) + LinkPending' >= MinFree
      BY <1>9, <1>10, <3>2, Constants DEF Fits
    <3>5. (a + 1) * ClusterSize <= fil.size + ClusterSize
      BY <3>2, <3>3, Constants
    <3>6. Fits(a + 1)'
      BY <1>3, <1>4, <1>7, <3>4, <3>5 DEF Fits
    <3>7. \E b \in Nat : Fits(b)'
      BY <3>6
    <3>8. /\ ~fil'.err /\ th'["storage"].pc \notin {"refused", "idle", "written"}
          /\ fil'.size + th'["storage"].left = (count' + 1) * Buffer
      BY <1>3, <1>4, <1>5, <1>7, <3>1 DEF Complete
    <3>9. QED BY <3>7, <3>8 DEF Complete
  <2>3. QED BY <1>7, <2>1, <2>2
<1>14. QED BY <1>11, <1>12, <1>13 DEF FreeInv

(* Only a free cluster is marked.                                           *)
LEMMA MarksFree ==
  ASSUME ChainInv, th["storage"].pc = "mark"
  PROVE  CurFat[th["storage"].cl] = 0
<1>1. PICK own \in Owners, pos \in Positions : Core(own, pos) /\ Places(own, pos)
  BY DEF ChainInv
<1>2. QED BY <1>1, Both DEF Places, Removal

LEMMA MarkFree ==
  ASSUME VolumeInv, ChainInv, FreeInv, Mark
  PROVE  FreeInv'
<1> DEFINE c == th["storage"].cl
<1>1. /\ resets' = resets /\ count' = count /\ th["storage"].pc = "mark"
  BY DEF Mark, Here, At, session
<1>2. /\ c \in Cluster /\ disk' = disk
      /\ \A s \in Sector :
            Cur(s)' = IF s = FatOf(c) THEN [Cur(s) EXCEPT ![Link(c)] = EOC] ELSE Cur(s)
  BY MarkStep
<1>3. CurFat' = [CurFat EXCEPT ![c] = EOC] /\ OnInfo' = OnInfo
  BY <1>2, SeesLink, InfoSame
<1>4. FreeNow' = FreeNow - 1 /\ LinkPending = 0
  <2>1. CurFat[c] = 0 /\ EOC # 0
    BY <1>1, MarksFree, Constants
  <2>2. FreeNow' = FreeNow - 1
    BY <1>2, <1>3, <2>1, FreeChanges
  <2>3. QED BY <1>1, <2>2 DEF LinkPending
<1>5. FreeNow \in Nat /\ FreeNow' \in Nat
  BY FreeType, Constants
<1>6. CASE Chained(c)
  BY <1>1, <1>2, <1>3, <1>4, <1>5, <1>6, ChainedFree
<1>7. CASE Goto("storage", "link") /\ fs' = fs /\ fil' = fil
  <2>1. PICK l : l = [th["storage"] EXCEPT !.pc = "link"] /\ th' = [th EXCEPT !["storage"] = l]
    BY <1>7 DEF Goto
  <2>2. l.pc = "link" /\ l.left = th["storage"].left
    BY <2>1, LocalsAre, Both
  <2>3. /\ th'["storage"] = l
        /\ \A q \in Thread : q # "storage" => th[q] = Idle /\ th'[q] = Idle
    BY <1>1, <2>1, Going, Both
  <2>4. LinkPending' = 1
    BY <2>2, <2>3 DEF LinkPending
  <2>5. CountInv'
    <3> SUFFICES ASSUME resets = 0
                 PROVE  (Known /\ Flagged /\ Behind /\ Flushed /\ Scanned /\ Decided)'
      BY <1>1 DEF CountInv
    <3>0. Known /\ Flagged
      BY DEF FreeInv, CountInv
    <3>1. Known'
      BY <1>4, <1>5, <1>7, <2>4, <3>0 DEF Known
    <3>2. Flagged' /\ Behind'
      BY <1>3, <1>7, <2>2, <2>3, <3>0 DEF Flagged, Behind
    <3>3. Flushed' /\ Scanned' /\ Decided'
      BY <2>2, <2>3, Both DEF Flushed, Scanned, Decided
    <3>4. QED BY <3>1, <3>2, <3>3
  <2>6. SearchInv'
    BY <2>2, <2>3 DEF SearchInv
  <2>7. FitInv'
    <3> SUFFICES ASSUME RoomForFile, resets = 0
                 PROVE  AtRotation' /\ (fil'.open /\ fil'.checked => Complete')
      BY <1>1 DEF FitInv
    <3>1. AtRotation'
      BY <2>2, <2>3 DEF AtRotation, Rotating, OpenPlaces, ClosePlaces, SavedPlaces
    <3>2. ASSUME fil'.open, fil'.checked PROVE Complete'
      <4>1. Complete
        BY <1>7, <3>2 DEF FreeInv, FitInv
      <4>2. PICK a \in Nat : Fits(a) /\ a * ClusterSize <= fil.size
        BY <1>1, <1>7, <3>2, RoomLeft
      <4>3. a * ClusterSize \in Nat /\ fil.size \in Nat
        BY Times, Constants DEF VolumeInv, FilInv, FilType
      <4>4. FreeNow' + a + LinkPending' >= MinFree
        BY <1>4, <1>5, <2>4, <4>2, Constants DEF Fits
      <4>5. a * ClusterSize < fil.size + ClusterSize
        BY <4>2, <4>3, Constants
      <4>6. Fits(a)'
        BY <1>7, <4>2, <4>4, <4>5 DEF Fits
      <4>7. /\ ~fil'.err /\ th'["storage"].pc \notin {"refused", "idle", "written"}
            /\ fil'.size + th'["storage"].left = (count' + 1) * Buffer
        BY <1>1, <1>7, <2>2, <2>3, <4>1 DEF Complete, WritePlaces
      <4>8. QED BY <4>6, <4>7 DEF Complete
    <3>3. QED BY <3>1, <3>2
  <2>8. QED BY <2>5, <2>6, <2>7 DEF FreeInv
<1>8. QED BY <1>6, <1>7 DEF Mark

LEMMA LinkClusterFree ==
  ASSUME VolumeInv, ChainInv, FreeInv, LinkCluster
  PROVE  FreeInv'
<1> DEFINE c == th["storage"].cl
           k == fil.clust
<1>1. /\ resets' = resets /\ count' = count /\ th["storage"].pc = "link" /\ Chained(c)
  BY DEF LinkCluster, Here, At, session
<1>2. th["storage"].pc \in WritePlaces /\ fil.size > 0
  BY <1>1 DEF WritePlaces, VolumeInv, FilInv
<1>3. k \in Cluster /\ CurFat[k] # 0
  BY <1>2, EndMark, Constants
<1>4. /\ c \in Cluster /\ disk' = disk
      /\ \A s \in Sector :
            Cur(s)' = IF s = FatOf(k) THEN [Cur(s) EXCEPT ![Link(k)] = c] ELSE Cur(s)
  BY LinkClusterStep
<1>5. CurFat' = [CurFat EXCEPT ![k] = c] /\ OnInfo' = OnInfo
  BY <1>3, <1>4, SeesLink, InfoSame
<1>6. FreeNow' = FreeNow /\ LinkPending = 1
  BY <1>1, <1>3, <1>4, <1>5, FreeChanges, Constants DEF LinkPending
<1>7. FreeNow \in Nat
  BY FreeType
<1>8. QED BY <1>1, <1>4, <1>5, <1>6, <1>7, ChainedFree

LEMMA WriteDataFree ==
  ASSUME VolumeInv, FreeInv, WriteData
  PROVE  FreeInv'
<1> DEFINE first == fil.size % ClusterSize
           left == th["storage"].left
           room == ClusterSize - first
           cc == IF left < room THEN left ELSE room
           to == Onward(fil.size + cc, left - cc)
<1>1. /\ th["storage"].pc = "data" /\ resets' = resets /\ count' = count /\ fs' = fs
      /\ fil' = [fil EXCEPT !.size = @ + cc]
      /\ th' = [th EXCEPT !["storage"] =
                  [th["storage"] EXCEPT !.left = left - cc, !.pc = to]]
  BY DEF WriteData, At, session
<1>2. th["storage"].pc \in WritePlaces
  BY <1>1 DEF WritePlaces
<1>3. /\ fil.open /\ fil \in FilType /\ left \in Nat /\ left > 0 /\ fil.size \in Nat
      /\ \A q \in Thread : q # "storage" => th[q] = Idle
  BY <1>2, AtWrite
<1>4. first \in 0 .. ClusterSize - 1
  BY <1>3, Constants
<1> HIDE DEF first
<1>5. cc \in Nat /\ cc > 0 /\ cc <= left
  BY <1>3, <1>4, Constants
<1> HIDE DEF cc
<1>6. /\ left - cc \in Nat /\ fil.size + cc \in Nat /\ fil.size + cc > 0
      /\ (fil.size + cc) + (left - cc) = fil.size + left
  BY <1>3, <1>5
<1>7. to \in {"written", "data", "follow"} /\ (to = "written" => left - cc = 0)
  BY <1>6, OnwardIs
<1> HIDE DEF to
<1>8. PICK l : /\ l = [th["storage"] EXCEPT !.left = left - cc, !.pc = to]
               /\ th' = [th EXCEPT !["storage"] = l]
  BY <1>1
<1>9. l.pc = to /\ l.left = left - cc
  BY <1>8, LocalsAre, Both
<1>10. /\ th'["storage"] = l
       /\ \A q \in Thread : q # "storage" => th[q] = Idle /\ th'[q] = Idle
  BY <1>1, <1>8, Going, Both
<1>11. /\ fil'.open /\ fil'.err = fil.err /\ fil'.checked = fil.checked
       /\ fil'.size = fil.size + cc
  BY <1>1, <1>3 DEF FilType
<1>12. CurFat' = CurFat /\ OnInfo' = OnInfo /\ FreeNow' = FreeNow
  BY WriteDataStep, SeesSame, InfoSame, FreeSame
<1>13. CountInv'
  <2>1. th["storage"].pc # "link" /\ l.pc \notin {"link", "closed", "scan", "decide"}
    BY <1>1, <1>7, <1>9
  <2>2. QED BY <1>1, <1>10, <1>11, <1>12, <2>1, Both, CountQuiet DEF FreeInv
<1>14. SearchInv'
  BY <1>7, <1>9, <1>10 DEF SearchInv
<1>15. FitInv'
  <2> SUFFICES ASSUME RoomForFile, resets = 0
               PROVE  AtRotation' /\ (fil'.open /\ fil'.checked => Complete')
    BY <1>1 DEF FitInv
  <2>1. AtRotation'
    BY <1>7, <1>9, <1>10 DEF AtRotation, Rotating, OpenPlaces, ClosePlaces, SavedPlaces
  <2>2. ASSUME fil'.checked PROVE Complete'
    <3>1. Complete
      BY <1>3, <1>11, <2>2 DEF FreeInv, FitInv
    <3>2. PICK a \in Nat : Fits(a)
      BY <3>1 DEF Complete
    <3>3. LinkPending' = 0 /\ LinkPending = 0
      BY <1>1, <1>7, <1>9, <1>10 DEF LinkPending
    <3>4. FreeNow' + a + LinkPending' >= MinFree
      BY <1>12, <3>2, <3>3 DEF Fits
    <3>5. a * ClusterSize < (fil.size + cc) + ClusterSize
      <4>1. a * ClusterSize <= fil.size + ClusterSize /\ a * ClusterSize \in Nat
        BY <3>2, Times, Constants DEF Fits
      <4>2. QED BY <1>3, <1>5, <4>1, Constants
    <3>6. Fits(a)'
      <4>1. a * ClusterSize \in Nat
        BY <3>2, Times, Constants
      <4>2. a * ClusterSize <= (fil.size + cc) + ClusterSize
        BY <1>6, <3>5, <4>1, Constants
      <4>3. QED BY <1>11, <3>4, <3>5, <4>2 DEF Fits
    <3>7. fil.size + left = (count + 1) * Buffer
      BY <1>2, <3>1 DEF Complete
    <3>8. fil'.size + l.left = (count' + 1) * Buffer
      BY <1>1, <1>6, <1>9, <1>11, <3>7
    <3>9. l.pc = "written" => fil'.size = (count' + 1) * Buffer
      BY <1>6, <1>7, <1>9, <1>11, <3>8
    <3>10. ~fil'.err /\ l.pc \notin {"refused", "idle"}
      BY <1>7, <1>9, <1>11, <3>1 DEF Complete
    <3>11. QED BY <1>10, <3>2, <3>6, <3>8, <3>9, <3>10 DEF Complete
  <2>3. QED BY <1>11, <2>1, <2>2
<1>16. QED BY <1>13, <1>14, <1>15 DEF FreeInv

LEMMA WrittenFree ==
  ASSUME VolumeInv, FreeInv, Written
  PROVE  FreeInv'
<1>1. /\ th["storage"].pc \in {"written", "refused"} /\ resets' = resets /\ fs' = fs
      /\ fil' = [fil EXCEPT !.modified = @ \/ th["storage"].pc = "written"]
      /\ \/ count' = count + 1 /\ Return("storage")
         \/ count' = 0 /\ Goto("storage", "close")
  BY DEF Written, At
<1>2. PICK l : /\ th' = [th EXCEPT !["storage"] = l]
               /\ \/ count' = count + 1 /\ l.pc = "idle"
                  \/ count' = 0 /\ l.pc = "close"
  <2>1. CASE count' = count + 1 /\ Return("storage")
    BY <2>1, Both DEF Return
  <2>2. CASE count' = 0 /\ Goto("storage", "close")
    <3>1. PICK l : l = [th["storage"] EXCEPT !.pc = "close"] /\ th' = [th EXCEPT !["storage"] = l]
      BY <2>2 DEF Goto
    <3>2. l.pc = "close"
      BY <3>1, LocalsAre, Both
    <3>3. QED BY <2>2, <3>1, <3>2
  <2>3. QED BY <1>1, <2>1, <2>2
<1>3. /\ th'["storage"] = l
      /\ \A q \in Thread : q # "storage" => th[q] = Idle /\ th'[q] = Idle
  BY <1>1, <1>2, Going, Both
<1>4. /\ fil'.open = fil.open /\ fil'.err = fil.err /\ fil'.checked = fil.checked
      /\ fil'.size = fil.size
  BY <1>1 DEF VolumeInv, FilInv, FilType
<1>5. CurFat' = CurFat /\ OnInfo' = OnInfo /\ FreeNow' = FreeNow
  BY WrittenStep, SeesSame, InfoSame, FreeSame
<1>6. CountInv'
  <2>1. /\ th["storage"].pc # "link" /\ l.pc \notin {"link", "closed", "scan", "decide"}
        /\ th["storage"].pc \notin Cutting
    BY <1>1, <1>2 DEF Cutting
  <2>2. QED BY <1>1, <1>3, <1>4, <1>5, <2>1, Both, CountQuiet DEF FreeInv
<1>7. SearchInv'
  BY <1>2, <1>3 DEF SearchInv
<1>8. FitInv'
  <2> SUFFICES ASSUME RoomForFile, resets = 0
               PROVE  AtRotation' /\ (fil'.open /\ fil'.checked => Complete')
    BY <1>1 DEF FitInv
  <2>1. AtRotation'
    BY <1>2, <1>3 DEF AtRotation, Rotating, OpenPlaces, ClosePlaces, SavedPlaces
  <2>2. ASSUME fil'.open, fil'.checked PROVE Complete'
    <3>1. Complete /\ th["storage"].pc = "written"
      BY <1>1, <1>4, <2>2 DEF FreeInv, FitInv, Complete
    <3>2. PICK a \in Nat : Fits(a)
      BY <3>1 DEF Complete
    <3>3. LinkPending' = 0 /\ LinkPending = 0
      BY <1>2, <1>3, <3>1 DEF LinkPending
    <3>4. Fits(a)'
      BY <1>4, <1>5, <3>1, <3>2, <3>3 DEF Fits
    <3>5. fil.size = (count + 1) * Buffer
      BY <3>1 DEF Complete
    <3>6. l.pc = "idle" => fil'.size = count' * Buffer
      BY <1>2, <1>4, <3>5
    <3>7. ~fil'.err /\ l.pc \notin {"refused", "written"} \union WritePlaces
      BY <1>2, <1>4, <3>1 DEF Complete, WritePlaces
    <3>8. QED BY <1>3, <3>2, <3>4, <3>6, <3>7 DEF Complete
  <2>3. QED BY <2>1, <2>2
<1>9. QED BY <1>6, <1>7, <1>8 DEF FreeInv

-----------------------------------------------------------------------------
(* f_close and what follows it.                                             *)
LEMMA FileCloseFree ==
  ASSUME VolumeInv, FreeInv, NEW p \in Thread, Close(p)
  PROVE  FreeInv'
<1>1. /\ th[p].pc = "close" /\ resets' = resets /\ fs' = fs /\ fil' = fil /\ count' = count
      /\ Goto(p, IF ~Valid THEN AfterClose(p, TRUE)
                 ELSE IF fil.modified THEN "save" ELSE "closed")
  BY DEF Close, At, session
<1>2. th[p].pc \in ClosePlaces \union EndPlaces /\ th[p].pc \notin SavedPlaces
  BY <1>1 DEF ClosePlaces, SavedPlaces
<1>3. /\ fil.open => fs.mounted /\ fil.modified
      /\ p = "storage" /\ th[p].low => ~fil.open
  BY <1>2, AtClose
<1>4. PICK to : /\ Goto(p, to)
                /\ \/ to = "save"
                   \/ ~fil.open /\ to = AfterClose(p, TRUE)
  BY <1>1, <1>3 DEF Valid
<1>5. /\ to \in {"save", "pause", "unmount", "getfree"}
      /\ fil.open /\ p = "storage" => to = "save"
      /\ p = "storage" /\ to = "getfree" => ~th[p].low
  <2>1. CASE to = "save"
    BY <2>1
  <2>2. CASE ~fil.open /\ to = AfterClose(p, TRUE)
    BY <2>2, AfterCloseIs, Both
  <2>3. QED BY <1>3, <1>4, <2>1, <2>2
<1>6. PICK l : l = [th[p] EXCEPT !.pc = to] /\ th' = [th EXCEPT ![p] = l]
  BY <1>4 DEF Goto
<1>7. l.pc = to /\ l.low = th[p].low
  BY <1>6, LocalsAre
<1>8. th'[p] = l /\ \A q \in Thread : q # p => th[q] = Idle /\ th'[q] = Idle
  BY <1>1, <1>6, Going
<1>9. CurFat' = CurFat /\ OnInfo' = OnInfo
  BY FileCloseStep, SeesSame, InfoSame
<1>10. /\ th[p].pc \notin {"link"} \union Cutting
       /\ l.pc \notin {"link", "search", "closed", "scan", "decide"} \union Cutting
       /\ p = "storage" /\ fil'.open /\ fil'.checked =>
            th[p].pc \in ClosePlaces /\ l.pc \in ClosePlaces
       /\ p = "storage" /\ l.pc \in Rotating => th[p].pc \in ClosePlaces /\ ~th[p].low
       /\ p = "storage" /\ l.pc \in ClosePlaces /\ ~l.low => th[p].pc \in ClosePlaces /\ ~th[p].low
       /\ l.pc \notin OpenPlaces
  BY <1>1, <1>5, <1>7 DEF Cutting, ClosePlaces, Rotating, OpenPlaces
<1>11. QED BY <1>1, <1>8, <1>9, <1>10, Passing, ZenonT(60)

LEMMA CloseAgainFree ==
  ASSUME VolumeInv, FreeInv, CloseAgain
  PROVE  FreeInv'
<1>1. /\ th["keys"].pc = "pause" /\ resets' = resets /\ fs' = fs /\ fil' = fil /\ count' = count
      /\ th' = [th EXCEPT !["keys"].pc = "close", !["keys"].low = TRUE]
  BY DEF CloseAgain, At, session
<1>2. PICK l : /\ l = [th["keys"] EXCEPT !.pc = "close", !.low = TRUE]
               /\ th' = [th EXCEPT !["keys"] = l]
  BY <1>1
<1>3. l.pc = "close"
  BY <1>2, LocalsAre, Both
<1>4. /\ th'["keys"] = l
      /\ \A q \in Thread : q # "keys" => th[q] = Idle /\ th'[q] = Idle
  BY <1>1, <1>2, Going, Both
<1>5. CurFat' = CurFat /\ OnInfo' = OnInfo
  BY CloseAgainStep, SeesSame, InfoSame
<1>6. /\ th["keys"].pc \notin {"link"} \union Cutting
      /\ l.pc \notin {"link", "search", "closed", "scan", "decide"} \union Cutting
  BY <1>1, <1>3 DEF Cutting
<1>7. QED BY <1>1, <1>4, <1>5, <1>6, Both, Passing, ZenonT(60)

LEMMA SaveEntryFree ==
  ASSUME VolumeInv, FreeInv, NEW p \in Thread, SaveEntry(p) \/ SyncEntry(p)
  PROVE  FreeInv'
<1>1. PICK to \in {"sync", "fsinfo"} :
         /\ th[p].pc \in {"save", "sync"} /\ resets' = resets /\ fs' = fs /\ fil' = fil
         /\ count' = count /\ Goto(p, to)
  BY DEF SaveEntry, SyncEntry, Here, At, session
<1>2. PICK l : l = [th[p] EXCEPT !.pc = to] /\ th' = [th EXCEPT ![p] = l]
  BY <1>1 DEF Goto
<1>3. l.pc = to /\ l.low = th[p].low
  BY <1>2, LocalsAre
<1>4. th'[p] = l /\ \A q \in Thread : q # p => th[q] = Idle /\ th'[q] = Idle
  BY <1>1, <1>2, Going
<1>5. CurFat' = CurFat /\ OnInfo' = OnInfo
  <2>1. CASE SaveEntry(p)
    <3>1. PICK e : \A s \in Sector : Cur(s)' = IF s = Dir
             THEN [Cur(s) EXCEPT ![Entry(fil.name)] = e] ELSE Cur(s)
      BY <2>1, SaveEntryStep
    <3>2. disk' = disk /\ fil.name \in File
      BY <2>1, SaveEntryStep
    <3>3. QED BY <3>1, <3>2, SeesEntry, InfoSame
  <2>2. CASE SyncEntry(p)
    BY <2>2, SyncEntryStep, SeesSynced, InfoSame
  <2>3. QED BY <2>1, <2>2
<1>6. /\ th[p].pc \notin {"link"} \union Cutting
      /\ l.pc \notin {"link", "search", "closed", "scan", "decide"} \union Cutting
      /\ th[p].pc \in ClosePlaces /\ l.pc \in ClosePlaces
      /\ l.pc \notin Rotating /\ l.pc \notin OpenPlaces
  BY <1>1, <1>3 DEF Cutting, ClosePlaces, SavedPlaces, Rotating, OpenPlaces
<1>7. QED BY <1>1, <1>3, <1>4, <1>5, <1>6, Passing, ZenonT(60)

(* FSInfo gets the count.                                                   *)
LEMMA SyncInfoFree ==
  ASSUME VolumeInv, FreeInv, NEW p \in Thread, SyncInfo(p)
  PROVE  FreeInv'
<1>1. /\ th[p].pc = "fsinfo" /\ resets' = resets /\ count' = count /\ Goto(p, "closed")
      /\ fil' = [fil EXCEPT !.modified = FALSE]
  BY DEF SyncInfo, At, session
<1>2. PICK l : l = [th[p] EXCEPT !.pc = "closed"] /\ th' = [th EXCEPT ![p] = l]
  BY <1>1 DEF Goto
<1>3. l.pc = "closed" /\ l.low = th[p].low
  BY <1>2, LocalsAre
<1>4. th'[p] = l /\ \A q \in Thread : q # p => th[q] = Idle /\ th'[q] = Idle
  BY <1>1, <1>2, Going
<1>5. /\ fil'.open = fil.open /\ fil'.err = fil.err /\ fil'.checked = fil.checked
      /\ fil'.size = fil.size
  BY <1>1 DEF VolumeInv, FilInv, FilType
<1>6. fil.open /\ fs.mounted
  <2>1. th[p].pc \in {"save"} \union SavedPlaces /\ th[p].pc \in ClosePlaces \union EndPlaces
    BY <1>1 DEF SavedPlaces, ClosePlaces
  <2>2. QED BY <2>1, AtClose
<1>7. CurFat' = CurFat /\ FreeNow' = FreeNow
  BY SyncInfoStep, SeesInfo, FreeSame
<1>8. /\ fs'.mounted /\ fs'.free = fs.free /\ ~fs'.info
      /\ OnInfo' = fs.free \/ (~fs.info /\ OnInfo' = OnInfo)
  <2>1. CASE /\ fs.info
             /\ disk' = [disk EXCEPT ![FSInfo] =
                  [f \in {Free, Next_Free} |-> IF f = Free THEN fs.free ELSE fs.next]]
             /\ fs' = [fs EXCEPT !.info = FALSE]
    <3>1. FSInfo \in Sector
      BY DEF Sector
    <3>2. disk = [s \in Sector |-> disk[s]]
      BY DEF VolumeInv, CardOK
    <3>3. OnInfo' = fs.free
      BY <2>1, <3>1, <3>2 DEF OnInfo
    <3>4. QED BY <1>6, <2>1, <3>3, FsTyped
  <2>2. CASE ~fs.info /\ disk' = disk /\ fs' = fs
    BY <1>6, <2>2 DEF OnInfo
  <2>3. QED BY <2>1, <2>2 DEF SyncInfo
<1>9. /\ th["storage"].pc # "link"
      /\ th'["storage"].pc \notin {"link", "search", "scan", "decide"}
  BY <1>1, <1>3, <1>4, Both
<1>10. CountInv'
  <2> SUFFICES ASSUME resets = 0
               PROVE  (Known /\ Flagged /\ Behind /\ Flushed /\ Scanned /\ Decided)'
    BY <1>1 DEF CountInv
  <2>0. Known /\ Flagged
    BY DEF FreeInv, CountInv
  <2>1. LinkPending = 0 /\ LinkPending' = 0
    BY <1>9 DEF LinkPending
  <2>2. FreeNow \in Nat
    BY FreeType
  <2>3. fs.free # Unknown => fs.free = FreeNow
    BY <1>6, <2>0, <2>1, <2>2 DEF Known
  <2>4. OnInfo' = fs.free
    BY <1>6, <1>8, <2>0 DEF Flagged
  <2>5. Known'
    BY <1>7, <1>8, <2>1, <2>2, <2>3 DEF Known
  <2>6. Flagged' /\ Behind'
    BY <1>7, <1>8, <2>3, <2>4 DEF Flagged, Behind
  <2>7. Flushed' /\ Scanned' /\ Decided'
    BY <1>8, <1>9 DEF Flushed, Scanned, Decided
  <2>8. QED BY <2>5, <2>6, <2>7
<1>11. SearchInv'
  BY <1>9 DEF SearchInv
<1>12. FitInv'
  <2>1. /\ th[p].pc \in ClosePlaces /\ l.pc \in ClosePlaces
        /\ l.pc \notin Rotating /\ l.pc \notin OpenPlaces
    BY <1>1, <1>3 DEF ClosePlaces, SavedPlaces, Rotating, OpenPlaces
  <2>2. QED BY <1>1, <1>3, <1>4, <1>5, <1>7, <2>1, FitQuiet, ZenonT(60) DEF FreeInv
<1>13. QED BY <1>10, <1>11, <1>12 DEF FreeInv

LEMMA ClosedFree ==
  ASSUME VolumeInv, FreeInv, NEW p \in Thread, Closed(p)
  PROVE  FreeInv'
<1>1. /\ th[p].pc = "closed" /\ resets' = resets /\ fs' = fs /\ count' = count
      /\ Goto(p, AfterClose(p, ~Valid))
  BY DEF Closed, At, session
<1>2. ~fil'.open
  BY ClosedStep
<1>3. PICK to : to = AfterClose(p, ~Valid) /\ Goto(p, to)
  BY <1>1
<1>4. to \in {"pause", "unmount", "getfree"} /\ (p = "storage" => ~th[p].low)
  <2>1. p = "storage" => ~th[p].low
    BY <1>1 DEF VolumeInv, SessionInv
  <2>2. QED BY <1>3, <2>1, AfterCloseIs, Both
<1>5. PICK l : l = [th[p] EXCEPT !.pc = to] /\ th' = [th EXCEPT ![p] = l]
  BY <1>3 DEF Goto
<1>6. l.pc = to
  BY <1>5, LocalsAre
<1>7. th'[p] = l /\ \A q \in Thread : q # p => th[q] = Idle /\ th'[q] = Idle
  BY <1>1, <1>5, Going
<1>8. CurFat' = CurFat /\ OnInfo' = OnInfo
  BY ClosedStep, SeesSame, InfoSame
<1>9. CountInv'
  <2>1. resets = 0 => ~fs.info
    BY <1>1 DEF FreeInv, CountInv, Flushed
  <2>2. th[p].pc # "link" /\ l.pc \notin {"link", "closed", "scan", "decide"}
    BY <1>1, <1>4, <1>6
  <2>3. QED BY <1>1, <1>7, <1>8, <2>1, <2>2, CountQuiet DEF FreeInv
<1>10. SearchInv'
  BY <1>4, <1>6, <1>7, Both DEF SearchInv
<1>11. FitInv'
  <2>1. th[p].pc \in ClosePlaces /\ l.pc \notin ClosePlaces /\ l.pc \notin OpenPlaces
    BY <1>1, <1>4, <1>6 DEF ClosePlaces, SavedPlaces, OpenPlaces
  <2>2. QED BY <1>1, <1>2, <1>4, <1>7, <1>8, <2>1, FitQuiet, ZenonT(60) DEF FreeInv
<1>12. QED BY <1>9, <1>10, <1>11 DEF FreeInv

LEMMA UnmountFree ==
  ASSUME VolumeInv, FreeInv, NEW p \in Thread, Unmount(p)
  PROVE  FreeInv'
<1>1. /\ th[p].pc = "unmount" /\ resets' = resets /\ fil' = fil /\ count' = count
      /\ fs' = [fs EXCEPT !.mounted = FALSE] /\ th' = [th EXCEPT ![p] = Idle]
  BY DEF Unmount, At, Return, session
<1>2. th'[p] = Idle /\ \A q \in Thread : q # p => th[q] = Idle /\ th'[q] = Idle
  BY <1>1, Going
<1>3. ~fil.open
  <2>1. th[p].pc \in ClosePlaces \union EndPlaces /\ th[p].pc \notin ClosePlaces
    BY <1>1 DEF EndPlaces, ClosePlaces, SavedPlaces
  <2>2. QED BY <2>1, AtClose
<1>4. CurFat' = CurFat /\ OnInfo' = OnInfo /\ FreeNow' = FreeNow
  BY UnmountStep, SeesSame, InfoSame, FreeSame
<1>5. \A q \in Thread : th'[q] = Idle
  BY <1>2
<1>6. ~fs'.mounted
  BY <1>1, FsTyped
<1>7. CountInv'
  <2> SUFFICES ASSUME resets = 0
               PROVE  (Known /\ Flagged /\ Behind /\ Flushed /\ Scanned /\ Decided)'
    BY <1>1 DEF CountInv
  <2>1. \A q \in Thread : th[q].pc \notin {"link"} \union Cutting
    BY <1>1, <1>2, Both DEF Cutting
  <2>2. OnInfo \in {Unknown, FreeNow}
    BY <1>3, <2>1, Both DEF FreeInv, CountInv, Behind
  <2>3. Known' /\ Flagged' /\ Behind'
    BY <1>4, <1>6, <2>2 DEF Known, Flagged, Behind
  <2>4. Flushed' /\ Scanned' /\ Decided'
    BY <1>5, Both DEF Flushed, Scanned, Decided
  <2>5. QED BY <2>3, <2>4
<1>8. SearchInv'
  BY <1>5, Both DEF SearchInv
<1>9. FitInv'
  BY <1>1, <1>3, <1>5, Both DEF FitInv, AtRotation, Rotating, OpenPlaces, ClosePlaces, SavedPlaces
<1>10. QED BY <1>7, <1>8, <1>9 DEF FreeInv

(* f_getfree takes the cached count, or starts to count.                    *)
LEMMA GetFreeFree ==
  ASSUME VolumeInv, FreeInv, GetFree
  PROVE  FreeInv'
<1>1. /\ th["storage"].pc = "getfree" /\ resets' = resets /\ fs' = fs /\ fil' = fil
      /\ count' = count
  BY DEF GetFree, At, session
<1>2. PICK l : /\ th' = [th EXCEPT !["storage"] = l]
               /\ \/ l.pc = "decide" /\ l.left = 0
                  \/ /\ fs.mounted /\ fs.free <= Last - 1
                     /\ l.pc = "decide" /\ l.left = fs.free
                  \/ l.pc = "scan" /\ l.cl = 0 /\ l.left = 0
  <2>1. ASSUME NEW n, Count(n)
        PROVE  \E l : th' = [th EXCEPT !["storage"] = l] /\ l.pc = "decide" /\ l.left = n
    <3>1. PICK l : /\ l = [th["storage"] EXCEPT !.pc = "decide", !.left = n]
                   /\ th' = [th EXCEPT !["storage"] = l]
      BY <2>1 DEF Count
    <3>2. l.pc = "decide" /\ l.left = n
      BY <3>1, LocalsAre, Both
    <3>3. QED BY <3>1, <3>2
  <2>2. CASE th' = [th EXCEPT !["storage"].pc = "scan", !["storage"].cl = 0,
                              !["storage"].left = 0]
    <3>1. PICK l : /\ l = [th["storage"] EXCEPT !.pc = "scan", !.cl = 0, !.left = 0]
                   /\ th' = [th EXCEPT !["storage"] = l]
      BY <2>2
    <3>2. l.pc = "scan" /\ l.cl = 0 /\ l.left = 0
      BY <3>1, LocalsAre, Both
    <3>3. QED BY <3>1, <3>2
  <2>3. QED BY <2>1, <2>2 DEF GetFree
<1>3. /\ th'["storage"] = l
      /\ \A q \in Thread : q # "storage" => th[q] = Idle /\ th'[q] = Idle
  BY <1>1, <1>2, Going, Both
<1>4. CurFat' = CurFat /\ OnInfo' = OnInfo
  BY GetFreeStep, SeesSame, InfoSame
<1>5. ~fil.open /\ ~th["storage"].low
  <2>1. th["storage"].pc \in ClosePlaces \union EndPlaces /\ th["storage"].pc \notin ClosePlaces
    BY <1>1 DEF EndPlaces, ClosePlaces, SavedPlaces
  <2>2. QED BY <1>1, <2>1, AtClose, Both
<1>6. CountInv'
  <2>1. l.pc = "scan" => l.left = ScannedIs(l)
    <3>1. \A c \in Cluster : ~(c \div PerSector < 0)
      <4>1. \A c \in Cluster : c \in Nat /\ PerSector \in Nat /\ PerSector > 0
        BY Constants
      <4>2. \A c \in Cluster : c \div PerSector \in Nat
        BY <4>1, Quotient
      <4>3. QED BY <4>2
    <3>2. {c \in FreeIn(CurFat) : c \div PerSector < 0} = {}
      BY <3>1 DEF FreeIn
    <3>3. QED BY <1>2, <3>2, FS_EmptySet DEF ScannedIs
  <2>2. ASSUME resets = 0, l.pc = "decide", l.left > 0 PROVE l.left = FreeNow
    <3>1. fs.mounted /\ fs.free <= Last - 1 /\ l.left = fs.free
      BY <1>2, <2>2
    <3>2. Known
      BY <2>2 DEF FreeInv, CountInv
    <3>3. LinkPending = 0 /\ FreeNow \in Nat /\ fs.free # Unknown
      BY <1>1, <3>1, FreeType, FsTyped, Constants DEF LinkPending
    <3>4. QED BY <3>1, <3>2, <3>3 DEF Known
  <2>3. /\ th["storage"].pc # "link" /\ l.pc # "link" /\ l.pc # "closed"
        /\ ~(fil.open \/ th["storage"].pc \in Cutting)
    BY <1>1, <1>2, <1>5 DEF Cutting
  <2>4. QED BY <1>1, <1>3, <1>4, <2>1, <2>2, <2>3, Both, CountQuiet DEF FreeInv
<1>7. SearchInv'
  BY <1>2, <1>3 DEF SearchInv
<1>8. FitInv'
  <2>1. /\ th["storage"].pc \in Rotating
        /\ l.pc \notin ClosePlaces /\ l.pc \notin OpenPlaces
    BY <1>1, <1>2 DEF Rotating, OpenPlaces, ClosePlaces, SavedPlaces
  <2>2. QED BY <1>1, <1>3, <1>4, <1>5, <2>1, Both, FitQuiet, ZenonT(60) DEF FreeInv
<1>9. QED BY <1>6, <1>7, <1>8 DEF FreeInv

-----------------------------------------------------------------------------
(* The full count.                                                          *)
LEMMA ZerosFree ==
  ASSUME VolumeInv, NEW k \in 0 .. Last \div PerSector, NEW d, d = Cur(<<"fat", k>>)
  PROVE  LET zeros == Cardinality({x \in DOMAIN d : d[x] = 0})
         IN /\ zeros \in Nat
            /\ Cardinality({c \in FreeIn(CurFat) : c \div PerSector < k}) + zeros
                 = Cardinality({c \in FreeIn(CurFat) : c \div PerSector < k + 1})
<1> DEFINE s == <<"fat", k>>
           Z == {x \in DOMAIN d : d[x] = 0}
           S == {c \in FreeIn(CurFat) : c \div PerSector < k}
           T == {c \in FreeIn(CurFat) : c \div PerSector = k}
           U == {c \in FreeIn(CurFat) : c \div PerSector < k + 1}
           f == [c \in T |-> Link(c)]
<1>1. s \in FatSectors /\ s \in Sector
  BY FatSectorIs DEF Sector
<1>2. DOMAIN d = Fields(s)
  <2>1. SectorOK(s, Cur(s))
    BY <1>1, CurOK DEF VolumeInv, CardOK
  <2>2. QED BY <2>1 DEF SectorOK
<1>3. \A c \in Cluster : FatOf(c) = s <=> c \div PerSector = k
  BY DEF FatOf
<1>4. \A c \in Cluster : FatOf(c) = s => CurFat[c] = d[Link(c)]
  BY DEF CurFat
<1>5. Z = {Link(c) : c \in T}
  <2>1. Fields(s) = {Link(c) : c \in {x \in Cluster : FatOf(x) = s}}
    <3>1. s \in FatSectors
      BY <1>1
    <3> HIDE DEF s
    <3>2. QED BY <3>1, Names DEF Fields
  <2>2. ASSUME NEW x \in Z PROVE x \in {Link(c) : c \in T}
    <3>1. PICK c \in Cluster : FatOf(c) = s /\ x = Link(c)
      BY <1>2, <2>1
    <3>2. QED BY <1>3, <1>4, <3>1 DEF FreeIn
  <2>3. ASSUME NEW c \in T PROVE Link(c) \in Z
    <3>1. c \in Cluster /\ FatOf(c) = s /\ CurFat[c] = 0
      BY <1>3 DEF FreeIn
    <3>2. QED BY <1>2, <1>4, <2>1, <3>1
  <2>4. QED BY <2>2, <2>3
<1>6. f \in Bijection(T, Z)
  <2>1. f \in [T -> Z] /\ DOMAIN f = T
    BY <1>5
  <2>2. \A a, b \in T : f[a] = f[b] => a = b
    BY Names DEF FreeIn
  <2>3. \A x \in Z : \E c \in T : f[c] = x
    BY <1>5
  <2>4. QED BY <2>1, <2>2, <2>3 DEF Bijection, Injection, Surjection, IsInjective
<1>7. S \in SUBSET Cluster /\ T \in SUBSET Cluster
  BY DEF FreeIn
<1>8. /\ IsFiniteSet(S) /\ Cardinality(S) \in Nat /\ IsFiniteSet(T) /\ Cardinality(T) \in Nat
  BY <1>7, Clusters, Constants
<1>9. Cardinality(Z) = Cardinality(T)
  <2>1. ExistsBijection(T, Z)
    BY <1>6 DEF ExistsBijection
  <2>2. QED BY <1>8, <2>1, FS_Bijection
<1>10. U = S \union T /\ S \intersect T = {}
  <2>1. k \in Nat
    OBVIOUS
  <2>2. ASSUME NEW c \in FreeIn(CurFat) PROVE c \div PerSector \in Nat
    <3>1. c \in Nat /\ PerSector \in Nat /\ PerSector > 0
      BY Constants DEF FreeIn
    <3>2. QED BY <3>1, Quotient
  <2>3. \A c \in FreeIn(CurFat) :
           c \div PerSector < k + 1 <=> (c \div PerSector < k \/ c \div PerSector = k)
    BY <2>1, <2>2
  <2>4. \A c \in FreeIn(CurFat) : ~(c \div PerSector < k /\ c \div PerSector = k)
    BY <2>1
  <2>5. QED BY <2>3, <2>4
<1> HIDE DEF S, T, U, Z, f
<1>11. Cardinality(U) = Cardinality(S) + Cardinality(T)
  <2>1. Cardinality(S \intersect T) = 0
    BY <1>10, FS_EmptySet
  <2>2. Cardinality(S \union T) = Cardinality(S) + Cardinality(T) - Cardinality(S \intersect T)
    BY <1>8, FS_Union
  <2>3. QED BY <1>8, <1>10, <2>1, <2>2
<1>12. QED BY <1>8, <1>9, <1>11 DEF S, U, Z

LEMMA ScannedAll ==
  Cardinality({c \in FreeIn(CurFat) : c \div PerSector < Last \div PerSector + 1}) = FreeNow
<1>1. ASSUME NEW c \in FreeIn(CurFat) PROVE c \div PerSector < Last \div PerSector + 1
  <2>1. c \in Nat /\ c <= Last /\ Last \in Nat /\ PerSector \in Nat /\ PerSector > 0
    BY Constants DEF FreeIn
  <2> DEFINE a == c \div PerSector
             b == Last \div PerSector
             ra == c % PerSector
             rb == Last % PerSector
  <2>2. /\ a \in Nat /\ b \in Nat /\ ra \in 0 .. PerSector - 1 /\ rb \in 0 .. PerSector - 1
        /\ c = PerSector * a + ra /\ Last = PerSector * b + rb
    BY <2>1, Quotient
  <2> HIDE DEF a, b, ra, rb
  <2>3. ASSUME b + 1 <= a PROVE FALSE
    <3>1. (b + 1) * PerSector <= a * PerSector
      BY <2>1, <2>2, <2>3, Times
    <3>2. /\ (b + 1) * PerSector = PerSector * b + PerSector
          /\ a * PerSector = PerSector * a
      BY <2>1, <2>2
    <3> DEFINE m == PerSector * a
               n == PerSector * b
    <3>3. m \in Nat /\ n \in Nat
      BY <2>1, <2>2
    <3>4. n + PerSector <= m /\ c = m + ra /\ Last = n + rb
      BY <2>2, <3>1, <3>2
    <3> HIDE DEF m, n
    <3>5. QED BY <2>1, <2>2, <3>3, <3>4
  <2>4. a < b + 1
    BY <2>2, <2>3
  <2>5. QED BY <2>4 DEF a, b
<1>2. {c \in FreeIn(CurFat) : c \div PerSector < Last \div PerSector + 1} = FreeIn(CurFat)
  BY <1>1
<1>3. QED BY <1>2 DEF FreeNow

LEMMA ScanFree ==
  ASSUME VolumeInv, FreeInv, Scan
  PROVE  FreeInv'
<1> DEFINE old == th["storage"]
           k == old.cl
           total == old.left + Cardinality({x \in DOMAIN win.data : win.data[x] = 0})
           upto(n) == Cardinality({c \in FreeIn(CurFat) : c \div PerSector < n})
<1>1. /\ resets' = resets /\ fil' = fil /\ count' = count /\ Here("storage", "scan")
  BY DEF Scan, session
<1>2. /\ old.pc = "scan" /\ win.sect = Need("storage") /\ win.data = Cur(win.sect)
  BY <1>1, HereIs, Both DEF Reading
<1>3. ~fil.open /\ ~old.low
  <2>1. old.pc \in ClosePlaces \union EndPlaces /\ old.pc \notin ClosePlaces
    BY <1>2 DEF EndPlaces, ClosePlaces, SavedPlaces
  <2>2. QED BY <1>2, <2>1, AtClose, Both
<1>4. k \in 0 .. Last \div PerSector /\ win.sect = <<"fat", k>>
  <2>1. LocalsOK(old)
    BY Both DEF VolumeInv, ThreadInv
  <2>2. QED BY <1>2, <2>1 DEF LocalsOK, Need
<1>5. resets = 0 => total = upto(k + 1)
  <2>1. resets = 0 => old.left = upto(k)
    BY <1>2 DEF FreeInv, CountInv, Scanned, ScannedIs
  <2>2. /\ Cardinality({x \in DOMAIN win.data : win.data[x] = 0}) \in Nat
        /\ upto(k) + Cardinality({x \in DOMAIN win.data : win.data[x] = 0}) = upto(k + 1)
    BY <1>2, <1>4, ZerosFree
  <2> HIDE DEF upto
  <2>3. QED BY <2>1, <2>2
<1>6. upto(Last \div PerSector + 1) = FreeNow
  BY ScannedAll
<1> HIDE DEF total
<1>7. PICK l : /\ th' = [th EXCEPT !["storage"] = l]
               /\ \/ fs' = fs /\ l.pc = "scan" /\ l.cl = k + 1 /\ l.left = total
                  \/ /\ k = Last \div PerSector /\ l.pc = "decide" /\ l.left = total
                     /\ fs' = [fs EXCEPT !.free = total, !.info = TRUE]
  <2>1. CASE /\ fs' = fs
             /\ th' = [th EXCEPT !["storage"].cl = k + 1, !["storage"].left = total]
    <3>1. PICK l : /\ l = [old EXCEPT !.cl = k + 1, !.left = total]
                   /\ th' = [th EXCEPT !["storage"] = l]
      BY <2>1
    <3>2. l.pc = "scan" /\ l.cl = k + 1 /\ l.left = total
      BY <1>2, <3>1, LocalsAre, Both
    <3>3. QED BY <2>1, <3>1, <3>2
  <2>2. CASE /\ k = Last \div PerSector /\ Count(total)
             /\ fs' = [fs EXCEPT !.free = total, !.info = TRUE]
    <3>1. PICK l : /\ l = [old EXCEPT !.pc = "decide", !.left = total]
                   /\ th' = [th EXCEPT !["storage"] = l]
      BY <2>2 DEF Count
    <3>2. l.pc = "decide" /\ l.left = total
      BY <3>1, LocalsAre, Both
    <3>3. QED BY <2>2, <3>1, <3>2
  <2>3. QED BY <2>1, <2>2 DEF Scan, total
<1>8. /\ th'["storage"] = l
      /\ \A q \in Thread : q # "storage" => th[q] = Idle /\ th'[q] = Idle
  BY <1>2, <1>7, Going, Both
<1>9. CurFat' = CurFat /\ OnInfo' = OnInfo /\ FreeNow' = FreeNow
  BY ScanStep, SeesSame, InfoSame, FreeSame
<1>10. CountInv'
  <2>1. CASE fs' = fs /\ l.pc = "scan" /\ l.cl = k + 1 /\ l.left = total
    <3>1. resets = 0 => l.left = ScannedIs(l)
      BY <1>5, <2>1 DEF ScannedIs
    <3>2. /\ old.pc # "link" /\ l.pc \notin {"link", "closed", "decide"}
          /\ ~(fil.open \/ old.pc \in Cutting)
      BY <1>2, <1>3, <2>1 DEF Cutting
    <3>3. QED BY <1>1, <1>8, <1>9, <2>1, <3>1, <3>2, Both, CountQuiet DEF FreeInv
  <2>2. CASE /\ k = Last \div PerSector /\ l.pc = "decide" /\ l.left = total
             /\ fs' = [fs EXCEPT !.free = total, !.info = TRUE]
    <3> SUFFICES ASSUME resets = 0
                 PROVE  (Known /\ Flagged /\ Behind /\ Flushed /\ Scanned /\ Decided)'
      BY <1>1 DEF CountInv
    <3>1. total = FreeNow
      BY <1>5, <1>6, <2>2
    <3>2. fs'.free = FreeNow /\ fs'.info
      BY <2>2, <3>1, FsTyped
    <3>3. Known'
      <4>1. LinkPending' = 0 /\ FreeNow \in Nat
        BY <1>8, <2>2, FreeType DEF LinkPending
      <4>2. QED BY <1>9, <3>2, <4>1 DEF Known
    <3>4. Behind'
      <4>1. \A q \in Thread : th[q].pc \notin {"link"} \union Cutting
        BY <1>2, <1>8, Both DEF Cutting
      <4>2. OnInfo \in {Unknown, FreeNow}
        BY <1>3, <4>1, Both DEF FreeInv, CountInv, Behind
      <4>3. QED BY <1>9, <4>2 DEF Behind
    <3>5. Flagged' /\ Flushed' /\ Scanned' /\ Decided'
      BY <1>8, <1>9, <2>2, <3>1, <3>2, Both DEF Flagged, Flushed, Scanned, Decided
    <3>6. QED BY <3>3, <3>4, <3>5
  <2>3. QED BY <1>7, <2>1, <2>2
<1>11. SearchInv'
  BY <1>7, <1>8 DEF SearchInv
<1>12. FitInv'
  <2>1. /\ old.pc \in Rotating
        /\ l.pc \notin ClosePlaces /\ l.pc \notin OpenPlaces
    BY <1>2, <1>7 DEF Rotating, OpenPlaces, ClosePlaces, SavedPlaces
  <2>2. QED BY <1>1, <1>3, <1>8, <1>9, <2>1, Both, FitQuiet, ZenonT(60) DEF FreeInv
<1>13. QED BY <1>10, <1>11, <1>12 DEF FreeInv

(* The next file, or the end of the recording.                              *)
LEMMA NextFileFree ==
  ASSUME VolumeInv, FreeInv, NextFile
  PROVE  FreeInv'
<1>1. /\ th["storage"].pc = "decide" /\ th["storage"].left >= MinFree
      /\ resets' = resets /\ fs' = fs /\ fil' = fil /\ count' = count
      /\ th' = [th EXCEPT !["storage"] = [Idle EXCEPT !.pc = "find", !.name = number + 1]]
  BY DEF NextFile, At
<1>2. PICK l : /\ l = [Idle EXCEPT !.pc = "find", !.name = number + 1]
               /\ th' = [th EXCEPT !["storage"] = l]
  BY <1>1
<1>3. l.pc = "find"
  BY <1>2 DEF Idle
<1>4. /\ th'["storage"] = l
      /\ \A q \in Thread : q # "storage" => th[q] = Idle /\ th'[q] = Idle
  BY <1>1, <1>2, Going, Both
<1>5. CurFat' = CurFat /\ OnInfo' = OnInfo
  BY NextFileStep, SeesSame, InfoSame
<1>6. ~fil.open /\ th["storage"].pc \in Rotating
  <2>1. th["storage"].pc \in ClosePlaces \union EndPlaces /\ th["storage"].pc \notin ClosePlaces
    BY <1>1 DEF EndPlaces, ClosePlaces, SavedPlaces
  <2>2. QED BY <1>1, <2>1, AtClose, Both DEF Rotating
<1>7. resets = 0 => FreeNow >= MinFree
  <2>1. th["storage"].left > 0
    BY <1>1, LocalsAre, Both, Constants
  <2>2. resets = 0 => th["storage"].left = FreeNow
    BY <1>1, <2>1 DEF FreeInv, CountInv, Decided
  <2>3. QED BY <1>1, <2>2
<1>8. /\ th["storage"].pc \notin {"link"} \union Cutting
      /\ l.pc \notin {"link", "search", "closed", "scan", "decide"} \union Cutting
      /\ l.pc \notin ClosePlaces
  BY <1>1, <1>3 DEF Cutting, ClosePlaces, SavedPlaces
<1>9. QED BY <1>1, <1>4, <1>5, <1>6, <1>7, <1>8, Both, Passing, ZenonT(60)

LEMMA LowSpaceFree ==
  ASSUME VolumeInv, FreeInv, LowSpace
  PROVE  FreeInv'
<1>1. /\ th["storage"].pc = "decide"
      /\ resets' = resets /\ fs' = fs /\ fil' = fil /\ count' = count
      /\ th' = [th EXCEPT !["storage"] = [Idle EXCEPT !.pc = "close", !.low = TRUE]]
  BY DEF LowSpace, At
<1>2. PICK l : /\ l = [Idle EXCEPT !.pc = "close", !.low = TRUE]
               /\ th' = [th EXCEPT !["storage"] = l]
  BY <1>1
<1>3. l.pc = "close" /\ l.low
  BY <1>2 DEF Idle
<1>4. /\ th'["storage"] = l
      /\ \A q \in Thread : q # "storage" => th[q] = Idle /\ th'[q] = Idle
  BY <1>1, <1>2, Going, Both
<1>5. CurFat' = CurFat /\ OnInfo' = OnInfo
  BY LowSpaceStep, SeesSame, InfoSame
<1>6. ~fil.open
  <2>1. th["storage"].pc \in ClosePlaces \union EndPlaces /\ th["storage"].pc \notin ClosePlaces
    BY <1>1 DEF EndPlaces, ClosePlaces, SavedPlaces
  <2>2. QED BY <2>1, AtClose, Both
<1>7. /\ th["storage"].pc \notin {"link"} \union Cutting
      /\ l.pc \notin {"link", "search", "closed", "scan", "decide"} \union Cutting
      /\ l.pc \notin Rotating /\ l.pc \notin OpenPlaces
  BY <1>1, <1>3 DEF Cutting, Rotating, OpenPlaces
<1>8. QED BY <1>1, <1>3, <1>4, <1>5, <1>6, <1>7, Both, Passing, ZenonT(60)

-----------------------------------------------------------------------------
(* The keys and the reset: no call is in progress.                          *)
LEMMA IdleFree ==
  ASSUME VolumeInv, FreeInv, resets' = resets, CurFat' = CurFat, OnInfo' = OnInfo,
         count' = count, ~fil.open, ~fil'.open, ~fs'.mounted,
         \A q \in Thread : th[q] = Idle /\ th'[q].pc \in {"idle", "boot"}
  PROVE  FreeInv'
<1>1. FreeNow' = FreeNow
  BY FreeSame
<1>2. CountInv'
  <2> SUFFICES ASSUME resets = 0
               PROVE  (Known /\ Flagged /\ Behind /\ Flushed /\ Scanned /\ Decided)'
    BY DEF CountInv
  <2>1. \A q \in Thread : th[q].pc \notin {"link"} \union Cutting
    BY Both DEF Cutting
  <2>2. OnInfo \in {Unknown, FreeNow}
    BY <2>1, Both DEF FreeInv, CountInv, Behind
  <2>3. Known' /\ Flagged' /\ Behind'
    BY <1>1, <2>2 DEF Known, Flagged, Behind
  <2>4. Flushed' /\ Scanned' /\ Decided'
    BY Both DEF Flushed, Scanned, Decided
  <2>5. QED BY <2>3, <2>4
<1>3. th'["storage"].pc \in {"idle", "boot"}
  BY Both
<1>4. SearchInv'
  BY <1>3 DEF SearchInv
<1>5. FitInv'
  BY <1>3 DEF FitInv, AtRotation, Rotating, OpenPlaces, ClosePlaces, SavedPlaces
<1>6. QED BY <1>2, <1>4, <1>5 DEF FreeInv

LEMMA StartFree ==
  ASSUME VolumeInv, CleanInv, FreeInv, Exclusive, Start
  PROVE  FreeInv'
<1>1. /\ KeysMay /\ ~sampling /\ resets' = resets /\ count' = count /\ fil' = fil
      /\ fs' = [fs EXCEPT !.mounted = FALSE] /\ Goto("keys", "boot")
  BY DEF Start, Mount
<1>2. /\ \A q \in Thread : th[q] = Idle
      /\ ~fil.open
  BY <1>1, BothIdle
<1>3. ~win.dirty
  BY <1>2, Both DEF CleanInv, Cutting
<1>4. disk' = disk /\ \A s \in Sector : Cur(s)' = Cur(s)
  BY <1>3, StartStep DEF Cur
<1>5. CurFat' = CurFat /\ OnInfo' = OnInfo
  BY <1>4, SeesSame, InfoSame
<1>6. \A q \in Thread : th'[q].pc \in {"idle", "boot"}
  BY <1>1, <1>2, LocalsAre, Both DEF Goto, VolumeInv, ThreadInv
<1>7. ~fs'.mounted
  BY <1>1, FsTyped
<1>8. QED BY <1>1, <1>2, <1>5, <1>6, <1>7, IdleFree

LEMMA StartNoCardFree ==
  ASSUME VolumeInv, FreeInv, Exclusive, StartNoCard
  PROVE  FreeInv'
<1>1. /\ KeysMay /\ ~sampling /\ resets' = resets /\ count' = count /\ th' = th
      /\ fs' = [fs EXCEPT !.mounted = FALSE]
  BY DEF StartNoCard
<1>2. /\ \A q \in Thread : th[q] = Idle
      /\ ~fil.open /\ ~fil'.open
  BY <1>1, BothIdle, StartNoCardStep
<1>3. CurFat' = CurFat /\ OnInfo' = OnInfo
  BY StartNoCardStep, SeesSame, InfoSame
<1>4. ~fs'.mounted
  BY <1>1, FsTyped
<1>5. QED BY <1>1, <1>2, <1>3, <1>4, Both, IdleFree

LEMMA StopFree ==
  ASSUME VolumeInv, FreeInv, Exclusive, Stop
  PROVE  FreeInv'
<1>1. /\ KeysMay /\ resets' = resets /\ count' = count /\ fil' = fil /\ fs' = fs
      /\ Goto("keys", "close")
  BY DEF Stop
<1>2. \A q \in Thread : th[q] = Idle
  BY <1>1, BothIdle
<1>3. PICK l : l = [th["keys"] EXCEPT !.pc = "close"] /\ th' = [th EXCEPT !["keys"] = l]
  BY <1>1 DEF Goto
<1>4. l.pc = "close"
  BY <1>3, LocalsAre, Both
<1>5. th'["keys"] = l /\ \A q \in Thread : q # "keys" => th[q] = Idle /\ th'[q] = Idle
  BY <1>2, <1>3, Both DEF VolumeInv, ThreadInv
<1>6. CurFat' = CurFat /\ OnInfo' = OnInfo
  BY StopStep, SeesSame, InfoSame
<1>7. /\ th["keys"].pc \notin {"link"} \union Cutting
      /\ l.pc \notin {"link", "search", "closed", "scan", "decide"} \union Cutting
  BY <1>2, <1>4, Both DEF Cutting
<1>8. QED BY <1>1, <1>5, <1>6, <1>7, Both, Passing, ZenonT(60)

(* After a reset the card may hold a count that is not true.                *)
ResetInv == resets \in Nat
LEMMA ResetStays ==
  ASSUME ResetInv, [Next]_vars
  PROVE  ResetInv'
<1>1. CASE Window
  BY <1>1 DEF Window, SyncWindow, MoveWindow, WindowMoved, ResetInv
<1>2. CASE Open
  BY <1>2 DEF Open, BootRead, Mounted, Find, GetLink, FreeCluster, BackToEntry, ResetInv
<1>3. CASE WriteBuffer
  BY <1>3 DEF WriteBuffer, Write, NewChain, Follow, Search, Mark, LinkCluster, WriteData,
     Written, ResetInv
<1>4. CASE CloseFile
  BY <1>4 DEF CloseFile, Close, SaveEntry, SyncEntry, SyncInfo, Closed, Unmount, CloseAgain,
     GetFree, Scan, NextFile, LowSpace, ResetInv
<1>5. CASE Start \/ StartNoCard \/ Stop \/ Reset \/ UNCHANGED vars
  BY <1>5 DEF Start, StartNoCard, Stop, Reset, vars, ResetInv
<1>6. QED BY <1>1, <1>2, <1>3, <1>4, <1>5 DEF Next

LEMMA ResetFree ==
  ASSUME VolumeInv, FreeInv, ResetInv, Reset
  PROVE  FreeInv'
<1>1. resets' = resets + 1 /\ \A q \in Thread : th'[q] = Idle
  BY DEF Reset
<1>2. resets' # 0
  BY <1>1 DEF ResetInv
<1>3. th'["storage"].pc = "idle"
  BY <1>1, Both
<1>4. QED BY <1>2, <1>3 DEF FreeInv, CountInv, SearchInv, FitInv

-----------------------------------------------------------------------------
(* A formatted card: the entries of the taken clusters are used, and FSInfo *)
(* has the count, or none.                                                  *)
LEMMA FreeInit == Init => LinkValues /\ CleanInv /\ FreeInv /\ ResetInv
<1> SUFFICES ASSUME Init PROVE LinkValues /\ CleanInv /\ FreeInv /\ ResetInv
  OBVIOUS
<1>1. /\ win = NoWindow /\ fs = NoFs /\ fil = NoFile /\ th = [p \in Thread |-> Idle]
      /\ resets = 0
  BY DEF Init
<1>2. PICK free \in {Cardinality(Cluster \ Taken), Unknown} :
         disk = [s \in Sector |->
                   [k \in Fields(s) |->
                      CASE s \in FatSectors -> IF k[2] \in Taken THEN EOC ELSE 0
                        [] s = Dir -> Absent
                        [] OTHER -> IF k = Free THEN free ELSE Unknown]]
  BY DEF Init
<1>3. \A s : Cur(s) = disk[s]
  BY <1>1 DEF Cur, NoWindow
<1>4. ASSUME NEW c \in Cluster PROVE disk[FatOf(c)][Link(c)] = IF c \in Taken THEN EOC ELSE 0
  <2>1. \A s \in FatSectors : \A k \in Fields(s) : disk[s][k] = IF k[2] \in Taken THEN EOC ELSE 0
    BY <1>2, Names DEF Sector
  <2>2. FatOf(c) \in FatSectors /\ Link(c) \in Fields(FatOf(c)) /\ Link(c)[2] = c
    BY FieldsAre DEF Link
  <2>3. disk[FatOf(c)][Link(c)] = IF Link(c)[2] \in Taken THEN EOC ELSE 0
    BY <2>1, <2>2
  <2>4. QED BY <2>2, <2>3
<1>5. \A c \in Cluster : /\ CurFat[c] = IF c \in Taken THEN EOC ELSE 0
                         /\ CardFat[c] = IF c \in Taken THEN EOC ELSE 0
  BY <1>3, <1>4 DEF CurFat, CardFat
<1>6. OnInfo = free
  <2>1. FSInfo \in Sector /\ FSInfo \notin FatSectors /\ FSInfo # Dir
        /\ Free \in Fields(FSInfo)
    BY FieldsAre, Names DEF Sector
  <2>2. QED BY <1>2, <2>1 DEF OnInfo
<1>7. FreeNow = Cardinality(Cluster \ Taken)
  <2>1. FreeIn(CurFat) = Cluster \ Taken
    BY <1>5, Constants DEF FreeIn
  <2>2. QED BY <2>1 DEF FreeNow
<1>8. \A q \in Thread : th[q] = Idle
  BY <1>1
<1>9. ~fs.mounted /\ ~fil.open /\ ~win.dirty
  BY <1>1 DEF NoFs, NoFile, NoWindow
<1>10. LinkValues
  BY <1>5, Constants DEF LinkValues
<1>11. CleanInv
  BY <1>8, <1>9, Both DEF CleanInv
<1>12. CountInv
  <2>1. Known /\ Flagged /\ Behind
    BY <1>6, <1>7, <1>9 DEF Known, Flagged, Behind
  <2>2. Flushed /\ Scanned /\ Decided
    BY <1>8, Both DEF Flushed, Scanned, Decided
  <2>3. QED BY <2>1, <2>2 DEF CountInv
<1>13. SearchInv
  BY <1>8, Both DEF SearchInv
<1>14. FitInv
  BY <1>8, <1>9, Both DEF FitInv, AtRotation, Rotating, OpenPlaces, ClosePlaces, SavedPlaces
<1>15. ResetInv
  BY <1>1 DEF ResetInv
<1>16. QED BY <1>10, <1>11, <1>12, <1>13, <1>14, <1>15 DEF FreeInv

VolumeIInv == VolumeInv /\ ChainInv /\ LinkValues /\ CleanInv /\ FreeInv /\ ResetInv

LEMMA FreeStep == VolumeIInv /\ Exclusive /\ [Next]_vars => FreeInv'
<1> SUFFICES ASSUME VolumeIInv, Exclusive, [Next]_vars PROVE FreeInv'
  OBVIOUS
<1>0. VolumeInv /\ ChainInv /\ LinkValues /\ CleanInv /\ FreeInv /\ ResetInv
  BY DEF VolumeIInv
<1>1. CASE Window
  BY <1>0, <1>1, WindowFree DEF Window
<1>2. CASE Open
  BY <1>0, <1>2, BootReadFree, MountedFree, FindFree, GetLinkFree, FreeClusterFree,
     BackToEntryFree DEF Open
<1>3. CASE WriteBuffer
  BY <1>0, <1>3, WriteFree, NewChainFree, FollowFree, SearchFree, MarkFree,
     LinkClusterFree, WriteDataFree, WrittenFree DEF WriteBuffer
<1>4. CASE CloseFile
  BY <1>0, <1>4, FileCloseFree, SaveEntryFree, SyncInfoFree, ClosedFree,
     UnmountFree, CloseAgainFree, GetFreeFree, ScanFree, NextFileFree, LowSpaceFree
     DEF CloseFile
<1>5. CASE Start \/ StartNoCard \/ Stop \/ Reset
  BY <1>0, <1>5, StartFree, StartNoCardFree, StopFree, ResetFree
<1>6. CASE UNCHANGED vars
  <2>1. /\ fs' = fs /\ fil' = fil /\ th' = th /\ disk' = disk /\ win' = win
        /\ count' = count /\ resets' = resets
    BY <1>6 DEF vars, session
  <2>2. CurFat' = CurFat /\ OnInfo' = OnInfo
    BY <2>1, SeesSame DEF Cur, OnInfo
  <2>3. FreeNow' = FreeNow /\ \A l : ScannedIs(l)' = ScannedIs(l)
    BY <2>2, FreeSame
  <2>4. CountInv'
    BY <1>0, <2>1, <2>2, <2>3 DEF FreeInv, CountInv, Known, Flagged, Behind, Flushed,
       Scanned, ScannedIs, Decided, LinkPending
  <2>5. SearchInv'
    BY <1>0, <2>1, <2>2 DEF FreeInv, SearchInv, Passed
  <2>6. FitInv'
    BY <1>0, <2>1, <2>2, <2>3 DEF FreeInv, FitInv, AtRotation, Complete, Fits, LinkPending
  <2>7. QED BY <2>4, <2>5, <2>6 DEF FreeInv
<1>7. QED BY <1>1, <1>2, <1>3, <1>4, <1>5, <1>6 DEF Next

LEMMA VolumeIStep == VolumeIInv /\ Exclusive /\ [Next]_vars => VolumeIInv'
<1> SUFFICES ASSUME VolumeIInv, Exclusive, [Next]_vars PROVE VolumeIInv'
  OBVIOUS
<1>1. VolumeInv /\ ChainInv /\ LinkValues /\ CleanInv /\ ResetInv
  BY DEF VolumeIInv
<1>2. VolumeInv' /\ ChainInv' /\ LinkValues' /\ CleanInv' /\ ResetInv' /\ FreeInv'
  BY <1>1, VolumeStep, ChainStep, LinkValuesStep, CleanStep, ResetStays, FreeStep
<1>3. QED BY <1>2 DEF VolumeIInv

LEMMA VolumeCounts == VolumeIInv => FreeCountTrue
<1> SUFFICES ASSUME VolumeIInv, fs.mounted, fs.free # Unknown, resets = 0,
                    \A p \in Thread : th[p].pc = "idle"
             PROVE  fs.free = Cardinality({c \in Cluster : Fat(c) = 0})
  BY DEF FreeCountTrue
<1>1. VolumeInv /\ FreeInv
  BY DEF VolumeIInv
<1>2. LinkPending = 0 /\ FreeNow \in Nat
  BY Both, FreeType DEF LinkPending
<1>3. fs.free = FreeNow
  BY <1>1, <1>2 DEF FreeInv, CountInv, Known
<1>4. \A p \in Thread : ~th[p].loaded
  BY <1>1, Both DEF VolumeInv, ThreadInv, LocalsOK
<1>5. ASSUME NEW c \in Cluster PROVE Fat(c) = CurFat[c]
  <2>1. FatOf(c) # NoSector
    BY FieldsAre, Names
  <2>2. win.sect = FatOf(c) /\ ~win.dirty => win.data = disk[FatOf(c)]
    BY <1>1, <1>4, <2>1 DEF VolumeInv, WindowInv
  <2>3. QED BY <2>2 DEF Fat, CurFat, Cur
<1>6. {c \in Cluster : Fat(c) = 0} = FreeIn(CurFat)
  BY <1>5 DEF FreeIn
<1>7. QED BY <1>3, <1>6 DEF FreeNow

LEMMA VolumeFits == VolumeIInv /\ RoomForFile => CheckedFileFits
  BY DEF VolumeIInv, FreeInv, FitInv, Complete, CheckedFileFits

-----------------------------------------------------------------------------
(* With no call in progress and no reset since the card was formatted, the  *)
(* cached free_clst, when it is known, is the number of free entries of the *)
(* FAT: through every open that cuts a file, every cluster added and every  *)
(* f_close, f_mount and full count, when the keys wait for the storage      *)
(* thread (create_chain, remove_chain, sync_fs and f_getfree in ff.c).      *)
THEOREM FreeCountStays == ASSUME Exclusive PROVE Spec => []FreeCountTrue
<1>1. Init => VolumeIInv
  BY VolumeInit, ChainInit, FreeInit DEF VolumeIInv
<1>2. VolumeIInv /\ [Next]_vars => VolumeIInv'
  BY VolumeIStep
<1>3. VolumeIInv => FreeCountTrue
  BY VolumeCounts
<1>4. QED BY <1>1, <1>2, <1>3, PTL DEF Spec

(* A file opened after the free space was checked is never cut short by a   *)
(* full card, when the clusters the check asks for hold a whole file: it    *)
(* asks for 500 MB, and a file is 328 MB (hdas_thread.c:293, main.h:70).    *)
THEOREM CheckedFilesFit == ASSUME Exclusive, RoomForFile PROVE Spec => []CheckedFileFits
<1>1. Init => VolumeIInv
  BY VolumeInit, ChainInit, FreeInit DEF VolumeIInv
<1>2. VolumeIInv /\ [Next]_vars => VolumeIInv'
  BY VolumeIStep
<1>3. VolumeIInv => CheckedFileFits
  BY VolumeFits
<1>4. QED BY <1>1, <1>2, <1>3, PTL DEF Spec

-----------------------------------------------------------------------------
(* The volume as a store of files.  What the card has of a file depends on  *)
(* its size at the last close only, so a step of the store is a step that   *)
(* changes kept or what OpenFile shows of fil.                             *)
FileMap == [n \in File |-> Stored(n)]
MapOf(k) == [n \in File |-> IF k[n] = NotKept THEN Files!Lost ELSE Files!Whole(n, k[n])]
Mapped == FileMap = MapOf(kept)

LEMMA StoredIs == VolumeInv /\ ChainInv => Mapped
<1> SUFFICES ASSUME VolumeInv, ChainInv, NEW n \in File
             PROVE  Stored(n) = IF kept[n] = NotKept THEN Files!Lost
                                                     ELSE Files!Whole(n, kept[n])
  BY DEF Mapped, FileMap, MapOf
<1>1. CASE kept[n] = NotKept
  BY <1>1 DEF Stored, Files!Lost
<1>2. CASE kept[n] # NotKept
  <2>1. OnCard(n).size = kept[n] /\ \A i \in 0 .. kept[n] - 1 : Reads(n)[i] = <<n, i>>
    BY <1>2, VolumeReadable, CardFormed DEF ClosedFilesReadable
  <2>2. Reads(n) = [i \in 0 .. kept[n] - 1 |-> Reads(n)[i]]
    BY <2>1 DEF Reads
  <2>3. Reads(n) = [i \in 0 .. kept[n] - 1 |-> <<n, i>>]
    BY <2>1, <2>2
  <2>4. QED BY <1>2, <2>3 DEF Stored, Files!Whole
<1>3. QED BY <1>1, <1>2

(* What kept and OpenFile are after a step decides what the store sees.     *)
LEMMA SameFiles ==
  ASSUME Mapped, Mapped', kept' = kept, OpenFile' = OpenFile
  PROVE  [Files!Next]_<<FileMap, OpenFile>>
<1>1. FileMap' = FileMap
  BY DEF Mapped, MapOf
<1>2. QED BY <1>1

LEMMA SameFil ==
  ASSUME Mapped, Mapped', kept' = kept, fil' = fil
  PROVE  [Files!Next]_<<FileMap, OpenFile>>
<1>1. OpenFile' = OpenFile
  BY DEF OpenFile
<1>2. QED BY <1>1, SameFiles

LEMMA SameHandle ==
  ASSUME Mapped, Mapped', kept' = kept,
         fil'.open = fil.open, fil'.name = fil.name, fil'.size = fil.size
  PROVE  [Files!Next]_<<FileMap, OpenFile>>
<1>1. OpenFile' = OpenFile
  BY DEF OpenFile
<1>2. QED BY <1>1, SameFiles

LEMMA ShutIs ==
  ASSUME VolumeInv, ~fil.open
  PROVE  OpenFile = Files!Shut
<1>1. fil.open = FALSE
  BY DEF VolumeInv, FilInv, FilType
<1>2. QED BY <1>1 DEF OpenFile, Files!Shut

(* A file that is created again is lost.                                    *)
LEMMA MapForgets ==
  ASSUME NEW n \in File, kept \in [File -> Int], Mapped, Mapped',
         kept' = [kept EXCEPT ![n] = NotKept]
  PROVE  FileMap' = [FileMap EXCEPT ![n] = Files!Lost]
<1>1. \A m \in File : kept'[m] = IF m = n THEN NotKept ELSE kept[m]
  OBVIOUS
<1>2. MapOf(kept') = [MapOf(kept) EXCEPT ![n] = Files!Lost]
  BY <1>1 DEF MapOf
<1>3. QED BY <1>2 DEF Mapped

LEMMA KeptType == VolumeInv => kept \in [File -> Int]
  BY Constants DEF VolumeInv, SessionInv, NotKept

LEMMA FindFiles ==
  ASSUME VolumeInv, Mapped, Mapped', NEW p \in Thread, Find(p)
  PROVE  [Files!Next]_<<FileMap, OpenFile>>
<1> DEFINE n == th[p].name
<1>1. n \in File /\ ~fil.open
  BY FindStep
<1>2. FileMap' = [FileMap EXCEPT ![n] = Files!Lost]
  BY <1>1, KeptType, MapForgets DEF Find
<1>3. OpenFile = Files!Shut
  BY <1>1, ShutIs
<1>4. CASE fil' = fil
  <2>1. Files!Discard(n)
    BY <1>1, <1>2, <1>3, <1>4 DEF Files!Discard, OpenFile, FileMap
  <2>2. QED BY <1>1, <2>1 DEF Files!Next
<1>5. CASE fil' = Opened(p, Absent)
  <2>1. OpenFile' = Files!Empty(n)
    BY <1>5 DEF OpenFile, Opened, Absent, NoFile, Files!Empty
  <2>2. Files!Create(n)
    BY <1>2, <1>3, <2>1 DEF Files!Create, Files!Shut, FileMap
  <2>3. QED BY <1>1, <2>2 DEF Files!Next
<1>6. QED BY <1>4, <1>5 DEF Find

LEMMA BackFiles ==
  ASSUME VolumeInv, ChainInv, Mapped, Mapped', NEW p \in Thread, BackToEntry(p)
  PROVE  [Files!Next]_<<FileMap, OpenFile>>
<1> DEFINE n == th[p].name
<1>1. /\ fil' = Opened(p, [used |-> TRUE, clust |-> 0, size |-> 0]) /\ n \in File
      /\ kept' = kept /\ th[p].pc = "back"
  BY BackToEntryStep DEF BackToEntry, Here, At
<1>2. ~fil.open
  BY <1>1 DEF VolumeInv, FilInv, FilePlaces, WritePlaces, ClosePlaces, SavedPlaces
<1>3. kept[n] = NotKept
  BY <1>1 DEF ChainInv, Saved
<1>4. FileMap[n] = Files!Lost /\ FileMap' = FileMap
  BY <1>1, <1>3 DEF Mapped, MapOf
<1>5. ~OpenFile.open /\ OpenFile' = Files!Empty(n)
  BY <1>1, <1>2 DEF OpenFile, Opened, NoFile, Files!Empty
<1>6. Files!Begin(n)
  BY <1>4, <1>5 DEF Files!Begin, FileMap
<1>7. QED BY <1>1, <1>6 DEF Files!Next

LEMMA WriteDataFiles ==
  ASSUME VolumeInv, Mapped, Mapped', WriteData
  PROVE  [Files!Next]_<<FileMap, OpenFile>>
<1> DEFINE first == fil.size % ClusterSize
           left == th["storage"].left
           room == ClusterSize - first
           cc == IF left < room THEN left ELSE room
<1>1. /\ th["storage"].pc = "data" /\ kept' = kept
      /\ fil' = [fil EXCEPT !.size = @ + cc]
  BY DEF WriteData, At
<1>2. th["storage"].pc \in WritePlaces
  BY <1>1 DEF WritePlaces
<1>3. fil.open /\ fil \in FilType /\ left \in Nat /\ left > 0 /\ fil.size \in Nat
  BY <1>2, AtWrite, LocalsAre, Both, Constants
     DEF VolumeInv, FilInv, ThreadInv, LocalsOK, FilType
<1>4. first \in 0 .. ClusterSize - 1
  BY <1>3, Constants
<1> HIDE DEF first
<1>5. cc \in 1 .. ClusterSize
  BY <1>3, <1>4, Constants
<1> HIDE DEF cc
<1>6. OpenFile' = [OpenFile EXCEPT !.size = @ + cc] /\ OpenFile.open
  <2>1. OpenFile = [open |-> fil.open, name |-> fil.name, size |-> fil.size]
    BY <1>3 DEF OpenFile
  <2>2. /\ fil'.open = fil.open /\ fil'.name = fil.name /\ fil'.size = fil.size + cc
    BY <1>1, <1>3 DEF FilType
  <2>3. OpenFile' = [open |-> fil.open, name |-> fil.name, size |-> fil.size + cc]
    BY <1>3, <2>2 DEF OpenFile
  <2>4. OpenFile' = [OpenFile EXCEPT !.size = fil.size + cc]
    BY <2>1, <2>3
  <2>5. OpenFile.size = fil.size /\ OpenFile.open
    BY <1>3, <2>1
  <2>6. QED BY <2>4, <2>5
<1>7. FileMap' = FileMap
  BY <1>1 DEF Mapped
<1>8. Files!Extend
  BY <1>5, <1>6, <1>7 DEF Files!Extend, FileMap
<1>9. QED BY <1>8 DEF Files!Next

LEMMA ClosedFiles ==
  ASSUME VolumeInv, Mapped, Mapped', NEW p \in Thread, Closed(p)
  PROVE  [Files!Next]_<<FileMap, OpenFile>>
<1> DEFINE n == fil.name
<1>1. /\ fil.open /\ ~fil'.open /\ n \in File
      /\ kept' = [kept EXCEPT ![n] = fil.size]
  BY ClosedStep
<1>2. fil.size # NotKept
  BY Constants DEF VolumeInv, FilInv, FilType, NotKept
<1>3. \A m \in File : kept'[m] = IF m = n THEN fil.size ELSE kept[m]
  BY <1>1, KeptType
<1>4. MapOf(kept') = [MapOf(kept) EXCEPT ![n] = Files!Whole(n, fil.size)]
  BY <1>2, <1>3 DEF MapOf
<1>5. OpenFile.open /\ OpenFile.name = n /\ OpenFile.size = fil.size
  BY <1>1 DEF OpenFile
<1>6. OpenFile' = Files!Shut
  <2>1. fil \in FilType /\ (fil' = fil \/ fil' = [fil EXCEPT !.open = FALSE])
    BY DEF Closed, VolumeInv, FilInv
  <2>2. fil'.open = FALSE
    BY <1>1, <2>1 DEF FilType
  <2>3. QED BY <2>2 DEF OpenFile, Files!Shut
<1>7. FileMap' = [FileMap EXCEPT ![n] = Files!Whole(n, fil.size)]
  BY <1>4 DEF Mapped
<1>8. Files!Close
  BY <1>5, <1>6, <1>7 DEF Files!Close, FileMap
<1>9. QED BY <1>8 DEF Files!Next

LEMMA ResetFiles ==
  ASSUME Mapped, Mapped', Reset
  PROVE  [Files!Next]_<<FileMap, OpenFile>>
<1>1. kept' = kept /\ fil' = NoFile
  BY DEF Reset
<1>2. FileMap' = FileMap /\ OpenFile' = Files!Shut
  BY <1>1 DEF Mapped, OpenFile, NoFile, Files!Shut
<1>3. QED BY <1>2 DEF Files!Next, Files!Crash, FileMap

(* Every other step keeps kept, and of fil what OpenFile shows.             *)
LEMMA GetLinkFiles ==
  ASSUME VolumeInv, Mapped, Mapped', NEW p \in Thread, GetLink(p)
  PROVE  [Files!Next]_<<FileMap, OpenFile>>
<1>1. th[p].pc = "get" /\ kept' = kept /\ (fil' = fil \/ fil' = NoFile)
  BY DEF GetLink, Here, At
<1>2. ~fil.open
  BY <1>1 DEF VolumeInv, FilInv, FilePlaces, WritePlaces, ClosePlaces, SavedPlaces
<1>3. OpenFile = Files!Shut
  BY <1>2, ShutIs
<1>4. CASE fil' = NoFile
  <2>1. OpenFile' = Files!Shut
    BY <1>4 DEF OpenFile, NoFile, Files!Shut
  <2>2. QED BY <1>1, <1>3, <2>1, SameFiles
<1>5. QED BY <1>1, <1>4, SameFil

LEMMA WriteFiles ==
  ASSUME VolumeInv, Mapped, Mapped', WriteBuffer
  PROVE  [Files!Next]_<<FileMap, OpenFile>>
<1>1. CASE Write \/ NewChain
  BY <1>1, SameFil DEF Write, NewChain
<1>2. CASE Follow \/ Search \/ Mark \/ LinkCluster \/ Written
  <2>1. fil \in FilType
    BY DEF VolumeInv, FilInv
  <2>2. kept' = kept
    BY <1>2 DEF Follow, Search, Mark, LinkCluster, Written
  <2>3. /\ fil'.open = fil.open /\ fil'.name = fil.name /\ fil'.size = fil.size
    <3>1. CASE Follow \/ Search
      BY <2>1, <3>1 DEF Follow, Search, Abort, FilType
    <3>2. CASE Mark \/ LinkCluster \/ Written
      BY <2>1, <3>2 DEF Mark, LinkCluster, Chained, Written, FilType
    <3>3. QED BY <1>2, <3>1, <3>2
  <2>4. QED BY <2>2, <2>3, SameHandle
<1>3. QED BY <1>1, <1>2, WriteDataFiles DEF WriteBuffer

LEMMA CloseFiles ==
  ASSUME VolumeInv, Mapped, Mapped', CloseFile
  PROVE  [Files!Next]_<<FileMap, OpenFile>>
<1>1. CASE \E p \in Thread : Closed(p)
  BY <1>1, ClosedFiles
<1>2. CASE \E p \in Thread : SyncInfo(p)
  <2>1. fil \in FilType /\ kept' = kept /\ fil' = [fil EXCEPT !.modified = FALSE]
    BY <1>2 DEF SyncInfo, VolumeInv, FilInv
  <2>2. fil'.open = fil.open /\ fil'.name = fil.name /\ fil'.size = fil.size
    BY <2>1 DEF FilType
  <2>3. QED BY <2>1, <2>2, SameHandle
<1>3. CASE \E p \in Thread : Close(p) \/ SaveEntry(p) \/ SyncEntry(p) \/ Unmount(p)
  BY <1>3, SameFil DEF Close, SaveEntry, SyncEntry, Unmount
<1>4. CASE CloseAgain \/ GetFree \/ Scan \/ NextFile \/ LowSpace
  BY <1>4, SameFil DEF CloseAgain, GetFree, Scan, NextFile, LowSpace
<1>5. QED BY <1>1, <1>2, <1>3, <1>4 DEF CloseFile

LEMMA FilesStep ==
  ASSUME VolumeInv, ChainInv, Mapped, Mapped', Exclusive, [Next]_vars
  PROVE  [Files!Next]_<<FileMap, OpenFile>>
<1>1. CASE Window
  BY <1>1, SameFil DEF Window, SyncWindow, MoveWindow, WindowMoved
<1>2. CASE Open
  <2>1. CASE \E p \in Thread : BootRead(p) \/ Mounted(p) \/ FreeCluster(p)
    BY <2>1, SameFil DEF BootRead, Mounted, FreeCluster
  <2>2. QED BY <1>2, <2>1, FindFiles, GetLinkFiles, BackFiles DEF Open
<1>3. CASE WriteBuffer
  BY <1>3, WriteFiles
<1>4. CASE CloseFile
  BY <1>4, CloseFiles
<1>5. CASE Start \/ Stop \/ UNCHANGED vars
  BY <1>5, SameFil DEF Start, Stop, vars
<1>6. CASE StartNoCard
  <2>1. kept' = kept /\ fil' = [fil EXCEPT !.open = FALSE] /\ KeysMay /\ ~sampling
    BY <1>6 DEF StartNoCard
  <2>2. fil \in FilType /\ ~fil.open
    BY <2>1, BothIdle
  <2>3. fil'.open = FALSE
    BY <2>1, <2>2 DEF FilType
  <2>4. OpenFile = Files!Shut /\ OpenFile' = Files!Shut
    BY <2>2, <2>3, ShutIs DEF OpenFile, Files!Shut
  <2>5. QED BY <2>1, <2>4, SameFiles
<1>7. CASE Reset
  BY <1>7, ResetFiles
<1>8. QED BY <1>1, <1>2, <1>3, <1>4, <1>5, <1>6, <1>7 DEF Next

LEMMA FilesInit == Init => Files!Init
<1> SUFFICES ASSUME Init PROVE Files!Init
  OBVIOUS
<1>1. kept = [n \in File |-> NotKept] /\ fil = NoFile
  BY DEF Init
<1>2. \A n \in File : Stored(n) = Files!Lost
  BY <1>1 DEF Stored, Files!Lost
<1>3. OpenFile = Files!Shut
  BY <1>1 DEF OpenFile, NoFile, Files!Shut
<1>4. QED BY <1>2, <1>3 DEF Files!Init

-----------------------------------------------------------------------------
(* The volume implements a store of whole files: from the f_close that      *)
(* returns FR_OK on, a file is what was written to it, through every later  *)
(* recording, full card and reset, until f_open creates it again; the open  *)
(* file begins empty and grows at its end, and a reset loses nothing else   *)
(* (f_open, f_write and f_close in ff.c, the rotation in hdas_thread.c).    *)
THEOREM VolumeIsFileStore == ASSUME Exclusive PROVE Spec => IsFileStore
<1> DEFINE IInv == VolumeInv /\ ChainInv /\ Mapped
<1>1. Init => IInv
  BY VolumeInit, ChainInit, StoredIs
<1>2. VolumeInv /\ ChainInv /\ [Next]_vars => VolumeInv' /\ ChainInv'
  BY VolumeStep, ChainStep
<1>3. IInv /\ Mapped' /\ [Next]_vars => [Files!Next]_(Files!vars)
  BY FilesStep DEF Files!vars, FileMap
<1>4. Spec => [](VolumeInv /\ ChainInv)
  BY <1>1, <1>2, PTL DEF Spec
<1>5. Spec => []Mapped
  BY <1>4, StoredIs, PTL
<1> HIDE DEF IInv
<1>6. QED
  BY <1>3, <1>4, <1>5, FilesInit, PTL DEF Spec, IsFileStore, Files!Spec, IInv
=============================================================================

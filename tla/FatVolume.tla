----------------------------- MODULE FatVolume -----------------------------
(***************************************************************************)
(* The FAT32 volume the recordings go to, as FatFs R0.12c keeps it for the  *)
(* storage thread and the keys: the one sector window of the volume, the    *)
(* FAT, the directory and the FSInfo sector on the card, the cached count   *)
(* of free clusters, and the file object hdas_fil, through f_mount, f_open, *)
(* f_write, f_close and f_getfree as hdas_thread.c calls them.              *)
(*                                                                         *)
(* A step makes at most one access to the card.  The device may be reset    *)
(* between any two steps: what is in RAM is lost and the card stays.        *)
(* FatFs takes no lock (_FS_REENTRANT 0), and key2 outranks the storage     *)
(* thread: unless Exclusive, a key can start its calls between two steps of *)
(* the storage thread.                                                     *)
(*                                                                         *)
(* A sector is a function from its fields to their values.  Writing through *)
(* a window that holds another sector than the caller thinks leaves a       *)
(* sector with a foreign field.  The card answers every access (SdDiskIo    *)
(* has its errors), and the directory is one sector.                        *)
(***************************************************************************)
EXTENDS Integers, FiniteSets

CONSTANTS Last,         \* clusters 2 .. Last; n_fatent = Last + 1
          Taken,        \* clusters another file of the card holds
          PerSector,    \* FAT entries of a sector (128)
          ClusterSize,  \* csize, in sectors
          Buffer,       \* sizeof(FsWriteBuf), in sectors
          WriteNum,     \* FS_WRITE_NUM
          MinFree,      \* the free clusters below which recording stops
          MaxFile,      \* bound: file numbers
          MaxResets,    \* bound: resets
          Exclusive     \* the keys wait for the storage thread

\* The first FAT sector holds a cluster after entries 0 and 1, as 128 entries do.
ASSUME VolumeAssumption ==
    /\ Last \in Nat /\ Last >= 2 /\ Taken \subseteq 2 .. Last
    /\ PerSector \in Nat /\ PerSector > 2
    /\ {ClusterSize, Buffer, WriteNum, MinFree} \subseteq Nat \ {0}
    /\ {MaxFile, MaxResets} \subseteq Nat
    /\ Exclusive \in BOOLEAN

VARIABLES
    disk,       \* the FAT, directory and FSInfo sectors of the card
    data,       \* what the sectors of each data cluster hold
    win,        \* fs->winsect, win and wflag
    fs,         \* fs_type # 0, free_clst, last_clst and fsi_flag
    fil,        \* hdas_fil
    th,         \* where each thread stands in FatFs, and its locals
    number,     \* file_number
    count,      \* signal_file_write_count
    sampling,   \* hdas_sample_flag
    resets,     \* the resets so far
    kept        \* what the files closed with FR_OK hold, NotKept for others

medium == <<disk, data>>
session == <<number, count, sampling>>
vars == <<disk, data, win, fs, fil, th, session, resets, kept>>

Thread == {"storage", "keys"}
Cluster == 2 .. Last
EOC == Last + 1                     \* 0x0FFFFFFF, not a cluster
Unknown == Last + 1                 \* 0xFFFFFFFF as free_clst or last_clst
File == 0 .. MaxFile
NotKept == -1

Link(c) == <<"fat", c>>
Entry(n) == <<"file", n>>
Free == <<"free", 0>>
Next_Free == <<"next", 0>>

FatOf(c) == <<"fat", c \div PerSector>>
FatSectors == {FatOf(c) : c \in Cluster}
Dir == <<"dir", 0>>
FSInfo == <<"info", 0>>
Boot == <<"boot", 0>>
NoSector == <<"none", 0>>
Sector == FatSectors \union {Dir, FSInfo, Boot}
Fields(s) == CASE s \in FatSectors -> {Link(c) : c \in {x \in Cluster : FatOf(x) = s}}
               [] s = Dir -> {Entry(n) : n \in File}
               [] s = FSInfo -> {Free, Next_Free}
               [] OTHER -> {}

Absent == [used |-> FALSE, clust |-> 0, size |-> 0]
NoFile == [open |-> FALSE, name |-> 0, sclust |-> 0, clust |-> 0, size |-> 0,
           modified |-> FALSE, err |-> FALSE, checked |-> FALSE]
Idle == [pc |-> "idle", loaded |-> FALSE, cl |-> 0, scl |-> 0, left |-> 0,
         name |-> 0, low |-> FALSE]
NoFs == [mounted |-> FALSE, free |-> Unknown, next |-> Unknown, info |-> FALSE]
NoWindow == [sect |-> NoSector, data |-> <<>>, dirty |-> FALSE]

\* A formatted card; FSInfo may hold the free count or leave it unknown.
Init ==
    /\ \E free \in {Cardinality(Cluster \ Taken), Unknown} :
         disk = [s \in Sector |->
                   [k \in Fields(s) |->
                      CASE s \in FatSectors -> IF k[2] \in Taken THEN EOC ELSE 0
                        [] s = Dir -> Absent
                        [] OTHER -> IF k = Free THEN free ELSE Unknown]]
    /\ data = [c \in Cluster |-> [i \in 0 .. ClusterSize - 1 |-> <<0, NotKept>>]]
    /\ win = NoWindow /\ fs = NoFs /\ fil = NoFile
    /\ th = [p \in Thread |-> Idle]
    /\ number = 0 /\ count = 0 /\ sampling = FALSE
    /\ resets = 0
    /\ kept = [n \in File |-> NotKept]

-----------------------------------------------------------------------------
(* The window.  A step that works on sector Need(p) is taken when the       *)
(* window holds it; a dirty window goes to the card first, and the sector   *)
(* number is stored after the sector has been read.                        *)

Need(p) ==
    LET at == th[p].pc IN
    CASE at = "boot" -> Boot
      [] at = "info" -> FSInfo
      [] at \in {"find", "back", "save"} -> Dir
      [] at \in {"follow", "link"} -> FatOf(fil.clust)
      [] at \in {"get", "free", "search", "mark"} -> FatOf(th[p].cl)
      [] at = "scan" -> <<"fat", th[p].cl>>
      [] OTHER -> NoSector

\* The keys outrank the storage thread, which runs while they sleep.
Runs(p) == p = "keys" \/ th["keys"].pc \in {"idle", "pause"}
At(p, pc) == Runs(p) /\ th[p].pc = pc
Here(p, pc) == At(p, pc) /\ ~th[p].loaded /\ win.sect = Need(p)
Goto(p, pc) == th' = [th EXCEPT ![p].pc = pc]
GotoWith(p, pc, c) == th' = [th EXCEPT ![p].pc = pc, ![p].cl = c]
Return(p) == th' = [th EXCEPT ![p] = Idle]

Moves(p) == Runs(p) /\ ~th[p].loaded /\ Need(p) \notin {NoSector, win.sect}

(* Mutated form of SyncWindow: the window is turned without the write.      *)
SyncWindowDropped(p) ==
    /\ Moves(p) /\ win.dirty
    /\ win' = [win EXCEPT !.dirty = FALSE]
    /\ UNCHANGED <<medium, fs, fil, th, session, resets, kept>>

SyncWindow(p) ==
    /\ Moves(p) /\ win.dirty
    /\ disk' = [disk EXCEPT ![win.sect] = win.data]
    /\ win' = [win EXCEPT !.dirty = FALSE]
    /\ UNCHANGED <<data, fs, fil, th, session, resets, kept>>

MoveWindow(p) ==
    /\ Moves(p) /\ ~win.dirty
    /\ win' = [win EXCEPT !.data = disk[Need(p)]]
    /\ th' = [th EXCEPT ![p].loaded = TRUE]
    /\ UNCHANGED <<disk, data, fs, fil, session, resets, kept>>

WindowMoved(p) ==
    /\ Runs(p) /\ th[p].loaded
    /\ win' = [win EXCEPT !.sect = Need(p)]
    /\ th' = [th EXCEPT ![p].loaded = FALSE]
    /\ UNCHANGED <<disk, data, fs, fil, session, resets, kept>>

\* Sector d with v in field k, which is foreign to it if it is another sector.
Store(d, k, v) == [f \in DOMAIN d \union {k} |-> IF f = k THEN v ELSE d[f]]
Put(k, v) == win' = [win EXCEPT !.data = Store(@, k, v), !.dirty = TRUE]
\* What get_fat finds; a window with another sector gives any value.
Found(k) == IF k \in DOMAIN win.data THEN {win.data[k]} ELSE 0 .. EOC
EntryOf(n) == IF Entry(n) \in DOMAIN win.data THEN win.data[Entry(n)] ELSE Absent
IsCluster(v) == v \in Cluster

-----------------------------------------------------------------------------
(* f_mount and f_open(FA_CREATE_ALWAYS | FA_WRITE), which cuts an existing  *)
(* file and gives its chain back.                                          *)

Mount(p) ==
    /\ fs' = [fs EXCEPT !.mounted = FALSE]
    /\ win' = [win EXCEPT !.sect = NoSector, !.dirty = FALSE]
    /\ Goto(p, "boot")

BootRead(p) ==
    /\ Here(p, "boot") /\ Goto(p, "info")
    /\ UNCHANGED <<medium, win, fs, fil, session, resets, kept>>

Mounted(p) ==
    LET valid == {Free, Next_Free} \subseteq DOMAIN win.data IN
    /\ Here(p, "info")
    /\ fs' = [mounted |-> TRUE, info |-> FALSE,
              free |-> IF valid THEN win.data[Free] ELSE Unknown,
              next |-> IF valid THEN win.data[Next_Free] ELSE Unknown]
    /\ th' = [th EXCEPT ![p].pc = "find", ![p].name = number]
    /\ UNCHANGED <<medium, win, fil, session, resets, kept>>

\* fil after f_open, from the directory entry in the window.
Opened(p, e) == [NoFile EXCEPT !.open = TRUE, !.modified = TRUE,
                    !.name = th[p].name, !.sclust = e.clust, !.size = e.size,
                    !.checked = (p = "storage")]

Find(p) ==
    LET n == th[p].name
        old == EntryOf(n).clust
    IN
    /\ Here(p, "find")
    /\ Put(Entry(n), [used |-> TRUE, clust |-> 0, size |-> 0])
    /\ kept' = [kept EXCEPT ![n] = NotKept]
    /\ \/ /\ old # 0
          /\ th' = [th EXCEPT ![p].pc = "get", ![p].cl = old, ![p].scl = old]
          /\ UNCHANGED fil
       \/ old = 0 /\ fil' = Opened(p, Absent) /\ Return(p)
    /\ UNCHANGED <<medium, fs, session, resets>>

\* remove_chain: get_fat, then put_fat, of each cluster of the chain.
GetLink(p) ==
    /\ Here(p, "get")
    /\ \E v \in Found(Link(th[p].cl)) :
         \/ v = 0 /\ Goto(p, "back") /\ UNCHANGED fil
         \/ v = 1 /\ Return(p) /\ fil' = NoFile
         \/ /\ v >= 2 /\ UNCHANGED fil
            /\ th' = [th EXCEPT ![p].pc = "free", ![p].left = v]
    /\ UNCHANGED <<medium, win, fs, session, resets, kept>>

(* Mutated form of FreeCluster: free_clst is not capped.                    *)
FreeClusterUncapped(p) ==
    LET next == th[p].left IN
    /\ Here(p, "free")
    /\ Put(Link(th[p].cl), 0)
    /\ fs' = [fs EXCEPT !.free = @ + 1, !.info = TRUE]
    /\ GotoWith(p, IF IsCluster(next) THEN "get" ELSE "back", next)
    /\ UNCHANGED <<medium, fil, session, resets, kept>>

FreeCluster(p) ==
    LET next == th[p].left IN
    /\ Here(p, "free")
    /\ Put(Link(th[p].cl), 0)
    /\ fs' = IF fs.free < Last - 1 THEN [fs EXCEPT !.free = @ + 1, !.info = TRUE]
                                   ELSE fs
    /\ GotoWith(p, IF IsCluster(next) THEN "get" ELSE "back", next)
    /\ UNCHANGED <<medium, fil, session, resets, kept>>

BackToEntry(p) ==
    /\ Here(p, "back")
    /\ fs' = [fs EXCEPT !.next = th[p].scl - 1]
    /\ fil' = Opened(p, EntryOf(th[p].name))
    /\ Return(p)
    /\ UNCHANGED <<medium, win, session, resets, kept>>

-----------------------------------------------------------------------------
(* f_write of one buffer, called by the storage thread.                     *)

Valid == fil.open /\ fs.mounted

\* Where f_write goes with left sectors to write at offset size.
Onward(size, left) ==
    CASE left = 0 -> "written"
      [] left # 0 /\ size % ClusterSize # 0 -> "data"
      [] left # 0 /\ size = 0 -> "new"
      [] OTHER -> "follow"

Write ==
    /\ At("storage", "idle") /\ th["keys"].pc = "idle" /\ sampling
    /\ count + 1 = WriteNum => number < MaxFile         \* bound
    /\ th' = [th EXCEPT !["storage"] =
                IF Valid /\ ~fil.err
                THEN [Idle EXCEPT !.pc = Onward(fil.size, Buffer), !.left = Buffer]
                ELSE [Idle EXCEPT !.pc = "refused"]]
    /\ UNCHANGED <<medium, win, fs, fil, session, resets, kept>>

\* create_chain looks for a free cluster after scl, or after last_clst.
SearchFrom(scl) ==
    th' = [th EXCEPT !["storage"].pc = "search", !["storage"].scl = scl,
                     !["storage"].cl = IF scl < Last THEN scl + 1 ELSE 2]

NewChain ==
    /\ At("storage", "new")
    /\ SearchFrom(IF fs.next = 0 \/ fs.next > Last THEN 1 ELSE fs.next)
    /\ UNCHANGED <<medium, win, fs, fil, session, resets, kept>>

Abort == fil' = [fil EXCEPT !.err = TRUE] /\ Goto("storage", "refused")

Follow ==
    /\ Here("storage", "follow")
    /\ \E v \in Found(Link(fil.clust)) :
         \/ v < 2 /\ Abort
         \/ /\ IsCluster(v)
            /\ fil' = [fil EXCEPT !.clust = v] /\ Goto("storage", "data")
         \/ v > Last /\ SearchFrom(fil.clust) /\ UNCHANGED fil
    /\ UNCHANGED <<medium, win, fs, session, resets, kept>>

\* No free cluster: f_write returns FR_OK with fewer bytes written.
DiskFull == Goto("storage", "written")

Search ==
    LET c == th["storage"].cl
        scl == th["storage"].scl
    IN
    /\ Here("storage", "search")
    /\ \E v \in Found(Link(c)) :
         \/ v = 0 /\ Goto("storage", "mark") /\ UNCHANGED fil
         \/ v = 1 /\ Abort
         \/ /\ v >= 2 /\ UNCHANGED fil
            /\ \/ (c = scl \/ (c = Last /\ scl = 1)) /\ DiskFull
               \/ /\ c # scl /\ ~(c = Last /\ scl = 1)
                  /\ GotoWith("storage", "search", IF c < Last THEN c + 1 ELSE 2)
    /\ UNCHANGED <<medium, win, fs, session, resets, kept>>

(* Mutated form of Chained: fsi_flag is not set.                            *)
ChainedNoFlag(c) ==
    /\ fs' = [fs EXCEPT !.next = c,
                 !.free = CASE @ = 0 -> Unknown [] @ = Unknown -> @ [] OTHER -> @ - 1]
    /\ fil' = [fil EXCEPT !.clust = c, !.sclust = IF @ = 0 THEN c ELSE @]
    /\ Goto("storage", "data")

\* The end of create_chain; free_clst-- is on a DWORD.
Chained(c) ==
    /\ fs' = [fs EXCEPT !.next = c, !.info = TRUE,
                 !.free = CASE @ = 0 -> Unknown [] @ = Unknown -> @ [] OTHER -> @ - 1]
    /\ fil' = [fil EXCEPT !.clust = c, !.sclust = IF @ = 0 THEN c ELSE @]
    /\ Goto("storage", "data")

Mark ==
    LET c == th["storage"].cl IN
    /\ Here("storage", "mark")
    /\ Put(Link(c), EOC)
    /\ \/ fil.size = 0 /\ Chained(c)
       \/ fil.size # 0 /\ Goto("storage", "link") /\ UNCHANGED <<fs, fil>>
    /\ UNCHANGED <<medium, session, resets, kept>>

LinkCluster ==
    /\ Here("storage", "link")
    /\ Put(Link(fil.clust), th["storage"].cl)
    /\ Chained(th["storage"].cl)
    /\ UNCHANGED <<medium, session, resets, kept>>

\* disk_write of the sectors that fit in the cluster.
WriteData ==
    LET first == fil.size % ClusterSize
        left == th["storage"].left
        room == ClusterSize - first
        cc == IF left < room THEN left ELSE room
    IN
    /\ At("storage", "data")
    /\ data' = [data EXCEPT ![fil.clust] =
                  [i \in 0 .. ClusterSize - 1 |->
                     IF i >= first /\ i < first + cc
                     THEN <<fil.name, fil.size + i - first>> ELSE @[i]]]
    /\ fil' = [fil EXCEPT !.size = @ + cc]
    /\ th' = [th EXCEPT !["storage"].left = left - cc,
                        !["storage"].pc = Onward(fil.size + cc, left - cc)]
    /\ UNCHANGED <<disk, win, fs, session, resets, kept>>

\* f_write has returned; after WriteNum calls the file is closed.
Written ==
    /\ At("storage", "written") \/ At("storage", "refused")
    /\ fil' = [fil EXCEPT !.modified = @ \/ th["storage"].pc = "written"]
    /\ \/ count + 1 # WriteNum /\ count' = count + 1 /\ Return("storage")
       \/ count + 1 = WriteNum /\ count' = 0 /\ Goto("storage", "close")
    /\ UNCHANGED <<medium, win, fs, number, sampling, resets, kept>>

-----------------------------------------------------------------------------
(* f_close, and what its two callers do next.                               *)

\* key2 tries once more, 100 ms after a close that failed.
AfterClose(p, failed) ==
    CASE p = "keys" /\ failed /\ ~th[p].low -> "pause"
      [] p = "keys" /\ (~failed \/ th[p].low) -> "unmount"
      [] p = "storage" /\ th[p].low -> "unmount"
      [] OTHER -> "getfree"

Close(p) ==
    /\ At(p, "close")
    /\ Goto(p, IF ~Valid THEN AfterClose(p, TRUE)
               ELSE IF fil.modified THEN "save" ELSE "closed")
    /\ UNCHANGED <<medium, win, fs, fil, session, resets, kept>>

CloseAgain ==
    /\ At("keys", "pause")
    /\ th' = [th EXCEPT !["keys"].pc = "close", !["keys"].low = TRUE]
    /\ UNCHANGED <<medium, win, fs, fil, session, resets, kept>>

\* f_sync: the entry, then the window, then FSInfo through the window.
SaveEntry(p) ==
    /\ Here(p, "save")
    /\ Put(Entry(fil.name), [used |-> TRUE, clust |-> fil.sclust, size |-> fil.size])
    /\ Goto(p, "sync")
    /\ UNCHANGED <<medium, fs, fil, session, resets, kept>>

(* Mutated form of SyncEntry: sync_fs turns the window to FSInfo while it   *)
(* still holds the entry.                                                  *)
SyncEntryLost(p) ==
    /\ At(p, "sync")
    /\ win' = [win EXCEPT !.dirty = FALSE]
    /\ Goto(p, "fsinfo")
    /\ UNCHANGED <<disk, data, fs, fil, session, resets, kept>>

SyncEntry(p) ==
    /\ At(p, "sync")
    /\ disk' = IF win.dirty THEN [disk EXCEPT ![win.sect] = win.data] ELSE disk
    /\ win' = [win EXCEPT !.dirty = FALSE]
    /\ Goto(p, "fsinfo")
    /\ UNCHANGED <<data, fs, fil, session, resets, kept>>

SyncInfo(p) ==
    LET info == [f \in {Free, Next_Free} |-> IF f = Free THEN fs.free ELSE fs.next] IN
    /\ At(p, "fsinfo")
    /\ \/ /\ fs.info
          /\ win' = [win EXCEPT !.sect = FSInfo, !.data = info]
          /\ disk' = [disk EXCEPT ![FSInfo] = info]
          /\ fs' = [fs EXCEPT !.info = FALSE]
       \/ ~fs.info /\ UNCHANGED <<win, disk, fs>>
    /\ fil' = [fil EXCEPT !.modified = FALSE]
    /\ Goto(p, "closed")
    /\ UNCHANGED <<data, session, resets, kept>>

Closed(p) ==
    /\ At(p, "closed")
    /\ \/ /\ Valid
          /\ fil' = [fil EXCEPT !.open = FALSE]
          /\ kept' = [kept EXCEPT ![fil.name] = fil.size]
       \/ ~Valid /\ UNCHANGED <<fil, kept>>
    /\ Goto(p, AfterClose(p, ~Valid))
    /\ UNCHANGED <<medium, win, fs, session, resets>>

Unmount(p) ==
    /\ At(p, "unmount")
    /\ fs' = [fs EXCEPT !.mounted = FALSE]
    /\ Return(p)
    /\ UNCHANGED <<medium, win, fil, session, resets, kept>>

-----------------------------------------------------------------------------
(* The rotation of files: Fatfa_GetFree_2, then the next file or the end of *)
(* the recording.                                                          *)

Count(n) == th' = [th EXCEPT !["storage"].pc = "decide", !["storage"].left = n]

GetFree ==
    /\ At("storage", "getfree")
    /\ \/ ~fs.mounted /\ Count(0)
       \/ fs.mounted /\ fs.free <= Last - 1 /\ Count(fs.free)
       \/ /\ fs.mounted /\ fs.free > Last - 1
          /\ th' = [th EXCEPT !["storage"].pc = "scan", !["storage"].cl = 0,
                              !["storage"].left = 0]
    /\ UNCHANGED <<medium, win, fs, fil, session, resets, kept>>

\* The full count, one FAT sector after another.
Scan ==
    LET sector == th["storage"].cl
        zeros == Cardinality({k \in DOMAIN win.data : win.data[k] = 0})
        total == th["storage"].left + zeros
    IN
    /\ Here("storage", "scan")
    /\ \/ /\ sector < Last \div PerSector /\ UNCHANGED fs
          /\ th' = [th EXCEPT !["storage"].cl = sector + 1, !["storage"].left = total]
       \/ /\ sector = Last \div PerSector /\ Count(total)
          /\ fs' = [fs EXCEPT !.free = total, !.info = TRUE]
    /\ UNCHANGED <<medium, win, fil, session, resets, kept>>

(* Mutated form of NextFile: any free space will do.                        *)
NextFileUnchecked ==
    /\ At("storage", "decide") /\ th["storage"].left > 0
    /\ number < MaxFile                                  \* bound
    /\ number' = number + 1
    /\ th' = [th EXCEPT !["storage"] =
                [Idle EXCEPT !.pc = "find", !.name = number + 1]]
    /\ UNCHANGED <<medium, win, fs, fil, count, sampling, resets, kept>>

\* 500 MB or more free: the next file.
NextFile ==
    /\ At("storage", "decide") /\ th["storage"].left >= MinFree
    /\ number < MaxFile                                  \* bound
    /\ number' = number + 1
    /\ th' = [th EXCEPT !["storage"] =
                [Idle EXCEPT !.pc = "find", !.name = number + 1]]
    /\ UNCHANGED <<medium, win, fs, fil, count, sampling, resets, kept>>

\* Less: sampling stops, and the file is closed again.
LowSpace ==
    /\ At("storage", "decide") /\ th["storage"].left < MinFree
    /\ sampling' = FALSE
    /\ th' = [th EXCEPT !["storage"] = [Idle EXCEPT !.pc = "close", !.low = TRUE]]
    /\ UNCHANGED <<medium, win, fs, fil, number, count, resets, kept>>

-----------------------------------------------------------------------------
(* The keys and the reset.                                                  *)

KeysMay == /\ th["keys"].pc = "idle"
           /\ Exclusive => th["storage"].pc = "idle"

Start ==
    /\ KeysMay /\ ~sampling /\ number <= MaxFile          \* bound
    /\ sampling' = TRUE
    /\ Mount("keys")
    /\ UNCHANGED <<medium, fil, number, count, resets, kept>>

\* The card is missing, and stays so until the recording stops: f_mount and
\* f_open fail, and key1 starts the sampling all the same.
StartNoCard ==
    /\ KeysMay /\ ~sampling /\ number <= MaxFile          \* bound
    /\ sampling' = TRUE
    /\ fs' = [fs EXCEPT !.mounted = FALSE]
    /\ fil' = [fil EXCEPT !.open = FALSE]
    /\ UNCHANGED <<medium, win, th, number, count, resets, kept>>

Stop ==
    /\ KeysMay /\ sampling
    /\ sampling' = FALSE /\ number' = number + 1
    /\ Goto("keys", "close")
    /\ UNCHANGED <<medium, win, fs, fil, count, resets, kept>>

Reset ==
    /\ resets < MaxResets                                 \* bound
    /\ resets' = resets + 1
    /\ win' = NoWindow /\ fs' = NoFs /\ fil' = NoFile
    /\ th' = [p \in Thread |-> Idle]
    /\ number' = 0 /\ count' = 0 /\ sampling' = FALSE
    /\ UNCHANGED <<medium, kept>>

Window == \E p \in Thread : SyncWindow(p) \/ MoveWindow(p) \/ WindowMoved(p)
Open == \E p \in Thread :
            \/ BootRead(p) \/ Mounted(p) \/ Find(p) \/ GetLink(p)
            \/ FreeCluster(p) \/ BackToEntry(p)
WriteBuffer == \/ Write \/ NewChain \/ Follow \/ Search \/ Mark \/ LinkCluster
               \/ WriteData \/ Written
CloseFile == \/ \E p \in Thread : \/ Close(p) \/ SaveEntry(p) \/ SyncEntry(p)
                                  \/ SyncInfo(p) \/ Closed(p) \/ Unmount(p)
             \/ CloseAgain \/ GetFree \/ Scan \/ NextFile \/ LowSpace

Next == \/ Window \/ Open \/ WriteBuffer \/ CloseFile
        \/ Start \/ StartNoCard \/ Stop \/ Reset

Spec == Init /\ [][Next]_vars

-----------------------------------------------------------------------------
(* The state of the volume as a reader of the card finds it, which is what  *)
(* a reset leaves.                                                         *)

WellFormed == \A s \in Sector : DOMAIN disk[s] = Fields(s)

\* The chain that starts at cluster c: its k-th cluster, or what ends it.
Chain(c) ==
    LET w[k \in 0 .. Last] ==
            IF k = 0 THEN c
            ELSE LET v == w[k - 1] IN
                 IF IsCluster(v) THEN disk[FatOf(v)][Link(v)] ELSE v
    IN w
Ends(w) == w[Last]
ClustersOf(w) == {w[k] : k \in DOMAIN w} \cap Cluster

OnCard(n) == disk[Dir][Entry(n)]

\* The sectors of file n, read from the card as its entry and chain say.
Reads(n) ==
    [i \in 0 .. OnCard(n).size - 1 |->
        LET c == Chain(OnCard(n).clust)[i \div ClusterSize] IN
        IF IsCluster(c) THEN data[c][i % ClusterSize] ELSE <<0, NotKept>>]

\* The FAT with what the window holds of it.
Fat(c) == IF win.sect = FatOf(c) THEN win.data[Link(c)]
                                 ELSE disk[FatOf(c)][Link(c)]

\* The types; the window is dirty with a FAT or directory sector only, and the
\* count of free clusters stays within what FatFs takes for known or unknown.
TypeOK ==
    /\ DOMAIN disk = Sector /\ DOMAIN data = Cluster
    /\ win.sect \in Sector \union {NoSector}
    /\ win.dirty => win.sect \in FatSectors \union {Dir}
    /\ fs.free \in 0 .. Unknown /\ fs.next \in 0 .. Unknown
    /\ fil.clust \in Cluster \union {0} /\ fil.sclust \in Cluster \union {0}
    /\ fil.size \in 0 .. WriteNum * Buffer
    /\ \A p \in Thread : th[p].loaded => Need(p) # NoSector
    /\ number \in 0 .. MaxFile + 1 /\ count \in 0 .. WriteNum - 1
    /\ kept \in [File -> NotKept .. WriteNum * Buffer]

\* On the card, at every moment: the chain of every file ends, is long enough
\* for the file's size, and shares no cluster with another's (put_fat,
\* move_window, f_sync).
ChainsSound ==
    /\ WellFormed
    /\ \A n \in File :
         LET w == Chain(OnCard(n).clust) IN
         OnCard(n).clust # 0 =>
            /\ Ends(w) = EOC
            /\ Cardinality(ClustersOf(w)) * ClusterSize >= OnCard(n).size
            /\ ClustersOf(w) \cap Taken = {}
            /\ \A m \in File \ {n} :
                 ClustersOf(w) \cap ClustersOf(Chain(OnCard(m).clust)) = {}

\* A file whose f_close returned FR_OK is on the card with the size and the
\* sectors written to it, whatever happens later, until it is created again:
\* a reset loses the file that was open, and no other.
ClosedFilesReadable ==
    WellFormed => \A n \in File :
        kept[n] # NotKept =>
            /\ OnCard(n).size = kept[n]
            /\ \A i \in 0 .. kept[n] - 1 : Reads(n)[i] = <<n, i>>

\* With no call in progress the cached free_clst, when known, is the number of
\* free entries of the FAT, unless a reset left FSInfo behind the FAT.
FreeCountTrue ==
    (/\ fs.mounted /\ fs.free # Unknown /\ resets = 0
     /\ \A p \in Thread : th[p].pc = "idle") =>
        fs.free = Cardinality({c \in Cluster : Fat(c) = 0})

\* A file that was opened after the free space was checked is never cut short
\* by a full card, unless a reset made the count stale (hdas_thread.c:293).
CheckedFileFits ==
    (fil.open /\ fil.checked /\ resets = 0 /\ th["storage"].pc = "idle") =>
        fil.size = count * Buffer

-----------------------------------------------------------------------------
(* The store of files that the volume is to its callers.                    *)

Stored(n) == [kept |-> kept[n] # NotKept,
              sectors |-> IF kept[n] = NotKept THEN <<>> ELSE Reads(n)]
OpenFile == [open |-> fil.open, name |-> IF fil.open THEN fil.name ELSE 0,
             size |-> IF fil.open THEN fil.size ELSE 0]

Files == INSTANCE FileStore WITH Chunk <- ClusterSize, open <- OpenFile,
                                 stored <- [n \in File |-> Stored(n)]

\* Every step is a step of a store of files, or none: a file begins empty, grows
\* at its end and is what the card has of it from f_close on, through every
\* later file and reset, until f_open creates it again (ff.c f_open .. f_close).
IsFileStore == Files!Spec
=============================================================================

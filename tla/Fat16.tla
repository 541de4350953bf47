------------------------------- MODULE Fat16 --------------------------------
(***************************************************************************)
(* The FAT16 driver (fs/fat/fat16.c): the allocation table, the root       *)
(* directory with its copy in memory, and the open descriptors, each with  *)
(* a private copy of its directory entry.  A call is a sequence of steps,  *)
(* one per write to the drive: the drive may refuse any of them, and any   *)
(* read of a file's cells, and the machine may stop between any two and    *)
(* mount the volume again.  The kernel serves one call at a time.          *)
(*                                                                         *)
(* Sizes and positions count cells, ClusterSize of them in a cluster;      *)
(* what the cells hold is not modelled, only which clusters are whose.     *)
(* The second copy of the table is written but never read: it is left out, *)
(* except that a refusal to write it is an error after the table changed.  *)
(* Reads of the table and of the directory do not fail.  Subdirectories    *)
(* are left out.  Writes of table and directory entries are exact:         *)
(* Streamer shows what a write at the edge of a sector does, so a volume   *)
(* of the model has its entries inside of one sector (clusters 2 to 254,   *)
(* slots 1 to 14).                                                         *)
(***************************************************************************)
EXTENDS Integers, FiniteSets

CONSTANTS
    Fds,           \* the descriptors
    NoFd,          \* no descriptor: no call is under way
    Slots,         \* indices of the root directory
    Names,         \* the names that files are opened with
    ShortName,     \* name -> what fat16_create_file_in_root stores for it
    Unused,        \* first byte of a name 0x00: the directory ends here
    Deleted,       \* first byte of a name 0xE5
    TotalClusters, \* total_sectors / sectors_per_cluster
    LastCluster,   \* the last cluster that lies inside of the volume
    ClusterSize,   \* cells in a cluster
    MountFat,      \* the table and the directory of the volume as it is
    MountDir,      \* first mounted
    Modes,         \* the modes that programs open files in
    WriteSizes,    \* the lengths of writes
    ReadSizes,     \* the lengths of reads
    MaxPos,        \* bound on positions that SEEK_CUR reaches
    DriveFails     \* whether the drive may refuse a write

Clusters == 2 .. TotalClusters - 1
Free == 0                     \* VIOS_FAT16_UNUSED
EndOfChain == -1              \* 0xFFF8 and above
NoCluster == 0                \* the first cluster of an empty file
BadCluster == -2              \* an error code stored as a cluster number
Links == Clusters \cup {Free, EndOfChain}

Items == [name : Names \cup {Unused, Deleted},
          cluster : Clusters \cup {NoCluster, BadCluster}, size : Nat, ro : BOOLEAN]

VARIABLES
    fat,   \* the file allocation table
    dir,   \* the root directory on the drive
    root,  \* the names in fat_private.root_directory
    slot,  \* fat_file_descriptor: where the entry is; 0 if it is not open
    item,  \* fat_file_descriptor: its copy of the entry
    pos,   \* fat_file_descriptor: its position
    cut,   \* history: slots whose entry on the drive names freed clusters
    stale, \* history: descriptors whose copy names freed clusters
    spoiled,  \* history: see Reuses and LinkFails
    pc,    \* where the call under way is
    op,    \* "read" or "write"
    me,    \* its descriptor
    cl,    \* the cluster it is at
    ahead, \* the clusters it has yet to walk
    done,  \* the cells it has transferred
    total, \* the cells it is to transfer
    new    \* the cluster it has allocated and not yet linked

volume == <<fat, dir>>
call == <<op, me, cl, ahead, done, total, new>>
desc == <<slot, item, pos>>
history == <<cut, stale, spoiled>>
vars == <<volume, root, desc, history, pc, call>>

Entry(name, cluster, size, ro) ==
    [name |-> name, cluster |-> cluster, size |-> size, ro |-> ro]
NoItem == Entry(Unused, NoCluster, 0, FALSE)
IsOpen(d) == slot[d] # 0

-----------------------------------------------------------------------------
(* What a table and a directory must be for the files to be apart: every   *)
(* link leads to a cluster in use and no two lead to the same one, files   *)
(* begin with a cluster in use that no link leads to, and no two files     *)
(* begin with the same one.  Then the chains of two files never meet, and  *)
(* none runs in a circle.                                                  *)
ChainsApart(f) ==
    /\ \A c \in Clusters : f[c] \in Clusters => f[f[c]] # Free
    /\ \A c, e \in Clusters : f[c] \in Clusters /\ f[c] = f[e] => c = e

IsHead(f, h) == h \in Clusters /\ f[h] # Free /\ \A c \in Clusters : f[c] # h

HasFile(d, s) == d[s].name \notin {Unused, Deleted} /\ d[s].cluster # NoCluster

HeadsApart(f, d, S) ==
    /\ \A s \in S : HasFile(d, s) => IsHead(f, d[s].cluster)
    /\ \A s, t \in S :
          HasFile(d, s) /\ HasFile(d, t) /\ d[s].cluster = d[t].cluster => s = t

(* The clusters that a walk of k links from cluster h visits, if the chain *)
(* is that long.                                                           *)
Runs(f, h, k) ==
    {p \in [0 .. k -> Clusters] : p[0] = h /\ \A i \in 1 .. k : f[p[i - 1]] = p[i]}

(* The links to walk from the first cell of a file to its last. *)
LinksFor(size) == (size - 1) \div ClusterSize

Covered(f, i) == i.size > 0 => Runs(f, i.cluster, LinksFor(i.size)) # {}

(* A deleted or unused entry may hold an old cluster and size; none must   *)
(* be there to come back when the write of the entry that replaces it is   *)
(* refused.                                                                *)
ASSUME Fat16Assumption ==
    /\ Slots \subseteq Nat \ {0}
    /\ TotalClusters \in Nat /\ LastCluster \in Nat
    /\ ClusterSize \in Nat \ {0} /\ MaxPos \in Nat
    /\ WriteSizes \subseteq Nat \ {0} /\ ReadSizes \subseteq Nat \ {0}
    /\ Unused \notin Names /\ Deleted \notin Names /\ Unused # Deleted
    /\ NoFd \notin Fds
    /\ ShortName \in [Names -> Names]
    /\ Modes \subseteq {"r", "w", "a"}
    /\ DriveFails \in BOOLEAN
    /\ MountFat \in [Clusters -> Links]
    /\ MountDir \in [Slots -> Items]
    /\ \A s \in Slots : MountDir[s].cluster # BadCluster
    /\ ChainsApart(MountFat)
    /\ HeadsApart(MountFat, MountDir, Slots)
    /\ DriveFails => \A s \in Slots :
          MountDir[s].name \in {Unused, Deleted} =>
              MountDir[s].cluster = NoCluster /\ MountDir[s].size = 0
    /\ \A s \in Slots : MountDir[s].name \in Names => Covered(MountFat, MountDir[s])

-----------------------------------------------------------------------------
(* A call returns: what it kept on the stack is gone. *)
NoCall ==
    /\ pc = "idle" /\ op = "read" /\ me = NoFd
    /\ cl = NoCluster /\ ahead = 0 /\ done = 0 /\ total = 0 /\ new = NoCluster

Return ==
    /\ pc' = "idle" /\ op' = "read" /\ me' = NoFd
    /\ cl' = NoCluster /\ ahead' = 0 /\ done' = 0 /\ total' = 0 /\ new' = NoCluster

(* fat16_resolve: nothing is open, and the names are read from the drive.  *)
Mounted(d) ==
    /\ root' = [s \in Slots |-> d[s].name]
    /\ slot' = [x \in Fds |-> 0]
    /\ item' = [x \in Fds |-> NoItem]
    /\ pos' = [x \in Fds |-> 0]
    /\ Return

Init ==
    /\ fat = MountFat /\ dir = MountDir
    /\ root = [s \in Slots |-> MountDir[s].name]
    /\ slot = [x \in Fds |-> 0]
    /\ item = [x \in Fds |-> NoItem]
    /\ pos = [x \in Fds |-> 0]
    /\ cut = {} /\ stale = {} /\ spoiled = FALSE
    /\ NoCall

(* The machine stops, in a call or between calls, and starts again.  The   *)
(* entry of a file that was truncated and not rewritten stays as it was.   *)
Crash ==
    /\ Mounted(dir)
    /\ stale' = {}
    /\ UNCHANGED <<volume, cut, spoiled>>

(* fat16_find_item_in_directory: the slot of a name, in the cached         *)
(* directory, which ends at the first unused entry.                        *)
FindItem(n) ==
    {s \in Slots : /\ root[s] = n
                   /\ \A t \in Slots : t < s => root[t] \notin {n, Unused}}

(* The first slot of the cached directory that can hold a new entry. *)
FreeSlot ==
    {s \in Slots : /\ root[s] \in {Unused, Deleted}
                   /\ \A t \in Slots : t < s => root[t] \notin {Unused, Deleted}}

(* The entry of a slot is read again from the drive. *)
FreshItem(s) == dir[s]

(* The descriptor that fat16_open or fat16_close leaves. *)
Descriptor(d, s, i, p) ==
    /\ slot' = [slot EXCEPT ![d] = s]
    /\ item' = [item EXCEPT ![d] = i]
    /\ pos' = [pos EXCEPT ![d] = p]

(* A copy of an entry that names freed clusters names them too. *)
Copies(d, s) == stale' = IF s \in cut THEN stale \cup {d} ELSE stale

(* A truncation through an entry that an earlier one left behind, when the *)
(* clusters have been given to somebody again: it frees them.              *)
Reuses(s) == s \in cut /\ dir[s].cluster \in Clusters /\ fat[dir[s].cluster] # Free

(* fat16_open of a name that exists, for reading or appending. *)
OpenExisting(d, n, mode) ==
    /\ pc = "idle" /\ ~IsOpen(d)
    /\ mode \in {"r", "a"}
    /\ \E s \in FindItem(n) :
          /\ Descriptor(d, s, FreshItem(s), IF mode = "a" THEN FreshItem(s).size ELSE 0)
          /\ Copies(d, s)
    /\ UNCHANGED <<volume, root, cut, spoiled, pc, call>>

(* fat16_open of a name that exists, for writing: fat16_truncate leaves a  *)
(* read-only file alone and frees the clusters of any other.               *)
OpenTruncate(d, n) ==
    /\ pc = "idle" /\ ~IsOpen(d)
    /\ \E s \in FindItem(n) :
          /\ Descriptor(d, s, FreshItem(s), 0)
          /\ IF FreshItem(s).ro
             THEN Copies(d, s) /\ UNCHANGED <<spoiled, pc, call>>
             ELSE /\ spoiled' = (spoiled \/ Reuses(s))
                  /\ pc' = "free" /\ me' = d /\ cl' = FreshItem(s).cluster
                  /\ UNCHANGED <<stale, op, ahead, done, total, new>>
    /\ UNCHANGED <<volume, root, cut>>

(* fat16_open of a name that does not exist, for writing or appending:     *)
(* fat16_create_file_in_root.  Whether the entry reaches the drive is not  *)
(* looked at.                                                              *)
OpenCreate(d, n) ==
    LET created == Entry(ShortName[n], NoCluster, 0, FALSE)
    IN  /\ pc = "idle" /\ ~IsOpen(d)
        /\ FindItem(n) = {}
        /\ \E s \in FreeSlot :
              /\ root' = [root EXCEPT ![s] = ShortName[n]]
              /\ \/ dir' = [dir EXCEPT ![s] = created]
                 \/ DriveFails /\ UNCHANGED dir
              /\ Descriptor(d, s, created, 0)
        /\ UNCHANGED <<fat, history, pc, call>>

fat16_open(d, n, mode) ==
    \/ OpenExisting(d, n, mode)
    \/ mode = "w" /\ OpenTruncate(d, n)
    \/ mode \in {"w", "a"} /\ OpenCreate(d, n)

(* Fault: the descriptor keeps the clusters that were freed. *)
FaultTruncated(i) == Entry(i.name, i.cluster, 0, i.ro)

(* What fat16_truncate leaves in the copy.  The entry on the drive is not  *)
(* written.                                                                *)
Truncated(i) == Entry(i.name, NoCluster, 0, i.ro)

(* The other descriptors whose copy names the clusters that are freed. *)
Sharing == {x \in Fds \ {me} : slot[x] = slot[me] /\ item[x].cluster = dir[slot[me]].cluster}

(* One cluster of fat16_free_cluster_chain. *)
FreeCluster ==
    /\ pc = "free" /\ cl \in Clusters
    /\ fat' = [fat EXCEPT ![cl] = Free]
    /\ cl' = fat[cl]
    /\ cut' = cut \cup {slot[me]} /\ stale' = stale \cup Sharing
    /\ UNCHANGED <<dir, root, desc, spoiled, pc, op, me, ahead, done, total, new>>

(* The end of the chain, or a write that was refused. *)
FreeDone ==
    /\ pc = "free"
    /\ cl \notin Clusters \/ DriveFails
    /\ item' = [item EXCEPT ![me] = Truncated(item[me])]
    /\ pos' = [pos EXCEPT ![me] = 0]
    /\ Return
    /\ UNCHANGED <<volume, root, slot, history>>

fat16_close(d) ==
    /\ pc = "idle" /\ IsOpen(d)
    /\ Descriptor(d, 0, NoItem, 0)
    /\ stale' = stale \ {d}
    /\ UNCHANGED <<volume, root, cut, spoiled, pc, call>>

(* SEEK_SET and SEEK_CUR; only the offset is compared with the size. *)
fat16_seek(d, offset, whence) ==
    /\ pc = "idle" /\ IsOpen(d)
    /\ offset < item[d].size
    /\ LET to == IF whence = "set" THEN offset ELSE pos[d] + offset
       IN  to <= MaxPos /\ pos' = [pos EXCEPT ![d] = to]
    /\ UNCHANGED <<volume, root, slot, item, history, pc, call>>

-----------------------------------------------------------------------------
(* Reads and writes.                                                       *)

(* fat16_get_cluster_for_offset begins at the first cluster of the copy. *)
Locate(d, offset) ==
    /\ pc' = "walk" /\ cl' = item[d].cluster /\ ahead' = offset \div ClusterSize

(* Fault: the length is not cut off at the size. *)
FaultRead(d, n) ==
    /\ pc = "idle" /\ IsOpen(d) /\ pos[d] < item[d].size
    /\ op' = "read" /\ me' = d /\ done' = 0 /\ total' = n
    /\ Locate(d, pos[d])
    /\ UNCHANGED <<volume, root, desc, history, new>>

(* n items of one cell each are asked for. *)
fat16_read(d, n) ==
    /\ pc = "idle" /\ IsOpen(d)
    /\ pos[d] < item[d].size
    /\ LET available == item[d].size - pos[d]
       IN  total' = IF n < available THEN n ELSE available
    /\ op' = "read" /\ me' = d /\ done' = 0
    /\ Locate(d, pos[d])
    /\ UNCHANGED <<volume, root, desc, history, new>>

(* A file without clusters is given one first.  A copy that names freed    *)
(* clusters has the write go into them, whoever they belong to by now.     *)
fat16_write(d, n) ==
    /\ pc = "idle" /\ IsOpen(d)
    /\ ~item[d].ro
    /\ op' = "write" /\ me' = d /\ done' = 0 /\ total' = n
    /\ IF item[d].cluster = NoCluster
       THEN pc' = "mark" /\ cl' = NoCluster /\ ahead' = 0
       ELSE Locate(d, pos[d])
    /\ spoiled' = (spoiled \/ d \in stale)
    /\ UNCHANGED <<volume, root, desc, cut, stale, new>>

(* The call ends with an error: neither position nor size change. *)
Fail ==
    /\ Return
    /\ UNCHANGED <<volume, root, desc, history>>

Walk ==
    /\ pc = "walk" /\ ahead > 0 /\ cl \in Clusters
    /\ fat[cl] \in Clusters
    /\ cl' = fat[cl] /\ ahead' = ahead - 1
    /\ UNCHANGED <<volume, root, desc, history, pc, op, me, done, total, new>>

(* The chain ends before the offset: -EOUTOFRANGE, or -EIO. *)
WalkFails ==
    /\ pc = "walk" /\ ahead > 0 /\ cl \in Clusters
    /\ fat[cl] \notin Clusters
    /\ Fail

InVolume(c) == c \in Clusters /\ c <= LastCluster
Offset == pos[me] + done

ThisCluster ==
    LET room == ClusterSize - (Offset % ClusterSize)
    IN  IF total - done < room THEN total - done ELSE room

(* The part of a read that lies in one cluster; the next part starts from  *)
(* the first cluster again, and the position moves at the end.             *)
ReadData ==
    /\ pc = "walk" /\ ahead = 0 /\ op = "read" /\ InVolume(cl)
    /\ IF done + ThisCluster < total
       THEN /\ done' = done + ThisCluster
            /\ Locate(me, Offset + ThisCluster)
            /\ UNCHANGED <<desc, op, me, total, new>>
       ELSE /\ pos' = [pos EXCEPT ![me] = @ + total]
            /\ Return
            /\ UNCHANGED <<slot, item>>
    /\ UNCHANGED <<volume, root, history>>

(* The part of a write that lies in one cluster. *)
WriteData ==
    /\ pc = "walk" /\ ahead = 0 /\ op = "write" /\ InVolume(cl)
    /\ done' = done + ThisCluster
    /\ IF done + ThisCluster = total THEN pc' = "finish" /\ UNCHANGED cl
       ELSE IF fat[cl] = EndOfChain THEN pc' = "mark" /\ UNCHANGED cl
       ELSE cl' = fat[cl] /\ UNCHANGED pc
    /\ UNCHANGED <<volume, root, desc, history, op, me, ahead, total, new>>

(* The drive refuses, or the cluster is not on the volume.  A write to     *)
(* cluster 0, which follows a cluster that was freed, would go to the root *)
(* directory: the model ends there.                                        *)
DataFails ==
    /\ pc = "walk" /\ ahead = 0
    /\ (cl \in Clusters /\ ~InVolume(cl)) \/ cl = BadCluster \/ DriveFails
    /\ Fail

FreeClusters == {c \in Clusters : fat[c] = Free}

(* fat16_find_free_cluster: the lowest of them. *)
fat16_find_free_cluster == {c \in FreeClusters : \A e \in FreeClusters : c <= e}

(* The first cluster of a file is noted in the copy of its entry. *)
WithCluster(i, c) == Entry(i.name, c, i.size, i.ro)

(* fat16_allocate_cluster: the new cluster ends a chain.                   *)
MarkCluster ==
    /\ pc = "mark"
    /\ \E c \in fat16_find_free_cluster :
          /\ fat' = [fat EXCEPT ![c] = EndOfChain]
          /\ IF cl = NoCluster
             THEN /\ item' = [item EXCEPT ![me] = WithCluster(item[me], c)]
                  /\ pc' = "walk" /\ cl' = c
                  /\ ahead' = pos[me] \div ClusterSize
                  /\ UNCHANGED new
             ELSE new' = c /\ pc' = "link" /\ UNCHANGED <<item, cl, ahead>>
    /\ UNCHANGED <<dir, root, slot, pos, history, op, me, done, total>>

(* No cluster is free, or the write of the table or of its copy is         *)
(* refused.  The error of a first cluster is compared as an unsigned       *)
(* number, so that it is not noticed and becomes the first cluster; the    *)
(* write to it then fails.                                                 *)
MarkFails ==
    /\ pc = "mark"
    /\ \/ FreeClusters = {} /\ UNCHANGED fat
       \/ DriveFails /\ UNCHANGED fat
       \/ DriveFails /\ \E c \in fat16_find_free_cluster : fat' = [fat EXCEPT ![c] = EndOfChain]
    /\ IF cl = NoCluster
       THEN item' = [item EXCEPT ![me] = WithCluster(item[me], BadCluster)]
       ELSE UNCHANGED item
    /\ Return
    /\ UNCHANGED <<dir, root, slot, pos, history>>

(* Fault: the chain is not continued. *)
FaultLinkCluster ==
    /\ pc = "link"
    /\ cl' = new /\ new' = NoCluster /\ pc' = "walk"
    /\ UNCHANGED <<volume, root, desc, history, op, me, ahead, done, total>>

LinkCluster ==
    /\ pc = "link"
    /\ fat' = [fat EXCEPT ![cl] = new]
    /\ cl' = new /\ new' = NoCluster /\ pc' = "walk"
    /\ UNCHANGED <<dir, root, desc, history, op, me, ahead, done, total>>

(* The link is refused, in the table or only in its copy; the new cluster  *)
(* is freed if the drive allows it, also when the table has the link.      *)
LinkFails ==
    /\ pc = "link" /\ DriveFails
    /\ \E linked, freed \in BOOLEAN :
          /\ spoiled' = (spoiled \/ (linked /\ freed))
          /\ fat' = [c \in Clusters |-> IF freed /\ c = new THEN Free
                                        ELSE IF linked /\ c = cl THEN new ELSE fat[c]]
    /\ Return
    /\ UNCHANGED <<dir, root, desc, cut, stale>>

(* fat16_extend_file: the copy of the entry, with the new size. *)
Extended(i, size) == Entry(i.name, i.cluster, size, i.ro)

(* Fault: the offset in the sector of the directory is lost. *)
FaultEntrySlot(d) == CHOOSE s \in Slots : \A t \in Slots : s <= t

(* Where the entry is on the drive: directory_sector, directory_offset. *)
EntrySlot(d) == slot[d]

(* The position moves; if it passes the size, the entry is written, and    *)
(* nobody looks at whether the drive took it.                              *)
FinishWrite ==
    /\ pc = "finish"
    /\ LET to == pos[me] + total
           s == EntrySlot(me)
           i == Extended(item[me], to)
       IN  /\ pos' = [pos EXCEPT ![me] = to]
           /\ IF to > item[me].size
              THEN /\ item' = [item EXCEPT ![me] = i]
                   /\ \/ dir' = [dir EXCEPT ![s] = i] /\ cut' = cut \ {s}
                      \/ DriveFails /\ UNCHANGED <<dir, cut>>
              ELSE UNCHANGED <<item, dir, cut>>
    /\ Return
    /\ UNCHANGED <<fat, root, slot, stale, spoiled>>

Next ==
    \/ Crash
    \/ \E d \in Fds :
          \/ \E n \in Names, mode \in Modes : fat16_open(d, n, mode)
          \/ fat16_close(d)
          \/ \E offset \in 0 .. MaxPos, whence \in {"set", "cur"} :
                fat16_seek(d, offset, whence)
          \/ \E n \in ReadSizes : fat16_read(d, n)
          \/ \E n \in WriteSizes : fat16_write(d, n)
    \/ FreeCluster \/ FreeDone
    \/ Walk \/ WalkFails
    \/ ReadData \/ WriteData \/ DataFails
    \/ MarkCluster \/ MarkFails
    \/ LinkCluster \/ LinkFails
    \/ FinishWrite

Spec == Init /\ [][Next]_vars

-----------------------------------------------------------------------------
(* Properties.                                                             *)

TypeOK ==
    /\ fat \in [Clusters -> Links]
    /\ dir \in [Slots -> Items]
    /\ root \in [Slots -> Names \cup {Unused, Deleted}]
    /\ slot \in [Fds -> Slots \cup {0}]
    /\ item \in [Fds -> Items] /\ pos \in [Fds -> Nat]
    /\ cut \subseteq Slots /\ stale \subseteq Fds /\ spoiled \in BOOLEAN
    /\ pc \in {"idle", "free", "walk", "mark", "link", "finish"}
    /\ op \in {"read", "write"} /\ me \in Fds \cup {NoFd}
    /\ cl \in Links \cup {BadCluster} /\ ahead \in Nat
    /\ total \in Nat /\ done \in 0 .. total /\ new \in Clusters \cup {NoCluster}

(* Two things of this driver damage a volume.  fat16_truncate frees the    *)
(* clusters and leaves the entry on the drive as it was (fat16.c:1239),    *)
(* although the file is to be truncated "to 0 bytes" (fat16.c:788): until  *)
(* the next write extends the file, its slot is in cut.  And a link of     *)
(* which only the copy was refused stays, while its cluster is freed       *)
(* (fat16.c:1011).  The volume is spoiled by the latter, and by a write or *)
(* a truncation that goes through an entry of cut, or a copy of one.       *)

(* Until the volume is spoiled, after any crash, close or refusal in the   *)
(* middle of a call, the table is a set of chains that do not meet, and    *)
(* every file begins a chain of its own, except one whose entry a          *)
(* truncation left naming freed clusters: whoever is given those clusters  *)
(* meanwhile, the damage stays with that entry.                            *)
FilesApart == ~spoiled => ChainsApart(fat) /\ HeadsApart(fat, dir, Slots \ cut)

(* A read of what lies inside the size of a file does not leave its chain, *)
(* although other descriptors, each with its own copy of the entry, have   *)
(* written to the same file meanwhile; unless one of them has truncated    *)
(* it.                                                                     *)
ReadStaysInFile ==
    op = "read" /\ pc = "walk" /\ me \notin stale /\ ~spoiled =>
        cl \in Clusters /\ (ahead > 0 => fat[cl] \in Clusters)

(* Until the volume is spoiled every file of the directory has the         *)
(* clusters that its size needs, each of them once, so that it can be read *)
(* from its first cell to its last after a remount: wherever the machine   *)
(* stopped or the drive refused, except between a truncation and the next  *)
(* write to the same file.                                                 *)
SizeCovered ==
    ~spoiled =>
        \A s \in Slots \ cut :
            dir[s].name \in Names /\ dir[s].size > 0 =>
                \E p \in Runs(fat, dir[s].cluster, LinksFor(dir[s].size)) :
                    \A i, j \in DOMAIN p : p[i] = p[j] => i = j

(* The clusters of a file: those in every set that holds its first one and *)
(* follows the links.                                                      *)
FollowsLinks(f, S) == \A c \in S : f[c] \in Clusters => f[c] \in S
Chain(f, h) == {c \in Clusters : \A S \in SUBSET Clusters : h \in S /\ FollowsLinks(f, S) => c \in S}

(* A call on one file leaves the entries of all others, and the chains     *)
(* that hang from them, as they are, also when clusters change hands that  *)
(* a truncation freed; nothing changes a read-only file.                   *)
OthersUntouched ==
    [][~spoiled' => \A s \in Slots :
          dir[s].name \in Names =>
              \/ /\ dir'[s] = dir[s]
                 /\ HasFile(dir, s) /\ s \notin cut =>
                        \A c \in Chain(fat, dir[s].cluster) : fat'[c] = fat[c]
              \/ \E d \in Fds : slot[d] = s /\ ~dir[s].ro /\ me = d
      ]_vars

=============================================================================

---------------------------- MODULE Fat16Proofs -----------------------------
(***************************************************************************)
(* Files stay apart, for every volume, number of descriptors and length of *)
(* write, under crashes and refused writes, until a step is taken that     *)
(* spoils the volume (see Fat16).                                          *)
(*                                                                         *)
(* FilesApart is not inductive: what a descriptor holds in its copy of an  *)
(* entry becomes the entry at the next write, so that the copies must be   *)
(* apart as well, and so must a cluster that a call has allocated and not  *)
(* yet linked, and the rest of a chain that is being freed.  An entry or a *)
(* copy that names freed clusters claims nothing.                          *)
(*                                                                         *)
(* Two more invariants stand on that one.  LengthInv: every size that is   *)
(* recorded anywhere, on the drive or in a descriptor, has a path of as    *)
(* many different clusters, and a walk is on that path; reads stay in      *)
(* their file and sizes stay covered.  IsolationInv: whoever changes a     *)
(* chain holds a descriptor of its file that may write; the other files    *)
(* stay as they are.                                                       *)
(***************************************************************************)
EXTENDS Fat16, WellFoundedInduction, TLAPS

(* The entries that an open can come across: after a refused write also    *)
(* one whose name is not on the drive.                                     *)
Tracked == IF DriveFails THEN Slots ELSE {s \in Slots : root[s] \in Names}

Freeing(d) == pc = "free" /\ me = d

(* The file of slot s holds the chain that begins with h: by its entry on  *)
(* the drive or by the copy of a descriptor.                               *)
Claims(s, h) ==
    \/ s \in Tracked /\ s \notin cut /\ dir[s].cluster = h
    \/ \E d \in Fds \ stale : ~Freeing(d) /\ slot[d] = s /\ item[d].cluster = h

(* Who claims a chain has its head, and no two files claim the same. *)
ClaimsApart ==
    /\ \A s \in Slots, h \in Clusters : Claims(s, h) => IsHead(fat, h)
    /\ \A s, t \in Slots, h \in Clusters : Claims(s, h) /\ Claims(t, h) => s = t

Unclaimed(h) == IsHead(fat, h) /\ \A s \in Slots : ~Claims(s, h)

(* The chain that is being freed: if anybody claims it, it is the file     *)
(* that is truncated, and its first cluster has not been freed yet.        *)
OnlyMine(h) ==
    /\ IsHead(fat, h)
    /\ \A s \in Slots : Claims(s, h) => s = slot[me] /\ h = dir[s].cluster

(* The call under way is a write. *)
Writing == pc \in {"mark", "link", "finish"} \/ (pc = "walk" /\ op = "write")

(* What a call under way may rely on. *)
CallSound ==
    /\ pc # "idle" => me \in Fds /\ IsOpen(me)
    /\ Writing => me \notin stale
    /\ pc = "free" /\ cl \in Clusters => fat[cl] = Free \/ OnlyMine(cl)
    /\ pc = "mark" => cl = NoCluster \/ (cl \in Clusters /\ fat[cl] = EndOfChain)
    /\ pc = "link" => cl \in Clusters /\ new \in Clusters /\ cl # new /\ Unclaimed(new)
    /\ pc \in {"walk", "mark", "link", "finish"} /\ cl # BadCluster
          => item[me].cluster # BadCluster
    /\ pc = "finish" => cl # BadCluster

(* How the entries on the drive and the cached names belong together. *)
EntriesSound ==
    /\ \A s \in Slots : dir[s].cluster # BadCluster
    /\ \A s \in Slots : dir[s].name \in Names => root[s] \in Names
    /\ \A d \in Fds : IsOpen(d) => root[slot[d]] \in Names
    /\ \A d \in stale : IsOpen(d)

FatInv ==
    /\ TypeOK
    /\ ChainsApart(fat)
    /\ ClaimsApart
    /\ CallSound
    /\ EntriesSound

-----------------------------------------------------------------------------
(* The three changes that the driver makes to the table.                   *)

(* Facts about division that the provers do not find by themselves. *)
LEMMA ClusterOffsets ==
    \A a \in Nat : a \div ClusterSize \in Nat /\ a % ClusterSize \in 0 .. ClusterSize - 1
  BY Fat16Assumption

(* Marking a free cluster makes it the head of a chain of its own. *)
LEMMA MarkFree ==
    ASSUME NEW f \in [Clusters -> Links], ChainsApart(f),
           NEW c \in Clusters, f[c] = Free
    PROVE  LET g == [f EXCEPT ![c] = EndOfChain]
           IN  /\ ChainsApart(g)
               /\ IsHead(g, c)
               /\ \A h : IsHead(f, h) => h # c /\ IsHead(g, h)
  BY DEF ChainsApart, IsHead, Clusters, Links, Free, EndOfChain

(* Linking a head behind another cluster: it is a head no more, and all    *)
(* other heads stay.                                                       *)
LEMMA LinkHead ==
    ASSUME NEW f \in [Clusters -> Links], ChainsApart(f),
           NEW p \in Clusters, NEW n, IsHead(f, n), p # n
    PROVE  LET g == [f EXCEPT ![p] = n]
           IN  /\ ChainsApart(g)
               /\ \A h : IsHead(f, h) /\ h # n => IsHead(g, h)
  BY DEF ChainsApart, IsHead, Clusters, Links, Free, EndOfChain

(* Freeing a head makes the cluster behind it the head of the rest. *)
LEMMA FreeHead ==
    ASSUME NEW f \in [Clusters -> Links], ChainsApart(f), NEW c, IsHead(f, c)
    PROVE  LET g == [f EXCEPT ![c] = Free]
           IN  /\ ChainsApart(g)
               /\ \A h : IsHead(f, h) /\ h # c => IsHead(g, h)
               /\ f[c] \in Clusters => IsHead(g, f[c]) /\ ~IsHead(f, f[c])
  BY DEF ChainsApart, IsHead, Clusters, Links, Free, EndOfChain

-----------------------------------------------------------------------------
(* Types.                                                                  *)

(* The volume that is mounted is well typed. *)
LEMMA TypeInit == Init => TypeOK
  <1> SUFFICES ASSUME Init PROVE TypeOK
    OBVIOUS
  <1>1. fat \in [Clusters -> Links] /\ dir \in [Slots -> Items]
    BY Fat16Assumption DEF Init
  <1>2. NoItem \in Items
    BY DEF Items, NoItem, Entry
  <1>3. root \in [Slots -> Names \cup {Unused, Deleted}]
    BY Fat16Assumption DEF Init, Items
  <1>4. NoCluster \in Links \cup {BadCluster}
    BY DEF Links, NoCluster, Free
  <1>5. spoiled \in BOOLEAN
    BY Zenon DEF Init
  <1> QED BY <1>1, <1>2, <1>3, <1>4, <1>5 DEF Init, NoCall, TypeOK

(* A call that returns leaves the locals of the call well typed. *)
LEMMA TypeReturn ==
    Return => /\ pc' = "idle" /\ op' = "read" /\ me' \in Fds \cup {NoFd}
              /\ cl' \in Links \cup {BadCluster} /\ ahead' \in Nat
              /\ total' \in Nat /\ done' \in 0 .. total' /\ new' \in Clusters \cup {NoCluster}
  BY DEF Return, Links, NoCluster, Free

(* What the driver builds from an entry is an entry. *)
LEMMA TypeNoItem == NoItem \in Items
  BY DEF Items, NoItem, Entry

(* A new entry is an entry. *)
LEMMA TypeCreated == \A n \in Names : Entry(n, NoCluster, 0, FALSE) \in Items
  BY DEF Items, Entry

(* A truncated entry is an entry. *)
LEMMA TypeTruncated == \A i \in Items : Truncated(i) \in Items
  BY DEF Items, Entry, Truncated

(* An entry with a first cluster is an entry. *)
LEMMA TypeWithCluster ==
    \A i \in Items, c \in Clusters \cup {BadCluster} : WithCluster(i, c) \in Items
  BY DEF Items, Entry, WithCluster

(* An entry with another size is an entry. *)
LEMMA TypeExtended == \A i \in Items, z \in Nat : Extended(i, z) \in Items
  BY DEF Items, Entry, Extended

(* Every step keeps the types; a descriptor is open while its call is      *)
(* under way.                                                              *)
LEMMA TypeStep ==
    ASSUME TypeOK, CallSound, [Next]_vars
    PROVE  TypeOK'
  <1> USE DEF TypeOK, volume, call, desc, history
  <1>0. /\ \A i \in Items : i.size \in Nat /\ i.cluster \in Links \cup {BadCluster}
        /\ \A i \in Items : i.name \in Names \cup {Unused, Deleted}
    BY DEF Items, Links, NoCluster, Free
  <1>1. CASE Crash
    BY <1>1, <1>0, TypeNoItem, TypeReturn DEF Crash, Mounted
  <1>2. ASSUME NEW d \in Fds, NEW n \in Names, NEW mode \in Modes, OpenExisting(d, n, mode)
        PROVE  TypeOK'
    BY <1>2, <1>0 DEF OpenExisting, Descriptor, FindItem, FreshItem, Copies
  <1>3. ASSUME NEW d \in Fds, NEW n \in Names, OpenTruncate(d, n)
        PROVE  TypeOK'
    <2>1. PICK s \in Slots :
             /\ slot' = [slot EXCEPT ![d] = s] /\ item' = [item EXCEPT ![d] = dir[s]]
             /\ pos' = [pos EXCEPT ![d] = 0]
             /\ IF dir[s].ro THEN Copies(d, s) /\ UNCHANGED <<spoiled, pc, call>>
                ELSE /\ spoiled' = (spoiled \/ Reuses(s))
                     /\ pc' = "free" /\ me' = d /\ cl' = dir[s].cluster
                     /\ UNCHANGED <<stale, op, ahead, done, total, new>>
      BY <1>3 DEF OpenTruncate, Descriptor, FindItem, FreshItem
    <2>2. UNCHANGED <<fat, dir, root, cut>>
      BY <1>3 DEF OpenTruncate
    <2>3. stale' \subseteq Fds
      BY <2>1 DEF Copies
    <2>4. spoiled' \in BOOLEAN
      BY <2>1, Zenon
    <2>5. slot' \in [Fds -> Slots \cup {0}] /\ item' \in [Fds -> Items] /\ pos' \in [Fds -> Nat]
      BY <2>1
    <2>6. CASE dir[s].ro
      BY <2>1, <2>2, <2>3, <2>4, <2>5, <2>6
    <2>7. CASE ~dir[s].ro
      BY <2>1, <2>2, <2>3, <2>4, <2>5, <2>7, <1>0
    <2> QED BY <2>6, <2>7
  <1>4. ASSUME NEW d \in Fds, NEW n \in Names, OpenCreate(d, n)
        PROVE  TypeOK'
    <2>1. ShortName[n] \in Names
      BY Fat16Assumption
    <2>2. Entry(ShortName[n], NoCluster, 0, FALSE) \in Items
      BY <2>1, TypeCreated
    <2>3. PICK s \in Slots : /\ root' = [root EXCEPT ![s] = ShortName[n]]
                             /\ \/ dir' = [dir EXCEPT ![s] = Entry(ShortName[n], NoCluster, 0, FALSE)]
                                \/ UNCHANGED dir
                             /\ Descriptor(d, s, Entry(ShortName[n], NoCluster, 0, FALSE), 0)
      BY <1>4 DEF OpenCreate, FreeSlot
    <2>4. root' \in [Slots -> Names \cup {Unused, Deleted}] /\ dir' \in [Slots -> Items]
      BY <2>1, <2>2, <2>3
    <2>5. slot' \in [Fds -> Slots \cup {0}] /\ item' \in [Fds -> Items] /\ pos' \in [Fds -> Nat]
      BY <2>2, <2>3 DEF Descriptor
    <2> QED BY <1>4, <2>4, <2>5 DEF OpenCreate
  <1>5. ASSUME NEW d \in Fds, fat16_close(d)
        PROVE  TypeOK'
    BY <1>5, TypeNoItem DEF fat16_close, Descriptor
  <1>6. ASSUME NEW d \in Fds, NEW offset \in 0 .. MaxPos, NEW whence, fat16_seek(d, offset, whence)
        PROVE  TypeOK'
    BY <1>6, Fat16Assumption DEF fat16_seek
  <1>7. ASSUME NEW d \in Fds, NEW n \in ReadSizes, fat16_read(d, n)
        PROVE  TypeOK'
    BY <1>7, <1>0, ClusterOffsets, Fat16Assumption DEF fat16_read, Locate
  <1>8. ASSUME NEW d \in Fds, NEW n \in WriteSizes, fat16_write(d, n)
        PROVE  TypeOK'
    BY <1>8, <1>0, ClusterOffsets, Fat16Assumption DEF fat16_write, Locate, Links, NoCluster, Free
  <1>9. CASE FreeCluster
    BY <1>9 DEF FreeCluster, Sharing, Links, CallSound, IsOpen
  <1>10. CASE FreeDone
    BY <1>10, TypeTruncated, TypeReturn DEF FreeDone, CallSound
  <1>11. CASE Walk
    BY <1>11 DEF Walk, Links
  <1>12. CASE WalkFails \/ DataFails
    BY <1>12, TypeReturn DEF WalkFails, DataFails, Fail
  <1>13. CASE ReadData \/ WriteData
    <2>1. me \in Fds
      BY <1>13 DEF ReadData, WriteData, CallSound
    <2>2. Offset \in Nat /\ ThisCluster \in Nat /\ done + ThisCluster <= total
      <3>1. Offset \in Nat
        BY <2>1 DEF Offset
      <3>2. ClusterSize - (Offset % ClusterSize) \in Nat
        BY <3>1, ClusterOffsets, Fat16Assumption
      <3> QED BY <3>1, <3>2 DEF ThisCluster
    <2>3. CASE ReadData
      <3>1. CASE done + ThisCluster < total
        BY <3>1, <2>1, <2>2, <2>3, <1>0, ClusterOffsets DEF ReadData, Locate
      <3>2. CASE ~(done + ThisCluster < total)
        BY <3>2, <2>1, <2>3, TypeReturn DEF ReadData
      <3> QED BY <3>1, <3>2
    <2>4. CASE WriteData
      BY <2>1, <2>2, <2>4 DEF WriteData, InVolume
    <2> QED BY <1>13, <2>3, <2>4
  <1>14. CASE MarkCluster
    <2>1. me \in Fds /\ pos[me] \div ClusterSize \in Nat
      BY <1>14, ClusterOffsets DEF MarkCluster, CallSound
    <2>2. PICK c \in Clusters :
             /\ fat' = [fat EXCEPT ![c] = EndOfChain]
             /\ IF cl = NoCluster
                THEN /\ item' = [item EXCEPT ![me] = WithCluster(item[me], c)]
                     /\ pc' = "walk" /\ cl' = c
                     /\ ahead' = pos[me] \div ClusterSize
                     /\ UNCHANGED new
                ELSE new' = c /\ pc' = "link" /\ UNCHANGED <<item, cl, ahead>>
      BY <1>14 DEF MarkCluster, fat16_find_free_cluster, FreeClusters
    <2>3. item' \in [Fds -> Items]
      <3>1. item[me] \in Items /\ WithCluster(item[me], c) \in Items
        BY <2>1, TypeWithCluster
      <3>2. item' = [item EXCEPT ![me] = WithCluster(item[me], c)] \/ item' = item
        BY <2>2
      <3> QED BY <3>1, <3>2
    <2>4. fat' \in [Clusters -> Links] /\ cl' \in Links \cup {BadCluster}
      BY <2>2 DEF Links
    <2> QED BY <1>14, <2>1, <2>2, <2>3, <2>4 DEF MarkCluster
  <1>15. CASE MarkFails
    <2>1. fat' \in [Clusters -> Links]
      BY <1>15 DEF MarkFails, Links
    <2>2. item' \in [Fds -> Items]
      BY <1>15, TypeWithCluster, SMTT(30) DEF MarkFails, CallSound
    <2>3. Return /\ UNCHANGED <<dir, root, slot, pos, history>>
      BY <1>15 DEF MarkFails
    <2> QED BY <2>1, <2>2, <2>3, TypeReturn
  <1>16. CASE LinkCluster
    BY <1>16 DEF LinkCluster, CallSound, Links
  <1>17. CASE LinkFails
    <2>1. cl \in Clusters /\ new \in Clusters
      BY <1>17 DEF LinkFails, CallSound
    <2>2. fat' \in [Clusters -> Links]
      BY <1>17, <2>1 DEF LinkFails, Links
    <2> QED BY <1>17, <2>2, TypeReturn DEF LinkFails
  <1>18. CASE FinishWrite
    <2>1. me \in Fds /\ slot[me] \in Slots
      BY <1>18 DEF FinishWrite, CallSound, IsOpen
    <2>2. pos[me] + total \in Nat /\ Extended(item[me], pos[me] + total) \in Items
      BY <2>1, TypeExtended
    <2> QED BY <1>18, <2>1, <2>2, TypeReturn DEF FinishWrite, EntrySlot
  <1>19. CASE UNCHANGED vars
    BY <1>19 DEF vars
  <1> QED
    BY <1>1, <1>2, <1>3, <1>4, <1>5, <1>6, <1>7, <1>8, <1>9, <1>10, <1>11, <1>12, <1>13,
       <1>14, <1>15, <1>16, <1>17, <1>18, <1>19
    DEF Next, fat16_open

-----------------------------------------------------------------------------
(* The inductive invariant.                                                *)

(* On a mounted volume nobody but the entries claims a chain. *)
LEMMA InvInit == Init => FatInv
  <1> SUFFICES ASSUME Init PROVE FatInv
    OBVIOUS
  <1> USE DEF Init, NoCall
  <1>1. TypeOK
    BY TypeInit
  <1>2. ChainsApart(fat)
    BY Fat16Assumption
  <1>3. \A s \in Slots, h \in Clusters :
            Claims(s, h) => HasFile(MountDir, s) /\ MountDir[s].cluster = h
    BY Fat16Assumption
    DEF Claims, Tracked, HasFile, Clusters, NoCluster, Items
  <1>4. ClaimsApart
    BY <1>3, Fat16Assumption DEF ClaimsApart, HeadsApart
  <1>5. CallSound /\ EntriesSound
    BY Fat16Assumption DEF CallSound, Writing, EntriesSound, IsOpen
  <1> QED BY <1>1, <1>2, <1>4, <1>5 DEF FatInv

(* A step that leaves the table alone and adds no claim keeps claims apart. *)
LEMMA QuietStep ==
    ASSUME ClaimsApart, fat' = fat,
           \A s \in Slots, h \in Clusters : Claims(s, h)' => Claims(s, h)
    PROVE  ClaimsApart'
  BY DEF ClaimsApart, IsHead

(* A call that returns relies on nothing. *)
LEMMA ReturnSound == Return => CallSound'
  BY DEF Return, CallSound, Writing

(* A restart forgets every descriptor and the call under way. *)
LEMMA CrashStep ==
    ASSUME FatInv, Crash
    PROVE  ChainsApart(fat') /\ ClaimsApart' /\ CallSound' /\ EntriesSound'
  <1> USE DEF FatInv, Crash, Mounted, volume
  <1>1. Tracked' \subseteq Tracked
    BY DEF Tracked, EntriesSound, TypeOK
  <1>2. \A s \in Slots, h \in Clusters : Claims(s, h)' => Claims(s, h)
    BY <1>1, Fat16Assumption DEF Claims
  <1>3. ClaimsApart'
    BY <1>2, QuietStep
  <1>4. EntriesSound'
    BY DEF EntriesSound, IsOpen, TypeOK
  <1> QED BY <1>3, <1>4, ReturnSound

(* An open reads the entry from the drive: what the new descriptor claims, *)
(* the entry claims already.                                               *)
LEMMA OpenStep ==
    ASSUME FatInv, NEW d \in Fds, NEW n \in Names, NEW mode \in Modes,
           OpenExisting(d, n, mode)
    PROVE  ChainsApart(fat') /\ ClaimsApart' /\ CallSound' /\ EntriesSound'
  <1> USE DEF FatInv, OpenExisting, volume, call
  <1>1. PICK s \in Slots : /\ root[s] = n
                           /\ slot' = [slot EXCEPT ![d] = s]
                           /\ item' = [item EXCEPT ![d] = dir[s]]
                           /\ Copies(d, s)
    BY DEF FindItem, Descriptor, FreshItem
  <1>2. s \in Tracked /\ (s \notin cut \/ d \in stale') /\ stale \subseteq stale'
        /\ stale' \subseteq stale \cup {d}
    BY <1>1 DEF Tracked, Copies
  <1>3. \A t \in Slots, h \in Clusters : Claims(t, h)' => Claims(t, h)
    BY <1>1, <1>2 DEF Claims, Tracked, Freeing, TypeOK
  <1>4. ClaimsApart'
    BY <1>3, QuietStep
  <1>5. EntriesSound'
    BY <1>1, <1>2, Fat16Assumption DEF EntriesSound, IsOpen, TypeOK
  <1> QED BY <1>4, <1>5 DEF CallSound, Writing

(* Opening for writing: the chain that is to be freed is the file's own,   *)
(* or has been freed before.                                               *)
LEMMA TruncateStep ==
    ASSUME FatInv, ~spoiled', NEW d \in Fds, NEW n \in Names, OpenTruncate(d, n)
    PROVE  ChainsApart(fat') /\ ClaimsApart' /\ CallSound' /\ EntriesSound'
  <1> USE DEF FatInv
  <1>1. PICK s \in Slots :
           /\ root[s] = n
           /\ slot' = [slot EXCEPT ![d] = s]
           /\ item' = [item EXCEPT ![d] = dir[s]]
           /\ IF dir[s].ro
              THEN Copies(d, s) /\ UNCHANGED <<pc, call>>
              ELSE /\ ~Reuses(s) /\ stale' = stale
                   /\ pc' = "free" /\ me' = d /\ cl' = dir[s].cluster
    BY DEF OpenTruncate, FindItem, Descriptor, FreshItem
  <1>2. /\ pc = "idle" /\ ~IsOpen(d)
        /\ fat' = fat /\ dir' = dir /\ root' = root /\ cut' = cut
    BY DEF OpenTruncate, volume
  <1>3. s \in Tracked /\ d \notin stale
    BY <1>1, <1>2 DEF Tracked, EntriesSound
  <1>4. stale \subseteq stale' /\ stale' \subseteq stale \cup {d}
    BY <1>1 DEF Copies
  <1>5. \A t \in Slots, h \in Clusters : Claims(t, h)' => Claims(t, h)
    <2>1. CASE dir[s].ro
      BY <1>1, <1>2, <1>3, <1>4, <2>1 DEF Claims, Tracked, Freeing, TypeOK, Copies, call
    <2>2. CASE ~dir[s].ro
      BY <1>1, <1>2, <1>3, <1>4, <2>2 DEF Claims, Tracked, Freeing, TypeOK
    <2> QED BY <2>1, <2>2
  <1>6. ClaimsApart'
    BY <1>2, <1>5, QuietStep
  <1>7. EntriesSound'
    BY <1>1, <1>2, <1>4, Fat16Assumption DEF EntriesSound, IsOpen, TypeOK
  <1>8. CallSound'
    <2>1. CASE dir[s].ro
      BY <1>1, <1>2, <2>1 DEF CallSound, Writing
    <2>2. CASE ~dir[s].ro
      <3>1. ASSUME cl' \in Clusters
            PROVE  fat'[cl'] = Free \/ OnlyMine(cl)'
        <4>1. cl' = dir[s].cluster /\ me' = d /\ slot'[d] = s
          BY <1>1, <2>2 DEF TypeOK
        <4>2. CASE s \in cut
          BY <1>1, <1>2, <2>2, <3>1, <4>1, <4>2 DEF Reuses
        <4>3. CASE s \notin cut
          <5>1. Claims(s, dir[s].cluster)
            BY <1>3, <4>3 DEF Claims
          <5>2. IsHead(fat', cl') /\ \A t \in Slots : Claims(t, dir[s].cluster) => t = s
            BY <5>1, <4>1, <3>1, <1>2 DEF ClaimsApart
          <5>3. \A t \in Slots : Claims(t, cl)' => t = slot'[me'] /\ cl' = dir'[t].cluster
            BY <5>2, <1>5, <4>1, <3>1, <1>2
          <5> QED BY <5>2, <5>3 DEF OnlyMine
        <4> QED BY <4>2, <4>3
      <3> QED BY <1>1, <2>2, <3>1, Fat16Assumption DEF CallSound, Writing, IsOpen, TypeOK
    <2> QED BY <2>1, <2>2
  <1> QED BY <1>2, <1>6, <1>7, <1>8

(* A new entry has no cluster, and nobody had the slot. *)
LEMMA CreateStep ==
    ASSUME FatInv, NEW d \in Fds, NEW n \in Names, OpenCreate(d, n)
    PROVE  ChainsApart(fat') /\ ClaimsApart' /\ CallSound' /\ EntriesSound'
  <1> USE DEF FatInv, volume, call
  <1>1. PICK s \in Slots :
           /\ root[s] \in {Unused, Deleted}
           /\ root' = [root EXCEPT ![s] = ShortName[n]]
           /\ \/ dir' = [dir EXCEPT ![s] = Entry(ShortName[n], NoCluster, 0, FALSE)]
              \/ DriveFails /\ UNCHANGED dir
           /\ slot' = [slot EXCEPT ![d] = s]
           /\ item' = [item EXCEPT ![d] = Entry(ShortName[n], NoCluster, 0, FALSE)]
    BY DEF OpenCreate, FreeSlot, Descriptor
  <1>2. ShortName[n] \in Names
    BY Fat16Assumption
  <1>3. Entry(ShortName[n], NoCluster, 0, FALSE).cluster = NoCluster
    BY DEF Entry
  <1>4. fat' = fat /\ UNCHANGED <<cut, stale, pc, op, me, cl, ahead, done, total, new>> /\ pc = "idle"
    BY DEF OpenCreate, history
  <1>5. \A t \in Slots, h \in Clusters : Claims(t, h)' => Claims(t, h)
    <2> SUFFICES ASSUME NEW t \in Slots, NEW h \in Clusters, Claims(t, h)'
                 PROVE  Claims(t, h)
      OBVIOUS
    <2>1. h # NoCluster
      BY DEF Clusters, NoCluster
    <2>2. CASE t \in Tracked' /\ t \notin cut' /\ dir'[t].cluster = h
      <3>1. dir'[t] = dir[t]
        BY <2>1, <2>2, <1>1, <1>3 DEF TypeOK
      <3>2. t \in Tracked
        <4>1. CASE DriveFails
          BY <4>1 DEF Tracked
        <4>2. CASE ~DriveFails
          <5>1. t # s
            BY <4>2, <1>1, <1>3, <2>1, <2>2 DEF TypeOK
          <5> QED BY <4>2, <5>1, <2>2, <1>1 DEF Tracked, TypeOK
        <4> QED BY <4>1, <4>2
      <3> QED BY <3>1, <3>2, <2>2, <1>4 DEF Claims
    <2>3. CASE \E x \in Fds \ stale' : ~Freeing(x)' /\ slot'[x] = t /\ item'[x].cluster = h
      BY <2>1, <2>3, <1>1, <1>3, <1>4 DEF Claims, Freeing, TypeOK
    <2> QED BY <2>2, <2>3 DEF Claims
  <1>6. ClaimsApart'
    BY <1>4, <1>5, QuietStep
  <1>7. EntriesSound'
    <2>1. \A t \in Slots : dir'[t].cluster # BadCluster
      <3>1. NoCluster # BadCluster
        BY DEF NoCluster, BadCluster
      <3> QED BY <3>1, <1>1, <1>3 DEF EntriesSound, TypeOK
    <2>2. \A t \in Slots : dir'[t].name \in Names => root'[t] \in Names
      BY <1>1, <1>2 DEF EntriesSound, TypeOK
    <2>3. \A x \in Fds : slot'[x] # 0 => root'[slot'[x]] \in Names
      BY <1>1, <1>2 DEF EntriesSound, IsOpen, TypeOK
    <2>4. \A x \in stale' : slot'[x] # 0
      BY <1>1, <1>4, Fat16Assumption DEF EntriesSound, IsOpen, TypeOK
    <2> QED BY <2>1, <2>2, <2>3, <2>4 DEF EntriesSound, IsOpen
  <1> QED BY <1>4, <1>6, <1>7 DEF CallSound, Writing

(* Closing gives up the claims of a copy. *)
LEMMA CloseStep ==
    ASSUME FatInv, NEW d \in Fds, fat16_close(d)
    PROVE  ChainsApart(fat') /\ ClaimsApart' /\ CallSound' /\ EntriesSound'
  <1> USE DEF FatInv, fat16_close, Descriptor, volume, call
  <1>1. \A t \in Slots, h \in Clusters : Claims(t, h)' => Claims(t, h)
    BY Fat16Assumption DEF Claims, Tracked, Freeing, TypeOK
  <1>2. ClaimsApart'
    BY <1>1, QuietStep
  <1>3. EntriesSound'
    BY DEF EntriesSound, IsOpen, TypeOK
  <1> QED BY <1>2, <1>3 DEF CallSound, Writing

(* Steps that only move positions and the call along. *)
LEMMA IdleStep ==
    ASSUME FatInv, UNCHANGED <<fat, dir, root, slot, item, cut, stale>>,
           pc # "free", pc' # "free"
    PROVE  ChainsApart(fat') /\ ClaimsApart' /\ EntriesSound'
  <1> USE DEF FatInv
  <1>1. \A t \in Slots, h \in Clusters : Claims(t, h)' => Claims(t, h)
    BY DEF Claims, Tracked, Freeing
  <1>2. ClaimsApart'
    BY <1>1, QuietStep
  <1>3. EntriesSound'
    BY DEF EntriesSound, IsOpen
  <1> QED BY <1>2, <1>3

(* Seek and the start of a read or a write change no chain. *)
LEMMA CallStep ==
    ASSUME FatInv, ~spoiled', NEW d \in Fds,
           \/ \E offset \in 0 .. MaxPos, whence \in {"set", "cur"} : fat16_seek(d, offset, whence)
           \/ \E n \in ReadSizes : fat16_read(d, n)
           \/ \E n \in WriteSizes : fat16_write(d, n)
    PROVE  ChainsApart(fat') /\ ClaimsApart' /\ CallSound' /\ EntriesSound'
  <1> USE DEF FatInv, volume, call, desc, history
  <1>1. CASE \E offset \in 0 .. MaxPos, whence \in {"set", "cur"} : fat16_seek(d, offset, whence)
    BY <1>1, IdleStep DEF fat16_seek, CallSound, Writing
  <1>2. CASE \E n \in ReadSizes : fat16_read(d, n)
    BY <1>2, IdleStep DEF fat16_read, Locate, CallSound, Writing, IsOpen
  <1>3. CASE \E n \in WriteSizes : fat16_write(d, n)
    BY <1>3, IdleStep DEF fat16_write, Locate, CallSound, Writing, IsOpen, NoCluster, BadCluster
  <1> QED BY <1>1, <1>2, <1>3

(* Walking a chain and moving data inside a cluster change no chain. *)
LEMMA DataStep ==
    ASSUME FatInv, Walk \/ WalkFails \/ ReadData \/ WriteData \/ DataFails
    PROVE  ChainsApart(fat') /\ ClaimsApart' /\ CallSound' /\ EntriesSound'
  <1> USE DEF FatInv, volume, call, desc, history
  <1>1. CASE Walk
    BY <1>1, IdleStep DEF Walk, CallSound, Writing, IsOpen, Clusters, BadCluster
  <1>2. CASE WalkFails \/ DataFails
    BY <1>2, IdleStep, ReturnSound DEF WalkFails, DataFails, Fail, Return
  <1>3. CASE ReadData
    <2>1. CASE done + ThisCluster < total
      BY <1>3, <2>1, IdleStep DEF ReadData, Locate, CallSound, Writing, IsOpen
    <2>2. CASE ~(done + ThisCluster < total)
      BY <1>3, <2>2, IdleStep, ReturnSound DEF ReadData, Return
    <2> QED BY <2>1, <2>2
  <1>4. CASE WriteData
    <2>1. cl \in Clusters /\ cl # BadCluster /\ cl # NoCluster
      BY <1>4 DEF WriteData, InVolume, Clusters, BadCluster, NoCluster
    <2>2. pc = "walk" /\ me \in Fds /\ IsOpen(me) /\ item[me].cluster # BadCluster
      BY <1>4, <2>1 DEF WriteData, CallSound
    <2>3. CallSound'
      BY <1>4, <2>1, <2>2 DEF WriteData, CallSound, Writing, IsOpen, Clusters, BadCluster
    <2> QED BY <1>4, <2>2, <2>3, IdleStep DEF WriteData
  <1> QED BY <1>1, <1>2, <1>3, <1>4

(* One step of a free takes the head off a chain that only the file itself *)
(* claims, which gives it up.                                              *)
LEMMA FreeStep ==
    ASSUME FatInv, FreeCluster
    PROVE  ChainsApart(fat') /\ ClaimsApart' /\ CallSound' /\ EntriesSound'
  <1> USE DEF FatInv
  <1>0. /\ pc = "free" /\ cl \in Clusters
        /\ fat' = [fat EXCEPT ![cl] = Free] /\ cl' = fat[cl]
        /\ dir' = dir /\ root' = root /\ pc' = pc /\ me' = me
        /\ slot' = slot /\ item' = item
        /\ cut' = cut \cup {slot[me]} /\ stale' = stale \cup Sharing
    BY DEF FreeCluster, desc
  <1>1. me \in Fds /\ IsOpen(me) /\ slot[me] \in Slots /\ fat \in [Clusters -> Links]
    BY <1>0 DEF CallSound, TypeOK, IsOpen
  <1>2. \A t \in Slots, h \in Clusters : Claims(t, h)' => Claims(t, h)
    BY <1>0 DEF Claims, Tracked, Freeing
  <1>3. \A h \in Clusters : Claims(slot[me], h)' => h # dir[slot[me]].cluster
    BY <1>0, <1>1 DEF Claims, Freeing, Sharing
  <1>4. EntriesSound'
    <2>1. \A x \in stale' : slot[x] # 0
      BY <1>0, <1>1 DEF EntriesSound, IsOpen, Sharing
    <2> QED BY <1>0, <2>1 DEF EntriesSound, IsOpen
  <1>5. CASE fat[cl] = Free
    <2>1. fat' = fat /\ cl' \notin Clusters
      BY <1>0, <1>1, <1>5 DEF Free, Clusters
    <2>2. ClaimsApart'
      BY <2>1, <1>2, QuietStep
    <2>3. CallSound'
      BY <1>0, <1>1, <2>1 DEF CallSound, Writing, IsOpen
    <2> QED BY <1>4, <2>1, <2>2, <2>3
  <1>6. CASE OnlyMine(cl)
    <2>1. /\ ChainsApart(fat')
          /\ \A h : IsHead(fat, h) /\ h # cl => IsHead(fat', h)
          /\ fat[cl] \in Clusters => IsHead(fat', fat[cl]) /\ ~IsHead(fat, fat[cl])
      BY <1>0, <1>1, <1>6, FreeHead DEF OnlyMine
    <2>2. \A t \in Slots, h \in Clusters : Claims(t, h)' => h # cl
      BY <1>2, <1>3, <1>6, <1>0 DEF OnlyMine
    <2>3. ClaimsApart'
      BY <1>2, <2>1, <2>2 DEF ClaimsApart
    <2>4. cl' \in Clusters => OnlyMine(cl)'
      BY <1>0, <1>2, <2>1 DEF ClaimsApart, OnlyMine
    <2>5. CallSound'
      BY <1>0, <1>1, <2>4 DEF CallSound, Writing, IsOpen
    <2> QED BY <1>4, <2>1, <2>3, <2>5
  <1> QED BY <1>0, <1>5, <1>6 DEF CallSound

(* The descriptor gives up the chain that it has freed. *)
LEMMA FreeDoneStep ==
    ASSUME FatInv, FreeDone
    PROVE  ChainsApart(fat') /\ ClaimsApart' /\ CallSound' /\ EntriesSound'
  <1> USE DEF FatInv, FreeDone, volume, history
  <1>1. Truncated(item[me]).cluster = NoCluster
    BY DEF Truncated, Entry
  <1>2. \A h \in Clusters : h # NoCluster
    BY DEF Clusters, NoCluster
  <1>3. pc' = "idle" /\ me \in Fds
    BY DEF Return, CallSound
  <1>4. \A t \in Slots, h \in Clusters : Claims(t, h)' => Claims(t, h)
    BY <1>1, <1>2, <1>3 DEF Claims, Tracked, Freeing, TypeOK
  <1>5. /\ ChainsApart(fat')
        /\ \A h : IsHead(fat, h) => IsHead(fat', h)
    <2>1. CASE fat' = fat
      BY <2>1
    <2>2. CASE fat' # fat
      <3>1. PICK c \in Clusters : fat[c] = Free /\ fat' = [fat EXCEPT ![c] = EndOfChain]
        BY <2>2 DEF fat16_find_free_cluster, FreeClusters
      <3> QED BY <3>1, MarkFree DEF TypeOK
    <2> QED BY <2>1, <2>2
  <1>6. ClaimsApart'
    BY <1>4, <1>5 DEF ClaimsApart
  <1>7. EntriesSound'
    BY DEF EntriesSound, IsOpen
  <1> QED BY <1>5, <1>6, <1>7, ReturnSound

(* The cluster that is marked was free, so that nothing led to it. *)
LEMMA MarkStep ==
    ASSUME FatInv, MarkCluster
    PROVE  ChainsApart(fat') /\ ClaimsApart' /\ CallSound' /\ EntriesSound'
  <1> USE DEF FatInv
  <1>1. PICK c \in Clusters :
           /\ fat[c] = Free
           /\ fat' = [fat EXCEPT ![c] = EndOfChain]
           /\ IF cl = NoCluster
              THEN /\ item' = [item EXCEPT ![me] = WithCluster(item[me], c)]
                   /\ pc' = "walk" /\ cl' = c
                   /\ UNCHANGED new
              ELSE new' = c /\ pc' = "link" /\ UNCHANGED <<item, cl, ahead>>
    BY DEF MarkCluster, fat16_find_free_cluster, FreeClusters
  <1>2. /\ pc = "mark" /\ me \in Fds /\ IsOpen(me)
        /\ UNCHANGED <<dir, root, slot, pos, cut, stale, op, me, done, total>>
        /\ me \notin stale
    BY DEF MarkCluster, CallSound, Writing, history
  <1>3. /\ ChainsApart(fat')
        /\ IsHead(fat', c)
        /\ \A h : IsHead(fat, h) => h # c /\ IsHead(fat', h)
    BY <1>1, MarkFree DEF TypeOK
  <1>4. WithCluster(item[me], c).cluster = c
    BY DEF WithCluster, Entry
  <1>5. EntriesSound'
    BY <1>2 DEF EntriesSound, IsOpen
  <1>6. c # BadCluster /\ c # NoCluster
    BY DEF Clusters, BadCluster, NoCluster
  <1>7. CASE cl = NoCluster
    <2>1. \A t \in Slots, h \in Clusters : Claims(t, h)' => Claims(t, h) \/ (h = c /\ t = slot[me])
      BY <1>1, <1>2, <1>4, <1>7 DEF Claims, Tracked, Freeing, TypeOK
    <2>2. ClaimsApart'
      BY <2>1, <1>3 DEF ClaimsApart
    <2>3. CallSound'
      BY <1>1, <1>2, <1>4, <1>6, <1>7 DEF CallSound, Writing, IsOpen, TypeOK
    <2> QED BY <1>3, <1>5, <2>2, <2>3
  <1>8. CASE cl # NoCluster
    <2>1. \A t \in Slots, h \in Clusters : Claims(t, h)' <=> Claims(t, h)
      BY <1>1, <1>2, <1>8 DEF Claims, Tracked, Freeing
    <2>2. ClaimsApart'
      BY <2>1, <1>3 DEF ClaimsApart
    <2>3. Unclaimed(new)'
      BY <2>1, <1>1, <1>3, <1>8 DEF ClaimsApart, Unclaimed
    <2>4. cl \in Clusters /\ fat[cl] = EndOfChain /\ cl # c
      BY <1>1, <1>2, <1>8 DEF CallSound, EndOfChain, Free
    <2>5. item[me].cluster # BadCluster
      BY <1>2, <2>4 DEF CallSound, Clusters, BadCluster
    <2>6. CallSound'
      BY <1>1, <1>2, <1>8, <2>3, <2>4, <2>5 DEF CallSound, Writing, IsOpen
    <2> QED BY <1>3, <1>5, <2>2, <2>6
  <1> QED BY <1>7, <1>8

(* A refused mark leaves an error code for a cluster. *)
LEMMA MarkFailsStep ==
    ASSUME FatInv, MarkFails
    PROVE  ChainsApart(fat') /\ ClaimsApart' /\ CallSound' /\ EntriesSound'
  <1> USE DEF FatInv, MarkFails, volume, history
  <1>1. WithCluster(item[me], BadCluster).cluster = BadCluster
    BY DEF WithCluster, Entry
  <1>2. \A h \in Clusters : h # BadCluster
    BY DEF Clusters, BadCluster
  <1>3. pc' = "idle" /\ me \in Fds
    BY DEF Return, CallSound
  <1>4. \A t \in Slots, h \in Clusters : Claims(t, h)' => Claims(t, h)
    BY <1>1, <1>2, <1>3 DEF Claims, Tracked, Freeing, TypeOK
  <1>5. /\ ChainsApart(fat')
        /\ \A h : IsHead(fat, h) => IsHead(fat', h)
    <2>1. CASE fat' = fat
      BY <2>1
    <2>2. CASE fat' # fat
      <3>1. PICK c \in Clusters : fat[c] = Free /\ fat' = [fat EXCEPT ![c] = EndOfChain]
        BY <2>2 DEF fat16_find_free_cluster, FreeClusters
      <3> QED BY <3>1, MarkFree DEF TypeOK
    <2> QED BY <2>1, <2>2
  <1>6. ClaimsApart'
    BY <1>4, <1>5 DEF ClaimsApart
  <1>7. EntriesSound'
    BY DEF EntriesSound, IsOpen
  <1> QED BY <1>5, <1>6, <1>7, ReturnSound

(* The new cluster becomes a link; as nobody claimed it, no head is lost. *)
LEMMA LinkStep ==
    ASSUME FatInv, LinkCluster
    PROVE  ChainsApart(fat') /\ ClaimsApart' /\ CallSound' /\ EntriesSound'
  <1> USE DEF FatInv
  <1>1. /\ pc = "link" /\ fat' = [fat EXCEPT ![cl] = new]
        /\ cl' = new /\ pc' = "walk" /\ me' = me
        /\ dir' = dir /\ root' = root /\ slot' = slot /\ item' = item
        /\ cut' = cut /\ stale' = stale /\ op' = op
    BY DEF LinkCluster, desc, history
  <1>2. /\ me \in Fds /\ IsOpen(me)
        /\ cl \in Clusters /\ new \in Clusters /\ cl # new /\ Unclaimed(new)
        /\ item[me].cluster # BadCluster /\ me \notin stale
    BY <1>1 DEF CallSound, Writing, Clusters, BadCluster
  <1>3. /\ ChainsApart(fat')
        /\ \A h : IsHead(fat, h) /\ h # new => IsHead(fat', h)
    BY <1>1, <1>2, LinkHead DEF TypeOK, Unclaimed
  <1>4. \A t \in Slots, h \in Clusters : Claims(t, h)' <=> Claims(t, h)
    BY <1>1 DEF Claims, Tracked, Freeing
  <1>5. ClaimsApart'
    BY <1>2, <1>3, <1>4 DEF ClaimsApart, Unclaimed
  <1>6. CallSound'
    BY <1>1, <1>2 DEF CallSound, Writing, IsOpen
  <1>7. EntriesSound'
    BY <1>1 DEF EntriesSound, IsOpen
  <1> QED BY <1>3, <1>5, <1>6, <1>7

(* A refused link: the marked cluster is free again, or lost. *)
LEMMA LinkFailsStep ==
    ASSUME FatInv, ~spoiled', LinkFails
    PROVE  ChainsApart(fat') /\ ClaimsApart' /\ CallSound' /\ EntriesSound'
  <1> USE DEF FatInv
  <1>1. /\ pc = "link" /\ pc' = "idle"
        /\ dir' = dir /\ root' = root /\ slot' = slot /\ item' = item
        /\ cut' = cut /\ stale' = stale
    BY DEF LinkFails, Return, desc
  <1>2. Unclaimed(new) /\ new \in Clusters /\ cl \in Clusters /\ cl # new
    BY <1>1 DEF CallSound
  <1>3. \/ fat' = fat
        \/ fat' = [fat EXCEPT ![new] = Free]
        \/ fat' = [fat EXCEPT ![cl] = new]
    BY <1>2 DEF LinkFails, TypeOK
  <1>4. /\ ChainsApart(fat')
        /\ \A h : IsHead(fat, h) /\ h # new => IsHead(fat', h)
    BY <1>2, <1>3, FreeHead, LinkHead DEF TypeOK, Unclaimed
  <1>5. \A t \in Slots, h \in Clusters : Claims(t, h)' <=> Claims(t, h)
    BY <1>1 DEF Claims, Tracked, Freeing
  <1>6. ClaimsApart'
    BY <1>2, <1>4, <1>5 DEF ClaimsApart, Unclaimed
  <1>7. EntriesSound'
    BY <1>1 DEF EntriesSound, IsOpen
  <1> QED BY <1>4, <1>6, <1>7, ReturnSound DEF LinkFails

(* The entry becomes what the descriptor's copy claims already. *)
LEMMA FinishStep ==
    ASSUME FatInv, FinishWrite
    PROVE  ChainsApart(fat') /\ ClaimsApart' /\ CallSound' /\ EntriesSound'
  <1> USE DEF FatInv
  <1> DEFINE s == slot[me]
             i == Extended(item[me], pos[me] + total)
  <1>1. /\ pc = "finish" /\ me \in Fds /\ s \in Slots /\ item[me].cluster # BadCluster
        /\ me \notin stale
    BY DEF FinishWrite, CallSound, Writing, IsOpen, TypeOK
  <1>2. /\ fat' = fat /\ root' = root /\ slot' = slot /\ pc' = "idle" /\ stale' = stale
        /\ item' = [item EXCEPT ![me] = i] \/ item' = item
        /\ \/ dir' = [dir EXCEPT ![s] = i] /\ cut' = cut \ {s}
           \/ dir' = dir /\ cut' = cut
    BY DEF FinishWrite, Return, EntrySlot
  <1>3. i.cluster = item[me].cluster /\ i.name = item[me].name
    BY DEF Extended, Entry
  <1> HIDE DEF i
  <1>4. \A t \in Slots, h \in Clusters : Claims(t, h)' => Claims(t, h)
    BY <1>1, <1>2, <1>3 DEF Claims, Tracked, Freeing, TypeOK
  <1>5. ClaimsApart'
    BY <1>2, <1>4, QuietStep
  <1>6. root[s] \in Names
    BY <1>1 DEF EntriesSound, IsOpen, FinishWrite, CallSound
  <1>7. EntriesSound'
    BY <1>1, <1>2, <1>3, <1>6 DEF EntriesSound, IsOpen, TypeOK
  <1> QED BY <1>2, <1>5, <1>7, ReturnSound DEF FinishWrite

(* Every step that does not spoil the volume keeps the claims apart. *)
LEMMA InvStep ==
    ASSUME FatInv, ~spoiled', [Next]_vars
    PROVE  FatInv'
  <1>1. TypeOK'
    BY TypeStep DEF FatInv
  <1>2. CASE UNCHANGED vars
    BY <1>2 DEF vars, volume, call, desc, history, FatInv, TypeOK, ClaimsApart, Claims, Tracked,
                Freeing, CallSound, Writing, Unclaimed, OnlyMine, IsHead, EntriesSound, IsOpen
  <1>3. CASE Next
    BY <1>1, <1>3, CrashStep, OpenStep, TruncateStep, CreateStep, CloseStep, CallStep, FreeStep,
       FreeDoneStep, DataStep, MarkStep, MarkFailsStep, LinkStep, LinkFailsStep, FinishStep
    DEF Next, fat16_open, FatInv
  <1> QED BY <1>2, <1>3

(* A volume that is spoiled stays so. *)
LEMMA SpoiledStays ==
    ASSUME [Next]_vars, ~spoiled'
    PROVE  ~spoiled
  <1>1. CASE UNCHANGED vars
    BY <1>1 DEF vars, history
  <1>2. ASSUME NEW d \in Fds, NEW n \in Names, NEW mode \in Modes, fat16_open(d, n, mode)
        PROVE  ~spoiled
    BY <1>2 DEF fat16_open, OpenExisting, OpenTruncate, OpenCreate, history
  <1>3. ASSUME NEW d \in Fds,
               \/ fat16_close(d)
               \/ \E offset \in 0 .. MaxPos, whence \in {"set", "cur"} : fat16_seek(d, offset, whence)
               \/ \E n \in ReadSizes : fat16_read(d, n)
               \/ \E n \in WriteSizes : fat16_write(d, n)
        PROVE  ~spoiled
    BY <1>3 DEF fat16_close, fat16_seek, fat16_read, fat16_write, history
  <1>4. CASE Crash \/ FreeCluster \/ FreeDone \/ FinishWrite \/ LinkFails
    BY <1>4 DEF Crash, FreeCluster, FreeDone, FinishWrite, LinkFails, history
  <1>5. CASE Walk \/ WalkFails \/ ReadData \/ WriteData \/ DataFails
    BY <1>5 DEF Walk, WalkFails, ReadData, WriteData, DataFails, Fail, history
  <1>6. CASE MarkCluster \/ MarkFails \/ LinkCluster
    BY <1>6 DEF MarkCluster, MarkFails, LinkCluster, history
  <1> QED BY <1>1, <1>2, <1>3, <1>4, <1>5, <1>6 DEF Next

(* What is claimed is what the directory says. *)
LEMMA ClaimsShow ==
    ASSUME FatInv
    PROVE  ChainsApart(fat) /\ HeadsApart(fat, dir, Slots \ cut)
  <1>1. \A s \in Slots \ cut : HasFile(dir, s) => Claims(s, dir[s].cluster) /\ dir[s].cluster \in Clusters
    BY DEF FatInv, HasFile, Claims, Tracked, EntriesSound, TypeOK, Items
  <1> QED BY <1>1 DEF FatInv, HeadsApart, ClaimsApart

(* For every volume that is sound when it is first mounted: however calls, *)
(* crashes and refused writes follow each other, files stay apart until    *)
(* one of the steps that spoil a volume is taken; a truncation that is     *)
(* followed by a crash, a close or another file's writes is none.          *)
THEOREM FilesStayApart == Spec => []FilesApart
  <1> DEFINE Inv == ~spoiled => FatInv
  <1>1. Init => Inv
    BY InvInit
  <1>2. Inv /\ [Next]_vars => Inv'
    BY InvStep, SpoiledStays
  <1>3. Inv => FilesApart
    BY ClaimsShow DEF FilesApart
  <1> QED BY <1>1, <1>2, <1>3, PTL DEF Spec

-----------------------------------------------------------------------------
(* Facts about cells, clusters and walks.                                  *)

(* Division by the size of a cluster, and back. *)
LEMMA DivMod ==
    ASSUME NEW n \in Nat, NEW s \in Nat \ {0}
    PROVE  /\ n \div s \in Nat /\ n % s \in 0 .. s - 1
           /\ n = (n \div s) * s + (n % s)
  OBVIOUS

(* A cell of a cluster is in that cluster. *)
LEMMA DivOfCell ==
    ASSUME NEW q \in Nat, NEW s \in Nat \ {0}, NEW r \in 0 .. s - 1
    PROVE  (q * s + r) \div s = q
  OBVIOUS

(* A later cell is not in an earlier cluster. *)
LEMMA DivMonotonic ==
    ASSUME NEW a \in Nat, NEW b \in Nat, a <= b, NEW s \in Nat \ {0}
    PROVE  a \div s <= b \div s
  <1> DEFINE q == a \div s
             r == b \div s
  <1>1. q \in Nat /\ a % s \in 0 .. s - 1 /\ a = q * s + (a % s)
    BY DivMod
  <1>2. r \in Nat /\ b % s \in 0 .. s - 1 /\ b = r * s + (b % s)
    BY DivMod
  <1> HIDE DEF q, r
  <1>3. ASSUME r < q PROVE FALSE
    <2>1. (r + 1) * s <= q * s
      BY <1>1, <1>2, <1>3
    <2>2. (r + 1) * s = r * s + s
      BY <1>1, <1>2
    <2> QED BY <1>1, <1>2, <2>1, <2>2
  <1>4. q <= r
    BY <1>1, <1>2, <1>3
  <1> QED BY <1>4 DEF q, r

(* The part of a transfer that lies in one cluster: its last cell is in    *)
(* the cluster of its first one, and unless the transfer ends the next     *)
(* cell begins the next cluster.                                           *)
LEMMA ClusterPart ==
    ASSUME NEW o \in Nat, NEW t \in Nat \ {0}, t <= ClusterSize - (o % ClusterSize)
    PROVE  /\ LinksFor(o + t) = o \div ClusterSize
           /\ t = ClusterSize - (o % ClusterSize) =>
                 (o + t) \div ClusterSize = o \div ClusterSize + 1
  <1> DEFINE q == o \div ClusterSize
             r == o % ClusterSize
  <1>0. ClusterSize \in Nat \ {0}
    BY Fat16Assumption
  <1>1. q \in Nat /\ r \in 0 .. ClusterSize - 1 /\ o = q * ClusterSize + r
    BY <1>0, DivMod
  <1> HIDE DEF q, r
  <1>2. q * ClusterSize \in Nat
    BY <1>0, <1>1
  <1>3. t <= ClusterSize - r
    BY DEF r
  <1>4. o + t - 1 = q * ClusterSize + (r + t - 1) /\ r + t - 1 \in 0 .. ClusterSize - 1
    BY <1>0, <1>1, <1>2, <1>3
  <1>5. LinksFor(o + t) = q
    BY <1>0, <1>1, <1>4, DivOfCell DEF LinksFor
  <1>6. ASSUME t = ClusterSize - r PROVE (o + t) \div ClusterSize = q + 1
    <2>1. o + t = q * ClusterSize + ClusterSize
      BY <1>0, <1>1, <1>2, <1>6
    <2>2. (q + 1) * ClusterSize = q * ClusterSize + ClusterSize
      BY <1>0, <1>1
    <2>3. o + t = (q + 1) * ClusterSize + 0 /\ q + 1 \in Nat /\ 0 \in 0 .. ClusterSize - 1
      BY <1>0, <1>1, <1>2, <2>1, <2>2
    <2> QED BY <1>0, <2>3, DivOfCell
  <1> QED BY <1>5, <1>6 DEF q, r

(* The cluster of a cell inside of the size is among the file's. *)
LEMMA CellInside ==
    ASSUME NEW o \in Nat, NEW size \in Nat, o < size
    PROVE  LinksFor(size) \in Nat /\ o \div ClusterSize \in 0 .. LinksFor(size)
  BY DivMonotonic, ClusterOffsets, Fat16Assumption DEF LinksFor

(* What leaves the links of a table alone leaves every walk.               *)
LEMMA RunsGrow ==
    ASSUME NEW f, NEW g, \A c \in Clusters : f[c] \in Clusters => g[c] = f[c],
           NEW h, NEW k \in Nat
    PROVE  Runs(f, h, k) \subseteq Runs(g, h, k)
  <1> SUFFICES ASSUME NEW p \in Runs(f, h, k), NEW i \in 1 .. k
               PROVE  g[p[i - 1]] = p[i]
    BY DEF Runs
  <1>1. i \in 0 .. k /\ i - 1 \in 0 .. k /\ p \in [0 .. k -> Clusters]
    BY DEF Runs
  <1> QED BY <1>1 DEF Runs

(* A change of the link of a head leaves the walks from other clusters,    *)
(* which never come to it.                                                 *)
LEMMA RunsAvoid ==
    ASSUME NEW f, NEW g, NEW c, IsHead(f, c), \A e \in Clusters : e # c => g[e] = f[e],
           NEW h, h # c, NEW k \in Nat
    PROVE  Runs(f, h, k) \subseteq Runs(g, h, k)
  <1> SUFFICES ASSUME NEW p \in Runs(f, h, k), NEW i \in 1 .. k
               PROVE  g[p[i - 1]] = p[i]
    BY DEF Runs
  <1>1. i - 1 \in 0 .. k /\ p \in [0 .. k -> Clusters] /\ p[0] = h /\ f[p[i - 1]] = p[i]
    BY DEF Runs
  <1>2. p[i - 1] # c
    <2>1. CASE i = 1
      BY <1>1, <2>1
    <2>2. CASE i # 1
      <3>1. i - 1 \in 1 .. k /\ (i - 1) - 1 \in 0 .. k
        BY <2>2
      <3>2. f[p[(i - 1) - 1]] = p[i - 1] /\ p[(i - 1) - 1] \in Clusters
        BY <1>1, <3>1 DEF Runs
      <3> QED BY <3>2 DEF IsHead
    <2> QED BY <2>1, <2>2
  <1> QED BY <1>1, <1>2

(* A walk of no link. *)
LEMMA RunStart ==
    ASSUME NEW f, NEW h \in Clusters
    PROVE  \E p \in Runs(f, h, 0) : p[0] = h
  <1> DEFINE p == [i \in 0 .. 0 |-> h]
  <1>1. p \in Runs(f, h, 0) /\ p[0] = h
    BY DEF Runs
  <1> QED BY <1>1

(* A walk with one link more. *)
LEMMA RunNext ==
    ASSUME NEW f, NEW h, NEW k \in Nat, NEW p \in Runs(f, h, k), f[p[k]] \in Clusters
    PROVE  \E q \in Runs(f, h, k + 1) : q[k + 1] = f[p[k]]
  <1> DEFINE q == [i \in 0 .. k + 1 |-> IF i <= k THEN p[i] ELSE f[p[k]]]
  <1>1. p \in [0 .. k -> Clusters] /\ p[0] = h
    BY DEF Runs
  <1>2. q \in [0 .. k + 1 -> Clusters] /\ q[0] = h /\ q[k + 1] = f[p[k]]
    BY <1>1
  <1>3. ASSUME NEW i \in 1 .. k + 1 PROVE f[q[i - 1]] = q[i]
    <2>1. CASE i <= k
      <3>1. i \in 1 .. k /\ q[i] = p[i] /\ q[i - 1] = p[i - 1]
        BY <2>1
      <3> QED BY <3>1 DEF Runs
    <2>2. CASE i = k + 1
      BY <2>2
    <2> QED BY <2>1, <2>2
  <1>4. q \in Runs(f, h, k + 1)
    BY <1>2, <1>3 DEF Runs
  <1> QED BY <1>2, <1>4

-----------------------------------------------------------------------------
(* Chains are as long as the sizes of the files say.                       *)

(* ReadStaysInFile and SizeCovered are not inductive either: a size comes  *)
(* from the position at the end of a write, so that the invariant follows  *)
(* the write along the chain, cluster by cluster, and a read likewise.     *)

(* Every size on the drive or in a copy is backed by clusters. *)
SizesCovered ==
    /\ \A s \in Tracked \ cut : Covered(fat, dir[s])
    /\ \A d \in Fds \ stale : IsOpen(d) /\ ~Freeing(d) => Covered(fat, item[d])

(* The walk of the call under way is k links from the first cluster. *)
Reached(k) == \E p \in Runs(fat, item[me].cluster, k) : p[k] = cl

ReadOnChain ==
    op = "read" /\ pc = "walk" /\ me \notin stale =>
        /\ done < total /\ pos[me] + total <= item[me].size
        /\ ahead <= Offset \div ClusterSize
        /\ \E p \in Runs(fat, item[me].cluster, LinksFor(item[me].size)) :
              p[Offset \div ClusterSize - ahead] = cl

WriteOnChain ==
    /\ pc \in {"mark", "link", "finish"} => op = "write"
    /\ op = "write" /\ pc = "walk" =>
          /\ done < total /\ ahead <= Offset \div ClusterSize
          /\ cl \in Clusters => Reached(Offset \div ClusterSize - ahead)
    /\ pc = "mark" /\ cl = NoCluster => item[me].cluster = NoCluster /\ done = 0 /\ total > 0
    /\ pc \in {"mark", "link"} /\ cl # NoCluster =>
          /\ done < total /\ ahead = 0 /\ fat[cl] = EndOfChain
          /\ Offset \div ClusterSize >= 1
          /\ Reached(Offset \div ClusterSize - 1)
    /\ pc = "finish" =>
          Runs(fat, item[me].cluster, LinksFor(pos[me] + total)) # {}

LengthInv == SizesCovered /\ ReadOnChain /\ WriteOnChain

(* The sizes of a mounted volume are covered. *)
LEMMA LengthInit == Init => LengthInv
  <1> SUFFICES ASSUME Init PROVE LengthInv
    OBVIOUS
  <1>1. ReadOnChain /\ WriteOnChain
    BY DEF Init, NoCall, ReadOnChain, WriteOnChain
  <1>2. \A s \in Slots : MountDir[s].name \in Names \/ MountDir[s].name \in {Unused, Deleted}
    BY Fat16Assumption DEF Items
  <1>3. \A s \in Tracked : Covered(fat, dir[s])
    <2> SUFFICES ASSUME NEW s \in Tracked PROVE Covered(MountFat, MountDir[s])
      BY DEF Init
    <2>1. s \in Slots
      BY DEF Tracked
    <2>2. CASE MountDir[s].name \in Names
      BY <2>1, <2>2, Fat16Assumption
    <2>3. CASE MountDir[s].name \in {Unused, Deleted}
      <3>1. DriveFails
        BY <2>1, <2>3, Fat16Assumption DEF Tracked, Init
      <3>2. MountDir[s].size = 0
        BY <2>1, <2>3, <3>1, Fat16Assumption
      <3> QED BY <3>2 DEF Covered
    <2> QED BY <1>2, <2>1, <2>2, <2>3
  <1>4. SizesCovered
    BY <1>3 DEF SizesCovered, Init, IsOpen
  <1> QED BY <1>1, <1>4 DEF LengthInv

(* A call that returns is on no chain. *)
LEMMA ReturnOnChain == Return => ReadOnChain' /\ WriteOnChain'
  BY DEF Return, ReadOnChain, WriteOnChain

(* Sizes stay covered as long as the walks from the first clusters stay.   *)
LEMMA CoveredKept ==
    ASSUME NEW i \in Items, NEW f, NEW g, Covered(f, i),
           \A k \in Nat : Runs(f, i.cluster, k) \subseteq Runs(g, i.cluster, k)
    PROVE  Covered(g, i)
  <1> SUFFICES ASSUME i.size > 0 PROVE Runs(g, i.cluster, LinksFor(i.size)) # {}
    BY DEF Covered
  <1>1. i.size \in Nat
    BY DEF Items
  <1>2. LinksFor(i.size) \in Nat
    BY <1>1, CellInside
  <1> QED BY <1>2 DEF Covered

(* A step of a read or a write that adds to the table at most. *)
LEMMA SizesGrow ==
    ASSUME TypeOK, SizesCovered, UNCHANGED <<dir, root, slot, item, cut, stale>>,
           pc # "free", pc' # "free",
           \A c \in Clusters : fat[c] \in Clusters => fat'[c] = fat[c]
    PROVE  SizesCovered'
  <1>1. \A h, k : k \in Nat => Runs(fat, h, k) \subseteq Runs(fat', h, k)
    BY RunsGrow
  <1>2. ASSUME NEW s \in Tracked' \ cut' PROVE Covered(fat', dir'[s])
    <2>1. s \in Tracked \ cut /\ s \in Slots
      BY DEF Tracked
    <2>2. dir'[s] = dir[s] /\ dir[s] \in Items /\ Covered(fat, dir[s])
      BY <2>1 DEF SizesCovered, TypeOK
    <2> QED BY <1>1, <2>2, CoveredKept
  <1>3. ASSUME NEW d \in Fds \ stale', IsOpen(d)' PROVE Covered(fat', item'[d])
    <2>1. item'[d] = item[d] /\ item[d] \in Items /\ Covered(fat, item[d])
      BY <1>3 DEF SizesCovered, TypeOK, IsOpen, Freeing
    <2> QED BY <1>1, <2>1, CoveredKept
  <1> QED BY <1>2, <1>3 DEF SizesCovered

(* After a restart only the entries on the drive record sizes. *)
LEMMA LengthCrash ==
    ASSUME FatInv, LengthInv, Crash
    PROVE  LengthInv'
  <1> USE DEF FatInv, LengthInv, volume
  <1>1. Tracked' \subseteq Tracked /\ fat' = fat /\ dir' = dir /\ cut' = cut
    BY DEF Crash, Mounted, Tracked, EntriesSound, TypeOK
  <1>2. SizesCovered'
    BY <1>1 DEF SizesCovered, Crash, Mounted, IsOpen
  <1> QED BY <1>2, ReturnOnChain DEF Crash, Mounted

(* Opening and closing: a new copy of an entry is as long as the entry. *)
LEMMA LengthOpen ==
    ASSUME FatInv, LengthInv, NEW d \in Fds,
           \/ \E n \in Names, mode \in Modes : fat16_open(d, n, mode)
           \/ fat16_close(d)
    PROVE  LengthInv'
  <1> USE DEF FatInv, LengthInv, volume, call, history
  <1>2. ASSUME NEW n \in Names, NEW mode \in Modes, OpenExisting(d, n, mode) PROVE LengthInv'
    <2>1. PICK s \in Slots : /\ root[s] = n
                             /\ slot' = [slot EXCEPT ![d] = s]
                             /\ item' = [item EXCEPT ![d] = dir[s]]
                             /\ Copies(d, s)
      BY <1>2 DEF OpenExisting, FindItem, Descriptor, FreshItem
    <2>2. s \in Tracked /\ (s \notin cut \/ d \in stale') /\ stale \subseteq stale'
      BY <1>2, <2>1 DEF Tracked, Copies
    <2>3. pc = "idle" /\ UNCHANGED <<fat, dir, root, cut, pc>>
      BY <1>2 DEF OpenExisting
    <2>4. SizesCovered'
      BY <2>1, <2>2, <2>3 DEF SizesCovered, Tracked, IsOpen, Freeing, TypeOK
    <2> QED BY <2>3, <2>4 DEF ReadOnChain, WriteOnChain
  <1>3. ASSUME NEW n \in Names, OpenTruncate(d, n) PROVE LengthInv'
    <2>1. PICK s \in Slots :
             /\ root[s] = n
             /\ slot' = [slot EXCEPT ![d] = s]
             /\ item' = [item EXCEPT ![d] = dir[s]]
             /\ IF dir[s].ro THEN pc' = pc /\ Copies(d, s)
                ELSE pc' = "free" /\ me' = d /\ stale' = stale
      BY <1>3 DEF OpenTruncate, FindItem, Descriptor, FreshItem
    <2>2. /\ s \in Tracked /\ stale \subseteq stale'
          /\ s \notin cut \/ d \in stale' \/ Freeing(d)'
      BY <1>3, <2>1 DEF Tracked, Copies, Freeing
    <2>3. pc = "idle" /\ fat' = fat /\ dir' = dir /\ root' = root /\ cut' = cut
      BY <1>3 DEF OpenTruncate
    <2>4. SizesCovered'
      BY <2>1, <2>2, <2>3 DEF SizesCovered, Tracked, IsOpen, Freeing, TypeOK
    <2>5. pc' \in {"idle", "free"}
      BY <2>1, <2>3
    <2> QED BY <2>4, <2>5 DEF ReadOnChain, WriteOnChain
  <1>4. ASSUME NEW n \in Names, OpenCreate(d, n) PROVE LengthInv'
    <2> DEFINE i == Entry(ShortName[n], NoCluster, 0, FALSE)
    <2>1. PICK s \in Slots :
             /\ root' = [root EXCEPT ![s] = ShortName[n]]
             /\ dir' = [dir EXCEPT ![s] = i] \/ (DriveFails /\ dir' = dir)
             /\ slot' = [slot EXCEPT ![d] = s]
             /\ item' = [item EXCEPT ![d] = i]
      BY <1>4 DEF OpenCreate, FreeSlot, Descriptor
    <2>2. \A f : Covered(f, i)
      BY DEF Covered, Entry
    <2>3. pc = "idle" /\ UNCHANGED <<fat, cut, stale, pc>>
      BY <1>4 DEF OpenCreate
    <2> HIDE DEF i
    <2>4. ASSUME NEW t \in Tracked' \ cut' PROVE Covered(fat', dir'[t])
      <3>1. CASE dir'[t] = i
        BY <2>2, <3>1
      <3>2. CASE dir'[t] # i
        <4>1. dir'[t] = dir[t] /\ t \in Tracked \ cut
          BY <2>1, <2>3, <2>4, <3>2 DEF Tracked, TypeOK
        <4> QED BY <2>3, <4>1 DEF SizesCovered
      <3> QED BY <3>1, <3>2
    <2>5. ASSUME NEW x \in Fds \ stale', IsOpen(x)' PROVE Covered(fat', item'[x])
      BY <2>1, <2>2, <2>3, <2>5 DEF SizesCovered, IsOpen, Freeing, TypeOK
    <2> QED BY <2>3, <2>4, <2>5 DEF SizesCovered, ReadOnChain, WriteOnChain
  <1>5. CASE fat16_close(d)
    <2>1. /\ pc = "idle" /\ UNCHANGED <<fat, dir, root, cut, pc>> /\ stale' = stale \ {d}
          /\ slot' = [slot EXCEPT ![d] = 0] /\ item' = [item EXCEPT ![d] = NoItem]
      BY <1>5 DEF fat16_close, Descriptor
    <2>2. SizesCovered'
      BY <2>1 DEF SizesCovered, Tracked, IsOpen, Freeing, TypeOK
    <2> QED BY <2>1, <2>2 DEF ReadOnChain, WriteOnChain
  <1> QED BY <1>2, <1>3, <1>4, <1>5 DEF fat16_open

(* A call begins at the first cluster of the copy. *)
LEMMA LengthCall ==
    ASSUME FatInv, LengthInv, NEW d \in Fds,
           \/ \E offset \in 0 .. MaxPos, whence \in {"set", "cur"} : fat16_seek(d, offset, whence)
           \/ \E n \in ReadSizes : fat16_read(d, n)
           \/ \E n \in WriteSizes : fat16_write(d, n)
    PROVE  LengthInv'
  <1> USE DEF FatInv, LengthInv, volume, call, desc, history
  <1>0. /\ item[d] \in Items /\ item[d].size \in Nat /\ pos[d] \in Nat
        /\ item[d].cluster \in Clusters \cup {NoCluster, BadCluster}
    BY DEF TypeOK, Items
  <1>1. CASE \E offset \in 0 .. MaxPos, whence \in {"set", "cur"} : fat16_seek(d, offset, whence)
    <2>1. pc = "idle" /\ UNCHANGED <<fat, dir, root, slot, item, cut, stale, pc>>
      BY <1>1 DEF fat16_seek
    <2>2. SizesCovered'
      BY <2>1, SizesGrow
    <2> QED BY <2>1, <2>2 DEF ReadOnChain, WriteOnChain
  <1>2. ASSUME NEW n \in ReadSizes, fat16_read(d, n) PROVE LengthInv'
    <2>1. /\ pc = "idle" /\ IsOpen(d) /\ pos[d] < item[d].size
          /\ total' = IF n < item[d].size - pos[d] THEN n ELSE item[d].size - pos[d]
          /\ op' = "read" /\ me' = d /\ done' = 0
          /\ pc' = "walk" /\ cl' = item[d].cluster /\ ahead' = pos[d] \div ClusterSize
          /\ UNCHANGED <<fat, dir, root, slot, item, pos, cut, stale>>
      BY <1>2 DEF fat16_read, Locate
    <2>2. SizesCovered'
      BY <2>1, SizesGrow
    <2>3. done' < total' /\ pos[d] + total' <= item[d].size
      BY <1>0, <2>1, Fat16Assumption
    <2>4. Offset' = pos[d] /\ pos[d] \div ClusterSize \in Nat
      BY <1>0, <2>1, ClusterOffsets DEF Offset
    <2>8. Offset' \div ClusterSize - ahead' = 0 /\ ahead' <= Offset' \div ClusterSize
      BY <2>1, <2>4
    <2>9. ReadOnChain'
      <3> SUFFICES ASSUME d \notin stale PROVE ReadOnChain'
        BY <2>1 DEF ReadOnChain
      <3>1. Covered(fat, item[d])
        BY <2>1 DEF SizesCovered, Freeing
      <3>2. PICK p \in Runs(fat, item[d].cluster, LinksFor(item[d].size)) : TRUE
        BY <1>0, <2>1, <3>1 DEF Covered
      <3>3. p[0] = item[d].cluster
        BY DEF Runs
      <3>4. p[Offset' \div ClusterSize - ahead'] = cl'
        BY <2>1, <2>8, <3>3
      <3> QED BY <2>1, <2>3, <2>8, <3>2, <3>4 DEF ReadOnChain
    <2>10. WriteOnChain'
      BY <2>1 DEF WriteOnChain
    <2> QED BY <2>2, <2>9, <2>10
  <1>3. ASSUME NEW n \in WriteSizes, fat16_write(d, n) PROVE LengthInv'
    <2>1. /\ pc = "idle" /\ IsOpen(d)
          /\ op' = "write" /\ me' = d /\ done' = 0 /\ total' = n
          /\ IF item[d].cluster = NoCluster
             THEN pc' = "mark" /\ cl' = NoCluster /\ ahead' = 0
             ELSE pc' = "walk" /\ cl' = item[d].cluster /\ ahead' = pos[d] \div ClusterSize
          /\ UNCHANGED <<fat, dir, root, slot, item, pos, cut, stale>>
      BY <1>3 DEF fat16_write, Locate
    <2>2. SizesCovered'
      BY <2>1, SizesGrow
    <2>3. n > 0
      BY Fat16Assumption
    <2>4. Offset' = pos[d] /\ pos[d] \div ClusterSize \in Nat
      BY <1>0, <2>1, ClusterOffsets DEF Offset
    <2>5. WriteOnChain'
      <3>1. CASE item[d].cluster = NoCluster
        BY <2>1, <2>3, <3>1 DEF WriteOnChain
      <3>2. CASE item[d].cluster # NoCluster
        <4>1. Offset' \div ClusterSize - ahead' = 0 /\ ahead' <= Offset' \div ClusterSize
          BY <2>1, <2>4, <3>2
        <4>2. ASSUME cl' \in Clusters PROVE Reached(Offset \div ClusterSize - ahead)'
          <5>1. \E p \in Runs(fat', item'[me'].cluster, 0) : p[0] = cl'
            BY <2>1, <3>2, <4>2, RunStart
          <5> QED BY <4>1, <5>1 DEF Reached
        <4> QED BY <2>1, <2>3, <3>2, <4>1, <4>2 DEF WriteOnChain
      <3> QED BY <3>1, <3>2
    <2>6. ReadOnChain'
      BY <2>1 DEF ReadOnChain
    <2> QED BY <2>2, <2>5, <2>6
  <1> QED BY <1>1, <1>2, <1>3

(* Where the transfer under way is, in cells. *)
LEMMA PartFacts ==
    ASSUME FatInv, pc = "walk", done < total
    PROVE  /\ me \in Fds /\ Offset \in Nat /\ Offset \div ClusterSize \in Nat
           /\ ThisCluster \in Nat \ {0} /\ done + ThisCluster <= total
           /\ ThisCluster <= ClusterSize - (Offset % ClusterSize)
           /\ done + ThisCluster < total => ThisCluster = ClusterSize - (Offset % ClusterSize)
           /\ total \in Nat /\ done \in Nat /\ ahead \in Nat /\ pos[me] \in Nat
           /\ item[me] \in Items /\ item[me].size \in Nat
  <1>1. /\ me \in Fds /\ total \in Nat /\ done \in Nat /\ ahead \in Nat /\ pos[me] \in Nat
        /\ item[me] \in Items /\ item[me].size \in Nat
    BY DEF FatInv, CallSound, TypeOK, Items
  <1>2. Offset \in Nat /\ Offset \div ClusterSize \in Nat
    BY <1>1, ClusterOffsets DEF Offset
  <1>3. ClusterSize - (Offset % ClusterSize) \in Nat \ {0}
    BY <1>2, ClusterOffsets, Fat16Assumption
  <1>4. /\ ThisCluster \in Nat \ {0} /\ done + ThisCluster <= total
        /\ ThisCluster <= ClusterSize - (Offset % ClusterSize)
        /\ done + ThisCluster < total => ThisCluster = ClusterSize - (Offset % ClusterSize)
    BY <1>1, <1>3 DEF ThisCluster
  <1> QED BY <1>1, <1>2, <1>4

(* A walk goes one link along the path that covers the size. *)
LEMMA LengthWalk ==
    ASSUME FatInv, LengthInv, Walk \/ WalkFails \/ DataFails
    PROVE  LengthInv'
  <1> USE DEF FatInv, LengthInv, volume, call, desc, history
  <1>1. CASE WalkFails \/ DataFails
    <2>1. /\ pc = "walk" /\ Return /\ pc' = "idle"
          /\ UNCHANGED <<fat, dir, root, slot, item, cut, stale>>
      BY <1>1 DEF WalkFails, DataFails, Fail, Return
    <2> QED BY <2>1, SizesGrow, ReturnOnChain
  <1>2. CASE Walk
    <2>1. /\ pc = "walk" /\ pc' = "walk" /\ ahead > 0 /\ cl \in Clusters /\ fat[cl] \in Clusters
          /\ cl' = fat[cl] /\ ahead' = ahead - 1
          /\ UNCHANGED <<fat, dir, root, slot, item, pos, cut, stale, op, me, done, total>>
      BY <1>2 DEF Walk
    <2>2. SizesCovered' /\ Offset' = Offset
      BY <2>1, SizesGrow DEF Offset
    <2> DEFINE k == Offset \div ClusterSize
    <2>3. CASE op = "read" /\ me \in stale
      BY <2>1, <2>2, <2>3 DEF ReadOnChain, WriteOnChain
    <2>5. CASE op = "read" /\ me \notin stale
      <3>1. /\ done < total /\ pos[me] + total <= item[me].size /\ ahead <= k
        BY <2>1, <2>5 DEF ReadOnChain
      <3>2. /\ k \in Nat /\ ahead \in Nat /\ item[me].size \in Nat
            /\ Offset \in Nat /\ pos[me] \in Nat /\ done \in Nat /\ total \in Nat
        BY <2>1, <3>1, PartFacts
      <3>3. PICK p \in Runs(fat, item[me].cluster, LinksFor(item[me].size)) : p[k - ahead] = cl
        BY <2>1, <2>5 DEF ReadOnChain
      <3>4. LinksFor(item[me].size) \in Nat /\ k \in 0 .. LinksFor(item[me].size)
        BY <3>1, <3>2, CellInside DEF Offset
      <3> HIDE DEF k
      <3>5. /\ k - ahead' \in 1 .. LinksFor(item[me].size)
            /\ (k - ahead') - 1 = k - ahead /\ ahead' <= k
        BY <2>1, <3>1, <3>2, <3>4
      <3>6. p[k - ahead'] = cl'
        BY <2>1, <3>3, <3>5 DEF Runs
      <3>7. ReadOnChain'
        BY <2>1, <2>2, <3>1, <3>3, <3>5, <3>6 DEF ReadOnChain, k
      <3> QED BY <2>1, <2>2, <2>5, <3>7 DEF WriteOnChain
    <2>4. CASE op # "read"
      <3>0. op = "write"
        BY <2>4 DEF TypeOK
      <3>1. done < total /\ ahead <= k /\ Reached(k - ahead)
        BY <2>1, <3>0 DEF WriteOnChain
      <3>2. k \in Nat /\ ahead \in Nat
        BY <2>1, <3>1, PartFacts
      <3>3. PICK p \in Runs(fat, item[me].cluster, k - ahead) : p[k - ahead] = cl
        BY <3>1 DEF Reached
      <3> HIDE DEF k
      <3>4. k - ahead \in Nat /\ (k - ahead) + 1 = k - ahead' /\ ahead' <= k
        BY <2>1, <3>1, <3>2
      <3>5. \E q \in Runs(fat, item[me].cluster, (k - ahead) + 1) : q[(k - ahead) + 1] = fat[cl]
        BY <2>1, <3>3, <3>4, RunNext
      <3>6. \E q \in Runs(fat', item'[me'].cluster, k - ahead') : q[k - ahead'] = cl'
        BY <2>1, <3>4, <3>5
      <3>7. Reached(Offset \div ClusterSize - ahead)'
        BY <2>2, <3>6 DEF Reached, k
      <3>8. ahead' <= Offset' \div ClusterSize
        BY <2>2, <3>4 DEF k
      <3> QED BY <2>1, <2>2, <3>0, <3>1, <3>7, <3>8 DEF WriteOnChain, ReadOnChain
    <2> QED BY <2>3, <2>4, <2>5
  <1> QED BY <1>1, <1>2

(* A part of a read ends at the edge of its cluster or of the read. *)
LEMMA LengthReadData ==
    ASSUME FatInv, LengthInv, ReadData
    PROVE  LengthInv'
  <1> USE DEF FatInv, LengthInv, volume, desc, history
  <1> DEFINE size == item[me].size
             to == Offset + ThisCluster
  <1>1. pc = "walk" /\ op = "read" /\ UNCHANGED <<fat, dir, root, slot, item, cut, stale>> /\ pc' # "free"
    BY DEF ReadData, Return, Locate
  <1>2. SizesCovered'
    BY <1>1, SizesGrow
  <1>3. CASE ~(done + ThisCluster < total)
    BY <1>2, <1>3, ReturnOnChain DEF ReadData
  <1>5. CASE done + ThisCluster < total /\ me \in stale
    BY <1>1, <1>2, <1>5 DEF ReadData, Locate, ReadOnChain, WriteOnChain
  <1>4. CASE done + ThisCluster < total /\ me \notin stale
    <2>1. /\ done' = done + ThisCluster /\ UNCHANGED <<pos, op, me, total>>
          /\ pc' = "walk" /\ cl' = item[me].cluster /\ ahead' = to \div ClusterSize
      BY <1>4 DEF ReadData, Locate
    <2>2. done < total /\ pos[me] + total <= size
      BY <1>1, <1>4 DEF ReadOnChain
    <2>3. /\ me \in Fds /\ Offset \in Nat /\ ThisCluster \in Nat
          /\ total \in Nat /\ done \in Nat /\ pos[me] \in Nat
      BY <1>1, <2>2, PartFacts
    <2>4. Offset' = to /\ to \in Nat /\ to \div ClusterSize \in Nat
      BY <2>1, <2>3, ClusterOffsets DEF Offset
    <2>5. PICK p \in Runs(fat, item[me].cluster, LinksFor(size)) : TRUE
      BY <1>1, <1>4 DEF ReadOnChain
    <2> HIDE DEF to
    <2>6. Offset' \div ClusterSize - ahead' = 0 /\ ahead' <= Offset' \div ClusterSize
      BY <2>1, <2>4 DEF to
    <2>7. p[Offset' \div ClusterSize - ahead'] = cl'
      BY <2>1, <2>6 DEF Runs
    <2>8. ReadOnChain'
      BY <1>1, <1>4, <2>1, <2>2, <2>5, <2>6, <2>7 DEF ReadOnChain
    <2> QED BY <1>1, <1>2, <2>1, <2>8 DEF WriteOnChain
  <1> QED BY <1>3, <1>4, <1>5

(* A write ends in the cluster of its last cell, or goes on in the next. *)
LEMMA LengthWriteData ==
    ASSUME FatInv, LengthInv, WriteData
    PROVE  LengthInv'
  <1> USE DEF FatInv, LengthInv, volume, desc, history
  <1> DEFINE k == Offset \div ClusterSize
             to == Offset + ThisCluster
  <1>1. /\ pc = "walk" /\ op = "write" /\ ahead = 0 /\ cl \in Clusters
        /\ done' = done + ThisCluster
        /\ UNCHANGED <<fat, dir, root, slot, item, pos, cut, stale, op, me, ahead, total>>
        /\ IF done + ThisCluster = total THEN pc' = "finish" /\ cl' = cl
           ELSE IF fat[cl] = EndOfChain THEN pc' = "mark" /\ cl' = cl
           ELSE cl' = fat[cl] /\ pc' = pc
    BY DEF WriteData, InVolume
  <1>2. SizesCovered'
    BY <1>1, SizesGrow
  <1>3. ReadOnChain'
    BY <1>1 DEF ReadOnChain
  <1>4. done < total /\ Reached(k - 0)
    BY <1>1 DEF WriteOnChain
  <1>5. /\ me \in Fds /\ Offset \in Nat /\ k \in Nat
        /\ ThisCluster \in Nat \ {0} /\ done + ThisCluster <= total
        /\ ThisCluster <= ClusterSize - (Offset % ClusterSize)
        /\ done + ThisCluster < total => ThisCluster = ClusterSize - (Offset % ClusterSize)
        /\ total \in Nat /\ done \in Nat /\ pos[me] \in Nat
    BY <1>1, <1>4, PartFacts
  <1>6. Offset' = to /\ to \in Nat
    BY <1>1, <1>5 DEF Offset
  <1>7. PICK p \in Runs(fat, item[me].cluster, k) : p[k] = cl
    BY <1>4, <1>5 DEF Reached
  <1>8. CASE done + ThisCluster = total
    <2>1. LinksFor(to) = k
      BY <1>5, ClusterPart
    <2>2. pos[me] + total = to
      BY <1>5, <1>8 DEF Offset
    <2>3. Runs(fat, item[me].cluster, LinksFor(pos[me] + total)) # {}
      BY <1>7, <2>1, <2>2
    <2>4. WriteOnChain'
      BY <1>1, <1>8, <2>3 DEF WriteOnChain
    <2> QED BY <1>2, <1>3, <2>4
  <1>9. CASE done + ThisCluster # total
    <2>1. done' < total' /\ done + ThisCluster < total
      BY <1>1, <1>5, <1>9
    <2>2. to \div ClusterSize = k + 1
      BY <1>5, <2>1, ClusterPart
    <2> HIDE DEF k, to
    <2>3. CASE fat[cl] = EndOfChain
      <3>1. Offset' \div ClusterSize >= 1 /\ Offset' \div ClusterSize - 1 = k
        BY <1>5, <1>6, <2>2
      <3>2. Reached(Offset \div ClusterSize - 1)'
        BY <1>1, <1>7, <1>9, <2>3, <3>1 DEF Reached
      <3> QED
        BY <1>1, <1>2, <1>3, <1>9, <2>1, <2>3, <3>1, <3>2
        DEF WriteOnChain, Clusters, NoCluster
    <2>4. CASE fat[cl] # EndOfChain
      <3>1. Offset' \div ClusterSize - ahead' = k + 1 /\ ahead' <= Offset' \div ClusterSize
        BY <1>1, <1>5, <1>6, <2>2
      <3>2. ASSUME cl' \in Clusters PROVE Reached(Offset \div ClusterSize - ahead)'
        <4>1. fat[p[k]] \in Clusters /\ cl' = fat[p[k]]
          BY <1>1, <1>7, <1>9, <2>4, <3>2
        <4>2. \E q \in Runs(fat, item[me].cluster, k + 1) : q[k + 1] = cl'
          BY <1>5, <1>7, <4>1, RunNext
        <4> QED BY <1>1, <3>1, <4>2 DEF Reached
      <3> QED BY <1>1, <1>2, <1>3, <1>9, <2>1, <2>4, <3>1, <3>2 DEF WriteOnChain
    <2> QED BY <2>3, <2>4
  <1> QED BY <1>8, <1>9

(* Freeing a chain shortens no file but the one that is truncated. *)
LEMMA LengthFree ==
    ASSUME FatInv, LengthInv, FreeCluster \/ FreeDone
    PROVE  LengthInv'
  <1> USE DEF FatInv, LengthInv
  <1>1. CASE FreeCluster
    <2>1. /\ pc = "free" /\ pc' = "free" /\ cl \in Clusters
          /\ fat' = [fat EXCEPT ![cl] = Free]
          /\ UNCHANGED <<dir, root, slot, item, me>>
          /\ cut' = cut \cup {slot[me]} /\ stale' = stale \cup Sharing
      BY <1>1 DEF FreeCluster, desc
    <2>2. fat \in [Clusters -> Links] /\ me \in Fds /\ (fat[cl] = Free \/ OnlyMine(cl))
      BY <2>1 DEF CallSound, TypeOK
    <2>3. \A h, k : (fat[cl] = Free \/ h # cl) /\ k \in Nat => Runs(fat, h, k) \subseteq Runs(fat', h, k)
      <3>1. CASE fat[cl] = Free
        <4>1. fat' = fat
          BY <2>1, <2>2, <3>1
        <4> QED BY <4>1
      <3>2. CASE OnlyMine(cl) /\ fat[cl] # Free
        BY <2>1, <2>2, <3>2, RunsAvoid DEF OnlyMine
      <3> QED BY <2>2, <3>1, <3>2
    <2>4. ASSUME NEW s \in Tracked' \ cut' PROVE Covered(fat', dir'[s])
      <3>1. s \in Tracked \ cut /\ s \in Slots /\ s # slot[me]
        BY <2>1, <2>4 DEF Tracked
      <3>2. dir'[s] = dir[s] /\ dir[s] \in Items /\ Covered(fat, dir[s])
        BY <2>1, <3>1 DEF SizesCovered, TypeOK
      <3>3. fat[cl] = Free \/ dir[s].cluster # cl
        BY <2>1, <2>2, <3>1 DEF OnlyMine, Claims
      <3> QED BY <2>3, <3>2, <3>3, CoveredKept
    <2>5. ASSUME NEW d \in Fds \ stale', IsOpen(d)', ~Freeing(d)' PROVE Covered(fat', item'[d])
      <3>1. IsOpen(d) /\ ~Freeing(d) /\ slot[d] \in Slots /\ d \notin stale /\ d \notin Sharing /\ d # me
        BY <2>1, <2>5 DEF IsOpen, Freeing, TypeOK
      <3>2. item'[d] = item[d] /\ item[d] \in Items /\ Covered(fat, item[d])
        BY <2>1, <3>1 DEF SizesCovered, TypeOK
      <3>3. fat[cl] = Free \/ item[d].cluster # cl
        BY <2>2, <3>1 DEF OnlyMine, Claims, Sharing
      <3> QED BY <2>3, <3>2, <3>3, CoveredKept
    <2>6. SizesCovered'
      BY <2>4, <2>5 DEF SizesCovered
    <2> QED BY <2>1, <2>6 DEF ReadOnChain, WriteOnChain
  <1>2. CASE FreeDone
    <2>1. /\ pc = "free" /\ pc' = "idle" /\ me \in Fds
          /\ item' = [item EXCEPT ![me] = Truncated(item[me])]
          /\ UNCHANGED <<fat, dir, root, slot, cut, stale>>
      BY <1>2 DEF FreeDone, Return, volume, history, CallSound
    <2>2. \A f : Covered(f, Truncated(item[me]))
      BY DEF Covered, Truncated, Entry
    <2>3. ASSUME NEW d \in Fds \ stale', IsOpen(d)' PROVE Covered(fat', item'[d])
      BY <2>1, <2>2, <2>3 DEF SizesCovered, IsOpen, Freeing, TypeOK
    <2>4. SizesCovered'
      BY <2>1, <2>3 DEF SizesCovered, Tracked
    <2> QED BY <1>2, <2>4, ReturnOnChain DEF FreeDone
  <1> QED BY <1>1, <1>2

(* The walks of a table that grows. *)
LEMMA RunsAfterMark ==
    ASSUME NEW c \in Clusters, fat[c] = Free, fat \in [Clusters -> Links],
           fat' = [fat EXCEPT ![c] = EndOfChain]
    PROVE  /\ \A e \in Clusters : fat[e] \in Clusters => fat'[e] = fat[e]
           /\ \A h, k : k \in Nat => Runs(fat, h, k) \subseteq Runs(fat', h, k)
  <1>1. \A e \in Clusters : fat[e] \in Clusters => fat'[e] = fat[e]
    BY DEF Clusters, Free
  <1> QED BY <1>1, RunsGrow

(* A cluster that is marked is on no path that covers a size. *)
LEMMA LengthMark ==
    ASSUME FatInv, LengthInv, MarkCluster
    PROVE  LengthInv'
  <1> USE DEF FatInv, LengthInv, history
  <1>1. PICK c \in Clusters :
           /\ fat[c] = Free
           /\ fat' = [fat EXCEPT ![c] = EndOfChain]
           /\ IF cl = NoCluster
              THEN /\ item' = [item EXCEPT ![me] = WithCluster(item[me], c)]
                   /\ pc' = "walk" /\ cl' = c /\ ahead' = pos[me] \div ClusterSize
              ELSE new' = c /\ pc' = "link" /\ UNCHANGED <<item, cl, ahead>>
    BY DEF MarkCluster, fat16_find_free_cluster, FreeClusters
  <1>2. /\ pc = "mark" /\ me \in Fds /\ op = "write" /\ pos[me] \in Nat
        /\ item[me] \in Items /\ fat \in [Clusters -> Links] /\ item \in [Fds -> Items]
        /\ UNCHANGED <<dir, root, slot, pos, cut, stale, op, me, done, total>>
    BY DEF MarkCluster, CallSound, WriteOnChain, TypeOK
  <1>7. me \notin stale
    BY <1>2 DEF CallSound, Writing
  <1>3. /\ \A e \in Clusters : fat[e] \in Clusters => fat'[e] = fat[e]
        /\ \A h, k : k \in Nat => Runs(fat, h, k) \subseteq Runs(fat', h, k)
    BY <1>1, <1>2, RunsAfterMark
  <1>4. ReadOnChain'
    BY <1>2 DEF ReadOnChain
  <1>5. CASE cl = NoCluster
    <2>1. item[me].cluster = NoCluster /\ done = 0 /\ total > 0
      BY <1>2, <1>5 DEF WriteOnChain
    <2>2. ~(item[me].size > 0)
      <3> SUFFICES ASSUME item[me].size > 0 PROVE FALSE
        OBVIOUS
      <3>1. item[me].size \in Nat /\ LinksFor(item[me].size) \in Nat
        BY <1>2, CellInside DEF Items
      <3>2. Covered(fat, item[me])
        BY <1>2, <1>7 DEF SizesCovered, CallSound, Freeing
      <3>3. PICK p \in Runs(fat, NoCluster, LinksFor(item[me].size)) : TRUE
        BY <2>1, <3>2 DEF Covered
      <3>4. p[0] \in Clusters /\ p[0] = NoCluster
        BY <3>1 DEF Runs
      <3> QED BY <3>4 DEF Clusters, NoCluster
    <2>3. \A f : Covered(f, WithCluster(item[me], c))
      BY <2>2 DEF Covered, WithCluster, Entry
    <2>4. ASSUME NEW s \in Tracked' \ cut' PROVE Covered(fat', dir'[s])
      <3>1. dir'[s] = dir[s] /\ dir[s] \in Items /\ Covered(fat, dir[s])
        BY <1>2, <2>4 DEF SizesCovered, Tracked, TypeOK
      <3> QED BY <1>3, <3>1, CoveredKept
    <2>5. ASSUME NEW d \in Fds \ stale', IsOpen(d)' PROVE Covered(fat', item'[d])
      <3>1. CASE d = me
        BY <1>1, <1>2, <1>5, <2>3, <3>1
      <3>2. CASE d # me
        <4>1. item'[d] = item[d] /\ item[d] \in Items /\ Covered(fat, item[d])
          BY <1>1, <1>2, <1>5, <2>5, <3>2 DEF SizesCovered, IsOpen, Freeing
        <4> QED BY <1>3, <4>1, CoveredKept
      <3> QED BY <3>1, <3>2
    <2>6. SizesCovered'
      BY <2>4, <2>5 DEF SizesCovered
    <2>7. Offset' = pos[me] /\ pos[me] \div ClusterSize \in Nat
      BY <1>2, <2>1, ClusterOffsets DEF Offset
    <2>8. Offset' \div ClusterSize - ahead' = 0 /\ ahead' <= Offset' \div ClusterSize
      BY <1>1, <1>5, <2>7
    <2>9. item'[me'].cluster = c /\ cl' = c /\ pc' = "walk"
      BY <1>1, <1>2, <1>5 DEF WithCluster, Entry
    <2>10. \E p \in Runs(fat', c, 0) : p[0] = c
      BY RunStart
    <2>11. Reached(Offset \div ClusterSize - ahead)'
      BY <2>8, <2>9, <2>10 DEF Reached
    <2>12. WriteOnChain'
      BY <1>2, <2>1, <2>8, <2>9, <2>11 DEF WriteOnChain
    <2> QED BY <1>4, <2>6, <2>12
  <1>6. CASE cl # NoCluster
    <2>1. pc' = "link" /\ UNCHANGED <<item, cl, ahead>>
      BY <1>1, <1>6
    <2>2. SizesCovered'
      BY <1>2, <1>3, <2>1, SizesGrow
    <2>3. /\ done < total /\ ahead = 0 /\ fat[cl] = EndOfChain
          /\ Offset \div ClusterSize >= 1 /\ Reached(Offset \div ClusterSize - 1)
      BY <1>2, <1>6 DEF WriteOnChain
    <2>4. cl \in Clusters /\ cl # c
      BY <1>1, <1>2, <1>6, <2>3 DEF CallSound, Free, EndOfChain
    <2>5. fat'[cl'] = EndOfChain /\ Offset' = Offset
      BY <1>1, <1>2, <2>1, <2>3, <2>4 DEF Offset
    <2>6. Offset \div ClusterSize \in Nat
      BY <1>2, ClusterOffsets DEF Offset, TypeOK
    <2>7. Reached(Offset \div ClusterSize - 1)'
      BY <1>2, <1>3, <2>1, <2>3, <2>5, <2>6 DEF Reached
    <2>8. WriteOnChain'
      BY <1>2, <1>6, <2>1, <2>3, <2>5, <2>7 DEF WriteOnChain
    <2> QED BY <1>4, <2>2, <2>8
  <1> QED BY <1>5, <1>6

(* A refused mark changes no path. *)
LEMMA LengthMarkFails ==
    ASSUME FatInv, LengthInv, MarkFails
    PROVE  LengthInv'
  <1> USE DEF FatInv, LengthInv, history
  <1>1. /\ pc = "mark" /\ pc' = "idle" /\ me \in Fds /\ item[me] \in Items
        /\ item \in [Fds -> Items] /\ fat \in [Clusters -> Links]
        /\ UNCHANGED <<dir, root, slot, cut, stale>>
    BY DEF MarkFails, Return, CallSound, TypeOK
  <1>2. \A h, k : k \in Nat => Runs(fat, h, k) \subseteq Runs(fat', h, k)
    <2>1. CASE fat' = fat
      BY <2>1
    <2>2. CASE fat' # fat
      <3>1. PICK c \in Clusters : fat[c] = Free /\ fat' = [fat EXCEPT ![c] = EndOfChain]
        BY <2>2 DEF MarkFails, fat16_find_free_cluster, FreeClusters
      <3> QED BY <1>1, <3>1, RunsAfterMark
    <2> QED BY <2>1, <2>2
  <1>3. ASSUME NEW s \in Tracked' \ cut' PROVE Covered(fat', dir'[s])
    <2>1. dir'[s] = dir[s] /\ dir[s] \in Items /\ Covered(fat, dir[s])
      BY <1>1, <1>3 DEF SizesCovered, Tracked, TypeOK
    <2> QED BY <1>2, <2>1, CoveredKept
  <1>4. ASSUME NEW d \in Fds \ stale', IsOpen(d)' PROVE Covered(fat', item'[d])
    <2>1. item[d] \in Items /\ Covered(fat, item[d])
      BY <1>1, <1>4 DEF SizesCovered, IsOpen, Freeing
    <2>2. Covered(fat', item[d])
      BY <1>2, <2>1, CoveredKept
    <2>3. CASE item'[d] = item[d]
      BY <2>2, <2>3
    <2>4. CASE item'[d] # item[d]
      <3>1. d = me /\ cl = NoCluster /\ item'[d] = WithCluster(item[me], BadCluster)
        BY <1>1, <2>4 DEF MarkFails
      <3>2. item[me].cluster = NoCluster
        BY <1>1, <3>1 DEF WriteOnChain
      <3>3. ~(item[me].size > 0)
        <4> SUFFICES ASSUME item[me].size > 0 PROVE FALSE
          OBVIOUS
        <4>1. LinksFor(item[me].size) \in Nat
          BY <1>1, CellInside DEF Items
        <4>2. PICK p \in Runs(fat, NoCluster, LinksFor(item[me].size)) : TRUE
          BY <2>1, <3>1, <3>2 DEF Covered
        <4>3. p[0] \in Clusters /\ p[0] = NoCluster
          BY <4>1 DEF Runs
        <4> QED BY <4>3 DEF Clusters, NoCluster
      <3> QED BY <3>1, <3>3 DEF Covered, WithCluster, Entry
    <2> QED BY <2>3, <2>4
  <1>5. SizesCovered'
    BY <1>3, <1>4 DEF SizesCovered
  <1> QED BY <1>5, ReturnOnChain DEF MarkFails

(* The new cluster is one link further. *)
LEMMA LengthLink ==
    ASSUME FatInv, LengthInv, LinkCluster
    PROVE  LengthInv'
  <1> USE DEF FatInv, LengthInv, history
  <1> DEFINE k == Offset \div ClusterSize
  <1>1. /\ pc = "link" /\ fat' = [fat EXCEPT ![cl] = new]
        /\ cl' = new /\ pc' = "walk" /\ op = "write"
        /\ UNCHANGED <<dir, root, slot, item, pos, cut, stale, op, me, ahead, done, total>>
    BY DEF LinkCluster, desc, WriteOnChain
  <1>2. me \in Fds /\ cl \in Clusters /\ new \in Clusters /\ fat \in [Clusters -> Links]
    BY <1>1 DEF CallSound, TypeOK
  <1>3. done < total /\ ahead = 0 /\ fat[cl] = EndOfChain /\ k >= 1 /\ Reached(k - 1)
    BY <1>1, <1>2 DEF WriteOnChain, Clusters, NoCluster
  <1>4. \A e \in Clusters : fat[e] \in Clusters => fat'[e] = fat[e]
    BY <1>1, <1>2, <1>3 DEF Clusters, EndOfChain
  <1>5. SizesCovered'
    BY <1>1, <1>4, SizesGrow
  <1>6. Offset' = Offset /\ k \in Nat
    BY <1>1, <1>2, ClusterOffsets DEF Offset, TypeOK
  <1>7. PICK p \in Runs(fat, item[me].cluster, k - 1) : p[k - 1] = cl
    BY <1>3 DEF Reached
  <1> HIDE DEF k
  <1>8. k - 1 \in Nat /\ (k - 1) + 1 = k /\ k - ahead = k /\ ahead <= k
    BY <1>3, <1>6
  <1>9. p \in Runs(fat', item[me].cluster, k - 1) /\ fat'[p[k - 1]] = new
    BY <1>1, <1>2, <1>4, <1>7, <1>8, RunsGrow
  <1>10. \E q \in Runs(fat', item[me].cluster, (k - 1) + 1) : q[(k - 1) + 1] = new
    BY <1>2, <1>8, <1>9, RunNext
  <1>11. \E q \in Runs(fat', item'[me'].cluster, k - ahead) : q[k - ahead] = cl'
    BY <1>1, <1>8, <1>10
  <1>12. Reached(Offset \div ClusterSize - ahead)' /\ ahead' <= Offset' \div ClusterSize
    BY <1>1, <1>6, <1>8, <1>11 DEF Reached, k
  <1> QED BY <1>1, <1>3, <1>5, <1>12 DEF WriteOnChain, ReadOnChain

(* A refused link leaves the chain as it was, or longer. *)
LEMMA LengthLinkFails ==
    ASSUME FatInv, LengthInv, ~spoiled', LinkFails
    PROVE  LengthInv'
  <1> USE DEF FatInv, LengthInv, history
  <1>1. /\ pc = "link" /\ pc' = "idle" /\ Return
        /\ UNCHANGED <<dir, root, slot, item, cut, stale>>
    BY DEF LinkFails, Return, desc
  <1>2. /\ Unclaimed(new) /\ new \in Clusters /\ cl \in Clusters /\ cl # new
        /\ fat \in [Clusters -> Links]
    BY <1>1 DEF CallSound, TypeOK
  <1>3. fat[cl] = EndOfChain
    BY <1>1, <1>2 DEF WriteOnChain, Clusters, NoCluster
  <1>4. \/ fat' = fat
        \/ fat' = [fat EXCEPT ![new] = Free]
        \/ fat' = [fat EXCEPT ![cl] = new]
    BY <1>2 DEF LinkFails
  <1>5. \A h, k : h # new /\ k \in Nat => Runs(fat, h, k) \subseteq Runs(fat', h, k)
    <2>1. CASE fat' = fat
      BY <2>1
    <2>2. CASE fat' = [fat EXCEPT ![new] = Free]
      BY <1>2, <2>2, RunsAvoid DEF Unclaimed
    <2>3. CASE fat' = [fat EXCEPT ![cl] = new]
      <3>1. \A e \in Clusters : fat[e] \in Clusters => fat'[e] = fat[e]
        BY <1>2, <1>3, <2>3 DEF Clusters, EndOfChain
      <3> QED BY <3>1, RunsGrow
    <2> QED BY <1>4, <2>1, <2>2, <2>3
  <1>6. ASSUME NEW s \in Tracked' \ cut' PROVE Covered(fat', dir'[s])
    <2>1. dir'[s] = dir[s] /\ dir[s] \in Items /\ Covered(fat, dir[s])
      BY <1>1, <1>6 DEF SizesCovered, Tracked, TypeOK
    <2>2. dir[s].cluster # new
      BY <1>1, <1>2, <1>6 DEF Unclaimed, Claims, Tracked
    <2> QED BY <1>5, <2>1, <2>2, CoveredKept
  <1>7. ASSUME NEW d \in Fds \ stale', IsOpen(d)' PROVE Covered(fat', item'[d])
    <2>1. IsOpen(d) /\ ~Freeing(d) /\ slot[d] \in Slots /\ d \notin stale
      BY <1>1, <1>7 DEF IsOpen, Freeing, TypeOK
    <2>2. item'[d] = item[d] /\ item[d] \in Items /\ Covered(fat, item[d])
      BY <1>1, <2>1 DEF SizesCovered, TypeOK
    <2>3. item[d].cluster # new
      BY <1>2, <2>1 DEF Unclaimed, Claims
    <2> QED BY <1>5, <2>2, <2>3, CoveredKept
  <1>8. SizesCovered'
    BY <1>6, <1>7 DEF SizesCovered
  <1> QED BY <1>1, <1>8, ReturnOnChain

(* The new size is where the write has come to. *)
LEMMA LengthFinish ==
    ASSUME FatInv, LengthInv, FinishWrite
    PROVE  LengthInv'
  <1> USE DEF FatInv, LengthInv, history
  <1> DEFINE s == slot[me]
             i == Extended(item[me], pos[me] + total)
  <1>1. pc = "finish" /\ pc' = "idle" /\ Return /\ me \in Fds /\ s \in Slots
    BY DEF FinishWrite, Return, CallSound, IsOpen, TypeOK
  <1>2. /\ fat' = fat /\ root' = root /\ slot' = slot /\ stale' = stale
        /\ item' = [item EXCEPT ![me] = i] \/ item' = item
        /\ \/ dir' = [dir EXCEPT ![s] = i]
           \/ dir' = dir /\ cut' = cut
        /\ cut \ {s} \subseteq cut'
    BY DEF FinishWrite, EntrySlot
  <1>3. Covered(fat, i)
    <2>1. Runs(fat, item[me].cluster, LinksFor(pos[me] + total)) # {}
      BY <1>1 DEF WriteOnChain
    <2>2. i.cluster = item[me].cluster /\ i.size = pos[me] + total
      BY DEF Extended, Entry
    <2> QED BY <2>1, <2>2 DEF Covered
  <1> HIDE DEF i
  <1>4. ASSUME NEW t \in Tracked' \ cut' PROVE Covered(fat', dir'[t])
    <2>1. CASE dir'[t] = i
      BY <1>2, <1>3, <2>1
    <2>2. CASE dir'[t] # i
      <3>1. dir'[t] = dir[t] /\ t \in Tracked /\ t \in Slots
        BY <1>2, <1>4, <2>2 DEF Tracked, TypeOK
      <3>2. t \notin cut
        BY <1>2, <1>4, <2>2, <3>1 DEF TypeOK
      <3> QED BY <1>2, <3>1, <3>2 DEF SizesCovered
    <2> QED BY <2>1, <2>2
  <1>5. ASSUME NEW d \in Fds \ stale', IsOpen(d)' PROVE Covered(fat', item'[d])
    BY <1>1, <1>2, <1>3, <1>5 DEF SizesCovered, IsOpen, Freeing, TypeOK
  <1>6. SizesCovered'
    BY <1>4, <1>5 DEF SizesCovered
  <1> QED BY <1>1, <1>6, ReturnOnChain

(* Every step keeps all recorded sizes covered. *)
LEMMA LengthStep ==
    ASSUME FatInv, LengthInv, ~spoiled', [Next]_vars
    PROVE  LengthInv'
  <1>1. CASE UNCHANGED vars
    <2>1. UNCHANGED <<fat, dir, root, slot, item, pos, cut, stale, pc, op, me, cl, ahead, done, total>>
      BY <1>1 DEF vars, volume, desc, call, history
    <2> QED
      BY <2>1 DEF LengthInv, SizesCovered, Tracked, IsOpen, Freeing, ReadOnChain, WriteOnChain,
                  Reached, Offset
  <1>2. CASE Next
    BY <1>2, LengthCrash, LengthOpen, LengthCall, LengthWalk, LengthReadData, LengthWriteData,
       LengthFree, LengthMark, LengthMarkFails, LengthLink, LengthLinkFails, LengthFinish
    DEF Next
  <1> QED BY <1>1, <1>2

(* A nonempty set of naturals has a least element. *)
LEMMA LeastNat ==
    ASSUME NEW T, T \subseteq Nat, T # {}
    PROVE  \E x \in T : \A y \in T : x <= y
  <1>1. PICK x \in T : \A y \in T : ~(<<y, x>> \in OpToRel(<, Nat))
    BY WFMin, NatLessThanWellFounded
  <1>2. \A y \in T : ~(y < x)
    BY <1>1 DEF OpToRel
  <1> QED BY <1>2

(* A walk that begins at a head never comes to a cluster twice: the first  *)
(* one it came to again would have two links that lead to it.              *)
LEMMA RunsDoNotCircle ==
    ASSUME NEW f, ChainsApart(f), NEW h, IsHead(f, h), NEW k \in Nat, NEW p \in Runs(f, h, k)
    PROVE  \A i, j \in 0 .. k : p[i] = p[j] => i = j
  <1> DEFINE again == {i \in 0 .. k : \E j \in 0 .. k : i < j /\ p[i] = p[j]}
  <1>1. p \in [0 .. k -> Clusters] /\ p[0] = h
    BY DEF Runs
  <1>2. ASSUME again # {} PROVE FALSE
    <2>1. again \subseteq Nat
      OBVIOUS
    <2>2. PICK i \in again : \A x \in again : i <= x
      BY <1>2, <2>1, LeastNat
    <2>3. PICK j \in 0 .. k : i < j /\ p[i] = p[j]
      OBVIOUS
    <2>4. i \in 0 .. k /\ j \in 1 .. k /\ j - 1 \in 0 .. k /\ f[p[j - 1]] = p[j]
      BY <2>3 DEF Runs
    <2>5. CASE i = 0
      BY <1>1, <2>3, <2>4, <2>5 DEF IsHead
    <2>6. CASE i # 0
      <3>1. i \in 1 .. k /\ i - 1 \in 0 .. k /\ f[p[i - 1]] = p[i]
        BY <2>4, <2>6 DEF Runs
      <3>2. p[i - 1] \in Clusters /\ p[j - 1] \in Clusters /\ p[i] \in Clusters
        BY <1>1, <2>4, <3>1
      <3>3. p[i - 1] = p[j - 1]
        BY <2>3, <2>4, <3>1, <3>2 DEF ChainsApart
      <3>4. i - 1 \in again
        BY <2>3, <2>4, <3>1, <3>3
      <3> QED BY <2>2, <2>4, <3>4
    <2> QED BY <2>5, <2>6
  <1>3. again = {}
    BY <1>2
  <1> QED BY <1>3

(* The two invariants hold together. *)
LEMMA FatAndLength == Spec => [](~spoiled => FatInv /\ LengthInv)
  <1> DEFINE Inv == ~spoiled => FatInv /\ LengthInv
  <1>1. Init => Inv
    BY InvInit, LengthInit
  <1>2. Inv /\ [Next]_vars => Inv'
    BY InvStep, LengthStep, SpoiledStays
  <1> QED BY <1>1, <1>2, PTL DEF Spec

(* For every volume and every length of read and write: while a descriptor *)
(* reads what its copy of the entry says is there, the walk along the      *)
(* table never leaves the chain, although other descriptors write to the   *)
(* same file and the drive refuses writes, unless one of them truncated    *)
(* it.  fat16_get_cluster_for_offset therefore never fails a read inside   *)
(* of the size.                                                            *)
THEOREM ReadsStayInFiles == Spec => []ReadStaysInFile
  <1>1. (~spoiled => FatInv /\ LengthInv) => ReadStaysInFile
    <2> SUFFICES ASSUME FatInv, LengthInv, op = "read", pc = "walk", me \notin stale
                 PROVE  cl \in Clusters /\ (ahead > 0 => fat[cl] \in Clusters)
      BY DEF ReadStaysInFile
    <2> DEFINE k == Offset \div ClusterSize
    <2>1. /\ done < total /\ pos[me] + total <= item[me].size /\ ahead <= k
      BY DEF LengthInv, ReadOnChain
    <2>2. /\ k \in Nat /\ ahead \in Nat /\ item[me].size \in Nat
          /\ Offset \in Nat /\ pos[me] \in Nat /\ done \in Nat /\ total \in Nat
      BY <2>1, PartFacts
    <2>3. PICK p \in Runs(fat, item[me].cluster, LinksFor(item[me].size)) : p[k - ahead] = cl
      BY DEF LengthInv, ReadOnChain
    <2>4. LinksFor(item[me].size) \in Nat /\ k \in 0 .. LinksFor(item[me].size)
      BY <2>1, <2>2, CellInside DEF Offset
    <2> HIDE DEF k
    <2>5. k - ahead \in 0 .. LinksFor(item[me].size)
      BY <2>1, <2>2, <2>4
    <2>6. cl \in Clusters
      BY <2>3, <2>5 DEF Runs
    <2>7. ASSUME ahead > 0 PROVE fat[cl] \in Clusters
      <3>1. /\ (k - ahead) + 1 \in 1 .. LinksFor(item[me].size)
            /\ (k - ahead) + 1 \in 0 .. LinksFor(item[me].size)
            /\ ((k - ahead) + 1) - 1 = k - ahead
        BY <2>1, <2>2, <2>4, <2>7
      <3> QED BY <2>3, <3>1 DEF Runs
    <2> QED BY <2>6, <2>7
  <1> QED BY <1>1, FatAndLength, PTL

(* For every volume: at every moment, so also when the machine stops in    *)
(* the middle of a call, each file has, in its chain, a cluster of its own *)
(* for every cell that its size promises, until the volume is spoiled; but *)
(* for a file that was truncated and whose entry was not rewritten since.  *)
THEOREM SizesStayCovered == Spec => []SizeCovered
  <1>1. (~spoiled => FatInv /\ LengthInv) => SizeCovered
    <2> SUFFICES ASSUME FatInv, LengthInv, NEW s \in Slots \ cut,
                        dir[s].name \in Names, dir[s].size > 0
                 PROVE  \E p \in Runs(fat, dir[s].cluster, LinksFor(dir[s].size)) :
                            \A i, j \in DOMAIN p : p[i] = p[j] => i = j
      BY DEF SizeCovered
    <2> DEFINE k == LinksFor(dir[s].size)
               h == dir[s].cluster
    <2>1. s \in Tracked
      BY DEF FatInv, EntriesSound, Tracked
    <2>2. dir[s].size \in Nat /\ k \in Nat
      BY CellInside DEF FatInv, TypeOK, Items
    <2>3. PICK p \in Runs(fat, h, k) : TRUE
      BY <2>1 DEF LengthInv, SizesCovered, Covered
    <2>4. p \in [0 .. k -> Clusters] /\ p[0] = h /\ h \in Clusters
      BY <2>2, <2>3 DEF Runs
    <2>5. ChainsApart(fat) /\ IsHead(fat, h)
      BY <2>1, <2>4 DEF FatInv, ClaimsApart, Claims
    <2>6. \A i, j \in 0 .. k : p[i] = p[j] => i = j
      BY <2>2, <2>3, <2>5, RunsDoNotCircle
    <2> QED BY <2>3, <2>4, <2>6
  <1> QED BY <1>1, FatAndLength, PTL

-----------------------------------------------------------------------------
(* What a call may change.                                                 *)

(* Who may write has no read-only entry on the drive. *)
IsolationInv ==
    /\ \A d \in Fds : IsOpen(d) /\ ~item[d].ro /\ dir[slot[d]].name \in Names => ~dir[slot[d]].ro
    /\ pc \in {"free", "mark", "link", "finish"} => ~item[me].ro
    /\ op = "write" /\ pc = "walk" => ~item[me].ro

(* No call is under way when the volume is mounted. *)
LEMMA IsolationInit == Init => IsolationInv
  BY DEF Init, NoCall, IsolationInv, IsOpen

(* A step that leaves descriptors and entries keeps what was so, as long   *)
(* as a call under way is by a descriptor that may make it.                *)
LEMMA IsolationQuiet ==
    ASSUME IsolationInv, UNCHANGED <<dir, slot>>,
           \A d \in Fds : item'[d].ro = item[d].ro,
           pc' # "idle" => /\ pc' \in {"free", "mark", "link", "finish"} => ~item'[me'].ro
                           /\ op' = "write" => ~item'[me'].ro
    PROVE  IsolationInv'
  BY DEF IsolationInv, IsOpen

(* Only a file that may be written is truncated. *)
LEMMA IsolationOpen ==
    ASSUME FatInv, IsolationInv, NEW d \in Fds,
           \/ \E n \in Names, mode \in Modes : fat16_open(d, n, mode)
           \/ fat16_close(d)
    PROVE  IsolationInv'
  <1> USE DEF FatInv, volume, call
  <1>1. ASSUME NEW n \in Names, NEW mode \in Modes, OpenExisting(d, n, mode) PROVE IsolationInv'
    <2>1. PICK s \in Slots : /\ slot' = [slot EXCEPT ![d] = s]
                             /\ item' = [item EXCEPT ![d] = dir[s]]
      BY <1>1 DEF OpenExisting, FindItem, Descriptor, FreshItem
    <2>2. pc = "idle" /\ UNCHANGED <<dir, pc>>
      BY <1>1 DEF OpenExisting
    <2> QED BY <2>1, <2>2 DEF IsolationInv, IsOpen, TypeOK
  <1>2. ASSUME NEW n \in Names, OpenTruncate(d, n) PROVE IsolationInv'
    <2>1. PICK s \in Slots :
             /\ slot' = [slot EXCEPT ![d] = s]
             /\ item' = [item EXCEPT ![d] = dir[s]]
             /\ IF dir[s].ro THEN pc' = pc ELSE pc' = "free" /\ me' = d
      BY <1>2 DEF OpenTruncate, FindItem, Descriptor, FreshItem
    <2>2. pc = "idle" /\ dir' = dir /\ ~IsOpen(d)
      BY <1>2 DEF OpenTruncate
    <2>4. CASE dir[s].ro
      BY <2>1, <2>2, <2>4 DEF IsolationInv, IsOpen, TypeOK
    <2>5. CASE ~dir[s].ro
      BY <2>1, <2>2, <2>5 DEF IsolationInv, IsOpen, TypeOK
    <2> QED BY <2>4, <2>5
  <1>3. ASSUME NEW n \in Names, OpenCreate(d, n) PROVE IsolationInv'
    <2> DEFINE i == Entry(ShortName[n], NoCluster, 0, FALSE)
    <2>1. PICK s \in Slots :
             /\ root[s] \in {Unused, Deleted}
             /\ dir' = [dir EXCEPT ![s] = i] \/ dir' = dir
             /\ slot' = [slot EXCEPT ![d] = s]
             /\ item' = [item EXCEPT ![d] = i]
      BY <1>3 DEF OpenCreate, FreeSlot, Descriptor
    <2>2. ~i.ro
      BY DEF Entry
    <2>3. pc = "idle" /\ pc' = pc
      BY <1>3 DEF OpenCreate
    <2>4. dir[s].name \notin Names
      BY <2>1, Fat16Assumption DEF EntriesSound
    <2> HIDE DEF i
    <2>5. IsolationInv'
      <3>1. ASSUME NEW x \in Fds, slot'[x] # 0, ~item'[x].ro, dir'[slot'[x]].name \in Names
            PROVE  ~dir'[slot'[x]].ro
        <4>1. slot'[x] \in Slots
          BY <2>1, <3>1 DEF TypeOK
        <4>2. CASE slot'[x] = s
          BY <2>1, <2>2, <2>4, <3>1, <4>1, <4>2 DEF TypeOK
        <4>3. CASE slot'[x] # s
          <5>1. x # d /\ slot'[x] = slot[x] /\ item'[x] = item[x] /\ dir'[slot[x]] = dir[slot[x]]
            BY <2>1, <4>1, <4>3 DEF TypeOK
          <5> QED BY <3>1, <5>1 DEF IsolationInv, IsOpen
        <4> QED BY <4>2, <4>3
      <3> QED BY <2>3, <3>1 DEF IsolationInv, IsOpen
    <2> QED BY <2>5
  <1>4. CASE fat16_close(d)
    <2>1. /\ pc = "idle" /\ UNCHANGED <<dir, pc>>
          /\ slot' = [slot EXCEPT ![d] = 0] /\ item' = [item EXCEPT ![d] = NoItem]
      BY <1>4 DEF fat16_close, Descriptor
    <2> QED BY <2>1 DEF IsolationInv, IsOpen, TypeOK
  <1> QED BY <1>1, <1>2, <1>3, <1>4 DEF fat16_open

(* Only a descriptor that may write starts a write. *)
LEMMA IsolationCall ==
    ASSUME FatInv, IsolationInv, NEW d \in Fds,
           \/ \E offset \in 0 .. MaxPos, whence \in {"set", "cur"} : fat16_seek(d, offset, whence)
           \/ \E n \in ReadSizes : fat16_read(d, n)
           \/ \E n \in WriteSizes : fat16_write(d, n)
    PROVE  IsolationInv'
  <1> USE DEF volume, call, desc
  <1>1. CASE \E offset \in 0 .. MaxPos, whence \in {"set", "cur"} : fat16_seek(d, offset, whence)
    BY <1>1, IsolationQuiet DEF fat16_seek
  <1>2. ASSUME NEW n \in ReadSizes, fat16_read(d, n) PROVE IsolationInv'
    BY <1>2, IsolationQuiet DEF fat16_read, Locate
  <1>3. ASSUME NEW n \in WriteSizes, fat16_write(d, n) PROVE IsolationInv'
    BY <1>3, IsolationQuiet DEF fat16_write, Locate
  <1> QED BY <1>1, <1>2, <1>3

(* The steps of a call, which stay with its descriptor. *)
LEMMA IsolationGoOn ==
    ASSUME FatInv, LengthInv, IsolationInv,
           \/ FreeCluster \/ FreeDone \/ Walk \/ WalkFails \/ ReadData \/ WriteData \/ DataFails
           \/ MarkCluster \/ MarkFails \/ LinkCluster \/ LinkFails
    PROVE  IsolationInv'
  <1> USE DEF volume, call, desc
  <1>0. /\ me \in Fds /\ pc # "idle"
        /\ pc \in {"free", "mark", "link", "finish"} => ~item[me].ro
        /\ op = "write" /\ pc = "walk" => ~item[me].ro
        /\ item \in [Fds -> Items]
    BY DEF FreeCluster, FreeDone, Walk, WalkFails, ReadData, WriteData, DataFails, MarkCluster,
           MarkFails, LinkCluster, LinkFails, FatInv, CallSound, TypeOK, IsolationInv
  <1>1. CASE FreeCluster \/ Walk \/ WriteData \/ LinkCluster
    <2>1. UNCHANGED <<dir, slot, item, me, op>> /\ (pc = "free" => pc' = "free")
      BY <1>1 DEF FreeCluster, Walk, WriteData, LinkCluster
    <2>2. pc' # "idle" /\ (pc' \in {"free", "mark", "link", "finish"} => ~item[me].ro)
      BY <1>0, <1>1 DEF FreeCluster, Walk, WriteData, LinkCluster
    <2>3. pc # "free" /\ op = "write" => ~item[me].ro
      BY <1>0, <1>1 DEF FreeCluster, Walk, WriteData, LinkCluster
    <2> QED BY <1>0, <2>1, <2>2, <2>3, IsolationQuiet
  <1>2. CASE WalkFails \/ DataFails \/ LinkFails
    BY <1>2, IsolationQuiet DEF WalkFails, DataFails, LinkFails, Fail, Return
  <1>3. CASE FreeDone
    <2>1. Truncated(item[me]).ro = item[me].ro
      BY DEF Truncated, Entry
    <2> QED BY <1>0, <1>3, <2>1, IsolationQuiet DEF FreeDone, Return
  <1>4. CASE ReadData
    <2>1. UNCHANGED <<dir, slot, item>> /\ op' = "read" /\ pc' \in {"walk", "idle"}
      BY <1>4 DEF ReadData, Locate, Return
    <2>2. pc' = "walk" => me' = me
      BY <1>4 DEF ReadData, Return
    <2> QED BY <1>0, <2>1, <2>2, IsolationQuiet
  <1>5. CASE MarkCluster
    <2>1. \A c : WithCluster(item[me], c).ro = item[me].ro
      BY DEF WithCluster, Entry
    <2>2. UNCHANGED <<dir, slot, me, op>> /\ ~item[me].ro /\ pc' # "idle"
      BY <1>0, <1>5 DEF MarkCluster
    <2>3. \A d \in Fds : item'[d].ro = item[d].ro
      BY <1>0, <1>5, <2>1 DEF MarkCluster
    <2> QED BY <1>0, <2>2, <2>3, IsolationQuiet
  <1>6. CASE MarkFails
    <2>1. \A c : WithCluster(item[me], c).ro = item[me].ro
      BY DEF WithCluster, Entry
    <2>2. UNCHANGED <<dir, slot>> /\ pc' = "idle"
      BY <1>6 DEF MarkFails, Return
    <2>3. \A d \in Fds : item'[d].ro = item[d].ro
      BY <1>0, <1>6, <2>1 DEF MarkFails
    <2> QED BY <2>2, <2>3, IsolationQuiet
  <1> QED BY <1>1, <1>2, <1>3, <1>4, <1>5, <1>6

(* The last step of a write is on the writer's own entry. *)
LEMMA IsolationFinish ==
    ASSUME FatInv, IsolationInv, FinishWrite
    PROVE  IsolationInv'
  <1> USE DEF FatInv
  <1> DEFINE s == slot[me]
             i == Extended(item[me], pos[me] + total)
  <1>1. pc = "finish" /\ pc' = "idle" /\ me \in Fds /\ s \in Slots /\ ~item[me].ro
    BY DEF FinishWrite, Return, CallSound, IsOpen, TypeOK, IsolationInv
  <1>2. /\ slot' = slot
        /\ item' = [item EXCEPT ![me] = i] \/ item' = item
        /\ dir' = [dir EXCEPT ![s] = i] \/ dir' = dir
    BY DEF FinishWrite, EntrySlot
  <1>3. ~i.ro
    BY <1>1 DEF Extended, Entry
  <1> HIDE DEF i
  <1>4. ASSUME NEW x \in Fds, slot[x] # 0, ~item'[x].ro, dir'[slot[x]].name \in Names
        PROVE  ~dir'[slot[x]].ro
    <2>1. slot[x] \in Slots /\ ~item[x].ro
      BY <1>1, <1>2, <1>4 DEF TypeOK
    <2>2. CASE dir'[slot[x]] = i
      BY <1>3, <2>2
    <2>3. CASE dir'[slot[x]] # i
      <3>1. dir'[slot[x]] = dir[slot[x]]
        BY <1>2, <2>1, <2>3 DEF TypeOK
      <3> QED BY <1>4, <2>1, <3>1 DEF IsolationInv, IsOpen
    <2> QED BY <2>2, <2>3
  <1> QED BY <1>1, <1>2, <1>4 DEF IsolationInv, IsOpen

(* Every step keeps the isolation invariant. *)
LEMMA IsolationStep ==
    ASSUME FatInv, LengthInv, IsolationInv, [Next]_vars
    PROVE  IsolationInv'
  <1>1. CASE UNCHANGED vars
    BY <1>1 DEF vars, volume, desc, call, IsolationInv, IsOpen
  <1>2. CASE Crash
    BY <1>2 DEF Crash, Mounted, Return, volume, IsolationInv, IsOpen
  <1>3. CASE Next /\ ~Crash
    BY <1>3, IsolationOpen, IsolationCall, IsolationGoOn, IsolationFinish DEF Next
  <1> QED BY <1>1, <1>2, <1>3

(* A cluster outside of a set that holds the first one and follows the     *)
(* links is not on the chain.                                              *)
LEMMA NotOnChain ==
    ASSUME NEW f, NEW S \in SUBSET Clusters, NEW h \in S, FollowsLinks(f, S), NEW e, e \notin S
    PROVE  e \notin Chain(f, h)
  BY DEF Chain

(* A head is on no chain but its own. *)
LEMMA HeadNotOnChain ==
    ASSUME NEW f, NEW e, IsHead(f, e), NEW h \in Clusters, h # e
    PROVE  e \notin Chain(f, h)
  <1> DEFINE S == Clusters \ {e}
  <1>1. FollowsLinks(f, S)
    BY DEF FollowsLinks, IsHead
  <1> QED BY <1>1, NotOnChain

(* A free cluster is on no chain. *)
LEMMA FreeNotOnChain ==
    ASSUME NEW f, ChainsApart(f), NEW e, f[e] = Free, NEW h, IsHead(f, h)
    PROVE  e \notin Chain(f, h)
  <1> DEFINE S == {c \in Clusters : f[c] # Free}
  <1>1. FollowsLinks(f, S) /\ h \in S
    BY DEF FollowsLinks, ChainsApart, IsHead
  <1> QED BY <1>1, NotOnChain

(* What a walk from one head visits is not on the chain of another. *)
LEMMA RunNotOnChain ==
    ASSUME NEW f, ChainsApart(f), NEW g, IsHead(f, g), NEW h, IsHead(f, h), g # h,
           NEW k \in Nat, NEW p \in Runs(f, g, k)
    PROVE  p[k] \notin Chain(f, h)
  <1> DEFINE S == Clusters \ {p[i] : i \in 0 .. k}
  <1>1. p \in [0 .. k -> Clusters] /\ p[0] = g /\ k \in 0 .. k
    BY DEF Runs
  <1>2. ASSUME NEW i \in 0 .. k, NEW c \in Clusters, f[c] = p[i]
        PROVE  c \notin S
    <2>1. i # 0
      BY <1>1, <1>2 DEF IsHead
    <2>2. i \in 1 .. k /\ i - 1 \in 0 .. k /\ f[p[i - 1]] = p[i]
      BY <2>1 DEF Runs
    <2>3. p[i - 1] \in Clusters /\ p[i] \in Clusters
      BY <1>1, <2>2
    <2>4. c = p[i - 1]
      BY <1>2, <2>2, <2>3 DEF ChainsApart
    <2> QED BY <2>2, <2>4
  <1>3. FollowsLinks(f, S)
    BY <1>2 DEF FollowsLinks
  <1>4. \A i \in 0 .. k : p[i] # h
    <2> SUFFICES ASSUME NEW i \in 0 .. k, p[i] = h PROVE FALSE
      OBVIOUS
    <2>1. i # 0
      BY <1>1
    <2>2. i \in 1 .. k /\ i - 1 \in 0 .. k /\ f[p[i - 1]] = p[i]
      BY <2>1 DEF Runs
    <2> QED BY <1>1, <2>2 DEF IsHead
  <1>5. h \in S /\ p[k] \notin S
    BY <1>1, <1>4 DEF IsHead
  <1> QED BY <1>3, <1>5, NotOnChain

(* The two ways in which a step leaves the file of a slot alone or may     *)
(* change it.                                                              *)
LeftAlone(s) ==
    /\ dir'[s] = dir[s]
    /\ HasFile(dir, s) /\ s \notin cut => \A c \in Chain(fat, dir[s].cluster) : fat'[c] = fat[c]
ByItsWriter(s) == \E d \in Fds : slot[d] = s /\ ~dir[s].ro /\ me = d

(* The steps that write to the table. *)
LEMMA TableStepsIsolated ==
    ASSUME FatInv, LengthInv, IsolationInv,
           NEW s \in Slots, dir[s].name \in Names, slot[me] # s,
           FreeCluster \/ MarkCluster \/ MarkFails \/ LinkCluster \/ LinkFails
    PROVE  LeftAlone(s)
  <1> USE DEF FatInv
  <1>1. pc \in {"free", "mark", "link"} /\ me \in Fds /\ IsOpen(me) /\ slot[me] \in Slots
    BY DEF FreeCluster, MarkCluster, MarkFails, LinkCluster, LinkFails, CallSound, IsOpen, TypeOK
  <1>2. dir' = dir
    BY DEF FreeCluster, MarkCluster, MarkFails, LinkCluster, LinkFails
  <1>3. s \in Tracked
    BY DEF EntriesSound, Tracked
  <1> SUFFICES ASSUME HasFile(dir, s), s \notin cut, NEW c \in Chain(fat, dir[s].cluster)
               PROVE  fat'[c] = fat[c]
    BY <1>2 DEF LeftAlone
  <1> DEFINE h == dir[s].cluster
  <1>4. h \in Clusters /\ Claims(s, h) /\ IsHead(fat, h) /\ ChainsApart(fat)
    <2>1. h \in Clusters
      BY DEF HasFile, EntriesSound, TypeOK, Items
    <2>2. Claims(s, h)
      BY <1>3 DEF Claims
    <2> QED BY <2>1, <2>2 DEF ClaimsApart
  <1>5. c \in Clusters /\ fat \in [Clusters -> Links]
    BY DEF Chain, TypeOK
  <1> HIDE DEF h
  <1>6. CASE FreeCluster
    <2>1. fat' = [fat EXCEPT ![cl] = Free] /\ cl \in Clusters /\ (fat[cl] = Free \/ OnlyMine(cl))
      BY <1>6 DEF FreeCluster, CallSound
    <2>2. CASE fat[cl] = Free
      BY <1>5, <2>1, <2>2
    <2>3. CASE OnlyMine(cl)
      <3>1. cl # h /\ IsHead(fat, cl)
        BY <1>4, <2>3 DEF OnlyMine
      <3>2. cl \notin Chain(fat, h)
        BY <1>4, <3>1, HeadNotOnChain
      <3> QED BY <1>5, <2>1, <3>2 DEF h
    <2> QED BY <2>1, <2>2, <2>3
  <1>7. CASE MarkCluster \/ MarkFails
    <2>1. CASE fat' = fat
      BY <2>1
    <2>2. CASE fat' # fat
      <3>1. PICK e \in Clusters : fat[e] = Free /\ fat' = [fat EXCEPT ![e] = EndOfChain]
        BY <1>7, <2>2 DEF MarkCluster, MarkFails, fat16_find_free_cluster, FreeClusters
      <3>2. e \notin Chain(fat, h)
        BY <1>4, <3>1, FreeNotOnChain
      <3> QED BY <1>5, <3>1, <3>2 DEF h
    <2> QED BY <2>1, <2>2
  <1>8. CASE LinkCluster \/ LinkFails
    <2>1. pc = "link"
      BY <1>8 DEF LinkCluster, LinkFails
    <2>2. cl \in Clusters /\ new \in Clusters /\ Unclaimed(new)
      BY <2>1 DEF CallSound
    <2>3. new \notin Chain(fat, h)
      BY <1>3, <1>4, <2>2, HeadNotOnChain DEF Unclaimed
    <2> DEFINE k == Offset \div ClusterSize - 1
    <2>4. Offset \div ClusterSize >= 1 /\ Reached(k)
      BY <2>1, <2>2 DEF LengthInv, WriteOnChain, Clusters, NoCluster
    <2>5. k \in Nat
      BY <1>1, <2>4, ClusterOffsets DEF Offset, TypeOK
    <2>6. PICK p \in Runs(fat, item[me].cluster, k) : p[k] = cl
      BY <2>4 DEF Reached
    <2> HIDE DEF k
    <2>7. item[me].cluster \in Clusters
      BY <2>5, <2>6 DEF Runs
    <2>8. Claims(slot[me], item[me].cluster)
      BY <1>1, <2>1 DEF Claims, Freeing, CallSound, Writing
    <2>9. IsHead(fat, item[me].cluster) /\ item[me].cluster # h
      BY <1>1, <1>4, <2>7, <2>8 DEF ClaimsApart
    <2>10. cl \notin Chain(fat, h)
      BY <1>4, <2>5, <2>6, <2>9, RunNotOnChain
    <2>11. c # cl /\ c # new
      BY <2>3, <2>10 DEF h
    <2> QED BY <1>5, <1>8, <2>11 DEF LinkCluster, LinkFails
  <1> QED BY <1>6, <1>7, <1>8

(* For every volume and whatever the drive refuses: until the volume is    *)
(* spoiled a call on one file leaves the entries of all others and the     *)
(* clusters of their chains as they are, and no call changes a read-only   *)
(* file.                                                                   *)
THEOREM OthersStayUntouched == Spec => OthersUntouched
  <1> DEFINE Inv == ~spoiled => FatInv /\ LengthInv /\ IsolationInv
  <1>1. Init => Inv
    BY InvInit, LengthInit, IsolationInit
  <1>2. Inv /\ [Next]_vars => Inv'
    BY InvStep, LengthStep, IsolationStep, SpoiledStays
  <1>3. Inv /\ [Next]_vars =>
            [~spoiled' => \A s \in Slots : dir[s].name \in Names => LeftAlone(s) \/ ByItsWriter(s)]_vars
    <2> SUFFICES ASSUME Inv, Next, ~spoiled', NEW s \in Slots, dir[s].name \in Names
                 PROVE  LeftAlone(s) \/ ByItsWriter(s)
      OBVIOUS
    <2>0. FatInv /\ LengthInv /\ IsolationInv
      BY SpoiledStays
    <2> HIDE DEF Inv
    <2>1. CASE UNCHANGED <<fat, dir>>
      BY <2>1 DEF LeftAlone
    <2>2. ASSUME NEW d \in Fds, NEW n \in Names, OpenCreate(d, n)
          PROVE  LeftAlone(s)
      <3>1. PICK t \in Slots : /\ root[t] \in {Unused, Deleted}
                               /\ dir' = [dir EXCEPT ![t] = Entry(ShortName[n], NoCluster, 0, FALSE)]
                                  \/ dir' = dir
        BY <2>2 DEF OpenCreate, FreeSlot
      <3>2. t # s
        BY <2>0, <3>1, Fat16Assumption DEF FatInv, EntriesSound
      <3> QED BY <2>0, <2>2, <3>1, <3>2 DEF OpenCreate, LeftAlone, FatInv, TypeOK
    <2>3. CASE FreeCluster \/ MarkCluster \/ MarkFails \/ LinkCluster \/ LinkFails \/ FinishWrite
      <3>1. pc \in {"free", "mark", "link", "finish"} /\ me \in Fds /\ IsOpen(me)
        BY <2>0, <2>3 DEF FreeCluster, MarkCluster, MarkFails, LinkCluster, LinkFails, FinishWrite,
                    FatInv, CallSound
      <3>2. CASE slot[me] = s
        <4>1. ~item[me].ro
          BY <2>0, <3>1 DEF IsolationInv
        <4>2. ~dir[s].ro
          BY <2>0, <3>1, <3>2, <4>1 DEF IsolationInv
        <4> QED BY <3>1, <3>2, <4>2 DEF ByItsWriter
      <3>3. CASE slot[me] # s /\ ~FinishWrite
        BY <2>0, <2>3, <3>3, TableStepsIsolated
      <3>4. CASE slot[me] # s /\ FinishWrite
        BY <2>0, <3>4 DEF FinishWrite, EntrySlot, LeftAlone, FatInv, TypeOK
      <3> QED BY <3>2, <3>3, <3>4
    <2>4. CASE \/ Crash \/ FreeDone \/ Walk \/ WalkFails \/ ReadData \/ WriteData \/ DataFails
      <3>1. UNCHANGED <<fat, dir>>
        BY <2>4 DEF Crash, FreeDone, Walk, WalkFails, ReadData, WriteData, DataFails, Fail, volume
      <3> QED BY <2>1, <3>1
    <2>5. ASSUME NEW d \in Fds,
                 \/ \E n \in Names, mode \in Modes : OpenExisting(d, n, mode)
                 \/ \E n \in Names : OpenTruncate(d, n)
                 \/ fat16_close(d)
                 \/ \E offset \in 0 .. MaxPos, whence \in {"set", "cur"} :
                        fat16_seek(d, offset, whence)
                 \/ \E n \in ReadSizes : fat16_read(d, n)
                 \/ \E n \in WriteSizes : fat16_write(d, n)
          PROVE  LeftAlone(s)
      <3>1. UNCHANGED <<fat, dir>>
        BY <2>5 DEF OpenExisting, OpenTruncate, fat16_close, fat16_seek, fat16_read, fat16_write,
                    volume
      <3> QED BY <3>1 DEF LeftAlone
    <2> QED BY <2>2, <2>3, <2>4, <2>5 DEF Next, fat16_open
  <1>4. Inv /\ [Next]_vars =>
            [~spoiled' => \A s \in Slots :
                dir[s].name \in Names =>
                    \/ /\ dir'[s] = dir[s]
                       /\ HasFile(dir, s) /\ s \notin cut =>
                              \A c \in Chain(fat, dir[s].cluster) : fat'[c] = fat[c]
                    \/ \E d \in Fds : slot[d] = s /\ ~dir[s].ro /\ me = d
            ]_vars
    BY <1>3, Zenon DEF LeftAlone, ByItsWriter
  <1> QED BY <1>1, <1>2, <1>4, PTL DEF Spec, OthersUntouched

=============================================================================

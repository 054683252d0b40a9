-------------------------------- MODULE Fat16 --------------------------------
(***************************************************************************)
(* The FAT16 filesystem of src/fs/fat16.c on one drive, as the shell uses  *)
(* it.  One thread calls it, so operations do not overlap; what makes it   *)
(* hard is that an operation is many sector writes, that all of them go    *)
(* through one sector_buffer, that a sector of the FAT is cached, and that *)
(* the disk may be full or a read or write may fail in the middle.         *)
(*                                                                         *)
(* A step is one sector write of the code, or one entry of the FAT read,   *)
(* with the bookkeeping in memory around it.  Sizes are counted in         *)
(* clusters, and a cluster is one sector.  Names are names as typed, up to *)
(* the case of letters; a stored name is written as the name it is read as.*)
(***************************************************************************)
EXTENDS Integers, Sequences, FiniteSets, FiniteSetsExt

CONSTANTS
    Names,              \* file names
    name_to_83,         \* the stored form of each name, cut where it is too long
    MaxSize,            \* bound: clusters a text takes
    total_clusters,     \* clusters of the data area
    EntriesPerSector,   \* FAT entries in a sector (256 in the code)
    RootEntries,        \* entries of the root directory
    EntriesPerDirSector,\* directory entries in a sector (16 in the code)
    Stray,              \* the clusters that hold the sectors a write to FAT16_BAD_CLUSTER hits
    MaxFailures         \* bound: accesses that fail, drives that break and power failures

ASSUME Fat16Assumption ==
    /\ MaxSize \in Nat /\ total_clusters \in Nat /\ RootEntries \in Nat \ {0}
    /\ EntriesPerSector \in Nat \ {0} /\ EntriesPerDirSector \in Nat \ {0}
    /\ MaxFailures \in Nat
    /\ name_to_83 \in [Names -> Names]
    /\ \A n \in Names : name_to_83[name_to_83[n]] = name_to_83[n]
    /\ Stray \in [1..2 -> 2..total_clusters + 1]

VARIABLES
    boot,     \* does the drive hold a valid boot sector?
    fat,      \* the two copies of the FAT on the disk
    dir,      \* the root directory on the disk
    data,     \* what each cluster holds
    mounted,  \* fs.mounted
    cache,    \* fat_cache and fat_cache_sector
    op,       \* the operation under way, with its local variables
    expected, \* history: the text each file should hold
    health,   \* does the drive work, refuse to write, or fail altogether?
    failures  \* history: how often the drive or the power has failed
diskVars == <<boot, fat, dir, data>>
driveVars == <<health, failures>>
fatVars == <<boot, fat, dir, data, mounted, cache, op, expected, health, failures>>

(***************************************************************************)
(* Values of FAT entries.  FAT16_BAD_CLUSTER is in no entry here: it is    *)
(* what a failed read returns, and the code takes it for a cluster.        *)
(***************************************************************************)
FREE == 0
BAD_CLUSTER == total_clusters + 2
END_OF_CHAIN == BAD_CLUSTER + 1
RESERVED == END_OF_CHAIN + 1       \* the values of entries 0 and 1
Entries == 0..total_clusters + 1
Clusters == 2..total_clusters + 1
FatValues == 0..RESERVED
InChain(cluster) == cluster >= 2 /\ cluster < END_OF_CHAIN

(***************************************************************************)
(* The texts written to a file, told apart by their length, and the piece  *)
(* of a text that one cluster holds.                                       *)
(***************************************************************************)
TextsOf(name) == [tag : {name}, size : 0..MaxSize]
Piece(text, k) == <<text.tag, k>>
Pieces(text) == [k \in 1..text.size |-> Piece(text, k)]
NoText(why) == [tag |-> why, size |-> 0]
NoFile == NoText("no file")
Unknown == NoText("unknown")
Empty == NoText("empty")

ASSUME TagsAssumption == \A why \in {"no file", "unknown", "empty"} : why \notin Names

(***************************************************************************)
(* Directory entries: the end marker (0x00), a deleted one (0xE5), the     *)
(* volume label, a file, or bytes that are not a directory entry.          *)
(***************************************************************************)
Slots == 1..RootEntries
File(name, cluster_lo, size) ==
    [kind |-> "file", name |-> name, cluster_lo |-> cluster_lo, size |-> size]
Other(kind) == [kind |-> kind]
Files == [kind : {"file"}, name : Names, cluster_lo : 0..total_clusters + 1, size : 0..MaxSize]
DirEntries == Files \cup {Other(k) : k \in {"end", "deleted", "label", "garbage"}}

Healths == {"good", "readonly", "dead"}
OUTSIDE == -2   \* a sector that is not one of the FAT

NoOp == [pc |-> "idle"]
pcs == {"free", "clear", "alloc", "link", "mark", "data", "dir", "read", "delete"}

\* Both copies of the FAT, the root directory, the cached FAT sector and the
\* operation in progress have their types.
FatTypeOK ==
    /\ boot \in BOOLEAN /\ mounted \in BOOLEAN
    /\ fat \in [1..2 -> [Entries -> FatValues]]
    /\ dir \in [Slots -> DirEntries]
    /\ cache.sector \in {-1, OUTSIDE} \cup {c \div EntriesPerSector : c \in Entries}
    /\ op.pc \in {"idle"} \cup pcs
    /\ op # NoOp => mounted /\ op.slot \in Slots /\ dir[op.slot].kind = "file"
    /\ \A n \in Names : expected[n] \in TextsOf(n) \cup {NoFile, Unknown, Empty}
    /\ health \in Healths /\ failures \in 0..MaxFailures

-----------------------------------------------------------------------------
(***************************************************************************)
(* The drive (ata_read_sectors, ata_write_sectors).  An access may fail    *)
(* once, or the drive breaks and every write, or every access, fails.      *)
(***************************************************************************)
FailsOnce == failures < MaxFailures /\ failures' = failures + 1 /\ UNCHANGED health

ReadWorks == health # "dead" /\ UNCHANGED driveVars
ReadFails == (health = "dead" /\ UNCHANGED driveVars) \/ (health # "dead" /\ FailsOnce)
WriteWorks == health = "good" /\ UNCHANGED driveVars
WriteFails == (health # "good" /\ UNCHANGED driveVars) \/ (health = "good" /\ FailsOnce)

drive_breaks ==
    /\ health = "good" /\ failures < MaxFailures
    /\ health' \in {"readonly", "dead"}
    /\ failures' = failures + 1
    /\ UNCHANGED <<diskVars, mounted, cache, op, expected>>

(***************************************************************************)
(* The FAT and its cache of one sector.  The entry of BAD_CLUSTER would be *)
(* far behind the FAT, in a sector of the data area: two characters of the *)
(* text there, which may make the number of a cluster, or FREE where there *)
(* are zeros.                                                              *)
(***************************************************************************)
NoCache == [sector |-> -1]
SectorOf(cluster) == IF cluster = BAD_CLUSTER THEN OUTSIDE ELSE cluster \div EntriesPerSector
SectorEntries(s) == {c \in Entries : SectorOf(c) = s}

CacheOf(s) == [sector |-> s, entry |-> [c \in SectorEntries(s) |-> fat[1][c]]]
StrayValues == IF data[Stray[1]] = <<>> THEN {FREE} ELSE {FREE} \cup Clusters
SectorsRead(cluster) ==
    IF cluster # BAD_CLUSTER THEN {CacheOf(SectorOf(cluster))}
    ELSE {[sector |-> OUTSIDE, entry |-> [c \in {BAD_CLUSTER} |-> v]] : v \in StrayValues}

fat_read_entry(cluster, value) ==
    \/ /\ cache.sector = SectorOf(cluster)
       /\ value = cache.entry[cluster]
       /\ UNCHANGED <<cache, driveVars>>
    \/ /\ cache.sector # SectorOf(cluster) /\ ReadWorks
       /\ cache' \in SectorsRead(cluster)
       /\ value = cache'.entry[cluster]
    \/ /\ cache.sector # SectorOf(cluster) /\ ReadFails
       /\ value = BAD_CLUSTER
       /\ UNCHANGED cache

(***************************************************************************)
(* The sector is read from the first copy and written to both.  Where an   *)
(* access fails the copies differ, and the cache is not invalidated.  The  *)
(* entry of BAD_CLUSTER is cleared in the data area.                       *)
(***************************************************************************)
WholeSector(copy, cluster, value) ==
    [c \in Entries |-> IF SectorOf(c) = SectorOf(cluster)
                       THEN IF c = cluster THEN value ELSE fat[1][c]
                       ELSE fat[copy][c]]

Rewritten(copies, cluster, value) ==
    /\ fat' = [copy \in 1..2 |-> IF copy \in copies THEN WholeSector(copy, cluster, value)
                                 ELSE fat[copy]]
    /\ data' = [c \in Clusters |-> IF cluster = BAD_CLUSTER /\ \E copy \in copies : c = Stray[copy]
                                   THEN <<>> ELSE data[c]]

\* Fault: the cached sector is not invalidated.
fat_write_entry_keeps_cache(cluster, value) ==
    /\ WriteWorks
    /\ Rewritten(1..2, cluster, value)
    /\ UNCHANGED cache

fat_write_entry(cluster, value) ==
    \/ /\ WriteWorks
       /\ Rewritten(1..2, cluster, value)
       /\ cache' = NoCache
    \/ /\ WriteFails
       /\ \E n \in 0..1 : n <= (IF health = "good" THEN 1 ELSE 0) /\ Rewritten(1..n, cluster, value)
       /\ UNCHANGED cache

-----------------------------------------------------------------------------
(***************************************************************************)
(* The directory: a search ends at the first end marker, and compares the  *)
(* stored names with the name as it was typed (name_matches).  A name that *)
(* was cut is therefore never found.                                       *)
(***************************************************************************)
Visible == {s \in Slots : \A t \in 1..s : dir[t].kind # "end"}
Matches(name) == {s \in Visible : dir[s].kind = "file" /\ dir[s].name = name}
Found(name) == Matches(name) # {}
SlotOf(name) == Min(Matches(name))
FreeSlots == {s \in Slots : dir[s].kind \in {"end", "deleted"}}

FatInit ==
    /\ boot = FALSE /\ mounted = FALSE
    /\ fat = [copy \in 1..2 |-> [c \in Entries |-> FREE]]
    /\ dir = [s \in Slots |-> Other("end")]
    /\ data = [c \in Clusters |-> <<>>]
    /\ cache = NoCache
    /\ op = NoOp
    /\ expected = [n \in Names |-> NoFile]
    /\ health = "good" /\ failures = 0

(***************************************************************************)
(* The shell's format command: unmount, write the boot sector, the copies  *)
(* of the FAT and the root directory sector by sector and the sector of    *)
(* the label, and mount.  After the first sector of the first FAT the      *)
(* buffer has been cleared, so the reserved entries are only there.        *)
(* done counts the writes that succeed.                                    *)
(***************************************************************************)
FatSectors == SectorOf(total_clusters + 1) + 1
DirSector(s) == (s - 1) \div EntriesPerDirSector
DirSectors == DirSector(RootEntries) + 1
FormatWrites == 1 + 2 * FatSectors + DirSectors + 1

Formatted(done) ==
    /\ boot' = (boot \/ done >= 1)
    /\ fat' = [copy \in 1..2 |-> [c \in Entries |->
                IF done <= 1 + (copy - 1) * FatSectors + SectorOf(c) THEN fat[copy][c]
                ELSE IF copy = 1 /\ c <= 1 THEN RESERVED ELSE FREE]]
    /\ dir' = [s \in Slots |->
                IF done <= 1 + 2 * FatSectors + DirSector(s) THEN dir[s]
                ELSE Other(IF s = 1 /\ done = FormatWrites THEN "label" ELSE "end")]
    /\ expected' = [n \in Names |-> IF done <= 1 THEN expected[n]
                                    ELSE IF done = FormatWrites THEN NoFile ELSE Unknown]

cmd_format ==
    /\ op = NoOp
    /\ \/ WriteWorks /\ Formatted(FormatWrites) /\ mounted' = TRUE
       \/ /\ WriteFails
          /\ \E done \in 0..FormatWrites : (health = "good" \/ done = 0) /\ Formatted(done)
          /\ mounted' = FALSE
    /\ cache' = NoCache
    /\ UNCHANGED <<data, op>>

(***************************************************************************)
(* The kernel mounts the drive when it starts.                             *)
(***************************************************************************)
fat16_mount ==
    /\ op = NoOp /\ ~mounted
    /\ boot /\ ReadWorks
    /\ mounted' = TRUE
    /\ cache' = NoCache
    /\ UNCHANGED <<diskVars, op, expected>>

(***************************************************************************)
(* A restart of the kernel: the disk is what remains.                      *)
(***************************************************************************)
restart ==
    /\ mounted
    /\ IF op = NoOp THEN UNCHANGED driveVars ELSE FailsOnce
    /\ mounted' = FALSE /\ cache' = NoCache /\ op' = NoOp
    /\ UNCHANGED <<diskVars, expected>>

(***************************************************************************)
(* Creating a file.  A search that fails is taken for one that found       *)
(* nothing, and a name that was cut may be in the directory already.       *)
(***************************************************************************)
Created(name) ==
    /\ FreeSlots # {}
    /\ dir' = [dir EXCEPT ![Min(FreeSlots)] = File(name, 0, 0)]
    /\ expected' = IF Found(name) THEN expected ELSE [expected EXCEPT ![name] = Empty]

fat16_create_file(name) ==
    /\ op = NoOp /\ mounted
    /\ \/ ~Found(name) /\ WriteWorks /\ Created(name_to_83[name])
       \/ health = "good" /\ FailsOnce /\ Created(name_to_83[name])
       \/ WriteFails /\ UNCHANGED <<dir, expected>>
    /\ UNCHANGED <<boot, fat, data, mounted, cache, op>>

-----------------------------------------------------------------------------
(***************************************************************************)
(* Writing a file: free its chain, build a new one, update its entry.      *)
(***************************************************************************)
write_begin(name, text) ==
    /\ op = NoOp /\ mounted
    /\ Found(name) /\ ReadWorks
    /\ op' = [pc |-> "free", slot |-> SlotOf(name), text |-> text, then |-> "alloc",
              cluster |-> dir[SlotOf(name)].cluster_lo, next |-> 0,
              first |-> 0, prev |-> 0, done |-> 0]
    /\ expected' = [expected EXCEPT ![name] = Unknown]
    /\ UNCHANGED <<diskVars, mounted, cache>>

free_cluster ==
    /\ op.pc = "free" /\ InChain(op.cluster)
    /\ \E value \in FatValues : /\ fat_read_entry(op.cluster, value)
                                /\ op' = [op EXCEPT !.pc = "clear", !.next = value]
    /\ UNCHANGED <<diskVars, mounted, expected>>

\* Fault: the walk does not advance.
clear_cluster_stays ==
    /\ op.pc = "clear"
    /\ fat_write_entry(op.cluster, FREE)
    /\ op' = [op EXCEPT !.pc = "free", !.next = 0]
    /\ UNCHANGED <<boot, dir, mounted, expected>>

clear_cluster ==
    /\ op.pc = "clear"
    /\ fat_write_entry(op.cluster, FREE)
    /\ op' = [op EXCEPT !.pc = "free", !.cluster = op.next, !.next = 0]
    /\ UNCHANGED <<boot, dir, mounted, expected>>

freed ==
    /\ op.pc = "free" /\ ~InChain(op.cluster)
    /\ op' = [op EXCEPT !.pc = op.then, !.cluster = 2]
    /\ UNCHANGED <<diskVars, mounted, cache, expected, driveVars>>

OpEnds == op' = NoOp

(***************************************************************************)
(* The scan for a free cluster (fat_find_free_cluster), one entry at a     *)
(* time.  An entry whose read fails does not look free.                    *)
(***************************************************************************)
Taken ==
    [op EXCEPT !.pc = IF op.prev # 0 THEN "link" ELSE "mark",
               !.first = IF @ = 0 THEN op.cluster ELSE @]

\* Fault: the entry of the cluster is not looked at.
scan_cluster_blind ==
    /\ op.pc = "alloc" /\ op.done < op.text.size /\ op.cluster \in Clusters
    /\ op' = Taken
    /\ UNCHANGED <<diskVars, mounted, cache, expected, driveVars>>

scan_cluster ==
    /\ op.pc = "alloc" /\ op.done < op.text.size /\ op.cluster \in Clusters
    /\ \E value \in FatValues :
        /\ fat_read_entry(op.cluster, value)
        /\ op' = IF value = FREE THEN Taken ELSE [op EXCEPT !.cluster = @ + 1]
    /\ UNCHANGED <<diskVars, mounted, expected>>

disk_full ==
    /\ op.pc = "alloc" /\ op.done < op.text.size /\ op.cluster \notin Clusters
    /\ OpEnds
    /\ UNCHANGED <<diskVars, mounted, cache, expected, driveVars>>

link_cluster ==
    /\ op.pc = "link"
    /\ fat_write_entry(op.prev, op.cluster)
    /\ op' = [op EXCEPT !.pc = "mark"]
    /\ UNCHANGED <<boot, dir, mounted, expected>>

\* Fault: a new cluster is not marked as used.
mark_cluster_omitted ==
    /\ op.pc = "mark"
    /\ op' = [op EXCEPT !.pc = "data"]
    /\ UNCHANGED <<diskVars, mounted, cache, expected, driveVars>>

mark_cluster ==
    /\ op.pc = "mark"
    /\ fat_write_entry(op.cluster, END_OF_CHAIN)
    /\ op' = [op EXCEPT !.pc = "data"]
    /\ UNCHANGED <<boot, dir, mounted, expected>>

write_cluster ==
    /\ op.pc = "data"
    /\ \/ /\ WriteWorks
          /\ data' = [data EXCEPT ![op.cluster] = Piece(op.text, op.done + 1)]
          /\ op' = [op EXCEPT !.pc = "alloc", !.prev = op.cluster, !.cluster = 2, !.done = @ + 1]
       \/ WriteFails /\ OpEnds /\ UNCHANGED data
    /\ UNCHANGED <<boot, fat, dir, mounted, cache, expected>>

allocated ==
    /\ op.pc = "alloc" /\ op.done = op.text.size
    /\ op' = [op EXCEPT !.pc = "dir"]
    /\ UNCHANGED <<diskVars, mounted, cache, expected, driveVars>>

Updated(entry) == File(entry.name, op.first, op.text.size)

update_entry ==
    /\ op.pc = "dir"
    /\ \/ /\ WriteWorks
          /\ dir' = [dir EXCEPT ![op.slot] = Updated(@)]
          /\ expected' = [expected EXCEPT ![dir[op.slot].name] = op.text]
       \/ WriteFails /\ UNCHANGED <<dir, expected>>
    /\ OpEnds
    /\ UNCHANGED <<boot, fat, data, mounted, cache>>

fat16_write_file ==
    \/ \E name \in Names : \E text \in TextsOf(name) : write_begin(name, text)
    \/ free_cluster \/ clear_cluster \/ freed
    \/ scan_cluster \/ disk_full \/ link_cluster \/ mark_cluster \/ write_cluster \/ allocated
    \/ update_entry

-----------------------------------------------------------------------------
(***************************************************************************)
(* Reading a file, one cluster at a time.                                  *)
(***************************************************************************)
read_begin(name) ==
    /\ op = NoOp /\ mounted
    /\ Found(name) /\ ReadWorks
    /\ op' = [pc |-> "read", slot |-> SlotOf(name), cluster |-> dir[SlotOf(name)].cluster_lo,
              remaining |-> dir[SlotOf(name)].size, result |-> <<>>]
    /\ UNCHANGED <<diskVars, mounted, cache, expected>>

MoreToRead == op.remaining > 0 /\ InChain(op.cluster)
DataAt(cluster) == IF cluster = BAD_CLUSTER THEN <<>> ELSE data[cluster]

read_cluster ==
    /\ op.pc = "read" /\ MoreToRead /\ health # "dead"
    /\ \E value \in FatValues :
        /\ fat_read_entry(op.cluster, value)
        /\ op' = [op EXCEPT !.result = Append(@, DataAt(op.cluster)),
                            !.remaining = @ - 1,
                            !.cluster = value]
    /\ UNCHANGED <<diskVars, mounted, expected>>

read_fails ==
    /\ op.pc = "read" /\ MoreToRead
    /\ ReadFails
    /\ OpEnds
    /\ UNCHANGED <<diskVars, mounted, cache, expected>>

read_end ==
    /\ op.pc = "read" /\ ~MoreToRead
    /\ OpEnds
    /\ UNCHANGED <<diskVars, mounted, cache, expected, driveVars>>

fat16_read_file == (\E name \in Names : read_begin(name)) \/ read_cluster \/ read_fails \/ read_end

-----------------------------------------------------------------------------
(***************************************************************************)
(* Deleting a file.  The entry to be marked is in sector_buffer, which     *)
(* freeing a cluster has overwritten with a sector of the FAT; what is     *)
(* written back to the directory is whatever the buffer then holds.  The   *)
(* shell has no command that deletes, so only DeleteSpec has this action.  *)
(***************************************************************************)
delete_begin(name) ==
    /\ op = NoOp /\ mounted
    /\ Found(name) /\ ReadWorks
    /\ op' = [pc |-> "free", slot |-> SlotOf(name), then |-> "delete",
              cluster |-> dir[SlotOf(name)].cluster_lo, next |-> 0]
    /\ expected' = [expected EXCEPT ![name] = NoFile]
    /\ UNCHANGED <<diskVars, mounted, cache>>

BufferReused == InChain(dir[op.slot].cluster_lo)
SameDirSector(s, t) == DirSector(s) = DirSector(t)

mark_deleted ==
    /\ op.pc = "delete"
    /\ \/ /\ WriteWorks
          /\ dir' = [s \in Slots |->
                    IF BufferReused /\ SameDirSector(s, op.slot) THEN Other("garbage")
                    ELSE IF s = op.slot THEN Other("deleted") ELSE dir[s]]
       \/ WriteFails /\ UNCHANGED dir
    /\ OpEnds
    /\ UNCHANGED <<boot, fat, data, mounted, cache, expected>>

fat16_delete_file == (\E name \in Names : delete_begin(name)) \/ mark_deleted

-----------------------------------------------------------------------------
FatNext ==
    \/ cmd_format \/ fat16_mount \/ restart \/ drive_breaks
    \/ \E name \in Names : fat16_create_file(name)
    \/ fat16_write_file \/ fat16_read_file

FatSpec == FatInit /\ [][FatNext]_fatVars

DeleteSpec == FatInit /\ [][FatNext \/ fat16_delete_file]_fatVars

(***************************************************************************)
(* A thread that is inside an operation goes on: no step of it waits, and  *)
(* no tick takes the processor from it.                                    *)
(***************************************************************************)
Step ==
    \/ free_cluster \/ clear_cluster \/ freed \/ scan_cluster \/ disk_full
    \/ link_cluster \/ mark_cluster \/ write_cluster \/ allocated \/ update_entry
    \/ read_cluster \/ read_fails \/ read_end

FairSpec == FatSpec /\ WF_fatVars(Step)

-----------------------------------------------------------------------------
(***************************************************************************)
(* Properties.                                                             *)
(***************************************************************************)

\* As long as no sector write and no power fails, a file reads back as it was
\* last written, whatever was written to other files since, and however often
\* the disk was full: fat16_read_file ends with the pieces of that text in
\* order.  (After a write that found the disk full the content of that one file
\* is not specified.)
FilesReadBack ==
    failures = 0 /\ op.pc = "read" /\ ~MoreToRead =>
        LET text == expected[dir[op.slot].name]
        IN  text # Unknown => op.result = Pieces(text)

\* Every file that was created and not removed by formatting is found, where
\* a search stops at the first end marker, and no other.
FilesAreFound ==
    mounted => \A n \in Names : expected[n] # Unknown => (expected[n] # NoFile <=> Found(n))

\* What was written is still there: under its name and with its text, through
\* every sequence of writes, full disks, formats and mounts without a failure.
FilesIntact == FilesReadBack /\ FilesAreFound

\* As long as nothing fails, the cached sector is the one on the disk:
\* fat_write_entry invalidates the cache wherever fat_read_entry could otherwise
\* return an old value.
CacheCoherent ==
    failures = 0 /\ cache.sector # -1 => \A c \in SectorEntries(cache.sector) : cache.entry[c] = fat[1][c]

\* As long as nothing fails, the two copies of the FAT describe the same chains
\* between operations.
FatCopiesAgree ==
    failures = 0 /\ mounted /\ op = NoOp => \A c \in Clusters : fat[1][c] = fat[2][c]

\* The three places that hold a FAT entry (two copies on the disk, the cached
\* sector in memory) tell the same.
FatConsistent == CacheCoherent /\ FatCopiesAgree

\* Every operation returns, also after failed accesses have left a chain half
\* built, half freed or leading out of the FAT: the loops that follow chains end.
\* The exception is a drive that has broken while fat16_write_file frees the old
\* chain: that loop follows FAT16_BAD_CLUSTER to itself for ever.
OperationsEnd ==
    (op # NoOp) ~> (op = NoOp \/ (health # "good" /\ op.pc \in {"free", "clear"}))

\* As long as nothing fails, files share no cluster, and none of their clusters
\* is free to be given to another file: each cluster can be labelled with the
\* one entry whose chain it is in.  This holds for every entry, one that a write
\* to a full disk left with its old cluster_lo included; only the entry that is
\* being rewritten is left out.
ChainsApart ==
    failures = 0 /\ mounted =>
        \E owner \in [Clusters -> Slots \cup {0}] :
            /\ \A s \in Slots :
                (dir[s].kind = "file" /\ dir[s].cluster_lo # 0 /\ ~(op # NoOp /\ op.slot = s)) =>
                    owner[dir[s].cluster_lo] = s
            /\ \A c \in Clusters : owner[c] # 0 =>
                    /\ fat[1][c] # FREE
                    /\ fat[1][c] \in Clusters => owner[fat[1][c]] = owner[c]

\* An operation on a file changes no entry of the directory but that file's.
OthersKept ==
    [][op # NoOp => \A s \in Slots : s # op.slot => dir'[s] = dir[s]]_fatVars

\* fat16_format says that it writes the first sector, with the reserved
\* entries, for each copy of the FAT.
FormattedAlike == mounted => \A c \in 0..1 : fat[1][c] = fat[2][c]
=============================================================================

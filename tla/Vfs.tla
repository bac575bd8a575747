-------------------------------- MODULE Vfs --------------------------------
(***************************************************************************)
(* Files and directories of the RAM disk: kernel/vfs.c, the metadata side  *)
(* of kernel/rfs.c, and the descriptors of kernel/proc_file.c.             *)
(*                                                                         *)
(* A system call runs to its end without being preempted, so each one is a *)
(* step; the harts share these structures without a lock, and the model is *)
(* that of calls which do not overlap.  A dentry is identified by its path *)
(* from the root, the vinode in the hash table by its inode number.  Sizes *)
(* count directory entries for a directory and blocks for a file (RfsData  *)
(* has the bytes).  A directory is the one block rfs_add_direntry fills.   *)
(***************************************************************************)
EXTENDS Integers, Sequences, FiniteSets, SequencesExt, TLC

CONSTANTS
  Proc,       \* processes; a process that has exited does not come back
  NInodes,    \* disk inodes (the code has 320)
  NBlocks,    \* data blocks (the code has 100)
  MAX_FILES,  \* descriptors of a process (the code has 128)
  DirEntries, \* bound: entries in a directory (the code's block holds 128)
  FileBlocks, \* bound: blocks of a file (RFS_DIRECT_BLKNUM, unchecked)
  FilePath, DirPath,  \* the paths programs give open/link/unlink and mkdir
  Name, None

Inum  == 0 .. (NInodes - 1)
Block == 0 .. (NBlocks - 1)
Fd    == 0 .. (MAX_FILES - 1)

ASSUME VfsAssumption ==
  /\ IsFiniteSet(Proc)
  /\ MAX_FILES \in Nat \ {0} /\ DirEntries \in Nat /\ FileBlocks \in Nat \ {0}
  /\ NBlocks \in Nat \ {0} /\ NInodes \in Nat /\ NInodes >= NBlocks
  /\ None \notin Name

Root  == << >>            \* vfs_root_dentry, of the host file system
Mount == <<"RAMDISK0">>   \* where the RAM disk is mounted

VARIABLES
  inode,    \* the disk inodes
  ent,      \* the entries in the block of each directory, on disk
  freemap,  \* the blocks in use: s_fs_info, in memory only
  vinode,   \* vinode_hash_table: inode number -> vinode
  dentry,   \* dentry_hash_table: path -> dentry
  pfiles,   \* proc_file_management of each process
  alive,    \* processes that have not exited
  machine   \* "up", or why it stopped: "panic", "assert"

disk   == <<inode, ent, freemap>>
caches == <<vinode, dentry>>
vars   == <<disk, caches, pfiles, alive, machine>>

FreeDinode == [type |-> "free", size |-> 0, nlinks |-> 0, addrs |-> << >>]

NewDinode(type, b) == [type |-> type, size |-> 0, nlinks |-> 1, addrs |-> <<b>>]

\* rfs_update_vinode and rfs_write_back_vinode: the fields both inodes have.
Vinode(d, ref) == [type |-> d.type, size |-> d.size, nlinks |-> d.nlinks,
                   addrs |-> d.addrs, ref |-> ref]

Dinode(v) == [type |-> v.type, size |-> v.size, nlinks |-> v.nlinks,
              addrs |-> v.addrs]

\* fs_init: the RAM disk is formatted and mounted, and init_proc_file_management
\* has given every process an empty table and the root as working directory.
Init ==
  /\ inode = [i \in Inum |-> IF i = 0 THEN NewDinode("dir", 0) ELSE FreeDinode]
  /\ ent = [i \in Inum |-> << >>]
  /\ freemap = {0}
  /\ vinode = (0 :> Vinode(NewDinode("dir", 0), 1))
  /\ dentry = (Mount :> [inum |-> 0, d_ref |-> 0])
  /\ pfiles = [p \in Proc |-> [cwd |-> Root, nfiles |-> 0,
                               fds |-> [f \in Fd |-> None]]]
  /\ alive = Proc
  /\ machine = "up"

(***************************************************************************)
(* Disk allocation and directory entries                                   *)
(***************************************************************************)
FreeInums == {i \in Inum : inode[i].type = "free"}

\* The search of rfs_create.  Its test for "no more free disk inode" looks at
\* a pointer that is never NULL: a search that fails ends with inode 0.
FreeInum ==
  IF FreeInums = {} THEN 0
  ELSE CHOOSE i \in FreeInums : \A j \in FreeInums : i <= j

FreeBlocks == Block \ freemap

FreeBlock == CHOOSE b \in FreeBlocks : \A c \in FreeBlocks : b <= c

\* The entries the vinode knows of; only a directory has any.
Entries(i, v) == IF v.type = "dir" THEN SubSeq(ent[i], 1, v.size) ELSE << >>

\* rfs_lookup: the first of the vinode's entries with the name.
Lookup(i, v, name) ==
  LET es == Entries(i, v)
      k  == SelectInSeq(es, LAMBDA e : e.name = name)
  IN  IF k = 0 THEN None ELSE es[k].inum

\* Mutant: the block stays free.
MarkedNot == freemap

\* rfs_alloc_block marks the block it finds.
Marked == freemap \cup {FreeBlock}

\* Mutant: the entry is cut off at the end, not taken out.
WithoutEntryLast(es, k) == Front(es)

\* rfs_unlink moves the entries behind the k-th one place forward.
WithoutEntry(es, k) == RemoveAt(es, k)

\* rfs_add_direntry writes after the last entry the vinode knows of.
WithEntry(i, v, name, inum) ==
  Append(SubSeq(ent[i], 1, v.size), [name |-> name, inum |-> inum])

(***************************************************************************)
(* Path lookup                                                             *)
(***************************************************************************)
Erase(f, x) == [y \in DOMAIN f \ {x} |-> f[y]]

\* The child is in the dentry cache, or in its parent directory, in which case
\* dentry and vinode enter the caches; only RAMDISK0 is looked up in the root.
Descend(w, token) ==
  LET child == Append(w.this, token)
      dir   == w.den[w.this].inum
      found == IF w.this = Root THEN None ELSE Lookup(dir, w.vin[dir], token)
  IN  IF child \in DOMAIN w.den THEN [w EXCEPT !.this = child]
      ELSE IF found = None THEN [w EXCEPT !.miss = token]
      ELSE [w EXCEPT
              !.this = child,
              !.den = @ @@ (child :> [inum |-> found, d_ref |-> 0]),
              !.vin = IF found \in DOMAIN @ THEN [@ EXCEPT ![found].ref = @ + 1]
                      ELSE @ @@ (found :> Vinode(inode[found], 1))]

WalkToken(w, token) ==
  CASE w.miss # None -> w
    [] token = "."   -> w
    [] token = ".."  -> [w EXCEPT !.this = IF @ = Root THEN @ ELSE Front(@)]
    [] OTHER         -> Descend(w, token)

\* lookup_final_dentry, from the root or from cwd: the caches it leaves, and
\* the dentry found or the parent and the name that is missing.
WalkFrom(p, path, den, vin) ==
  FoldLeft(WalkToken,
           [this |-> IF path.abs THEN Root ELSE pfiles[p].cwd, miss |-> None,
            den |-> den, vin |-> vin],
           path.toks)

Walk(p, path) == WalkFrom(p, path, dentry, vinode)

At(w) == w.den[w.this].inum

\* The RAM disk inode a walk ended at; the root belongs to the host.
Found(w, type) == w.miss = None /\ w.this # Root /\ w.vin[At(w)].type = type

\* vfs_open and its like create only below a directory that was found.
Missing(w, path) == w.miss = Last(path.toks) /\ w.this # Root

Running(p) == machine = "up" /\ p \in alive

(***************************************************************************)
(* Descriptors                                                             *)
(***************************************************************************)
FreeFds(p) == {f \in Fd : pfiles[p].fds[f] = None}

FreeFd(p) == CHOOSE f \in FreeFds(p) : \A g \in FreeFds(p) : f <= g

\* do_open: nfiles counts the opens ever made, for no close counts down.
Install(p, path) ==
  IF pfiles[p].nfiles >= MAX_FILES
  THEN machine' = "panic" /\ UNCHANGED pfiles
  ELSE /\ pfiles' = [pfiles EXCEPT ![p].fds[FreeFd(p)] = path,
                                   ![p].nfiles = @ + 1]
       /\ UNCHANGED machine

\* A call that walks a path and then refuses: a missing file, a directory
\* where a file is wanted, a name that is taken.  What it cached stays.
Refuse(p, path) ==
  /\ Running(p)
  /\ LET w == Walk(p, path) IN
     /\ <<w.vin, w.den>> # <<vinode, dentry>>
     /\ vinode' = w.vin /\ dentry' = w.den
  /\ UNCHANGED <<disk, pfiles, alive, machine>>

Open(p, path) ==
  /\ Running(p)
  /\ LET w == Walk(p, path) IN
     /\ Found(w, "file")
     /\ vinode' = w.vin
     /\ dentry' = [w.den EXCEPT ![w.this].d_ref = @ + 1]
     /\ Install(p, w.this)
  /\ UNCHANGED <<disk, alive>>

\* open(O_CREAT) of a missing name: rfs_create, then the open.  Without a free
\* block, or below a regular file, the kernel panics.
Create(p, path) ==
  /\ Running(p)
  /\ LET w == Walk(p, path)
         dir == At(w)
         v == w.vin[dir]
         i == FreeInum
         d == NewDinode("file", FreeBlock)
     IN
     /\ Missing(w, path)
     /\ v.type = "dir" => v.size < DirEntries
     /\ IF FreeBlocks = {} \/ v.type # "dir"
        THEN machine' = "panic" /\ UNCHANGED <<disk, caches, pfiles>>
        ELSE /\ freemap' = Marked
             /\ inode' = [inode EXCEPT ![i] = d,
                                       ![dir] = Dinode([v EXCEPT !.size = @ + 1])]
             /\ ent' = [ent EXCEPT ![dir] = WithEntry(dir, v, w.miss, i)]
             /\ vinode' = [w.vin EXCEPT ![dir].size = @ + 1] @@ (i :> Vinode(d, 1))
             /\ dentry' = w.den @@ (Append(w.this, w.miss)
                                      :> [inum |-> i, d_ref |-> 1])
             /\ Install(p, Append(w.this, w.miss))
  /\ UNCHANGED alive

(***************************************************************************)
(* Reading, writing, closing                                               *)
(***************************************************************************)
IsOpen(p, f, type) ==
  /\ Running(p)
  /\ pfiles[p].fds[f] # None
  /\ vinode[dentry[pfiles[p].fds[f]].inum].type = type

\* lseek to any block n of the file, or to its end, and rfs_write of a block:
\* the vinode changes, the disk inode does not.
Write(p, f, n) ==
  /\ IsOpen(p, f, "file")
  /\ LET i == dentry[pfiles[p].fds[f]].inum
         v == vinode[i]
         grows == n = Len(v.addrs)
     IN
     /\ n <= v.size
     /\ IF grows /\ FreeBlocks = {}
        THEN machine' = "panic" /\ UNCHANGED <<freemap, vinode>>
        ELSE /\ freemap' = IF grows THEN Marked ELSE freemap
             /\ vinode' = [vinode EXCEPT
                  ![i].addrs = IF grows THEN Append(@, FreeBlock) ELSE @,
                  ![i].size = IF @ < n + 1 THEN n + 1 ELSE @]
             /\ UNCHANGED machine
  /\ UNCHANGED <<inode, ent, dentry, pfiles, alive>>

LastClose(path) == dentry[path].d_ref = 1

\* Mutant: the inode is not written back.
WriteBackNot(i, v) == inode

\* rfs_write_back_vinode.
WriteBack(i, v) == [inode EXCEPT ![i] = Dinode(v)]

\* vfs_close: the last close of a name frees its dentry, and the last dentry
\* of an inode writes the vinode back and frees it.
Close(p, f) ==
  /\ IsOpen(p, f, "file")
  /\ LET path == pfiles[p].fds[f]
         i == dentry[path].inum
         v == vinode[i]
         freed == LastClose(path)
     IN
     /\ dentry' = IF freed THEN Erase(dentry, path)
                  ELSE [dentry EXCEPT ![path].d_ref = @ - 1]
     /\ vinode' = CASE freed /\ v.ref = 1 -> Erase(vinode, i)
                    [] freed /\ v.ref # 1 -> [vinode EXCEPT ![i].ref = @ - 1]
                    [] OTHER -> vinode
     /\ inode' = IF freed /\ v.ref = 1 THEN WriteBack(i, v) ELSE inode
     /\ pfiles' = [pfiles EXCEPT ![p].fds[f] = None]
  /\ UNCHANGED <<ent, freemap, alive, machine>>

(***************************************************************************)
(* Directories                                                             *)
(***************************************************************************)
\* rfs_mkdir; below a regular file the new inode stays behind without a name.
Mkdir(p, path) ==
  /\ Running(p)
  /\ LET w == Walk(p, path)
         dir == At(w)
         v == w.vin[dir]
         i == FreeInum
         d == NewDinode("dir", FreeBlock)
     IN
     /\ Missing(w, path)
     /\ v.type = "dir" => v.size < DirEntries
     /\ IF FreeBlocks = {}
        THEN machine' = "panic" /\ UNCHANGED <<disk, caches>>
        ELSE /\ freemap' = Marked
             /\ UNCHANGED machine
             /\ IF v.type # "dir"
                THEN /\ inode' = [inode EXCEPT ![i] = d]
                     /\ vinode' = w.vin /\ dentry' = w.den
                     /\ UNCHANGED ent
                ELSE /\ inode' = [inode EXCEPT
                          ![i] = d, ![dir] = Dinode([v EXCEPT !.size = @ + 1])]
                     /\ ent' = [ent EXCEPT ![i] = << >>,
                                           ![dir] = WithEntry(dir, v, w.miss, i)]
                     /\ vinode' = [w.vin EXCEPT ![dir].size = @ + 1]
                                  @@ (i :> Vinode(d, 1))
                     /\ dentry' = w.den @@ (Append(w.this, w.miss)
                                              :> [inum |-> i, d_ref |-> 0])
  /\ UNCHANGED <<pfiles, alive>>

\* do_opendir: unlike do_open it looks for a free entry, not at nfiles.
OpenDir(p, path) ==
  /\ Running(p)
  /\ LET w == Walk(p, path) IN
     /\ Found(w, "dir")
     /\ vinode' = w.vin
     /\ dentry' = [w.den EXCEPT ![w.this].d_ref = @ + 1]
     /\ IF FreeFds(p) = {}
        THEN machine' = "panic" /\ UNCHANGED pfiles
        ELSE /\ pfiles' = [pfiles EXCEPT
                  ![p].fds[FreeFd(p)] = w.this,
                  ![p].nfiles = IF @ < MAX_FILES THEN @ + 1 ELSE @]
             /\ UNCHANGED machine
  /\ UNCHANGED <<disk, alive>>

\* The dentry and the vinode of a directory stay cached.
CloseDir(p, f) ==
  /\ IsOpen(p, f, "dir")
  /\ dentry' = [dentry EXCEPT ![pfiles[p].fds[f]].d_ref = @ - 1]
  /\ pfiles' = [pfiles EXCEPT ![p].fds[f] = None]
  /\ UNCHANGED <<disk, vinode, alive, machine>>

\* do_ccwd.
ChangeDir(p, path) ==
  /\ Running(p)
  /\ LET w == Walk(p, path) IN
     /\ w.miss = None
     /\ w.this # Root => Found(w, "dir")
     /\ w.this # pfiles[p].cwd
     /\ vinode' = w.vin /\ dentry' = w.den
     /\ pfiles' = [pfiles EXCEPT ![p].cwd = w.this]
  /\ UNCHANGED <<disk, alive, machine>>


LinkedNoLink(vin, i) == [vin EXCEPT ![i].ref = @ + 1]

\* The new dentry and the new name count.
Linked(vin, i) == [vin EXCEPT ![i].ref = @ + 1, ![i].nlinks = @ + 1]

\* alloc_vfs_dentry and rfs_link count the link before rfs_add_direntry, which
\* fails below a regular file; then the counts in memory stay one too high.
Link(p, old, new) ==
  /\ Running(p)
  /\ LET w1 == Walk(p, old)
         w2 == WalkFrom(p, new, w1.den, w1.vin)
         i == At(w1)
         dir == At(w2)
         v == w2.vin[dir]
         linked == Linked(w2.vin, i)
     IN
     /\ Found(w1, "file") /\ Missing(w2, new)
     /\ v.type = "dir" => v.size < DirEntries
     /\ IF v.type # "dir"
        THEN vinode' = linked /\ dentry' = w2.den /\ UNCHANGED disk
        ELSE /\ vinode' = [linked EXCEPT ![dir].size = @ + 1]
             /\ dentry' = w2.den @@ (Append(w2.this, w2.miss)
                                       :> [inum |-> i, d_ref |-> 0])
             /\ inode' = [inode EXCEPT ![i] = Dinode(linked[i]),
                                       ![dir] = Dinode([v EXCEPT !.size = @ + 1])]
             /\ ent' = [ent EXCEPT ![dir] = WithEntry(dir, v, w2.miss, i)]
             /\ UNCHANGED freemap
  /\ UNCHANGED <<pfiles, alive, machine>>

\* Mutant: the inode without a name is not freed.
UnlinkedKept(d, nlinks) == [d EXCEPT !.nlinks = nlinks]

\* The disk inode with one name less.
Unlinked(d, nlinks) ==
  IF nlinks = 0 THEN FreeDinode ELSE [d EXCEPT !.nlinks = nlinks]

\* vfs_unlink of a name nobody has open.  rfs_unlink asserts that vinode and
\* disk inode agree on nlinks, and frees the blocks the disk inode lists;
\* vfs_unlink asserts that an inode without a name has no dentry either.
Unlink(p, path) ==
  /\ Running(p)
  /\ LET w == Walk(p, path)
         i == At(w)
         dir == w.den[Front(w.this)].inum
         k == SelectInSeq(ent[dir], LAMBDA e : e.name = Last(w.this))
         d == inode[i]
         v == [w.vin[i] EXCEPT !.nlinks = @ - 1, !.ref = @ - 1]
         dirv == [w.vin[dir] EXCEPT !.size = @ - 1]
         gone == v.nlinks = 0
     IN
     /\ Found(w, "file") /\ w.den[w.this].d_ref = 0
     /\ IF d.nlinks # w.vin[i].nlinks \/ (gone /\ v.ref # 0)
        THEN machine' = "assert" /\ UNCHANGED <<disk, caches>>
        ELSE /\ inode' = [inode EXCEPT
                  ![i] = Unlinked(d, v.nlinks),
                  ![dir] = Dinode(dirv)]
             /\ freemap' = IF gone THEN freemap \ Range(d.addrs) ELSE freemap
             /\ ent' = [ent EXCEPT ![dir] = WithoutEntry(@, k)]
             /\ dentry' = Erase(w.den, w.this)
             /\ LET rest == [w.vin EXCEPT ![i] = v, ![dir] = dirv] IN
                vinode' = IF gone THEN Erase(rest, i) ELSE rest
             /\ UNCHANGED machine
  /\ UNCHANGED <<pfiles, alive>>

\* sys_user_exit leaves the descriptors of the process open for ever.
Exit(p) ==
  /\ Running(p)
  /\ alive' = alive \ {p}
  /\ UNCHANGED <<disk, caches, pfiles, machine>>

(***************************************************************************)
(* The specification                                                       *)
(***************************************************************************)
FileCall(p) ==
  \/ \E path \in FilePath : \/ Open(p, path)
                            \/ Create(p, path)
                            \/ Unlink(p, path)
                            \/ \E new \in FilePath : Link(p, path, new)
  \/ \E f \in Fd : Close(p, f) \/ \E n \in 0 .. (FileBlocks - 1) : Write(p, f, n)

DirCall(p) ==
  \/ \E path \in DirPath : Mkdir(p, path) \/ OpenDir(p, path) \/ ChangeDir(p, path)
  \/ \E f \in Fd : CloseDir(p, f)

Next ==
  \E p \in Proc :
    \/ FileCall(p)
    \/ DirCall(p)
    \/ \E path \in FilePath \cup DirPath : Refuse(p, path)
    \/ Exit(p)

Spec == Init /\ [][Next]_vars

(***************************************************************************)
(* Properties                                                              *)
(***************************************************************************)
TypeOK ==
  /\ \A i \in Inum : /\ inode[i].type \in {"free", "file", "dir"}
                     /\ inode[i].addrs \in Seq(Block)
                     /\ ent[i] \in Seq([name : Name, inum : Inum])
  /\ freemap \subseteq Block
  /\ DOMAIN vinode \subseteq Inum
  /\ \A q \in DOMAIN dentry : dentry[q].inum \in DOMAIN vinode
  /\ \A p \in Proc : pfiles[p].cwd \in DOMAIN dentry \cup {Root}
  /\ \A p \in Proc, f \in Fd :
       pfiles[p].fds[f] \in DOMAIN dentry \cup {None}
  /\ alive \subseteq Proc
  /\ machine \in {"up", "panic", "assert"}

Used == {i \in Inum : inode[i].type # "free"}

Dirs == {i \in Used : inode[i].type = "dir"}

\* The inode as the kernel sees it: the vinode if there is one.
Current(i) == IF i \in DOMAIN vinode THEN Dinode(vinode[i]) ELSE inode[i]

Names(i) == {<<d, k>> \in Dirs \X (1 .. DirEntries) :
               k \in DOMAIN ent[d] /\ ent[d][k].inum = i}

\* A descriptor that is open, in a living process or left behind by exit.
Opens(q) == {t \in Proc \X Fd : pfiles[t[1]].fds[t[2]] = q}


\* A cached dentry says what the directory on the disk says, so a hit in the
\* hash table and a lookup on the disk never give different files.
CacheCoherent ==
  \A q \in DOMAIN dentry \ {Mount} :
    LET dir == dentry[Front(q)].inum IN
    \E k \in DOMAIN ent[dir] : ent[dir][k] = [name |-> Last(q), inum |-> dentry[q].inum]

\* A directory has no two entries with the same name.
NamesUnique ==
  \A d \in Dirs : \A k, l \in DOMAIN ent[d] :
    ent[d][k].name = ent[d][l].name => k = l

\* The link count is the number of names, in the vinode as on the disk, and no
\* directory names a free inode: an inode is freed with its last name.
LinkCounts ==
  /\ NamesUnique
  /\ \A i \in Inum \ {0} :
       /\ inode[i].nlinks = Cardinality(Names(i))
       /\ (i \in Used) <=> (Names(i) # {})
       /\ i \in DOMAIN vinode => vinode[i].nlinks = inode[i].nlinks

\* A block that a file or a directory has is marked used and is nobody else's,
\* whatever part of the inode has been written back.
BlocksOwned ==
  /\ \A i \in Used : Range(Current(i).addrs) \subseteq freemap
  /\ \A i \in Used : \A j \in Used \ {i} :
       Range(Current(i).addrs) \cap Range(Current(j).addrs) = {}

\* rfs_create and rfs_mkdir never come to the end of the inodes: the disk runs
\* out of blocks first, which they notice.
InodeForBlock == FreeBlocks # {} => FreeInums # {}

\* The asserts of rfs_unlink and vfs_unlink hold.
AssertsHold == machine # "assert"

\* The blocks marked used are those some file or directory has: "if nlinks ==
\* 0, free the disk inode and disk blocks" (kernel/rfs.c:657).
NoBlockLost == freemap = UNION {Range(Current(i).addrs) : i \in Used}

\* The names, kinds and lengths of files as the code keeps them, partly on
\* disk and partly in the vinode cache, are those of a tree of named files.
Tree == INSTANCE FileTree WITH
  File <- Inum, RootDir <- 0,
  names <- UNION {{<<d, e.name, e.inum>> : e \in Range(ent[d])} : d \in Dirs},
  kind <- [i \in Inum |-> inode[i].type],
  len <- [i \in Inum |-> IF Current(i).type = "file" THEN Current(i).size ELSE 0]

TreeSpec == Tree!Spec
=============================================================================

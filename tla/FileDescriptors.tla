--------------------------- MODULE FileDescriptors ---------------------------
(***************************************************************************)
(* The fd tables of the PCBs on one terminal's chain and the read-only     *)
(* file system behind them: open, close and read (syscall.c) dispatching   *)
(* to file_read, dir_read and read_data (fs.c), the fd setup of execute    *)
(* and boot, and the fd teardown of halt.                                  *)
(*                                                                         *)
(* Every fd operation works on get_current_executing_pcb(), the leaf of    *)
(* the executing terminal, and touches no other PCB, so one chain of PCBs  *)
(* (depth 1 is the boot shell) is enough; which terminal runs is the       *)
(* business of KernelSched.  Reads on stdin and on the RTC change no fd    *)
(* state and are modelled in LineDiscipline and KernelSched.               *)
(*                                                                         *)
(* The image holds one regular file (inode 0) whose length and             *)
(* data_index[] are chosen at boot from Images; the data blocks, the       *)
(* dentries and FS_BLOCK_SIZE (4096 in fs.h) are small constants.          *)
(***************************************************************************)
EXTENDS Integers, Sequences, SequencesExt, FiniteSets, FiniteSetsExt

CONSTANTS
  FD_ARRAY_LEN,    \* syscall.h: 8
  FS_BLOCK_SIZE,   \* fs.h: 4096
  Blocks,          \* data_blocks[0 .. M-1], each a sequence of bytes
  Dentries,        \* dentries[0 .. MAX_NUM_DENTRIES-1]: [name, file_type, inode_index]
  EMPTY,           \* the name of an unused dentry (file_name[0] = '\0')
  Names,           \* file names a program passes to open
  Images,          \* candidate [length, data_index] of inode 0
  ReadSizes,       \* nbytes arguments of read()
  MaxDepth,        \* PCBs on the chain (boot shell included)
  NULL

ASSUME FD_ARRAY_LEN \in 3 .. 8 /\ FS_BLOCK_SIZE \in 1 .. 4
ASSUME MaxDepth \in 1 .. 3 /\ ReadSizes \subseteq Nat

NumDataBlocks  == Cardinality(DOMAIN Blocks)
NumDentries    == Cardinality(DOMAIN Dentries)
Fds            == 0 .. FD_ARRAY_LEN - 1
UserFds        == 2 .. FD_ARRAY_LEN - 1
Depths         == 1 .. MaxDepth
\* The jump table an fd points at, by name.
Kinds          == {"stdin", "stdout", "rtc", "dir", "file", NULL}
KindOf(type)   == CASE type = 0 -> "rtc" [] type = 1 -> "dir" [] type = 2 -> "file"

VARIABLES
  fs,       \* inode 0: [length, data_index]; never written
  depth,    \* the leaf's depth: the PCB get_current_executing_pcb returns
  fds,      \* fds[d][f]: fd_array[f] of the PCB at depth d
  got,      \* got[d][f]: bytes (a file) or names (a directory) read
            \* through fd f since it was opened
  opened    \* opened[d]: fds the program now running at depth d opened

vars == << fs, depth, fds, got, opened >>

-----------------------------------------------------------------------------
(* read_data, a pure operator over the image.                               *)

\* The file as the spec describes it: byte j of inode 0 lies in block
\* data_index[j \div FS_BLOCK_SIZE].
FileBytes(img) ==
  [j \in 1 .. img.length |->
     Blocks[img.data_index[(j - 1) \div FS_BLOCK_SIZE]][((j - 1) % FS_BLOCK_SIZE) + 1]]

\* read_data's validity loop: data_index[i] for i in 0 .. length/FS_BLOCK_SIZE.
BlocksValid(img) ==
  \A i \in 0 .. img.length \div FS_BLOCK_SIZE : img.data_index[i] < NumDataBlocks

\* read_data returns -1 unless the read lies inside the file and the loop
\* above passes.  offset + length is a uint32 sum; it can wrap only for a
\* file_position made negative by an earlier -1, and then the loop has
\* failed already.
ReadDataOk(img, off, n) == off + n <= img.length /\ BlocksValid(img)

\* read_data's copy loop: n more bytes from offset o of block di[blk],
\* moving to the next block once o reaches FS_BLOCK_SIZE.
RECURSIVE ReadLoop(_, _, _, _)
ReadLoop(di, blk, o, n) ==
  IF n = 0 THEN << >>
  ELSE IF o >= FS_BLOCK_SIZE THEN ReadLoop(di, blk + 1, 0, n)
  ELSE << Blocks[di[blk]][o + 1] >> \o ReadLoop(di, blk, o + 1, n - 1)

\* Mutation of ReadData: the copy starts in the first block whatever the
\* offset.
ReadDataFirstBlock(img, off, n) ==
  ReadLoop(img.data_index, 0, off % FS_BLOCK_SIZE, n)

\* The bytes read_data(0, off, buf, n) writes when it succeeds.
ReadData(img, off, n) ==
  ReadLoop(img.data_index, off \div FS_BLOCK_SIZE, off % FS_BLOCK_SIZE, n)

-----------------------------------------------------------------------------
(* The fd table.                                                            *)

StdFd(kind, e) == [e EXCEPT !.active = TRUE, !.kind = kind]

\* boot(): the boot shell's stdin and stdout are set up and the other
\* slots marked free; their other fields are never read before open
\* writes them.
Init ==
  /\ fs \in Images
  /\ depth = 1
  /\ fds = [d \in Depths |-> [f \in Fds |->
             [active |-> d = 1 /\ f < 2,
              kind   |-> IF d = 1 /\ f < 2 THEN IF f = 0 THEN "stdin" ELSE "stdout"
                         ELSE NULL,
              inode  |-> 0, pos |-> 0]]]
  /\ got = [d \in Depths |-> [f \in Fds |-> << >>]]
  /\ opened = [d \in Depths |-> {}]

\* execute: the child PCB gets stdin and stdout; slots 2.. are marked
\* free and keep whatever else the PCB memory held.
Execute ==
  LET c == depth + 1 IN
  /\ depth < MaxDepth
  /\ depth' = c
  /\ fds' = [fds EXCEPT ![c] = [f \in Fds |->
               CASE f = 0 -> StdFd("stdin", @[f])
                 [] f = 1 -> StdFd("stdout", @[f])
                 [] OTHER -> [@[f] EXCEPT !.active = FALSE]]]
  /\ opened' = [opened EXCEPT ![c] = {}]
  /\ UNCHANGED << fs, got >>

\* halt: a boot shell (no parent) is relaunched at its entry point at
\* once; any other task has every slot's flags and jump table cleared
\* and returns to its parent.
Halt ==
  /\ IF depth = 1
       THEN UNCHANGED fds
       ELSE fds' = [fds EXCEPT ![depth] = [f \in Fds |->
                      [@[f] EXCEPT !.active = FALSE, !.kind = NULL]]]
  /\ depth' = IF depth = 1 THEN 1 ELSE depth - 1
  /\ opened' = IF depth = 1 THEN [opened EXCEPT ![1] = {}] ELSE opened
  /\ UNCHANGED << fs, got >>

\* read_dentry_by_index: an index past the table fails, else the copy of
\* dentries[index].
ReadDentryByIndex(index) == IF index >= NumDentries THEN NULL ELSE Dentries[index]

\* read_dentry_by_name: an empty name fails at once; otherwise the scan of
\* all MAX_NUM_DENTRIES entries stops at the first whose name compares
\* equal (names here are shorter than strncmp's 32 bytes).  An unused
\* dentry's name is empty, so without the first test "" would find it.
ReadDentryByName(fname) ==
  LET hits == {i \in DOMAIN Dentries : Dentries[i].name = fname}
  IN  IF fname = EMPTY \/ hits = {} THEN NULL ELSE Dentries[Min(hits)]

\* Mutation of Open: the free-slot scan gives up at i > FD_ARRAY_LEN, so
\* a full table hands out slot FD_ARRAY_LEN.
OpenPastEnd(name) ==
  LET free == {f \in 2 .. FD_ARRAY_LEN : f = FD_ARRAY_LEN \/ ~fds[depth][f].active}
      f    == Min(free)
      d    == ReadDentryByName(name)
  IN
  /\ d # NULL
  /\ fds' = [fds EXCEPT ![depth][f] =
               [active |-> TRUE, kind |-> KindOf(d.file_type),
                inode |-> IF d.file_type = 2 THEN d.inode_index ELSE 0, pos |-> 0]]
  /\ got' = [got EXCEPT ![depth][f] = << >>]
  /\ opened' = [opened EXCEPT ![depth] = @ \cup {f}]
  /\ UNCHANGED << fs, depth >>

\* open(name): fails for an unknown name or with no free slot; otherwise
\* the lowest free slot >= 2 gets position 0, the type's jump table and
\* (for a regular file) the inode, and is marked active last.
Open(name) ==
  LET free == {f \in UserFds : ~fds[depth][f].active}
      f    == Min(free)
      d    == ReadDentryByName(name)
  IN
  /\ d # NULL
  /\ free # {}
  /\ fds' = [fds EXCEPT ![depth][f] =
               [active |-> TRUE, kind |-> KindOf(d.file_type),
                inode |-> IF d.file_type = 2 THEN d.inode_index ELSE 0, pos |-> 0]]
  /\ got' = [got EXCEPT ![depth][f] = << >>]
  /\ opened' = [opened EXCEPT ![depth] = @ \cup {f}]
  /\ UNCHANGED << fs, depth >>

\* close(fd): fails for fd < 2 or an inactive fd; clears the active bit.
Close(f) ==
  /\ f \in UserFds
  /\ fds[depth][f].active
  /\ fds' = [fds EXCEPT ![depth][f].active = FALSE]
  /\ opened' = [opened EXCEPT ![depth] = @ \ {f}]
  /\ UNCHANGED << fs, depth, got >>

\* Mutation of FileRead: nbytes is not clipped to the rest of the file.
FileReadNoClip(f, n) ==
  LET e  == fds[depth][f]
      ok == ReadDataOk(fs, e.pos, n)
  IN
  /\ e.active /\ e.kind = "file"
  /\ fds' = [fds EXCEPT ![depth][f].pos = @ + (IF ok THEN n ELSE -1)]
  /\ got' = IF ok THEN [got EXCEPT ![depth][f] = @ \o ReadData(fs, e.pos, n)]
            ELSE got
  /\ UNCHANGED << fs, depth, opened >>

\* read(fd) on a regular file, file_read: clip nbytes to length - position,
\* call read_data and add its result, -1 included, to file_position.
FileRead(f, n) ==
  LET e   == fds[depth][f]
      cnt == IF fs.length - e.pos < n THEN fs.length - e.pos ELSE n
      ok  == ReadDataOk(fs, e.pos, cnt)
  IN
  /\ e.active /\ e.kind = "file"
  /\ fds' = [fds EXCEPT ![depth][f].pos = @ + (IF ok THEN cnt ELSE -1)]
  /\ got' = IF ok THEN [got EXCEPT ![depth][f] = @ \o ReadData(fs, e.pos, cnt)]
            ELSE got
  /\ UNCHANGED << fs, depth, opened >>

\* Mutation of DirRead: the found index is not stepped past, so the next
\* dir_read returns the same name again.
DirReadNoStep(f) ==
  LET e    == fds[depth][f]
      used == {i \in e.pos .. NumDentries - 1 : ReadDentryByIndex(i).name # EMPTY}
  IN
  /\ e.active /\ e.kind = "dir"
  /\ fds' = [fds EXCEPT ![depth][f].pos = IF used = {} THEN NumDentries ELSE Min(used)]
  /\ got' = IF used = {} THEN got
            ELSE [got EXCEPT ![depth][f] = Append(@, ReadDentryByIndex(Min(used)).name)]
  /\ UNCHANGED << fs, depth, opened >>

\* read(fd) on a directory, dir_read: from file_position, read dentries by
\* index, stepping past each, until a used one, whose name is copied out;
\* file_position is left past it, or at the end of the table.  Called at
\* the end, the loop does not run and nothing is copied.
DirRead(f) ==
  LET e    == fds[depth][f]
      used == {i \in e.pos .. NumDentries - 1 : ReadDentryByIndex(i).name # EMPTY}
  IN
  /\ e.active /\ e.kind = "dir"
  /\ fds' = [fds EXCEPT ![depth][f].pos =
               IF used = {} THEN IF e.pos < NumDentries THEN NumDentries ELSE e.pos
                            ELSE Min(used) + 1]
  /\ got' = IF used = {} THEN got
            ELSE [got EXCEPT ![depth][f] = Append(@, ReadDentryByIndex(Min(used)).name)]
  /\ UNCHANGED << fs, depth, opened >>

Next ==
  \/ Execute
  \/ Halt
  \/ \E name \in Names : Open(name)
  \/ \E f \in UserFds : Close(f) \/ DirRead(f) \/ \E n \in ReadSizes : FileRead(f, n)

Spec == Init /\ [][Next]_vars

-----------------------------------------------------------------------------
(* Properties.                                                              *)

TypeOK ==
  /\ fs \in Images
  /\ depth \in Depths
  /\ \A d \in Depths, f \in Fds :
       /\ fds[d][f].active \in BOOLEAN /\ fds[d][f].kind \in Kinds
       /\ fds[d][f].pos \in Int
  /\ opened \in [Depths -> SUBSET UserFds]

\* Spec property 4, read_data against the file: every read that lies
\* inside the file and passes read_data's checks returns exactly bytes
\* off+1 .. off+n of it, across block boundaries (which makes the split
\* reads of property 4 agree with the whole read).
ReadDataMatchesFile ==
  \A off \in 0 .. fs.length : \A n \in 0 .. fs.length - off :
    ReadDataOk(fs, off, n) =>
      ReadData(fs, off, n) = [j \in 1 .. n |-> FileBytes(fs)[off + j]]

\* Successive reads of an open regular file return the file in order:
\* file_position stays within the file and the bytes read so far are
\* exactly its first file_position bytes.  file_read's clipping,
\* read_data's checks and the position update must agree for this.
FileReadsInOrder ==
  \A d \in 1 .. depth, f \in UserFds :
    fds[d][f].active /\ fds[d][f].kind = "file" =>
      /\ fds[d][f].pos \in 0 .. fs.length
      /\ got[d][f] = [j \in 1 .. fds[d][f].pos |-> FileBytes(fs)[j]]

\* Names of the used dentries below index p, in table order: what a
\* directory listing has returned once file_position is p.
ListedBelow(p) ==
  LET idx == SetToSortSeq({i \in 0 .. p - 1 : i \in DOMAIN Dentries /\ Dentries[i].name # EMPTY}, <)
  IN  [j \in DOMAIN idx |-> Dentries[idx[j]].name]

\* Spec 4.B, directory read: successive reads of an open directory list
\* each used dentry once, in table order, and skip the unused ones;
\* file_position is the next dentry to look at.  dir_read's loop, its step past the found entry
\* and read_dentry_by_index must agree for this, across reads.
DirReadsInOrder ==
  \A d \in 1 .. depth, f \in UserFds :
    fds[d][f].active /\ fds[d][f].kind = "dir" =>
      /\ fds[d][f].pos \in 0 .. NumDentries
      /\ got[d][f] = ListedBelow(fds[d][f].pos)

\* Spec 4.F, halt "closes all FDs": every fd open in a live PCB was opened
\* by the program now running there, so a relaunched or newly executed
\* program starts with only stdin and stdout.
FdsOwnedByProgram ==
  \A d \in 1 .. depth :
    {f \in UserFds : fds[d][f].active} \subseteq opened[d]

=============================================================================

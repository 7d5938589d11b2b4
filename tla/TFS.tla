-------------------------------- MODULE TFS --------------------------------
(***************************************************************************)
(* TecnicoFS, the in-memory file system that holds the boxes: inode table, *)
(* data blocks, the root directory and the open file table of fs/state.c,  *)
(* and the operations of fs/operations.c on them.  Every operation runs    *)
(* with g_library_mutex held from its first line to its last, so each is   *)
(* one action; ret is what it returns.                                     *)
(*                                                                         *)
(* A file has at most one block.  Files are created by name in the root    *)
(* directory only.                                                         *)
(***************************************************************************)
EXTENDS Integers, Sequences

CONSTANTS
  Names,          (* file names callers use                               *)
  Bytes,          (* the bytes callers write                              *)
  NoName,         (* the d_name of an empty directory slot                *)
  MaxInodes,      (* max_inode_count                                      *)
  MaxBlocks,      (* max_block_count                                      *)
  MaxOpen,        (* max_open_files_count                                 *)
  MaxDirEntries,  (* MAX_DIR_ENTRIES                                      *)
  BlockSize       (* block_size                                           *)

ASSUME TFSAssumption ==
  /\ MaxInodes \in Nat \ {0} /\ MaxBlocks \in Nat \ {0}
  /\ MaxOpen \in Nat /\ MaxDirEntries \in Nat /\ BlockSize \in Nat \ {0}
  /\ NoName \notin Names

ROOT_DIR_INUM == 0
Inums == 0..(MaxInodes - 1)
Blocks == 0..(MaxBlocks - 1)
DataBlocks == Blocks \ {0}    \* block 0 is the root directory's: dir_entry
Handles == 0..(MaxOpen - 1)
DirSlots == 0..(MaxDirEntries - 1)
Cells == 0..(BlockSize - 1)

\* Offsets beyond the block are one value: the cap of an offset that runs away.
PastBlock == BlockSize + 1
Offsets == 0..PastBlock

\* TFS_O_CREAT, TFS_O_TRUNC, TFS_O_APPEND
Modes == {"CREAT", "TRUNC", "APPEND"}

Inode == [i_node_type : {"T_FILE", "T_DIRECTORY"},
          i_size : 0..BlockSize, i_data_block : Blocks \cup {-1}]
EmptySlot == [d_inumber |-> -1, d_name |-> NoName]
DirEntry == [d_inumber : Inums \cup {-1}, d_name : Names \cup {NoName}]
OpenFile == [of_inumber : Inums, of_offset : Offsets]

\* An entry of the open file table that is FREE: nothing reads its fields.
FreeEntry == [of_inumber |-> -1, of_offset |-> 0]

VARIABLES
  takenInodes,      (* the TAKEN entries of freeinode_ts                    *)
  inode_table,
  takenBlocks,      (* the TAKEN entries of free_blocks                     *)
  fs_data,          (* the bytes of each block but the root directory's     *)
  dir_entry,        (* the contents of the block of the root directory      *)
  open_file_table,  (* with FreeEntry for free_open_file_entries[h] = FREE  *)
  panicked          (* an ALWAYS_ASSERT failed, or memory was run through   *)

fsVars == <<takenInodes, inode_table, takenBlocks, fs_data, dir_entry,
            open_file_table, panicked>>

\* The handles get_open_file_entry accepts.
OpenHandles == {h \in Handles : open_file_table[h] # FreeEntry}

FSTypeOK ==
  /\ takenInodes \subseteq Inums
  /\ inode_table \in [Inums -> Inode]
  /\ takenBlocks \subseteq Blocks
  /\ fs_data \in [DataBlocks -> [Cells -> Bytes]]
  /\ dir_entry \in [DirSlots -> DirEntry]
  /\ open_file_table \in [Handles -> OpenFile \cup {FreeEntry}]
  /\ panicked \in BOOLEAN

\* tfs_init: empty tables, then the root directory in inode 0 and block 0, of whose
\* entries only the numbers are written.  The blocks are one megabyte from malloc,
\* which the C library maps as fresh pages of zeros: an entry never used has the
\* empty name.  What blocks of files hold at first matters to nothing here.
FSInit ==
  /\ takenInodes = {ROOT_DIR_INUM}
  /\ inode_table = [i \in Inums |->
       IF i = ROOT_DIR_INUM
       THEN [i_node_type |-> "T_DIRECTORY", i_size |-> BlockSize, i_data_block |-> 0]
       ELSE [i_node_type |-> "T_FILE", i_size |-> 0, i_data_block |-> -1]]
  /\ takenBlocks = {0}
  /\ fs_data \in [DataBlocks -> [Cells -> Bytes]]
  /\ dir_entry = [s \in DirSlots |-> EmptySlot]
  /\ open_file_table = [h \in Handles |-> FreeEntry]
  /\ panicked = FALSE

-----------------------------------------------------------------------------
(* fs/state.c                                                              *)

\* The entry a first-fit scan of S stops at.
IsFirst(x, S) == x \in S /\ \A y \in S : x <= y

FreeInodes   == Inums \ takenInodes
FreeBlocks   == Blocks \ takenBlocks
FreeHandles  == Handles \ OpenHandles
FreeDirSlots == {s \in DirSlots : dir_entry[s].d_inumber = -1}

\* Where find_in_dir finds a name.
Matches(name) == {s \in DirSlots : /\ dir_entry[s].d_inumber # -1
                                   /\ dir_entry[s].d_name = name}

\* add_to_open_file_table
add_to_open_file_table(i, offset, ret) ==
  \/ /\ FreeHandles = {} /\ ret = -1
     /\ UNCHANGED open_file_table
  \/ /\ IsFirst(ret, FreeHandles)
     /\ open_file_table' = [open_file_table EXCEPT
                              ![ret] = [of_inumber |-> i, of_offset |-> offset]]

\* inode_create of a T_FILE, once inode_alloc has found i.
NewFile == [i_node_type |-> "T_FILE", i_size |-> 0, i_data_block |-> -1]

\* Mutant: the block is freed whatever the size.
inode_delete_EmptyToo(i) ==
  /\ takenInodes' = takenInodes \ {i}
  /\ takenBlocks' = takenBlocks \ {inode_table[i].i_data_block}

\* inode_delete of i; the fields of the inode stay as they are.
inode_delete(i) ==
  /\ takenInodes' = takenInodes \ {i}
  /\ takenBlocks' = IF inode_table[i].i_size > 0
                    THEN takenBlocks \ {inode_table[i].i_data_block} ELSE takenBlocks

\* Mutant: the name is cleared and the inumber is not.
clear_dir_entry_NameOnly(name) ==
  \E s \in DirSlots :
    /\ IsFirst(s, {t \in DirSlots : dir_entry[t].d_name = name})
    /\ dir_entry' = [dir_entry EXCEPT ![s].d_name = NoName]

\* clear_dir_entry: the first slot with that name, whatever its inumber is.
clear_dir_entry(name) ==
  \E s \in DirSlots :
    /\ IsFirst(s, {t \in DirSlots : dir_entry[t].d_name = name})
    /\ dir_entry' = [dir_entry EXCEPT ![s] = EmptySlot]

-----------------------------------------------------------------------------
(* fs/operations.c                                                         *)

\* tfs_open of a file the directory has.
OpenExisting(name, mode, ret) ==
  \E s \in DirSlots :
    LET i == dir_entry[s].d_inumber
        truncate == "TRUNC" \in mode /\ inode_table[i].i_size > 0
    IN /\ IsFirst(s, Matches(name))
       /\ inode_table' = IF truncate THEN [inode_table EXCEPT ![i].i_size = 0] ELSE inode_table
       /\ takenBlocks' = IF truncate THEN takenBlocks \ {inode_table[i].i_data_block}
                         ELSE takenBlocks
       /\ add_to_open_file_table(i, IF "APPEND" \in mode THEN inode_table'[i].i_size ELSE 0, ret)
       /\ UNCHANGED <<takenInodes, fs_data, dir_entry, panicked>>

\* tfs_open of a file it has to create.  When the open file table is full the
\* file is created and not opened; when the directory is, nothing is created.
OpenCreating(name, mode, ret) ==
  /\ Matches(name) = {} /\ "CREAT" \in mode
  /\ \/ FreeInodes = {} /\ ret = -1 /\ UNCHANGED fsVars
     \/ \E i \in Inums :
          /\ IsFirst(i, FreeInodes)
          /\ inode_table' = [inode_table EXCEPT ![i] = NewFile]
          /\ UNCHANGED <<takenBlocks, fs_data, panicked>>
          /\ \/ /\ FreeDirSlots = {} /\ ret = -1
                /\ UNCHANGED <<takenInodes, dir_entry, open_file_table>>
             \/ \E s \in DirSlots :
                  /\ IsFirst(s, FreeDirSlots)
                  /\ takenInodes' = takenInodes \cup {i}
                  /\ dir_entry' = [dir_entry EXCEPT ![s] = [d_inumber |-> i, d_name |-> name]]
                  /\ add_to_open_file_table(i, 0, ret)

OpenMissing(name, mode, ret) ==
  Matches(name) = {} /\ "CREAT" \notin mode /\ ret = -1 /\ UNCHANGED fsVars

tfs_open(name, mode, ret) ==
  \/ OpenExisting(name, mode, ret)
  \/ OpenCreating(name, mode, ret)
  \/ OpenMissing(name, mode, ret)

tfs_close(h, ret) ==
  \/ h \notin OpenHandles /\ ret = -1 /\ UNCHANGED fsVars
  \/ /\ h \in OpenHandles /\ ret = 0
     /\ open_file_table' = [open_file_table EXCEPT ![h] = FreeEntry]
     /\ UNCHANGED <<takenInodes, inode_table, takenBlocks, fs_data, dir_entry, panicked>>

\* Mutant: the bytes go to the start of the block.
WriteCells_AtStart(h, b, buffer, n) ==
  LET i == open_file_table[h].of_inumber
      off == open_file_table[h].of_offset
      size == inode_table[i].i_size
  IN /\ fs_data' = [fs_data EXCEPT ![b] = [c \in Cells |->
                      IF c < n THEN buffer[c + 1] ELSE @[c]]]
     /\ open_file_table' = [open_file_table EXCEPT ![h].of_offset = off + n]
     /\ inode_table' = [inode_table EXCEPT ![i].i_data_block = b,
                                           ![i].i_size = IF off + n > size THEN off + n ELSE size]

\* The write proper: n bytes of buffer into block b at the offset of h.
WriteCells(h, b, buffer, n) ==
  LET i == open_file_table[h].of_inumber
      off == open_file_table[h].of_offset
      size == inode_table[i].i_size
  IN /\ fs_data' = [fs_data EXCEPT ![b] = [c \in Cells |->
                      IF c >= off /\ c < off + n THEN buffer[c - off + 1] ELSE @[c]]]
     /\ open_file_table' = [open_file_table EXCEPT ![h].of_offset = off + n]
     /\ inode_table' = [inode_table EXCEPT ![i].i_data_block = b,
                                           ![i].i_size = IF off + n > size THEN off + n ELSE size]

\* Mutant: a write is not cut to the end of the block.
BytesToWrite_NotCut(h, buffer) == Len(buffer)

\* to_write, cut to the end of the block.  It is unsigned: a negative number
\* stands for one that has wrapped around.
BytesToWrite(h, buffer) ==
  LET off == open_file_table[h].of_offset
  IN IF Len(buffer) + off > BlockSize THEN BlockSize - off ELSE Len(buffer)

\* tfs_write.  With an offset that has run past the block the copy runs through
\* memory.
tfs_write(h, buffer, ret) ==
  LET i == open_file_table[h].of_inumber
      n == BytesToWrite(h, buffer)
  IN \/ h \notin OpenHandles /\ ret = -1 /\ UNCHANGED fsVars
     \/ h \in OpenHandles /\ n = 0 /\ ret = 0 /\ UNCHANGED fsVars
     \/ /\ h \in OpenHandles /\ n # 0 /\ inode_table[i].i_size = 0
        /\ FreeBlocks = {} /\ ret = -1 /\ UNCHANGED fsVars
     \/ /\ h \in OpenHandles /\ n < 0 /\ ret = -1
        /\ inode_table[i].i_size = 0 => FreeBlocks # {}
        /\ panicked' = TRUE
        /\ UNCHANGED <<takenInodes, inode_table, takenBlocks, fs_data, dir_entry,
                       open_file_table>>
     \/ /\ h \in OpenHandles /\ n > 0 /\ ret = n
        /\ \E b \in Blocks :
             /\ IF inode_table[i].i_size = 0
                THEN IsFirst(b, FreeBlocks) /\ takenBlocks' = takenBlocks \cup {b}
                ELSE b = inode_table[i].i_data_block /\ UNCHANGED takenBlocks
             /\ WriteCells(h, b, buffer, n)
        /\ UNCHANGED <<takenInodes, dir_entry, panicked>>

\* Mutant: a read is not cut to the end of the file.
BytesToRead_NotCut(h, len) == len

\* to_read, cut to what is left of the file.  That is unsigned: with an offset
\* beyond the size of a file that was truncated or deleted, it cuts nothing.
BytesToRead(h, len) ==
  LET left == inode_table[open_file_table[h].of_inumber].i_size - open_file_table[h].of_offset
  IN IF left < 0 \/ left > len THEN len ELSE left

\* tfs_read of len bytes.  What is beyond the size is read in the block of the
\* inode if it has one, and an assertion fails if not.
tfs_read(h, len, ret) ==
  LET off == open_file_table[h].of_offset
      b == inode_table[open_file_table[h].of_inumber].i_data_block
      n == BytesToRead(h, len)
  IN \/ h \notin OpenHandles /\ ret = -1 /\ UNCHANGED fsVars
     \/ h \in OpenHandles /\ n = 0 /\ ret = 0 /\ UNCHANGED fsVars
     \/ /\ h \in OpenHandles /\ n > 0 /\ b = -1
        /\ ret = -1
        /\ panicked' = TRUE
        /\ UNCHANGED <<takenInodes, inode_table, takenBlocks, fs_data, dir_entry,
                       open_file_table>>
     \/ /\ h \in OpenHandles /\ n > 0 /\ b # -1 /\ ret = n
        /\ open_file_table' = [open_file_table EXCEPT
             ![h].of_offset = IF off + n < PastBlock THEN off + n ELSE PastBlock]
        /\ UNCHANGED <<takenInodes, inode_table, takenBlocks, fs_data, dir_entry,
                       panicked>>

\* Can buffer hold, byte for byte, what a read through h gets?  What lies beyond the
\* block can be any byte.
Copied(h, buffer) ==
  LET off == open_file_table[h].of_offset
      b == inode_table[open_file_table[h].of_inumber].i_data_block
  IN \A k \in 1..Len(buffer) : off + k <= BlockSize => buffer[k] = fs_data[b][off + k - 1]

\* tfs_unlink: deletes the inode, whoever has the file open, then clears the
\* directory entry.
tfs_unlink(name, ret) ==
  \/ Matches(name) = {} /\ ret = -1 /\ UNCHANGED fsVars
  \/ \E s \in DirSlots :
       /\ IsFirst(s, Matches(name)) /\ ret = 0
       /\ inode_delete(dir_entry[s].d_inumber)
       /\ clear_dir_entry(name)
       /\ UNCHANGED <<inode_table, fs_data, open_file_table, panicked>>

-----------------------------------------------------------------------------
(* Callers that use the operations in any order.                           *)

CONSTANTS
  Buffers,     (* what callers write: sequences of Bytes                   *)
  OpenModes    (* the combinations of flags callers open a file with       *)

ASSUME CallersAssumption == Buffers \subseteq Seq(Bytes) /\ OpenModes \subseteq SUBSET Modes

Open ==
  /\ ~panicked
  /\ \E name \in Names, mode \in OpenModes, ret \in Handles \cup {-1} :
       tfs_open(name, mode, ret)

Close  == ~panicked /\ \E h \in Handles \cup {-1}, ret \in {0, -1} : tfs_close(h, ret)

Write ==
  /\ ~panicked
  /\ \E h \in Handles \cup {-1}, buffer \in Buffers, ret \in {-1} \cup 0..BlockSize :
       tfs_write(h, buffer, ret)

\* No length beyond BlockSize makes a difference.
Read ==
  /\ ~panicked
  /\ \E h \in Handles \cup {-1}, len \in 1..BlockSize, ret \in {-1} \cup 0..BlockSize :
       tfs_read(h, len, ret)

Unlink == ~panicked /\ \E name \in Names, ret \in {0, -1} : tfs_unlink(name, ret)

FSNext == Open \/ Close \/ Write \/ Read \/ Unlink

FSSpec == FSInit /\ [][FSNext]_fsVars
-----------------------------------------------------------------------------
\* The directory slots that name an inode.
Used == {s \in DirSlots : dir_entry[s].d_inumber # -1}

\* The directory and the inode table agree: an entry names a file that exists,
\* two entries differ in name and inode, and every inode but the root's is named
\* by an entry ("directory files must have an inode"; no inode is ever lost).
\* An empty slot keeps no name that clear_dir_entry could take for another's.
DirectoryConsistent ==
  /\ ROOT_DIR_INUM \in takenInodes
  /\ \A s \in Used : /\ dir_entry[s].d_inumber \in takenInodes \ {ROOT_DIR_INUM}
                     /\ inode_table[dir_entry[s].d_inumber].i_node_type = "T_FILE"
                     /\ dir_entry[s].d_name \in Names
  /\ \A s, t \in Used : s # t => /\ dir_entry[s].d_inumber # dir_entry[t].d_inumber
                                 /\ dir_entry[s].d_name # dir_entry[t].d_name
  /\ \A s \in DirSlots \ Used : dir_entry[s].d_name \notin Names
  /\ \A i \in takenInodes \ {ROOT_DIR_INUM} : \E s \in Used : dir_entry[s].d_inumber = i

\* Two files never share a block and a file's block is never free: even when
\* files are truncated or deleted under an open handle, no block is freed twice
\* or given out while a file still has it.
BlocksOwned ==
  \A i \in takenInodes : inode_table[i].i_size > 0 =>
    /\ inode_table[i].i_data_block \in takenBlocks
    /\ \A j \in takenInodes \ {i} : inode_table[j].i_size > 0 =>
         inode_table[i].i_data_block # inode_table[j].i_data_block

\* The file an open handle refers to exists: what tfs_write and tfs_read assert
\* ("inode of open file deleted").
OpenFilesExist == \A h \in OpenHandles : open_file_table[h].of_inumber \in takenInodes

\* The bytes of a file.
Content(i) == [c \in 0..(inode_table[i].i_size - 1) |-> fs_data[inode_table[i].i_data_block][c]]

\* While no file is deleted under an open handle, what a file holds changes only
\* through a handle open on that file, and from the offset of that handle on;
\* otherwise the file is emptied or deleted.
WritesStayInFile ==
  [][OpenFilesExist =>
       \A i \in (takenInodes \cap takenInodes') \ {ROOT_DIR_INUM} :
         \/ inode_table'[i].i_size = 0
         \/ Content(i)' = Content(i)
         \/ \E h \in OpenHandles :
              /\ open_file_table[h].of_inumber = i
              /\ open_file_table'[h].of_offset > open_file_table[h].of_offset
              /\ \A c \in Cells : c < open_file_table[h].of_offset
                                  /\ c < inode_table[i].i_size =>
                   Content(i)'[c] = Content(i)[c]]_fsVars
=============================================================================

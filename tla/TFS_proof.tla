----------------------------- MODULE TFS_proof -----------------------------
(***************************************************************************)
(* The tables of TecnicoFS stay consistent, for any sizes of the tables and *)
(* any sequence of operations, those on handles of deleted files included.  *)
(*                                                                         *)
(* The invariant is inductive as a whole and not conjunct by conjunct: a   *)
(* truncation keeps BlocksOwned because the directory names an inode that  *)
(* exists, and DirectoryConsistent survives an unlink because no two       *)
(* entries have the inode that is deleted.                                 *)
(***************************************************************************)
EXTENDS TFS, TLAPS, FiniteSetTheorems

IInv == FSTypeOK /\ DirectoryConsistent /\ BlocksOwned

\* Bytes to write are at most those that fit, at an offset within the block.
LEMMA CutToBlock ==
  ASSUME FSTypeOK, NEW h \in OpenHandles, NEW buffer \in Seq(Bytes), BytesToWrite(h, buffer) > 0
  PROVE  /\ open_file_table[h] \in OpenFile
         /\ BytesToWrite(h, buffer) \in 1..BlockSize
         /\ BytesToWrite(h, buffer) <= Len(buffer)
         /\ open_file_table[h].of_offset + BytesToWrite(h, buffer) <= BlockSize
<1>1. Len(buffer) \in Nat
  OBVIOUS
<1>2. open_file_table[h] \in OpenFile
  BY DEF FSTypeOK, OpenHandles
<1>3. open_file_table[h].of_offset \in Nat
  BY <1>2, TFSAssumption DEF OpenFile, Offsets, PastBlock
<1> QED
  BY <1>1, <1>2, <1>3, TFSAssumption DEF BytesToWrite

THEOREM FSInitIInv == FSInit => IInv
<1> SUFFICES ASSUME FSInit PROVE IInv
  OBVIOUS
<1>1. 0 \in Inums /\ 0 \in Blocks /\ BlockSize \in 0..BlockSize /\ 0 \in 0..BlockSize
  BY TFSAssumption DEF Inums, Blocks
<1>2. FSTypeOK
  <2>1. inode_table \in [Inums -> Inode]
    BY <1>1 DEF FSInit, Inode
  <2>2. dir_entry \in [DirSlots -> DirEntry]
    BY DEF FSInit, DirEntry, EmptySlot
  <2>3. open_file_table \in [Handles -> OpenFile \cup {FreeEntry}]
    BY DEF FSInit
  <2> QED
    BY <1>1, <2>1, <2>2, <2>3 DEF FSInit, FSTypeOK, ROOT_DIR_INUM
<1>3. DirectoryConsistent
  BY TFSAssumption DEF FSInit, DirectoryConsistent, Used, EmptySlot
<1>4. BlocksOwned
  BY <1>1 DEF FSInit, BlocksOwned, ROOT_DIR_INUM
<1> QED
  BY <1>2, <1>3, <1>4 DEF IInv
\* tfs_open of an existing file: a truncation frees the block of a file that
\* exists and that nobody else owns.
LEMMA OpenExistingStep ==
  ASSUME IInv, NEW name \in Names, NEW mode, NEW ret \in Handles \cup {-1},
         OpenExisting(name, mode, ret)
  PROVE  IInv'
<1> USE DEF IInv
<1>1. PICK s \in DirSlots :
        LET i == dir_entry[s].d_inumber
            truncate == "TRUNC" \in mode /\ inode_table[i].i_size > 0
        IN /\ IsFirst(s, Matches(name))
           /\ inode_table' = IF truncate THEN [inode_table EXCEPT ![i].i_size = 0] ELSE inode_table
           /\ takenBlocks' = IF truncate THEN takenBlocks \ {inode_table[i].i_data_block}
                             ELSE takenBlocks
           /\ add_to_open_file_table(i, IF "APPEND" \in mode THEN inode_table'[i].i_size ELSE 0, ret)
           /\ UNCHANGED <<takenInodes, fs_data, dir_entry, panicked>>
  BY DEF OpenExisting
<1> DEFINE i == dir_entry[s].d_inumber
<1>2. s \in Used
  BY <1>1 DEF IsFirst, Matches, Used
<1>3. i \in takenInodes /\ i \in Inums
  BY <1>2 DEF DirectoryConsistent, FSTypeOK
<1>4. inode_table \in [Inums -> Inode]
  BY DEF FSTypeOK
<1>5. /\ inode_table' \in [Inums -> Inode]
      /\ \A j \in Inums : /\ inode_table'[j].i_node_type = inode_table[j].i_node_type
                          /\ inode_table'[j].i_data_block = inode_table[j].i_data_block
                          /\ inode_table'[j].i_size = inode_table[j].i_size
                             \/ inode_table'[j].i_size = 0
  <2>1. 0 \in 0..BlockSize
    BY TFSAssumption
  <2>2. CASE inode_table' = inode_table
    BY <2>2, <1>4
  <2>3. CASE inode_table' = [inode_table EXCEPT ![i].i_size = 0]
    BY <2>1, <2>3, <1>3, <1>4 DEF Inode
  <2> QED
    BY <1>1, <2>2, <2>3
<1>6. FSTypeOK'
  <2>1. inode_table'[i].i_size \in Offsets /\ 0 \in Offsets
    BY <1>3, <1>5, TFSAssumption DEF Inode, Offsets, PastBlock
  <2>2. open_file_table' \in [Handles -> OpenFile \cup {FreeEntry}]
    BY <1>1, <1>3, <2>1 DEF FSTypeOK, add_to_open_file_table, OpenFile
  <2>3. takenBlocks' \subseteq Blocks
    BY <1>1 DEF FSTypeOK
  <2> QED
    BY <1>1, <1>5, <2>2, <2>3 DEF FSTypeOK
<1>7. DirectoryConsistent'
  BY <1>1, <1>3, <1>5 DEF FSTypeOK, DirectoryConsistent, Used
<1>8. BlocksOwned'
  <2>1. \A j \in takenInodes : j \in Inums /\ inode_table[j].i_size \in Nat
    BY TFSAssumption DEF FSTypeOK, Inode
  <2>2. CASE "TRUNC" \in mode /\ inode_table[i].i_size > 0
    <3>1. /\ inode_table' = [inode_table EXCEPT ![i].i_size = 0]
          /\ takenBlocks' = takenBlocks \ {inode_table[i].i_data_block}
          /\ takenInodes' = takenInodes
      BY <1>1, <2>2
    <3>2. inode_table'[i].i_size = 0
      BY <1>3, <1>4, <3>1 DEF Inode
    <3>3. \A j \in takenInodes' : inode_table'[j].i_size > 0 =>
            /\ j \in takenInodes \ {i}
            /\ inode_table[j].i_size > 0
            /\ inode_table'[j].i_data_block = inode_table[j].i_data_block
      BY <1>3, <1>4, <1>5, <3>1, <3>2, <2>1
    <3> QED
      BY <1>3, <2>2, <3>1, <3>3 DEF BlocksOwned
  <2>3. CASE ~("TRUNC" \in mode /\ inode_table[i].i_size > 0)
    BY <1>1, <2>3 DEF BlocksOwned
  <2> QED
    BY <2>2, <2>3
<1> QED
  BY <1>6, <1>7, <1>8

\* tfs_open of a new file: the inode it takes is nobody's, so that neither an
\* entry nor a block of a file that exists is touched.
LEMMA OpenCreatingStep ==
  ASSUME IInv, NEW name \in Names, NEW mode, NEW ret \in Handles \cup {-1},
         OpenCreating(name, mode, ret)
  PROVE  IInv'
<1> USE DEF IInv
<1>1. CASE UNCHANGED fsVars
  BY <1>1 DEF fsVars, FSTypeOK, DirectoryConsistent, BlocksOwned, Used
<1>2. CASE \E i \in Inums :
          /\ IsFirst(i, FreeInodes)
          /\ inode_table' = [inode_table EXCEPT ![i] = NewFile]
          /\ UNCHANGED <<takenBlocks, fs_data, panicked>>
          /\ \/ /\ FreeDirSlots = {} /\ ret = -1
                /\ UNCHANGED <<takenInodes, dir_entry, open_file_table>>
             \/ \E s \in DirSlots :
                  /\ IsFirst(s, FreeDirSlots)
                  /\ takenInodes' = takenInodes \cup {i}
                  /\ dir_entry' = [dir_entry EXCEPT ![s] = [d_inumber |-> i, d_name |-> name]]
                  /\ add_to_open_file_table(i, 0, ret)
  <2>1. PICK i \in Inums :
          /\ i \notin takenInodes
          /\ inode_table' = [inode_table EXCEPT ![i] = NewFile]
          /\ UNCHANGED <<takenBlocks, fs_data, panicked>>
          /\ \/ /\ FreeDirSlots = {} /\ ret = -1
                /\ UNCHANGED <<takenInodes, dir_entry, open_file_table>>
             \/ \E s \in DirSlots :
                  /\ IsFirst(s, FreeDirSlots)
                  /\ takenInodes' = takenInodes \cup {i}
                  /\ dir_entry' = [dir_entry EXCEPT ![s] = [d_inumber |-> i, d_name |-> name]]
                  /\ add_to_open_file_table(i, 0, ret)
    BY <1>2 DEF IsFirst, FreeInodes
  <2>2. /\ inode_table \in [Inums -> Inode] /\ inode_table' \in [Inums -> Inode]
        /\ inode_table'[i] = NewFile
        /\ \A j \in Inums \ {i} : inode_table'[j] = inode_table[j]
    BY <2>1, TFSAssumption DEF FSTypeOK, Inode, NewFile
  <2>3. /\ takenInodes \subseteq Inums /\ takenInodes' \subseteq takenInodes \cup {i}
        /\ takenInodes \subseteq takenInodes'
    BY <2>1 DEF FSTypeOK
  <2>4. BlocksOwned'
    <3>1. \A j \in takenInodes' : inode_table'[j].i_size > 0 =>
            j \in takenInodes /\ inode_table'[j] = inode_table[j]
      BY <2>2, <2>3 DEF NewFile
    <3> QED
      BY <2>1, <3>1 DEF BlocksOwned
  <2>5. CASE UNCHANGED <<takenInodes, dir_entry, open_file_table>>
    <3>1. FSTypeOK'
      BY <2>1, <2>2, <2>5 DEF FSTypeOK
    <3>2. DirectoryConsistent'
      BY <2>1, <2>2, <2>3, <2>5 DEF DirectoryConsistent, Used
    <3> QED
      BY <2>4, <3>1, <3>2
  <2>6. CASE \E s \in DirSlots :
                  /\ IsFirst(s, FreeDirSlots)
                  /\ takenInodes' = takenInodes \cup {i}
                  /\ dir_entry' = [dir_entry EXCEPT ![s] = [d_inumber |-> i, d_name |-> name]]
                  /\ add_to_open_file_table(i, 0, ret)
    <3>1. PICK s \in DirSlots :
            /\ s \notin Used
            /\ takenInodes' = takenInodes \cup {i}
            /\ dir_entry' = [dir_entry EXCEPT ![s] = [d_inumber |-> i, d_name |-> name]]
            /\ add_to_open_file_table(i, 0, ret)
      BY <2>6 DEF IsFirst, FreeDirSlots, Used
    <3>2. /\ dir_entry \in [DirSlots -> DirEntry] /\ dir_entry' \in [DirSlots -> DirEntry]
          /\ dir_entry'[s].d_inumber = i /\ dir_entry'[s].d_name = name
          /\ \A t \in DirSlots \ {s} : dir_entry'[t] = dir_entry[t]
      BY <3>1 DEF FSTypeOK, DirEntry
    <3>3. i # -1
      BY TFSAssumption DEF Inums
    <3>4. Used' = Used \cup {s}
      BY <3>1, <3>2, <3>3 DEF Used
    <3>5. open_file_table' \in [Handles -> OpenFile \cup {FreeEntry}]
      BY <3>1, TFSAssumption DEF FSTypeOK, add_to_open_file_table, OpenFile, Offsets, PastBlock
    <3>6. FSTypeOK'
      BY <2>1, <2>2, <3>1, <3>2, <3>5 DEF FSTypeOK
    <3>7. \A t \in Used : /\ t \in DirSlots /\ t # s
                          /\ dir_entry[t].d_inumber \in takenInodes \ {ROOT_DIR_INUM}
                          /\ dir_entry[t].d_inumber # i
                          /\ inode_table[dir_entry[t].d_inumber].i_node_type = "T_FILE"
                          /\ dir_entry[t].d_name \in Names \ {name}
      <4>1. Matches(name) = {}
        BY DEF OpenCreating
      <4> QED
        BY <4>1, <2>1, <3>1 DEF DirectoryConsistent, Used, Matches
    <3>8. ROOT_DIR_INUM \in takenInodes /\ i # ROOT_DIR_INUM
      BY <2>1 DEF DirectoryConsistent
    <3>9. DirectoryConsistent'
      <4>1. \A t \in Used' :
              /\ dir_entry'[t].d_inumber \in takenInodes' \ {ROOT_DIR_INUM}
              /\ inode_table'[dir_entry'[t].d_inumber].i_node_type = "T_FILE"
              /\ dir_entry'[t].d_name \in Names
        BY <2>2, <2>3, <3>1, <3>2, <3>4, <3>7, <3>8 DEF NewFile
      <4>2. \A t, u \in Used' : t # u =>
              /\ dir_entry'[t].d_inumber # dir_entry'[u].d_inumber
              /\ dir_entry'[t].d_name # dir_entry'[u].d_name
        BY <3>2, <3>4, <3>7 DEF DirectoryConsistent
      <4>3. \A j \in takenInodes' \ {ROOT_DIR_INUM} : \E t \in Used' : dir_entry'[t].d_inumber = j
        BY <3>1, <3>2, <3>4, <3>7 DEF DirectoryConsistent
      <4>4. \A t \in DirSlots \ Used' : dir_entry'[t].d_name \notin Names
        BY <3>2, <3>4 DEF DirectoryConsistent
      <4> QED
        BY <3>1, <3>8, <4>1, <4>2, <4>3, <4>4 DEF DirectoryConsistent
    <3> QED
      BY <2>4, <3>6, <3>9
  <2> QED
    BY <2>1, <2>5, <2>6
<1> QED
  BY <1>1, <1>2 DEF OpenCreating
\* An operation that leaves the file tables alone and gives the open file table
\* a value of its type.
LEMMA OnlyHandlesChange ==
  ASSUME IInv, open_file_table' \in [Handles -> OpenFile \cup {FreeEntry}], panicked' \in BOOLEAN,
         UNCHANGED <<takenInodes, inode_table, takenBlocks, fs_data, dir_entry>>
  PROVE  IInv'
BY DEF IInv, FSTypeOK, DirectoryConsistent, BlocksOwned, Used

LEMMA FSStutter == ASSUME IInv, UNCHANGED fsVars PROVE IInv'
BY DEF fsVars, IInv, FSTypeOK, DirectoryConsistent, BlocksOwned, Used

LEMMA CloseStep ==
  ASSUME IInv, NEW h, NEW ret, tfs_close(h, ret)
  PROVE  IInv'
<1>1. CASE UNCHANGED fsVars
  BY <1>1, FSStutter
<1>2. CASE /\ open_file_table' = [open_file_table EXCEPT ![h] = FreeEntry]
           /\ UNCHANGED <<takenInodes, inode_table, takenBlocks, fs_data, dir_entry, panicked>>
  <2>1. open_file_table' \in [Handles -> OpenFile \cup {FreeEntry}]
    BY <1>2 DEF IInv, FSTypeOK
  <2>2. panicked' \in BOOLEAN
    BY <1>2, Zenon DEF IInv, FSTypeOK
  <2> QED
    BY <1>2, <2>1, <2>2, OnlyHandlesChange
<1> QED
  BY <1>1, <1>2 DEF tfs_close

\* tfs_read only moves the offset of the handle.
LEMMA ReadStep ==
  ASSUME IInv, NEW h, NEW len \in Nat, NEW ret, tfs_read(h, len, ret)
  PROVE  IInv'
<1> DEFINE off == open_file_table[h].of_offset
           n == BytesToRead(h, len)
           end == IF off + n < PastBlock THEN off + n ELSE PastBlock
<1>1. CASE UNCHANGED fsVars
  BY <1>1, FSStutter
<1>2. CASE /\ panicked' = TRUE
           /\ UNCHANGED <<takenInodes, inode_table, takenBlocks, fs_data, dir_entry,
                          open_file_table>>
  BY <1>2, OnlyHandlesChange DEF IInv, FSTypeOK
<1>3. CASE /\ h \in OpenHandles /\ n > 0
           /\ open_file_table' = [open_file_table EXCEPT ![h].of_offset = end]
           /\ UNCHANGED <<takenInodes, inode_table, takenBlocks, fs_data, dir_entry,
                          panicked>>
  <2>1. h \in Handles /\ open_file_table[h] \in OpenFile
    BY <1>3 DEF IInv, FSTypeOK, OpenHandles
  <2>2. inode_table[open_file_table[h].of_inumber].i_size \in Nat /\ off \in Nat
    BY <2>1, TFSAssumption DEF IInv, FSTypeOK, OpenFile, Inode, Offsets, PastBlock
  <2>3. n \in Nat
    BY <2>2 DEF BytesToRead
  <2>4. end \in Offsets
    BY <2>2, <2>3, TFSAssumption DEF Offsets, PastBlock
  <2>5. open_file_table' \in [Handles -> OpenFile \cup {FreeEntry}]
    BY <1>3, <2>1, <2>4 DEF IInv, FSTypeOK, OpenFile
  <2>6. panicked' \in BOOLEAN
    BY <1>3, Zenon DEF IInv, FSTypeOK
  <2> QED
    BY <1>3, <2>5, <2>6, OnlyHandlesChange
<1> QED
  BY <1>1, <1>2, <1>3 DEF tfs_read

\* The write proper: an empty inode gets a free block, any other one keeps its
\* block.
LEMMA CellsStep ==
  ASSUME IInv, NEW h \in OpenHandles, NEW buffer \in Seq(Bytes), NEW b \in Blocks,
         NEW n, n = BytesToWrite(h, buffer), n > 0,
         LET i == open_file_table[h].of_inumber
         IN IF inode_table[i].i_size = 0
            THEN IsFirst(b, FreeBlocks) /\ takenBlocks' = takenBlocks \cup {b}
            ELSE b = inode_table[i].i_data_block /\ UNCHANGED takenBlocks,
         WriteCells(h, b, buffer, n),
         UNCHANGED <<takenInodes, dir_entry, panicked>>
  PROVE  IInv'
<1> DEFINE i == open_file_table[h].of_inumber
           off == open_file_table[h].of_offset
<1>1. FSTypeOK /\ DirectoryConsistent /\ BlocksOwned
  BY DEF IInv
<1>2. /\ open_file_table[h] \in OpenFile /\ n \in 1..BlockSize
      /\ n <= Len(buffer) /\ off + n <= BlockSize
  BY <1>1, CutToBlock
<1>3. h \in Handles /\ i \in Inums /\ off \in Nat
  BY <1>2, TFSAssumption DEF OpenHandles, OpenFile, Offsets, PastBlock
<1>4. buffer \in Seq(Bytes)
  OBVIOUS
<1>5. /\ inode_table \in [Inums -> Inode] /\ inode_table' \in [Inums -> Inode]
      /\ inode_table'[i].i_data_block = b
      /\ inode_table'[i].i_node_type = inode_table[i].i_node_type
      /\ \A j \in Inums \ {i} : inode_table'[j] = inode_table[j]
  <2>1. inode_table[i].i_size \in 0..BlockSize
    BY <1>1, <1>3 DEF FSTypeOK, Inode
  <2>2. off + n \in 0..BlockSize
    BY <1>2, <1>3, TFSAssumption
  <2>3. PICK size \in 0..BlockSize :
          inode_table' = [inode_table EXCEPT ![i].i_data_block = b, ![i].i_size = size]
    BY <2>1, <2>2 DEF WriteCells
  <2> QED
    BY <1>1, <1>3, <2>3 DEF FSTypeOK, Inode
<1>6. FSTypeOK'
  <2>1. open_file_table' \in [Handles -> OpenFile \cup {FreeEntry}]
    <3>1. off + n \in Offsets
      BY <1>2, <1>3, TFSAssumption DEF Offsets, PastBlock
    <3>2. open_file_table' = [open_file_table EXCEPT ![h].of_offset = off + n]
      BY DEF WriteCells
    <3> QED
      BY <1>1, <1>2, <1>3, <3>1, <3>2 DEF FSTypeOK, OpenFile
  <2>2. fs_data' \in [DataBlocks -> [Cells -> Bytes]]
    <3> DEFINE cells == [c \in Cells |-> IF c >= off /\ c < off + n THEN buffer[c - off + 1]
                                         ELSE fs_data[b][c]]
    <3>1. fs_data \in [DataBlocks -> [Cells -> Bytes]]
      BY <1>1 DEF FSTypeOK
    <3>2. fs_data' = [fs_data EXCEPT ![b] = cells]
      BY DEF WriteCells
    <3>3. b \in DataBlocks => cells \in [Cells -> Bytes]
      <4> SUFFICES ASSUME b \in DataBlocks, NEW c \in Cells PROVE cells[c] \in Bytes
        OBVIOUS
      <4>1. CASE c >= off /\ c < off + n
        <5>1. c - off + 1 \in 1..Len(buffer)
          BY <4>1, <1>2, <1>3, <1>4, TFSAssumption DEF Cells
        <5> QED
          BY <4>1, <5>1, <1>4
      <4>2. CASE ~(c >= off /\ c < off + n)
        BY <4>2, <3>1
      <4> QED
        BY <4>1, <4>2
    <3> QED
      BY <3>1, <3>2, <3>3
  <2>3. takenBlocks' \subseteq Blocks
    BY <1>1 DEF FSTypeOK
  <2>4. panicked' \in BOOLEAN
    BY <1>1, Zenon DEF FSTypeOK
  <2> QED
    BY <1>1, <1>5, <2>1, <2>2, <2>3, <2>4 DEF FSTypeOK
<1>7. DirectoryConsistent'
  <2>1. \A j \in Inums : inode_table'[j].i_node_type = inode_table[j].i_node_type
    BY <1>5
  <2>2. takenInodes \subseteq Inums
    BY <1>1 DEF FSTypeOK
  <2> QED
    BY <1>1, <2>1, <2>2 DEF DirectoryConsistent, Used
<1>8. BlocksOwned'
  <2>1. takenInodes \subseteq Inums /\ takenInodes' = takenInodes
    BY <1>1 DEF FSTypeOK
  <2>2. CASE inode_table[i].i_size = 0
    <3>1. b \notin takenBlocks /\ takenBlocks' = takenBlocks \cup {b}
      BY <2>2 DEF IsFirst, FreeBlocks
    <3> QED
      BY <1>1, <1>5, <2>1, <3>1 DEF BlocksOwned
  <2>3. CASE inode_table[i].i_size # 0
    <3>1. b = inode_table[i].i_data_block /\ takenBlocks' = takenBlocks
      BY <2>3
    <3>2. inode_table[i].i_size > 0
      BY <2>3, <1>3, <1>5, TFSAssumption DEF Inode
    <3> QED
      BY <1>1, <1>5, <2>1, <3>1, <3>2 DEF BlocksOwned
  <2> QED
    BY <2>2, <2>3
<1> QED
  BY <1>6, <1>7, <1>8 DEF IInv

LEMMA WriteStep ==
  ASSUME IInv, NEW h, NEW buffer \in Seq(Bytes), NEW ret, tfs_write(h, buffer, ret)
  PROVE  IInv'
<1>1. CASE UNCHANGED fsVars
  BY <1>1, FSStutter
<1>2. CASE /\ panicked' = TRUE
           /\ UNCHANGED <<takenInodes, inode_table, takenBlocks, fs_data, dir_entry,
                          open_file_table>>
  BY <1>2, OnlyHandlesChange DEF IInv, FSTypeOK
<1>3. CASE /\ h \in OpenHandles /\ BytesToWrite(h, buffer) > 0
           /\ \E b \in Blocks :
                /\ IF inode_table[open_file_table[h].of_inumber].i_size = 0
                   THEN IsFirst(b, FreeBlocks) /\ takenBlocks' = takenBlocks \cup {b}
                   ELSE /\ b = inode_table[open_file_table[h].of_inumber].i_data_block
                        /\ UNCHANGED takenBlocks
                /\ WriteCells(h, b, buffer, BytesToWrite(h, buffer))
           /\ UNCHANGED <<takenInodes, dir_entry, panicked>>
  BY <1>3, CellsStep
<1> QED
  BY <1>1, <1>2, <1>3 DEF tfs_write

\* tfs_unlink: the inode it deletes is named by the entry it clears and by no
\* other, and its block is no other file's.
LEMMA UnlinkStep ==
  ASSUME IInv, NEW name \in Names, NEW ret, tfs_unlink(name, ret)
  PROVE  IInv'
<1> USE DEF IInv
<1>1. CASE UNCHANGED fsVars
  BY <1>1, FSStutter
<1>2. CASE \E s \in DirSlots :
             /\ IsFirst(s, Matches(name)) /\ ret = 0
             /\ inode_delete(dir_entry[s].d_inumber)
             /\ clear_dir_entry(name)
             /\ UNCHANGED <<inode_table, fs_data, open_file_table, panicked>>
  <2>1. PICK s \in DirSlots :
          /\ s \in Matches(name)
          /\ inode_delete(dir_entry[s].d_inumber)
          /\ clear_dir_entry(name)
          /\ UNCHANGED <<inode_table, fs_data, open_file_table, panicked>>
    BY <1>2 DEF IsFirst
  <2>2. PICK u \in DirSlots : /\ dir_entry[u].d_name = name
                              /\ dir_entry' = [dir_entry EXCEPT ![u] = EmptySlot]
    BY <2>1 DEF clear_dir_entry, IsFirst
  <2> DEFINE i == dir_entry[s].d_inumber
  <2>3. /\ s \in Used /\ u \in Used /\ u = s
        /\ i \in takenInodes \ {ROOT_DIR_INUM} /\ i \in Inums
    <3>1. s \in Used /\ dir_entry[s].d_name = name
      BY <2>1 DEF Matches, Used
    <3>2. u \in Used
      BY <2>2 DEF DirectoryConsistent
    <3> QED
      BY <2>2, <3>1, <3>2 DEF DirectoryConsistent, FSTypeOK
  <2>4. /\ dir_entry \in [DirSlots -> DirEntry] /\ dir_entry' \in [DirSlots -> DirEntry]
        /\ dir_entry'[s] = EmptySlot
        /\ \A t \in DirSlots \ {s} : dir_entry'[t] = dir_entry[t]
    BY <2>2, <2>3 DEF FSTypeOK, DirEntry, EmptySlot
  <2>5. Used' = Used \ {s}
    BY <2>4 DEF Used, EmptySlot
  <2>6. /\ takenInodes' = takenInodes \ {i}
        /\ takenBlocks' = IF inode_table[i].i_size > 0
                          THEN takenBlocks \ {inode_table[i].i_data_block} ELSE takenBlocks
    BY <2>1 DEF inode_delete
  <2>7. FSTypeOK'
    <3>1. takenInodes' \subseteq Inums /\ takenBlocks' \subseteq Blocks
      BY <2>6 DEF FSTypeOK
    <3>2. panicked' \in BOOLEAN
      BY <2>1, Zenon DEF FSTypeOK
    <3> QED
      BY <2>1, <2>4, <3>1, <3>2 DEF FSTypeOK
  <2>8. DirectoryConsistent'
    <3>1. ROOT_DIR_INUM \in takenInodes'
      BY <2>3, <2>6 DEF DirectoryConsistent
    <3>2. \A t \in Used' :
            /\ dir_entry'[t].d_inumber \in takenInodes' \ {ROOT_DIR_INUM}
            /\ inode_table'[dir_entry'[t].d_inumber].i_node_type = "T_FILE"
            /\ dir_entry'[t].d_name \in Names
      <4> SUFFICES ASSUME NEW t \in Used'
                   PROVE  /\ dir_entry'[t].d_inumber \in takenInodes' \ {ROOT_DIR_INUM}
                          /\ inode_table'[dir_entry'[t].d_inumber].i_node_type = "T_FILE"
                          /\ dir_entry'[t].d_name \in Names
        OBVIOUS
      <4>1. t \in Used /\ t # s /\ dir_entry'[t] = dir_entry[t]
        BY <2>4, <2>5 DEF Used
      <4>2. dir_entry[t].d_inumber # i
        BY <2>3, <4>1 DEF DirectoryConsistent
      <4> QED
        BY <2>1, <2>6, <4>1, <4>2 DEF DirectoryConsistent
    <3>3. \A t, v \in Used' : t # v => /\ dir_entry'[t].d_inumber # dir_entry'[v].d_inumber
                                       /\ dir_entry'[t].d_name # dir_entry'[v].d_name
      <4>1. \A t \in Used' : t \in Used /\ dir_entry'[t] = dir_entry[t]
        BY <2>4, <2>5 DEF Used
      <4> QED
        BY <4>1 DEF DirectoryConsistent
    <3>4. \A t \in DirSlots \ Used' : dir_entry'[t].d_name \notin Names
      BY <2>4, <2>5, TFSAssumption DEF DirectoryConsistent, EmptySlot
    <3>5. \A j \in takenInodes' \ {ROOT_DIR_INUM} : \E t \in Used' : dir_entry'[t].d_inumber = j
      <4> SUFFICES ASSUME NEW j \in takenInodes' \ {ROOT_DIR_INUM}
                   PROVE  \E t \in Used' : dir_entry'[t].d_inumber = j
        OBVIOUS
      <4>1. PICK t \in Used : dir_entry[t].d_inumber = j
        BY <2>6 DEF DirectoryConsistent
      <4>2. t # s /\ t \in DirSlots
        BY <2>6, <4>1 DEF Used
      <4> QED
        BY <2>4, <2>5, <4>1, <4>2
    <3> QED
      BY <3>1, <3>2, <3>3, <3>4, <3>5 DEF DirectoryConsistent
  <2>9. BlocksOwned'
    <3>1. \A j \in takenInodes' : j \in takenInodes \ {i} /\ inode_table'[j] = inode_table[j]
      BY <2>1, <2>6
    <3>2. \A j \in takenInodes \ {i} : inode_table[j].i_size > 0 =>
            inode_table[j].i_data_block \in takenBlocks'
      BY <2>3, <2>6 DEF BlocksOwned
    <3> QED
      BY <3>1, <3>2 DEF BlocksOwned
  <2> QED
    BY <2>7, <2>8, <2>9
<1> QED
  BY <1>1, <1>2 DEF tfs_unlink

\* Every operation preserves the invariant.
LEMMA FSStepIInv == IInv /\ [FSNext]_fsVars => IInv'
<1> SUFFICES ASSUME IInv, [FSNext]_fsVars PROVE IInv'
  OBVIOUS
<1>1. CASE Open
  <2>1. PICK name \in Names, mode \in OpenModes, ret \in Handles \cup {-1} :
          tfs_open(name, mode, ret)
    BY <1>1 DEF Open
  <2>2. CASE OpenExisting(name, mode, ret)
    BY <2>2, OpenExistingStep
  <2>3. CASE OpenCreating(name, mode, ret)
    BY <2>3, OpenCreatingStep
  <2>4. CASE OpenMissing(name, mode, ret)
    BY <2>4, FSStutter DEF OpenMissing
  <2> QED
    BY <2>1, <2>2, <2>3, <2>4 DEF tfs_open
<1>2. CASE Close
  BY <1>2, CloseStep DEF Close
<1>3. CASE Write
  BY <1>3, WriteStep, CallersAssumption DEF Write
<1>4. CASE Read
  BY <1>4, ReadStep, TFSAssumption DEF Read
<1>5. CASE Unlink
  BY <1>5, UnlinkStep DEF Unlink
<1>6. CASE UNCHANGED fsVars
  BY <1>6, FSStutter
<1> QED
  BY <1>1, <1>2, <1>3, <1>4, <1>5, <1>6 DEF FSNext

\* The invariant of TecnicoFS holds in every state.
THEOREM FSInvariant == FSSpec => []IInv
BY FSInitIInv, FSStepIInv, PTL DEF FSSpec

\* Every table keeps values of its type: no size or offset leaves a block.
THEOREM FSTypeCorrect == FSSpec => []FSTypeOK
<1>1. IInv => FSTypeOK
  BY DEF IInv
<1> QED
  BY <1>1, FSInvariant, PTL

\* Directory and inode table agree, whatever is deleted while it is open.
THEOREM DirectoryStaysConsistent == FSSpec => []DirectoryConsistent
<1>1. IInv => DirectoryConsistent
  BY DEF IInv
<1> QED
  BY <1>1, FSInvariant, PTL

\* No two files ever share a block, and no file's block is free.
THEOREM BlocksStayOwned == FSSpec => []BlocksOwned
<1>1. IInv => BlocksOwned
  BY DEF IInv
<1> QED
  BY <1>1, FSInvariant, PTL
-----------------------------------------------------------------------------
(* What a step may do to the contents of a file.                           *)

\* The step of WritesStayInFile.
StaysInFile ==
  OpenFilesExist =>
    \A i \in (takenInodes \cap takenInodes') \ {ROOT_DIR_INUM} :
      \/ inode_table'[i].i_size = 0
      \/ Content(i)' = Content(i)
      \/ \E h \in OpenHandles :
           /\ open_file_table[h].of_inumber = i
           /\ open_file_table'[h].of_offset > open_file_table[h].of_offset
           /\ \A c \in Cells : c < open_file_table[h].of_offset
                               /\ c < inode_table[i].i_size =>
                Content(i)'[c] = Content(i)[c]

\* An operation that changes neither inodes nor bytes changes no file.
LEMMA ContentsKept ==
  ASSUME UNCHANGED <<inode_table, fs_data>>
  PROVE  StaysInFile
BY DEF StaysInFile, Content

\* tfs_open empties the file it truncates and takes an inode of no file for the
\* one it creates.
LEMMA OpenStaysInFile ==
  ASSUME IInv, NEW name \in Names, NEW mode, NEW ret \in Handles \cup {-1},
         tfs_open(name, mode, ret)
  PROVE  StaysInFile
<1>1. CASE OpenMissing(name, mode, ret)
  BY <1>1, ContentsKept DEF OpenMissing, fsVars
<1>2. CASE OpenExisting(name, mode, ret)
  <2>1. PICK s \in DirSlots :
          /\ \/ inode_table' = inode_table
             \/ inode_table' = [inode_table EXCEPT ![dir_entry[s].d_inumber].i_size = 0]
          /\ UNCHANGED fs_data
    BY <1>2 DEF OpenExisting
  <2>2. \A i \in takenInodes : inode_table'[i] = inode_table[i] \/ inode_table'[i].i_size = 0
    BY <2>1 DEF IInv, FSTypeOK, Inode
  <2> QED
    BY <2>1, <2>2 DEF StaysInFile, Content
<1>3. CASE OpenCreating(name, mode, ret)
  <2>1. /\ UNCHANGED fs_data
        /\ \A i \in takenInodes : inode_table'[i] = inode_table[i]
    BY <1>3 DEF OpenCreating, fsVars, IsFirst, FreeInodes, IInv, FSTypeOK
  <2> QED
    BY <2>1 DEF StaysInFile, Content
<1> QED
  BY <1>1, <1>2, <1>3 DEF tfs_open

\* The write proper goes to a block that no other file has, and leaves the bytes
\* before the offset as they are.
LEMMA CellsStayInFile ==
  ASSUME IInv, NEW h \in OpenHandles, NEW buffer \in Seq(Bytes), NEW b \in Blocks,
         NEW n, n = BytesToWrite(h, buffer), n > 0,
         LET i == open_file_table[h].of_inumber
         IN IF inode_table[i].i_size = 0
            THEN IsFirst(b, FreeBlocks) /\ takenBlocks' = takenBlocks \cup {b}
            ELSE b = inode_table[i].i_data_block /\ UNCHANGED takenBlocks,
         WriteCells(h, b, buffer, n),
         UNCHANGED <<takenInodes, dir_entry, panicked>>
  PROVE  StaysInFile
<1> DEFINE i == open_file_table[h].of_inumber
           off == open_file_table[h].of_offset
           size == inode_table[i].i_size
<1>1. FSTypeOK /\ BlocksOwned
  BY DEF IInv
<1>2. /\ open_file_table[h] \in OpenFile /\ n \in 1..BlockSize
      /\ off + n <= BlockSize
  BY <1>1, CutToBlock
<1>3. h \in Handles /\ i \in Inums /\ off \in Nat /\ size \in Nat
  BY <1>1, <1>2, TFSAssumption
  DEF OpenHandles, OpenFile, Offsets, PastBlock, FSTypeOK, Inode
<1>4. /\ inode_table'[i].i_data_block = b
      /\ inode_table'[i].i_size = (IF off + n > size THEN off + n ELSE size)
      /\ \A j \in Inums \ {i} : inode_table'[j] = inode_table[j]
  BY <1>1, <1>3 DEF FSTypeOK, Inode, WriteCells
<1>5. open_file_table'[h].of_offset = off + n
  BY <1>1, <1>2, <1>3 DEF FSTypeOK, WriteCells, OpenFile
<1>6. /\ \A d : d # b => fs_data'[d] = fs_data[d]
      /\ \A c \in Cells : c < off => fs_data'[b][c] = fs_data[b][c]
  <2> DEFINE cells == [c \in Cells |-> IF c >= off /\ c < off + n THEN buffer[c - off + 1]
                                       ELSE fs_data[b][c]]
  <2>1. fs_data' = [fs_data EXCEPT ![b] = cells]
    BY DEF WriteCells
  <2>2. fs_data \in [DataBlocks -> [Cells -> Bytes]]
    BY <1>1 DEF FSTypeOK
  <2>3. \A c \in Cells : c < off => cells[c] = fs_data[b][c]
    BY <1>3 DEF Cells
  <2>4. CASE b \in DataBlocks
    BY <2>1, <2>2, <2>3, <2>4
  <2>5. CASE b \notin DataBlocks
    <3>1. fs_data' = fs_data
      BY <2>1, <2>2, <2>5
    <3> QED
      BY <3>1
  <2> QED
    BY <2>4, <2>5
<1>7. SUFFICES ASSUME OpenFilesExist, NEW j \in (takenInodes \cap takenInodes') \ {ROOT_DIR_INUM}
               PROVE  \/ Content(j)' = Content(j)
                      \/ /\ j = i
                         /\ open_file_table'[h].of_offset > off
                         /\ \A c \in Cells : c < off /\ c < size => Content(j)'[c] = Content(j)[c]
  BY DEF StaysInFile
<1>8. CASE j = i
  <2>1. open_file_table'[h].of_offset > off
    BY <1>2, <1>3, <1>5
  <2>2. ASSUME NEW c \in Cells, c < off, c < size
        PROVE  Content(j)'[c] = Content(j)[c]
    <3>1. b = inode_table[i].i_data_block
      BY <1>3, <2>2 DEF Cells
    <3>2. c \in 0..(size - 1) /\ c \in 0..(inode_table'[i].i_size - 1)
      BY <1>2, <1>3, <1>4, <2>2 DEF Cells
    <3> QED
      BY <1>4, <1>6, <1>8, <2>2, <3>1, <3>2 DEF Content
  <2> QED
    BY <1>8, <2>1, <2>2
<1>9. CASE j # i
  <2>1. j \in Inums /\ inode_table'[j] = inode_table[j] /\ inode_table[j].i_size \in Nat
    BY <1>1, <1>4, <1>9, TFSAssumption DEF FSTypeOK, Inode
  <2>2. inode_table[j].i_size > 0 => inode_table[j].i_data_block # b
    <3>1. i \in takenInodes
      BY <1>7 DEF OpenFilesExist
    <3>2. CASE size = 0
      BY <1>1, <3>2 DEF BlocksOwned, IsFirst, FreeBlocks
    <3>3. CASE size # 0
      BY <1>1, <1>3, <1>9, <3>1, <3>3 DEF BlocksOwned
    <3> QED
      BY <3>2, <3>3
  <2>3. \A c \in 0..(inode_table[j].i_size - 1) :
          fs_data'[inode_table[j].i_data_block][c] = fs_data[inode_table[j].i_data_block][c]
    BY <1>6, <2>1, <2>2
  <2> QED
    BY <2>1, <2>3 DEF Content
<1> QED
  BY <1>8, <1>9

LEMMA WriteStaysInFile ==
  ASSUME IInv, NEW h, NEW buffer \in Seq(Bytes), NEW ret, tfs_write(h, buffer, ret)
  PROVE  StaysInFile
<1>1. CASE UNCHANGED <<inode_table, fs_data>>
  BY <1>1, ContentsKept
<1>2. CASE /\ h \in OpenHandles /\ BytesToWrite(h, buffer) > 0
           /\ \E b \in Blocks :
                /\ IF inode_table[open_file_table[h].of_inumber].i_size = 0
                   THEN IsFirst(b, FreeBlocks) /\ takenBlocks' = takenBlocks \cup {b}
                   ELSE /\ b = inode_table[open_file_table[h].of_inumber].i_data_block
                        /\ UNCHANGED takenBlocks
                /\ WriteCells(h, b, buffer, BytesToWrite(h, buffer))
           /\ UNCHANGED <<takenInodes, dir_entry, panicked>>
  BY <1>2, CellsStayInFile
<1> QED
  BY <1>1, <1>2 DEF tfs_write, fsVars

\* While no file is deleted under an open handle, a step changes what a file holds
\* only through a handle open on it, and from the offset of that handle on.
THEOREM WritesConfined == FSSpec => WritesStayInFile
<1>1. IInv /\ [FSNext]_fsVars => [StaysInFile]_fsVars
  <2> SUFFICES ASSUME IInv, FSNext PROVE StaysInFile
    OBVIOUS
  <2>1. CASE Open
    BY <2>1, OpenStaysInFile DEF Open
  <2>2. CASE Close
    BY <2>2, ContentsKept DEF Close, tfs_close, fsVars
  <2>3. CASE Write
    BY <2>3, WriteStaysInFile, CallersAssumption DEF Write
  <2>4. CASE Read
    BY <2>4, ContentsKept DEF Read, tfs_read, fsVars
  <2>5. CASE Unlink
    BY <2>5, ContentsKept DEF Unlink, tfs_unlink, fsVars
  <2> QED
    BY <2>1, <2>2, <2>3, <2>4, <2>5 DEF FSNext
<1> QED
  BY <1>1, FSInvariant, PTL DEF FSSpec, WritesStayInFile, StaysInFile
-----------------------------------------------------------------------------
(* Callers that neither truncate nor delete.                               *)

\* Every open handle is on a file that exists, within its size.
OffsetsInside ==
  \A h \in OpenHandles :
    /\ open_file_table[h].of_inumber \in takenInodes
    /\ open_file_table[h].of_offset <= inode_table[open_file_table[h].of_inumber].i_size

\* A step that neither truncates nor deletes a file, and fails no assertion.
KeepsFiles ==
  /\ takenInodes \subseteq takenInodes'
  /\ \A i \in takenInodes : inode_table'[i].i_size >= inode_table[i].i_size
  /\ \A d \in Used : dir_entry'[d] = dir_entry[d]
  /\ UNCHANGED panicked

\* An open handle that still refers to the same file.
StaysOpen(h) ==
  h \in OpenHandles' /\ open_file_table'[h].of_inumber = open_file_table[h].of_inumber

LEMMA HandleFacts ==
  ASSUME IInv, OffsetsInside, NEW h \in OpenHandles
  PROVE  /\ h \in Handles /\ open_file_table[h] \in OpenFile
         /\ open_file_table[h].of_offset \in Nat
         /\ open_file_table[h].of_inumber \in Inums
         /\ inode_table[open_file_table[h].of_inumber].i_size \in 0..BlockSize
         /\ open_file_table[h].of_offset <= inode_table[open_file_table[h].of_inumber].i_size
<1>1. h \in Handles /\ open_file_table[h] \in OpenFile
  BY DEF IInv, FSTypeOK, OpenHandles
<1>2. open_file_table[h].of_offset \in Nat /\ open_file_table[h].of_inumber \in Inums
  BY <1>1, TFSAssumption DEF OpenFile, Offsets, PastBlock
<1> QED
  BY <1>1, <1>2 DEF IInv, FSTypeOK, Inode, OffsetsInside

\* An operation that leaves everything as it is.
LEMMA NothingKeepsFiles ==
  ASSUME IInv, OffsetsInside, UNCHANGED fsVars
  PROVE  KeepsFiles /\ OffsetsInside' /\ \A h \in OpenHandles : StaysOpen(h)
<1>1. \A i \in takenInodes : inode_table[i].i_size \in Nat
  BY TFSAssumption DEF IInv, FSTypeOK, Inode
<1> QED
  BY <1>1 DEF fsVars, OffsetsInside, KeepsFiles, StaysOpen, OpenHandles

LEMMA CloseKeepsFiles ==
  ASSUME IInv, OffsetsInside, NEW h, NEW ret, tfs_close(h, ret)
  PROVE  KeepsFiles /\ OffsetsInside' /\ \A g \in OpenHandles \ {h} : StaysOpen(g)
<1>1. CASE UNCHANGED fsVars
  BY <1>1, NothingKeepsFiles
<1>2. CASE /\ h \in OpenHandles
           /\ open_file_table' = [open_file_table EXCEPT ![h] = FreeEntry]
           /\ UNCHANGED <<takenInodes, inode_table, takenBlocks, fs_data, dir_entry, panicked>>
  <2>1. \A i \in takenInodes : inode_table[i].i_size \in Nat
    BY TFSAssumption DEF IInv, FSTypeOK, Inode
  <2>2. KeepsFiles
    BY <1>2, <2>1 DEF KeepsFiles
  <2>3. /\ OpenHandles' = OpenHandles \ {h}
        /\ \A g \in OpenHandles \ {h} : open_file_table'[g] = open_file_table[g]
    BY <1>2 DEF OpenHandles, IInv, FSTypeOK
  <2> QED
    BY <1>2, <2>2, <2>3 DEF OffsetsInside, StaysOpen
<1> QED
  BY <1>1, <1>2 DEF tfs_close

LEMMA ReadKeepsFiles ==
  ASSUME IInv, OffsetsInside, NEW h, NEW len \in Nat, NEW ret, tfs_read(h, len, ret)
  PROVE  KeepsFiles /\ OffsetsInside' /\ \A g \in OpenHandles : StaysOpen(g)
<1> DEFINE off == open_file_table[h].of_offset
           i == open_file_table[h].of_inumber
           n == BytesToRead(h, len)
<1>1. CASE UNCHANGED fsVars
  BY <1>1, NothingKeepsFiles
<1>2. CASE h \in OpenHandles /\ n > 0
  <2>1. /\ h \in Handles /\ open_file_table[h] \in OpenFile /\ off \in Nat /\ i \in Inums
        /\ inode_table[i].i_size \in 0..BlockSize /\ off <= inode_table[i].i_size
    BY <1>2, HandleFacts
  <2>2. n \in Nat /\ off + n <= inode_table[i].i_size
    <3>1. PICK size \in 0..BlockSize, o \in Nat : size = inode_table[i].i_size /\ o = off
      BY <2>1
    <3>2. n = IF size - o < 0 \/ size - o > len THEN len ELSE size - o
      BY <3>1 DEF BytesToRead
    <3>3. o <= size
      BY <2>1, <3>1
    <3>4. n \in Nat /\ o + n <= size
      BY <3>2, <3>3, TFSAssumption
    <3> QED
      BY <3>1, <3>4
  <2>3. inode_table[i].i_data_block # -1
    <3>1. inode_table[i].i_size > 0
      BY <1>2, <2>1, <2>2
    <3>2. i \in takenInodes
      BY <1>2 DEF OffsetsInside
    <3> QED
      BY <3>1, <3>2 DEF IInv, BlocksOwned, FSTypeOK, Blocks
  <2>4. /\ open_file_table' = [open_file_table EXCEPT ![h].of_offset = off + n]
        /\ UNCHANGED <<takenInodes, inode_table, dir_entry, panicked>>
    <3>1. off + n < PastBlock
      BY <2>1, <2>2, TFSAssumption DEF PastBlock
    <3>2. /\ open_file_table' = [open_file_table EXCEPT
               ![h].of_offset = IF off + n < PastBlock THEN off + n ELSE PastBlock]
          /\ UNCHANGED <<takenInodes, inode_table, dir_entry, panicked>>
      BY <1>2, <2>3 DEF tfs_read
    <3> QED
      BY <3>1, <3>2
  <2>5. /\ OpenHandles' = OpenHandles
        /\ open_file_table'[h].of_inumber = i /\ open_file_table'[h].of_offset = off + n
        /\ \A g \in OpenHandles \ {h} : open_file_table'[g] = open_file_table[g]
    <3>1. open_file_table \in [Handles -> OpenFile \cup {FreeEntry}]
      BY DEF IInv, FSTypeOK
    <3>2. /\ open_file_table'[h].of_inumber = i /\ open_file_table'[h].of_offset = off + n
          /\ \A g \in Handles \ {h} : open_file_table'[g] = open_file_table[g]
      BY <2>1, <2>4, <3>1 DEF OpenFile
    <3>3. i # -1
      BY <2>1 DEF Inums
    <3>4. open_file_table'[h] # FreeEntry /\ open_file_table[h] # FreeEntry
      BY <3>2, <3>3 DEF FreeEntry
    <3> QED
      BY <2>1, <3>2, <3>4 DEF OpenHandles
  <2>6. \A j \in takenInodes : inode_table[j].i_size \in Nat
    BY TFSAssumption DEF IInv, FSTypeOK, Inode
  <2> QED
    BY <2>2, <2>4, <2>5, <2>6 DEF KeepsFiles, OffsetsInside, StaysOpen
<1> QED
  BY <1>1, <1>2 DEF tfs_read
LEMMA WriteKeepsFiles ==
  ASSUME IInv, OffsetsInside, NEW h, NEW buffer \in Seq(Bytes), NEW ret, tfs_write(h, buffer, ret)
  PROVE  KeepsFiles /\ OffsetsInside' /\ \A g \in OpenHandles : StaysOpen(g)
<1> DEFINE off == open_file_table[h].of_offset
           i == open_file_table[h].of_inumber
           size == inode_table[i].i_size
           n == BytesToWrite(h, buffer)
<1>1. CASE UNCHANGED fsVars
  BY <1>1, NothingKeepsFiles
<1>2. CASE h \in OpenHandles /\ n # 0
  <2>1. /\ h \in Handles /\ open_file_table[h] \in OpenFile /\ off \in Nat /\ i \in Inums
        /\ size \in 0..BlockSize /\ off <= size
    BY <1>2, HandleFacts
  <2>2. n \in Nat
    <3>1. PICK o \in 0..BlockSize, len \in Nat : o = off /\ len = Len(buffer)
      BY <2>1, TFSAssumption
    <3>2. n = IF len + o > BlockSize THEN BlockSize - o ELSE len
      BY <3>1 DEF BytesToWrite
    <3> QED
      BY <3>1, <3>2, TFSAssumption
  <2>3. CASE UNCHANGED fsVars
    BY <2>3, NothingKeepsFiles
  <2>4. CASE n > 0 /\ \E b \in Blocks : /\ WriteCells(h, b, buffer, n)
                                        /\ UNCHANGED <<takenInodes, dir_entry, panicked>>
    <3>1. PICK b \in Blocks : WriteCells(h, b, buffer, n)
      BY <2>4
    <3>2. PICK end \in Nat : end = off + n
      BY <2>1, <2>2
    <3>3. PICK top \in Nat : top = (IF end > size THEN end ELSE size)
      BY <2>1, <3>2
    <3>4. /\ open_file_table' = [open_file_table EXCEPT ![h].of_offset = end]
          /\ inode_table' = [inode_table EXCEPT ![i].i_data_block = b, ![i].i_size = top]
      BY <3>1, <3>2, <3>3 DEF WriteCells
    <3>5. /\ \A j \in Inums \ {i} : inode_table'[j] = inode_table[j]
          /\ inode_table'[i].i_size = top
      BY <2>1, <3>4 DEF IInv, FSTypeOK, Inode
    <3>6. top >= size /\ top >= end
      BY <2>1, <3>2, <3>3
    <3>7. \A j \in takenInodes : j \in Inums /\ inode_table[j].i_size \in Nat
                                 /\ inode_table'[j].i_size >= inode_table[j].i_size
      <4>1. \A j \in takenInodes : j \in Inums /\ inode_table[j].i_size \in Nat
        BY TFSAssumption DEF IInv, FSTypeOK, Inode
      <4> QED
        BY <2>1, <3>5, <3>6, <4>1
    <3>8. /\ OpenHandles' = OpenHandles
          /\ open_file_table'[h].of_inumber = i /\ open_file_table'[h].of_offset = end
          /\ \A g \in OpenHandles \ {h} : open_file_table'[g] = open_file_table[g]
      <4>1. open_file_table \in [Handles -> OpenFile \cup {FreeEntry}]
        BY DEF IInv, FSTypeOK
      <4>2. /\ open_file_table'[h].of_inumber = i /\ open_file_table'[h].of_offset = end
            /\ \A g \in Handles \ {h} : open_file_table'[g] = open_file_table[g]
        BY <2>1, <3>4, <4>1 DEF OpenFile
      <4>3. i # -1
        BY <2>1 DEF Inums
      <4>4. open_file_table'[h] # FreeEntry /\ open_file_table[h] # FreeEntry
        BY <4>2, <4>3 DEF FreeEntry
      <4> QED
        BY <2>1, <4>2, <4>4 DEF OpenHandles
    <3>9. KeepsFiles
      BY <2>4, <3>7 DEF KeepsFiles
    <3>10. OffsetsInside'
      <4> SUFFICES ASSUME NEW g \in OpenHandles
                   PROVE  /\ open_file_table'[g].of_inumber \in takenInodes
                          /\ open_file_table'[g].of_offset <= inode_table'[open_file_table'[g].of_inumber].i_size
        BY <2>4, <3>8 DEF OffsetsInside
      <4>1. CASE g = h
        BY <3>5, <3>6, <3>8, <4>1 DEF OffsetsInside
      <4>2. CASE g # h
        <5>1. PICK j \in takenInodes : j = open_file_table[g].of_inumber
          BY DEF OffsetsInside
        <5>2. open_file_table[g].of_offset \in Nat
              /\ open_file_table[g].of_offset <= inode_table[j].i_size
          BY <5>1, HandleFacts
        <5>3. inode_table[j].i_size \in Nat /\ inode_table'[j].i_size >= inode_table[j].i_size
              /\ inode_table'[j].i_size \in Nat
          BY <2>1, <3>5, <3>7
        <5>4. open_file_table'[g] = open_file_table[g]
          BY <3>8, <4>2
        <5> QED
          BY <5>1, <5>2, <5>3, <5>4
      <4> QED
        BY <4>1, <4>2
    <3> QED
      BY <3>8, <3>9, <3>10 DEF StaysOpen
  <2> QED
    BY <1>2, <2>2, <2>3, <2>4 DEF tfs_write
<1> QED
  BY <1>1, <1>2 DEF tfs_write

\* What an open leaves: the handles that were open, and a new one on the file.
LEMMA OpenKeepsFiles ==
  ASSUME IInv, OffsetsInside, NEW name \in Names, NEW mode, "TRUNC" \notin mode,
         NEW ret \in Handles \cup {-1}, tfs_open(name, mode, ret)
  PROVE  /\ KeepsFiles /\ OffsetsInside' /\ \A g \in OpenHandles : StaysOpen(g)
         /\ ret # -1 => /\ ret \in OpenHandles' \ OpenHandles
                        /\ \E d \in Matches(name)' :
                             dir_entry'[d].d_inumber = open_file_table'[ret].of_inumber
<1>1. /\ open_file_table \in [Handles -> OpenFile \cup {FreeEntry}]
      /\ inode_table \in [Inums -> Inode] /\ takenInodes \subseteq Inums
      /\ \A j \in takenInodes : inode_table[j].i_size \in Nat
  BY TFSAssumption DEF IInv, FSTypeOK, Inode
<1>2. -1 \notin Handles
  BY DEF Handles
\* The entry of a handle that add_to_open_file_table fills.
<1>3. ASSUME NEW i \in Inums, NEW offset \in Nat, add_to_open_file_table(i, offset, ret)
      PROVE  /\ OpenHandles \subseteq OpenHandles' /\ OpenHandles' \subseteq OpenHandles \cup {ret}
             /\ \A g \in OpenHandles : open_file_table'[g] = open_file_table[g]
             /\ ret # -1 => /\ ret \in OpenHandles' \ OpenHandles
                            /\ open_file_table'[ret] = [of_inumber |-> i, of_offset |-> offset]
  <2>1. CASE UNCHANGED open_file_table /\ ret = -1
    BY <2>1 DEF OpenHandles
  <2>2. CASE /\ ret \in FreeHandles
             /\ open_file_table' = [open_file_table EXCEPT
                                      ![ret] = [of_inumber |-> i, of_offset |-> offset]]
    <3>1. ret \in Handles \ OpenHandles
      BY <2>2 DEF FreeHandles
    <3>2. /\ open_file_table'[ret] = [of_inumber |-> i, of_offset |-> offset]
          /\ \A g \in Handles \ {ret} : open_file_table'[g] = open_file_table[g]
      BY <1>1, <2>2, <3>1
    <3>3. open_file_table'[ret] # FreeEntry
      <4>1. i # -1
        BY DEF Inums
      <4> QED
        BY <3>2, <4>1 DEF FreeEntry
    <3> QED
      BY <3>1, <3>2, <3>3 DEF OpenHandles
  <2> QED
    BY <1>3, <2>1, <2>2 DEF add_to_open_file_table, IsFirst
<1>4. CASE UNCHANGED fsVars /\ ret = -1
  BY <1>4, NothingKeepsFiles
<1>5. CASE OpenExisting(name, mode, ret)
  <2>1. PICK s \in DirSlots :
          /\ s \in Matches(name)
          /\ add_to_open_file_table(dir_entry[s].d_inumber,
               IF "APPEND" \in mode THEN inode_table'[dir_entry[s].d_inumber].i_size ELSE 0, ret)
          /\ UNCHANGED <<inode_table, takenInodes, dir_entry, panicked>>
    BY <1>5 DEF OpenExisting, IsFirst
  <2>2. PICK i \in takenInodes : i = dir_entry[s].d_inumber
    BY <2>1 DEF IInv, DirectoryConsistent, Used, Matches
  <2>3. PICK offset \in Nat : /\ offset = (IF "APPEND" \in mode THEN inode_table'[i].i_size ELSE 0)
                              /\ offset <= inode_table[i].i_size
    BY <1>1, <2>1, <2>2
  <2>4. /\ OpenHandles \subseteq OpenHandles' /\ OpenHandles' \subseteq OpenHandles \cup {ret}
        /\ \A g \in OpenHandles : open_file_table'[g] = open_file_table[g]
        /\ ret # -1 => /\ ret \in OpenHandles' \ OpenHandles
                       /\ open_file_table'[ret] = [of_inumber |-> i, of_offset |-> offset]
    BY <1>1, <1>3, <2>1, <2>2, <2>3
  <2>5. KeepsFiles
    BY <1>1, <2>1 DEF KeepsFiles
  <2>6. OffsetsInside'
    <3>1. -1 \notin OpenHandles'
      BY <1>2 DEF OpenHandles
    <3> QED
      BY <2>1, <2>2, <2>3, <2>4, <3>1 DEF OffsetsInside
  <2>7. s \in Matches(name)' /\ dir_entry'[s].d_inumber = i
    BY <2>1, <2>2 DEF Matches
  <2> QED
    BY <2>4, <2>5, <2>6, <2>7 DEF StaysOpen
<1>6. CASE OpenCreating(name, mode, ret) /\ ~(UNCHANGED fsVars /\ ret = -1)
  <2>1. PICK i \in Inums :
          /\ i \notin takenInodes
          /\ inode_table' = [inode_table EXCEPT ![i] = NewFile]
          /\ UNCHANGED panicked
          /\ \/ ret = -1 /\ UNCHANGED <<takenInodes, dir_entry, open_file_table>>
             \/ \E s \in DirSlots :
                  /\ IsFirst(s, FreeDirSlots)
                  /\ takenInodes' = takenInodes \cup {i}
                  /\ dir_entry' = [dir_entry EXCEPT ![s] = [d_inumber |-> i, d_name |-> name]]
                  /\ add_to_open_file_table(i, 0, ret)
    BY <1>6 DEF OpenCreating, IsFirst, FreeInodes
  <2>2. inode_table'[i].i_size = 0 /\ \A j \in takenInodes : inode_table'[j] = inode_table[j]
    BY <1>1, <2>1 DEF NewFile
  <2>3. CASE ret = -1 /\ UNCHANGED <<takenInodes, dir_entry, open_file_table>>
    BY <1>1, <2>1, <2>2, <2>3 DEF KeepsFiles, OffsetsInside, StaysOpen, OpenHandles
  <2>4. CASE \E s \in DirSlots :
               /\ IsFirst(s, FreeDirSlots)
               /\ takenInodes' = takenInodes \cup {i}
               /\ dir_entry' = [dir_entry EXCEPT ![s] = [d_inumber |-> i, d_name |-> name]]
               /\ add_to_open_file_table(i, 0, ret)
    <3>1. PICK s \in DirSlots :
            /\ s \notin Used
            /\ takenInodes' = takenInodes \cup {i}
            /\ dir_entry' = [dir_entry EXCEPT ![s] = [d_inumber |-> i, d_name |-> name]]
            /\ add_to_open_file_table(i, 0, ret)
      BY <2>4 DEF IsFirst, FreeDirSlots, Used
    <3>2. /\ OpenHandles \subseteq OpenHandles' /\ OpenHandles' \subseteq OpenHandles \cup {ret}
          /\ \A g \in OpenHandles : open_file_table'[g] = open_file_table[g]
          /\ ret # -1 => /\ ret \in OpenHandles' \ OpenHandles
                         /\ open_file_table'[ret] = [of_inumber |-> i, of_offset |-> 0]
      BY <1>3, <3>1
    <3>3. /\ dir_entry'[s].d_inumber = i /\ dir_entry'[s].d_name = name
          /\ \A d \in DirSlots \ {s} : dir_entry'[d] = dir_entry[d]
      BY <3>1 DEF IInv, FSTypeOK
    <3>4. KeepsFiles
      BY <1>1, <2>1, <2>2, <3>1, <3>3 DEF KeepsFiles, Used
    <3>5. OffsetsInside'
      <4>1. -1 \notin OpenHandles'
        BY <1>2 DEF OpenHandles
      <4> QED
        BY <2>2, <3>1, <3>2, <4>1 DEF OffsetsInside
    <3>6. s \in Matches(name)'
      <4>1. i # -1
        BY DEF Inums
      <4> QED
        BY <3>3, <4>1 DEF Matches
    <3> QED
      BY <3>2, <3>3, <3>4, <3>5, <3>6 DEF StaysOpen
  <2> QED
    BY <2>1, <2>3, <2>4
<1> QED
  BY <1>4, <1>5, <1>6 DEF tfs_open, OpenMissing
-----------------------------------------------------------------------------
(* Callers that write at the end of a file.                                *)

\* There is a block for each file: tfs_default_params has 64 inodes and 1024 blocks.
RoomForFiles == MaxInodes <= MaxBlocks

FileIs(b, f) == \E d \in Matches(b) : dir_entry[d].d_inumber = f

\* The size of a file, and its bytes.
Size(f) == inode_table[f].i_size
Text(f) == [k \in 1..Size(f) |-> fs_data[inode_table[f].i_data_block][k - 1]]

SameText(f) == Size(f)' = Size(f) /\ Text(f)' = Text(f)

HasBlock(f, b) == Size(f) > 0 /\ inode_table[f].i_data_block = b

\* Every block that is taken is some file's: none is lost, and the first is the
\* directory's.
NoBlockLost ==
  /\ \A b \in takenBlocks : \E f \in takenInodes : HasBlock(f, b)
  /\ HasBlock(ROOT_DIR_INUM, 0)

AtTheEnd(h) == open_file_table[h].of_offset = Size(open_file_table[h].of_inumber)

LEMMA FileFacts ==
  ASSUME DirectoryConsistent
  PROVE  /\ \A b, f : FileIs(b, f) => f \in takenInodes \ {ROOT_DIR_INUM} /\ b \in Names
         /\ \A b, f, g : FileIs(b, f) /\ FileIs(b, g) => f = g
         /\ \A b, c, f : FileIs(b, f) /\ FileIs(c, f) => b = c
         /\ \A b : Matches(b) # {} <=> \E f : FileIs(b, f)
<1>1. ASSUME NEW b, NEW d \in Matches(b)
      PROVE  d \in Used /\ dir_entry[d].d_name = b
  BY DEF Matches, Used
<1>2. ASSUME NEW b, NEW f, FileIs(b, f)
      PROVE  f \in takenInodes \ {ROOT_DIR_INUM} /\ b \in Names
  BY <1>1, <1>2 DEF FileIs, DirectoryConsistent
<1>3. ASSUME NEW b, NEW f, NEW g, FileIs(b, f), FileIs(b, g)
      PROVE  f = g
  <2>1. PICK d \in Matches(b), e \in Matches(b) : dir_entry[d].d_inumber = f /\ dir_entry[e].d_inumber = g
    BY <1>3 DEF FileIs
  <2>2. d = e
    BY <1>1 DEF DirectoryConsistent
  <2> QED
    BY <2>1, <2>2
<1>4. ASSUME NEW b, NEW c, NEW f, FileIs(b, f), FileIs(c, f)
      PROVE  b = c
  <2>1. PICK d \in Matches(b), e \in Matches(c) : dir_entry[d].d_inumber = f /\ dir_entry[e].d_inumber = f
    BY <1>4 DEF FileIs
  <2>2. d = e
    BY <1>1, <2>1 DEF DirectoryConsistent
  <2> QED
    BY <1>1, <2>1, <2>2
<1>5. \A b : Matches(b) # {} <=> \E f : FileIs(b, f)
  BY DEF FileIs
<1> QED
  BY <1>2, <1>3, <1>4, <1>5

\* The bytes of a file are those of its block.
LEMMA TextFacts ==
  ASSUME IInv, NEW f \in takenInodes
  PROVE  /\ Size(f) \in 0..BlockSize
         /\ Len(Text(f)) = Size(f)
         /\ \A k \in 1..Size(f) : Text(f)[k] = fs_data[inode_table[f].i_data_block][k - 1]
<1>1. f \in Inums /\ Size(f) \in 0..BlockSize
  BY DEF IInv, FSTypeOK, Inode, Size
<1>2. PICK size \in Nat : size = Size(f)
  BY <1>1, TFSAssumption
<1>3. Text(f) = [k \in 1..size |-> fs_data[inode_table[f].i_data_block][k - 1]]
  BY <1>2 DEF Text
<1>4. Len(Text(f)) = size
  BY <1>3
<1>5. \A k \in 1..size : Text(f)[k] = fs_data[inode_table[f].i_data_block][k - 1]
  BY <1>3
<1> QED
  BY <1>1, <1>2, <1>4, <1>5

LEMMA TextKept ==
  ASSUME IInv, NEW f \in takenInodes, UNCHANGED inode_table[f],
         Size(f) > 0 => UNCHANGED fs_data[inode_table[f].i_data_block]
  PROVE  SameText(f)
<1>1. Size(f)' = Size(f)
  BY DEF Size
<1>2. CASE Size(f) > 0
  BY <1>1, <1>2 DEF Text, SameText
<1>3. CASE ~(Size(f) > 0)
  <2>1. Size(f) = 0
    BY <1>3, TextFacts, TFSAssumption
  <2>2. 1..0 = {}
    OBVIOUS
  <2>3. Text(f) = [k \in {} |-> 0] /\ Text(f)' = [k \in {} |-> 0]
    BY <1>1, <2>1, <2>2 DEF Text
  <2> QED
    BY <1>1, <2>3 DEF SameText
<1> QED
  BY <1>2, <1>3

\* text2 is text and the first n bytes of buffer.
IsExtended(text, text2, buffer, n) ==
  /\ n \in 0..Len(buffer) /\ Len(text2) = Len(text) + n
  /\ \A k \in 1..Len(text) : text2[k] = text[k]
  /\ \A k \in 1..n : text2[Len(text) + k] = buffer[k]

\* What a write does to the file at whose end it is made: it grows by the bytes of the
\* buffer, unless it gets full.
EndWritten(h, f, buffer, n) ==
  /\ IsExtended(Text(f), Text(f)', buffer, n)
  /\ Size(f)' < BlockSize => n = Len(buffer)
  /\ open_file_table'[h].of_offset = Size(f)'
  /\ \A g \in OpenHandles \ {h} : open_file_table'[g] = open_file_table[g]
  /\ \A g \in takenInodes \ {f} : SameText(g)
  /\ UNCHANGED <<takenInodes, dir_entry>>

LEMMA NothingWritten ==
  ASSUME IInv, UNCHANGED fsVars, NoBlockLost, NEW h, NEW f \in takenInodes, NEW buffer \in Seq(Bytes),
         open_file_table[h].of_offset = Size(f), Size(f) < BlockSize => Len(buffer) = 0
  PROVE  EndWritten(h, f, buffer, 0) /\ NoBlockLost'
<1>1. \A g : SameText(g)
  BY DEF Size, Text, SameText, fsVars
<1>2. NoBlockLost'
  BY <1>1 DEF NoBlockLost, HasBlock, fsVars, SameText
<1>3. PICK text : text = Text(f)
  OBVIOUS
<1>4. PICK size \in Nat, len \in Nat : size = Len(text) /\ len = Len(buffer) /\ size = Size(f)
  BY <1>3, TextFacts, TFSAssumption
<1>5. Text(f)' = text
  BY <1>1, <1>3 DEF SameText
<1>6. 0 \in 0..len /\ size = size + 0 /\ 1..0 = {}
  BY <1>4
<1>7. IsExtended(text, text, buffer, 0)
  BY <1>4, <1>6 DEF IsExtended
<1> QED
  BY <1>1, <1>2, <1>3, <1>4, <1>5, <1>7 DEF EndWritten, fsVars, Size

\* A file without a block can be given one.
LEMMA BlockLeft ==
  ASSUME IInv, NoBlockLost, RoomForFiles, NEW f \in takenInodes, Size(f) = 0
  PROVE  FreeBlocks # {}
<1> SUFFICES ASSUME FreeBlocks = {} PROVE FALSE
  OBVIOUS
<1> DEFINE owner == [b \in Blocks |-> CHOOSE g \in takenInodes : HasBlock(g, b)]
<1>1. takenInodes \subseteq Inums
  BY DEF IInv, FSTypeOK
<1>2. \A b \in Blocks : owner[b] \in Inums \ {f} /\ HasBlock(owner[b], b)
  BY <1>1 DEF NoBlockLost, FreeBlocks, HasBlock
<1>3. owner \in [Blocks -> Inums \ {f}]
  BY <1>2
<1>4. IsFiniteSet(Blocks) /\ Cardinality(Blocks) = MaxBlocks
  BY FS_Interval, TFSAssumption DEF Blocks
<1>5. IsFiniteSet(Inums) /\ Cardinality(Inums) = MaxInodes
  BY FS_Interval, TFSAssumption DEF Inums
<1>6. IsFiniteSet(Inums \ {f}) /\ Cardinality(Inums \ {f}) = MaxInodes - 1
  BY <1>1, <1>5, FS_RemoveElement
<1>7. Cardinality(Inums \ {f}) < Cardinality(Blocks)
  BY <1>4, <1>6, TFSAssumption DEF RoomForFiles
<1>8. PICK b \in Blocks, c \in Blocks : b # c /\ owner[b] = owner[c]
  <2> HIDE DEF owner
  <2> QED
    BY <1>3, <1>4, <1>6, <1>7, FS_PigeonHole
<1> QED
  BY <1>2, <1>8 DEF HasBlock

\* The write proper.
LEMMA CellsAtTheEnd ==
  ASSUME IInv, OffsetsInside, NoBlockLost, NEW h \in OpenHandles, NEW f,
         f = open_file_table[h].of_inumber, f # ROOT_DIR_INUM, open_file_table[h].of_offset = Size(f),
         NEW buffer \in Seq(Bytes), NEW b \in Blocks,
         NEW n, n = BytesToWrite(h, buffer), n > 0,
         IF Size(f) = 0 THEN IsFirst(b, FreeBlocks) /\ takenBlocks' = takenBlocks \cup {b}
                        ELSE b = inode_table[f].i_data_block /\ UNCHANGED takenBlocks,
         WriteCells(h, b, buffer, n),
         UNCHANGED <<takenInodes, dir_entry, panicked>>
  PROVE  EndWritten(h, f, buffer, n) /\ NoBlockLost'
<1> USE DEF Size
<1>1. FSTypeOK /\ BlocksOwned
  BY DEF IInv
<1>2. PICK size \in 0..BlockSize, len \in Nat : size = Size(f) /\ len = Len(buffer)
  BY HandleFacts
<1>3. /\ n \in 1..BlockSize /\ size + n <= BlockSize /\ n \in 0..len
      /\ size + n < BlockSize => n = len
  <2>1. n = IF len + size > BlockSize THEN BlockSize - size ELSE len
    BY <1>2 DEF BytesToWrite
  <2>2. CASE len + size > BlockSize
    <3>1. n = BlockSize - size
      BY <2>1, <2>2
    <3> QED
      BY <2>2, <3>1, TFSAssumption
  <2>3. CASE ~(len + size > BlockSize)
    <3>1. n = len
      BY <2>1, <2>3
    <3> QED
      BY <2>3, <3>1, TFSAssumption
  <2> QED
    BY <2>2, <2>3
<1>4. h \in Handles /\ f \in Inums /\ f \in takenInodes
  BY HandleFacts DEF OffsetsInside
<1>5. PICK end \in 1..BlockSize : end = size + n
  BY <1>2, <1>3
<1>6. /\ open_file_table' = [open_file_table EXCEPT ![h].of_offset = end]
      /\ inode_table' = [inode_table EXCEPT ![f].i_data_block = b, ![f].i_size = end]
  <2>1. (IF end > size THEN end ELSE size) = end
    BY <1>2, <1>3, <1>5
  <2> QED
    BY <1>2, <1>5, <2>1 DEF WriteCells
<1>7. /\ inode_table'[f].i_data_block = b /\ inode_table'[f].i_size = end
      /\ \A j \in Inums \ {f} : inode_table'[j] = inode_table[j]
  BY <1>1, <1>4, <1>6 DEF FSTypeOK, Inode
<1>8. /\ open_file_table'[h].of_offset = end
      /\ \A g \in Handles \ {h} : open_file_table'[g] = open_file_table[g]
  BY <1>1, <1>4, <1>6, HandleFacts DEF FSTypeOK, OpenFile
<1>9. \A j \in takenInodes \ {f} : HasBlock(j, inode_table[j].i_data_block) =>
          inode_table[j].i_data_block # b
  BY <1>1, <1>2, <1>4 DEF BlocksOwned, IsFirst, FreeBlocks, HasBlock
<1>10. /\ \A d : d # b => fs_data'[d] = fs_data[d]
       /\ b \in DataBlocks =>
            \A c \in Cells : fs_data'[b][c] = IF c >= size /\ c < size + n THEN buffer[c - size + 1]
                                              ELSE fs_data[b][c]
  <2> DEFINE cells == [c \in Cells |-> IF c >= size /\ c < size + n THEN buffer[c - size + 1]
                                       ELSE fs_data[b][c]]
  <2>1. fs_data' = [fs_data EXCEPT ![b] = cells]
    BY <1>2 DEF WriteCells
  <2>2. fs_data \in [DataBlocks -> [Cells -> Bytes]]
    BY <1>1 DEF FSTypeOK
  <2> QED
    BY <2>1, <2>2
<1>11. b \in DataBlocks
  <2>1. ROOT_DIR_INUM \in takenInodes /\ HasBlock(ROOT_DIR_INUM, 0)
    BY DEF NoBlockLost, IInv, DirectoryConsistent
  <2>2. b # 0
    <3>1. CASE size = 0
      BY <1>1, <1>2, <2>1, <3>1 DEF BlocksOwned, IsFirst, FreeBlocks, HasBlock
    <3>2. CASE size # 0
      BY <1>1, <1>2, <1>4, <2>1, <3>2 DEF BlocksOwned, HasBlock
    <3> QED
      BY <3>1, <3>2
  <2> QED
    BY <2>2 DEF DataBlocks
<1>12. ASSUME NEW g \in takenInodes \ {f}
       PROVE  SameText(g) /\ (\A d : HasBlock(g, d) => HasBlock(g, d)')
  <2>1. inode_table'[g] = inode_table[g]
    BY <1>1, <1>7 DEF FSTypeOK
  <2>2. PICK d : d = inode_table[g].i_data_block
    OBVIOUS
  <2>3. Size(g) > 0 => fs_data'[d] = fs_data[d]
    BY <1>9, <1>10, <2>2 DEF HasBlock
  <2>4. inode_table'[g].i_data_block = d
    BY <2>1, <2>2
  <2>5. SameText(g)
    BY <2>1, <2>2, <2>3, <2>4, TextKept
  <2> QED
    BY <2>1, <2>5 DEF HasBlock
<1>13. NoBlockLost'
  <2>1. HasBlock(f, b)'
    BY <1>5, <1>7 DEF HasBlock
  <2>2. ASSUME NEW d \in takenBlocks' PROVE \E g \in takenInodes : HasBlock(g, d)'
    <3>1. CASE d = b
      BY <1>4, <2>1, <3>1
    <3>2. CASE d # b
      <4>1. PICK g \in takenInodes : HasBlock(g, d)
        BY <2>2, <3>2 DEF NoBlockLost
      <4>2. g # f
        BY <1>2, <3>2, <4>1 DEF HasBlock
      <4> QED
        BY <1>12, <4>1, <4>2
    <3> QED
      BY <3>1, <3>2
  <2>3. HasBlock(ROOT_DIR_INUM, 0)'
    BY <1>12 DEF NoBlockLost, IInv, DirectoryConsistent
  <2> QED
    BY <2>2, <2>3 DEF NoBlockLost
<1>14. PICK text : text = Text(f)
  OBVIOUS
<1>15. /\ Len(text) = size
       /\ \A k \in 1..size : text[k] = fs_data[inode_table[f].i_data_block][k - 1]
  BY <1>2, <1>4, <1>14, TextFacts
<1>16. Text(f)' = [k \in 1..end |-> fs_data'[b][k - 1]]
  BY <1>7 DEF Text
<1>17. PICK text2 : text2 = [k \in 1..end |-> fs_data'[b][k - 1]]
  OBVIOUS
<1>18. Len(text2) = size + n /\ \A k \in 1..end : text2[k] = fs_data'[b][k - 1]
  BY <1>5, <1>17
<1>19. ASSUME NEW k \in 1..size
       PROVE  text2[k] = text[k]
  <2>1. k - 1 \in Cells /\ k - 1 < size /\ k \in 1..end /\ size # 0
    BY <1>3, <1>5, TFSAssumption DEF Cells
  <2>2. fs_data'[b][k - 1] = fs_data[b][k - 1]
    BY <1>10, <1>11, <2>1
  <2>3. b = inode_table[f].i_data_block
    BY <1>2, <2>1
  <2> QED
    BY <1>15, <1>18, <2>1, <2>2, <2>3
<1>20. ASSUME NEW k \in 1..n
       PROVE  text2[size + k] = buffer[k]
  <2>1. PICK c \in Nat : c = size + k - 1
    BY <1>2, <1>3
  <2>2. c \in Cells /\ c >= size /\ c < size + n /\ size + k \in 1..end /\ c - size + 1 = k /\ (size + k) - 1 = c
    BY <1>3, <1>5, <2>1, TFSAssumption DEF Cells
  <2>3. fs_data'[b][c] = buffer[k]
    BY <1>10, <1>11, <2>2
  <2> QED
    BY <1>18, <2>2, <2>3
<1>21. IsExtended(text, text2, buffer, n)
  BY <1>2, <1>3, <1>15, <1>18, <1>19, <1>20 DEF IsExtended
<1>22. \A g \in OpenHandles \ {h} : open_file_table'[g] = open_file_table[g]
  BY <1>8 DEF OpenHandles
<1>23. end < BlockSize => n = Len(buffer)
  BY <1>2, <1>3, <1>5
<1>24. IsExtended(Text(f), Text(f)', buffer, n)
  BY <1>14, <1>16, <1>17, <1>21
<1>25. \A g \in takenInodes \ {f} : SameText(g)
  BY <1>12
<1>26. open_file_table'[h].of_offset = Size(f)' /\ Size(f)' = end
  BY <1>7, <1>8
<1> QED
  BY <1>13, <1>22, <1>23, <1>24, <1>25, <1>26 DEF EndWritten

LEMMA WriteAtTheEnd ==
  ASSUME IInv, OffsetsInside, NoBlockLost, RoomForFiles, NEW h \in OpenHandles, NEW f,
         f = open_file_table[h].of_inumber, f # ROOT_DIR_INUM, open_file_table[h].of_offset = Size(f),
         NEW buffer \in Seq(Bytes), NEW ret, tfs_write(h, buffer, ret)
  PROVE  EndWritten(h, f, buffer, ret) /\ NoBlockLost'
<1>1. PICK size \in 0..BlockSize, len \in Nat : size = Size(f) /\ len = Len(buffer)
  BY HandleFacts DEF Size
<1>2. PICK n : n = BytesToWrite(h, buffer)
  OBVIOUS
<1>3. n \in Nat /\ (n = 0 /\ size < BlockSize => len = 0)
  <2>1. n = IF len + size > BlockSize THEN BlockSize - size ELSE len
    BY <1>1, <1>2 DEF BytesToWrite
  <2>2. CASE len + size > BlockSize
    <3>1. n = BlockSize - size
      BY <2>1, <2>2
    <3> QED
      BY <1>1, <3>1, TFSAssumption
  <2>3. CASE ~(len + size > BlockSize)
    <3>1. n = len
      BY <2>1, <2>3
    <3> QED
      BY <1>1, <3>1
  <2> QED
    BY <2>2, <2>3
<1>4. f \in takenInodes /\ (Size(f) = 0 => FreeBlocks # {})
  BY BlockLeft DEF OffsetsInside
<1>5. CASE n = 0
  <2>1. UNCHANGED fsVars /\ ret = 0
    BY <1>2, <1>5 DEF tfs_write
  <2> QED
    BY <1>1, <1>3, <1>4, <1>5, <2>1, NothingWritten
<1>6. CASE n # 0
  <2>1. PICK b \in Blocks :
          /\ IF Size(f) = 0 THEN IsFirst(b, FreeBlocks) /\ takenBlocks' = takenBlocks \cup {b}
                            ELSE b = inode_table[f].i_data_block /\ UNCHANGED takenBlocks
          /\ WriteCells(h, b, buffer, n)
          /\ UNCHANGED <<takenInodes, dir_entry, panicked>>
    BY <1>2, <1>3, <1>4, <1>6 DEF tfs_write, Size
  <2>2. ret = n
    BY <1>2, <1>3, <1>4, <1>6 DEF tfs_write, Size
  <2> QED
    BY <1>2, <1>3, <1>6, <2>1, <2>2, CellsAtTheEnd
<1> QED
  BY <1>5, <1>6
\* What an open leaves alone: the bytes of the files and the handles that are open.
LEMMA OpenKeepsBytes ==
  ASSUME IInv, NoBlockLost, NEW name \in Names, NEW mode, "TRUNC" \notin mode,
         NEW ret \in Handles \cup {-1}, tfs_open(name, mode, ret)
  PROVE  /\ \A g \in takenInodes : SameText(g)
         /\ NoBlockLost'
         /\ \A g \in OpenHandles : open_file_table'[g] = open_file_table[g]
         /\ \A b, f : FileIs(b, f)' => \/ FileIs(b, f)
                                       \/ b = name /\ Matches(name) = {} /\ Size(f)' = 0
         /\ "CREAT" \notin mode => UNCHANGED <<dir_entry, inode_table>>
         /\ "APPEND" \in mode /\ "CREAT" \notin mode /\ ret # -1 => AtTheEnd(ret)'
         /\ "APPEND" \notin mode /\ "CREAT" \notin mode /\ ret # -1 => open_file_table'[ret].of_offset = 0
<1>1. /\ open_file_table \in [Handles -> OpenFile \cup {FreeEntry}]
      /\ inode_table \in [Inums -> Inode] /\ takenInodes \subseteq Inums
  BY DEF IInv, FSTypeOK
<1>2. ASSUME NEW i, NEW offset, add_to_open_file_table(i, offset, ret)
      PROVE  /\ \A g \in OpenHandles : open_file_table'[g] = open_file_table[g]
             /\ ret # -1 => open_file_table'[ret] = [of_inumber |-> i, of_offset |-> offset]
  BY <1>1, <1>2 DEF add_to_open_file_table, IsFirst, FreeHandles, OpenHandles
<1>3. ASSUME \A g \in takenInodes : inode_table'[g] = inode_table[g], UNCHANGED <<takenBlocks, fs_data>>,
             takenInodes \subseteq takenInodes'
      PROVE  (\A g \in takenInodes : SameText(g)) /\ NoBlockLost'
  <2>1. \A g \in takenInodes : SameText(g)
    BY <1>3, TextKept
  <2>2. NoBlockLost'
    BY <1>3 DEF NoBlockLost, HasBlock, Size, IInv, DirectoryConsistent
  <2> QED
    BY <2>1, <2>2
<1>4. CASE UNCHANGED fsVars /\ ret = -1
  <2>1. \A b, f : FileIs(b, f)' => FileIs(b, f)
    BY <1>4 DEF fsVars, FileIs, Matches
  <2>2. (\A g \in takenInodes : SameText(g)) /\ NoBlockLost'
    BY <1>3, <1>4 DEF fsVars
  <2> QED
    BY <1>4, <2>1, <2>2 DEF fsVars
<1>5. CASE OpenExisting(name, mode, ret)
  <2>1. PICK s \in DirSlots :
          /\ add_to_open_file_table(dir_entry[s].d_inumber,
               IF "APPEND" \in mode THEN inode_table'[dir_entry[s].d_inumber].i_size ELSE 0, ret)
          /\ UNCHANGED <<inode_table, takenInodes, takenBlocks, fs_data, dir_entry, panicked>>
    BY <1>5 DEF OpenExisting, IsFirst
  <2>2. \A b, f : FileIs(b, f)' <=> FileIs(b, f)
    BY <2>1 DEF FileIs, Matches
  <2>3. PICK i, offset : /\ i = dir_entry[s].d_inumber
                         /\ offset = IF "APPEND" \in mode THEN inode_table'[i].i_size ELSE 0
    OBVIOUS
  <2>4. add_to_open_file_table(i, offset, ret)
    BY <2>1, <2>3
  <2>5. /\ \A g \in OpenHandles : open_file_table'[g] = open_file_table[g]
        /\ ret # -1 => open_file_table'[ret] = [of_inumber |-> i, of_offset |-> offset]
    BY <1>2, <2>4
  <2>6. "APPEND" \in mode /\ ret # -1 => AtTheEnd(ret)'
    BY <2>3, <2>5 DEF AtTheEnd, Size
  <2>7. "APPEND" \notin mode /\ ret # -1 => open_file_table'[ret].of_offset = 0
    BY <2>3, <2>5
  <2>8. \A g \in takenInodes : inode_table'[g] = inode_table[g]
    BY <2>1
  <2>9. (\A g \in takenInodes : SameText(g)) /\ NoBlockLost'
    BY <1>3, <2>1
  <2> QED
    BY <2>1, <2>2, <2>5, <2>6, <2>7, <2>9
<1>6. CASE OpenCreating(name, mode, ret) /\ ~(UNCHANGED fsVars /\ ret = -1)
  <2>1. PICK i \in Inums :
          /\ i \notin takenInodes
          /\ inode_table' = [inode_table EXCEPT ![i] = NewFile]
          /\ UNCHANGED <<takenBlocks, fs_data>>
          /\ \/ ret = -1 /\ UNCHANGED <<takenInodes, dir_entry, open_file_table>>
             \/ \E s \in DirSlots :
                  /\ IsFirst(s, FreeDirSlots)
                  /\ takenInodes' = takenInodes \cup {i}
                  /\ dir_entry' = [dir_entry EXCEPT ![s] = [d_inumber |-> i, d_name |-> name]]
                  /\ add_to_open_file_table(i, 0, ret)
    BY <1>6 DEF OpenCreating, IsFirst, FreeInodes
  <2>2. /\ Size(i)' = 0 /\ \A j \in takenInodes : inode_table'[j] = inode_table[j]
        /\ takenInodes \subseteq takenInodes' /\ "CREAT" \in mode /\ Matches(name) = {}
    BY <1>1, <1>6, <2>1 DEF NewFile, Size, OpenCreating
  <2>3. CASE ret = -1 /\ UNCHANGED <<takenInodes, dir_entry, open_file_table>>
    <3>1. \A b, f : FileIs(b, f)' <=> FileIs(b, f)
      BY <2>3 DEF FileIs, Matches
    <3> QED
      BY <1>3, <2>1, <2>2, <2>3, <3>1
  <2>4. CASE \E s \in DirSlots :
               /\ IsFirst(s, FreeDirSlots)
               /\ takenInodes' = takenInodes \cup {i}
               /\ dir_entry' = [dir_entry EXCEPT ![s] = [d_inumber |-> i, d_name |-> name]]
               /\ add_to_open_file_table(i, 0, ret)
    <3>1. PICK s \in DirSlots :
            /\ dir_entry' = [dir_entry EXCEPT ![s] = [d_inumber |-> i, d_name |-> name]]
            /\ add_to_open_file_table(i, 0, ret)
      BY <2>4
    <3>2. /\ dir_entry'[s].d_inumber = i /\ dir_entry'[s].d_name = name
          /\ \A d \in DirSlots \ {s} : dir_entry'[d] = dir_entry[d]
      BY <3>1 DEF IInv, FSTypeOK
    <3>3. \A b, f : FileIs(b, f)' => FileIs(b, f) \/ (b = name /\ f = i)
      BY <3>2 DEF FileIs, Matches
    <3>4. \A b, f : FileIs(b, f)' => \/ FileIs(b, f)
                                     \/ b = name /\ Matches(name) = {} /\ Size(f)' = 0
      BY <2>2, <3>3 DEF Size
    <3>5. \A g \in OpenHandles : open_file_table'[g] = open_file_table[g]
      BY <1>2, <3>1
    <3>6. (\A g \in takenInodes : SameText(g)) /\ NoBlockLost'
      BY <1>3, <2>1, <2>2
    <3> QED
      BY <2>2, <3>4, <3>5, <3>6
  <2> QED
    BY <2>1, <2>3, <2>4
<1> QED
  BY <1>4, <1>5, <1>6 DEF tfs_open, OpenMissing

\* A read of one byte, within the file: it fails at the end and nowhere else.
LEMMA ByteRead ==
  ASSUME IInv, OffsetsInside, NEW h \in OpenHandles, NEW f, f = open_file_table[h].of_inumber,
         NEW ret, tfs_read(h, 1, ret)
  PROVE  \/ ret = 0 /\ UNCHANGED fsVars
         \/ /\ ret = 1 /\ open_file_table[h].of_offset + 1 \in 1..Size(f)
            /\ open_file_table'[h].of_offset = open_file_table[h].of_offset + 1
            /\ \A byte : Copied(h, <<byte>>) => byte = Text(f)[open_file_table[h].of_offset + 1]
            /\ UNCHANGED <<takenInodes, inode_table, takenBlocks, fs_data, dir_entry, panicked>>
<1>1. h \in Handles /\ f \in takenInodes
  BY HandleFacts DEF OffsetsInside
<1>2. PICK size \in 0..BlockSize, off \in Nat : size = Size(f) /\ off = open_file_table[h].of_offset /\ off <= size
  BY HandleFacts DEF Size
<1>3. PICK n : n = BytesToRead(h, 1)
  OBVIOUS
<1>4. n = IF off = size THEN 0 ELSE 1
  <2>1. n = IF size - off < 0 \/ size - off > 1 THEN 1 ELSE size - off
    BY <1>2, <1>3 DEF BytesToRead, Size
  <2> QED
    BY <1>2, <2>1, TFSAssumption
<1>5. CASE off = size
  BY <1>3, <1>4, <1>5 DEF tfs_read
<1>6. CASE off # size
  <2>1. n = 1 /\ off + 1 \in 1..size /\ size > 0
    BY <1>2, <1>4, <1>6, TFSAssumption
  <2>2. PICK b : b = inode_table[f].i_data_block
    OBVIOUS
  <2>3. b # -1
    BY <1>1, <1>2, <2>1, <2>2 DEF IInv, BlocksOwned, FSTypeOK, Blocks, Size
  <2>4. /\ ret = 1
        /\ open_file_table' = [open_file_table EXCEPT
             ![h].of_offset = IF off + n < PastBlock THEN off + n ELSE PastBlock]
        /\ UNCHANGED <<takenInodes, inode_table, takenBlocks, fs_data, dir_entry, panicked>>
    BY <1>2, <1>3, <2>1, <2>2, <2>3 DEF tfs_read
  <2>5. off + 1 < PastBlock /\ off + 1 <= BlockSize /\ off + 1 - 1 = off
    BY <1>2, <2>1, TFSAssumption DEF PastBlock
  <2>6. open_file_table' = [open_file_table EXCEPT ![h].of_offset = off + 1]
    BY <2>1, <2>4, <2>5
  <2>7. open_file_table'[h].of_offset = off + 1
    BY <1>1, <2>6, HandleFacts DEF IInv, FSTypeOK, OpenFile
  <2>8. ASSUME NEW byte, Copied(h, <<byte>>)
        PROVE  byte = Text(f)[off + 1]
    <3>1. \A k \in 1..Len(<<byte>>) : off + k <= BlockSize => <<byte>>[k] = fs_data[b][off + k - 1]
      BY <1>2, <2>2, <2>8 DEF Copied
    <3>2. Len(<<byte>>) = 1 /\ <<byte>>[1] = byte /\ 1 \in 1..1
      OBVIOUS
    <3>3. byte = fs_data[b][off + 1 - 1]
      BY <2>5, <3>1, <3>2
    <3>4. Text(f)[off + 1] = fs_data[b][off + 1 - 1]
      BY <1>1, <1>2, <2>1, <2>2, TextFacts
    <3> QED
      BY <3>3, <3>4
  <2> QED
    BY <1>2, <2>1, <2>4, <2>7, <2>8
<1> QED
  BY <1>5, <1>6

\* What most operations do to the bytes of the files: no byte changes, and a file that
\* comes is empty.
BytesKept ==
  /\ \A g \in takenInodes : SameText(g)
  /\ \A b, f : FileIs(b, f)' => FileIs(b, f) \/ (Matches(b) = {} /\ Size(f)' = 0)
  /\ NoBlockLost'

LEMMA OnlyTheTable ==
  ASSUME NoBlockLost, UNCHANGED <<takenInodes, inode_table, takenBlocks, fs_data, dir_entry>>
  PROVE  BytesKept
<1>1. \A g : SameText(g)
  BY DEF Size, Text, SameText
<1>2. \A b, f : FileIs(b, f)' <=> FileIs(b, f)
  BY DEF FileIs, Matches
<1>3. NoBlockLost'
  BY <1>1 DEF NoBlockLost, HasBlock, SameText
<1> QED
  BY <1>1, <1>2, <1>3 DEF BytesKept
=============================================================================

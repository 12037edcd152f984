------------------------------- MODULE Volume -------------------------------
(***************************************************************************)
(* The writer of a Miaou file system volume (tools/mkvolume.c).  Among the *)
(* files it copies is the initial RAM disk, written by mkinitram before.   *)
(*                                                                         *)
(* Pages are named by their inode number, that is from the end of the      *)
(* reserved pages on.  What a page holds depends on its use: a file record *)
(* (files), pointers (ptrs) or bytes (cells).  A cell is <<inode, length>> *)
(* at the start of a directory entry, which takes ENTRY cells and is       *)
(* followed by its name, <<x>> for a letter of a name or a byte of a file, *)
(* and Zero where nobody wrote, which reads as an entry without a name.    *)
(***************************************************************************)
EXTENDS Initram

CONSTANTS
  PAGE,         \* MFS_PAGE_SIZE (4096)
  BITMAP_SIZE,  \* MFS_BITMAP_SIZE, pages a bitmap page describes
  DIRECT,       \* MFS_DATA_POINTERS (16)
  IDATA,        \* MFS_IDATA_POINTERS (512)
  ENTRY,        \* sizeof(MfsDirEntry) (12)
  METADATA,     \* MFS_METADATA_PAGE (63)
  PAGES,        \* pages of the volume after the reserved ones
  RDFILE,       \* the name of the file that mkinitram writes
  Builds        \* what may be built: [mbr : bytes of the MBR, vbr : pages of
                \* the VBR, text, rdtext : the specs of the volume and of the
                \* initial RAM disk, lines, rdlines : what they say]

\* A VBR may reach the metadata page, but not the bitmap and the root after it.
ASSUME VolumeAssumption ==
  /\ PAGE > 0 /\ BITMAP_SIZE > 1 /\ DIRECT > 0 /\ IDATA > 0 /\ ENTRY > 0
  /\ METADATA \in Nat /\ PAGES > 0
  /\ \A b \in Builds : b.vbr <= METADATA + 1

VARIABLES
  pc,          \* where mkvolume is: "meta", "vbr", "spec", "walk", "write",
               \* "saved", "image" once mkimage is done, or "exit", "crash" and
               \* "overrun" where it ends badly
  build,       \* the build asked for
  tp, line,    \* the position in the spec, the line of it being copied
  next_inode, bitmap,    \* volume->next_inode, inodes whose bit is set
  root, meta,  \* volume->root; the root in the metadata page, 0 if overwritten
  files, ptrs, cells,    \* pages by use
  dir, depth,  \* copy_file: dir_inode, index of the path component e
  wr           \* the file_write in progress: [ino, pos, buf, then]

diskvars == <<next_inode, bitmap, files, ptrs, cells>>
vars == <<pc, build, tp, line, diskvars, root, meta, dir, depth, wr>>

NoWrite == [ino |-> 0, pos |-> 0, buf |-> <<>>, then |-> "none"]
NoLine == AtEnd(1)
NewFile(t) == [type |-> t, size |-> 0, data |-> [x \in 0..(DIRECT - 1) |-> 0], idata |-> 0]
Zero == <<0, 0>>

\* f with x mapped to v
With(f, x, v) == [y \in DOMAIN f \cup {x} |-> IF y = x THEN v ELSE f[y]]
----------------------------------------------------------------------------
(* alloc_page, count pages in a row *)
\* mutant: the page of a bitmap is handed out
NextInodeAny(ino) == ino + 1

\* the inode after ino, the bitmap pages left out
NextInode(ino) == IF (ino + 1) % BITMAP_SIZE = 0 THEN ino + 2 ELSE ino + 1

\* the page that index of file f is in: 0 if there is none yet
PageOf(f, index) ==
  CASE index < DIRECT -> f.data[index]
    [] f.idata = 0    -> 0
    [] OTHER          -> ptrs[f.idata][index - DIRECT]

\* what file ino holds
Content(ino) ==
  [x \in 1..files[ino].size |-> cells[PageOf(files[ino], (x - 1) \div PAGE)][(x - 1) % PAGE]]

EntryCells(name, ino) ==
  <<<<ino, Len(name)>>>> \o [x \in 1..(ENTRY - 1) |-> <<>>] \o name

\* the positions at which the entries of the stream c start
EntryStarts(c) ==
  LET at[k \in 1..(Len(c) + 1)] ==
        IF k = 1 THEN 1
        ELSE LET q == at[k - 1] IN IF q > Len(c) THEN q ELSE q + ENTRY + c[q][2]
  IN {at[k] : k \in 1..(Len(c) + 1)} \cap 1..Len(c)

\* mutant: any entry will do
MatchesAny(c, q, name) == TRUE

\* strncmp over the length of the entry's name: the entry matches a name it
\* is a prefix of
Matches(c, q, name) == IsPrefix(SubSeq(c, q + ENTRY, q + ENTRY + c[q][2] - 1), name)

\* find_file_dir: 0 if no entry matches
find_file_dir(d, name) ==
  LET c == Content(d)
      hits == {q \in EntryStarts(c) : Matches(c, q, name)}
  IN IF hits = {} THEN 0 ELSE c[CHOOSE q \in hits : \A p \in hits : q <= p][1]
----------------------------------------------------------------------------
(* make_volume and make_vbr *)
create_file_raw(t) ==
  /\ next_inode' = NextInode(next_inode)
  /\ bitmap' = bitmap \cup {next_inode'}
  /\ files' = With(files, next_inode', NewFile(t))
  /\ UNCHANGED <<ptrs, cells>>

make_volume ==
  /\ pc = "meta" /\ NextInode(next_inode) < PAGES
  /\ create_file_raw("dir")
  /\ root' = next_inode' /\ meta' = next_inode' /\ pc' = "vbr"
  /\ UNCHANGED <<build, tp, line, dir, depth, wr>>

\* The VBR is copied to the start of the volume, after the metadata is made
\* and without looking at its length.
make_vbr ==
  /\ pc = "vbr"
  /\ meta' = IF build.vbr > METADATA THEN 0 ELSE meta
  /\ pc' = "spec"
  /\ UNCHANGED <<build, tp, line, diskvars, root, dir, depth, wr>>
----------------------------------------------------------------------------
(* copy_file *)
\* the components of a path, a slash at its start left out: the last one is
\* the name of the file
Components(path) ==
  LET p    == IF path # <<>> /\ path[1] = SLASH THEN Tail(path) ELSE path
      cuts == SetToSortSeq({0, Len(p) + 1} \cup {x \in DOMAIN p : p[x] = SLASH}, <)
  IN [x \in 1..(Len(cuts) - 1) |-> SubSeq(p, cuts[x] + 1, cuts[x + 1] - 1)]

Cells(bytes) == [x \in DOMAIN bytes |-> <<bytes[x]>>]

NextSpec ==
  /\ pc = "spec"
  /\ line' = parse_spec(build.text, tp) /\ tp' = line'.next
  /\ ~line'.end
  /\ dir' = root /\ depth' = 1 /\ pc' = "walk"
  /\ UNCHANGED <<build, diskvars, root, meta, wr>>

Saved ==
  /\ pc = "spec" /\ parse_spec(build.text, tp).end
  /\ pc' = "saved"
  /\ UNCHANGED <<build, tp, line, diskvars, root, meta, dir, depth, wr>>

Path      == Components(line.dst)
Component == Cells(Path[depth])
IsDir     == depth < Len(Path)

\* the file that fopen finds under src, the initial RAM disk among them
Exists == line.src \in DOMAIN Host \cup {RDFILE}
Source == IF line.src = RDFILE THEN image ELSE Host[line.src]

EnterDir ==
  /\ pc = "walk" /\ IsDir /\ find_file_dir(dir, Component) # 0
  /\ dir' = find_file_dir(dir, Component) /\ depth' = depth + 1
  /\ UNCHANGED <<pc, build, tp, line, diskvars, root, meta, wr>>

\* create_directory, then append_dir at the end of the parent
NewDir ==
  /\ pc = "walk" /\ IsDir /\ find_file_dir(dir, Component) = 0 /\ NextInode(next_inode) < PAGES
  /\ create_file_raw("dir")
  /\ wr' = [ino |-> dir, pos |-> files[dir].size, buf |-> EntryCells(Component, next_inode'), then |-> "dir"]
  /\ pc' = "write" /\ dir' = next_inode' /\ depth' = depth + 1
  /\ UNCHANGED <<build, tp, line, root, meta>>

\* create_file, then its bytes
NewFileOf ==
  /\ pc = "walk" /\ ~IsDir /\ NextInode(next_inode) < PAGES /\ Exists
  /\ create_file_raw("file")
  /\ wr' = [ino |-> next_inode', pos |-> 0, buf |-> Cells(Source), then |-> "file"]
  /\ pc' = "write"
  /\ UNCHANGED <<build, tp, line, root, meta, dir, depth>>
\* A file that is not there is read all the same, through a null pointer.
NoSource ==
  /\ pc = "walk" /\ ~IsDir /\ NextInode(next_inode) < PAGES /\ ~Exists
  /\ pc' = "crash"
  /\ UNCHANGED <<build, tp, line, diskvars, root, meta, dir, depth, wr>>
----------------------------------------------------------------------------
(* file_write, one page of it *)
Index  == wr.pos \div PAGE
Offset == wr.pos % PAGE

Chunk  == IF PAGE - Offset < Len(wr.buf) THEN PAGE - Offset ELSE Len(wr.buf)
F      == files[wr.ino]

\* ptr_from_data_index: the pages it has to take, the pointers first
NeedsPtrs == Index >= DIRECT /\ F.idata = 0
NeedsPage == PageOf(F, Index) = 0

\* the slot of the page of pointers
Slot == Index - DIRECT
PtrsPage  == IF NeedsPtrs THEN NextInode(next_inode) ELSE F.idata
DataPage  == CASE NeedsPtrs -> NextInode(NextInode(next_inode))
               [] NeedsPage /\ ~NeedsPtrs -> NextInode(next_inode)
               [] OTHER -> PageOf(F, Index)
Taken     == (IF NeedsPtrs THEN {PtrsPage} ELSE {}) \cup (IF NeedsPage THEN {DataPage} ELSE {})
LastTaken      == IF Taken = {} THEN next_inode ELSE DataPage

Written(old) ==
  [x \in 0..(PAGE - 1) |-> IF x \in Offset..(Offset + Chunk - 1) THEN wr.buf[x - Offset + 1] ELSE old[x]]

SizeAfter == F.size + Chunk

WriteChunk ==
  /\ pc = "write" /\ wr.buf # <<>> /\ Index < DIRECT + IDATA /\ LastTaken < PAGES
  /\ next_inode' = LastTaken /\ bitmap' = bitmap \cup Taken
  /\ files' = [files EXCEPT ![wr.ino] =
       [type |-> F.type, size |-> SizeAfter,
        data |-> IF Index < DIRECT THEN [F.data EXCEPT ![Index] = DataPage] ELSE F.data,
        idata |-> IF Index < DIRECT THEN F.idata ELSE PtrsPage]]
  /\ ptrs' = IF Index < DIRECT THEN ptrs
             ELSE With(ptrs, PtrsPage,
                    [(IF NeedsPtrs THEN [x \in 0..(IDATA - 1) |-> 0] ELSE ptrs[PtrsPage])
                       EXCEPT ![Slot] = DataPage])
  /\ cells' = With(cells, DataPage,
                   Written(IF NeedsPage THEN [x \in 0..(PAGE - 1) |-> Zero] ELSE cells[DataPage]))
  /\ wr' = [wr EXCEPT !.pos = @ + Chunk, !.buf = SubSeq(@, Chunk + 1, Len(@))]
  /\ UNCHANGED <<pc, build, tp, line, root, meta, dir, depth>>

\* "Unsupported: file too large"
TooLarge ==
  /\ pc = "write" /\ wr.buf # <<>> /\ Index >= DIRECT + IDATA
  /\ pc' = "exit"
  /\ UNCHANGED <<build, tp, line, diskvars, root, meta, dir, depth, wr>>

\* What follows a write: on with the path after a directory's entry, the
\* entry of the file after its bytes, the next line after that.
WriteDone ==
  /\ pc = "write" /\ wr.buf = <<>>
  /\ CASE wr.then = "dir"   -> pc' = "walk" /\ wr' = NoWrite
       [] wr.then = "file"  -> pc' = pc /\ wr' = [ino |-> dir, pos |-> files[dir].size,
                                 buf |-> EntryCells(Component, wr.ino), then |-> "entry"]
       [] wr.then = "entry" -> pc' = "spec" /\ wr' = NoWrite
  /\ UNCHANGED <<build, tp, line, diskvars, root, meta, dir, depth>>

\* alloc_page has no limit: past the last page it gives pages that are not there.
Overrun ==
  /\ \/ pc = "walk" /\ NextInode(next_inode) >= PAGES /\ ~(IsDir /\ find_file_dir(dir, Component) # 0)
     \/ pc = "write" /\ wr.buf # <<>> /\ Index < DIRECT + IDATA /\ LastTaken >= PAGES
  /\ pc' = "overrun"
  /\ UNCHANGED <<build, tp, line, diskvars, root, meta, dir, depth, wr>>
----------------------------------------------------------------------------
VolumeInit ==
  /\ pc = "meta" /\ tp = 1 /\ line = NoLine
  /\ next_inode = 0 /\ bitmap = {} /\ root = 0 /\ meta = 0
  /\ files = [x \in {} |-> NewFile("dir")] /\ ptrs = [x \in {} |-> <<>>] /\ cells = [x \in {} |-> <<>>]
  /\ dir = 0 /\ depth = 0 /\ wr = NoWrite

mkvolume ==
  \/ make_volume \/ make_vbr \/ NextSpec \/ Saved
  \/ EnterDir \/ NewDir \/ NewFileOf \/ NoSource
  \/ WriteChunk \/ TooLarge \/ WriteDone \/ Overrun
=============================================================================

------------------------------ MODULE MfsBoot ------------------------------
(***************************************************************************)
(* The boot loader's reader of the volume (boot/bootloader/mfs.c), on the  *)
(* volumes that mkvolume writes: it looks the components of a path up, one *)
(* directory entry at a time, and reads the file a page at a time.  What   *)
(* it reads of the initial RAM disk is searched by initram_lookup.  This   *)
(* module composes the three tools of the build and the reader.            *)
(***************************************************************************)
EXTENDS Disk

VARIABLES
  rp,       \* where the reader is: "off", "lookup", "read", "done", or "lost"
            \* once it has walked out of the page it read
  target,   \* the line of the spec whose path is looked up
  ino, rd,  \* the inode reached, index of the component looked up in it
  q,        \* position of dir in gPages[0]
  k, out    \* pages read so far, what they held

rvars == <<rp, target, ino, rd, q, k, out>>
bvars == <<vars, img, ivars>>
allvars == <<bvars, rvars>>

Sought == build.lines[target].path
----------------------------------------------------------------------------
\* mfs_init: the root comes from the metadata page
MetaRead == IF disk_read_raw(METADATA * SECTORS) = METADATA THEN meta ELSE 0

mfs_init ==
  /\ pc = "image" /\ rp = "off"
  /\ target' \in DOMAIN build.lines
  /\ ino' = MetaRead /\ rd' = 1 /\ q' = 0 /\ k' = 0 /\ out' = <<>>
  /\ rp' = IF MetaRead = 0 THEN "lost" ELSE "lookup"
  /\ UNCHANGED bvars

\* what mfs_read_page reads for an inode, whatever the BIOS answers
PageAt(inode) == cells[mfs_read_page(inode)]
FileAt(inode) == files[mfs_read_page(inode)]
PtrsAt(inode) == ptrs[mfs_read_page(inode)]

\* mfs_lookup_at reads the directory's first page only
Buffer == PageAt(FileAt(ino).data[0])
HasPage == FileAt(ino).data[0] # 0

\* an entry lies under the cursor, all of it in the page
EntryHere ==
  /\ HasPage /\ q + ENTRY <= PAGE /\ Buffer[q] # Zero /\ Len(Buffer[q]) = 2
  /\ q + ENTRY + Buffer[q][2] <= PAGE

NameHere == [x \in 1..Buffer[q][2] |-> Buffer[q + ENTRY + x - 1]]

SameName == NameHere = Cells(Sought[rd])

LookupHit ==
  /\ rp = "lookup" /\ EntryHere /\ SameName
  /\ ino' = Buffer[q][1] /\ rd' = rd + 1 /\ q' = 0
  /\ rp' = IF rd = Len(Sought) THEN "read" ELSE "lookup"
  /\ UNCHANGED <<bvars, target, k, out>>

\* mutant: the cursor moves by the entry without its name
NextEntryShort == q + ENTRY

NextEntry == q + ENTRY + Buffer[q][2]

LookupSkip ==
  /\ rp = "lookup" /\ EntryHere /\ ~SameName
  /\ q' = NextEntry
  /\ UNCHANGED <<bvars, rp, target, ino, rd, k, out>>

\* The loop has no end: past the last entry, or past the page, it reads on.
LookupLost ==
  /\ rp = "lookup" /\ ~EntryHere
  /\ rp' = "lost"
  /\ UNCHANGED <<bvars, target, ino, rd, q, k, out>>
----------------------------------------------------------------------------
(* mfs_read *)
NPages == (FileAt(ino).size + PAGE - 1) \div PAGE

\* mutant: the direct pointers are read one too far
ReadInodeLate == IF k <= DIRECT THEN FileAt(ino).data[k % DIRECT] ELSE PtrsAt(FileAt(ino).idata)[k - DIRECT]

\* the page read next: mfs_read_data, then mfs_read_idata
ReadInode == IF k < DIRECT THEN FileAt(ino).data[k] ELSE PtrsAt(FileAt(ino).idata)[k - DIRECT]

ReadPage ==
  /\ rp = "read" /\ k < NPages /\ k < DIRECT + IDATA
  /\ out' = out \o [x \in 1..PAGE |-> PageAt(ReadInode)[x - 1]]
  /\ k' = k + 1
  /\ UNCHANGED <<bvars, rp, target, ino, rd, q>>

ReadDone ==
  /\ rp = "read" /\ (k >= NPages \/ k >= DIRECT + IDATA)
  /\ rp' = "done"
  /\ UNCHANGED <<bvars, target, ino, rd, q, k, out>>

\* the initial RAM disk is searched where it was read to
SearchInitram ==
  /\ rp = "done" /\ build.lines[target].src = RDFILE
  /\ initram_lookup([x \in DOMAIN out |-> out[x][1]])
  /\ UNCHANGED <<vars, img, rvars>>

Ended ==
  /\ \/ pc \in {"exit", "crash", "overrun"} \/ rp = "lost" \/ ip \in {"exit", "overrun", "found"}
     \/ rp = "done" /\ build.lines[target].src # RDFILE
  /\ UNCHANGED allvars
----------------------------------------------------------------------------
BootInit ==
  /\ build \in Builds
  /\ InitramInit(build.rdtext) /\ VolumeInit /\ img = NoImage
  /\ rp = "off" /\ target = 0 /\ ino = 0 /\ rd = 0 /\ q = 0 /\ k = 0 /\ out = <<>>

\* The commands of the build run one after another, then the machine boots.
Next ==
  \/ mkinitram /\ UNCHANGED <<vars, img, rvars>>
  \/ ip = "saved" /\ mkvolume /\ UNCHANGED <<ivars, img, rvars>>
  \/ mkimage /\ UNCHANGED <<ivars, rvars>>
  \/ mfs_init \/ LookupHit \/ LookupSkip \/ LookupLost \/ ReadPage \/ ReadDone
  \/ SearchInitram
  \/ Lookup /\ UNCHANGED <<vars, img, rvars>>
  \/ Ended

Spec == BootInit /\ [][Next]_allvars
----------------------------------------------------------------------------
Specs == build.lines

\* the bytes a line of the volume's spec stands for
Bytes(l) == Cells(IF l.src = RDFILE THEN image ELSE Host[l.src])

\* No line names a directory that an earlier entry of the same directory is a
\* prefix of, unless it is that directory, nor an entry that is there already.
Clean ==
  \A x, y \in DOMAIN Specs : x < y =>
    \A d \in DOMAIN Specs[x].path \cap DOMAIN Specs[y].path :
      SubSeq(Specs[x].path, 1, d - 1) = SubSeq(Specs[y].path, 1, d - 1) =>
        LET old == Specs[x].path[d]
            new == Specs[y].path[d]
        IN IF d < Len(Specs[y].path)
           THEN IsPrefix(old, new) => old = new /\ d < Len(Specs[x].path)
           ELSE old # new

\* the inode at the end of a path, names compared in full: 0 if there is none
Resolve(path) ==
  LET c(f) == Content(f)
      hit(f, name) == {p \in EntryStarts(c(f)) :
                         SubSeq(c(f), p + ENTRY, p + ENTRY + c(f)[p][2] - 1) = name}
      at[d \in 0..Len(path)] ==
        IF d = 0 THEN root
        ELSE IF at[d - 1] = 0 THEN 0
        ELSE LET h == hit(at[d - 1], Cells(path[d])) IN
             IF Cardinality(h) # 1 THEN 0 ELSE c(at[d - 1])[CHOOSE p \in h : TRUE][1]
  IN at[Len(path)]

\* A page has one use: it is the record of one file, or the pointers of one
\* file, or one page of one file, never that of a bitmap, and exactly the pages
\* in use have their bit set (mkvolume.c:40-55,64-100).
PagesOnce ==
  LET owners == {<<f, x>> \in (DOMAIN files) \X (0..(DIRECT + IDATA - 1)) : PageOf(files[f], x) # 0}
      tables == {f \in DOMAIN files : files[f].idata # 0}
  IN /\ DOMAIN files \cap DOMAIN ptrs = {}
     /\ (DOMAIN files \cup DOMAIN ptrs) \cap DOMAIN cells = {}
     /\ bitmap = DOMAIN files \cup DOMAIN ptrs \cup DOMAIN cells
     /\ \A p \in bitmap : p % BITMAP_SIZE # 0
     /\ {PageOf(files[o[1]], o[2]) : o \in owners} = DOMAIN cells
     /\ \A o, p \in owners : o # p => PageOf(files[o[1]], o[2]) # PageOf(files[p[1]], p[2])
     /\ {files[f].idata : f \in tables} = DOMAIN ptrs
     /\ \A f, g \in tables : f # g => files[f].idata # files[g].idata

\* A volume saved holds every file that the spec lists under its path, once,
\* with its bytes, whatever comments and empty lines the spec has between
\* (spec_parser.c:28-57, mkvolume.c:258-304).
TreeExact ==
  pc = "saved" /\ Clean =>
    \A x \in DOMAIN Specs :
      LET f == Resolve(Specs[x].path) IN
        f # 0 /\ files[f].type = "file" /\ Content(f) = Bytes(Specs[x])

\* What the boot loader reads from the disk is what was written into the
\* volume, with zeroes to the end of the last page (mfs.c:63-80, disk.c:15,
\* mkimage.c:42-97).
ReadBack ==
  rp = "done" /\ Clean =>
    LET bytes == Bytes(Specs[target]) IN
      /\ SubSeq(out, 1, Len(bytes)) = bytes
      /\ Len(out) = ((Len(bytes) + PAGE - 1) \div PAGE) * PAGE
      /\ \A x \in (Len(bytes) + 1)..Len(out) : out[x] = Zero

\* a spec that ends where a line could start: it is read as one line more
Phantom(text) == IF text = <<>> \/ Last(text) \in {NL, CR} THEN 1 ELSE 0

\* or that names a file that is not there
Unreadable(text, lines, there) ==
  Phantom(text) = 1 \/ \E x \in DOMAIN lines : lines[x].src \notin there

\* bytes of all names of the initial RAM disk, with the zero after each
NameBytes ==
  MapThenSumSet(LAMBDA x : Len(build.rdlines[x].name) + 1, DOMAIN build.rdlines) + Phantom(rdtext)

\* the directories the spec asks for, and the bytes of the entries of one
Directories == UNION {{SubSeq(Specs[x].path, 1, d) : d \in 0..(Len(Specs[x].path) - 1)} : x \in DOMAIN Specs}
Entries(p) ==
  LET below == {x \in DOMAIN Specs : IsStrictPrefix(p, Specs[x].path)}
  IN MapThenSumSet(LAMBDA name : ENTRY + Len(name), {Specs[x].path[Len(p) + 1] : x \in below})

\* bytes of the file of a line, the most a file can have, the pages one takes
Size(l) == IF l.src \in DOMAIN Host \cup {RDFILE} THEN Len(Bytes(l)) ELSE 0
Largest == (DIRECT + IDATA) * PAGE
PagesFor(size) == 1 + (size + PAGE - 1) \div PAGE + (IF size > DIRECT * PAGE THEN 1 ELSE 0)

\* the pages of the spec's tree, and the last inode when so many are taken
Needed ==
  MapThenSumSet(LAMBDA p : PagesFor(Entries(p)), Directories \cup {<<>>})
    + MapThenSumSet(LAMBDA x : PagesFor(Size(Specs[x])), DOMAIN Specs) + Phantom(build.text)
LastInode(count) == count + (count - 1) \div (BITMAP_SIZE - 1)

\* Each way in which a build or a boot ends badly has its cause in what was
\* asked for. mkinitram gives up for a file that is not there or a spec that
\* ends with a newline, and writes past its tables for more files or names than
\* they hold (spec_parser.c:34-42, mkinitram.c:51-86). mkvolume crashes for the
\* causes mkinitram gives up for, gives up for a file or directory larger than
\* the pointers reach, and takes pages past the volume only when the tree asked
\* for has more than there are: none is wasted (mkvolume.c:40-55,64-100,294).
\* The reader is lost when the VBR reached the metadata, when the volume does
\* not have the path, which TreeExact says of clean specs it has, or when a
\* directory on the path goes on after its first page (mfs.c:18-33).
FailsForCause ==
  /\ ip = "exit" => Unreadable(rdtext, build.rdlines, DOMAIN Host)
  /\ ip = "overrun" => Len(build.rdlines) + Phantom(rdtext) > MAX_FILES \/ NameBytes > NAMES
  /\ pc = "crash" => Unreadable(build.text, Specs, DOMAIN Host \cup {RDFILE})
  /\ (pc = "exit" /\ Clean) =>
       \/ \E x \in DOMAIN Specs : Size(Specs[x]) > Largest
       \/ \E p \in Directories : Entries(p) > Largest
  /\ (pc = "overrun" /\ Clean) => LastInode(Needed) >= PAGES
  /\ rp = "lost" =>
       \/ build.vbr > METADATA \/ Resolve(Sought) = 0
       \/ \E d \in 0..(Len(Sought) - 1) : files[Resolve(SubSeq(Sought, 1, d))].size > PAGE

\* a name that an earlier one begins would be shadowed
Shadowed(x) == \E y \in 1..(x - 1) : IsPrefix(build.rdlines[y].name, build.rdlines[x].name)

\* In the initial RAM disk that was packed, copied into the volume and read
\* back at boot, the file found is the one packed under the name looked up,
\* byte for byte, unless the name of an earlier one begins it, and a name that
\* is not there is found only through an entry that begins it
\* (mkinitram.c:51-86, initram.c:15-21).
FoundExact ==
  ip = "found" =>
    /\ \A x \in DOMAIN build.rdlines : build.rdlines[x].name = want /\ ~Shadowed(x) =>
         LET file == Host[build.rdlines[x].src] IN
           res # NULL /\ SubSeq(base, res + 1, res + Len(file)) = file
    /\ res # NULL => \E x \in DOMAIN build.rdlines : IsPrefix(build.rdlines[x].name, want)
=============================================================================

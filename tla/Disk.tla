-------------------------------- MODULE Disk --------------------------------
(***************************************************************************)
(* The disk between the writer of the volume and its reader: mkimage       *)
(* (tools/mkimage.c) puts the volume after the MBR and its place into the  *)
(* partition table, and the boot loader (boot/bootloader/disk.c, mfs.c)    *)
(* reads sectors from there on.  Of the partition's record only the first  *)
(* sector is kept: nothing reads its size, cylinders, heads and sectors.   *)
(***************************************************************************)
EXTENDS Volume

CONSTANTS
  SECTOR,    \* bytes of a sector (512)
  TRACK,     \* sectors the MBR is padded to (64)
  RESERVED   \* MFS_RESERVED_PAGES (64), the page of inode 0

ASSUME DiskAssumption ==
  SECTOR > 0 /\ TRACK > 0 /\ PAGE % SECTOR = 0 /\ METADATA < RESERVED

VARIABLE
  img   \* the image: [start : where the volume is, lba : record[8..11]]

SECTORS == PAGE \div SECTOR

\* the position after pad
pad(pos, amount) == IF pos % amount = 0 THEN pos ELSE pos + amount - (pos % amount)

\* makeMBR, then add_volume, whose record gives base / 512
makeMBR == pad(build.mbr, SECTOR * TRACK)
add_volume(start) == [start |-> start, lba |-> start \div SECTOR]

mkimage ==
  /\ pc = "saved"
  /\ img' = add_volume(makeMBR)
  /\ pc' = "image"
  /\ UNCHANGED <<build, tp, line, diskvars, root, meta, dir, depth, wr>>

\* disk_read_raw counts sectors from the partition's first: the page of the
\* volume at lba, -1 if a page does not start there
disk_read_raw(lba) ==
  LET at == (img.lba + lba) * SECTOR - img.start IN
    IF at >= 0 /\ at % PAGE = 0 THEN at \div PAGE ELSE -1

\* the page that mfs_read_page gives for an inode
mfs_read_page(inode) == disk_read_raw((RESERVED + inode) * SECTORS) - RESERVED

NoImage == [start |-> 0, lba |-> 0]
=============================================================================

------------------------------ MODULE Initram -------------------------------
(***************************************************************************)
(* The initial RAM disk: tools/mkinitram.c writes it, initram_lookup       *)
(* (libboot/initram.c) finds the kernel and the first process in it.       *)
(*                                                                         *)
(* The image is a sequence of numbers: a character of a name, a byte of a  *)
(* file or a field of the header or of a file entry.                       *)
(***************************************************************************)
EXTENDS SpecParser, FiniteSets

CONSTANTS
  MAX_FILES,  \* file entries allocated (256)
  NAMES,      \* characters allocated for the names (4096)
  Host,       \* the files of the machine that builds: name |-> bytes
  Wanted      \* names looked up

ASSUME InitramAssumption ==
  /\ MAX_FILES \in Nat /\ NAMES \in Nat
  /\ \A name \in Wanted : name \in Seq(Nat \ {0})

VARIABLES
  ip,             \* "add", "saved", "lookup", "found", or "exit" and "overrun"
                  \* where mkinitram ends badly
  rdtext, n,      \* the spec, the position in it
  entries, names, data,   \* rd->entries, rd->names, rd->data
  image,          \* the file written
  base,           \* gBootParams.initram: the image as the boot loader read it
  want, i, res    \* the name looked up, the entry looked at, the answer

rddisk == <<entries, names, data>>
ivars == <<ip, rdtext, n, rddisk, image, base, want, i, res>>

NULL   == -1
HEADER == 8      \* fields of InitRamHeader
FIELDS == 4      \* fields of InitRamFileEntry
----------------------------------------------------------------------------
(* main and add_file *)
RdLine == parse_spec(rdtext, n)

Terminated(name) == Append(name, 0)

Room(f) == Len(entries) < MAX_FILES /\ Len(names) + Len(f.dst) + 1 <= NAMES

\* the bytes of the file at path
Opened(path) == Host[path]

add_file ==
  /\ ip = "add" /\ ~RdLine.end
  /\ LET f == RdLine IN
       /\ Room(f) /\ f.src \in DOMAIN Host
       /\ entries' = Append(entries, [name_off |-> Len(names), name_size |-> Len(f.dst),
                                      data_off |-> Len(data), data_size |-> Len(Opened(f.src))])
       /\ names' = names \o Terminated(f.dst)
       /\ data' = data \o Opened(f.src)
       /\ n' = f.next
  /\ UNCHANGED <<ip, rdtext, image, base, want, i, res>>

\* "Could not open"
CannotOpen ==
  /\ ip = "add" /\ ~RdLine.end /\ Room(RdLine) /\ RdLine.src \notin DOMAIN Host
  /\ ip' = "exit"
  /\ UNCHANGED <<rdtext, n, rddisk, image, base, want, i, res>>

\* "TODO: dynamically grow this": what was allocated is written past
PackOverrun ==
  /\ ip = "add" /\ ~RdLine.end /\ ~Room(RdLine)
  /\ ip' = "overrun"
  /\ UNCHANGED <<rdtext, n, rddisk, image, base, want, i, res>>
----------------------------------------------------------------------------
(* save_initram *)
sh_off   == HEADER
fh_off   == sh_off + Len(names)
data_off == fh_off + Len(entries) * FIELDS

Header == <<0, Len(entries), fh_off, Len(entries) * FIELDS, sh_off, Len(names), data_off, Len(data)>>
Fields(fe) == <<fe.name_off, fe.name_size, fe.data_off, fe.data_size>>

save_initram ==
  /\ ip = "add" /\ RdLine.end
  /\ image' = Header \o names \o FlattenSeq([e \in DOMAIN entries |-> Fields(entries[e])]) \o data
  /\ ip' = "saved"
  /\ UNCHANGED <<rdtext, n, rddisk, base, want, i, res>>
----------------------------------------------------------------------------
(* initram_lookup, on the image as the boot loader read it into memory *)
initram_lookup(loaded) ==
  /\ ip = "saved"
  /\ base' = loaded /\ want' \in Wanted /\ i' = 0 /\ ip' = "lookup"
  /\ UNCHANGED <<rdtext, n, rddisk, image, res>>

At(off) == base[off + 1]
fh_cnt  == At(1)
Entry(e, field) == At(At(2) + e * FIELDS + field)

NameAt(e) == SubSeq(base, At(4) + Entry(e, 0) + 1, At(4) + Entry(e, 0) + Entry(e, 1))

\* mutant: the last character is not compared
SameShort(e) == IsPrefix(SubSeq(NameAt(e), 1, Entry(e, 1) - 1), want)

\* memcmp over the length of the entry's name: an entry that the name begins
\* with is taken for it
Same(e) == IsPrefix(NameAt(e), want)

Hit ==
  /\ ip = "lookup" /\ i < fh_cnt /\ Same(i)
  /\ res' = At(6) + Entry(i, 2) /\ ip' = "found"
  /\ UNCHANGED <<rdtext, n, rddisk, image, base, want, i>>

Miss ==
  /\ ip = "lookup" /\ i < fh_cnt /\ ~Same(i)
  /\ i' = i + 1
  /\ UNCHANGED <<ip, rdtext, n, rddisk, image, base, want, res>>

NotThere ==
  /\ ip = "lookup" /\ i = fh_cnt
  /\ res' = NULL /\ ip' = "found"
  /\ UNCHANGED <<rdtext, n, rddisk, image, base, want, i>>

InitramInit(text) ==
  /\ ip = "add" /\ rdtext = text /\ n = 1
  /\ entries = <<>> /\ names = <<>> /\ data = <<>>
  /\ image = <<>> /\ base = <<>> /\ want = <<>> /\ i = 0 /\ res = NULL

mkinitram == add_file \/ CannotOpen \/ PackOverrun \/ save_initram
Lookup    == Hit \/ Miss \/ NotThere
=============================================================================

------------------------------- MODULE MCDisk -------------------------------
(***************************************************************************)
(* Pages of 12 cells, entries of 5, one direct and two indirect pages: a   *)
(* directory page holds two entries with short names, a file 36 bytes.     *)
(* The source file named <<100 + s>> holds s bytes.                        *)
(***************************************************************************)
EXTENDS MfsBoot

MCHost == [f \in {<<100 + s>> : s \in {0, 1, 2, 3, 4, 7, 12, 13, 26, 36, 37}} |->
             [x \in 1..(f[1] - 100) |-> x]]
MCRdFile == <<100>> \o <<100>>
Missing  == <<99>>

a  == <<1>>
b  == <<2>>
c  == <<3>>
ab == <<1, 2>>

----------------------------------------------------------------------------
(* Specs: what they say, and how: what comes before the first line, between *)
(* two lines and after the last one.                                        *)
Plain  == [first |-> <<>>, between |-> <<NL>>, last |-> <<>>]
Styles == {Plain,
           [first |-> <<HASH, 1, COMMA, NL, NL>>, between |-> <<CR, NL, HASH, NL>>, last |-> <<>>],
           [first |-> <<NL>>, between |-> <<NL, NL>>, last |-> <<NL, HASH, 1>>],
           [Plain EXCEPT !.last = <<NL>>]}

Joined(path) == FoldLeft(LAMBDA x, e : x \o <<SLASH>> \o e, <<>>, path)

Text(dsts, srcs, st) ==
  FoldLeft(LAMBDA x, e : x \o e, st.first,
    [x \in DOMAIN srcs |-> <<102, COMMA>> \o dsts[x] \o <<COMMA>> \o srcs[x]
                             \o (IF x < Len(srcs) THEN st.between ELSE st.last)])

Build(mbr, vbr, lines, rdlines, st) ==
  [mbr |-> mbr, vbr |-> vbr, lines |-> lines, rdlines |-> rdlines,
   text |-> Text([x \in DOMAIN lines |-> Joined(lines[x].path)],
                 [x \in DOMAIN lines |-> lines[x].src], st),
   rdtext |-> IF rdlines = <<>> THEN <<HASH>>
              ELSE Text([x \in DOMAIN rdlines |-> rdlines[x].name],
                        [x \in DOMAIN rdlines |-> rdlines[x].src], st)]

File(p, s) == [path |-> p, src |-> <<100 + s>>]
Packed(p, s) == [name |-> p, src |-> <<100 + s>>]
----------------------------------------------------------------------------
Volumes == {
  <<File(<<a>>, 0), File(<<b>>, 12)>>,
  <<File(<<a, b>>, 7), File(<<a, ab>>, 3)>>,
  <<File(<<a, b>>, 26), File(<<b>>, 1)>>,
  <<File(<<a, b>>, 12), File(<<b, a>>, 26), File(<<a, a>>, 1)>>,
  <<File(<<a, b, a>>, 3), File(<<a, b, b>>, 2), File(<<b, b>>, 13)>>,
  \* an entry that is a prefix of another
  <<File(<<a, b>>, 2), File(<<ab, b>>, 3)>>,
  <<File(<<ab, b>>, 2), File(<<a, b>>, 3)>>,
  \* too large
  <<File(<<a>>, 36)>>, <<File(<<a>>, 37)>>,
  \* a file that is not there
  <<File(<<a>>, 1), [path |-> <<b>>, src |-> Missing]>>,
  \* the volume is too small, in a directory, in a file, in a file's bytes
  <<File(<<a>>, 36), File(<<b>>, 36), File(<<ab>>, 1), File(<<c, a>>, 1)>>,
  <<File(<<a>>, 36), File(<<b>>, 36), File(<<ab>>, 1), File(<<c>>, 2)>>,
  <<File(<<a>>, 36), File(<<b, a>>, 36), File(<<ab>>, 36)>> }

Names == {a, ab, b, <<2, 1, 1>>}
Sizes == {0, 1, 2}

Disks ==
  {<<[name |-> a, src |-> Missing]>>}
  \cup {<<Packed(x, s)>> : x \in Names, s \in Sizes}
  \cup {<<Packed(x, s), Packed(y, t)>> : x, y \in Names, s, t \in Sizes}
  \cup {<<Packed(x, 1), Packed(y, 2), Packed(z, s)>> : x, y, z \in Names, s \in Sizes}
  \cup {<<Packed(a, 1), Packed(b, 1), Packed(<<2, 1>>, 1), Packed(<<1, 1>>, 1)>>}

BootInitram == <<File(<<c>>, 3), [path |-> <<b, a>>, src |-> MCRdFile]>>

MCBuilds ==
  {Build(mbr, vbr, v, <<>>, st) : mbr \in {3, 13}, vbr \in {1, 2}, v \in Volumes, st \in Styles}
  \cup {Build(3, 1, BootInitram, d, Plain) : d \in Disks}
  \cup {Build(3, 1, BootInitram, <<Packed(a, 2), Packed(b, 1)>>, st) : st \in Styles}

Sought_ == Names \cup {<<1, 1>>}
=============================================================================

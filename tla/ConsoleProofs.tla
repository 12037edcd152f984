--------------------------- MODULE ConsoleProofs ---------------------------
(***************************************************************************)
(* Proofs about the choice of the graphical mode, for every list of modes  *)
(* a video BIOS may give and every monitor, and about what the screen      *)
(* shows, for every size of it and every text.                             *)
(***************************************************************************)
EXTENDS Printf, TLAPS

\* The modes looked at so far that the BIOS told of, and those that could be set.
Told == {k \in DOMAIN list : k < n /\ list[k].ok}

Looked == {k \in Told : Usable(list[k])}

\* gVbeVideoMode holds what was told last, or nothing that can be set.
Current ==
  \/ Told = {} /\ cur.attr = {}
  \/ \E k \in Told : cur = list[k] /\ \A j \in Told : j <= k

\* The sizes kept are those of k, the last mode told of up to the one kept.
From(k) ==
  /\ k \in Looked /\ k <= best.m
  /\ best.w = list[k].w /\ best.h = list[k].h
  /\ \A j \in (k + 1)..best.m : ~list[j].ok

Chosen ==
  /\ n \in Nat \ {0} /\ best \in [m : Nat, w : Nat, h : Nat]
  /\ best.m = 0 => Looked = {} /\ best.w = 0 /\ best.h = 0
  /\ best.m # 0 => best.m \in DOMAIN list /\ best.m < n /\ \E k \in Looked : From(k)
  /\ (\A k \in Looked : list[k].w >= list[k].h) => \A k \in Looked : list[k].w <= best.w

\* In print mode all were looked at, and the screen is as large as a mode the
\* BIOS told of, which is the one set if it told of that.
ScreenSet ==
  /\ n \notin DOMAIN list
  /\ best.m # 0 => \E k \in DOMAIN list :
       /\ mx = list[k].w \div FONT_W /\ my = list[k].h \div FONT_H
       /\ list[best.m].ok => k = best.m

ModeInv ==
  /\ list \in Lists /\ mon \in Size
  /\ pc \in {"screen", "edid", "modes", "print"}
  /\ pc \in {"screen", "edid"} => cur.attr = {}
  /\ pc \in {"modes", "print"} => Chosen
  /\ pc = "modes" => Current
  /\ pc = "print" => ScreenSet

----------------------------------------------------------------------------
\* A screen of whole characters is no larger than the mode (gfx.c).
LEMMA WholeCharacters ==
  ASSUME NEW a \in Nat, NEW b \in Nat \ {0}
  PROVE  (a \div b) * b <= a
  BY Z3

\* The entries of a list are modes.
LEMMA ListFacts ==
  ASSUME list \in Lists
  PROVE  /\ list \in Seq(Modes)
         /\ \A k \in DOMAIN list : /\ k \in Nat \ {0} /\ k <= Len(list)
                                  /\ list[k] \in Modes /\ list[k].w \in Nat /\ list[k].h \in Nat
<1>1. list \in Seq(Modes)
  BY ConsoleAssumption
<1>2. ASSUME NEW k \in DOMAIN list
      PROVE  k \in Nat \ {0} /\ k <= Len(list) /\ list[k] \in Modes
  BY <1>1
<1>3. ASSUME NEW x \in Modes PROVE x.w \in Nat /\ x.h \in Nat
  BY DEF Modes
<1> QED
  BY <1>1, <1>2, <1>3

\* Four bits are what their places say.
LEMMA NoBits ==
  ASSUME NEW a \in 0..15
  PROVE  Or4(a, 0) = a
<1>1. a \in {0, 1, 2, 3, 4, 5, 6, 7, 8, 9, 10, 11, 12, 13, 14, 15}
  OBVIOUS
<1> QED
  BY <1>1 DEF Or4

\* What is read of the EDID is a size, and the one of the monitor when its
\* blanking is less than 256 (vbe.c:33-34).
LEMMA DecodedFacts ==
  ASSUME NEW size \in Nat, NEW b \in 0..15
  PROVE  Decoded(size, b) \in Nat /\ (b = 0 => Decoded(size, b) = size)
<1> DEFINE c == size \div 256
           d == (size \div 16) % 16
           e == size % 16
<1>1. /\ c \in Nat /\ d \in 0..15 /\ e \in Nat
      /\ size = (c * 256) + (d * 16) + e
  <2> DEFINE r == size \div 16
  <2>1. r \in Nat /\ e \in 0..15 /\ size = (r * 16) + e
    BY Z3
  <2>2. d \in 0..15 /\ r = ((r \div 16) * 16) + d /\ r \div 16 \in Nat
    <3> HIDE DEF r
    <3>1. \A q \in Nat : q % 16 \in 0..15 /\ q = ((q \div 16) * 16) + (q % 16) /\ q \div 16 \in Nat
      BY Z3
    <3> QED
      BY <2>1, <3>1 DEF r
  <2>3. c = r \div 16
    <3>1. /\ c \in Nat /\ c * 256 <= size /\ size < (c * 256) + 256
      BY Z3
    <3> DEFINE t == r \div 16
    <3> HIDE DEF r, t, c, d, e
    <3>2. t \in Nat /\ size = (t * 256) + (d * 16) + e
      BY <2>1, <2>2 DEF t
    <3> QED
      BY <2>1, <2>2, <3>1, <3>2 DEF t
  <2> HIDE DEF r, c, d, e
  <2> QED
    BY <2>1, <2>2, <2>3
<1>2. Or4(d, b) \in Nat
  BY DEF Or4
<1>3. Decoded(size, b) = (c * 256) + (Or4(d, b) * 16) + e
  BY DEF Decoded
<1>4. b = 0 => Or4(d, b) = d
  BY <1>1, NoBits
<1> HIDE DEF c, d, e
<1> QED
  BY <1>1, <1>2, <1>3, <1>4

\* The limits are sizes.
LEMMA MaxFacts ==
  ASSUME mon \in Size
  PROVE  /\ max.w \in Nat /\ max.h \in Nat /\ mon.w \in Nat /\ mon.h \in Nat
         /\ mon.hb = 0 => max.w = mon.w
         /\ mon.vb = 0 => max.h = mon.h
<1>1. mon.w \in Nat /\ mon.h \in Nat /\ mon.hb \in 0..15 /\ mon.vb \in 0..15
  BY DEF Size
<1>2. max.w = Decoded(mon.w, mon.hb) /\ max.h = Decoded(mon.h, mon.vb)
  BY DEF max
<1> QED
  BY <1>1, <1>2, DecodedFacts

\* Nothing is chosen before the list is read.
LEMMA InitMode == Init => ModeInv
  BY ConsoleAssumption DEF Init, ConsoleInit, ModeInv

\* The size of the monitor is known before the first mode is tried (vbe.c).
LEMMA MonitorKeeps == ModeInv /\ vbe_monitor_info => ModeInv'
<1> SUFFICES ASSUME ModeInv, vbe_monitor_info PROVE ModeInv'
  OBVIOUS
<1>1. /\ list' = list /\ list \in Lists /\ mon' \in Size /\ pc' = "modes"
      /\ n' = 1 /\ best' = [m |-> 0, w |-> 0, h |-> 0] /\ cur' = cur /\ cur.attr = {}
  BY ConsoleAssumption DEF ModeInv, vbe_monitor_info
<1>2. Told' = {} /\ Looked' = {}
  BY <1>1, ListFacts DEF Told, Looked
<1>3. Chosen' /\ Current'
  BY <1>1, <1>2 DEF Chosen, Current
<1> QED
  BY <1>1, <1>3 DEF ModeInv

\* The modes told of after one more turn.
LEMMA OneMore ==
  ASSUME ModeInv, TryMode
  PROVE  /\ n \in Nat \ {0} /\ n' = n + 1 /\ list' = list /\ mon' = mon
         /\ \A k : k \in Told' <=> k \in Told \/ (k = n /\ list[n].ok)
         /\ \A k : k \in Looked' <=> k \in Looked \/ (k = n /\ list[n].ok /\ Usable(list[n]))
         /\ \A m : Usable(m)' <=> Usable(m)
<1>1. /\ list \in Lists /\ Chosen /\ n \in DOMAIN list
      /\ list' = list /\ mon' = mon /\ n' = n + 1
  BY DEF ModeInv, TryMode
<1>2. n \in Nat \ {0} /\ \A k \in DOMAIN list : k \in Nat
  BY <1>1, ListFacts
<1>3. \A m : Usable(m)' <=> Usable(m)
  BY <1>1 DEF Usable, max
<1>4. \A k : k \in Told' <=> k \in Told \/ (k = n /\ list[n].ok)
  <2> SUFFICES ASSUME NEW k \in DOMAIN list
               PROVE  k \in Told' <=> k \in Told \/ (k = n /\ list[n].ok)
    BY <1>1 DEF Told
  <2>1. k < n + 1 <=> k < n \/ k = n
    BY <1>2
  <2> QED
    BY <1>1, <2>1 DEF Told
<1> QED
  BY <1>1, <1>2, <1>3, <1>4 DEF Looked

\* A call that fails leaves what was told last.
LEMMA CurrentKeeps == ModeInv /\ TryMode => Current'
<1> SUFFICES ASSUME ModeInv, TryMode PROVE Current'
  OBVIOUS
<1>1. /\ n \in Nat \ {0} /\ list' = list
      /\ \A k : k \in Told' <=> k \in Told \/ (k = n /\ list[n].ok)
  BY OneMore
<1>2. /\ Current /\ cur' = (IF list[n].ok THEN list[n] ELSE cur) /\ list \in Lists
  BY DEF ModeInv, TryMode
<1>3. \A k \in Told : k \in Nat /\ k <= n
  BY <1>1, <1>2, ListFacts DEF Told
<1>4. CASE list[n].ok
  <2>1. n \in Told' /\ cur' = list'[n]
    BY <1>1, <1>2, <1>4
  <2>2. \A j \in Told' : j <= n
    BY <1>1, <1>3
  <2> QED
    BY <2>1, <2>2 DEF Current
<1>5. CASE ~list[n].ok
  <2>1. Told' = Told /\ cur' = cur
    BY <1>1, <1>2, <1>5
  <2> QED
    BY <1>1, <1>2, <2>1 DEF Current
<1> QED
  BY <1>4, <1>5

\* What a mode is judged by is the last mode told of, itself if it was told of.
LEMMA Judged ==
  ASSUME ModeInv, TryMode, Usable(cur')
  PROVE  \E k \in Looked' : /\ cur' = list[k] /\ k <= n /\ k \in Nat
                            /\ \A j \in (k + 1)..n : ~list[j].ok
<1>1. /\ n \in Nat \ {0} /\ n' = n + 1 /\ list' = list /\ list \in Lists
      /\ \A m : Usable(m)' <=> Usable(m)
  BY OneMore DEF ModeInv
<1>2. Current'
  BY CurrentKeeps
<1>3. cur'.attr # {}
  BY DEF Usable
<1>4. PICK k \in Told' : cur' = list[k] /\ \A j \in Told' : j <= k
  BY <1>1, <1>2, <1>3 DEF Current
<1>5. k \in Looked'
  BY <1>1, <1>4 DEF Looked
<1>6. k \in DOMAIN list /\ k \in Nat /\ k <= n
  BY <1>1, <1>4, ListFacts DEF Told
<1>7. ASSUME NEW j \in (k + 1)..n, list[j].ok PROVE FALSE
  <2>1. n \in DOMAIN list /\ list \in Seq(Modes)
    BY <1>1, ListFacts DEF TryMode
  <2>2. j \in DOMAIN list /\ j < n'
    BY <1>1, <1>6, <2>1
  <2>3. j \in Told'
    BY <1>1, <1>7, <2>2 DEF Told
  <2> QED
    BY <1>4, <1>6, <2>3
<1> QED
  BY <1>4, <1>5, <1>6, <1>7

\* A mode is kept when the data it is judged by are as wide as those kept
\* before: if modes are at least as wide as high, that is when none so far is
\* wider (vbe.c:58-75).
LEMMA TryModeKeeps == ModeInv /\ TryMode => ModeInv'
<1> SUFFICES ASSUME ModeInv, TryMode PROVE ModeInv'
  OBVIOUS
<1>1. /\ list \in Lists /\ mon \in Size /\ Chosen /\ n \in DOMAIN list /\ pc' = "modes"
      /\ cur' = (IF list[n].ok THEN list[n] ELSE cur)
      /\ best' = IF Usable(cur') /\ Better(cur')
                THEN [m |-> n, w |-> cur'.w, h |-> cur'.h] ELSE best
  BY DEF ModeInv, TryMode
<1>2. /\ n \in Nat \ {0} /\ n' = n + 1 /\ list' = list /\ mon' = mon
      /\ \A k : k \in Looked' <=> k \in Looked \/ (k = n /\ list[n].ok /\ Usable(list[n]))
  BY OneMore
<1>3. \A k \in DOMAIN list : k \in Nat /\ list[k].w \in Nat /\ list[k].h \in Nat
  BY <1>1, ListFacts
<1>4. Looked \subseteq DOMAIN list
  BY DEF Looked, Told
<1>5. Chosen'
  <2>1. PICK b \in [m : Nat, w : Nat, h : Nat] : b = best
    BY <1>1 DEF Chosen
  <2>2. n' \in Nat \ {0} /\ n \in DOMAIN list' /\ n < n'
    BY <1>1, <1>2
  <2>3. CASE Usable(cur') /\ Better(cur')
    <3>1. PICK k \in Looked' : /\ cur' = list[k] /\ k <= n /\ k \in Nat
                               /\ \A j \in (k + 1)..n : ~list[j].ok
      BY <2>3, Judged
    <3>2. PICK w \in Nat, h \in Nat : w = list[k].w /\ h = list[k].h
      BY <1>2, <1>3, <3>1 DEF Looked, Told
    <3>3. best' = [m |-> n, w |-> w, h |-> h]
      BY <1>1, <2>3, <3>1, <3>2
    <3>4. PICK c \in [m : Nat, w : Nat, h : Nat] : c = best' /\ c.m = n /\ c.w = w /\ c.h = h
      BY <1>2, <3>3
    <3>5. From(k)'
      BY <1>2, <3>1, <3>2, <3>4 DEF From
    <3>6. ASSUME \A x \in Looked' : list'[x].w >= list'[x].h
          PROVE  \A x \in Looked' : list'[x].w <= best'.w
      <4>1. \A x \in Looked : list[x].w >= list[x].h
        BY <1>2, <3>6, Zenon
      <4>2. \A x \in Looked : list[x].w <= b.w
        BY <1>1, <2>1, <4>1, Zenon DEF Chosen
      <4>3. w >= b.w
        BY <2>1, <2>3, <3>1, <3>2 DEF Better
      <4> SUFFICES ASSUME NEW x \in Looked' PROVE list[x].w <= w
        BY <1>2, <3>4
      <4>4. CASE x \in Looked
        <5>1. list[x].w \in Nat /\ b.w \in Nat
          BY <1>3, <1>4, <4>4
        <5> QED
          BY <4>2, <4>3, <4>4, <5>1
      <4>5. CASE x = n /\ list[n].ok
        <5>1. list[n] = list[k]
          BY <1>1, <3>1, <4>5
        <5> QED
          BY <3>2, <4>5, <5>1
      <4> QED
        BY <1>2, <4>4, <4>5
    <3> QED
      BY <1>2, <2>2, <3>1, <3>4, <3>5, <3>6 DEF Chosen
  <2>4. CASE ~(Usable(cur') /\ Better(cur'))
    <3>1. best' = b
      BY <1>1, <2>1, <2>4
    <3>2. CASE ~(list[n].ok /\ Usable(list[n]))
      <4>1. Looked' = Looked
        BY <1>2, <3>2
      <4>2. \A k : From(k)' <=> From(k)
        BY <1>2, <2>1, <3>1, <4>1 DEF From
      <4>3. b.m # 0 => b.m < n'
        BY <1>1, <1>2, <1>3, <2>1 DEF Chosen
      <4> QED
        BY <1>1, <1>2, <2>1, <2>2, <3>1, <4>1, <4>2, <4>3 DEF Chosen
    <3>3. CASE list[n].ok /\ Usable(list[n])
      <4>1. PICK w \in Nat, h \in Nat : w = list[n].w /\ h = list[n].h
        BY <1>1, <1>3
      <4>2. ~(w >= b.w /\ w >= b.h)
        BY <1>1, <2>1, <2>4, <3>3, <4>1 DEF Better
      <4>3. b.m # 0
        BY <1>1, <2>1, <4>1, <4>2 DEF Chosen
      <4>4. PICK k \in Looked : From(k)
        BY <1>1, <2>1, <4>3 DEF Chosen
      <4>5. k \in Looked' /\ From(k)'
        BY <1>2, <2>1, <3>1, <4>4 DEF From
      <4>6. b.w = list[k].w /\ b.h = list[k].h
        BY <2>1, <4>4 DEF From
      <4>7. ASSUME \A x \in Looked' : list'[x].w >= list'[x].h
            PROVE  \A x \in Looked' : list'[x].w <= b.w
        <5>1. \A x \in Looked : list[x].w >= list[x].h
          BY <1>2, <4>7, Zenon
        <5>2. \A x \in Looked : list[x].w <= b.w
          BY <1>1, <2>1, <5>1, Zenon DEF Chosen
        <5>3. b.w >= b.h
          BY <4>4, <4>6, <5>1
        <5>4. w <= b.w
          BY <4>2, <5>3
        <5> SUFFICES ASSUME NEW x \in Looked' PROVE list[x].w <= b.w
          BY <1>2
        <5>5. CASE x \in Looked
          BY <5>2, <5>5
        <5>6. CASE x = n
          BY <4>1, <5>4, <5>6
        <5> QED
          BY <1>2, <5>5, <5>6
      <4>8. b.m \in DOMAIN list' /\ b.m < n'
        BY <1>1, <1>2, <1>3, <2>1, <4>3 DEF Chosen
      <4> QED
        BY <2>2, <3>1, <4>3, <4>5, <4>7, <4>8 DEF Chosen
    <3> QED
      BY <3>2, <3>3
  <2> QED
    BY <2>3, <2>4
<1>6. Current'
  BY CurrentKeeps
<1> QED
  BY <1>1, <1>2, <1>5, <1>6 DEF ModeInv

\* The screen is as large as the mode set, if the BIOS tells of that, and as
\* the last it told of if not (vbe.c:77-96).
LEMMA SetModeKeeps == ModeInv /\ SetMode => ModeInv'
<1> SUFFICES ASSUME ModeInv, SetMode PROVE ModeInv'
  OBVIOUS
<1>1. /\ list \in Lists /\ mon \in Size /\ Chosen /\ Current /\ n \notin DOMAIN list
      /\ list' = list /\ n' = n /\ mon' = mon /\ best' = best /\ pc' = "print"
      /\ best.m # 0 => /\ cur' = (IF list[best.m].ok THEN list[best.m] ELSE cur)
                       /\ mx' = cur'.w \div FONT_W /\ my' = cur'.h \div FONT_H
  BY DEF ModeInv, SetMode
<1>2. Chosen'
  BY <1>1 DEF Chosen, From, Looked, Told, Usable, max
<1>3. ScreenSet'
  <2>1. ASSUME best.m # 0
        PROVE  \E k \in DOMAIN list : cur' = list[k] /\ (list[best.m].ok => k = best.m)
    <3>1. best.m \in DOMAIN list
      BY <1>1, <2>1 DEF Chosen
    <3>2. CASE list[best.m].ok
      BY <1>1, <2>1, <3>1, <3>2
    <3>3. CASE ~list[best.m].ok
      <4>1. Told # {}
        BY <1>1, <2>1 DEF Chosen, Looked
      <4>2. PICK k \in Told : cur = list[k]
        BY <1>1, <4>1 DEF Current
      <4> QED
        BY <1>1, <2>1, <3>3, <4>2 DEF Told
    <3> QED
      BY <3>2, <3>3
  <2> QED
    BY <1>1, <2>1 DEF ScreenSet
<1> QED
  BY <1>1, <1>2, <1>3 DEF ModeInv

\* Printing does not touch the mode (video.c:43-71).
LEMMA PrintingKeeps ==
  ASSUME ModeInv, UNCHANGED <<vbevars, mx, my>>, pc' = pc
  PROVE  ModeInv'
  BY DEF ModeInv, Chosen, Current, From, Looked, Told, Usable, max, ScreenSet, vbevars

\* The text screen is set up before the monitor is asked for (screen.c).
LEMMA ScreenInitKeeps == ModeInv /\ screen_init => ModeInv'
  BY DEF ModeInv, screen_init, vbevars

\* Every step keeps the invariant.
LEMMA NextMode == ModeInv /\ [Next]_vars => ModeInv'
<1> SUFFICES ASSUME ModeInv, [Next]_vars PROVE ModeInv'
  OBVIOUS
<1>1. CASE VideoInit
  BY <1>1, ScreenInitKeeps, MonitorKeeps, TryModeKeeps, SetModeKeeps DEF VideoInit
<1>2. ASSUME NEW text, boot_printf(text) PROVE ModeInv'
  BY <1>2, PrintingKeeps DEF boot_printf, cvars
<1>3. CASE print
  BY <1>3, PrintingKeeps DEF print, video_putchar
<1>4. CASE Silent \/ UNCHANGED vars
  BY <1>4, PrintingKeeps DEF Silent, vars, cvars
<1> QED
  BY <1>1, <1>2, <1>3, <1>4, Zenon DEF Next

----------------------------------------------------------------------------
(* The theorems about the mode *)

\* What the search for a mode has kept, at every turn of its loop (vbe.c:44-83).
THEOREM ModeInvariant == Spec => []ModeInv
<1> QED
  BY InitMode, NextMode, PTL DEF Spec

\* A mode is set if and only if one fits, it is one that fits or is judged by
\* one, none that fits is wider than what it was chosen by if modes are at
\* least as wide as high, and the screen of a mode the BIOS told of fits what
\* was read of the EDID, the monitor itself if its blanking is less than 256
\* (vbe.c:33-34,58-75).
THEOREM WidestModeSet == Spec => []ModeWidest
<1>1. ModeInv => ModeWidest
  <2> DEFINE fits == {k \in DOMAIN list : list[k].ok /\ Usable(list[k])}
  <2> SUFFICES ASSUME ModeInv, pc = "print"
               PROVE  /\ best.m = 0 <=> fits = {}
                      /\ best.m # 0 =>
                           /\ \E k \in fits : /\ k <= best.m /\ best.w = list[k].w /\ best.h = list[k].h
                                              /\ \A j \in (k + 1)..best.m : ~list[j].ok
                           /\ (\A k \in fits : list[k].w >= list[k].h) =>
                                \A k \in fits : list[k].w <= best.w
                           /\ list[best.m].ok =>
                                /\ mx * FONT_W <= max.w /\ my * FONT_H <= max.h
                                /\ mon.hb = 0 => mx * FONT_W <= mon.w
                                /\ mon.vb = 0 => my * FONT_H <= mon.h
    BY DEF ModeWidest
  <2>1. list \in Lists /\ mon \in Size /\ Chosen /\ ScreenSet
    BY DEF ModeInv
  <2>2. Looked = fits
    <3>1. list \in Seq(Modes) /\ n \in Nat \ {0} /\ n \notin DOMAIN list
      BY <2>1, ListFacts DEF Chosen, ScreenSet
    <3>2. n > Len(list)
      BY <3>1
    <3>3. \A k \in DOMAIN list : k < n
      BY <3>1, <3>2
    <3> QED
      BY <3>3 DEF Looked, Told
  <2> HIDE DEF fits
  <2>3. best.m = 0 <=> fits = {}
    BY <2>1, <2>2 DEF Chosen
  <2>4. ASSUME best.m # 0
        PROVE  \E k \in fits : /\ k <= best.m /\ best.w = list[k].w /\ best.h = list[k].h
                               /\ \A j \in (k + 1)..best.m : ~list[j].ok
    BY <2>1, <2>2, <2>4 DEF Chosen, From
  <2>5. (\A k \in fits : list[k].w >= list[k].h) => \A k \in fits : list[k].w <= best.w
    BY <2>1, <2>2 DEF Chosen
  <2>6. ASSUME best.m # 0, list[best.m].ok
        PROVE  mx * FONT_W <= max.w /\ my * FONT_H <= max.h
    <3>1. mx = list[best.m].w \div FONT_W /\ my = list[best.m].h \div FONT_H
      BY <2>1, <2>6 DEF ScreenSet
    <3>2. Usable(list[best.m]) /\ best.m \in DOMAIN list
      <4>1. best.m \in DOMAIN list /\ best.m < n
        BY <2>1, <2>6 DEF Chosen
      <4>2. PICK k \in Looked : From(k)
        BY <2>1, <2>6 DEF Chosen
      <4>3. k \in Nat /\ best.m \in Nat /\ k <= best.m
        BY <2>1, <4>1, <4>2, ListFacts DEF From, Looked, Told
      <4>4. k = best.m
        BY <2>6, <4>2, <4>3 DEF From
      <4> QED
        BY <4>1, <4>2, <4>4 DEF Looked
    <3>3. PICK w \in Nat, h \in Nat, a \in Nat, b \in Nat :
            w = list[best.m].w /\ h = list[best.m].h /\ a = max.w /\ b = max.h
      BY <2>1, <3>2, ListFacts, MaxFacts
    <3>4. w <= a /\ h <= b
      BY <3>2, <3>3 DEF Usable
    <3>5. PICK f \in Nat \ {0}, g \in Nat \ {0} : f = FONT_W /\ g = FONT_H
      BY ConsoleAssumption
    <3>6. mx = w \div f /\ my = h \div g
      BY <3>1, <3>3, <3>5
    <3>7. (w \div f) * f <= w /\ (h \div g) * g <= h
      BY WholeCharacters
    <3>8. (w \div f) * f <= a
      <4>1. (w \div f) * f \in Int
        BY Z3
      <4> QED
        BY <3>4, <3>7, <4>1
    <3>9. (h \div g) * g <= b
      <4>1. (h \div g) * g \in Int
        BY Z3
      <4> QED
        BY <3>4, <3>7, <4>1
    <3> QED
      BY <3>3, <3>5, <3>6, <3>8, <3>9
  <2>7. (mon.hb = 0 => max.w = mon.w) /\ (mon.vb = 0 => max.h = mon.h)
    BY <2>1, MaxFacts
  <2> QED
    BY <2>3, <2>4, <2>5, <2>6, <2>7
<1> QED
  BY <1>1, ModeInvariant, PTL

----------------------------------------------------------------------------
(* Rows, cells and their places in the frame buffer *)

\* A product grows with its factors.
LEMMA Product ==
  ASSUME NEW a \in Nat, NEW b \in Nat, NEW w \in Nat
  PROVE  /\ a * w \in Nat /\ w * a = a * w /\ (a + 1) * w = a * w + w
         /\ a <= b => a * w <= b * w
<1>1. a * w \in Nat /\ w * a = a * w /\ (a + 1) * w = a * w + w
  BY Z3
<1>2. a <= b => a * w <= b * w
  BY Z3
<1> QED
  BY <1>1, <1>2

\* A cell of the screen is in the frame buffer (text.c:8).
LEMMA CellIndex ==
  ASSUME NEW w \in Nat \ {0}, NEW h \in Nat \ {0}, NEW y \in 0..(h - 1), NEW x \in 0..(w - 1)
  PROVE  /\ y * w + x \in 0..(w * h - 1)
         /\ y < h - 1 <=> y * w + x < w * (h - 1)
         /\ (y * w + x) + w = (y + 1) * w + x
<1>1. PICK p \in Nat : p = y * w
  BY Product
<1>2. PICK d \in Nat : d = h - 1
  OBVIOUS
<1>3. PICK q \in Nat : q = d * w
  BY Product
<1>4. w * (h - 1) = q /\ w * h = q + w
  <2>1. w * d = d * w /\ w * (d + 1) = (d + 1) * w /\ (d + 1) * w = d * w + w
    <3>1. d + 1 \in Nat
      OBVIOUS
    <3> QED
      BY <3>1, Product
  <2> QED
    BY <1>2, <1>3, <2>1
<1>5. p <= q
  BY <1>1, <1>2, <1>3, Product
<1>6. y < d => p + w <= q
  <2> SUFFICES ASSUME y < d PROVE p + w <= q
    OBVIOUS
  <2>1. y + 1 \in Nat /\ y + 1 <= d
    BY <1>2
  <2>2. (y + 1) * w <= d * w /\ (y + 1) * w = y * w + w
    BY <2>1, Product
  <2> QED
    BY <1>1, <1>3, <2>2
<1>7. y < d \/ (y = d /\ p = q)
  BY <1>1, <1>2, <1>3
<1>8. (y + 1) * w = p + w
  BY <1>1, Product
<1> QED
  BY <1>1, <1>2, <1>4, <1>5, <1>6, <1>7, <1>8

\* Where a cell is in the frame buffer.
Place(w, y, x) == y * w + x

\* No two cells have one place (text.c:8).
LEMMA PlaceOnce ==
  ASSUME NEW w \in Nat \ {0}, NEW y \in Nat, NEW v \in Nat, NEW x \in 0..(w - 1), NEW u \in 0..(w - 1)
  PROVE  Place(w, y, x) = Place(w, v, u) => y = v /\ x = u
<1> SUFFICES ASSUME y * w + x = v * w + u PROVE y = v /\ x = u
  BY DEF Place
<1>1. PICK p \in Nat, q \in Nat : p = y * w /\ q = v * w
  BY Product
<1>2. CASE y = v
  BY <1>1, <1>2
<1>3. CASE y < v
  <2>1. y + 1 \in Nat /\ y + 1 <= v
    BY <1>3
  <2>2. (y + 1) * w <= v * w /\ (y + 1) * w = y * w + w
    BY <2>1, Product
  <2> QED
    BY <1>1, <1>3, <2>2
<1>4. CASE v < y
  <2>1. v + 1 \in Nat /\ v + 1 <= y
    BY <1>4
  <2>2. (v + 1) * w <= y * w /\ (v + 1) * w = v * w + w
    BY <2>1, Product
  <2> QED
    BY <1>1, <1>4, <2>2
<1> QED
  BY <1>2, <1>3, <1>4

\* Scrolling moves every row up, and blanks the last one (text.c:12-27).
LEMMA ScrolledCell ==
  ASSUME NEW w \in Nat \ {0}, NEW h \in Nat \ {0}, NEW f, NEW y \in 0..(h - 1), NEW x \in 0..(w - 1)
  PROVE  Scrolled(f, w, h)[y * w + x] = IF y < h - 1 THEN f[(y + 1) * w + x] ELSE Blank
<1>1. PICK k : k = y * w + x
  OBVIOUS
<1>2. k \in 0..(w * h - 1) /\ (y < h - 1 <=> k < w * (h - 1)) /\ k + w = (y + 1) * w + x
  BY <1>1, CellIndex
<1>3. Scrolled(f, w, h)[k] = IF k < w * (h - 1) THEN f[k + w] ELSE Blank
  BY <1>2 DEF Scrolled
<1> QED
  BY <1>1, <1>2, <1>3

\* A frame buffer with one cell written.
Put(f, k, c) == [f EXCEPT ![k] = c]

\* Writing a cell changes no other (text.c:4-9, gfx.c:5-23).
LEMMA WrittenCell ==
  ASSUME NEW w \in Nat \ {0}, NEW h \in Nat \ {0}, NEW f, f = [k \in 0..(w * h - 1) |-> f[k]],
         NEW v \in 0..(h - 1), NEW u \in 0..(w - 1), NEW c,
         NEW y \in 0..(h - 1), NEW x \in 0..(w - 1)
  PROVE  Put(f, Place(w, v, u), c)[Place(w, y, x)] =
           IF y = v /\ x = u THEN c ELSE f[Place(w, y, x)]
<1>1. PICK k : k = Place(w, y, x)
  OBVIOUS
<1>2. PICK o : o = Place(w, v, u)
  OBVIOUS
<1>3. k \in 0..(w * h - 1) /\ (k = o <=> y = v /\ x = u)
  <2>1. y \in Nat /\ v \in Nat
    OBVIOUS
  <2>2. Place(w, y, x) = Place(w, v, u) => y = v /\ x = u
    BY <2>1, PlaceOnce
  <2>3. Place(w, y, x) \in 0..(w * h - 1)
    BY CellIndex DEF Place
  <2> QED
    BY <1>1, <1>2, <2>2, <2>3
<1>4. k \in DOMAIN f
  BY <1>3
<1>5. Put(f, o, c)[k] = IF k = o THEN c ELSE f[k]
  BY <1>4 DEF Put
<1> QED
  BY <1>1, <1>2, <1>3, <1>5

\* What row k has in column x, blank past its end and in rows that are not there.
CellAt(p, k, x) == IF k <= Len(p) THEN Cell(p[k], x) ELSE Blank

\* The row a character printed next is in, and its column.
NextRow(p) == IF Len(p[Len(p)]) = mx THEN Len(p) + 1 ELSE Len(p)
NextCol(p) == IF Len(p[Len(p)]) = mx THEN 0 ELSE Len(p[Len(p)])

\* Rows of characters, none longer than the screen is wide.
IsRows(p) ==
  /\ \E S : p \in Seq(Seq(S))
  /\ Len(p) \in Nat \ {0}
  /\ \A k \in 1..Len(p) : Len(p[k]) \in Nat /\ Len(p[k]) <= mx

\* A newline adds an empty row, after one more if the last is full
\* (video.c:48-65).
LEMMA FlowNewline ==
  ASSUME NEW p, IsRows(p), mx \in Nat \ {0}
  PROVE  LET d == Flow(p, NL) IN
           /\ IsRows(d) /\ Len(d) = NextRow(p) + 1 /\ Len(d[Len(d)]) = 0
           /\ \A k \in 1..Len(d) : k <= Len(p) => d[k] = p[k]
           /\ \A k \in 1..Len(d) : k > Len(p) => d[k] = <<>>
<1>1. PICK S : p \in Seq(Seq(S))
  BY DEF IsRows
<1> DEFINE q == IF Len(p[Len(p)]) = mx THEN Append(p, <<>>) ELSE p
           d == Append(q, <<>>)
<1>2. <<>> \in Seq(S) /\ Len(<<>>) = 0
  OBVIOUS
<1>3. /\ q \in Seq(Seq(S)) /\ Len(q) = NextRow(p) /\ Len(q) >= Len(p)
      /\ \A k \in 1..Len(q) : q[k] = IF k <= Len(p) THEN p[k] ELSE <<>>
  <2>1. CASE Len(p[Len(p)]) = mx
    BY <1>1, <1>2, <2>1 DEF NextRow
  <2>2. CASE Len(p[Len(p)]) # mx
    BY <1>1, <2>2 DEF NextRow
  <2> QED
    BY <2>1, <2>2
<1>4. /\ d \in Seq(Seq(S)) /\ Len(d) = Len(q) + 1
      /\ \A k \in 1..Len(d) : d[k] = IF k <= Len(q) THEN q[k] ELSE <<>>
  BY <1>2, <1>3
<1>5. Len(p) \in Nat \ {0} /\ Len(q) \in Nat /\ NextRow(p) \in Nat
  BY <1>1, <1>3 DEF IsRows
<1>6. Flow(p, NL) = d
  BY DEF Flow
<1> HIDE DEF q, d
<1>7. \A k \in 1..Len(d) : d[k] = IF k <= Len(p) THEN p[k] ELSE <<>>
  BY <1>3, <1>4, <1>5
<1>8. IsRows(d)
  <2>1. \A k \in 1..Len(d) : Len(d[k]) \in Nat /\ Len(d[k]) <= mx
    <3> SUFFICES ASSUME NEW k \in 1..Len(d) PROVE Len(d[k]) \in Nat /\ Len(d[k]) <= mx
      OBVIOUS
    <3>1. CASE k <= Len(p)
      <4>1. k \in 1..Len(p) /\ d[k] = p[k]
        BY <1>5, <1>7, <3>1
      <4> QED
        BY <4>1 DEF IsRows
    <3>2. CASE ~(k <= Len(p))
      BY <1>2, <1>7, <3>2
    <3> QED
      BY <3>1, <3>2
  <2> QED
    BY <1>3, <1>4, <1>5, <2>1 DEF IsRows
<1>9. \A k \in 1..Len(d) : k > Len(p) => d[k] = <<>>
  BY <1>5, <1>7
<1>10. Len(d) \in 1..Len(d) /\ Len(d) > Len(p)
  BY <1>3, <1>4, <1>5
<1> QED
  BY <1>2, <1>3, <1>4, <1>6, <1>7, <1>8, <1>9, <1>10

\* Another character goes to the end of the last row, or of a new one if that
\* is full (video.c:48-71).
LEMMA FlowCharacter ==
  ASSUME NEW p, IsRows(p), mx \in Nat \ {0}, NEW c, c # NL
  PROVE  LET d == Flow(p, c)
             m == NextRow(p)
         IN /\ IsRows(d) /\ Len(d) = m /\ Len(d[m]) = NextCol(p) + 1 /\ m >= Len(p)
            /\ d[m][NextCol(p) + 1] = c
            /\ \A k \in 1..(m - 1) : k <= Len(p) /\ d[k] = p[k]
            /\ m = Len(p) => \A x \in 1..NextCol(p) : d[m][x] = p[m][x]
<1>1. PICK S : p \in Seq(Seq(S))
  BY DEF IsRows
<1> DEFINE C == S \cup {c}
           q == IF Len(p[Len(p)]) = mx THEN Append(p, <<>>) ELSE p
           m == NextRow(p)
           e == Append(q[m], c)
           d == [q EXCEPT ![m] = e]
<1>2. <<>> \in Seq(C) /\ Len(<<>>) = 0
  OBVIOUS
<1>3. p \in Seq(Seq(C)) /\ Len(p) \in Nat \ {0}
  <2>1. Seq(S) \subseteq Seq(C)
    OBVIOUS
  <2> QED
    BY <1>1, <2>1 DEF IsRows
<1>4. /\ q \in Seq(Seq(C)) /\ Len(q) = m /\ m >= Len(p) /\ m \in Nat \ {0}
      /\ \A k \in 1..(m - 1) : k <= Len(p) /\ q[k] = p[k]
      /\ m = Len(p) => q[m] = p[m]
      /\ Len(q[m]) = NextCol(p) /\ Len(q[m]) < mx /\ q[m] \in Seq(C)
  <2>1. CASE Len(p[Len(p)]) = mx
    BY <1>2, <1>3, <2>1 DEF NextRow, NextCol
  <2>2. CASE Len(p[Len(p)]) # mx
    BY <1>3, <2>2 DEF NextRow, NextCol, IsRows
  <2> QED
    BY <2>1, <2>2
<1>5. Flow(p, c) = d
  BY <1>4 DEF Flow
<1> HIDE DEF q, m
<1>6. c \in C
  OBVIOUS
<1>7. /\ e \in Seq(C) /\ Len(e) = NextCol(p) + 1 /\ e[NextCol(p) + 1] = c
      /\ \A x \in 1..NextCol(p) : e[x] = q[m][x]
  <2> HIDE DEF C
  <2> QED
    BY <1>4, <1>6
<1> HIDE DEF C, e
<1>8. /\ d \in Seq(Seq(C)) /\ Len(d) = m /\ d[m] = e
      /\ \A k \in 1..(m - 1) : d[k] = q[k]
  BY <1>4, <1>7
<1> HIDE DEF d
<1>9. IsRows(d)
  <2>1. ASSUME NEW k \in 1..Len(d)
        PROVE  Len(d[k]) \in Nat /\ Len(d[k]) <= mx
    <3>1. CASE k = m
      <4>1. Len(q[m]) \in Nat
        BY <1>4
      <4> QED
        BY <1>4, <1>7, <1>8, <3>1, <4>1
    <3>2. CASE k # m
      <4>1. k \in 1..(m - 1)
        BY <1>4, <1>8, <3>2
      <4>2. k \in 1..Len(p) /\ d[k] = p[k]
        BY <1>3, <1>4, <1>8, <4>1
      <4> QED
        BY <4>2 DEF IsRows
    <3> QED
      BY <3>1, <3>2
  <2> QED
    BY <1>4, <1>8, <2>1 DEF IsRows
<1>10. m = Len(p) => \A x \in 1..NextCol(p) : d[m][x] = p[m][x]
  BY <1>4, <1>7, <1>8
<1>11. \A k \in 1..(m - 1) : k <= Len(p) /\ d[k] = p[k]
  BY <1>4, <1>8
<1> QED
  BY <1>4, <1>5, <1>7, <1>8, <1>9, <1>10, <1>11 DEF m

----------------------------------------------------------------------------
(* What the screen shows *)

\* A blank screen.
AllBlank(from) ==
  \A y \in 0..(my - 1), x \in 0..(mx - 1) : y >= from => fb[y * mx + x] = Blank

\* Where the cursor is, for what was printed.
CursorAt ==
  /\ IsRows(rows) /\ cx = Len(rows[Len(rows)])
  /\ cy = IF Len(rows) <= my THEN Len(rows) - 1 ELSE IF cx = 0 THEN my ELSE my - 1

\* A text screen shows the rows after the first t.
TextCells(f, p, t) ==
  \A y \in 0..(my - 1), x \in 0..(mx - 1) : f[y * mx + x] = CellAt(p, t + 1 + y, x)

\* In the last row of a graphical one each cell is that of the last row that
\* reaches it.
Over(p, x) == {k \in my..Len(p) : Len(p[k]) > x}

LastCell(p, x, b) ==
  \/ Over(p, x) = {} /\ b = Blank
  \/ \E k \in Over(p, x) : (\A o \in Over(p, x) : o <= k) /\ b = p[k][x + 1]

GfxCells(f, p) ==
  \A y \in 0..(my - 1), x \in 0..(mx - 1) :
    /\ y < my - 1 => f[y * mx + x] = CellAt(p, y + 1, x)
    /\ y = my - 1 => LastCell(p, x, f[y * mx + x])

TextDrawn == TextCells(fb, rows, Len(rows) - 1 - cy)
GfxDrawn == GfxCells(fb, rows)

\* No cell but those of the screen is there.
OnScreen(f) == f = [k \in 0..(mx * my - 1) |-> f[k]]

ScreenInv ==
  /\ ModeInv
  /\ mx \in Nat \ {0} /\ my \in Nat \ {0} /\ i \in Nat
  /\ OnScreen(fb)
  /\ pc # "print" => rows = << <<>> >> /\ cx = 0 /\ cy = 0 /\ mx = TEXT_W /\ my = TEXT_H /\ mode = "text"
  /\ pc = "screen" => i < TEXT_H /\ AllBlank(TEXT_H - i)
  /\ pc \in {"edid", "modes"} => AllBlank(0)
  /\ pc = "print" => CursorAt /\ IF mode = "text" THEN TextDrawn ELSE GfxDrawn

\* Before anything is printed there is one empty row (video.c:20-30).
LEMMA NothingPrinted ==
  ASSUME mx \in Nat \ {0}
  PROVE  LET p == << <<>> >> IN
           /\ IsRows(p) /\ Len(p) = 1 /\ Len(p[Len(p)]) = 0
           /\ \A k \in Nat \ {0} : \A x \in Nat : CellAt(p, k, x) = Blank
<1> DEFINE p == << <<>> >>
<1>1. p \in Seq(Seq({})) /\ Len(p) = 1 /\ p[1] = <<>> /\ Len(<<>>) = 0
  OBVIOUS
<1> HIDE DEF p
<1>2. \A k \in 1..Len(p) : Len(p[k]) \in Nat /\ Len(p[k]) <= mx
  BY <1>1
<1>3. IsRows(p)
  BY <1>1, <1>2 DEF IsRows
<1>4. ASSUME NEW k \in Nat \ {0}, NEW x \in Nat PROVE CellAt(p, k, x) = Blank
  <2>1. CASE k <= Len(p)
    <3>1. k = 1 /\ ~(x < Len(p[1]))
      BY <1>1, <2>1
    <3> QED
      BY <1>1, <2>1, <3>1 DEF CellAt, Cell
  <2>2. CASE ~(k <= Len(p))
    BY <2>2 DEF CellAt
  <2> QED
    BY <2>1, <2>2
<1> QED
  BY <1>1, <1>3, <1>4 DEF p

\* A character changes what one cell of one row has, and a newline what none
\* has (video.c:43-71).
LEMMA FlowCell ==
  ASSUME NEW p, IsRows(p), mx \in Nat \ {0}, NEW c, NEW k \in Nat \ {0}, NEW x \in Nat
  PROVE  CellAt(Flow(p, c), k, x) =
           IF c # NL /\ k = NextRow(p) /\ x = NextCol(p) THEN c ELSE CellAt(p, k, x)
<1> DEFINE d == Flow(p, c)
           m == NextRow(p)
           X0 == NextCol(p)
<1>1. /\ Len(p) \in Nat \ {0} /\ m \in Nat \ {0} /\ m >= Len(p)
      /\ m = Len(p) \/ m = Len(p) + 1
      /\ X0 \in Nat /\ X0 = IF m = Len(p) THEN Len(p[Len(p)]) ELSE 0
  <2>1. Len(p) \in Nat \ {0} /\ Len(p) \in 1..Len(p)
    BY DEF IsRows
  <2>2. Len(p[Len(p)]) \in Nat
    BY <2>1 DEF IsRows
  <2> QED
    BY <2>1, <2>2 DEF NextRow, NextCol
<1>2. CASE c = NL
  <2>1. /\ Len(d) = m + 1
        /\ \A o \in 1..Len(d) : o <= Len(p) => d[o] = p[o]
        /\ \A o \in 1..Len(d) : o > Len(p) => d[o] = <<>>
    BY <1>2, FlowNewline
  <2> HIDE DEF d, m, X0
  <2>2. CellAt(d, k, x) = CellAt(p, k, x)
    <3>1. CASE k <= Len(p)
      <4>1. k \in 1..Len(d) /\ k <= Len(d) /\ d[k] = p[k]
        BY <1>1, <2>1, <3>1
      <4> QED
        BY <3>1, <4>1 DEF CellAt
    <3>2. CASE k > Len(p) /\ k <= Len(d)
      <4>1. k \in 1..Len(d) /\ ~(k <= Len(p))
        BY <1>1, <2>1, <3>2
      <4>2. d[k] = <<>>
        BY <2>1, <3>2, <4>1
      <4>3. ~(x < Len(<<>>))
        OBVIOUS
      <4> QED
        BY <3>2, <4>1, <4>2, <4>3 DEF CellAt, Cell
    <3>3. CASE k > Len(d)
      <4>1. ~(k <= Len(d)) /\ ~(k <= Len(p))
        BY <1>1, <2>1, <3>3
      <4> QED
        BY <4>1 DEF CellAt
    <3>4. Len(d) \in Nat
      BY <1>1, <2>1
    <3> QED
      BY <1>1, <3>1, <3>2, <3>3, <3>4
  <2> QED
    BY <1>2, <2>2 DEF d
<1>3. CASE c # NL
  <2>1. /\ Len(d) = m /\ Len(d[m]) = X0 + 1 /\ d[m][X0 + 1] = c
        /\ \A o \in 1..(m - 1) : o <= Len(p) /\ d[o] = p[o]
        /\ m = Len(p) => \A o \in 1..X0 : d[m][o] = p[m][o]
    BY <1>3, FlowCharacter
  <2> HIDE DEF d, m, X0
  <2>2. CASE k > m
    <3>1. ~(k <= Len(d)) /\ ~(k <= Len(p)) /\ k # m
      BY <1>1, <2>1, <2>2
    <3> QED
      BY <3>1 DEF CellAt, d, m
  <2>3. CASE k < m
    <3>1. k \in 1..(m - 1) /\ k <= Len(d) /\ k # m
      BY <1>1, <2>1, <2>3
    <3>2. k <= Len(p) /\ d[k] = p[k]
      BY <2>1, <3>1
    <3> QED
      BY <3>1, <3>2 DEF CellAt, d, m
  <2>4. CASE k = m
    <3>1. CellAt(d, k, x) = Cell(d[m], x)
      BY <1>1, <2>1, <2>4 DEF CellAt
    <3>2. CASE x = X0
      <4>1. x < Len(d[m]) /\ d[m][x + 1] = c
        BY <1>1, <2>1, <3>2
      <4> QED
        BY <1>3, <2>4, <3>1, <3>2, <4>1 DEF Cell, d, m, X0
    <3>3. CASE x > X0
      <4>1. ~(x < Len(d[m])) /\ x # X0
        BY <1>1, <2>1, <3>3
      <4>2. CellAt(p, k, x) = Blank
        <5>1. CASE m = Len(p)
          <6>1. ~(x < Len(p[k])) /\ k <= Len(p)
            BY <1>1, <2>4, <3>3, <5>1
          <6> QED
            BY <6>1 DEF CellAt, Cell
        <5>2. CASE m # Len(p)
          <6>1. ~(k <= Len(p))
            BY <1>1, <2>4, <5>2
          <6> QED
            BY <6>1 DEF CellAt
        <5> QED
          BY <5>1, <5>2
      <4> QED
        BY <3>1, <4>1, <4>2 DEF Cell, d, X0
    <3>4. CASE x < X0
      <4>1. m = Len(p) /\ X0 = Len(p[m]) /\ x # X0
        BY <1>1, <3>4
      <4>2. x + 1 \in 1..X0 /\ x < Len(d[m]) /\ x < Len(p[m]) /\ k <= Len(p)
        BY <1>1, <2>1, <2>4, <3>4, <4>1
      <4>3. d[m][x + 1] = p[m][x + 1]
        BY <2>1, <4>1, <4>2
      <4>4. Cell(d[m], x) = d[m][x + 1] /\ CellAt(p, k, x) = p[m][x + 1]
        BY <2>4, <4>2 DEF CellAt, Cell
      <4> QED
        BY <3>1, <4>1, <4>3, <4>4 DEF d, X0
    <3> QED
      BY <1>1, <3>2, <3>3, <3>4
  <2> QED
    BY <1>1, <2>2, <2>3, <2>4
<1> QED
  BY <1>2, <1>3
----------------------------------------------------------------------------
(* Printing a character *)

\* Of l rows the last has a characters; the next character is in row m.
LEMMA TurnSizes ==
  ASSUME NEW l \in Nat \ {0}, NEW a \in Nat, NEW w \in Nat \ {0}, NEW h \in Nat \ {0},
         NEW e \in Int, e = IF l <= h THEN l - 1 ELSE IF a = 0 THEN h ELSE h - 1,
         NEW m \in Nat, m = (IF a = w THEN l + 1 ELSE l),
         NEW y \in Int, y = (IF a = w THEN e + 1 ELSE e),
         NEW r \in Int, r = (IF y = h THEN y - 1 ELSE y)
  PROVE  /\ r = IF m <= h THEN m - 1 ELSE h - 1
         /\ y = h => m > h /\ l - e = m - 1 - r /\ (m = l + 1 \/ a = 0)
         /\ y # h => l - 1 - e = m - 1 - r
<1>1. CASE a = w
  BY <1>1
<1>2. CASE a # w
  BY <1>2
<1> QED
  BY <1>1, <1>2

\* Where the next character goes, and by how much the screen has scrolled
\* when it is there (video.c:48-71).
LEMMA Turn ==
  ASSUME CursorAt, mx \in Nat \ {0}, my \in Nat \ {0}
  PROVE  LET m == NextRow(rows) IN
           /\ Len(rows) \in Nat \ {0} /\ m \in Nat \ {0} /\ m >= Len(rows)
           /\ X = NextCol(rows) /\ X \in 0..(mx - 1)
           /\ Row = (IF m <= my THEN m - 1 ELSE my - 1) /\ Row \in 0..(my - 1)
           /\ Len(rows) - 1 - cy \in Nat
           /\ AtBottom => /\ m > my /\ Len(rows) - cy = m - 1 - Row
                          /\ \A x \in Nat : CellAt(rows, m, x) = Blank
           /\ ~AtBottom => Len(rows) - 1 - cy = m - 1 - Row
<1> DEFINE m == NextRow(rows)
<1>1. PICK l \in Nat \ {0}, a \in Nat : l = Len(rows) /\ a = Len(rows[Len(rows)]) /\ a <= mx
  <2>1. Len(rows) \in Nat \ {0} /\ Len(rows) \in 1..Len(rows)
    BY DEF CursorAt, IsRows
  <2> QED
    BY <2>1 DEF CursorAt, IsRows
<1>2. /\ cx = a /\ cy = IF l <= my THEN l - 1 ELSE IF a = 0 THEN my ELSE my - 1
      /\ m = (IF a = mx THEN l + 1 ELSE l) /\ NextCol(rows) = IF a = mx THEN 0 ELSE a
  BY <1>1 DEF CursorAt, NextRow, NextCol
<1> HIDE DEF m
<1>3. /\ X = (IF a = mx THEN 0 ELSE a) /\ Y = (IF a = mx THEN cy + 1 ELSE cy)
  BY <1>2 DEF X, Y, Wrapped
<1>4. /\ Row = (IF m <= my THEN m - 1 ELSE my - 1)
      /\ AtBottom => m > my /\ l - cy = m - 1 - Row /\ (m = l + 1 \/ a = 0)
      /\ ~AtBottom => l - 1 - cy = m - 1 - Row
  <2>1. PICK w \in Nat \ {0}, h \in Nat \ {0} : w = mx /\ h = my
    OBVIOUS
  <2>2. PICK e \in Int : e = IF l <= h THEN l - 1 ELSE IF a = 0 THEN h ELSE h - 1
    OBVIOUS
  <2>3. PICK z \in Nat : z = IF a = w THEN l + 1 ELSE l
    OBVIOUS
  <2>4. PICK y \in Int : y = IF a = w THEN e + 1 ELSE e
    OBVIOUS
  <2>5. PICK r \in Int : r = IF y = h THEN y - 1 ELSE y
    OBVIOUS
  <2>6. e = cy /\ z = m
    BY <1>2, <2>1, <2>2, <2>3
  <2>7. y = Y
    BY <1>3, <2>1, <2>4, <2>6
  <2>8. (AtBottom <=> y = h) /\ r = Row
    BY <2>1, <2>5, <2>7 DEF AtBottom, Row
  <2>9. /\ r = IF z <= h THEN z - 1 ELSE h - 1
        /\ y = h => z > h /\ l - e = z - 1 - r /\ (z = l + 1 \/ a = 0)
        /\ y # h => l - 1 - e = z - 1 - r
    BY <2>2, <2>3, <2>4, <2>5, TurnSizes
  <2> QED
    BY <2>1, <2>6, <2>8, <2>9
<1>5. AtBottom => \A x \in Nat : CellAt(rows, m, x) = Blank
  <2> SUFFICES ASSUME AtBottom, NEW x \in Nat PROVE CellAt(rows, m, x) = Blank
    OBVIOUS
  <2>1. CASE m = l + 1
    <3>1. ~(m <= Len(rows))
      BY <1>1, <2>1
    <3> QED
      BY <3>1 DEF CellAt
  <2>2. CASE a = 0
    <3>1. ~(x < 0)
      OBVIOUS
    <3>2. m = l
      BY <1>2, <2>2
    <3>3. Len(rows[m]) = 0
      BY <1>1, <2>2, <3>2
    <3> QED
      BY <3>1, <3>3 DEF CellAt, Cell
  <2> QED
    BY <1>4, <2>1, <2>2
<1>6. l - 1 - cy \in Nat /\ m \in Nat \ {0} /\ m >= l
  BY <1>1, <1>2
<1>7. X = NextCol(rows) /\ X \in 0..(mx - 1) /\ Row \in 0..(my - 1)
  BY <1>1, <1>2, <1>3, <1>4, <1>6
<1> QED
  BY <1>1, <1>4, <1>5, <1>6, <1>7 DEF m

\* The cursor is after the last character.
LEMMA CursorKeeps ==
  ASSUME CursorAt, mx \in Nat \ {0}, my \in Nat \ {0}, NEW c, video_putchar(c)
  PROVE  CursorAt'
<1> DEFINE m == NextRow(rows)
           d == Flow(rows, c)
<1>1. /\ m \in Nat \ {0} /\ X = NextCol(rows) /\ X \in 0..(mx - 1)
      /\ Row = (IF m <= my THEN m - 1 ELSE my - 1)
  BY Turn
<1>2. rows' = d /\ mx' = mx /\ my' = my
  BY DEF video_putchar
<1>3. IsRows(rows)
  BY DEF CursorAt
<1>4. CASE c = NL
  <2>1. IsRows(d) /\ Len(d) = m + 1 /\ Len(d[Len(d)]) = 0
    BY <1>3, <1>4, FlowNewline
  <2>2. cx' = 0 /\ cy' = Row + 1
    BY <1>4 DEF video_putchar
  <2> HIDE DEF m, d
  <2>3. IsRows(rows)'
    BY <1>2, <2>1 DEF IsRows
  <2>4. cy' = IF Len(d) <= my THEN Len(d) - 1 ELSE my
    BY <1>1, <2>1, <2>2
  <2> QED
    BY <1>2, <2>1, <2>2, <2>3, <2>4 DEF CursorAt
<1>5. CASE c # NL
  <2>1. IsRows(d) /\ Len(d) = m /\ Len(d[m]) = NextCol(rows) + 1
    BY <1>3, <1>5, FlowCharacter
  <2>2. cx' = X + 1 /\ cy' = Row
    BY <1>5 DEF video_putchar
  <2> HIDE DEF m, d
  <2>3. IsRows(rows)'
    BY <1>2, <2>1 DEF IsRows
  <2>4. cx' # 0 /\ cx' = Len(d[Len(d)])
    BY <1>1, <2>1, <2>2
  <2>5. cy' = IF Len(d) <= my THEN Len(d) - 1 ELSE my - 1
    BY <1>1, <2>1, <2>2
  <2> QED
    BY <1>2, <2>1, <2>3, <2>4, <2>5 DEF CursorAt
<1> QED
  BY <1>4, <1>5

\* Scrolled when the cursor is past the last row, the page shows the rows the
\* next character is written among.
LEMMA PageShows ==
  ASSUME CursorAt, mx \in Nat \ {0}, my \in Nat \ {0}, mode = "text",
         OnScreen(fb), TextDrawn
  PROVE  /\ TextCells(Page, rows, NextRow(rows) - 1 - Row)
         /\ OnScreen(Page)
<1> DEFINE m == NextRow(rows)
<1>1. /\ m \in Nat \ {0} /\ Len(rows) \in Nat \ {0} /\ Row \in 0..(my - 1)
      /\ Row = (IF m <= my THEN m - 1 ELSE my - 1)
      /\ Len(rows) - 1 - cy \in Nat
      /\ AtBottom => /\ m > my /\ Len(rows) - cy = m - 1 - Row
                     /\ \A x \in Nat : CellAt(rows, m, x) = Blank
      /\ ~AtBottom => Len(rows) - 1 - cy = m - 1 - Row
  BY Turn
<1> HIDE DEF m
<1>2. CASE ~AtBottom
  BY <1>1, <1>2 DEF Page, m, TextDrawn
<1>3. CASE AtBottom
  <2>1. Page = Scrolled(fb, mx, my)
    BY <1>3 DEF Page
  <2>2. PICK t \in Nat : t = Len(rows) - 1 - cy
    BY <1>1
  <2>3. m - 1 - Row = t + 1 /\ t + 1 + my = m
    <3>1. PICK e \in Int : e = cy
      <4>1. cy = IF Len(rows) <= my THEN Len(rows) - 1 ELSE IF cx = 0 THEN my ELSE my - 1
        BY DEF CursorAt
      <4> QED
        BY <1>1, <4>1
    <3>2. PICK l \in Nat, z \in Nat, h \in Nat \ {0} : l = Len(rows) /\ z = m /\ h = my
      BY <1>1
    <3>3. z > h /\ l - e = z - 1 - Row /\ Row = h - 1
      BY <1>1, <1>3, <3>1, <3>2
    <3>4. t = l - 1 - e
      BY <2>2, <3>1, <3>2
    <3>5. PICK v \in Nat : v = Row
      BY <1>1
    <3>6. z - 1 - v = t + 1 /\ t + 1 + h = z
      BY <3>3, <3>4, <3>5
    <3> QED
      BY <3>2, <3>5, <3>6
  <2>4. ASSUME NEW y \in 0..(my - 1), NEW x \in 0..(mx - 1)
        PROVE  Page[y * mx + x] = CellAt(rows, t + 2 + y, x)
    <3>1. Page[y * mx + x] = IF y < my - 1 THEN fb[(y + 1) * mx + x] ELSE Blank
      BY <2>1, ScrolledCell
    <3>2. CASE y < my - 1
      <4>1. PICK z \in 0..(my - 1) : z = y + 1
        BY <3>2
      <4>2. fb[z * mx + x] = CellAt(rows, t + 1 + z, x)
        BY <2>2 DEF TextDrawn, TextCells
      <4>3. t + 1 + z = t + 2 + y
        BY <4>1
      <4> QED
        BY <3>1, <3>2, <4>1, <4>2, <4>3
    <3>3. CASE ~(y < my - 1)
      <4>1. t + 2 + y = m /\ x \in Nat
        BY <2>3, <3>3
      <4>2. CellAt(rows, m, x) = Blank
        BY <1>1, <1>3, <4>1
      <4> QED
        BY <3>1, <3>3, <4>1, <4>2
    <3> QED
      BY <3>2, <3>3
  <2>5. TextCells(Page, rows, t + 1)
    <3>1. ASSUME NEW y \in 0..(my - 1) PROVE (t + 1) + 1 + y = t + 2 + y
      OBVIOUS
    <3> QED
      BY <2>4, <3>1 DEF TextCells
  <2>6. OnScreen(Page)
    BY <2>1 DEF Scrolled, OnScreen
  <2> QED
    BY <2>3, <2>5, <2>6 DEF m
<1> QED
  BY <1>2, <1>3

\* One cell of the page is written, or none for a newline (text.c:4-9, gfx.c:5-23).
LEMMA PutCell ==
  ASSUME CursorAt, mx \in Nat \ {0}, my \in Nat \ {0}, OnScreen(Page), NEW c, video_putchar(c)
  PROVE  /\ OnScreen(fb')
         /\ \A y \in 0..(my - 1), x \in 0..(mx - 1) :
              fb'[y * mx + x] = IF c # NL /\ y = Row /\ x = X THEN c ELSE Page[y * mx + x]
<1>1. fb' = IF c = NL THEN Page ELSE [Page EXCEPT ![Row * mx + X] = c]
  BY DEF video_putchar
<1>2. OnScreen(fb')
  <2>1. Page = [k \in 0..(mx * my - 1) |-> Page[k]]
    BY DEF OnScreen
  <2>2. DOMAIN fb' = 0..(mx * my - 1) /\ fb' = [k \in DOMAIN fb' |-> fb'[k]]
    BY <1>1, <2>1
  <2> QED
    BY <2>2 DEF OnScreen
<1>3. ASSUME NEW y \in 0..(my - 1), NEW x \in 0..(mx - 1)
      PROVE  fb'[y * mx + x] = IF c # NL /\ y = Row /\ x = X THEN c ELSE Page[y * mx + x]
  <2>1. PICK v \in 0..(my - 1), u \in 0..(mx - 1) : v = Row /\ u = X
    BY Turn
  <2>2. Put(Page, Place(mx, v, u), c)[Place(mx, y, x)] =
          IF y = v /\ x = u THEN c ELSE Page[Place(mx, y, x)]
    BY WrittenCell DEF OnScreen
  <2>3. [Page EXCEPT ![Row * mx + X] = c][y * mx + x] =
          IF y = Row /\ x = X THEN c ELSE Page[y * mx + x]
    BY <2>1, <2>2 DEF Place, Put
  <2> QED
    BY <1>1, <2>3
<1> QED
  BY <1>2, <1>3

\* A text screen shows one character more (text.c:4-27).
LEMMA TextPut ==
  ASSUME CursorAt, mx \in Nat \ {0}, my \in Nat \ {0}, mode = "text",
         OnScreen(fb), TextDrawn,
         NEW c, video_putchar(c)
  PROVE  TextCells(fb', rows', Len(rows') - 1 - cy')
<1> DEFINE m == NextRow(rows)
           d == Flow(rows, c)
<1>1. /\ m \in Nat \ {0} /\ X = NextCol(rows) /\ X \in 0..(mx - 1) /\ Row \in 0..(my - 1)
      /\ Row = (IF m <= my THEN m - 1 ELSE my - 1)
  BY Turn
<1>2. TextCells(Page, rows, m - 1 - Row) /\ OnScreen(Page)
  BY PageShows
<1>3. rows' = d /\ IsRows(rows)
  BY DEF video_putchar, CursorAt
<1>4. PICK t \in Nat : t = m - 1 - Row
  BY <1>1
<1>5. Len(d) - 1 - cy' = t
  <2>1. CASE c = NL
    <3>1. Len(d) = m + 1 /\ cy' = Row + 1
      BY <1>3, <2>1, FlowNewline DEF video_putchar
    <3> HIDE DEF m, d
    <3> QED
      BY <1>1, <1>4, <3>1
  <2>2. CASE c # NL
    <3>1. Len(d) = m /\ cy' = Row
      BY <1>3, <2>2, FlowCharacter DEF video_putchar
    <3> HIDE DEF m, d
    <3> QED
      BY <1>1, <1>4, <3>1
  <2> QED
    BY <2>1, <2>2
<1>6. ASSUME NEW y \in 0..(my - 1), NEW x \in 0..(mx - 1)
      PROVE  fb'[y * mx + x] = CellAt(d, t + 1 + y, x)
  <2>1. t + 1 + y \in Nat \ {0} /\ x \in Nat /\ (t + 1 + y = m <=> y = Row)
    <3>1. PICK z \in Nat, v \in Nat : z = m /\ v = Row
      BY <1>1
    <3>2. t = z - 1 - v
      BY <1>4, <3>1
    <3>3. t + 1 + y \in Nat \ {0} /\ x \in Nat /\ (t + 1 + y = z <=> y = v)
      BY <3>2
    <3> QED
      BY <3>1, <3>3
  <2>2. CellAt(d, t + 1 + y, x) =
          IF c # NL /\ t + 1 + y = m /\ x = X THEN c ELSE CellAt(rows, t + 1 + y, x)
    BY <1>1, <1>3, <2>1, FlowCell
  <2>3. Page[y * mx + x] = CellAt(rows, t + 1 + y, x)
    BY <1>2, <1>4 DEF TextCells
  <2>4. fb'[y * mx + x] = IF c # NL /\ y = Row /\ x = X THEN c ELSE Page[y * mx + x]
    BY <1>2, PutCell
  <2> HIDE DEF m, d
  <2> QED
    BY <2>1, <2>2, <2>3, <2>4
<1> QED
  BY <1>3, <1>5, <1>6 DEF TextCells

\* Two pages have the same last cell where the same rows reach it.
LEMMA SameOver ==
  ASSUME NEW p, NEW d, NEW x, NEW b, LastCell(p, x, b), Over(d, x) = Over(p, x),
         \A k \in Over(p, x) : d[k][x + 1] = p[k][x + 1]
  PROVE  LastCell(d, x, b)
  BY DEF LastCell

\* A character that goes past the last row is drawn over what was in it.
LEMMA FlowOver ==
  ASSUME NEW p, IsRows(p), mx \in Nat \ {0}, my \in Nat \ {0}, NEW c
  PROVE  \A x \in Nat : \A b : LastCell(p, x, b) =>
           LastCell(Flow(p, c), x, IF c # NL /\ NextRow(p) >= my /\ x = NextCol(p) THEN c ELSE b)
<1> DEFINE d == Flow(p, c)
           m == NextRow(p)
           X0 == NextCol(p)
<1>1. ASSUME c # NL
      PROVE  /\ Len(d) = m /\ Len(d[m]) = X0 + 1 /\ d[m][X0 + 1] = c
             /\ \A k \in 1..(m - 1) : k <= Len(p) /\ d[k] = p[k]
             /\ m = Len(p) => \A o \in 1..X0 : d[m][o] = p[m][o]
  <2>1. Len(d) = m
    BY <1>1, FlowCharacter
  <2>2. Len(d[m]) = X0 + 1
    BY <1>1, FlowCharacter
  <2>3. d[m][X0 + 1] = c
    BY <1>1, FlowCharacter
  <2>4. \A k \in 1..(m - 1) : k <= Len(p) /\ d[k] = p[k]
    BY <1>1, FlowCharacter
  <2>5. m = Len(p) => \A o \in 1..X0 : d[m][o] = p[m][o]
    BY <1>1, FlowCharacter
  <2> QED
    BY <2>1, <2>2, <2>3, <2>4, <2>5
<1> SUFFICES ASSUME NEW x \in Nat, NEW b, LastCell(p, x, b)
             PROVE  LastCell(Flow(p, c), x, IF c # NL /\ m >= my /\ x = X0 THEN c ELSE b)
  OBVIOUS
<1>2. /\ Len(p) \in Nat \ {0} /\ m \in Nat \ {0} /\ m >= Len(p)
      /\ X0 \in Nat /\ (m = Len(p) => X0 = Len(p[m])) /\ (m # Len(p) => X0 = 0)
      /\ \A k \in 1..Len(p) : Len(p[k]) \in Nat
  <2>1. Len(p) \in Nat \ {0} /\ Len(p) \in 1..Len(p)
    BY DEF IsRows
  <2>2. Len(p[Len(p)]) \in Nat /\ \A k \in 1..Len(p) : Len(p[k]) \in Nat
    BY <2>1 DEF IsRows
  <2> QED
    BY <2>1, <2>2 DEF NextRow, NextCol
<1>3. CASE c = NL
  <2>1. /\ Len(d) = m + 1
        /\ \A k \in 1..Len(d) : k <= Len(p) => d[k] = p[k]
        /\ \A k \in 1..Len(d) : k > Len(p) => d[k] = <<>>
    BY <1>3, FlowNewline
  <2> HIDE DEF d, m, X0
  <2>2. ASSUME NEW k PROVE k \in Over(d, x) <=> k \in Over(p, x)
    <3>1. CASE k \in my..Len(p)
      <4>1. k \in 1..Len(d) /\ k \in my..Len(d) /\ k <= Len(p)
        BY <1>2, <2>1, <3>1
      <4> QED
        BY <2>1, <3>1, <4>1 DEF Over
    <3>2. CASE k \in my..Len(d) /\ ~(k \in my..Len(p))
      <4>1. k \in 1..Len(d) /\ k > Len(p)
        BY <1>2, <2>1, <3>2
      <4>2. d[k] = <<>>
        BY <2>1, <4>1
      <4>3. ~(Len(<<>>) > x)
        OBVIOUS
      <4> QED
        BY <3>2, <4>2, <4>3 DEF Over
    <3>3. CASE ~(k \in my..Len(d)) /\ ~(k \in my..Len(p))
      BY <3>3 DEF Over
    <3> QED
      BY <3>1, <3>2, <3>3
  <2>3. ASSUME NEW k \in Over(p, x) PROVE d[k][x + 1] = p[k][x + 1]
    <3>1. k \in 1..Len(d) /\ k <= Len(p)
      BY <1>2, <2>1 DEF Over
    <3> QED
      BY <2>1, <3>1
  <2>4. LastCell(d, x, b)
    BY <2>2, <2>3, SameOver
  <2> QED
    BY <1>3, <2>4 DEF d
<1>4. CASE c # NL
  <2>1. /\ Len(d) = m /\ Len(d[m]) = X0 + 1 /\ d[m][X0 + 1] = c
        /\ \A k \in 1..(m - 1) : k <= Len(p) /\ d[k] = p[k]
        /\ m = Len(p) => \A o \in 1..X0 : d[m][o] = p[m][o]
    BY <1>4, <1>1
  <2> HIDE DEF d, m, X0
  <2>2. CASE m >= my /\ x = X0
    <3>1. m \in my..Len(d) /\ Len(d[m]) > x
      BY <1>2, <2>1, <2>2
    <3>2. m \in Over(d, x)
      BY <3>1 DEF Over
    <3>3. \A o \in Over(d, x) : o <= m
      BY <1>2, <2>1 DEF Over
    <3>4. d[m][x + 1] = c
      BY <2>1, <2>2
    <3>5. LastCell(d, x, c)
      BY <3>2, <3>3, <3>4 DEF LastCell
    <3> QED
      BY <1>4, <2>2, <3>5 DEF d, m, X0
  <2>3. CASE ~(m >= my /\ x = X0)
    <3>1. ASSUME NEW k PROVE k \in Over(d, x) <=> k \in Over(p, x)
      <4>1. CASE k \in my..(m - 1)
        <5>1. k \in 1..(m - 1) /\ k \in my..Len(d)
          BY <1>2, <2>1, <4>1
        <5>2. k <= Len(p) /\ d[k] = p[k]
          BY <2>1, <5>1
        <5>3. k \in my..Len(p)
          BY <1>2, <4>1, <5>2
        <5> QED
          BY <5>1, <5>2, <5>3 DEF Over
      <4>2. CASE k = m /\ m >= my
        <5>1. x # X0 /\ k \in my..Len(d)
          BY <1>2, <2>1, <2>3, <4>2
        <5>2. Len(d[k]) > x <=> x < X0
          BY <1>2, <2>1, <4>2, <5>1
        <5>3. CASE m = Len(p)
          <6>1. k \in my..Len(p) /\ Len(p[k]) = X0
            BY <1>2, <4>2, <5>3
          <6>2. Len(p[k]) > x <=> x < X0
            BY <1>2, <6>1
          <6> QED
            BY <5>1, <5>2, <6>1, <6>2 DEF Over
        <5>4. CASE m # Len(p)
          <6>1. ~(k \in my..Len(p)) /\ ~(x < X0)
            BY <1>2, <4>2, <5>4
          <6> QED
            BY <5>2, <6>1 DEF Over
        <5> QED
          BY <5>3, <5>4
      <4>3. CASE ~(k \in my..(m - 1)) /\ ~(k = m /\ m >= my)
        <5>1. ~(k \in my..Len(d)) /\ ~(k \in my..Len(p))
          BY <1>2, <2>1, <4>3
        <5> QED
          BY <5>1 DEF Over
      <4> QED
        BY <4>1, <4>2, <4>3
    <3>2. ASSUME NEW k \in Over(p, x) PROVE d[k][x + 1] = p[k][x + 1]
      <4>1. k \in my..Len(p) /\ Len(p[k]) > x /\ k \in 1..Len(p)
        BY DEF Over
      <4>2. CASE k < m
        <5>1. k \in 1..(m - 1)
          BY <1>2, <4>1, <4>2
        <5> QED
          BY <2>1, <5>1
      <4>3. CASE ~(k < m)
        <5>1. k = m /\ m = Len(p)
          BY <1>2, <4>1, <4>3
        <5>2. x + 1 \in 1..X0
          BY <1>2, <4>1, <5>1
        <5> QED
          BY <2>1, <5>1, <5>2
      <4> QED
        BY <4>2, <4>3
    <3>3. LastCell(d, x, b)
      BY <3>1, <3>2, SameOver
    <3> QED
      BY <2>3, <3>3 DEF d, m, X0
  <2> QED
    BY <2>2, <2>3
<1> QED
  BY <1>3, <1>4

\* A graphical screen shows one character more (gfx.c:5-25).
LEMMA GfxPut ==
  ASSUME CursorAt, mx \in Nat \ {0}, my \in Nat \ {0}, mode # "text", OnScreen(fb), GfxDrawn,
         NEW c, video_putchar(c)
  PROVE  GfxCells(fb', rows')
<1> DEFINE m == NextRow(rows)
           d == Flow(rows, c)
<1>1. /\ m \in Nat \ {0} /\ X = NextCol(rows) /\ Row \in 0..(my - 1)
      /\ Row = (IF m <= my THEN m - 1 ELSE my - 1)
  BY Turn
<1>2. Page = fb
  BY DEF Page
<1>3. rows' = d /\ IsRows(rows)
  BY DEF video_putchar, CursorAt
<1>4. ASSUME NEW y \in 0..(my - 1), NEW x \in 0..(mx - 1)
      PROVE  /\ y < my - 1 => fb'[y * mx + x] = CellAt(d, y + 1, x)
             /\ y = my - 1 => LastCell(d, x, fb'[y * mx + x])
  <2>1. fb'[y * mx + x] = IF c # NL /\ y = Row /\ x = X THEN c ELSE fb[y * mx + x]
    BY <1>2, PutCell
  <2>2. y + 1 \in Nat \ {0} /\ x \in Nat
    OBVIOUS
  <2>3. CASE y < my - 1
    <3>1. fb[y * mx + x] = CellAt(rows, y + 1, x)
      BY <2>3 DEF GfxDrawn, GfxCells
    <3>2. CellAt(d, y + 1, x) = IF c # NL /\ y + 1 = m /\ x = X THEN c ELSE CellAt(rows, y + 1, x)
      BY <1>1, <1>3, <2>2, FlowCell
    <3> HIDE DEF m, d
    <3>3. y + 1 = m <=> y = Row
      <4>1. PICK z \in Nat \ {0}, v \in Nat : z = m /\ v = Row
        BY <1>1
      <4>2. v = IF z <= my THEN z - 1 ELSE my - 1
        BY <1>1, <4>1
      <4>3. y + 1 = z <=> y = v
        BY <2>3, <4>2
      <4> QED
        BY <4>1, <4>3
    <3> QED
      BY <2>1, <2>3, <3>1, <3>2, <3>3
  <2>4. CASE y = my - 1
    <3>1. LastCell(rows, x, fb[y * mx + x])
      BY <2>4 DEF GfxDrawn, GfxCells
    <3>2. LastCell(d, x, IF c # NL /\ m >= my /\ x = X THEN c ELSE fb[y * mx + x])
      BY <1>1, <1>3, <2>2, <3>1, FlowOver
    <3> HIDE DEF m, d
    <3>3. m >= my <=> y = Row
      <4>1. PICK z \in Nat \ {0}, v \in Nat : z = m /\ v = Row
        BY <1>1
      <4>2. v = IF z <= my THEN z - 1 ELSE my - 1
        BY <1>1, <4>1
      <4>3. z >= my <=> y = v
        BY <2>4, <4>2
      <4> QED
        BY <4>1, <4>3
    <3>4. fb'[y * mx + x] = IF c # NL /\ m >= my /\ x = X THEN c ELSE fb[y * mx + x]
      BY <2>1, <3>3
    <3> QED
      BY <2>4, <3>2, <3>4
  <2> QED
    BY <2>3, <2>4
<1> QED
  BY <1>3, <1>4 DEF GfxCells
----------------------------------------------------------------------------
(* The invariant of the screen *)

\* A mode set has room for a character (vbe.c:77-83).
LEMMA Room ==
  ASSUME NEW a \in Nat, NEW b \in Nat \ {0}, a >= b
  PROVE  a \div b \in Nat \ {0}
  BY Z3

\* The screen holds anything at first, and nothing on it counts as blank.
LEMMA InitScreen == Init => ScreenInv
<1> SUFFICES ASSUME Init PROVE ScreenInv
  OBVIOUS
<1>1. /\ pc = "screen" /\ i = 0 /\ mode = "text" /\ cx = 0 /\ cy = 0 /\ mx = TEXT_W /\ my = TEXT_H
      /\ fb = [k \in 0..(TEXT_W * TEXT_H - 1) |-> Junk] /\ rows = << <<>> >>
  BY DEF Init, ConsoleInit
<1>2. TEXT_W \in Nat \ {0} /\ TEXT_H \in Nat \ {0}
  BY ConsoleAssumption
<1>3. OnScreen(fb)
  BY <1>1 DEF OnScreen
<1>4. AllBlank(TEXT_H - i)
  BY <1>1, <1>2 DEF AllBlank
<1> QED
  BY <1>1, <1>2, <1>3, <1>4, InitMode DEF ScreenInv

\* Every turn of the loop blanks one row more, from below (video.c:12-30).
LEMMA ScreenInitScreen == ScreenInv /\ screen_init => ScreenInv'
<1> SUFFICES ASSUME ScreenInv, screen_init PROVE ScreenInv'
  OBVIOUS
<1>1. /\ pc = "screen" /\ i \in Nat /\ i < TEXT_H /\ AllBlank(TEXT_H - i)
      /\ mx = TEXT_W /\ my = TEXT_H /\ rows = << <<>> >>
  BY DEF ScreenInv, screen_init
<1>2. /\ fb' = Scrolled(fb, mx, my) /\ i' = i + 1 /\ rows' = rows
      /\ pc' = (IF i' < TEXT_H THEN "screen" ELSE "edid")
      /\ mode' = "text" /\ cx' = 0 /\ cy' = 0 /\ mx' = mx /\ my' = my
  BY <1>1 DEF screen_init
<1>3. TEXT_W \in Nat \ {0} /\ TEXT_H \in Nat \ {0}
  BY ConsoleAssumption
<1>4. ModeInv'
  BY ScreenInitKeeps DEF ScreenInv
<1>5. OnScreen(fb)'
  BY <1>2 DEF OnScreen, Scrolled
<1>6. AllBlank(TEXT_H - i)'
  <2> SUFFICES ASSUME NEW y \in 0..(my - 1), NEW x \in 0..(mx - 1), y >= TEXT_H - (i + 1)
               PROVE  fb'[y * mx + x] = Blank
    BY <1>2 DEF AllBlank
  <2>1. Scrolled(fb, mx, my)[y * mx + x] = IF y < my - 1 THEN fb[(y + 1) * mx + x] ELSE Blank
    BY <1>1, <1>3, ScrolledCell
  <2>2. CASE y < my - 1
    <3>1. PICK z \in 0..(my - 1) : z = y + 1 /\ z >= TEXT_H - i
      BY <1>1, <1>3, <2>2
    <3>2. fb[z * mx + x] = Blank
      BY <1>1, <3>1 DEF AllBlank
    <3> QED
      BY <1>2, <2>1, <2>2, <3>1, <3>2
  <2> QED
    BY <1>2, <2>1, <2>2
<1>7. ~(i' < TEXT_H) => AllBlank(0)'
  <2> SUFFICES ASSUME ~(i' < TEXT_H), NEW y \in 0..(my - 1), NEW x \in 0..(mx - 1)
               PROVE  fb'[y * mx + x] = Blank
    BY <1>2 DEF AllBlank
  <2>1. y >= (TEXT_H - i)'
    BY <1>1, <1>2, <1>3
  <2> QED
    BY <1>2, <1>6, <2>1 DEF AllBlank
<1> QED
  BY <1>1, <1>2, <1>3, <1>4, <1>5, <1>6, <1>7 DEF ScreenInv

\* Asking for the monitor, looking at a mode and filling the buffer leave the
\* screen alone.
LEMMA ScreenUntouched ==
  ASSUME ScreenInv, ModeInv', UNCHANGED <<i, mode, cx, cy, mx, my, fb, rows>>,
         pc' = pc \/ (pc \in {"edid", "modes"} /\ pc' = "modes")
  PROVE  ScreenInv'
<1>1. OnScreen(fb)' <=> OnScreen(fb)
  BY DEF OnScreen
<1>2. AllBlank(TEXT_H - i)' <=> AllBlank(TEXT_H - i)
  BY DEF AllBlank
<1>3. AllBlank(0)' <=> AllBlank(0)
  BY DEF AllBlank
<1>4. CursorAt' <=> CursorAt
  BY DEF CursorAt, IsRows
<1>5. TextDrawn' <=> TextDrawn
  BY DEF TextDrawn, TextCells
<1>6. GfxDrawn' <=> GfxDrawn
  BY DEF GfxDrawn, GfxCells, LastCell, Over
<1> QED
  BY <1>1, <1>2, <1>3, <1>4, <1>5, <1>6 DEF ScreenInv

\* The screen is blank when the mode is set, whichever it is (gfx.c, vbe.c:77-83).
LEMMA SetModeScreen == ScreenInv /\ SetMode => ScreenInv'
<1> SUFFICES ASSUME ScreenInv, SetMode PROVE ScreenInv'
  OBVIOUS
<1>1. /\ pc = "modes" /\ pc' = "print" /\ i' = i /\ rows' = rows /\ rows = << <<>> >>
      /\ cx = 0 /\ cy = 0 /\ mode = "text" /\ i \in Nat
      /\ mx \in Nat \ {0} /\ my \in Nat \ {0} /\ OnScreen(fb) /\ AllBlank(0)
      /\ ModeInv /\ list \in Lists
  BY DEF ScreenInv, ModeInv, SetMode
<1>2. ModeInv'
  BY <1>1, SetModeKeeps
<1>3. /\ cx' = 0 /\ cy' = 0 /\ mx' \in Nat \ {0} /\ my' \in Nat \ {0}
      /\ OnScreen(fb)' /\ AllBlank(0)'
  <2>1. CASE best.m = 0
    <3>1. UNCHANGED <<mode, cx, cy, mx, my, fb>>
      BY <2>1 DEF SetMode
    <3> QED
      BY <1>1, <3>1 DEF OnScreen, AllBlank
  <2>2. CASE best.m # 0
    <3>1. cx' = 0 /\ cy' = 0 /\ fb' = [k \in 0..(mx' * my' - 1) |-> Blank]
      BY <2>2 DEF SetMode
    <3>2. PICK m \in DOMAIN list : mx' = list[m].w \div FONT_W /\ my' = list[m].h \div FONT_H
      <4>1. list' = list /\ best' = best
        BY DEF SetMode
      <4> QED
        BY <1>1, <1>2, <2>2, <4>1 DEF ModeInv, ScreenSet
    <3>3. PICK w \in Nat, h \in Nat : w = list[m].w /\ h = list[m].h
      BY <1>1, <3>2, ListFacts
    <3>4. w >= FONT_W /\ h >= FONT_H
      BY <1>1, <3>2, <3>3, ConsoleAssumption
    <3>5. PICK f \in Nat \ {0}, g \in Nat \ {0} : f = FONT_W /\ g = FONT_H
      BY ConsoleAssumption
    <3>6. w \div f \in Nat \ {0} /\ h \div g \in Nat \ {0}
      BY <3>4, <3>5, Room
    <3>7. mx' \in Nat \ {0} /\ my' \in Nat \ {0}
      BY <3>2, <3>3, <3>5, <3>6
    <3>8. OnScreen(fb)'
      BY <3>1 DEF OnScreen
    <3>9. AllBlank(0)'
      <4> SUFFICES ASSUME NEW y \in 0..(my' - 1), NEW x \in 0..(mx' - 1)
                   PROVE  fb'[y * mx' + x] = Blank
        BY DEF AllBlank
      <4>1. y * mx' + x \in 0..(mx' * my' - 1)
        BY <3>7, CellIndex
      <4> QED
        BY <3>1, <4>1
    <3> QED
      BY <3>1, <3>7, <3>8, <3>9
  <2> QED
    BY <2>1, <2>2
<1>4. /\ IsRows(rows)' /\ Len(rows') = 1 /\ Len(rows'[Len(rows')]) = 0
      /\ \A k \in Nat \ {0} : \A x \in Nat : CellAt(rows', k, x) = Blank
  <2>1. \A k \in 1..Len(rows') : Len(rows'[k]) \in Nat /\ Len(rows'[k]) <= mx'
    BY <1>1, <1>3
  <2>2. rows' \in Seq(Seq({})) /\ Len(rows') \in Nat \ {0}
    BY <1>1
  <2>3. IsRows(rows)'
    BY <2>1, <2>2 DEF IsRows
  <2> QED
    BY <1>1, <2>3, NothingPrinted
<1>5. CursorAt'
  BY <1>3, <1>4 DEF CursorAt
<1>6. ASSUME NEW y \in 0..(my' - 1), NEW x \in 0..(mx' - 1)
      PROVE  fb'[y * mx' + x] = Blank
  <2>1. y >= 0
    BY <1>3
  <2>2. AllBlank(0)'
    BY <1>3
  <2> QED
    BY <2>1, <2>2 DEF AllBlank
<1>7. TextDrawn'
  <2> SUFFICES ASSUME NEW y \in 0..(my' - 1), NEW x \in 0..(mx' - 1)
               PROVE  fb'[y * mx' + x] = CellAt(rows', (Len(rows') - 1 - cy') + 1 + y, x)
    BY DEF TextDrawn, TextCells
  <2>1. fb'[y * mx' + x] = Blank
    BY <1>6
  <2>2. (Len(rows') - 1 - cy') + 1 + y \in Nat \ {0} /\ x \in Nat
    BY <1>3, <1>4
  <2> QED
    BY <1>4, <2>1, <2>2
<1>8. GfxDrawn'
  <2> SUFFICES ASSUME NEW y \in 0..(my' - 1), NEW x \in 0..(mx' - 1)
               PROVE  /\ fb'[y * mx' + x] = CellAt(rows', y + 1, x)
                      /\ Over(rows, x)' = {} /\ fb'[y * mx' + x] = Blank
    BY DEF GfxDrawn, GfxCells, LastCell
  <2>1. fb'[y * mx' + x] = Blank
    BY <1>6
  <2>2. y + 1 \in Nat \ {0} /\ x \in Nat
    BY <1>3
  <2>3. CellAt(rows', y + 1, x) = Blank
    BY <1>4, <2>2
  <2>4. Over(rows, x)' = {}
    <3>1. \A k \in 1..Len(rows') : ~(Len(rows'[k]) > x)
      BY <1>4, <2>2
    <3> QED
      BY <1>3, <1>4, <3>1 DEF Over
  <2> QED
    BY <2>1, <2>3, <2>4
<1> QED
  BY <1>1, <1>2, <1>3, <1>5, <1>7, <1>8 DEF ScreenInv

\* A character printed is shown.
LEMMA PutScreen ==
  ASSUME ScreenInv, NEW c, video_putchar(c)
  PROVE  ScreenInv'
<1>1. /\ pc = "print" /\ pc' = pc /\ i' = i /\ mode' = mode /\ mx' = mx /\ my' = my
      /\ UNCHANGED vbevars
  BY DEF video_putchar
<1>2. /\ mx \in Nat \ {0} /\ my \in Nat \ {0} /\ i \in Nat /\ OnScreen(fb) /\ CursorAt
      /\ mode = "text" => TextDrawn
      /\ mode # "text" => GfxDrawn
  BY <1>1 DEF ScreenInv
<1>3. ModeInv'
  BY <1>1, PrintingKeeps DEF ScreenInv
<1>4. CursorAt'
  BY <1>2, CursorKeeps
<1>5. OnScreen(Page)
  <2>1. CASE mode = "text"
    BY <1>2, <2>1, PageShows
  <2>2. CASE mode # "text"
    BY <1>2, <2>2 DEF Page
  <2> QED
    BY <2>1, <2>2
<1>6. OnScreen(fb)'
  <2>1. OnScreen(fb')
    BY <1>2, <1>5, PutCell
  <2> QED
    BY <1>1, <2>1 DEF OnScreen
<1>7. mode = "text" => TextDrawn'
  <2> SUFFICES ASSUME mode = "text" PROVE TextDrawn'
    OBVIOUS
  <2>1. TextCells(fb', rows', Len(rows') - 1 - cy')
    BY <1>2, TextPut
  <2> QED
    BY <1>1, <2>1 DEF TextDrawn, TextCells
<1>8. mode # "text" => GfxDrawn'
  <2> SUFFICES ASSUME mode # "text" PROVE GfxDrawn'
    OBVIOUS
  <2>1. GfxCells(fb', rows')
    BY <1>2, GfxPut
  <2> QED
    BY <1>1, <2>1 DEF GfxDrawn, GfxCells, LastCell, Over
<1> QED
  BY <1>1, <1>2, <1>3, <1>4, <1>6, <1>7, <1>8 DEF ScreenInv

\* Every step keeps the invariant.
LEMMA NextScreen == ScreenInv /\ [Next]_vars => ScreenInv'
<1> SUFFICES ASSUME ScreenInv, [Next]_vars PROVE ScreenInv'
  OBVIOUS
<1>1. ModeInv'
  BY NextMode DEF ScreenInv
<1>2. CASE VideoInit
  <2>1. CASE vbe_monitor_info
    BY <1>1, <2>1, ScreenUntouched DEF vbe_monitor_info
  <2>2. CASE TryMode
    BY <1>1, <2>2, ScreenUntouched DEF TryMode
  <2> QED
    BY <1>2, <2>1, <2>2, ScreenInitScreen, SetModeScreen DEF VideoInit
<1>3. ASSUME NEW text, boot_printf(text) PROVE ScreenInv'
  <2>1. UNCHANGED cvars
    BY <1>3 DEF boot_printf
  <2>2. UNCHANGED <<i, mode, cx, cy, mx, my, fb, rows>> /\ pc' = pc
    BY <2>1 DEF cvars
  <2>3. pc' = pc \/ (pc \in {"edid", "modes"} /\ pc' = "modes")
    BY <2>2
  <2> QED
    BY <1>1, <2>2, <2>3, ScreenUntouched, Zenon
<1>4. CASE print
  <2>1. PICK c : c = Head(out)
    OBVIOUS
  <2>2. video_putchar(c)
    BY <1>4, <2>1 DEF print
  <2> QED
    BY <2>2, PutScreen
<1>5. CASE Silent \/ UNCHANGED vars
  <2>1. UNCHANGED cvars
    BY <1>5 DEF Silent, vars
  <2>2. UNCHANGED <<i, mode, cx, cy, mx, my, fb, rows>> /\ pc' = pc
    BY <2>1 DEF cvars
  <2>3. pc' = pc \/ (pc \in {"edid", "modes"} /\ pc' = "modes")
    BY <2>2
  <2> QED
    BY <1>1, <2>2, <2>3, ScreenUntouched, Zenon
<1> QED
  BY <1>2, <1>3, <1>4, <1>5, Zenon DEF Next

\* What the screen shows, at every step of its setting up and after every
\* character (video.c, text.c, gfx.c).
THEOREM ScreenInvariant == Spec => []ScreenInv
<1> QED
  BY InitScreen, NextScreen, PTL DEF Spec

\* A text screen shows the last rows of all that was printed; a graphical one
\* its first rows, and in the last what reaches it of those that do not fit;
\* and nothing is written outside (video.c:43-71, text.c:12-27, gfx.c:25).
THEOREM ScreenShown == Spec => []Shown
<1>1. ScreenInv => Shown
  <2> SUFFICES ASSUME ScreenInv, pc = "print" PROVE Shown
    BY DEF Shown
  <2>1. /\ mx \in Nat \ {0} /\ my \in Nat \ {0} /\ OnScreen(fb) /\ CursorAt
        /\ mode = "text" => TextDrawn
        /\ mode # "text" => GfxDrawn
    BY DEF ScreenInv
  <2>2. Len(rows) \in Nat \ {0} /\ Len(rows) - 1 - cy \in Nat
    BY <2>1, Turn
  <2>3. /\ IsRows(rows) /\ cx = Len(rows[Len(rows)]) /\ cx \in 0..mx
        /\ cy = IF Len(rows) <= my THEN Len(rows) - 1 ELSE IF cx = 0 THEN my ELSE my - 1
    <3>1. Len(rows) \in 1..Len(rows)
      BY <2>2
    <3> QED
      BY <2>1, <3>1 DEF CursorAt, IsRows
  <2>4. cy \in 0..my /\ ~(cx > 0 /\ cy = my)
    BY <2>1, <2>2, <2>3
  <2>5. DOMAIN fb = 0..(mx * my - 1)
    BY <2>1 DEF OnScreen
  <2>6. mode = "text" => TextShown
    <3> SUFFICES ASSUME mode = "text" PROVE TextShown
      OBVIOUS
    <3>1. PICK t \in Nat, l \in Nat : t = Len(rows) - 1 - cy /\ l = Len(rows)
      BY <2>2
    <3>2. t > 0 => cy >= my - 1
      <4>1. PICK e : e = cy
        OBVIOUS
      <4>2. e = (IF l <= my THEN l - 1 ELSE IF cx = 0 THEN my ELSE my - 1) /\ t = l - 1 - e
        BY <2>3, <3>1, <4>1
      <4>3. t > 0 => e >= my - 1
        BY <2>1, <4>2
      <4> QED
        BY <4>1, <4>3
    <3>3. ASSUME NEW y \in 0..(my - 1), NEW x \in 0..(mx - 1)
          PROVE  fb[y * mx + x] = IF t + y < Len(rows) THEN Cell(rows[t + 1 + y], x) ELSE Blank
      <4>1. fb[y * mx + x] = CellAt(rows, t + 1 + y, x)
        BY <2>1, <3>1 DEF TextDrawn, TextCells
      <4>2. t + 1 + y <= l <=> t + y < l
        BY <2>1
      <4> QED
        BY <3>1, <4>1, <4>2 DEF CellAt
    <3> QED
      BY <2>3, <3>1, <3>2, <3>3 DEF TextShown
  <2>7. mode # "text" => GfxShown
    <3> SUFFICES ASSUME mode # "text", NEW y \in 0..(my - 1), NEW x \in 0..(mx - 1)
                 PROVE  fb[y * mx + x] =
                          IF y < my - 1 THEN (IF y < Len(rows) THEN Cell(rows[y + 1], x) ELSE Blank)
                          ELSE IF Over(rows, x) = {} THEN Blank
                          ELSE Cell(rows[CHOOSE k \in Over(rows, x) : \A o \in Over(rows, x) : o <= k], x)
      BY DEF GfxShown, Over
    <3>1. CASE y < my - 1
      <4>1. fb[y * mx + x] = CellAt(rows, y + 1, x)
        BY <2>1, <3>1 DEF GfxDrawn, GfxCells
      <4>2. y + 1 <= Len(rows) <=> y < Len(rows)
        BY <2>1, <2>2
      <4> QED
        BY <3>1, <4>1, <4>2 DEF CellAt
    <3>2. CASE ~(y < my - 1)
      <4>1. y = my - 1
        BY <2>1, <3>2
      <4>2. LastCell(rows, x, fb[y * mx + x])
        BY <2>1, <4>1 DEF GfxDrawn, GfxCells
      <4>3. CASE Over(rows, x) = {}
        BY <3>2, <4>2, <4>3 DEF LastCell
      <4>4. CASE Over(rows, x) # {}
        <5>1. PICK k \in Over(rows, x) : /\ \A o \in Over(rows, x) : o <= k
                                         /\ fb[y * mx + x] = rows[k][x + 1]
          BY <4>2, <4>4 DEF LastCell
        <5>2. PICK z : z = CHOOSE k2 \in Over(rows, x) : \A o \in Over(rows, x) : o <= k2
          OBVIOUS
        <5>3. z \in Over(rows, x) /\ \A o \in Over(rows, x) : o <= z
          BY <5>1, <5>2
        <5>4. z = k
          <6>1. k <= z /\ z <= k /\ k \in Int /\ z \in Int
            BY <2>1, <5>1, <5>3 DEF Over
          <6> QED
            BY <6>1
        <5>5. Cell(rows[k], x) = rows[k][x + 1]
          <6>1. Len(rows[k]) > x /\ k \in 1..Len(rows)
            BY <2>1, <2>2 DEF Over
          <6>2. Len(rows[k]) \in Nat
            BY <2>3, <6>1 DEF IsRows
          <6>3. x < Len(rows[k])
            BY <2>1, <6>1, <6>2
          <6> QED
            BY <6>3 DEF Cell
        <5> QED
          BY <3>2, <4>4, <5>1, <5>2, <5>4, <5>5
      <4> QED
        BY <4>3, <4>4
    <3> QED
      BY <3>1, <3>2
  <2> QED
    BY <2>3, <2>4, <2>5, <2>6, <2>7 DEF Shown
<1> QED
  BY <1>1, ScreenInvariant, PTL
=============================================================================

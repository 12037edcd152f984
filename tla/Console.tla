------------------------------ MODULE Console -------------------------------
(***************************************************************************)
(* The screen the boot loader and the kernel print on (libboot/video) and  *)
(* the choice of its graphical mode (boot/bootloader/vbe.c).               *)
(*                                                                         *)
(* The frame buffer is a sequence of cells, row after row: in text mode    *)
(* one character each, in graphical mode the box of pixels of one.         *)
(***************************************************************************)
EXTENDS Integers, Sequences, FiniteSets

CONSTANTS
  FONT_W, FONT_H,     \* size of a character in pixels (8, 8)
  TEXT_W, TEXT_H,     \* size of the text screen (80, 25)
  Lists,     \* mode lists a BIOS may have: sequences of
             \* [ok, w, h, attr (a set of bits), memory_model, bpp]; a mode that
             \* is not ok is one the BIOS tells nothing of
  Monitors,  \* what an EDID may say: size, and bits 8 to 11 of the blanking: [w, h, hb, vb]
  Fallback,  \* what is assumed without one (800, 600)
  NL         \* the newline

Blank == " "
Junk  == "junk"      \* what was on the screen before

Size == [w : Nat, h : Nat, hb : 0..15, vb : 0..15]  \* of at most twelve bits each

Modes == [ok : BOOLEAN, w : Nat, h : Nat, attr : SUBSET (0..15), memory_model : Nat, bpp : Nat]

ASSUME ConsoleAssumption ==
  /\ Monitors \subseteq Size /\ Fallback \in Size /\ Fallback.hb = 0 /\ Fallback.vb = 0
  /\ FONT_W \in Nat \ {0} /\ FONT_H \in Nat \ {0}
  /\ TEXT_W \in Nat \ {0} /\ TEXT_H \in Nat \ {0}
  /\ Lists \subseteq Seq(Modes)
  /\ \A l \in Lists : \A n \in DOMAIN l : l[n].w >= FONT_W /\ l[n].h >= FONT_H

VARIABLES
  pc,        \* "screen", "edid", "modes", "print"
  i,         \* the loop of video_init
  list, n,   \* the mode list, the place of modes_ptr in it
  mon,       \* the monitor, as it is
  cur,       \* gVbeVideoMode: what the BIOS last told of a mode
  best,      \* mode, mode_width, mode_height; the mode is 0 while there is none
  mode,      \* video->mode
  cx, cy,    \* text_cursor_x, text_cursor_y
  mx, my,    \* text_max_x, text_max_y
  fb,        \* the frame buffer
  hist,      \* ghost: what was printed
  rows       \* ghost: what was printed, on a screen without a last row

vbevars == <<list, n, mon, cur, best>>
cvars == <<pc, i, vbevars, mode, cx, cy, mx, my, fb, hist, rows>>

----------------------------------------------------------------------------
\* mutant: the last row is left as it was
ScrolledKeep(f, w, h) ==
  [k \in 0..(w * h - 1) |-> IF k < w * (h - 1) THEN f[k + w] ELSE f[k]]

(* video_text_scroll *)
Scrolled(f, w, h) ==
  [k \in 0..(w * h - 1) |-> IF k < w * (h - 1) THEN f[k + w] ELSE Blank]

(* screen_init: text mode, scrolled until it is blank, one row per step *)
screen_init ==
  /\ pc = "screen"
  /\ fb' = Scrolled(fb, TEXT_W, TEXT_H)
  /\ i' = i + 1 /\ pc' = IF i' < TEXT_H THEN pc ELSE "edid"
  /\ mode' = "text" /\ cx' = 0 /\ cy' = 0 /\ mx' = TEXT_W /\ my' = TEXT_H
  /\ UNCHANGED <<vbevars, hist, rows>>

\* a | b, for four bits each
Or4(a, b) ==
  LET bit(k) == IF (a \div k) % 2 = 1 \/ (b \div k) % 2 = 1 THEN k ELSE 0
  IN  bit(1) + bit(2) + bit(4) + bit(8)

\* One byte of the EDID has bits 8 to 11 of the size above those of the blanking;
\* it is shifted by 4 as a whole, so that the latter land on bits 4 to 7.
Decoded(size, blank) ==
  ((size \div 256) * 256) + (Or4((size \div 16) % 16, blank) * 16) + (size % 16)

\* max_width, max_height
max == [w |-> Decoded(mon.w, mon.hb), h |-> Decoded(mon.h, mon.vb)]

(* vbe_monitor_info, or the default when the call fails *)
vbe_monitor_info ==
  /\ pc = "edid"
  /\ mon' \in Monitors \cup {Fallback}
  /\ pc' = "modes" /\ n' = 1 /\ best' = [m |-> 0, w |-> 0, h |-> 0]
  /\ UNCHANGED <<i, list, cur, mode, cx, cy, mx, my, fb, hist, rows>>

\* "attr & 0x90" holds when either bit is set
Usable(m) ==
  /\ m.attr \cap {4, 7} # {} /\ m.memory_model \in {4, 6}
  /\ m.w <= max.w /\ m.h <= max.h
  /\ m.bpp = 32

\* mutant: the first mode that fits stays
BetterFirst(m) == best.m = 0

\* the width is compared with both sizes of the mode kept so far
Better(m) == m.w >= best.w /\ m.w >= best.h

\* A call that fails leaves gVbeVideoMode as it was, and what it holds of an
\* earlier mode is taken for this one.
TryMode ==
  /\ pc = "modes" /\ n \in DOMAIN list
  /\ cur' = IF list[n].ok THEN list[n] ELSE cur
  /\ best' = IF Usable(cur') /\ Better(cur')
             THEN [m |-> n, w |-> cur'.w, h |-> cur'.h] ELSE best
  /\ n' = n + 1
  /\ UNCHANGED <<pc, i, list, mon, mode, cx, cy, mx, my, fb, hist, rows>>

(* the end of vbe_try_modes, with video_set_graphical_mode *)
SetMode ==
  /\ pc = "modes" /\ n \notin DOMAIN list
  /\ pc' = "print"
  /\ IF best.m = 0 THEN UNCHANGED <<cur, mode, cx, cy, mx, my, fb>>
     ELSE /\ cur' = IF list[best.m].ok THEN list[best.m] ELSE cur
          /\ mode' = "gfx" /\ cx' = 0 /\ cy' = 0
          /\ mx' = cur'.w \div FONT_W /\ my' = cur'.h \div FONT_H
          /\ fb' = [k \in 0..(mx' * my' - 1) |-> Blank]
  /\ UNCHANGED <<i, list, n, mon, best, hist, rows>>
----------------------------------------------------------------------------
(* video_putchar *)
Wrapped == cx = mx
X == IF Wrapped THEN 0 ELSE cx
Y == IF Wrapped THEN cy + 1 ELSE cy

AtBottom == Y = my

\* the row written, and the screen it is written on; in graphical mode
\* nothing is scrolled
Row  == IF AtBottom THEN Y - 1 ELSE Y

Page == IF AtBottom /\ mode = "text" THEN Scrolled(fb, mx, my) ELSE fb

\* ghost: the rows with one more character; a row that is full goes on in the
\* next one when a character, a newline too, follows
Flow(p, c) ==
  LET q == IF Len(p[Len(p)]) = mx THEN Append(p, <<>>) ELSE p IN
    IF c = NL THEN Append(q, <<>>) ELSE [q EXCEPT ![Len(q)] = Append(@, c)]

video_putchar(c) ==
  /\ pc = "print"
  /\ IF c = NL
     THEN cx' = 0 /\ cy' = Row + 1 /\ fb' = Page
     ELSE cx' = X + 1 /\ cy' = Row /\ fb' = [Page EXCEPT ![Row * mx + X] = c]
  /\ hist' = Append(hist, c) /\ rows' = Flow(rows, c)
  /\ UNCHANGED <<pc, i, vbevars, mode, mx, my>>

----------------------------------------------------------------------------
ConsoleInit ==
  /\ pc = "screen" /\ i = 0 /\ list \in Lists /\ n = 0 /\ mon = Fallback
  /\ cur = [ok |-> FALSE, w |-> 0, h |-> 0, attr |-> {}, memory_model |-> 0, bpp |-> 0]
  /\ best = [m |-> 0, w |-> 0, h |-> 0]
  /\ mode = "text" /\ cx = 0 /\ cy = 0 /\ mx = TEXT_W /\ my = TEXT_H
  /\ fb = [k \in 0..(TEXT_W * TEXT_H - 1) |-> Junk] /\ hist = <<>> /\ rows = << <<>> >>

VideoInit == screen_init \/ vbe_monitor_info \/ TryMode \/ SetMode
----------------------------------------------------------------------------
Cell(row, x) == IF x < Len(row) THEN row[x + 1] ELSE Blank

TextShown ==
  LET top == Len(rows) - 1 - cy IN
    /\ top >= 0 /\ (top > 0 => cy >= my - 1) /\ cx = Len(rows[Len(rows)])
    /\ \A y \in 0..(my - 1), x \in 0..(mx - 1) :
         fb[y * mx + x] = IF top + y < Len(rows) THEN Cell(rows[top + 1 + y], x) ELSE Blank

GfxShown ==
  LET over(x) == {k \in my..Len(rows) : Len(rows[k]) > x} IN
    \A y \in 0..(my - 1), x \in 0..(mx - 1) :
      fb[y * mx + x] =
        IF y < my - 1 THEN (IF y < Len(rows) THEN Cell(rows[y + 1], x) ELSE Blank)
        ELSE IF over(x) = {} THEN Blank
        ELSE Cell(rows[CHOOSE k \in over(x) : \A o \in over(x) : o <= k], x)

\* A text screen shows the last rows of all that was printed, blank where
\* nothing was, and the cursor is after the last character; a graphical one
\* keeps its first rows, and draws those that do not fit one over the other
\* in the last one.  The cursor rests at most one past the last column or row,
\* and no cell outside the screen is written
\* (video.c:43-71, text.c:12-27, gfx.c:25).  Of a mode the BIOS told nothing of
\* nothing is said: its screen is taken to be that of another one.
Shown ==
  pc = "print" /\ (best.m = 0 \/ list[best.m].ok) =>
    /\ IF mode = "text" THEN TextShown ELSE GfxShown
    /\ cx \in 0..mx /\ cy \in 0..my /\ ~(cx > 0 /\ cy = my)
    /\ DOMAIN fb = 0..(mx * my - 1)

\* A mode is set if and only if one fits.  It is one that fits, or a mode the
\* BIOS told nothing of after one that fits; if every mode that fits is at least
\* as wide as it is high, none is wider than the data it was chosen by.  A mode
\* the BIOS told of gives a screen that fits what was read of the EDID, which
\* is the monitor itself if the blanking is less than 256 (vbe.c:33-34,58-75).
ModeWidest ==
  pc = "print" =>
    LET fits == {k \in DOMAIN list : list[k].ok /\ Usable(list[k])} IN
      /\ best.m = 0 <=> fits = {}
      /\ best.m # 0 =>
           /\ \E k \in fits : /\ k <= best.m /\ best.w = list[k].w /\ best.h = list[k].h
                              /\ \A j \in (k + 1)..best.m : ~list[j].ok
           /\ (\A k \in fits : list[k].w >= list[k].h) => \A k \in fits : list[k].w <= best.w
           /\ list[best.m].ok =>
                /\ mx * FONT_W <= max.w /\ my * FONT_H <= max.h
                /\ mon.hb = 0 => mx * FONT_W <= mon.w
                /\ mon.vb = 0 => my * FONT_H <= mon.h
=============================================================================

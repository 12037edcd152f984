------------------------------- MODULE Printf -------------------------------
(***************************************************************************)
(* boot_printf (libboot/print.c) on the Console.  A format is a sequence   *)
(* of characters, an argument a number, a character or a string; the       *)
(* widths of the C types are scaled.  The buffer is filled without a word  *)
(* to the screen, so a call is one step, and printing it one per character.*)
(***************************************************************************)
EXTENDS Console, SequencesExt

CONSTANTS
  CharBits, ShortBits, IntBits, LongBits,   \* 8, 16, 32 and 64 in the code
  DecDigits,   \* digits of the largest number (20)
  Texts,       \* what callers print: sequences of pieces, see Format
  Firsts,      \* and what they print on an empty screen
  MaxOut       \* bound on the characters printed

VARIABLES
  out,         \* the buffer: what is still to be printed of it
  said         \* ghost: the text of all calls

vars == <<cvars, out, said>>

hex_chars == <<"0", "1", "2", "3", "4", "5", "6", "7", "8", "9", "a", "b", "c", "d", "e", "f">>
----------------------------------------------------------------------------
\* mutant: a zero is left out wherever it is
KeptNonzero(ds) == SelectSeq(ds, LAMBDA v : v # 0)

(* "if (v || cursor)": the digits from the first that is not zero *)
Kept(ds) == SubSeq(ds, Min({k \in DOMAIN ds : ds[k] # 0} \cup {Len(ds) + 1}), Len(ds))

Shaped(num, base, digits) ==
  LET ds == Kept([k \in 1..digits |-> (num \div base^(digits - k)) % base])
  IN IF ds = <<>> THEN <<"0">> ELSE [k \in DOMAIN ds |-> hex_chars[ds[k] + 1]]

fmt_udec(num) == Shaped(num, 10, DecDigits)
fmt_hex(num)  == Shaped(num, 16, LongBits \div 4)

(* integer_arg; size_t and the long types are as wide as long *)
integer_arg(arg, type) ==
  arg % 2^(CASE type = "char"  -> CharBits
             [] type = "short" -> ShortBits
             [] type = "int"   -> IntBits
             [] OTHER          -> LongBits)

(* The loops of boot_printf, one character of the format at a time: text,  *)
(* or, after a percent, modifiers and anything else up to a conversion     *)
Converted(s, c) ==
  LET arg == Head(s.args)
      substr == CASE c = "%" -> <<"%">>
                  [] c = "s" -> arg
                  [] c = "c" -> <<arg>>
                  [] c = "x" -> fmt_hex(integer_arg(arg, s.type))
                  [] c = "u" -> fmt_udec(integer_arg(arg, s.type))
  IN [s EXCEPT !.out = @ \o substr, !.conv = FALSE,
               !.args = IF c = "%" THEN @ ELSE Tail(@)]

Scan(s, c) ==
  IF ~s.conv
  THEN IF c = "%" THEN [s EXCEPT !.conv = TRUE, !.type = "int"]
       ELSE [s EXCEPT !.out = Append(@, c)]
  ELSE CASE c = "h" -> [s EXCEPT !.type = IF @ = "char" THEN "short" ELSE "char"]
         [] c = "l" -> [s EXCEPT !.type = IF @ = "long" THEN "long long" ELSE "long"]
         [] c \in {"q", "j"} -> [s EXCEPT !.type = "long long"]
         [] c \in {"z", "Z"} -> [s EXCEPT !.type = "size_t"]
         [] c \in {"%", "s", "c", "x", "u"} -> Converted(s, c)
         [] OTHER -> s

Buffer(fmt, args) ==
  FoldLeft(Scan, [conv |-> FALSE, type |-> "int", args |-> args, out |-> <<>>], fmt).out
----------------------------------------------------------------------------
(* A piece of a text is characters, or modifiers, a conversion and its     *)
(* argument; the caller spells it out as a format and a list of arguments  *)
Lit(cs) == [mods |-> cs, conv |-> "none", arg |-> 0]
Conv(mods, conv, arg) == [mods |-> mods, conv |-> conv, arg |-> arg]

Format(text) ==
  FlattenSeq([k \in DOMAIN text |->
    IF text[k].conv = "none" THEN text[k].mods ELSE <<"%">> \o text[k].mods \o <<text[k].conv>>])

Args(text) ==
  LET takes == SelectSeq(text, LAMBDA q : q.conv \notin {"none", "%"})
  IN [k \in DOMAIN takes |-> takes[k].arg]

\* What a piece says: a number in its base, as wide as its modifiers.
Numeral(num, base) ==
  LET d[x \in 0..num] == IF x < base THEN <<hex_chars[x + 1]>>
                         ELSE Append(d[x \div base], hex_chars[(x % base) + 1])
  IN d[num]

Wide(mods, arg) == arg % 2^(IF mods = <<>> THEN IntBits ELSE IF "h" \in Range(mods) THEN CharBits ELSE LongBits)

Says(q) ==
  CASE q.conv = "none" -> q.mods
    [] q.conv = "%" -> <<"%">>
    [] q.conv = "s" -> q.arg
    [] q.conv = "c" -> <<q.arg>>
    [] q.conv = "x" -> Numeral(Wide(q.mods, q.arg), 16)
    [] q.conv = "u" -> Numeral(Wide(q.mods, q.arg), 10)

Said(text) == FlattenSeq([k \in DOMAIN text |-> Says(text[k])])
----------------------------------------------------------------------------
boot_printf(text) ==
  /\ pc = "print" /\ out = <<>> /\ Len(hist) < MaxOut
  /\ out' = Buffer(Format(text), Args(text))
  /\ said' = said \o Said(text)
  /\ UNCHANGED cvars

(* print, and putchar without the port *)
print ==
  /\ out # <<>> /\ video_putchar(Head(out))
  /\ out' = Tail(out) /\ UNCHANGED said

Silent == pc = "print" /\ out = <<>> /\ Len(hist) >= MaxOut /\ UNCHANGED vars

Init == ConsoleInit /\ out = <<>> /\ said = <<>>

Next ==
  \/ VideoInit /\ UNCHANGED <<out, said>>
  \/ \E text \in Texts : boot_printf(text)
  \/ \E text \in Firsts : hist = <<>> /\ boot_printf(text)
  \/ print
  \/ Silent

Spec == Init /\ [][Next]_vars
----------------------------------------------------------------------------
\* What is printed is what the calls say, each argument read once, in its
\* width, and written without a zero before it (print.c:52-204).
Printed == hist \o out = said
=============================================================================

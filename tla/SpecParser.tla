----------------------------- MODULE SpecParser -----------------------------
(***************************************************************************)
(* The reader of the lists of files that mkinitram and mkvolume are given  *)
(* (tools/spec_parser.c): one line per file, "type,dst,src", with comments *)
(* and empty lines between.                                                *)
(*                                                                         *)
(* A text is a sequence of character codes.  A position past Len(t) + 1    *)
(* stands for a stream on which a read has met the end (feof).             *)
(***************************************************************************)
EXTENDS Integers, Sequences, SequencesExt

NL    == 10
CR    == 13
HASH  == 35
COMMA == 44
SLASH == 47
EOF   == -1

fgetc(t, p) == IF p <= Len(t) THEN t[p] ELSE EOF
feof(t, p)  == p > Len(t) + 1

\* the first position from p on whose character is, or is not, one of C
Upto(t, p, C) ==
  CHOOSE q \in p..(p + Len(t) + 1) :
    fgetc(t, q) \in C /\ \A r \in p..(q - 1) : fgetc(t, r) \notin C
Past(t, p, C) ==
  CHOOSE q \in p..(p + Len(t) + 1) :
    fgetc(t, q) \notin C /\ \A r \in p..(q - 1) : fgetc(t, r) \in C

parse_spec_str(t, p) ==
  LET q == Upto(t, p, {NL, CR, COMMA, EOF}) IN [str |-> SubSeq(t, p, q - 1), next |-> q + 1]

\* the type of the line is at p; the comma after it is skipped unread
parse_spec_line(t, p) ==
  LET dst == parse_spec_str(t, p + 2)
      src == parse_spec_str(t, dst.next)
  IN [end |-> FALSE, dst |-> dst.str, src |-> src.str, next |-> src.next]

AtEnd(p) == [end |-> TRUE, dst |-> <<>>, src |-> <<>>, next |-> p]

\* The end is noticed only after a read has met it: on a text that ends with
\* a newline the last call gives a line with empty names.
parse_spec(t, p) ==
  LET from[q \in 1..(p + Len(t) + 2)] ==
        LET b == Past(t, q, {NL, CR}) IN
        CASE feof(t, q)         -> AtEnd(q)
          [] ~feof(t, q) /\ fgetc(t, b) = HASH -> from[Upto(t, b, {NL, EOF}) + 1]
          [] OTHER              -> parse_spec_line(t, b)
  IN from[p]
=============================================================================

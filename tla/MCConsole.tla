----------------------------- MODULE MCConsole ------------------------------
(***************************************************************************)
(* A text screen of 2 by 2 and graphical ones of 2 by 3 and 3 by 2         *)
(* characters of 2 by 2 pixels: seven characters wrap, scroll and overdraw *)
(* in every order.  Types of 4, 8, 12 and 16 bits; every conversion and    *)
(* modifier comes first, with the least and the largest numbers of each    *)
(* width and zeros inside them.                                            *)
(***************************************************************************)
EXTENDS Printf

Mode(w, h) == [ok |-> TRUE, w |-> w, h |-> h, attr |-> {4, 7}, memory_model |-> 6, bpp |-> 32]

\* a mode the BIOS tells nothing of
Silence == [Mode(4, 4) EXCEPT !.ok = FALSE]

ModeLists == {
  <<>>,
  <<[Mode(4, 4) EXCEPT !.bpp = 16], [Mode(4, 4) EXCEPT !.memory_model = 3], [Mode(4, 4) EXCEPT !.attr = {0}]>>,
  <<Mode(4, 6), Mode(5, 2)>>,                   \* higher than wide
  <<Mode(4, 2), Mode(6, 5), Mode(6, 4), Mode(8, 4), Mode(5, 5)>>,
  <<Mode(9, 9), Mode(4, 9)>>,
  <<Silence, Mode(4, 4), Mode(9, 4)>>,          \* told of nothing yet, and too wide
  <<Mode(4, 4), Silence, Mode(4, 6), Silence>>} \* taken for the one before it

\* the second has a blanking that makes 7 read as 23
Sizes == {[w |-> 4, h |-> 6, hb |-> 0, vb |-> 0], [w |-> 7, h |-> 5, hb |-> 1, vb |-> 0]}
Assumed == [w |-> 6, h |-> 6, hb |-> 0, vb |-> 0]

Characters == {<<Lit(<<"1">>)>>, <<Lit(<<"2">>)>>, <<Lit(<<NL>>)>>}

Numbers == {0, 9, 10, 255, 2^12 - 1, 2^12 + 160, 50005, 2^16 - 1}

Conversions ==
  {<<Conv(mods, conv, x)>> : mods \in {<<>>, <<"l">>, <<"l", "l">>, <<"q">>, <<"z">>, <<"Z">>, <<"j">>},
                             conv \in {"x", "u"}, x \in Numbers}
  \cup {<<Conv(mods, conv, x)>> : mods \in {<<"h">>, <<"h", "h">>}, conv \in {"x", "u"}, x \in {0, 9, 15}}
  \cup {<<Lit(<<"1">>), Conv(<<>>, "%", 0), Conv(<<>>, "c", "2"), Conv(<<"l">>, "u", 107)>>,
        <<Conv(<<>>, "s", <<"1", NL>>), Conv(<<>>, "s", <<>>), Conv(<<>>, "x", 2^12 + 16), Lit(<<"2">>)>>}
=============================================================================

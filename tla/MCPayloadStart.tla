--------------------------- MODULE MCPayloadStart ---------------------------
(***************************************************************************)
(* PayloadStart with process names on either side of the target test, and  *)
(* memories with the pattern at the edges of what is scanned.              *)
(***************************************************************************)
EXTENDS PayloadStart

CONSTANTS c1, c2, late, w1, w2, w3

TwoCallers == {c1, c2}
ThreeWorkers == {w1, w2, w3}

GamePackage == <<"p", "k">>
NamesAround ==
  {NoName, <<>>, <<"p">>, <<"p", "k">>, <<"p", "k", ":", "s">>, <<"p", "k", "x">>,
   <<"x", "p", "k">>, <<"p", "x", ":">>}

Text(bytes) == [load |-> TRUE, exec |-> TRUE, bytes |-> bytes]
Data(bytes) == [load |-> TRUE, exec |-> FALSE, bytes |-> bytes]
Note(bytes) == [load |-> FALSE, exec |-> TRUE, bytes |-> bytes]
Il2CppWith(segments) == [named |-> TRUE, segments |-> segments]
OtherWith(segments) == [named |-> FALSE, segments |-> segments]
Ask(modules, mask) ==
  [modules |-> modules, pattern |-> <<1, 2>>, mask |-> mask, null |-> FALSE]
Both == <<TRUE, TRUE>>
OneOpen == <<FALSE, TRUE>>

ShortTexts == UNION {[1..n -> {1, 2}] : n \in 0..3}

Memories == {
  \* no module of the name, one without segments, a null argument
  Ask(<<OtherWith(<<Text(<<1, 2>>)>>)>>, Both),
  Ask(<<Il2CppWith(<<>>)>>, Both),
  [modules |-> <<>>, pattern |-> <<>>, mask |-> <<>>, null |-> TRUE],
  \* in a later segment, in a later module, in two segments
  Ask(<<Il2CppWith(<<Text(<<1>>), Text(<<1, 2>>)>>)>>, Both),
  Ask(<<Il2CppWith(<<Data(<<1, 2>>), Note(<<1, 2>>)>>), Il2CppWith(<<Text(<<1, 2>>)>>)>>, Both),
  Ask(<<Il2CppWith(<<Text(<<2, 1, 2>>), Text(<<1, 2>>)>>)>>, Both)}
  \* one segment: too short, just long enough, at the last offset, not at all
  \cup {Ask(<<Il2CppWith(<<Text(t)>>)>>, mask) : t \in ShortTexts, mask \in {Both, OneOpen}}
=============================================================================

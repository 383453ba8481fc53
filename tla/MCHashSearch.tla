---------------------------- MODULE MCHashSearch ----------------------------
(***************************************************************************)
(* HashSearch on all short files over two bytes, one of them negative as a *)
(* signed char, and on files long enough for the window to slide (more     *)
(* than ReadMin bytes) and for blocks of four bytes, of which different    *)
(* ones have the same weak checksum: <<1, 3, 3, 1>> and <<3, 1, 1, 3>>.    *)
(***************************************************************************)
EXTENDS HashSearch

MCShort == UNION {[1 .. n -> {1, 3}] : n \in 1 .. 4}

MCSame == <<1, 3, 3, 1>>
MCAlike == <<3, 1, 1, 3>>
MCLong == {
  MCSame \o MCAlike \o MCSame \o MCSame \o <<0>>,
  MCAlike \o MCAlike \o MCSame \o MCSame,
  <<0, 2>> \o MCSame \o <<2>> \o MCAlike \o <<0, 2, 2, 2, 2, 0>>,
  [i \in 1 .. 19 |-> i % 4]}

MCSources == MCShort \cup MCLong
MCBases == {<<1>>, <<1, 3>>, <<3, 3, 1>>, <<1, 3, 1, 3>>, <<3, 1, 3, 3, 1>>} \cup MCLong
=============================================================================

---------------------------- MODULE MCVersionMatch ----------------------------
(***************************************************************************)
(* TLC instance of VersionMatch: complete versions around 1.1.x, shorter   *)
(* ones, pre-releases with and without a number, and one that is too long. *)
(***************************************************************************)
EXTENDS VersionMatch

Releases == [1 .. 3 -> 0 .. 1]

PreReleases ==
    {Append(v, kind) : v \in {<<1, 0, 0>>, <<1, 1, 1>>}, kind \in -3 .. -1}

Numbered == {Append(v, n) : v \in {<<1, 1, 1, -2>>, <<1, 1, 1, -1>>}, n \in 0 .. 2}

Short == {<<>>, <<0>>, <<1>>, <<1, 0>>, <<1, 1>>, <<1, -1>>}

TooLong == {<<1, 1, 1, -1, 0, 0>>}

MCVersion == Releases \cup PreReleases \cup Numbered \cup Short \cup TooLong
=============================================================================

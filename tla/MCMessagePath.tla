--------------------------- MODULE MCMessagePath ----------------------------
(* Values for model checking MessagePath: empty messages, ends at and       *)
(* around word and block boundaries, a full RAM and one byte more.          *)
EXTENDS MessagePath

MCLengths == {0, 1, 4, 5, 6, 9, 10, 15, 16, 17}
=============================================================================

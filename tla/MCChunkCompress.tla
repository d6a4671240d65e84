-------------------------- MODULE MCChunkCompress --------------------------
(* Chunks of up to two collections for ChunkCompress: well formed ones of   *)
(* every mix of lengths, and malformed ones.                                *)
EXTENDS ChunkCompress

\* A chunk of the given size whose headers announce the lengths of ls.
Laid(size, ls, type, check) ==
  [size |-> size, n |-> Len(ls), len |-> ls, type |-> type, check |-> check,
   off |-> [i \in 1 .. Len(ls) + 1 |->
              IF i = 1 THEN 0
              ELSE IF i = 2 THEN COLLECTION_HDR_SIZE + ls[1]
              ELSE 2 * COLLECTION_HDR_SIZE + ls[1] + ls[2]]]

Same(n, x) == [i \in 1 .. n |-> x]
Total(ls) == Laid(0, ls, ls, ls).off[Len(ls) + 1]
Fine(ls) == Laid(Total(ls), ls, Same(Len(ls), "t"), Same(Len(ls), NO_ERROR))

Lengths == {0, 4, 6}
Pairs == {<<a, b>> : a \in Lengths, b \in Lengths}
WellFormed == {Fine(<<a>>) : a \in Lengths} \cup {Fine(p) : p \in Pairs}

Two == Same(2, "t")
Ok == Same(2, NO_ERROR)
Malformed == {
  Laid(11, <<>>, <<>>, <<>>),                          \* no header
  Laid(27, <<4>>, <<"t">>, <<NO_ERROR>>),              \* bytes left over
  Laid(31, <<4, 6>>, Two, Ok),                         \* last one cut off
  Laid(34, <<4, 6>>, <<"t", "u">>, Ok),                \* mixed types
  Laid(34, <<4, 6>>, <<"unknown", "unknown">>, Ok),
  Laid(34, <<4, 6>>, Two, <<NO_ERROR, COL_SIZE_INCONSISTENT>>),
  Laid(34, <<4, 6>>, Two, <<PAR_SPECIFIC, PAR_SPECIFIC>>),
  Fine(<<68, 56>>),                                    \* too large
  Fine(<<44, 4>>), Fine(<<46, 4>>), Fine(<<50, 4>>)}   \* near the largest size

AllChunks == WellFormed \cup Malformed
ModelChunks == {Fine(<<a, b>>) : a \in {4, 6}, b \in {0, 6}}
=============================================================================

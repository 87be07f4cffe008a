--------------------------- MODULE MCIndexLayout ---------------------------
(***************************************************************************)
(* Instances of IndexLayout for TLC.  The numbers are the code's own: the  *)
(* sections are small multiples of the smallest chunk, so that row counts  *)
(* and text lengths lie on both sides of every chunk boundary.             *)
(***************************************************************************)
EXTENDS IndexLayout

Option(chunk, metadata, index, memory, verify) ==
    [chunk |-> chunk, maxMetadata |-> metadata, maxIndex |-> index,
     buildMemory |-> memory, verify |-> verify]

\* Two chunk sizes with room for everything, metadata limits around the size of
\* a small table, a small file limit, and options that are refused.
MCOptions ==
    {Option(64, 4096, 100000, 256, TRUE), Option(64, 4096, 100000, 256, FALSE),
     Option(64, HeaderBytes + 16, 100000, 256, TRUE),
     Option(64, HeaderBytes + 23, 100000, 256, FALSE),
     Option(128, 4096, 100000, 256, FALSE), Option(128, 4096, 300, 256, FALSE),
     Option(96, 4096, 100000, 256, FALSE), Option(64, 4096, 100000, 255, FALSE)}

MCFieldDeltas == {-8, -1, 1, 8}

=============================================================================

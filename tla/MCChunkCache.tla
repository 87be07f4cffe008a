---------------------------- MODULE MCChunkCache ----------------------------
(***************************************************************************)
(* Instances of ChunkCache for TLC.                                        *)
(***************************************************************************)
EXTENDS ChunkCache

\* Two sections, one with a short last chunk, and an empty one between them.
MCSectionLens == <<5, 0, 4>>

\* Nothing, one byte, one checksum, or one of each.
MCDamages ==
    {Undamaged,
     [bytes |-> {<<1, 1>>}, slots |-> {}],
     [bytes |-> {<<1, 4>>}, slots |-> {}],
     [bytes |-> {}, slots |-> {2}],
     [bytes |-> {<<3, 2>>}, slots |-> {0}]}

=============================================================================

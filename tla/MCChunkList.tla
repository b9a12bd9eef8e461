----------------------------- MODULE MCChunkList -----------------------------
(* An instance of ChunkList for TLC. *)
EXTENDS ChunkList

\* Files of three blocks on a file system of four.
Blocks    == 3
Places    == 4
MCOffsets == 0 .. Blocks - 1

Extents ==
    {c \in [start : MCOffsets, length : 1 .. Blocks, physical : 0 .. Places - 1] :
        End(c) <= Blocks /\ c.physical + c.length <= Places}

Apart(c, e) == \/ c.physical + c.length <= e.physical
               \/ e.physical + e.length <= c.physical

\* Every list of extents of a file, by the offset after which it starts.
MCMappings ==
    LET from[b \in 0 .. Blocks] ==
            {<< >>} \cup UNION {{<<c>> \o l : l \in {m \in from[End(c)] :
                                                \A k \in DOMAIN m : Apart(c, m[k])}} :
                                c \in {e \in Extents : e.start >= b}}
    IN  from[0]

MCBaselines == {{l[k] : k \in DOMAIN l} : l \in MCMappings}
=============================================================================

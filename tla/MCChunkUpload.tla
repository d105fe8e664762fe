--------------------------- MODULE MCChunkUpload ---------------------------
(* ChunkUpload for TLC: a session of two parts, the first of which is sent  *)
(* twice, and a session of one part; each is merged.                        *)
EXTENDS ChunkUpload, TLC

CONSTANTS s1, s2, c1, c2, c3, c4, m1, m2

MCTotal == s1 :> 2 @@ s2 :> 1
MCSessionOf == [r \in Chunks \cup Merges |-> IF r \in {c4, m2} THEN s2 ELSE s1]
MCIndexOf == [c \in Chunks |-> IF c = c2 THEN 2 ELSE 1]
=============================================================================

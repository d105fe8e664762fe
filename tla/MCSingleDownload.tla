-------------------------- MODULE MCSingleDownload --------------------------
(* SingleDownload for TLC: two requests of one video, one with forceSave, and *)
(* a request of another video with the same title.                            *)
EXTENDS SingleDownload, TLC

CONSTANTS r1, r2, r3, v1, v2

MCWants == [r \in Requests |-> IF r = r3 THEN v2 ELSE v1]
=============================================================================

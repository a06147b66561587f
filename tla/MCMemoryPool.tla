---------------------------- MODULE MCMemoryPool ----------------------------
(***************************************************************************)
(* Two pools: two superblocks that hold two small blocks or one large one, *)
(* and one superblock that holds four small blocks or two large ones; the  *)
(* callers of the second one try again.                                    *)
(***************************************************************************)
EXTENDS MemoryPool

MCShapes == {[sbs |-> 2, sb |-> 1, min |-> 0, max |-> 1, limit |-> 1],
             [sbs |-> 1, sb |-> 2, min |-> 0, max |-> 1, limit |-> 2]}
=============================================================================

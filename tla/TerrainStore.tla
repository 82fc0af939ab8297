---------------------------- MODULE TerrainStore ----------------------------
(***************************************************************************)
(* What TerrainTiles promises as long as nothing is lost: the user edits   *)
(* one world, shown, and save brings all of it to the disk.  Which of its  *)
(* tiles are loaded makes no difference, so the pager is not seen here.    *)
(***************************************************************************)
CONSTANT Tiles

VARIABLES
  shown,   \* contents of the tiles, as they are or will be loaded
  saved,   \* contents of the tiles on the disk
  dirty,   \* the tiles that save writes
  user     \* how much the user has painted and how many commands are done

vars == <<shown, saved, dirty, user>>

Init == shown = saved /\ dirty = {}

(* What the user does may change any tiles; these are dirty then. *)
Edit ==
  /\ user' # user
  /\ \E S \in SUBSET Tiles :
       dirty' = dirty \cup S /\ \A t \in Tiles \ S : shown'[t] = shown[t]
  /\ saved' = saved

(* Everything that is shown is on the disk then, also what is not written. *)
Save == saved' = shown /\ dirty' = {} /\ shown' = shown

(* A stroke ends, or commands are undone that change nothing. *)
Rest == UNCHANGED <<shown, saved, dirty>>

Next == Edit \/ Save \/ Rest

Spec == Init /\ [][Next]_vars
==============================================================================

--------------------------- MODULE MCTerrainTiles ---------------------------
(* Values of the constants of TerrainTiles for TLC. *)
EXTENDS TerrainTiles

(* The tiles are new, or all of them are on the disk with a "~" file.      *)
MCTile(height) == [t \in Tiles |-> {[Flat EXCEPT ![Height] = height]}]
MCOldDisks ==
  {[slots |-> {}, file |-> NoTile, tmpfile |-> NoTile],
   [slots |-> Tiles, file |-> MCTile(5), tmpfile |-> MCTile(7)]}

=============================================================================

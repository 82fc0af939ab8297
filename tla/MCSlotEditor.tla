---------------------------- MODULE MCSlotEditor ----------------------------
EXTENDS SlotEditor

(* No scene file; slots with a gap; what is left when every slot was removed. *)
MCOldScenes == {{}, {<< <<0, 0>>, <<2, 1>> >>}, {<<>>}}
==============================================================================

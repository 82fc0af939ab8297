--------------------------- MODULE MCEditorCamera ---------------------------
EXTENDS EditorCamera

(* In every direction, from the middle of the widget out of it. *)
MCMotions == {<<2, -2>>, <<-2, 2>>}
MCWindow == <<2, 2>>
MCStart == <<1, 1>>
==============================================================================

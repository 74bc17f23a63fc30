--------------------------- MODULE MCNoteSession ----------------------------
(* One note, its two threads, and perhaps one other process.               *)
EXTENDS NoteSession

Alone == {"thread", "ui"}
WithPeer == {"thread", "ui", "peer"}
=============================================================================

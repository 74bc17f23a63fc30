----------------------------- MODULE NoteDrafts -----------------------------
(***************************************************************************)
(* What a home of notes promises about one note's file, whoever writes it  *)
(* and wherever a crash stops them (spikes/composite/src/notes_store.rs,   *)
(* its header and Recovered).  A text that somebody set out to save is a   *)
(* draft from before the file changes until it is the file; it goes only   *)
(* when it is, or when it has been offered to somebody who let it go.  And *)
(* the file only ever changes from the version a draft was written over.   *)
(***************************************************************************)
CONSTANTS
  Versions,   (* the versions a note's file can be                         *)
  Ops         (* the names of saves                                        *)

VARIABLES head, drafts, offered

Drafts == [op : Ops, prev : Versions, prop : Versions]

Init ==
  /\ head \in Versions
  /\ drafts = {} /\ offered = {}

SetOut ==
  \E d \in Drafts :
    /\ d.prev = head /\ \A e \in drafts : e.op # d.op
    /\ drafts' = drafts \cup {d}
    /\ UNCHANGED <<head, offered>>

Publish ==
  \E d \in drafts :
    /\ d.prev = head
    /\ head' = d.prop
    /\ UNCHANGED <<drafts, offered>>

(* Those that are the file by now are done; the others may be offered.     *)
Settle ==
  \E done \in SUBSET {d \in drafts : d.prop = head} :
    /\ drafts' = drafts \ done
    /\ offered' \in SUBSET (offered \cup {d.op : d \in drafts'})
    /\ offered \subseteq offered'
    /\ UNCHANGED head

LetGo ==
  \E d \in drafts :
    /\ d.op \in offered
    /\ drafts' = drafts \ {d}
    /\ UNCHANGED <<head, offered>>

Next == Settle \/ Publish \/ LetGo \/ SetOut

Spec == Init /\ [][Next]_<<head, drafts, offered>>
=============================================================================

---------------------------- MODULE NoteSession -----------------------------
(***************************************************************************)
(* One open note (spikes/composite/src/notes_session.rs): its text, the    *)
(* saving of it, and what a crash brings back.  The session lives on the   *)
(* UI thread; snapshots go to the writer thread through a channel, which   *)
(* commits them through the store (NoteStore) and answers through another. *)
(* Cmd+S and quitting commit on the UI thread itself.  Other processes     *)
(* (peers) commit to the same file, and a plain editor edits it.           *)
(*                                                                         *)
(* Views are a count: carets, scroll, undo depth and the merging of two    *)
(* views' edits do not bear on saving.  Any edit, undo, redo or retitling  *)
(* is a change to another text.                                            *)
(***************************************************************************)
EXTENDS NoteStore, Sequences

CONSTANTS
  MaxGen,     (* bound: changes in one session                             *)
  MaxViews,   (* bound: views of the note                                  *)
  MaxQueue,   (* bound: snapshots sent and not yet settled                 *)
  MaxCrash    (* bound: crashes of this process                            *)

ASSUME SessionAssumption ==
  /\ {"thread", "ui"} \subseteq Who
  /\ MaxGen \in Nat \ {0}
  /\ {MaxViews, MaxQueue, MaxCrash} \subseteq Nat

VARIABLES
  session,    (* the note's session                                        *)
  queue,      (* snapshots sent to the writer thread, the first one in hand*)
  dones,      (* its answers                                               *)
  looked,     (* this run has looked for what a crash left in the home     *)
  found,      (* what it found and no session has taken (Service.drafts)   *)
  toast,      (* "Note Not Saved", with its Save Copy, is up               *)
  crashes,
  seen,       (* history: versions of the note nus has shown or saved      *)
  crossed     (* history: text was let go while a save of it was out       *)

sessionVars == <<session, queue, dones, looked, found, toast>>
historyVars == <<crashes, seen, crossed>>
vars == <<storeVars, sessionVars, historyVars>>

Ours  == {"thread", "ui"}
Peers == Who \ Ours

NoConflict == [text |-> 0, stamp |-> MaxClock + 3]
NoOp == 0

Closed == [open |-> FALSE, text |-> 0, gen |-> 0, saved |-> 0, base |-> Emptied,
           inflight |-> FALSE, failed |-> FALSE, conflict |-> NoConflict,
           views |-> 0, mark |-> FALSE, op |-> NoOp]

Sessions ==
  [open : BOOLEAN, text : Texts, gen : 0 .. MaxGen, saved : 0 .. MaxGen, base : Versions,
   inflight : BOOLEAN, failed : BOOLEAN, conflict : Bytes \cup {NoConflict},
   views : 0 .. MaxViews, mark : BOOLEAN, op : 0 .. MaxClock]

Jobs == [gen : 0 .. MaxGen, text : Texts, base : Versions]
Done == [gen : 0 .. MaxGen, step : Outcomes, prev : Versions, prop : Bytes]

TypeOK ==
  /\ StoreTypeOK
  /\ session \in Sessions
  /\ queue \in Seq(Jobs) /\ dones \in Seq(Done)
  /\ looked \in BOOLEAN /\ toast \in BOOLEAN
  /\ found \subseteq [intent : Intents, theirs : Bytes, kind : {"draft", "diverged"}]
  /\ crashes \in 0 .. MaxCrash /\ seen \subseteq Versions
  /\ crossed \in BOOLEAN

Dirty(s) == s.gen > s.saved
Saved(s) == ~Dirty(s) /\ ~s.inflight /\ ~s.failed /\ s.conflict = NoConflict
Idle(s)  == s.views = 0 /\ Saved(s) /\ ~s.mark

(* The UI thread does one thing at a time, a commit of its own included.   *)
UiFree == commit["ui"].step = "none"

Init ==
  /\ StoreInit
  /\ session = Closed /\ queue = <<>> /\ dones = <<>>
  /\ looked = FALSE /\ found = {} /\ toast = FALSE
  /\ crashes = 0 /\ seen = {} /\ crossed = FALSE
-----------------------------------------------------------------------------
(* open_session                                                            *)

(* The first note of the home to be opened, this one or another, has the   *)
(* whole home looked at for what a crash left, once, even if that fails.   *)
Look ==
  /\ UiFree /\ ~looked
  /\ looked' = TRUE
  /\ \/ Recover /\ found' = {Recovered(i) : i \in intents'}
     \/ RecoverFails /\ found' = {}
  /\ UNCHANGED <<session, queue, dones, toast, historyVars>>

Fresh == [Closed EXCEPT !.open = TRUE, !.text = head.text, !.base = head]

WithDraft(d) ==
  [Fresh EXCEPT !.text = d.intent.prop.text, !.op = d.intent.op,
                !.gen = IF d.intent.prop.text = head.text THEN 0 ELSE 1,
                !.conflict = IF d.kind = "diverged" THEN d.theirs ELSE NoConflict]

(* What a session starts from: the one open already; else the file, with a *)
(* draft a crash left over it, which shows what its writer had seen.  A    *)
(* file of no bytes has lost its id, and its drafts with it.               *)
Openings ==
  IF session.open THEN {[now |-> session, left |-> found, shows |-> {}]}
  ELSE IF ~looked \/ head = Absent THEN {}
  ELSE IF found = {} \/ (head = Emptied /\ ~Legacy)
       THEN {[now |-> Fresh, left |-> found, shows |-> {head}]}
       ELSE {[now |-> WithDraft(d), left |-> found \ {d}, 
               shows |-> {d.intent.prev, d.intent.prop}] : d \in found}

Changed(s, text) ==
  IF text = s.text THEN s ELSE [s EXCEPT !.text = text, !.gen = @ + 1]

Attach ==
  /\ UiFree
  /\ \E o \in Openings :
       /\ o.now.views < MaxViews
       /\ session' = [o.now EXCEPT !.views = @ + 1]
       /\ found' = o.left /\ seen' = seen \cup o.shows
  /\ UNCHANGED <<storeVars, queue, dones, looked, toast, crashes, crossed>>

(* A capture goes into the session too, and opens one nobody views.        *)
Capture(text) ==
  /\ UiFree
  /\ \E o \in Openings :
       /\ text # o.now.text /\ o.now.gen < MaxGen
       /\ session' = [Changed(o.now, text) EXCEPT !.mark = TRUE]
       /\ found' = o.left /\ seen' = seen \cup o.shows
  /\ UNCHANGED <<storeVars, queue, dones, looked, toast, crashes, crossed>>

Edit(text) ==
  /\ UiFree /\ session.open /\ session.views > 0
  /\ text # session.text /\ session.gen < MaxGen
  /\ session' = Changed(session, text)
  /\ UNCHANGED <<storeVars, queue, dones, looked, found, toast, historyVars>>

Detach ==
  /\ UiFree /\ session.views > 0
  /\ LET s == [session EXCEPT !.views = @ - 1]
     IN  session' = IF Idle(s) THEN Closed ELSE s
  /\ UNCHANGED <<storeVars, queue, dones, looked, found, toast, historyVars>>

(* Two minutes after a capture its Undo is gone, and tend() lets go of a   *)
(* session held open only for that.                                        *)
UndoWindowEnds ==
  /\ UiFree /\ session.mark
  /\ LET s == [session EXCEPT !.mark = FALSE]
     IN  session' = IF Idle(s) THEN Closed ELSE s
  /\ UNCHANGED <<storeVars, queue, dones, looked, found, toast, historyVars>>
-----------------------------------------------------------------------------
(* Saving                                                                  *)

Due_once == session.open /\ Dirty(session) /\ ~session.inflight
              /\ session.conflict = NoConflict /\ ~session.failed
Due == session.open /\ Dirty(session) /\ ~session.inflight /\ session.conflict = NoConflict

(* tend(): half a second after typing stops, two seconds while it goes on, *)
(* five after a failure.                                                   *)
Dispatch ==
  /\ UiFree /\ Due /\ Len(queue) + Len(dones) < MaxQueue
  /\ queue' = Append(queue, [gen |-> session.gen, text |-> session.text, base |-> session.base])
  /\ session' = [session EXCEPT !.inflight = TRUE]
  /\ UNCHANGED <<storeVars, dones, looked, found, toast, historyVars>>

ThreadBegins ==
  /\ queue # <<>>
  /\ Begin("thread", Head(queue).base, Head(queue).text)
  /\ UNCHANGED <<sessionVars, historyVars>>

ThreadAnswers ==
  /\ Answered("thread")
  /\ LET c == commit["thread"]
     IN  dones' = Append(dones, [gen |-> Head(queue).gen, step |-> c.step,
                                 prev |-> c.prev, prop |-> c.prop])
  /\ queue' = Tail(queue)
  /\ UNCHANGED <<session, looked, found, toast, historyVars>>

(* flush(): the answers first, then a commit on this thread.               *)
Flush ==
  /\ Due /\ dones = <<>>
  /\ Begin("ui", session.base, session.text)
  /\ UNCHANGED <<sessionVars, historyVars>>

(* It waits ten seconds for a save that is out, and then says so.          *)
StillSaving ==
  /\ UiFree /\ session.inflight /\ ~toast
  /\ toast' = TRUE
  /\ UNCHANGED <<storeVars, session, queue, dones, looked, found, historyVars>>

Higher(a, b) == IF a > b THEN a ELSE b

Settled_latest(s, d) ==
  CASE d.step = "ok" -> [s EXCEPT !.inflight = FALSE, !.base = d.prop, !.saved = s.gen,
                                  !.failed = FALSE, !.op = NoOp]
    [] d.step = "conflict" -> [s EXCEPT !.inflight = FALSE, !.conflict = Theirs(d.prev)]
    [] d.step = "error" -> [s EXCEPT !.inflight = FALSE, !.failed = TRUE]

Settled(s, d) ==
  CASE d.step = "ok" -> [s EXCEPT !.inflight = FALSE, !.base = d.prop,
                                  !.saved = Higher(@, d.gen), !.failed = FALSE, !.op = NoOp]
    [] d.step = "conflict" -> [s EXCEPT !.inflight = FALSE, !.conflict = Theirs(d.prev)]
    [] d.step = "error" -> [s EXCEPT !.inflight = FALSE, !.failed = TRUE]

(* settle(): the session takes the answer.  A save retires the draft the   *)
(* session started from, if the lock is to be had.                         *)
Settle(d) ==
  LET s == Settled(session, d)
  IN  /\ session' = IF ~session.open THEN session
                    ELSE IF d.step = "ok" /\ Idle(s) THEN Closed ELSE s
      /\ intents' = IF session.open /\ d.step = "ok" /\ ~Locked
                    THEN {i \in intents : i.op # session.op} ELSE intents
      /\ seen' = IF session.open /\ d.step = "ok" THEN seen \cup {d.prop} ELSE seen

SettleThread ==
  /\ UiFree /\ dones # <<>>
  /\ Settle(Head(dones))
  /\ dones' = Tail(dones)
  /\ UNCHANGED <<head, kept, offered, commit, clock, fails, edits,
                 queue, looked, found, toast, crashes, crossed>>

SettleUi ==
  /\ commit["ui"].step \in Outcomes
  /\ LET c == commit["ui"]
     IN  /\ Settle([gen |-> session.gen, step |-> c.step, prev |-> c.prev, prop |-> c.prop])
         /\ toast' = (toast \/ c.step = "error")
  /\ commit' = [commit EXCEPT !["ui"] = NoCommit]
  /\ UNCHANGED <<head, kept, offered, clock, fails, edits,
                 queue, dones, looked, found, crashes, crossed>>
-----------------------------------------------------------------------------
(* Choosing between versions                                               *)

(* keep_mine: theirs is kept as a checkpoint or nothing happens; then mine *)
(* is based on it.                                                         *)
KeepMine_unkept ==
  /\ UiFree /\ ~Locked
  /\ session.open /\ session.conflict # NoConflict /\ session.gen < MaxGen
  /\ session' = [session EXCEPT
       !.base = IF session.conflict = Emptied THEN Absent ELSE session.conflict,
       !.conflict = NoConflict, !.gen = @ + 1]
  /\ UNCHANGED <<storeVars, queue, dones, looked, found, toast, historyVars>>

KeepMine ==
  /\ UiFree /\ ~Locked
  /\ session.open /\ session.conflict # NoConflict /\ session.gen < MaxGen
  /\ kept' = kept \cup {session.conflict.text}
  /\ session' = [session EXCEPT
       !.base = IF session.conflict = Emptied THEN Absent ELSE session.conflict,
       !.conflict = NoConflict, !.gen = @ + 1]
  /\ UNCHANGED <<head, intents, offered, commit, clock, fails, edits,
                 queue, dones, looked, found, toast, historyVars>>

(* What take_theirs and discard leave: the text of a version, and nothing  *)
(* unsaved.                                                                *)
Took(s, bytes) ==
  LET t == Changed(s, bytes.text)
  IN  [t EXCEPT !.base = bytes, !.saved = t.gen, !.conflict = NoConflict, !.failed = FALSE]

TakeTheirs ==
  /\ UiFree /\ ~Locked
  /\ session.open /\ session.conflict # NoConflict /\ session.gen < MaxGen
  /\ kept' = kept \cup {session.text}
  /\ session' = Took(session, session.conflict)
  /\ seen' = seen \cup {session.conflict}
  /\ UNCHANGED <<head, intents, offered, commit, clock, fails, edits,
                 queue, dones, looked, found, toast, crashes, crossed>>

(* discard: in the palette of a failed or conflicting note in view, and    *)
(* after the toast's Save Copy, whatever the note is by then.  The         *)
(* checkpoint is done without when it cannot be had.                       *)
Discard ==
  /\ UiFree /\ session.open /\ session.gen < MaxGen
  /\ \/ toast /\ toast' = FALSE
     \/ /\ session.views > 0 /\ (session.failed \/ session.conflict # NoConflict)
        /\ UNCHANGED toast
  /\ head # Absent
  /\ \/ ~Locked /\ kept' = kept \cup {session.text}
     \/ UNCHANGED kept
  /\ session' = IF session.views = 0 THEN Closed
                ELSE [Took(session, head) EXCEPT !.mark = FALSE]
  /\ seen' = seen \cup {head}
  /\ crossed' = (crossed \/ session.inflight)
  /\ UNCHANGED <<head, intents, offered, commit, clock, fails, edits,
                 queue, dones, looked, found, crashes>>
-----------------------------------------------------------------------------
(* A step of a commit of ours, or of a peer's.                             *)
OurStep(w) == CommitStep(w) /\ UNCHANGED <<sessionVars, historyVars>>

Peer(w) ==
  /\ \/ \E text \in Contents : SetOut(w, head, text)
     \/ CommitStep(w) \/ Answered(w) \/ Dies(w)
  /\ UNCHANGED <<sessionVars, historyVars>>

Editor == EditOutside /\ UNCHANGED <<sessionVars, historyVars>>

(* The process goes; the files stay.                                       *)
Crash ==
  /\ crashes < MaxCrash /\ crashes' = crashes + 1
  /\ session' = Closed /\ queue' = <<>> /\ dones' = <<>> /\ looked' = FALSE /\ found' = {}
  /\ toast' = FALSE
  /\ commit' = [w \in Who |-> IF w \in Ours THEN NoCommit ELSE commit[w]]
  /\ UNCHANGED <<head, intents, kept, offered, clock, fails, edits, seen, crossed>>

Next ==
  \/ Look \/ Attach \/ Detach \/ UndoWindowEnds
  \/ \E text \in Contents : Capture(text) \/ Edit(text)
  \/ Dispatch \/ ThreadBegins \/ ThreadAnswers \/ Flush \/ StillSaving
  \/ SettleThread \/ SettleUi
  \/ KeepMine \/ TakeTheirs \/ Discard
  \/ \E w \in Ours : OurStep(w)
  \/ \E w \in Peers : Peer(w)
  \/ Editor \/ Crash

(* Both threads run, and so do a peer's while it holds the lock.           *)
Fairness ==
  /\ WF_vars(Dispatch) /\ WF_vars(SettleThread) /\ WF_vars(SettleUi)
  /\ WF_vars(ThreadBegins) /\ WF_vars(ThreadAnswers)
  /\ \A w \in Ours : WF_vars(OurStep(w))
  /\ \A w \in Peers : WF_vars(Peer(w))

Spec == Init /\ [][Next]_vars
FairSpec == Spec /\ Fairness
-----------------------------------------------------------------------------
(* "Saved in the footer means the store said so": while nothing else has   *)
(* written the file, a note shown as saved is the file.                    *)
SavedMeansSaved ==
  session.open /\ Saved(session) /\ head = session.base => head.text = session.text

(* It is, unless text was let go while a save of it was out.               *)
SavedIsOnDisk == crossed \/ SavedMeansSaved

(* The session's and the store's variables have their types, and that.     *)
NoteInv == TypeOK /\ SavedIsOnDisk

(* "An answer for an older snapshot never marks a newer one saved."        *)
OwnAnswers ==
  [][SettleThread /\ session.open /\ Dirty(session) /\ session'.open /\ ~Dirty(session')
       => session.text = Head(dones).prop.text]_vars

(* "A note changed elsewhere is a conflict with both versions kept, never  *)
(* whichever was written last": what our commits replace nus has shown, or *)
(* saved itself, or keeps.                                                 *)
Overwrites(w) == commit[w].step = "head" /\ commit[w]'.step = "verify"
Accounted == head \in seen \cup {Absent} \/ head.text \in kept'

NothingUnseen == [][\A w \in Ours : Overwrites(w) => Accounted]_vars

(* It is so but for what a draft is laid over, and for a save of text that *)
(* was let go.                                                             *)
SeenButByDrafts ==
  [][\A w \in Ours : Overwrites(w) => Accounted \/ session.op # NoOp \/ crossed]_vars

(* Choosing a version settles a conflict: mine is then based on what is on *)
(* disk, so that it can be saved.                                          *)
ChoiceTakes ==
  [][session.open /\ session.conflict = Theirs(head) /\ session'.open
       /\ session'.conflict = NoConflict /\ UNCHANGED head => session'.base = head]_vars

(* What is typed is saved, whatever fails on the way, unless it is in      *)
(* conflict or let go, or the process dies; Spent is the model's bound.    *)
Spent == clock = MaxClock

TypedIsSaved ==
  Dirty(session) ~> ~Dirty(session) \/ session.conflict # NoConflict \/ Spent
=============================================================================

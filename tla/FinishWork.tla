----------------------------- MODULE FinishWork -----------------------------
(***************************************************************************)
(* Finish Work: the machine is kept awake while work that the user started *)
(* runs, and only then (spikes/composite/src/finish_work.rs).  The work is *)
(* what the shells say of their commands (app.rs, blocks.rs) and what nus  *)
(* knows of downloads (downloads.rs, browser.rs); it counts as the user's  *)
(* if something the user did came shortly before.  Once a turn the host    *)
(* looks at it all and takes, keeps or gives back the lease.               *)
(***************************************************************************)
EXTENDS Integers, Sequences, FiniteSets

CONSTANTS
  Panes,      (* the shells that are open                                  *)
  Fresh,      (* how long a submission, or a gesture, counts               *)
  Poll,       (* how old what is known of the power may become             *)
  MaxWork,    (* bound: commands and downloads                             *)
  MaxAsk,     (* bound: submissions of the user, per pane                  *)
  MaxTyped    (* bound: lines a shell has yet to read                      *)

ASSUME FinishWorkAssumption ==
  /\ Fresh \in Nat \ {0} /\ Poll \in Nat \ {0}
  /\ {MaxWork, MaxAsk, MaxTyped} \subseteq Nat

VARIABLES
  typed,      (* pane -> the lines its shell has yet to read, by their kind*)
  waiting,    (* pane -> what is to be typed at its next prompt, and whose *)
  armed,      (* pane -> the submission that waits for a start mark, by    *)
              (*         the time for which it still counts                *)
  shell,      (* pane -> the command that runs, 0 for none                 *)
  moving,     (* downloads that are moving                                 *)
  paused,     (* downloads that are not                                    *)
  gesture,    (* the time for which the user's last click in a page counts *)
  origin,     (* the work that was, for nus, started by the user           *)
  last,       (* the last generation given out                             *)
  fw,         (* FinishWork itself                                         *)
  unsafe,     (* whether the power situation is one to let go in           *)
  toggle,     (* a click on the coffee that the host has yet to answer     *)
  asked,      (* history: pane -> submissions                              *)
  granted,    (* history: pane -> commands that counted                    *)
  since,      (* history: how long it has been unsafe                      *)
  theirs      (* history: the commands whose line the user did not write   *)

shells   == <<typed, waiting, armed, shell, asked, granted>>
pages    == <<moving, paused, gesture>>
work     == <<origin, last, theirs>>
lease    == <<fw, toggle>>
power    == <<unsafe, since>>
vars     == <<shells, pages, work, lease, power>>
-----------------------------------------------------------------------------
Work    == 1 .. MaxWork
Lines   == {"user", "other", "empty"}
Nothing == -1
Host    == [engaged : BOOLEAN, held : SUBSET Work, lease : BOOLEAN,
            unsafe : BOOLEAN, age : 0 .. Poll]

TypeOK ==
  /\ typed \in [Panes -> Seq(Lines)] /\ waiting \in [Panes -> {"none", "user", "other"}]
  /\ armed \in [Panes -> Nothing .. Fresh] /\ shell \in [Panes -> 0 .. MaxWork]
  /\ moving \subseteq Work /\ paused \subseteq Work /\ gesture \in 0 .. Fresh
  /\ origin \subseteq Work /\ last \in 0 .. MaxWork /\ theirs \subseteq Work
  /\ fw \in Host /\ unsafe \in BOOLEAN /\ toggle \in BOOLEAN
  /\ asked \in [Panes -> 0 .. MaxAsk] /\ granted \in [Panes -> 0 .. MaxWork]
  /\ since \in 0 .. Poll

(* Panes are opened by the user, by Home with a command, or by a restore.  *)
Init ==
  /\ typed = [p \in Panes |-> <<>>] /\ waiting \in [Panes -> {"none", "other"}]
  /\ armed = [p \in Panes |-> Nothing] /\ shell = [p \in Panes |-> 0]
  /\ moving = {} /\ paused = {} /\ gesture = 0
  /\ origin = {} /\ last = 0 /\ theirs = {}
  /\ fw = [engaged |-> FALSE, held |-> {}, lease |-> FALSE, unsafe |-> FALSE, age |-> Poll]
  /\ unsafe = FALSE /\ toggle = FALSE
  /\ asked = [p \in Panes |-> 0] /\ granted = [p \in Panes |-> 0] /\ since = 0
-----------------------------------------------------------------------------
(* Shells                                                                  *)

Goes(p, line) ==
  /\ Len(typed[p]) < MaxTyped
  /\ typed' = [typed EXCEPT ![p] = Append(@, line)]

(* Something the user submitted waits for the shell to say that a command  *)
(* started.                                                                *)
Arm(p) ==
  /\ asked[p] < MaxAsk /\ asked' = [asked EXCEPT ![p] = @ + 1]
  /\ armed' = [armed EXCEPT ![p] = Fresh]

(* Enter, in the shell or in the program that runs in it, which may leave  *)
(* it to the shell.                                                        *)
Enter(p) ==
  /\ Arm(p)
  /\ \/ \E line \in {"user", "empty"} : Goes(p, line)
     \/ shell[p] # 0 /\ UNCHANGED typed
  /\ UNCHANGED <<waiting, shell, granted, pages, work, lease, power>>

(* Run again asks for a prompt at which nothing is under way.              *)
Rerun(p) ==
  /\ shell[p] = 0 /\ typed[p] = <<>> /\ armed[p] = Nothing /\ waiting[p] = "none"
  /\ Arm(p) /\ Goes(p, "user")
  /\ UNCHANGED <<waiting, shell, granted, pages, work, lease, power>>

(* Home, a saved command, a port's command wait for the prompt.            *)
AskFor(p) ==
  /\ waiting[p] = "none" /\ waiting' = [waiting EXCEPT ![p] = "user"]
  /\ UNCHANGED <<typed, armed, shell, asked, granted, pages, work, lease, power>>

(* What waits is typed at a prompt, whoever has asked for it; only what the*)
(* user has asked for is armed.                                            *)
TypeAtPrompt(p) ==
  /\ waiting[p] # "none" /\ shell[p] = 0 /\ typed[p] = <<>>
  /\ waiting' = [waiting EXCEPT ![p] = "none"] /\ Goes(p, waiting[p])
  /\ \/ waiting[p] = "user" /\ Arm(p)
     \/ waiting[p] = "other" /\ UNCHANGED <<armed, asked>>
  /\ UNCHANGED <<shell, granted, pages, work, lease, power>>

(* A rule or an assistant writes a line (remote, send-text).               *)
SendText(p) ==
  /\ Goes(p, "other")
  /\ UNCHANGED <<waiting, armed, shell, asked, granted, pages, work, lease, power>>

NextWork(user) ==
  /\ last < MaxWork /\ last' = last + 1
  /\ origin' = IF user THEN origin \cup {last'} ELSE origin

Disarmed_kept(p) == armed' = armed
Disarmed(p) == armed' = [armed EXCEPT ![p] = Nothing]

(* The shell, or one that runs in it, reads a line: what was under way is  *)
(* under way no more for the pane.  An empty line gives another prompt, and*)
(* no mark.                                                                *)
OutputStart(p) ==
  /\ typed[p] # <<>> /\ typed' = [typed EXCEPT ![p] = Tail(@)]
  /\ \/ /\ Head(typed[p]) = "empty" /\ UNCHANGED <<armed, shell, granted, work>>
     \/ /\ Head(typed[p]) # "empty" /\ NextWork(armed[p] > 0) /\ Disarmed(p)
        /\ shell' = [shell EXCEPT ![p] = last']
        /\ granted' = IF armed[p] > 0 THEN [granted EXCEPT ![p] = @ + 1] ELSE granted
        /\ theirs' = IF Head(typed[p]) = "other" THEN theirs \cup {last'} ELSE theirs
  /\ UNCHANGED <<waiting, asked, pages, lease, power>>

CommandEnd(p) ==
  /\ shell[p] # 0 /\ shell' = [shell EXCEPT ![p] = 0]
  /\ UNCHANGED <<typed, waiting, armed, asked, granted, pages, work, lease, power>>

(* The pane is closed, and another opened in its place.                    *)
Close(p) ==
  /\ typed' = [typed EXCEPT ![p] = <<>>] /\ waiting' = [waiting EXCEPT ![p] = "none"]
  /\ armed' = [armed EXCEPT ![p] = Nothing] /\ shell' = [shell EXCEPT ![p] = 0]
  /\ UNCHANGED <<asked, granted, pages, work, lease, power>>
-----------------------------------------------------------------------------
(* Downloads                                                               *)

(* A click or a key in a page, or nus asked to save what it shows.         *)
Gesture ==
  /\ gesture' = Fresh
  /\ UNCHANGED <<shells, moving, paused, work, lease, power>>

Download ==
  /\ NextWork(gesture > 0) /\ moving' = moving \cup {last'} /\ UNCHANGED theirs
  /\ UNCHANGED <<shells, paused, gesture, lease, power>>

Pause(d) ==
  /\ moving' = moving \ {d} /\ paused' = paused \cup {d}
  /\ UNCHANGED <<shells, gesture, work, lease, power>>

Resume(d) ==
  /\ moving' = moving \cup {d} /\ paused' = paused \ {d}
  /\ UNCHANGED <<shells, gesture, work, lease, power>>

(* Done, cancelled or interrupted.                                         *)
Ends(d) ==
  /\ moving' = moving \ {d} /\ paused' = paused \ {d}
  /\ UNCHANGED <<shells, gesture, work, lease, power>>
-----------------------------------------------------------------------------
(* The policy                                                              *)

Live     == ({shell[p] : p \in Panes} \ {0}) \cup moving
Eligible == Live \cap origin

Release_armed(f) == [f EXCEPT !.lease = FALSE, !.held = {}]
Release(f) == [f EXCEPT !.lease = FALSE, !.held = {}, !.engaged = FALSE]

Polled(f) == [f EXCEPT !.unsafe = unsafe, !.age = 0]

Disengage(f) == Release(f)

(* The platform may refuse; then nothing is engaged.                       *)
Engage(f, refused) ==
  IF unsafe \/ Eligible = {} \/ refused
  THEN Polled(f)
  ELSE [Polled(f) EXCEPT !.engaged = TRUE, !.held = Eligible, !.lease = TRUE]

Toggle(f, refused) == IF f.engaged THEN Disengage(f) ELSE Engage(f, refused)

Due_late(f) == FALSE
Due(f) == f.age >= Poll

Holds_once(f) == f.held \cup Eligible
Holds_all(f) == (f.held \cap Live) \cup Live
Holds(f) == (f.held \cap Eligible) \cup Eligible

(* Work leaves and joins; safety comes first, and with the last the lease  *)
(* goes.  Without one (which is never so here) it asks again.              *)
Sync(f, refused) ==
  LET g == IF Due(f) THEN Polled(f) ELSE f
  IN  IF ~f.engaged THEN f
      ELSE IF g.unsafe \/ Holds(g) = {} \/ (~g.lease /\ refused) THEN Release(g)
      ELSE [g EXCEPT !.held = Holds(g), !.lease = TRUE]

Turn ==
  /\ toggle' = FALSE
  /\ \E refused \in BOOLEAN :
       fw' = Sync(IF toggle THEN Toggle(fw, refused) ELSE fw, refused)
  /\ UNCHANGED <<shells, pages, work, power>>

Click ==
  /\ toggle' = TRUE
  /\ UNCHANGED <<shells, pages, work, fw, power>>

Power ==
  /\ unsafe' = ~unsafe /\ since' = 0
  /\ UNCHANGED <<shells, pages, work, lease>>

Older(n) == IF n > 0 THEN n - 1 ELSE n

Tick ==
  /\ armed' = [p \in Panes |-> Older(armed[p])] /\ gesture' = Older(gesture)
  /\ fw' = [fw EXCEPT !.age = IF @ < Poll THEN @ + 1 ELSE @]
  /\ since' = IF unsafe /\ since < Poll THEN since + 1 ELSE since
  /\ UNCHANGED <<typed, waiting, shell, asked, granted, moving, paused, work, toggle, unsafe>>

Next ==
  \/ \E p \in Panes :
       \/ Enter(p) \/ Rerun(p) \/ AskFor(p) \/ TypeAtPrompt(p) \/ SendText(p)
       \/ OutputStart(p) \/ CommandEnd(p) \/ Close(p)
  \/ Gesture \/ Download \/ \E d \in moving : Pause(d) \/ Ends(d)
  \/ \E d \in paused : Resume(d) \/ Ends(d)
  \/ Turn \/ Click \/ Power \/ Tick

Spec == Init /\ [][Next]_vars

(* The loop turns whenever something has happened, and once a while.       *)
FairSpec == Spec /\ WF_vars(Turn)
-----------------------------------------------------------------------------
(* The lease is held while, and only while, it is engaged, for some work,  *)
(* all of which the user had started ("background activity never counts"). *)
Honest ==
  /\ fw.lease = fw.engaged
  /\ fw.lease => fw.held # {}
  /\ fw.held \subseteq origin

(* One submission makes one command count, however many follow it.         *)
OneEach == \A p \in Panes : granted[p] <= asked[p]

(* The lease is taken in answer to a click and never otherwise: not when   *)
(* work begins, nor when the battery is charged again after it was let go. *)
OnlyByClick == [][~fw.lease /\ fw'.lease => toggle]_vars

(* No turn leaves the lease held in a situation that has been unsafe for as*)
(* long as the power may go unasked ("safety always wins").                *)
SafetyWins == [][Turn /\ unsafe /\ since = Poll => ~fw'.lease]_vars

(* Work that has ended, was cancelled or went with its pane does not keep  *)
(* the machine awake.                                                      *)
LetsGo == fw.lease /\ Eligible = {} ~> ~fw.lease \/ Eligible # {}

(* "A rule, an assistant or a restored session re-running something does   *)
(* not" count (finish_work.rs).                                            *)
OnlyTheUsers == origin \cap theirs = {}
=============================================================================

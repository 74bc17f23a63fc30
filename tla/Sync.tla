-------------------------------- MODULE Sync --------------------------------
(***************************************************************************)
(* One file of the profile on several devices, and the exchange that       *)
(* carries it between them (crates/sync/src/lib.rs).  An exchange surveys  *)
(* the local file and the other devices' manifests, and                    *)
(*                                                                         *)
(*   keeps a copy -> writes -> sets the writer's clock -> surveys again    *)
(*     -> pushes the blob -> pushes the manifest -> (git) pushes           *)
(*                                                                         *)
(* while the app edits the file when it likes.  What happens to the file   *)
(* depends on its kind: "plain", "sealed" (session.json, a note), "union"  *)
(* (memory.md) or "library" (a reading record, under the library's lock).  *)
(*                                                                         *)
(* A text is the set of edits it holds.  No file is the empty text; a file *)
(* cut off in the middle of a write is the text Torn.                      *)
(***************************************************************************)
EXTENDS Integers, FiniteSets

CONSTANTS
  Device,
  Kinds,      (* the kinds of file under consideration                     *)
  Carriers,   (* the carriers under consideration: "folder", "git"         *)
  MaxClock,   (* bound: seconds                                            *)
  MaxEdit,    (* bound: edits by the app                                   *)
  MaxFault    (* bound: operations that fail, crashes, locked vaults       *)

ASSUME SyncAssumption ==
  /\ Kinds \subseteq {"plain", "sealed", "union", "library"}
  /\ Carriers \subseteq {"folder", "git"}
  /\ MaxClock \in Nat \ {0} /\ {MaxEdit, MaxFault} \subseteq Nat

VARIABLES
  kind, carrier,   (* what is exchanged and how; they never change         *)
  clock,           (* the second in which a text was last dated by its now *)
  edits,           (* the edits made so far are 1 .. edits                 *)
  file,            (* device -> its file, [text, time]                     *)
  lost,            (* device -> the texts kept beside it as .lost          *)
  run,             (* device -> its exchange                               *)
  copy,            (* device -> device -> what its carrier shows of each   *)
  remote,          (* device -> what the git remote has of each            *)
  behind,          (* the devices whose clone is behind the remote         *)
  dirty,           (* those with uncommitted work in it                    *)
  faults,
  mishaps          (* history: what has gone wrong so far                  *)

exchanged == <<clock, edits, kind, carrier>>
vars == <<exchanged, file, lost, run, copy, remote, behind, dirty, faults, mishaps>>
-----------------------------------------------------------------------------
Torn   == {0}
Edits  == 1 .. MaxEdit
Texts  == SUBSET (Edits \cup Torn)
Times  == 0 .. MaxClock
Files  == [text : Texts, time : Times]
NoFile == [text |-> {}, time |-> 0]
Shelf  == [blob : Texts, manifest : Files]
Empty  == [blob |-> {}, manifest |-> NoFile]

Steps  == {"idle", "look", "keep", "write", "date", "survey", "blob", "manifest", "push"}
Runs   == [at : Steps, text : Texts, time : Times, merge : BOOLEAN, unread : BOOLEAN,
           mine : Files]
Idle   == [at |-> "idle", text |-> {}, time |-> 0, merge |-> FALSE, unread |-> FALSE,
           mine |-> NoFile]

Mishaps == {"overtaken", "overwritten", "backdated", "unkept", "torn", "redated",
            "unsent", "mixed", "unseen", "tie"}

TypeOK ==
  /\ kind \in Kinds /\ carrier \in Carriers
  /\ clock \in Times /\ edits \in 0 .. MaxEdit
  /\ file \in [Device -> Files] /\ lost \in [Device -> SUBSET Texts]
  /\ run \in [Device -> Runs]
  /\ copy \in [Device -> [Device -> Shelf]] /\ remote \in [Device -> Shelf]
  /\ behind \subseteq Device /\ dirty \subseteq Device /\ faults \in 0 .. MaxFault
  /\ mishaps \subseteq Mishaps

Init ==
  /\ kind \in Kinds /\ carrier \in Carriers
  /\ clock = 0 /\ edits = 0
  /\ file = [d \in Device |-> NoFile] /\ lost = [d \in Device |-> {}]
  /\ run = [d \in Device |-> Idle]
  /\ copy = [d \in Device |-> [e \in Device |-> Empty]]
  /\ remote = [d \in Device |-> Empty] /\ behind = {} /\ dirty = {}
  /\ faults = 0 /\ mishaps = {}
-----------------------------------------------------------------------------
Here(d) == file[d] # NoFile

Faulty == faults < MaxFault /\ faults' = faults + 1
Fault(sort) == Faulty /\ mishaps' = mishaps \cup sort
NoFault == UNCHANGED <<faults, mishaps>>

To(d, step) == run' = [run EXCEPT ![d].at = step]

(* What is dated now is dated in the second of the one before, and may     *)
(* then share it with a text elsewhere, or in a later one.                 *)
DatedNow(also) ==
  \/ clock' = clock + 1 /\ clock < MaxClock /\ mishaps' = mishaps \cup also
  \/ clock' = clock /\ clock > 0 /\ mishaps' = mishaps \cup also \cup {"tie"}
-----------------------------------------------------------------------------
(* The app, and the world                                                  *)

(* The app changes the file.  A library record is changed under the        *)
(* library's lock, which the exchange holds from beginning to end.         *)
Overtaking(d) ==
  CASE run[d].at = "keep"  -> {"overtaken"}
    [] run[d].at = "write" -> {"overwritten"}
    [] run[d].at = "date"  -> {"backdated"}
    [] OTHER -> {}

Edit(d) ==
  /\ edits < MaxEdit /\ edits' = edits + 1
  /\ kind = "library" => run[d].at \in {"idle", "look"}
  /\ DatedNow(Overtaking(d))
  /\ file' = [file EXCEPT ![d] = [text |-> (@.text \ Torn) \cup {edits'}, time |-> clock']]
  /\ UNCHANGED <<kind, carrier, lost, run, copy, remote, behind, dirty, faults>>

(* A folder is moved by the system, a file at a time and in any order.     *)
Replicate(d, e) ==
  /\ carrier = "folder" /\ d # e
  /\ \/ copy' = [copy EXCEPT ![d][e].blob = copy[e][e].blob]
     \/ copy' = [copy EXCEPT ![d][e].manifest = copy[e][e].manifest]
  /\ copy' # copy
  /\ UNCHANGED <<exchanged, file, lost, run, remote, behind, dirty>>
  /\ NoFault
-----------------------------------------------------------------------------
(* The exchange                                                            *)

(* git pull: refused while a killed exchange's work lies uncommitted; when *)
(* it fails the exchange goes on with the clone as it is.                  *)
Pull(d) ==
  /\ carrier = "git" /\ run[d].at = "idle" /\ To(d, "look")
  /\ \/ /\ d \notin dirty /\ NoFault /\ behind' = behind \ {d}
        /\ copy' = [copy EXCEPT ![d] = [e \in Device |-> IF e = d THEN @[d] ELSE remote[e]]]
     \/ d \in dirty /\ NoFault /\ UNCHANGED <<copy, behind>>
     \/ d \notin dirty /\ Fault({}) /\ UNCHANGED <<copy, behind>>
  /\ UNCHANGED <<exchanged, file, lost, remote, dirty>>

(* What reading the local file gives.  One that cannot be read is taken    *)
(* for none at all, and one whose time cannot be for the oldest there is.  *)
Reads(d) ==
  {file[d]} \cup {f \in {NoFile, [file[d] EXCEPT !.time = 0]} : faults < MaxFault}

(* The newest version any other device says it has; the first of equals,   *)
(* in the order the carrier's directory is listed.                         *)
Best(d) ==
  {e \in Device \ {d} :
     /\ copy[d][e].manifest # NoFile
     /\ \A o \in Device \ {d} : copy[d][o].manifest.time <= copy[d][e].manifest.time}

(* A blob that is there, has other bytes, and is said to be newer.         *)
Wanted_older(theirs, mine) == theirs.blob \notin {{}, mine.text}
Wanted(theirs, mine) ==
  /\ theirs.blob \notin {{}, mine.text}
  /\ mine = NoFile \/ theirs.manifest.time > mine.time

(* The survey, the choice among the manifests and the reading of the blob: *)
(* nothing that comes between could not as well come before or after.      *)
Look(d) ==
  /\ run[d].at = IF carrier = "git" THEN "look" ELSE "idle"
  /\ \E mine \in Reads(d) :
       /\ faults' = IF mine = file[d] THEN faults ELSE faults + 1
       /\ \/ \E e \in Best(d) :
               /\ Wanted(copy[d][e], mine)
               /\ run' = [run EXCEPT ![d] =
                     [at |-> "keep", text |-> copy[d][e].blob,
                      time |-> copy[d][e].manifest.time, merge |-> FALSE,
                      unread |-> (mine # file[d]), mine |-> NoFile]]
               /\ mishaps' = mishaps
                    \cup {m \in {"mixed"} : ~(copy[d][e].manifest.text \subseteq copy[d][e].blob)}
                    \cup {m \in {"unseen"} : mine # file[d]}
          \/ /\ \A e \in Best(d) : ~Wanted(copy[d][e], mine)
             /\ To(d, "survey") /\ UNCHANGED mishaps
  /\ UNCHANGED <<exchanged, file, lost, copy, remote, behind, dirty>>

Merges(d) == kind = "union" /\ Here(d)
Joined(d) == run' = [run EXCEPT ![d].at = "write", ![d].merge = TRUE,
                                ![d].text = run[d].text \cup file[d].text]

KeptBeside_over(d) == {file[d].text}
KeptBeside(d) == lost[d] \cup {file[d].text}

(* The file that is about to be replaced is kept, and never over another   *)
(* that was.  One that cannot be read or copied is not replaced; a plain   *)
(* one that cannot be renamed is.                                          *)
Keep(d) ==
  /\ run[d].at = "keep"
  /\ \/ ~Here(d) /\ To(d, "write") /\ UNCHANGED <<file, lost>> /\ NoFault
     \/ Merges(d) /\ Joined(d) /\ UNCHANGED <<file, lost>> /\ NoFault
     \/ /\ Here(d) /\ ~Merges(d) /\ To(d, "write") /\ NoFault
        /\ lost' = [lost EXCEPT ![d] = KeptBeside(d)]
        /\ file' = IF kind = "plain" THEN [file EXCEPT ![d] = NoFile] ELSE file
     \/ /\ Here(d) /\ kind # "plain" /\ To(d, "survey")
        /\ UNCHANGED <<file, lost>> /\ Fault({})
     \/ /\ Here(d) /\ kind = "plain" /\ To(d, "write")
        /\ UNCHANGED <<file, lost>> /\ Fault({"unkept"})
  /\ UNCHANGED <<exchanged, copy, remote, behind, dirty>>

(* A library record comes in whole and with its time; a sealed file whole; *)
(* a plain one in place.  These two are dated afterwards, and a union is   *)
(* not: it is newer than both.                                             *)
Dated_all(d) == kind # "library"
Dated(d) == kind # "library" /\ ~run[d].merge

Write(d) ==
  /\ run[d].at = "write" /\ To(d, IF Dated(d) THEN "date" ELSE "survey")
  /\ IF run[d].merge THEN DatedNow({}) ELSE UNCHANGED <<clock, mishaps>>
  /\ file' = [file EXCEPT ![d] =
       [text |-> run[d].text, time |-> IF kind = "library" THEN run[d].time ELSE clock']]
  /\ UNCHANGED <<kind, carrier, edits, lost, copy, remote, behind, dirty, faults>>

(* A plain file that is cut off is a part of the text, dated now; so is    *)
(* the whole text that is not given its writer's clock.                    *)
CutOff(d) ==
  /\ kind = "plain" /\ run[d].at = "write" /\ DatedNow({"torn"})
  /\ file' = [file EXCEPT ![d] = [text |-> Torn, time |-> clock']]
NotDated(d) ==
  /\ run[d].at = "date" /\ DatedNow({"redated"})
  /\ file' = [file EXCEPT ![d].time = clock']

(* The write fails: a plain file may have been emptied, or written in      *)
(* part; the others are replaced whole or not at all.                      *)
WriteFails(d) ==
  /\ run[d].at = "write" /\ To(d, "survey") /\ Faulty
  /\ CutOff(d) \/ UNCHANGED <<clock, file, mishaps>>
  /\ UNCHANGED <<kind, carrier, edits, lost, copy, remote, behind, dirty>>

(* The file is given its writer's clock.  Whether that works is not asked. *)
WritersClock(d) == run[d].time

SetModified(d) ==
  /\ run[d].at = "date" /\ To(d, "survey")
  /\ \/ /\ file' = [file EXCEPT ![d].time = WritersClock(d)]
        /\ NoFault /\ UNCHANGED clock
     \/ Faulty /\ NotDated(d)
  /\ UNCHANGED <<kind, carrier, edits, lost, copy, remote, behind, dirty>>

Resurvey(d) ==
  /\ run[d].at = "survey"
  /\ \E mine \in Reads(d) :
       /\ faults' = IF mine = file[d] THEN faults ELSE faults + 1
       /\ run' = [run EXCEPT ![d] = [Idle EXCEPT !.at = "blob", !.mine = mine]]
  /\ UNCHANGED <<exchanged, file, lost, copy, remote, behind, dirty, mishaps>>

(* The blob goes out when its hash is not what the manifest said last, and *)
(* is read again for it.  One that cannot be read or written is passed by, *)
(* and the manifest says it is there all the same.                         *)
Owed(d) == run[d].mine # NoFile /\ run[d].mine.text # copy[d][d].manifest.text

PushBlob(d) ==
  /\ run[d].at = "blob" /\ To(d, "manifest")
  /\ \/ ~Owed(d) /\ UNCHANGED copy /\ NoFault
     \/ Owed(d) /\ copy' = [copy EXCEPT ![d][d].blob = file[d].text] /\ NoFault
     \/ Owed(d) /\ UNCHANGED copy /\ Fault({"unsent"})
  /\ UNCHANGED <<exchanged, file, lost, remote, behind, dirty>>

PushManifest(d) ==
  /\ run[d].at = "manifest"
  /\ \/ copy' = [copy EXCEPT ![d][d].manifest = run[d].mine] /\ NoFault
     \/ UNCHANGED copy /\ Fault({})
  /\ run' = [run EXCEPT ![d] = IF carrier = "git" THEN [Idle EXCEPT !.at = "push"] ELSE Idle]
  /\ UNCHANGED <<exchanged, file, lost, remote, behind, dirty>>

(* add, commit and push; the push is refused when the clone is behind.     *)
(* What fails may leave the work in the clone uncommitted.                 *)
Uncommitted(d) == {e \in {d} : carrier = "git" /\ copy[d][d] # remote[d]}

After(d) ==
  /\ run[d].at = "push" /\ run' = [run EXCEPT ![d] = Idle]
  /\ \/ /\ d \notin behind /\ remote[d] # copy[d][d] /\ NoFault
        /\ remote' = [remote EXCEPT ![d] = copy[d][d]]
        /\ behind' = behind \cup (Device \ {d})
        /\ dirty' = dirty \ {d}
     \/ /\ d \in behind \/ remote[d] = copy[d][d]
        /\ NoFault /\ UNCHANGED <<remote, behind>>
        /\ dirty' = dirty \ {d}
     \/ /\ Fault({}) /\ UNCHANGED <<remote, behind>>
        /\ dirty' \in {dirty \ {d}, dirty \cup Uncommitted(d)}
  /\ UNCHANGED <<exchanged, file, lost, copy>>

(* The app is killed, or quits and stops waiting.  A plain file may be cut *)
(* off, and one not dated yet is not.                                      *)
Crash(d) ==
  /\ run[d].at # "idle" /\ run' = [run EXCEPT ![d] = Idle]
  /\ Faulty
  /\ \/ CutOff(d)
     \/ NotDated(d)
     \/ run[d].at # "date" /\ UNCHANGED <<clock, file, mishaps>>
  /\ dirty' = dirty \cup Uncommitted(d)
  /\ UNCHANGED <<kind, carrier, edits, lost, copy, remote, behind>>

Exchange(d) ==
  \/ Pull(d) \/ Look(d) \/ Keep(d) \/ Write(d) \/ WriteFails(d) \/ SetModified(d)
  \/ Resurvey(d) \/ PushBlob(d) \/ PushManifest(d) \/ After(d)

Next ==
  \/ \E d \in Device :
       \/ Edit(d) \/ Crash(d)
       \/ Exchange(d)
       \/ \E e \in Device : Replicate(d, e)

Spec == Init /\ [][Next]_vars

(* sync_tick begins one exchange after another, and a folder's files       *)
(* arrive in the end.                                                      *)
FairSpec ==
  /\ Spec
  /\ \A d \in Device : WF_vars(Exchange(d))
  /\ \A d, e \in Device : WF_vars(Replicate(d, e))
-----------------------------------------------------------------------------
Held(d) == file[d].text \cup UNION lost[d]

(* Nothing is ever silently gone (lib.rs, header): whatever an exchange, a *)
(* failure or a crash does, what a device had of the file it still has, in *)
(* the file or beside it.  Not so when the app writes between the keeping  *)
(* and the replacing, or a plain file cannot be renamed: the code goes on. *)
(* For a library record there is no such exception: neither can happen.    *)
NothingLost ==
  [][mishaps' \cap {"unkept", "overwritten"} = {} =>
       \A d \in Device : Held(d) \ Torn \subseteq Held(d)']_vars

(* A library record's clock never goes back: the lock is held from the     *)
(* survey to the write, and the written record has its time from the       *)
(* start.  The one exception is an exchange that could not read the record *)
(* when it looked, and takes whatever there is for newer than none.        *)
NeverOlder ==
  [][kind = "library" =>
       \A d \in Device : file[d].time <= file'[d].time \/ run[d].unread]_vars

(* The newest edit stands, on every device, unless something has gone      *)
(* wrong; a file that only grows holds every edit.                         *)
Agreed ==
  \A d \in Device :
    /\ edits = 0 \/ edits \in file[d].text
    /\ kind = "union" => file[d].text = 1 .. edits
    /\ \A e \in Device : file[d].text = file[e].text
NewestStands == <>[](mishaps = {} => Agreed)

(* lib.rs, header: last writer wins, the newest edit stands.  Of two edits *)
(* in one second, at least, one stands on every device.                    *)
OneStands ==
  <>[](mishaps \subseteq {"tie"} => \A d, e \in Device : file[d].text = file[e].text)

(* The newest stands if a blob may also fail to go out once: the next      *)
(* exchange should send it.                                                *)
SentAgain == <>[](mishaps \subseteq {"unsent"} => Agreed)
=============================================================================

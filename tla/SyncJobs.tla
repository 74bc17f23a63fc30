------------------------------ MODULE SyncJobs ------------------------------
(***************************************************************************)
(* The key of each device, and the jobs that move it: pairing two devices  *)
(* over the network (crates/sync/src/pair.rs) and rotating the key         *)
(* (crates/sync/src/lib.rs), each on a worker of the running app that      *)
(* terminals start and wait for (spikes/composite/src/synccli.rs,          *)
(* crates/cli/src/account.rs), beside the exchange on its timer (syncui.rs)*)
(*                                                                         *)
(* Keys and jobs are numbered as they are made; an offer's code is its     *)
(* job's number.  SPAKE2 and the sealing are taken as perfect: two ends    *)
(* agree exactly when they were given the same code.  Of what a carrier    *)
(* holds only whose folders are sealed under which key is kept; what is in *)
(* them is the matter of Sync.                                             *)
(***************************************************************************)
EXTENDS Integers, FiniteSets

CONSTANTS
  Devices,
  Verbs,      (* device -> the jobs its terminals start                     *)
  MaxKey,     (* bound: keys made                                          *)
  MaxJob,     (* bound: jobs started                                       *)
  MaxFault    (* bound: carriers, vaults and removals that fail, crashes,  *)
              (* and keys typed in or forgotten by hand                    *)

ASSUME SyncJobsAssumption ==
  /\ Verbs \in [Devices -> SUBSET {"offer", "receive", "rotate"}]
  /\ {MaxKey, MaxJob, MaxFault} \subseteq Nat

VARIABLES
  key,        (* device -> the key in profile/sync/key, 0 for none         *)
  made,       (* keys made so far                                          *)
  started,    (* jobs started so far                                       *)
  job,        (* device -> the app's one job, its answer not collected yet *)
  handle,     (* device -> the job its pair_cancel stops, 0 for none       *)
  exchange,   (* device -> the key of the exchange under way, 0 for none   *)
  folders,    (* device and key: what the carriers hold                    *)
  link,       (* receiving job -> what went over its connection            *)
  faults,
  turned      (* history: device -> the keys of its last rotation          *)

app  == <<job, handle, exchange>>
vars == <<key, made, started, app, folders, link, faults, turned>>
-----------------------------------------------------------------------------
Keys   == 0 .. MaxKey
Jobs   == 1 .. MaxJob
NoJob  == [id |-> 0, kind |-> "none", at |-> "ended", word |-> 0, old |-> 0, peer |-> 0,
           stop |-> FALSE, ok |-> FALSE]
Job    == [id : 0 .. MaxJob, kind : {"none", "offer", "receive", "rotate"},
           at : {"listen", "find", "agree", "parcel", "confirm", "write",
                 "first", "clear", "second", "ended"},
           word : Keys, old : Keys, peer : 0 .. MaxJob, stop : BOOLEAN,
           ok : BOOLEAN]
NotTurned == [from |-> 0, to |-> 0]
NoLink == [code |-> 0, to |-> 0, proofs |-> {}, parcel |-> 0, ack |-> FALSE]
Link   == [code : 0 .. MaxJob, to : 0 .. MaxJob, proofs : SUBSET {"offer", "receive"},
           parcel : Keys, ack : BOOLEAN]

TypeOK ==
  /\ key \in [Devices -> Keys] /\ made \in Keys /\ started \in 0 .. MaxJob
  /\ job \in [Devices -> Job] /\ handle \in [Devices -> 0 .. MaxJob]
  /\ exchange \in [Devices -> Keys]
  /\ folders \subseteq Devices \X (Keys \ {0}) /\ link \in [Jobs -> Link]
  /\ faults \in 0 .. MaxFault
  /\ turned \in [Devices -> [from : Keys, to : Keys]]
  /\ \A d \in Devices : /\ key[d] <= made /\ exchange[d] <= made /\ job[d].id <= started
                        /\ job[d].at = "write" => job[d].word # 0

Init ==
  /\ key = [d \in Devices |-> 0] /\ made = 0 /\ started = 0
  /\ job = [d \in Devices |-> NoJob] /\ handle = [d \in Devices |-> 0]
  /\ exchange = [d \in Devices |-> 0] /\ folders = {} /\ link = [j \in Jobs |-> NoLink]
  /\ faults = 0
  /\ turned = [d \in Devices |-> NotTurned]
-----------------------------------------------------------------------------
(* The key's file.  A write that fails is not noticed (write_key), and a   *)
(* read that fails counts as no key at all (key).                          *)
Faulty == faults < MaxFault /\ faults' = faults + 1
Sound  == UNCHANGED faults

Written(d, k) == key' = [key EXCEPT ![d] = k]
WriteKey(d, k) ==
  \/ Sound /\ Written(d, k)
  \/ Faulty /\ UNCHANGED key

(* A device that has a key keeps it; the word is the one to hand over.     *)
MakeKey(d, word) ==
  \/ key[d] # 0 /\ word = key[d] /\ Sound /\ UNCHANGED <<key, made>>
  \/ /\ key[d] = 0 /\ made < MaxKey
     /\ made' = made + 1 /\ word = made' /\ WriteKey(d, word)
  \/ /\ key[d] # 0 /\ made < MaxKey
     /\ made' = made + 1 /\ word = made' /\ Faulty
     /\ Written(d, word) \/ UNCHANGED key
-----------------------------------------------------------------------------
(* The exchange of the timer and of nus sync now, one at a time.  It has   *)
(* the key it was begun with.                                              *)
Idle(d) == exchange[d] = 0

SyncNow(d) ==
  exchange' = IF Idle(d) THEN [exchange EXCEPT ![d] = key'[d]] ELSE exchange

Timer_first(d) ==
  /\ Idle(d) /\ key[d] # 0 /\ \A f \in folders : f[1] # d
  /\ exchange' = [exchange EXCEPT ![d] = key[d]]
  /\ UNCHANGED <<key, made, started, job, handle, folders, link, faults, turned>>

Timer(d) ==
  /\ Idle(d) /\ key[d] # 0
  /\ exchange' = [exchange EXCEPT ![d] = key[d]]
  /\ UNCHANGED <<key, made, started, job, handle, folders, link, faults, turned>>

Published(d, k) == folders' = folders \cup {<<d, k>>}

Exchanged(d) ==
  /\ ~Idle(d)
  /\ exchange' = [exchange EXCEPT ![d] = 0]
  /\ \/ Sound /\ Published(d, exchange[d])
     \/ Faulty /\ UNCHANGED folders
  /\ UNCHANGED <<key, made, started, job, handle, link, turned>>

(* A key typed in (nus sync join) or forgotten in the settings.            *)
Join(d, k) ==
  /\ k \in 1 .. made /\ k # key[d]
  /\ Faulty /\ Written(d, k) /\ SyncNow(d)
  /\ turned' = [turned EXCEPT ![d] = NotTurned]
  /\ UNCHANGED <<made, started, job, handle, folders, link>>

Forget(d) ==
  /\ key[d] # 0
  /\ Faulty /\ Written(d, 0)
  /\ turned' = [turned EXCEPT ![d] = NotTurned]
  /\ UNCHANGED <<made, started, app, folders, link>>
-----------------------------------------------------------------------------
(* The slot of the one job.  Its answer is taken by whoever asks first; a  *)
(* key that came in with it is synced at once, if no exchange is running.  *)
Me(d)       == job[d].id
Running(d)  == job[d].at # "ended"
Answered(d) == Me(d) # 0 /\ ~Running(d)
NewsIn(d)   == job[d].ok /\ job[d].kind \in {"receive", "rotate"}

Finished(d) == IF Answered(d) /\ NewsIn(d) THEN SyncNow(d) ELSE UNCHANGED exchange

(* A running job or exchange refuses another job; an answer nobody came    *)
(* for is dealt with first, which may itself begin an exchange.            *)
Refused(d) ==
  /\ \/ Running(d) /\ UNCHANGED <<job, exchange>>
     \/ /\ ~Running(d) /\ Finished(d) /\ exchange'[d] # 0
        /\ job' = [job EXCEPT ![d] = NoJob]
  /\ UNCHANGED started

Starts(d, j) ==
  /\ ~Running(d) /\ Finished(d) /\ exchange'[d] = 0
  /\ started < MaxJob /\ started' = started + 1
  /\ job' = [job EXCEPT ![d] = [j EXCEPT !.id = started']]

(* nus sync pair: the flag that stops it is put in its place before the    *)
(* slot is asked for.                                                      *)
Handle(d, j) == handle' = [handle EXCEPT ![d] = j]

PairOffer(d) ==
  /\ "offer" \in Verbs[d]
  /\ \E word \in Keys :
       /\ MakeKey(d, word)
       /\ \/ Refused(d) /\ Handle(d, 0) /\ UNCHANGED link
          \/ /\ Starts(d, [NoJob EXCEPT !.kind = "offer", !.at = "listen", !.word = word])
             /\ Handle(d, started') /\ link' = [link EXCEPT ![started'].code = started']
  /\ turned' = IF key' = key THEN turned ELSE [turned EXCEPT ![d] = NotTurned]
  /\ UNCHANGED folders

(* nus sync pair <code>: the code of an offer, or one that none has.       *)
PairReceive(d) ==
  /\ "receive" \in Verbs[d]
  /\ UNCHANGED <<key, made, faults>>
  /\ \/ Refused(d) /\ Handle(d, 0) /\ UNCHANGED link
     \/ /\ Starts(d, [NoJob EXCEPT !.kind = "receive", !.at = "find"])
        /\ Handle(d, started')
        /\ \E code \in {job[e].id : e \in {e \in Devices : job[e].kind = "offer"}} \cup {started'} :
             link' = [link EXCEPT ![started'].code = code]
  /\ UNCHANGED <<folders, turned>>

Rotate(d) ==
  /\ "rotate" \in Verbs[d]
  /\ key[d] # 0 /\ UNCHANGED <<key, faults>>
  /\ \/ Refused(d) /\ UNCHANGED made
     \/ /\ made < MaxKey /\ made' = made + 1
        /\ Starts(d, [NoJob EXCEPT !.kind = "rotate", !.at = "first", !.old = key[d],
                                   !.word = made'])
  /\ UNCHANGED <<handle, folders, link, turned>>

(* The answer goes to the terminal that asks next, whichever job it        *)
(* started, or to nobody after ten minutes.                                *)
Collect(d) ==
  /\ Answered(d) /\ UNCHANGED key /\ Finished(d)
  /\ job' = [job EXCEPT ![d] = NoJob]
  /\ UNCHANGED <<made, started, handle, folders, link, faults, turned>>

(* Ctrl+C at a terminal that has started a pairing.                        *)
Interrupt(d) ==
  /\ handle[d] # 0
  /\ Handle(d, 0)
  /\ job' = IF handle[d] = Me(d) /\ Running(d) THEN [job EXCEPT ![d].stop = TRUE] ELSE job
  /\ UNCHANGED <<key, made, started, exchange, folders, link, faults, turned>>

Terminals(d) ==
  PairOffer(d) \/ PairReceive(d) \/ Rotate(d) \/ Collect(d) \/ Interrupt(d)
-----------------------------------------------------------------------------
(* The worker of a job.  An offer looks at its deadline, its flag and then *)
(* its listener, ten times a second; the one who comes ends the wait.      *)
Goes(d, at) == job' = [job EXCEPT ![d].at = at]
Ends(d, ok) == job' = [job EXCEPT ![d].at = "ended", ![d].ok = ok]
Came(d)     == {r \in Jobs : link[r].to = Me(d)}
At(d, kind, at) == job[d].kind = kind /\ job[d].at = at

unmoved == <<made, started, handle, exchange>>

Look(d) ==
  /\ At(d, "offer", "listen") /\ job[d].stop /\ Ends(d, FALSE)
  /\ UNCHANGED <<key, faults, folders, link, turned, unmoved>>

Accept(d) ==
  /\ At(d, "offer", "listen") /\ ~job[d].stop
  /\ \E r \in Came(d) :
       /\ job' = [job EXCEPT ![d].at = "agree", ![d].peer = r]
       /\ link' = [link EXCEPT ![r].proofs = @ \cup {"offer"}]
  /\ UNCHANGED <<key, faults, folders, turned, unmoved>>

Lapse_asked(d) ==
  /\ At(d, "offer", "listen") /\ job[d].stop /\ Ends(d, FALSE)
  /\ UNCHANGED <<key, faults, folders, link, turned, unmoved>>

Lapse(d) ==
  /\ At(d, "offer", "listen") /\ Ends(d, FALSE)
  /\ UNCHANGED <<key, faults, folders, link, turned, unmoved>>

(* Each end has the other's proof, which is right if the codes were the    *)
(* same; a wrong one ends the offer and nothing is sent.                   *)
Agreed_any(r) == link[r].to # 0
Agreed(r) == link[r].code = link[r].to

OfferAgrees_again(d) ==
  /\ At(d, "offer", "agree") /\ "receive" \in link[job[d].peer].proofs
  /\ IF Agreed(job[d].peer)
     THEN Goes(d, "confirm") /\ link' = [link EXCEPT ![job[d].peer].parcel = job[d].word]
     ELSE Goes(d, "listen") /\ UNCHANGED link
  /\ UNCHANGED <<key, faults, folders, turned, unmoved>>

OfferAgrees(d) ==
  /\ At(d, "offer", "agree") /\ "receive" \in link[job[d].peer].proofs
  /\ IF Agreed(job[d].peer)
     THEN Goes(d, "confirm") /\ link' = [link EXCEPT ![job[d].peer].parcel = job[d].word]
     ELSE Ends(d, FALSE) /\ UNCHANGED link
  /\ UNCHANGED <<key, faults, folders, turned, unmoved>>

Confirmed(d) ==
  /\ At(d, "offer", "confirm") /\ link[job[d].peer].ack
  /\ Ends(d, TRUE)
  /\ UNCHANGED <<key, faults, folders, link, turned, unmoved>>

(* The other device connects to the address it was given, or to where the  *)
(* code's number was announced: to any offer, whose listener is open until *)
(* the job ends.                                                           *)
Connect(d) ==
  /\ At(d, "receive", "find")
  /\ \E e \in Devices \ {d} :
       /\ job[e].kind = "offer" /\ Running(e)
       /\ link' = [link EXCEPT ![Me(d)].to = Me(e), ![Me(d)].proofs = {"receive"}]
  /\ Goes(d, "agree")
  /\ UNCHANGED <<key, faults, folders, turned, unmoved>>

ReceiveAgrees(d) ==
  /\ At(d, "receive", "agree") /\ "offer" \in link[Me(d)].proofs
  /\ IF Agreed(Me(d)) THEN Goes(d, "parcel") ELSE Ends(d, FALSE)
  /\ UNCHANGED <<key, faults, folders, link, turned, unmoved>>

Open(d) ==
  /\ At(d, "receive", "parcel") /\ link[Me(d)].parcel # 0
  /\ job' = [job EXCEPT ![d].at = "write", ![d].word = link[Me(d)].parcel]
  /\ link' = [link EXCEPT ![Me(d)].ack = TRUE]
  /\ UNCHANGED <<key, faults, folders, turned, unmoved>>

(* Nothing for thirty seconds, or the other end has gone; cancelled or too *)
(* late before a connection is made.                                       *)
GiveUp(d) ==
  /\ job[d].at \in {"find", "agree", "parcel", "confirm"} /\ Ends(d, FALSE)
  /\ UNCHANGED <<key, faults, folders, link, turned, unmoved>>

(* Rotation: one round with the old key, the old folders off, one round    *)
(* with the new key.  Only a first round that fails leaves all as it was.  *)
FirstRound(d) ==
  /\ At(d, "rotate", "first")
  /\ \/ Sound /\ Published(d, job[d].old) /\ Goes(d, "clear")
     \/ Faulty /\ UNCHANGED folders /\ Ends(d, FALSE)
  /\ UNCHANGED <<key, link, turned, unmoved>>

Clear(d) ==
  /\ At(d, "rotate", "clear") /\ Goes(d, "second")
  /\ LET old == {f \in folders : f[2] = job[d].old}
     IN  \/ Sound /\ folders' = folders \ old
         \/ \E f \in old : Faulty /\ folders' = (folders \ old) \cup {f}
  /\ turned' = [turned EXCEPT ![d] =
       [from |-> IF <<d, job[d].old>> \in folders' THEN 0 ELSE job[d].old, to |-> job[d].word]]
  /\ UNCHANGED <<key, link, unmoved>>

SecondRound(d) ==
  /\ At(d, "rotate", "second") /\ Goes(d, "write")
  /\ \/ Sound /\ Published(d, job[d].word)
     \/ Faulty /\ UNCHANGED folders
  /\ UNCHANGED <<key, link, turned, unmoved>>

(* The worker itself puts the key in its place, before anyone asks for the *)
(* answer.                                                                 *)
Kept_uncollected(d) == UNCHANGED <<key, faults>>
Kept(d) == WriteKey(d, job[d].word)

Write(d) ==
  /\ job[d].at = "write" /\ Kept(d) /\ Ends(d, TRUE)
  /\ turned' = IF job[d].kind = "receive" \/ faults' # faults
               THEN [turned EXCEPT ![d] = NotTurned] ELSE turned
  /\ UNCHANGED <<folders, link, unmoved>>

Worker(d) ==
  \/ Look(d) \/ Accept(d) \/ OfferAgrees(d) \/ Confirmed(d)
  \/ Connect(d) \/ ReceiveAgrees(d) \/ Open(d) \/ GiveUp(d)
  \/ FirstRound(d) \/ Clear(d) \/ SecondRound(d) \/ Write(d)
-----------------------------------------------------------------------------
(* The app is quit or killed, its workers with it.                         *)
Crash(d) ==
  /\ Faulty
  /\ job' = [job EXCEPT ![d] = NoJob] /\ Handle(d, 0)
  /\ exchange' = [exchange EXCEPT ![d] = 0]
  /\ turned' = IF Running(d) THEN [turned EXCEPT ![d] = NotTurned] ELSE turned
  /\ UNCHANGED <<key, made, started, folders, link>>

Next == \E d \in Devices :
  \/ Terminals(d) \/ Worker(d) \/ Lapse(d)
  \/ Timer(d) \/ Exchanged(d) \/ (\E k \in Keys : Join(d, k)) \/ Forget(d) \/ Crash(d)

Spec == Init /\ [][Next]_vars

(* Workers run on threads of their own and every wait of theirs has its    *)
(* time.  The timer of the exchange is on; people and faults owe nothing.  *)
FairSpec ==
  /\ Spec
  /\ \A d \in Devices : /\ WF_vars(Worker(d)) /\ WF_vars(Lapse(d))
                        /\ WF_vars(Timer(d)) /\ WF_vars(Exchanged(d))
-----------------------------------------------------------------------------
(* Properties.                                                             *)

(* What pairing reports and hands over is so: an offer that says a device  *)
(* has the key was confirmed by one that typed its code and opened its     *)
(* parcel, and no key ever goes to a code that is not the offer's.         *)
HandedRight ==
  /\ \A d \in Devices : At(d, "offer", "ended") /\ job[d].ok =>
       LET l == link[job[d].peer] IN l.code = Me(d) /\ l.parcel = job[d].word /\ l.ack
  /\ \A r \in Jobs : link[r].parcel # 0 => link[r].code = link[r].to

(* That, and every variable has its type.                                  *)
PairInv == TypeOK /\ HandedRight

(* One code, one try: an offer lets one device in, ever, right or wrong    *)
(* (pair.rs:14).                                                           *)
OneTry ==
  \A q, r \in Jobs : "offer" \in link[q].proofs \cap link[r].proofs /\ link[q].to = link[r].to
                     => q = r

(* A device whose rotation has taken the old folders away holds the new    *)
(* key as soon as the job has ended, whoever comes for its answer or does  *)
(* not, until it is forgotten or another is typed, received or, where its  *)
(* file could not be read, made for an offer (synccli.rs:341, :231).       *)
NoKeyStranded ==
  \A d \in Devices : turned[d].to # 0 /\ ~Running(d) => key[d] = turned[d].to

(* Every job ends, whoever left its other end or its terminal, so that the *)
(* one slot is free again.                                                 *)
JobsEnd == \A d \in Devices : []<>~Running(d)

(* A device that has a key comes to publish under it, or it has another.   *)
Republished == \A d \in Devices : []<>(key[d] = 0 \/ <<d, key[d]>> \in folders)

(* Ctrl+C stops the pairing that runs (docs/SYNC.md:130): as long as it    *)
(* does, its flag is at hand or has been set.                              *)
CanBeStopped ==
  \A d \in Devices : Running(d) /\ job[d].kind # "rotate" =>
    handle[d] = Me(d) \/ job[d].stop

(* What was rotated away stays away: nothing of this device is sealed with *)
(* the old key once the rotation has ended (sync/src/lib.rs:911).          *)
OldReadsNothing ==
  \A d \in Devices : turned[d].from # 0 /\ ~Running(d) => <<d, turned[d].from>> \notin folders
=============================================================================

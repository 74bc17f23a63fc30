------------------------------- MODULE Vault -------------------------------
(***************************************************************************)
(* The vault (crates/vault): a profile's records are sealed with a key     *)
(* that the system's credential store holds under the identifier written   *)
(* in .vault-id. Here are the making of that key, reading and writing a    *)
(* record by two threads of the app, the migration of plaintext at start   *)
(* (spikes/composite/src/protected_state.rs), and the uninstall that       *)
(* erases the keys of one channel (crates/cli/src/lifecycle.rs).           *)
(*                                                                         *)
(* Each profile has one record. Identifiers and texts are numbered as they *)
(* are made: text 1 is the plaintext of an older build, and 0 is what      *)
(* damage leaves. Sealing is perfect: a record opens with its own key and  *)
(* with no other, and never once it is damaged.                            *)
(***************************************************************************)
EXTENDS Integers, FiniteSets

CONSTANTS
  Profiles,
  Doomed,     (* the profiles of the channel that is uninstalled           *)
  Threads,    (* of an app                                                 *)
  Main,       (* the thread that starts it, and the only one that writes   *)
  MaxId,      (* bound: keys made                                          *)
  MaxText,    (* bound: texts written                                      *)
  MaxFault    (* bound: failures of the store and of files, damage, and an *)
              (* uninstall killed                                          *)

ASSUME VaultAssumption ==
  /\ Doomed \subseteq Profiles /\ Main \in Threads
  /\ {MaxId, MaxText, MaxFault} \subseteq Nat /\ MaxText > 0

VARIABLES
  marker,     (* profile -> .vault-id, 0 for none                          *)
  keys,       (* identifiers the credential store has a key for            *)
  made,       (* identifiers made so far                                   *)
  format,     (* profiles with .vault-format                               *)
  file,       (* profile -> its record                                     *)
  open,       (* profiles an app has open                                  *)
  cached,     (* profile -> the key its app keeps in memory, 0 for none    *)
  op,         (* profile and thread -> what it is doing                    *)
  written,    (* texts written so far                                      *)
  purge,      (* the uninstall                                             *)
  gone,       (* profiles that were removed                                *)
  faults,
  named,      (* history: identifiers that were some profile's             *)
  erased      (* history: profiles whose key an uninstall has erased       *)

store == <<marker, keys, made, named>>
app   == <<open, cached, written>>
fate  == <<purge, gone, erased>>
vars  == <<store, format, file, app, op, fate, faults>>
-----------------------------------------------------------------------------
Ids     == 0 .. MaxId
NoFile  == [form |-> "none", id |-> 0, text |-> 0]
Plain(x)     == [form |-> "plain", id |-> 0, text |-> x]
Sealed(k, x) == [form |-> "sealed", id |-> k, text |-> x]
Record  == [form : {"none", "plain", "sealed", "damaged"}, id : Ids, text : 0 .. MaxText]
Idle    == [do |-> "nothing", at |-> "end", id |-> 0, saw |-> NoFile]
Op      == [do : {"nothing", "migrate", "read", "write"},
            at : {"end", "key", "name", "open", "judge", "reseal", "put"}, id : Ids, saw : Record]
NoPurge == [at |-> "no", retained |-> {}, left |-> {}]

TypeOK ==
  /\ marker \in [Profiles -> Ids] /\ keys \subseteq 1 .. made /\ made \in Ids
  /\ format \subseteq Profiles /\ file \in [Profiles -> Record]
  /\ open \subseteq Profiles /\ cached \in [Profiles -> Ids]
  /\ op \in [Profiles -> [Threads -> Op]] /\ written \in 1 .. MaxText
  /\ purge \in [at : {"no", "lock", "erase", "done"}, retained : SUBSET Ids,
                left : SUBSET Doomed]
  /\ gone \subseteq Doomed /\ erased \subseteq Doomed /\ faults \in 0 .. MaxFault
  /\ named \subseteq 1 .. made
  /\ \A p \in Profiles :
       /\ cached[p] # 0 => p \in open /\ cached[p] = marker[p]
       /\ p \notin open => \A t \in Threads : op[p][t] = Idle

(* A profile is new, or has the plaintext of an older build.               *)
Init ==
  /\ marker = [p \in Profiles |-> 0] /\ keys = {} /\ made = 0 /\ format = {}
  /\ file \in [Profiles -> {NoFile, Plain(1)}]
  /\ open = {} /\ cached = [p \in Profiles |-> 0]
  /\ op = [p \in Profiles |-> [t \in Threads |-> Idle]] /\ written = 1
  /\ purge = NoPurge /\ gone = {} /\ faults = 0
  /\ named = {} /\ erased = {}

Faulty == faults < MaxFault /\ faults' = faults + 1
Sound  == UNCHANGED faults
-----------------------------------------------------------------------------
(* What a thread is doing.                                                 *)
At(p, t, at)   == op[p][t].at = at
Goes(p, t, at) == op' = [op EXCEPT ![p][t].at = at]
Ends(p, t)     == op' = [op EXCEPT ![p][t] = Idle]
Begins(p, t, do, at) == op' = [op EXCEPT ![p][t] = [Idle EXCEPT !.do = do, !.at = at]]
Fails(p, t)    == Faulty /\ Ends(p, t)

(* The app starts: it has the profile to itself, and migrates before any   *)
(* other thread has begun.                                                 *)
Start(p) ==
  /\ p \notin open \cup gone
  /\ purge.at = "erase" => p \notin Doomed
  /\ open' = open \cup {p} /\ Begins(p, Main, "migrate", "key")
  /\ UNCHANGED <<store, format, file, cached, written, fate, faults>>

Free(p, t) == p \in open /\ op[p][Main].do # "migrate" /\ op[p][t] = Idle

Read(p, t) ==
  /\ Free(p, t) /\ Begins(p, t, "read", "open")
  /\ UNCHANGED <<store, format, file, app, fate, faults>>

Write(p) ==
  /\ Free(p, Main) /\ Begins(p, Main, "write", "key")
  /\ UNCHANGED <<store, format, file, app, fate, faults>>

(* It is quit or killed, at any step.                                      *)
Quit(p) ==
  /\ p \in open /\ open' = open \ {p}
  /\ cached' = [cached EXCEPT ![p] = 0]
  /\ op' = [op EXCEPT ![p] = [t \in Threads |-> Idle]]
  /\ UNCHANGED <<store, format, file, written, fate, faults>>
-----------------------------------------------------------------------------
(* key: what a thread has in hand is looked for first, then the key of the *)
(* identifier, and only where there is none a new one is made. One thread  *)
(* makes it, the others wait. The name is written when the store has the   *)
(* key and gave it back.                                                   *)
Alone(p) == \A t \in Threads : ~At(p, t, "name")

HasKey(p, t) ==
  /\ At(p, t, "key") /\ Alone(p) /\ cached[p] # 0
  /\ \/ op[p][t].do = "read" /\ Goes(p, t, "judge")
     \/ op[p][t].do = "write" /\ Goes(p, t, "open")
     \/ op[p][t].do = "migrate" /\ p \notin format /\ Goes(p, t, "open")
     \/ op[p][t].do = "migrate" /\ p \in format /\ Ends(p, t)
  /\ UNCHANGED <<store, format, file, app, fate, faults>>

FetchKey(p, t) ==
  /\ At(p, t, "key") /\ Alone(p) /\ cached[p] = 0 /\ marker[p] # 0
  /\ \/ /\ marker[p] \in keys /\ Sound
        /\ cached' = [cached EXCEPT ![p] = marker[p]] /\ UNCHANGED op
     \/ marker[p] \notin keys /\ Sound /\ Ends(p, t) /\ UNCHANGED cached
     \/ Fails(p, t) /\ UNCHANGED cached
  /\ UNCHANGED <<store, format, file, open, written, fate>>

NewKey(p, t) ==
  /\ At(p, t, "key") /\ Alone(p) /\ cached[p] = 0 /\ marker[p] = 0
  /\ made < MaxId /\ made' = made + 1
  /\ \/ /\ Sound /\ keys' = keys \cup {made'}
        /\ op' = [op EXCEPT ![p][t].at = "name", ![p][t].id = made']
     \/ Fails(p, t) /\ UNCHANGED keys
  /\ UNCHANGED <<marker, named, format, file, app, fate>>

NameKey(p, t) ==
  /\ At(p, t, "name")
  /\ \/ /\ Sound /\ Goes(p, t, "key")
        /\ marker' = [marker EXCEPT ![p] = op[p][t].id] /\ named' = named \cup {op[p][t].id}
     \/ Fails(p, t) /\ UNCHANGED <<marker, named>>
  /\ UNCHANGED <<keys, made, format, file, app, fate>>
-----------------------------------------------------------------------------
(* read_at: the bytes, the key, then what the bytes are. What a read finds *)
(* goes back as it is; a write and the migration go on from it.            *)
Found(p, t) == IF op[p][t].do = "read" THEN Ends(p, t) ELSE Goes(p, t, "put")

Open(p, t) ==
  /\ At(p, t, "open")
  /\ IF file[p] = NoFile THEN Found(p, t)
     ELSE op' = [op EXCEPT ![p][t].saw = file[p],
                           ![p][t].at = IF op[p][t].do = "read" THEN "key" ELSE "judge"]
  /\ UNCHANGED <<store, format, file, app, fate, faults>>

Opens(p, r)  == r.form = "sealed" /\ r.id = cached[p]
Legacy_always(p, r) == r.form = "plain"
Legacy(p, r) == r.form = "plain" /\ p \notin format

Judge(p, t) ==
  LET saw == op[p][t].saw IN
  /\ At(p, t, "judge")
  /\ \/ Opens(p, saw) /\ Found(p, t)
     \/ Legacy(p, saw) /\ Goes(p, t, "reseal")
     \/ ~Opens(p, saw) /\ ~Legacy(p, saw) /\ Ends(p, t)
  /\ UNCHANGED <<store, format, file, app, fate, faults>>

(* Plaintext is sealed where it is before it is handed back; giving it its *)
(* date again can still fail then.                                         *)
Reseal(p, t) ==
  /\ At(p, t, "reseal")
  /\ \/ /\ (Sound /\ Found(p, t)) \/ Fails(p, t)
        /\ file' = [file EXCEPT ![p] = Sealed(cached[p], op[p][t].saw.text)]
     \/ Fails(p, t) /\ UNCHANGED file
  /\ UNCHANGED <<store, format, app, fate>>

Put(p, t) ==
  /\ At(p, t, "put") /\ op[p][t].do = "write" /\ written < MaxText
  /\ \/ /\ Sound /\ Ends(p, t) /\ written' = written + 1
        /\ file' = [file EXCEPT ![p] = Sealed(cached[p], written')]
     \/ Fails(p, t) /\ UNCHANGED <<file, written>>
  /\ UNCHANGED <<store, format, open, cached, fate>>

(* Every record came through: from now on plaintext is refused.            *)
FinishMigration(p) ==
  /\ At(p, Main, "put") /\ op[p][Main].do = "migrate"
  /\ \/ Sound /\ Ends(p, Main) /\ format' = format \cup {p}
     \/ Fails(p, Main) /\ UNCHANGED format
  /\ UNCHANGED <<store, file, app, fate>>

Thread(p, t) ==
  \/ Read(p, t) \/ HasKey(p, t) \/ FetchKey(p, t) \/ NewKey(p, t) \/ NameKey(p, t)
  \/ Open(p, t) \/ Judge(p, t) \/ Reseal(p, t) \/ Put(p, t)
-----------------------------------------------------------------------------
(* What happens to a profile from outside: a record at rest is damaged,    *)
(* perhaps so that it looks like plaintext; a closed profile is copied to  *)
(* a new place with its identifier, before anything is removed.            *)
Damage(p) ==
  /\ \A t \in Threads : op[p][t] = Idle
  /\ file[p].form \in {"plain", "sealed"} /\ Faulty
  /\ \E bad \in {Plain(0), [form |-> "damaged", id |-> 0, text |-> 0]} :
       file' = [file EXCEPT ![p] = bad]
  /\ UNCHANGED <<store, format, app, op, fate>>

Copy(p, q) ==
  /\ {p, q} \cap (open \cup gone \cup erased) = {} /\ purge = NoPurge
  /\ marker[p] # 0 /\ marker[q] = 0 /\ file[q] = NoFile
  /\ marker' = [marker EXCEPT ![q] = marker[p]] /\ file' = [file EXCEPT ![q] = file[p]]
  /\ format' = IF p \in format THEN format \cup {q} ELSE format \ {q}
  /\ UNCHANGED <<keys, made, named, app, op, fate, faults>>
-----------------------------------------------------------------------------
(* The uninstall of one channel, with its data: the identifiers that other *)
(* profiles still use, then every profile's lock, then the keys, then the  *)
(* files; it may be run again after it failed or was killed.               *)
Standing == Doomed \ gone
Retained_mine == {marker[q] : q \in gone} \ {0}
Retained == {marker[q] : q \in Profiles \ Doomed} \ {0}

Survey ==
  /\ purge.at = "no" /\ Standing # {}
  /\ purge' = [at |-> "lock", retained |-> Retained, left |-> {}]
  /\ UNCHANGED <<store, format, file, app, op, gone, erased, faults>>

Lock ==
  /\ purge.at = "lock"
  /\ purge' = IF Standing \cap open = {} THEN [purge EXCEPT !.at = "erase", !.left = Standing]
              ELSE NoPurge
  /\ UNCHANGED <<store, format, file, app, op, gone, erased, faults>>

Erases(p) == marker[p] \notin purge.retained \cup {0}
Sharing(p) == {q \in Standing : marker[q] = marker[p]}

EraseKey_quiet(p) ==
  /\ purge.at = "erase" /\ p \in purge.left
  /\ purge' = [purge EXCEPT !.left = @ \ {p}]
  /\ erased' = IF Erases(p) THEN erased \cup Sharing(p) ELSE erased
  /\ \/ Sound /\ keys' = IF Erases(p) THEN keys \ {marker[p]} ELSE keys
     \/ Faulty /\ UNCHANGED keys
  /\ UNCHANGED <<marker, made, named, format, file, app, op, gone>>

EraseKey(p) ==
  /\ purge.at = "erase" /\ p \in purge.left
  /\ \/ /\ Sound /\ purge' = [purge EXCEPT !.left = @ \ {p}]
        /\ keys' = IF Erases(p) THEN keys \ {marker[p]} ELSE keys
        /\ erased' = IF Erases(p) THEN erased \cup Sharing(p) ELSE erased
     \/ Erases(p) /\ Faulty /\ purge' = NoPurge /\ UNCHANGED <<keys, erased>>
  /\ UNCHANGED <<marker, made, named, format, file, app, op, gone>>

Remove ==
  /\ purge.at = "erase" /\ purge.left = {}
  /\ \E some \in SUBSET Standing :
       /\ some # Standing => Faulty
       /\ some = Standing => Sound
       /\ gone' = gone \cup some
       /\ purge' = [NoPurge EXCEPT !.at = IF some = Standing THEN "done" ELSE "no"]
       /\ file' = [p \in Profiles |-> IF p \in some THEN NoFile ELSE file[p]]
       /\ marker' = [p \in Profiles |-> IF p \in some THEN 0 ELSE marker[p]]
       /\ format' = format \ some
  /\ UNCHANGED <<keys, made, named, app, op, erased>>

UninstallDies ==
  /\ purge.at \in {"lock", "erase"} /\ Faulty /\ purge' = NoPurge
  /\ UNCHANGED <<store, format, file, app, op, gone, erased>>

Uninstall == Survey \/ Lock \/ (\E p \in Doomed : EraseKey(p)) \/ Remove \/ UninstallDies
-----------------------------------------------------------------------------
Next ==
  \/ \E p \in Profiles :
       \/ Start(p) \/ Write(p) \/ Quit(p) \/ FinishMigration(p) \/ Damage(p)
       \/ (\E t \in Threads : Thread(p, t)) \/ (\E q \in Profiles : Copy(p, q))
  \/ Uninstall

Spec == Init /\ [][Next]_vars
-----------------------------------------------------------------------------
(* Properties.                                                             *)

(* The store has the key of every profile that has an identifier, and a    *)
(* sealed record is sealed with it: no crash while the key is made, and no *)
(* uninstall of another channel, makes what is saved unreadable            *)
(* (vault/src/lib.rs:112, lifecycle.rs:839).                               *)
Openable ==
  \A p \in Profiles \ erased :
    /\ marker[p] # 0 => marker[p] \in keys
    /\ file[p].form = "sealed" => file[p].id = marker[p]

(* That, and every variable has its type.                                  *)
VaultInv == TypeOK /\ Openable

Rewritten(p) == file'[p] # file[p] /\ file'[p].form = "sealed"
ByWrite(p)   == /\ file[p].form \in {"none", "sealed"}
                /\ written' # written /\ file'[p].text = written'

(* What cannot be opened is never replaced by something new                *)
(* (vault/src/lib.rs:321).  And once the migration is complete the last    *)
(* write stands: no read that had begun before puts an older text back,    *)
(* and nothing that damage has made look like plaintext is taken in.       *)
LastWriteStands ==
  [][\A p \in Profiles : Rewritten(p) =>
       /\ file[p].form # "damaged"
       /\ p \in format => ByWrite(p)]_vars

(* The same before the migration is complete, as vault/src/lib.rs:364 asks *)
(* of those who write but of nobody who reads: it does not hold.           *)
NoWriteUndone == [][\A p \in Profiles : Rewritten(p) /\ file[p].form = "sealed" => ByWrite(p)]_vars

(* An uninstall that says it is done, however often it had to be run, has  *)
(* left no key behind but those that other profiles use and those that no  *)
(* profile was ever named after.                                           *)
NoKeyLeft ==
  purge.at = "done" =>
    \A k \in keys \cap named : \E p \in Profiles \ gone : marker[p] = k
=============================================================================

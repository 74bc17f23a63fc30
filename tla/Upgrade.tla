------------------------------ MODULE Upgrade ------------------------------
(***************************************************************************)
(* An update of nus and the way back from it: the generations of the       *)
(* profile (crates/compat/src/profile.rs), the start of the app that saves *)
(* and recovers them (compatibility.rs) and the helper that exchanges the  *)
(* installed package for another once the app has quit (update_install.rs).*)
(*                                                                         *)
(* The profile's lock lets one app in at a time; another that is launched  *)
(* meanwhile is refused and leaves no trace.  A directory that may be      *)
(* missing is the set of what it holds: a profile, or nothing.             *)
(***************************************************************************)
EXTENDS Integers

CONSTANTS
  Format,       (* version -> the format its stores and settings have      *)
  Helper,       (* the helpers that may be waiting at the same time        *)
  MaxGen,       (* bound: generations begun                                *)
  MaxSave,      (* bound: pieces of work                                   *)
  MaxInstall,   (* bound: packages moved aside                             *)
  MaxFault      (* bound: operations that fail, and crashes                *)

Version == DOMAIN Format

ASSUME UpgradeAssumption ==
  /\ {MaxGen, MaxSave, MaxInstall, MaxFault} \subseteq Nat
  /\ Version \subseteq Nat \ {0} /\ \A v \in Version : Format[v] \in Nat

VARIABLES
  live,       (* profile/                                                  *)
  staged,     (* recovery-profile/                                         *)
  saved,      (* generation -> preserved-{generation}/                     *)
  complete,   (* generation -> its profile, once complete.json is there    *)
  pending,    (* the generation recovery-pending.json names, or 0          *)
  last,       (* that of last-generation.json                              *)
  record,     (* update-recovery.json                                      *)
  begun,      (* generations begun so far                                  *)
  saves,      (* pieces of work done so far                                *)
  app,        (* the app that has the profile's lock                       *)
  target,     (* the version installed, or 0                               *)
  packages,   (* the packages retained beside it                           *)
  aside,      (* how many were ever moved there                            *)
  helper,     (* the installers                                            *)
  faults,
  cut         (* history: the package moved aside by one that was killed   *)
              (* before its second move, or could not move it back; or 0   *)

root == <<live, staged, saved, pending>>
kept == <<complete, begun, last>>
packs == <<target, packages, aside, cut>>
install == <<packs, helper>>
vars == <<root, kept, record, saves, app, install, faults>>
-----------------------------------------------------------------------------
Gens     == 1 .. MaxGen
Slots    == 1 .. MaxInstall
Some     == Version \cup {0}
Work     == 1 .. MaxSave
Profiles == [ver : Some, schema : {Format[v] : v \in Version} \cup {0}, work : SUBSET Work]
Bare     == [ver |-> 0, schema |-> 0, work |-> {}]
AtMost1  == {{}} \cup {{p} : p \in Profiles}

Off  == [at |-> "off", ver |-> 0, id |-> 0, here |-> FALSE]
Apps == [at : {"off", "start", "restage", "aside", "place", "clear", "open", "checkpoint",
               "last", "contract", "record", "running"},
         ver : Some, id : Gens \cup {0}, here : BOOLEAN]

NoRecord == [prev |-> 0, next |-> 0, package |-> 0, generation |-> 0]
Records  == [prev : Some, next : Some, package : Slots \cup {0}, generation : Gens \cup {0}]

Idle    == [at |-> "none", to |-> 0, from |-> 0, back |-> 0, id |-> 0, gone |-> FALSE]
Helpers == [at : {"none", "waiting", "moved", "launch"}, to : Some, from : Slots \cup {0},
            back : Slots \cup {0}, id : Gens \cup {0}, gone : BOOLEAN]

TypeOK ==
  /\ live \in AtMost1 /\ staged \in AtMost1
  /\ saved \in [Gens -> AtMost1] /\ complete \in [Gens -> AtMost1]
  /\ {pending, last, begun} \subseteq Gens \cup {0}
  /\ record \in Records /\ saves \in 0 .. MaxSave /\ app \in Apps
  /\ target \in Some /\ packages \in [Slots -> Some] /\ aside \in 0 .. MaxInstall
  /\ helper \in [Helper -> Helpers] /\ faults \in 0 .. MaxFault
  /\ cut \in Slots \cup {0}

(* No profile yet, or one from before the contract.                        *)
Init ==
  /\ live \in {{}} \cup {{[Bare EXCEPT !.schema = Format[v]]} : v \in Version}
  /\ staged = {} /\ saved = [g \in Gens |-> {}] /\ complete = [g \in Gens |-> {}]
  /\ pending = 0 /\ last = 0 /\ begun = 0 /\ record = NoRecord /\ saves = 0
  /\ app = Off /\ target \in Version /\ packages = [s \in Slots |-> 0] /\ aside = 0
  /\ helper = [h \in Helper |-> Idle] /\ faults = 0 /\ cut = 0
-----------------------------------------------------------------------------
Failing(n) == faults + n <= MaxFault /\ faults' = faults + n
Fault == Failing(1)
To(step) == app' = [app EXCEPT !.at = step]

(* Whoever waits for this app to be gone need wait no longer.              *)
Gone ==
  /\ app' = Off
  /\ helper' = [h \in Helper |-> IF helper[h].at = "none" THEN helper[h]
                                 ELSE [helper[h] EXCEPT !.gone = TRUE]]

(* A start that fails: the app says so and exits.                          *)
Refused == Gone /\ UNCHANGED <<root, kept, record, saves, packs, faults>>

Begin(v, id, here) == app' = [at |-> "start", ver |-> v, id |-> id, here |-> here]

(* The user launches the installed app, or a retained one where it lies,   *)
(* with --recover-profile or without.                                      *)
Launch ==
  /\ app = Off
  /\ \E id \in 0 .. begun :
       \/ target # 0 /\ Begin(target, id, TRUE)
       \/ \E s \in Slots : packages[s] # 0 /\ Begin(packages[s], id, FALSE)
  /\ UNCHANGED <<root, kept, record, saves, install, faults>>

Accepts(v, p) == p.ver <= v /\ (p.ver # 0 => Format[p.ver] <= Format[v])
-----------------------------------------------------------------------------
(* Recovery                                                                *)

(* The generation is whole and made by this version, and no other recovery *)
(* is pending nor has left anything in the way.                            *)
Selected ==
  /\ \E p \in complete[app.id] : p.ver = app.ver
  /\ pending \in {0, app.id}
  /\ pending = 0 => saved[app.id] = {} /\ staged = {}

Recover_early ==
  /\ app.at = "start" /\ app.id # 0 /\ Selected
  /\ staged' = (IF pending = 0 THEN {Bare} ELSE staged) /\ pending' = app.id
  /\ To(IF pending = 0 THEN "restage" ELSE "aside")
  /\ UNCHANGED <<live, saved, kept, record, saves, install, faults>>
Recover ==
  /\ app.at = "start" /\ app.id # 0
  /\ \/ ~Selected /\ Refused
     \/ /\ Selected /\ pending # 0 /\ To("aside")
        /\ UNCHANGED <<root, kept, record, saves, install, faults>>
     \/ /\ Selected /\ pending = 0 /\ To("restage")
        /\ staged' = {Bare}
        /\ UNCHANGED <<live, saved, pending, kept, record, saves, install, faults>>

(* The copy is complete before the recovery is written down.  A copy that  *)
(* fails is removed; that the writing down fails leaves it.                *)
Restage ==
  /\ app.at = "restage" /\ To("aside")
  /\ staged' = complete[app.id] /\ pending' = app.id
  /\ UNCHANGED <<live, saved, kept, record, saves, install, faults>>

RestageFails ==
  /\ app.at = "restage" /\ Gone /\ Fault
  /\ staged' \in {{}, complete[app.id]}
  /\ UNCHANGED <<live, saved, pending, kept, record, saves, packs>>

PutAside ==
  /\ app.at = "aside"
  /\ \/ /\ saved[app.id] = {} /\ live # {} /\ To("place")
        /\ saved' = [saved EXCEPT ![app.id] = live] /\ live' = {}
        /\ UNCHANGED <<staged, pending, kept, record, saves, install, faults>>
     \/ saved[app.id] = {} /\ live = {} /\ Refused
     \/ /\ saved[app.id] # {} /\ To("place")
        /\ UNCHANGED <<root, kept, record, saves, install, faults>>

Place ==
  /\ app.at = "place"
  /\ \/ /\ live = {} /\ staged # {} /\ To("clear")
        /\ live' = staged /\ staged' = {}
        /\ UNCHANGED <<saved, pending, kept, record, saves, install, faults>>
     \/ live = {} /\ staged = {} /\ Refused
     \/ /\ live # {} /\ To("clear")
        /\ UNCHANGED <<root, kept, record, saves, install, faults>>

Clear ==
  /\ app.at = "clear"
  /\ \/ staged # {} /\ Refused
     \/ /\ staged = {} /\ To("open") /\ pending' = 0
        /\ UNCHANGED <<live, staged, saved, kept, record, saves, install, faults>>
-----------------------------------------------------------------------------
(* Opening                                                                 *)

Opens_blind == pending = 0 /\ \A p \in live : Accepts(app.ver, p)
Opens_pending == \A p \in live : Accepts(app.ver, p) /\ p.schema <= Format[app.ver]
Opens ==
  /\ pending = 0
  /\ \A p \in live : Accepts(app.ver, p) /\ p.schema <= Format[app.ver]

Changed(p) == p.ver \notin {0, app.ver}

(* A changed version first copies the profile of the one before.           *)
Open ==
  /\ app.at = "open" \/ (app.at = "start" /\ app.id = 0)
  /\ \/ ~Opens /\ Refused
     \/ /\ Opens /\ live' = (IF live = {} THEN {Bare} ELSE live)
        /\ \/ /\ \E p \in live : Changed(p)
              /\ begun < MaxGen /\ begun' = begun + 1 /\ To("checkpoint")
           \/ /\ \A p \in live : ~Changed(p)
              /\ begun' = begun /\ To("contract")
        /\ UNCHANGED <<staged, saved, pending, complete, last, record, saves, install, faults>>

Checkpoint ==
  /\ app.at = "checkpoint" /\ To("last")
  /\ complete' = [complete EXCEPT ![begun] = live]
  /\ UNCHANGED <<root, begun, last, record, saves, install, faults>>

RememberLast ==
  /\ app.at = "last" /\ To("contract") /\ last' = begun
  /\ UNCHANGED <<root, complete, begun, record, saves, install, faults>>

WriteContract ==
  /\ app.at = "contract" /\ To("record")
  /\ live' = {[p EXCEPT !.ver = app.ver] : p \in live}
  /\ UNCHANGED <<staged, saved, pending, kept, record, saves, install, faults>>

(* The generation is written into the record of the update it was made     *)
(* for.                                                                    *)
MadeFor(r, g) == g # 0 /\ r.next = app.ver /\ \E p \in complete[g] : p.ver = r.prev

RecordGeneration ==
  /\ app.at = "record" /\ To("running")
  /\ record' = IF MadeFor(record, last) THEN [record EXCEPT !.generation = last] ELSE record
  /\ UNCHANGED <<root, kept, saves, install, faults>>

Save ==
  /\ app.at = "running" /\ saves < MaxSave /\ saves' = saves + 1
  /\ live' = {[p EXCEPT !.schema = Format[app.ver], !.work = p.work \cup {saves'}] : p \in live}
  /\ UNCHANGED <<staged, saved, pending, kept, record, app, install, faults>>

Quit == app.at = "running" /\ Refused

(* The app is killed, or any of its steps fails.                           *)
Crash ==
  /\ app # Off /\ Gone /\ Fault
  /\ UNCHANGED <<root, kept, record, saves, packs>>
-----------------------------------------------------------------------------
(* Updating and returning                                                  *)

Arm(h, to, from, id) ==
  /\ aside' = aside + 1
  /\ helper' = [helper EXCEPT ![h] =
       [at |-> "waiting", to |-> to, from |-> from, back |-> aside', id |-> id, gone |-> FALSE]]

(* The update is written down before its helper answers, and stays so when *)
(* the helper does not.                                                    *)
Update(h) ==
  /\ app.at = "running" /\ app.here /\ helper[h] = Idle /\ aside < MaxInstall
  /\ \E v \in Version :
       /\ v > app.ver /\ Format[app.ver] <= Format[v]
       /\ record' = [prev |-> app.ver, next |-> v, package |-> aside + 1, generation |-> 0]
       /\ \/ Arm(h, v, 0, 0) /\ UNCHANGED faults
          \/ Fault /\ UNCHANGED <<aside, helper>>
  /\ UNCHANGED <<root, kept, saves, app, target, packages, cut>>

(* recovery(): the package and the generation of the version before this   *)
(* one are both there, and belong together.                                *)
Offered ==
  /\ record.next = app.ver /\ record.generation # 0
  /\ packages[record.package] = record.prev
  /\ \E p \in complete[record.generation] : p.ver = record.prev

Return(h) ==
  /\ app.at = "running" /\ app.here /\ helper[h] = Idle /\ aside < MaxInstall
  /\ record.package # 0 /\ Offered
  /\ Arm(h, record.prev, record.package, record.generation)
  /\ UNCHANGED <<root, kept, record, saves, app, target, packages, cut, faults>>

Done(h) == helper' = [helper EXCEPT ![h] = Idle]

(* nus does not quit in four minutes.                                      *)
Cancel(h) ==
  /\ helper[h].at = "waiting" /\ ~helper[h].gone /\ Done(h)
  /\ UNCHANGED <<root, kept, record, saves, app, packs, faults>>

MoveAside(h) ==
  /\ helper[h].at = "waiting" /\ helper[h].gone
  /\ \/ /\ target # 0 /\ target' = 0 /\ UNCHANGED faults
        /\ packages' = [packages EXCEPT ![helper[h].back] = target]
        /\ helper' = [helper EXCEPT ![h].at = "moved"]
     \/ target = 0 /\ Done(h) /\ UNCHANGED <<target, packages, faults>>
     \/ target # 0 /\ Fault /\ Done(h) /\ UNCHANGED <<target, packages>>
  /\ UNCHANGED <<root, kept, record, saves, app, aside, cut>>

(* What is to be put in place is no longer where it was.                   *)
Missing(h) == helper[h].from # 0 /\ packages[helper[h].from] = 0

Restore_not(h) == Done(h) /\ UNCHANGED <<target, packages, cut>>
Restore(h) ==
  /\ target' = packages[helper[h].back]
  /\ packages' = [packages EXCEPT ![helper[h].back] = 0]
  /\ Done(h) /\ UNCHANGED cut

LeftAside(h) == cut' = helper[h].back /\ Done(h) /\ UNCHANGED <<target, packages>>

(* What cannot be moved in makes room for what was there before, and that  *)
(* move, too, can fail.                                                    *)
MoveIn(h) ==
  /\ helper[h].at = "moved"
  /\ \/ /\ ~Missing(h) /\ target' = helper[h].to /\ UNCHANGED <<cut, faults>>
        /\ packages' = [s \in Slots |-> IF s = helper[h].from THEN 0 ELSE packages[s]]
        /\ helper' = [helper EXCEPT ![h].at = "launch"]
     \/ Restore(h) /\ Failing(IF Missing(h) THEN 0 ELSE 1)
     \/ LeftAside(h) /\ Failing(IF Missing(h) THEN 1 ELSE 2)
  /\ UNCHANGED <<root, kept, record, saves, app, aside>>

(* The helper launches what it has put in place, or a later one has.       *)
Relaunch(h) ==
  /\ helper[h].at = "launch" /\ Done(h)
  /\ IF app = Off /\ target # 0 THEN Begin(target, helper[h].id, TRUE) ELSE UNCHANGED app
  /\ UNCHANGED <<root, kept, record, saves, packs, faults>>

Cut(h) ==
  /\ helper[h] # Idle /\ Fault
  /\ \/ helper[h].at = "moved" /\ LeftAside(h)
     \/ helper[h].at # "moved" /\ Done(h) /\ UNCHANGED <<target, packages, cut>>
  /\ UNCHANGED <<root, kept, record, saves, app, aside>>

Next ==
  \/ Launch \/ Recover \/ Restage \/ RestageFails \/ PutAside \/ Place \/ Clear
  \/ Open \/ Checkpoint \/ RememberLast \/ WriteContract \/ RecordGeneration
  \/ Save \/ Quit \/ Crash
  \/ \E h \in Helper :
       \/ Update(h) \/ Return(h) \/ Cancel(h) \/ MoveAside(h) \/ MoveIn(h)
       \/ Relaunch(h) \/ Cut(h)

Spec == Init /\ [][Next]_vars
-----------------------------------------------------------------------------
(* Whatever step a crash or a failure stops it at, and whatever is         *)
(* launched then, the profile's directories keep the archive's promise:    *)
(* the profile is the live one, or the staged one while a recovery has     *)
(* taken the live one out and not yet put it in.                           *)
A == INSTANCE Archive WITH
  Ids <- Gens,
  now <- IF live = {} /\ pending # 0 THEN staged ELSE live,
  generations <- UNION {{g} \X complete[g] : g \in Gens},
  preserved <- UNION {{g} \X saved[g] : g \in Gens}
Kept == A!Init /\ [][A!Next]_A!vars

(* The running app understands all there is in the profile, and it is      *)
(* marked as the app's: no older nus has come to write it (accepts).       *)
Understood ==
  app.at = "running" => \A p \in live : p.ver = app.ver /\ p.schema <= Format[app.ver]

(* A generation can be recovered by the version it is kept for: that could *)
(* read all of it.                                                         *)
GenerationsReadable ==
  \A g \in Gens : \A p \in complete[g] : p.ver # 0 /\ p.schema <= Format[p.ver]

(* Both, and every variable has its type.                                  *)
UpgradeInv == TypeOK /\ Understood /\ GenerationsReadable

(* A recovery that is written down can always be finished by launching the *)
(* version that began it with the same generation (recover: "Retrying      *)
(* after a crash completes the same two-rename transaction").              *)
Resumable ==
  pending # 0 =>
    /\ complete[pending] # {}
    /\ saved[pending] = {} => live # {} /\ staged = complete[pending]
    /\ saved[pending] # {} => (live = {}) = (staged # {})

(* Two helpers never meet between their two moves, and but for the moment  *)
(* in which one makes them there is an installation: "A failed swap        *)
(* restores the old package" (update_install.rs).  Where one was killed    *)
(* just then, or could not move the old package back, that is where the    *)
(* helper had put it.                                                      *)
Installed ==
  /\ \A h, i \in Helper : helper[h].at = "moved" /\ helper[i].at = "moved" => h = i
  /\ target = 0 =>
       \/ \E h \in Helper : helper[h].at = "moved"
       \/ cut # 0 /\ packages[cut] # 0
=============================================================================

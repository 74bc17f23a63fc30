--------------------------- MODULE UpgradeProofs ---------------------------
(***************************************************************************)
(* Proofs about Upgrade, for any versions, helpers and bounds: whatever    *)
(* step a crash stops it at, the profile and its generations keep the      *)
(* promise of Archive, what a version opens it can read, a recovery can be *)
(* finished, and an installation is always there.                          *)
(***************************************************************************)
EXTENDS Upgrade, TLAPS

(* What has a version's mark holds nothing that version cannot read.       *)
Readable(p) == p.ver # 0 => p.schema <= Format[p.ver]
LiveReadable == \A p \in live : Readable(p)

(* A generation that was not begun, or not completed yet, is empty; and    *)
(* there is none until there is a profile.                                 *)
Begun ==
  /\ \A g \in Gens : g > begun => complete[g] = {}
  /\ app.at = "checkpoint" => begun # 0 /\ complete[begun] = {}
  /\ live = {} /\ pending = 0 => \A g \in Gens : complete[g] = {}

(* A recovery that is written down, strengthened.                          *)
Resuming ==
  pending # 0 =>
    /\ complete[pending] # {}
    /\ saved[pending] = {} => live # {} /\ staged = complete[pending]
    /\ saved[pending] # {} => (live = {}) = (staged # {})
    /\ live = {} => staged = complete[pending]

(* How far the app has come.                                               *)
Stage ==
  /\ app.at # "off" => app.ver # 0
  /\ app.at = "restage" => app.id # 0 /\ pending = 0 /\ saved[app.id] = {} /\ complete[app.id] # {}
  /\ app.at \in {"aside", "place", "clear"} => pending = app.id /\ app.id # 0
  /\ app.at \in {"place", "clear"} => saved[app.id] # {}
  /\ app.at = "clear" => live # {}
  /\ app.at \in {"checkpoint", "last", "contract"} =>
       /\ pending = 0 /\ live # {}
       /\ \A p \in live : Accepts(app.ver, p) /\ p.schema <= Format[app.ver]
  /\ app.at = "checkpoint" => \A p \in live : Changed(p)
  /\ app.at \in {"record", "running"} =>
       /\ pending = 0 /\ live # {}
       /\ \A p \in live : p.ver = app.ver /\ p.schema <= Format[app.ver]

(* A helper that has moved the old package out can put either in.          *)
Moving ==
  \A h \in Helper :
    /\ helper[h].at # "none" => helper[h].back \in Slots
    /\ helper[h].at \in {"waiting", "moved"} => helper[h].to # 0
    /\ helper[h].at = "moved" => target = 0 /\ packages[helper[h].back] # 0

(* The profile and its generations, and the installation: no step but a    *)
(* start has to do with both.                                              *)
Profile == GenerationsReadable /\ LiveReadable /\ Begun /\ Resuming /\ Stage
Installation == Moving /\ Installed

IInv == TypeOK /\ Profile /\ Installation
-----------------------------------------------------------------------------
(* What the app and the helpers do                                         *)

Steps == {"off", "start", "restage", "aside", "place", "clear", "open", "checkpoint",
          "last", "contract", "record", "running"}

LEMMA ToApp ==
  ASSUME app \in Apps, NEW step \in Steps, To(step)
  PROVE  app' \in Apps /\ app'.at = step /\ app'.ver = app.ver /\ app'.id = app.id
  BY DEF To, Apps, Steps

LEMMA GoneApp ==
  ASSUME app' = Off
  PROVE  app' \in Apps /\ app'.at = "off" /\ Stage'
  BY DEF Off, Apps, Some, Stage

Lets(h) == [helper[h] EXCEPT !.gone = TRUE]

LEMMA LetsHelper ==
  ASSUME NEW h \in Helper, helper[h] \in Helpers
  PROVE  /\ Lets(h) \in Helpers /\ Lets(h).at = helper[h].at /\ Lets(h).to = helper[h].to
         /\ Lets(h).back = helper[h].back
  BY DEF Lets, Helpers

(* Every helper is where it was, whether it waits any longer or not.       *)
Attend ==
  /\ helper' \in [Helper -> Helpers]
  /\ \A h \in Helper : helper'[h].at = helper[h].at /\ helper'[h].to = helper[h].to
                        /\ helper'[h].back = helper[h].back

LEMMA GoneHelper ==
  ASSUME TypeOK, Gone
  PROVE  Attend
  <1>1. helper' = [h \in Helper |-> IF helper[h].at = "none" THEN helper[h] ELSE Lets(h)]
    BY DEF Gone, Lets
  <1>2. ASSUME NEW h \in Helper
        PROVE  helper[h] \in Helpers /\ helper'[h] \in {helper[h], Lets(h)}
    BY <1>1 DEF TypeOK
  <1>3. helper' \in [Helper -> Helpers]
    BY <1>1, <1>2, LetsHelper DEF TypeOK
  <1> QED  BY <1>2, <1>3, LetsHelper DEF Attend

LEMMA StayHelper ==
  ASSUME TypeOK, UNCHANGED helper
  PROVE  Attend
  BY DEF TypeOK, Attend

(* One helper moves on.                                                    *)
Only(h) == \A i \in Helper \ {h} : helper'[i] = helper[i]
Moves(h, at) == helper' = [helper EXCEPT ![h].at = at]
Sets(h, r) == helper' = [helper EXCEPT ![h] = r]

LEMMA SetHelper ==
  ASSUME TypeOK, NEW h \in Helper, NEW r \in Helpers, Sets(h, r)
  PROVE  helper' \in [Helper -> Helpers] /\ Only(h) /\ helper'[h] = r
  BY DEF TypeOK, Sets, Only

LEMMA DoneHelper ==
  ASSUME TypeOK, NEW h \in Helper, Done(h)
  PROVE  helper' \in [Helper -> Helpers] /\ Only(h) /\ helper'[h] = Idle
  <1>1. Idle \in Helpers /\ Sets(h, Idle)
    BY DEF Idle, Helpers, Some, Done, Sets
  <1> QED  BY <1>1, SetHelper

LEMMA MovesHelper ==
  ASSUME TypeOK, NEW h \in Helper, NEW at \in {"moved", "launch"}, Moves(h, at)
  PROVE  /\ helper' \in [Helper -> Helpers] /\ Only(h)
         /\ helper'[h].at = at /\ helper'[h].to = helper[h].to
         /\ helper'[h].back = helper[h].back
  <1> DEFINE r == [helper[h] EXCEPT !.at = at]
  <1>1. helper[h] \in Helpers
    BY DEF TypeOK
  <1>2. r \in Helpers /\ r.at = at /\ r.to = helper[h].to /\ r.back = helper[h].back
    BY <1>1 DEF Helpers
  <1>3. Sets(h, r)
    BY DEF Moves, Sets, TypeOK
  <1> HIDE DEF r
  <1> QED  BY <1>2, <1>3, SetHelper

LEMMA ArmsHelper ==
  ASSUME TypeOK, NEW h \in Helper, NEW to \in Some, NEW from \in Slots \cup {0},
         NEW id \in Gens \cup {0}, aside < MaxInstall, Arm(h, to, from, id)
  PROVE  /\ helper' \in [Helper -> Helpers] /\ Only(h) /\ aside' \in 0 .. MaxInstall
         /\ helper'[h].at = "waiting" /\ helper'[h].to = to /\ helper'[h].back \in Slots
  <1> DEFINE r == [at |-> "waiting", to |-> to, from |-> from, back |-> aside', id |-> id,
                   gone |-> FALSE]
  <1>1. aside' \in 0 .. MaxInstall /\ aside' \in Slots
    BY UpgradeAssumption DEF TypeOK, Arm, Slots
  <1>2. r \in Helpers /\ r.at = "waiting" /\ r.to = to /\ r.back = aside'
    BY <1>1 DEF Helpers
  <1>3. Sets(h, r)
    BY DEF Arm, Sets
  <1> HIDE DEF r
  <1> QED  BY <1>1, <1>2, <1>3, SetHelper
-----------------------------------------------------------------------------
(* The installation                                                        *)

LEMMA Installing ==
  ASSUME TypeOK, Installation, NEW h \in Helper, Only(h), helper'[h].at # "moved",
         helper'[h].at # "none" => helper'[h].back \in Slots,
         helper'[h].at = "waiting" => helper'[h].to # 0,
         UNCHANGED packages, target' = target,
         IF helper[h].at = "moved" THEN cut' = helper[h].back ELSE cut' = cut
  PROVE  Installation'
  <1>1. /\ helper[h].at = "moved" => cut' # 0 /\ packages[cut'] # 0
        /\ helper[h].at # "moved" => cut' = cut
    BY DEF Installation, Moving, Slots
  <1> QED  BY <1>1 DEF TypeOK, Installation, Moving, Installed, Only

LEMMA Attending ==
  ASSUME TypeOK, Installation, Attend, UNCHANGED packs
  PROVE  Installation'
  BY DEF Installation, Moving, Installed, Attend, packs

LEMMA UpdateInstallation ==
  ASSUME TypeOK, Installation, NEW h \in Helper, Update(h)
  PROVE  Installation'
  <1>1. CASE UNCHANGED <<aside, helper>>
    BY <1>1, StayHelper, Attending DEF Update, packs
  <1>2. CASE \E v \in Version : Arm(h, v, 0, 0)
    <2>1. PICK v \in Version : Arm(h, v, 0, 0)
      BY <1>2
    <2>2. v \in Some /\ v # 0 /\ 0 \in Slots \cup {0} /\ 0 \in Gens \cup {0}
      BY UpgradeAssumption DEF Some
    <2>3. /\ Only(h) /\ helper'[h].at = "waiting" /\ helper'[h].to = v
          /\ helper'[h].back \in Slots
      BY <2>1, <2>2, ArmsHelper DEF Update
    <2>4. helper[h].at # "moved" /\ UNCHANGED <<packages, target, cut>>
      BY DEF Update, Idle
    <2> QED  BY <2>2, <2>3, <2>4, Installing
  <1> QED  BY <1>1, <1>2 DEF Update

LEMMA ReturnInstallation ==
  ASSUME TypeOK, Profile, Installation, NEW h \in Helper, Return(h)
  PROVE  Installation'
  <1>1. /\ record.prev \in Some /\ record.package \in Slots
        /\ record.generation \in Gens
    BY DEF TypeOK, Records, Return, Offered
  <1>2. PICK p \in complete[record.generation] : p.ver = record.prev
    BY DEF Return, Offered
  <1>3. record.prev # 0
    BY <1>1, <1>2 DEF Profile, GenerationsReadable
  <1>4. /\ Only(h) /\ helper'[h].at = "waiting" /\ helper'[h].to = record.prev
        /\ helper'[h].back \in Slots
    BY <1>1, ArmsHelper DEF Return
  <1>5. helper[h].at # "moved" /\ UNCHANGED <<packages, target, cut>>
    BY DEF Return, Idle
  <1> QED  BY <1>3, <1>4, <1>5, Installing

LEMMA DoneInstallation ==
  ASSUME TypeOK, Installation, NEW h \in Helper, Done(h), UNCHANGED <<target, packages>>,
         IF helper[h].at = "moved" THEN cut' = helper[h].back ELSE cut' = cut
  PROVE  Installation'
  <1>1. Only(h) /\ helper'[h].at = "none"
    BY DoneHelper DEF Idle
  <1> QED  BY <1>1, Installing

LEMMA MoveAsideInstallation ==
  ASSUME TypeOK, Installation, NEW h \in Helper, MoveAside(h)
  PROVE  Installation'
  <1>1. CASE Done(h) /\ UNCHANGED <<target, packages>>
    BY <1>1, DoneInstallation DEF MoveAside
  <1>2. CASE /\ target # 0 /\ target' = 0
             /\ packages' = [packages EXCEPT ![helper[h].back] = target]
             /\ Moves(h, "moved")
    <2>1. /\ Only(h) /\ helper'[h].at = "moved" /\ helper'[h].to = helper[h].to
          /\ helper'[h].back = helper[h].back
      BY <1>2, MovesHelper
    <2>2. /\ helper[h].back \in Slots /\ helper[h].to # 0
          /\ \A i \in Helper : helper[i].at # "moved"
      BY <1>2 DEF Installation, Moving, MoveAside
    <2>3. packages'[helper[h].back] # 0
      BY <1>2, <2>2 DEF TypeOK
    <2>4. Moving'
      BY <1>2, <2>1, <2>2, <2>3 DEF Installation, Moving, Only
    <2>5. Installed'
      BY <2>1, <2>2 DEF Installed, Only
    <2> QED  BY <2>4, <2>5 DEF Installation
  <1> QED  BY <1>1, <1>2 DEF MoveAside, Moves

LEMMA MoveInInstallation ==
  ASSUME TypeOK, Installation, NEW h \in Helper, MoveIn(h)
  PROVE  Installation'
  <1>1. /\ \A i \in Helper \ {h} : helper[i].at # "moved"
        /\ helper[h].to # 0 /\ helper[h].back \in Slots
        /\ packages[helper[h].back] # 0
    BY DEF MoveIn, Installation, Moving, Installed
  <1>2. CASE target' = helper[h].to /\ Moves(h, "launch")
    <2>1. /\ Only(h) /\ helper'[h].at = "launch" /\ helper'[h].back = helper[h].back
      BY <1>2, MovesHelper
    <2> QED  BY <1>1, <1>2, <2>1 DEF Installation, Moving, Installed, Only
  <1>3. CASE Restore(h)
    <2>1. Only(h) /\ helper'[h].at = "none" /\ target' # 0
      BY <1>1, <1>3, DoneHelper DEF Restore, Idle
    <2> QED  BY <1>1, <2>1 DEF Installation, Moving, Installed, Only
  <1>4. CASE LeftAside(h)
    BY <1>4, DoneInstallation DEF LeftAside, MoveIn
  <1> QED  BY <1>2, <1>3, <1>4 DEF MoveIn, Moves

LEMMA NextInstallation ==
  ASSUME IInv, Next
  PROVE  Installation'
  <1> USE DEF IInv
  <1>1. CASE Gone /\ UNCHANGED packs
    BY <1>1, GoneHelper, Attending
  <1>2. CASE UNCHANGED install
    BY <1>2, StayHelper, Attending DEF install
  <1>3. ASSUME NEW h \in Helper, Update(h)  PROVE Installation'
    BY <1>3, UpdateInstallation
  <1>4. ASSUME NEW h \in Helper, Return(h)  PROVE Installation'
    BY <1>4, ReturnInstallation
  <1>5. ASSUME NEW h \in Helper, Cancel(h) \/ Relaunch(h)  PROVE Installation'
    <2>1. Done(h) /\ helper[h].at # "moved" /\ UNCHANGED packs
      BY <1>5 DEF Cancel, Relaunch
    <2> QED  BY <2>1, DoneInstallation DEF packs
  <1>6. ASSUME NEW h \in Helper, MoveAside(h)  PROVE Installation'
    BY <1>6, MoveAsideInstallation
  <1>7. ASSUME NEW h \in Helper, MoveIn(h)  PROVE Installation'
    BY <1>7, MoveInInstallation
  <1>8. ASSUME NEW h \in Helper, Cut(h)  PROVE Installation'
    BY <1>8, DoneInstallation DEF Cut, LeftAside
  <1>9. CASE Launch \/ Restage \/ Checkpoint \/ RememberLast \/ WriteContract
             \/ RecordGeneration \/ Save
    BY <1>2, <1>9 DEF Launch, Restage, Checkpoint, RememberLast, WriteContract,
                      RecordGeneration, Save
  <1>10. CASE Recover \/ PutAside \/ Place
    BY <1>1, <1>2, <1>10 DEF Recover, PutAside, Place, Refused
  <1>11. CASE Clear \/ Open
    BY <1>1, <1>2, <1>11 DEF Clear, Open, Refused
  <1>12. CASE RestageFails \/ Quit \/ Crash
    BY <1>1, <1>12 DEF RestageFails, Quit, Crash, Refused
  <1> QED  BY <1>3, <1>4, <1>5, <1>6, <1>7, <1>8, <1>9, <1>10, <1>11, <1>12 DEF Next
-----------------------------------------------------------------------------
(* The profile                                                             *)

Marks(p) == [p EXCEPT !.ver = app.ver]
Works(p) == [p EXCEPT !.schema = Format[app.ver], !.work = p.work \cup {saves'}]

LEMMA AppTyped ==
  ASSUME TypeOK, Stage, app.at # "off"
  PROVE  app \in Apps /\ app.ver \in Version /\ app.id \in Gens \cup {0}
  BY DEF TypeOK, Stage, Apps, Some

LEMMA FormatTyped ==
  ASSUME NEW v \in Version
  PROVE  v \in Nat /\ v # 0 /\ v \in Some /\ Format[v] \in Nat
         /\ Format[v] \in {Format[w] : w \in Version} \cup {0}
  BY UpgradeAssumption DEF Some

LEMMA LiveTyped ==
  ASSUME TypeOK
  PROVE  /\ \A p \in live : p \in Profiles /\ live = {p}
         /\ \A p \in staged : p \in Profiles /\ staged = {p}
         /\ \A g \in Gens : \A p \in complete[g] : p \in Profiles /\ complete[g] = {p}
  BY DEF TypeOK, AtMost1

LEMMA ProfileTyped ==
  ASSUME NEW p \in Profiles
  PROVE  p.ver \in Nat /\ p.schema \in Nat /\ p.work \subseteq Work
  <1>1. /\ p.ver \in Some /\ p.work \in SUBSET Work
        /\ p.schema \in {Format[v] : v \in Version} \cup {0}
    BY DEF Profiles
  <1>2. Some \subseteq Nat /\ {Format[v] : v \in Version} \cup {0} \subseteq Nat
    BY FormatTyped DEF Some
  <1> QED  BY <1>1, <1>2

LEMMA BareTyped == Bare \in Profiles /\ Bare.ver = 0 /\ Bare.schema = 0 /\ Bare.work = {}
  BY DEF Bare, Profiles, Some

LEMMA MarksTyped ==
  ASSUME NEW p \in Profiles, app.ver \in Version
  PROVE  /\ Marks(p) \in Profiles /\ Marks(p).ver = app.ver
         /\ Marks(p).schema = p.schema /\ Marks(p).work = p.work
  BY DEF Marks, Profiles, Some

LEMMA WorksTyped ==
  ASSUME NEW p \in Profiles, app.ver \in Version, saves' \in Work
  PROVE  /\ Works(p) \in Profiles /\ Works(p).ver = p.ver
         /\ Works(p).schema = Format[app.ver] /\ Works(p).work = p.work \cup {saves'}
  BY DEF Works, Profiles

(* The profile is left alone.                                              *)
LEMMA Alone ==
  ASSUME Profile, UNCHANGED <<root, complete, begun>>, Stage',
         app'.at = "checkpoint" => app.at = "checkpoint"
  PROVE  Profile'
  BY DEF Profile, GenerationsReadable, LiveReadable, Readable, Begun, Resuming, root

LEMMA RefusedProfile ==
  ASSUME Profile, Gone, UNCHANGED <<root, kept>>
  PROVE  Profile'
  <1>1. Stage' /\ app'.at = "off"
    BY GoneApp DEF Gone
  <1> QED  BY <1>1, Alone DEF kept

LEMMA BeginProfile ==
  ASSUME Profile, NEW v \in Some, v # 0, NEW id, NEW here, Begin(v, id, here),
         UNCHANGED <<root, kept>>
  PROVE  Profile'
  <1>1. app'.at = "start" /\ app'.ver = v
    BY DEF Begin
  <1>2. Stage'
    BY <1>1 DEF Stage
  <1> QED  BY <1>1, <1>2, Alone DEF kept

LEMMA SameProfile ==
  ASSUME Profile, UNCHANGED <<root, kept, app>>
  PROVE  Profile'
  <1>1. Stage'
    BY DEF Profile, Stage, root, kept, Changed, Accepts
  <1> QED  BY <1>1, Alone DEF kept

LEMMA RecoverProfile ==
  ASSUME TypeOK, Profile, Recover
  PROVE  Profile'
  <1>1. CASE Refused
    BY <1>1, RefusedProfile DEF Refused
  <1>2. CASE /\ Selected /\ pending # 0 /\ To("aside")
             /\ UNCHANGED <<root, kept>>
    <2>1. app'.at = "aside" /\ app'.ver = app.ver /\ app'.id = app.id
      BY <1>2, ToApp DEF TypeOK, Steps
    <2>2. pending = app.id /\ pending' = app.id /\ app.id # 0 /\ app.ver # 0
      BY <1>2 DEF Selected, Recover, Profile, Stage, root
    <2>3. Stage'
      BY <2>1, <2>2 DEF Stage
    <2> QED  BY <1>2, <2>1, <2>3, Alone DEF kept
  <1>3. CASE /\ Selected /\ pending = 0 /\ To("restage")
             /\ UNCHANGED <<live, saved, pending, kept>>
    <2>1. app'.at = "restage" /\ app'.ver = app.ver /\ app'.id = app.id
      BY <1>3, ToApp DEF TypeOK, Steps
    <2>2. /\ app.id # 0 /\ app.ver # 0 /\ saved[app.id] = {}
          /\ complete[app.id] # {} /\ UNCHANGED <<saved, pending, complete, begun>>
      BY <1>3 DEF Selected, Recover, Profile, Stage, kept
    <2>3. Stage'
      BY <1>3, <2>1, <2>2 DEF Stage
    <2>4. GenerationsReadable' /\ LiveReadable' /\ Begun' /\ Resuming'
      BY <1>3, <2>1, <2>2 DEF Profile, GenerationsReadable, LiveReadable, Readable, Begun,
                              Resuming
    <2> QED  BY <2>3, <2>4 DEF Profile
  <1> QED  BY <1>1, <1>2, <1>3 DEF Recover

LEMMA RestageProfile ==
  ASSUME TypeOK, Profile, Restage \/ RestageFails
  PROVE  Profile'
  <1>1. /\ app.at = "restage" /\ app.id \in Gens /\ app.ver # 0 /\ pending = 0
        /\ saved[app.id] = {} /\ complete[app.id] # {}
        /\ UNCHANGED <<live, saved, complete, begun>>
    BY AppTyped DEF Profile, Stage, Restage, RestageFails, kept
  <1>2. live # {}
    BY <1>1 DEF Profile, Begun
  <1>3. CASE Restage
    <2>1. app'.at = "aside" /\ app'.ver = app.ver /\ app'.id = app.id
      BY <1>3, ToApp DEF TypeOK, Steps, Restage
    <2>2. pending' = app.id /\ staged' = complete[app.id]
      BY <1>3 DEF Restage
    <2>3. Stage' /\ Resuming'
      BY <1>1, <1>2, <2>1, <2>2 DEF Stage, Resuming, Gens
    <2>4. GenerationsReadable' /\ LiveReadable' /\ Begun'
      BY <1>1, <1>2, <2>1 DEF Profile, GenerationsReadable, LiveReadable, Readable, Begun
    <2> QED  BY <2>3, <2>4 DEF Profile
  <1>4. CASE RestageFails
    <2>1. app'.at = "off" /\ Stage' /\ pending' = 0
      BY <1>1, <1>4, GoneApp DEF RestageFails, Gone
    <2>2. GenerationsReadable' /\ LiveReadable' /\ Begun' /\ Resuming'
      BY <1>1, <1>2, <2>1 DEF Profile, GenerationsReadable, LiveReadable, Readable, Begun,
                              Resuming
    <2> QED  BY <2>1, <2>2 DEF Profile
  <1> QED  BY <1>3, <1>4

LEMMA PutAsideProfile ==
  ASSUME TypeOK, Profile, PutAside
  PROVE  Profile'
  <1>1. /\ app.at = "aside" /\ app.id \in Gens /\ app.id # 0 /\ app.ver # 0
        /\ pending = app.id
    BY AppTyped DEF Profile, Stage, PutAside
  <1>2. CASE Refused
    BY <1>2, RefusedProfile DEF Refused
  <1>3. CASE To("place") /\ saved[app.id] # {} /\ UNCHANGED <<root, kept>>
    <2>1. app'.at = "place" /\ app'.ver = app.ver /\ app'.id = app.id
      BY <1>3, ToApp DEF TypeOK, Steps
    <2>2. UNCHANGED <<saved, pending>>
      BY <1>3 DEF root
    <2>3. Stage'
      BY <1>1, <1>3, <2>1, <2>2 DEF Stage
    <2> QED  BY <1>3, <2>1, <2>3, Alone DEF kept
  <1>4. CASE /\ saved[app.id] = {} /\ live # {} /\ To("place")
             /\ saved' = [saved EXCEPT ![app.id] = live] /\ live' = {}
             /\ UNCHANGED <<staged, pending, kept>>
    <2>1. app'.at = "place" /\ app'.ver = app.ver /\ app'.id = app.id
      BY <1>4, ToApp DEF TypeOK, Steps
    <2>2. saved'[app.id] = live /\ UNCHANGED <<complete, begun>>
      BY <1>1, <1>4 DEF TypeOK, kept
    <2>3. staged = complete[pending] /\ complete[pending] # {} /\ pending # 0
      BY <1>1, <1>4 DEF Profile, Resuming
    <2>4. Stage'
      BY <1>1, <1>4, <2>1, <2>2 DEF Stage
    <2>6. Resuming'
      <3>1. pending' = app.id /\ complete' = complete /\ staged' = staged
        BY <1>1, <1>4, <2>2
      <3> QED  BY <1>1, <1>4, <2>2, <2>3, <3>1 DEF Resuming
    <2>5. GenerationsReadable' /\ LiveReadable' /\ Begun'
      BY <1>4, <2>1, <2>2, <2>3 DEF Profile, GenerationsReadable, LiveReadable, Begun
    <2> QED  BY <2>4, <2>5, <2>6 DEF Profile
  <1> QED  BY <1>2, <1>3, <1>4 DEF PutAside

LEMMA PlaceProfile ==
  ASSUME TypeOK, Profile, Place
  PROVE  Profile'
  <1>1. /\ app.at = "place" /\ app.id \in Gens /\ app.id # 0 /\ app.ver # 0
        /\ pending = app.id /\ saved[app.id] # {}
    BY AppTyped DEF Profile, Stage, Place
  <1>2. CASE Refused
    BY <1>2, RefusedProfile DEF Refused
  <1>3. CASE To("clear") /\ live # {} /\ UNCHANGED <<root, kept>>
    <2>1. app'.at = "clear" /\ app'.ver = app.ver /\ app'.id = app.id
      BY <1>3, ToApp DEF TypeOK, Steps
    <2>2. UNCHANGED <<live, saved, pending>>
      BY <1>3 DEF root
    <2>3. Stage'
      BY <1>1, <1>3, <2>1, <2>2 DEF Stage
    <2> QED  BY <1>3, <2>1, <2>3, Alone DEF kept
  <1>4. CASE /\ live = {} /\ staged # {} /\ To("clear")
             /\ live' = staged /\ staged' = {}
             /\ UNCHANGED <<saved, pending, kept>>
    <2>1. app'.at = "clear" /\ app'.ver = app.ver /\ app'.id = app.id
      BY <1>4, ToApp DEF TypeOK, Steps
    <2>2. live' = complete[pending] /\ UNCHANGED <<complete, begun>>
      BY <1>1, <1>4 DEF Profile, Resuming, kept
    <2>3. Stage'
      BY <1>1, <1>4, <2>1 DEF Stage
    <2>4. Resuming'
      BY <1>1, <1>4, <2>2 DEF Resuming
    <2>5. GenerationsReadable' /\ LiveReadable'
      BY <1>1, <2>2 DEF Profile, GenerationsReadable, LiveReadable, Readable
    <2>6. Begun'
      BY <1>1, <1>4, <2>1, <2>2 DEF Profile, Begun
    <2> QED  BY <2>3, <2>4, <2>5, <2>6 DEF Profile
  <1> QED  BY <1>2, <1>3, <1>4 DEF Place

LEMMA ClearProfile ==
  ASSUME TypeOK, Profile, Clear
  PROVE  Profile'
  <1>1. app.at = "clear" /\ app.ver # 0 /\ live # {}
    BY DEF Profile, Stage, Clear
  <1>2. CASE Refused
    BY <1>2, RefusedProfile DEF Refused
  <1>3. CASE /\ To("open") /\ pending' = 0
             /\ UNCHANGED <<live, staged, saved, kept>>
    <2>1. app'.at = "open" /\ app'.ver = app.ver
      BY <1>3, ToApp DEF TypeOK, Steps
    <2>2. Stage' /\ Resuming'
      BY <1>1, <1>3, <2>1 DEF Stage, Resuming
    <2>3. GenerationsReadable' /\ LiveReadable' /\ Begun'
      BY <1>1, <1>3, <2>1 DEF Profile, GenerationsReadable, LiveReadable, Readable, Begun, kept
    <2> QED  BY <2>2, <2>3 DEF Profile
  <1> QED  BY <1>2, <1>3 DEF Clear

LEMMA OpenProfile ==
  ASSUME TypeOK, Profile, Open
  PROVE  Profile'
  <1>1. app.at # "off" /\ app.ver \in Version /\ app.ver # 0 /\ begun \in Nat
    BY AppTyped, FormatTyped, UpgradeAssumption DEF Open, TypeOK, Gens, Profile
  <1>2. CASE Refused
    BY <1>2, RefusedProfile DEF Refused
  <1>3. CASE ~Refused
    <2>1. /\ Opens /\ live' = (IF live = {} THEN {Bare} ELSE live)
          /\ UNCHANGED <<saved, pending, complete>>
      BY <1>3 DEF Open
    <2>2. /\ pending = 0 /\ live' # {}
          /\ \A p \in live' : Accepts(app.ver, p) /\ p.schema <= Format[app.ver]
      BY <1>1, <2>1, BareTyped, FormatTyped DEF Opens, Accepts
    <2>3. LiveReadable'
      BY <2>1, BareTyped DEF Profile, LiveReadable, Readable
    <2>4. GenerationsReadable' /\ Resuming'
      BY <2>1, <2>2 DEF Profile, GenerationsReadable, Resuming
    <2>5. CASE (\E p \in live : Changed(p)) /\ begun' = begun + 1 /\ begun < MaxGen
               /\ To("checkpoint")
      <3>1. app'.at = "checkpoint" /\ app'.ver = app.ver
        BY <2>5, ToApp DEF TypeOK, Steps
      <3>2. live' = live /\ \A p \in live : p.ver \notin {0, app.ver}
        BY <2>1, <2>5, LiveTyped DEF Changed
      <3>3. \A p \in live' : Changed(p)'
        BY <3>1, <3>2 DEF Changed
      <3>4. \A p \in live' : Accepts(app.ver, p)' /\ p.schema <= Format[app'.ver]
        BY <2>2, <3>1 DEF Accepts
      <3>5. Stage'
        BY <1>1, <2>1, <2>2, <3>1, <3>3, <3>4 DEF Stage
      <3>6. begun' \in Gens /\ complete[begun'] = {} /\ begun' # 0
        BY <1>1, <2>5, UpgradeAssumption DEF Profile, Begun, Gens
      <3>7. \A g \in Gens : g > begun' => complete[g] = {}
        BY <1>1, <2>5 DEF Profile, Begun, Gens
      <3>8. Begun'
        BY <2>1, <2>2, <3>6, <3>7 DEF Begun
      <3> QED  BY <2>3, <2>4, <3>5, <3>8 DEF Profile
    <2>6. CASE begun' = begun /\ To("contract")
      <3>1. app'.at = "contract" /\ app'.ver = app.ver
        BY <2>6, ToApp DEF TypeOK, Steps
      <3>2. \A p \in live' : Accepts(app.ver, p)' /\ p.schema <= Format[app'.ver]
        BY <2>2, <3>1 DEF Accepts
      <3>3. Stage'
        BY <1>1, <2>1, <2>2, <3>1, <3>2 DEF Stage
      <3>4. Begun'
        BY <2>1, <2>2, <2>6, <3>1 DEF Profile, Begun
      <3> QED  BY <2>3, <2>4, <3>3, <3>4 DEF Profile
    <2> QED  BY <1>3, <2>5, <2>6 DEF Open
  <1> QED  BY <1>2, <1>3

LEMMA CheckpointProfile ==
  ASSUME TypeOK, Profile, Checkpoint
  PROVE  Profile'
  <1>1. /\ app.at = "checkpoint" /\ app.ver # 0 /\ pending = 0 /\ live # {}
        /\ begun \in Gens /\ complete[begun] = {}
        /\ \A p \in live : Accepts(app.ver, p) /\ p.schema <= Format[app.ver]
        /\ \A p \in live : Changed(p)
    BY DEF TypeOK, Profile, Stage, Begun, Checkpoint, Gens
  <1>2. app'.at = "last" /\ app'.ver = app.ver
    BY ToApp DEF TypeOK, Steps, Checkpoint
  <1>3. UNCHANGED <<live, staged, saved, pending, begun>>
    BY DEF Checkpoint, root
  <1>4. /\ complete'[begun] = live
        /\ \A g \in Gens \ {begun} : complete'[g] = complete[g]
    BY <1>1 DEF Checkpoint, TypeOK
  <1>5. \A p \in live' : Accepts(app.ver, p)' /\ p.schema <= Format[app'.ver]
    BY <1>1, <1>2, <1>3 DEF Accepts
  <1>6. Stage'
    BY <1>1, <1>2, <1>3, <1>5 DEF Stage
  <1>7. GenerationsReadable' /\ LiveReadable'
    BY <1>1, <1>3, <1>4 DEF Profile, GenerationsReadable, LiveReadable, Readable, Changed
  <1>8. \A g \in Gens : g > begun => g # begun
    BY DEF Gens, TypeOK
  <1>9. Begun' /\ Resuming'
    BY <1>1, <1>2, <1>3, <1>4, <1>8 DEF Profile, Begun, Resuming
  <1> QED  BY <1>6, <1>7, <1>9 DEF Profile

LEMMA RememberLastProfile ==
  ASSUME TypeOK, Profile, RememberLast
  PROVE  Profile'
  <1>1. app'.at = "contract" /\ app'.ver = app.ver
    BY ToApp DEF TypeOK, Steps, RememberLast
  <1>2. UNCHANGED <<root, complete, begun>> /\ UNCHANGED <<live, pending>>
    BY DEF RememberLast, root
  <1>3. /\ app.ver # 0 /\ pending = 0 /\ live # {}
        /\ \A p \in live : Accepts(app.ver, p) /\ p.schema <= Format[app.ver]
    BY DEF Profile, Stage, RememberLast
  <1>4. \A p \in live' : Accepts(app.ver, p)' /\ p.schema <= Format[app'.ver]
    BY <1>1, <1>2, <1>3 DEF Accepts
  <1>5. Stage'
    BY <1>1, <1>2, <1>3, <1>4 DEF Stage
  <1> QED  BY <1>1, <1>2, <1>5, Alone

LEMMA WriteContractProfile ==
  ASSUME TypeOK, Profile, WriteContract
  PROVE  Profile'
  <1>1. app'.at = "record" /\ app'.ver = app.ver
    BY ToApp DEF TypeOK, Steps, WriteContract
  <1>2. /\ app.ver \in Version /\ app.ver # 0 /\ pending = 0 /\ live # {}
        /\ \A p \in live : p \in Profiles /\ p.schema <= Format[app.ver]
    BY AppTyped, FormatTyped, LiveTyped DEF Profile, Stage, WriteContract
  <1>3. live' = {Marks(p) : p \in live} /\ UNCHANGED <<saved, pending, complete, begun>>
    BY DEF WriteContract, Marks, kept
  <1>4. live' # {} /\ \A p \in live' : p.ver = app.ver /\ p.schema <= Format[app.ver]
    BY <1>2, <1>3, MarksTyped
  <1>5. Stage' /\ LiveReadable'
    BY <1>1, <1>2, <1>3, <1>4 DEF Stage, LiveReadable, Readable
  <1>6. GenerationsReadable' /\ Begun' /\ Resuming'
    BY <1>1, <1>2, <1>3, <1>4 DEF Profile, GenerationsReadable, Begun, Resuming
  <1> QED  BY <1>5, <1>6 DEF Profile

LEMMA RunningProfile ==
  ASSUME TypeOK, Profile, RecordGeneration
  PROVE  Profile'
  <1>1. app'.at = "running" /\ app'.ver = app.ver
    BY ToApp DEF TypeOK, Steps, RecordGeneration
  <1>2. /\ UNCHANGED <<root, complete, begun>> /\ UNCHANGED <<live, pending>>
        /\ app.at = "record"
    BY DEF RecordGeneration, root, kept
  <1>3. Stage'
    BY <1>1, <1>2 DEF Profile, Stage
  <1> QED  BY <1>1, <1>2, <1>3, Alone

LEMMA SaveProfile ==
  ASSUME TypeOK, Profile, Save
  PROVE  Profile'
  <1>1. /\ app.ver \in Version /\ app.ver # 0 /\ pending = 0 /\ live # {}
        /\ app.at = "running" /\ app' = app
        /\ \A p \in live : p \in Profiles /\ p.ver = app.ver
    BY AppTyped, FormatTyped, LiveTyped DEF Profile, Stage, Save
  <1>2. saves' \in Work
    <2>1. saves \in 0 .. MaxSave /\ MaxSave \in Nat
      BY UpgradeAssumption DEF TypeOK
    <2>2. saves < MaxSave /\ saves' = saves + 1
      BY DEF Save
    <2> QED  BY <2>1, <2>2 DEF Work
  <1>3. live' = {Works(p) : p \in live} /\ UNCHANGED <<saved, pending, complete, begun>>
    BY DEF Save, Works, kept
  <1>4. live' # {} /\ \A p \in live' : p.ver = app.ver /\ p.schema <= Format[app.ver]
    BY <1>1, <1>2, <1>3, WorksTyped, FormatTyped
  <1>5. Stage' /\ LiveReadable'
    BY <1>1, <1>3, <1>4 DEF Stage, LiveReadable, Readable
  <1>6. GenerationsReadable' /\ Begun' /\ Resuming'
    BY <1>1, <1>3, <1>4 DEF Profile, GenerationsReadable, Begun, Resuming
  <1> QED  BY <1>5, <1>6 DEF Profile

LEMMA LaunchProfile ==
  ASSUME TypeOK, Profile, Launch
  PROVE  Profile'
  <1>1. UNCHANGED <<root, kept>>
    BY DEF Launch
  <1>2. CASE \E id \in 0 .. begun : target # 0 /\ Begin(target, id, TRUE)
    BY <1>1, <1>2, BeginProfile DEF TypeOK
  <1>3. CASE \E id \in 0 .. begun, s \in Slots : packages[s] # 0 /\ Begin(packages[s], id, FALSE)
    <2>1. PICK id \in 0 .. begun, s \in Slots : packages[s] # 0 /\ Begin(packages[s], id, FALSE)
      BY <1>3
    <2>2. packages[s] \in Some
      BY DEF TypeOK
    <2> QED  BY <1>1, <2>1, <2>2, BeginProfile
  <1> QED  BY <1>2, <1>3 DEF Launch

LEMMA RelaunchProfile ==
  ASSUME TypeOK, Profile, NEW h \in Helper, Relaunch(h)
  PROVE  Profile'
  <1>1. UNCHANGED <<root, kept>>
    BY DEF Relaunch
  <1>2. CASE target # 0 /\ Begin(target, helper[h].id, TRUE)
    BY <1>1, <1>2, BeginProfile DEF TypeOK
  <1>3. CASE UNCHANGED app
    BY <1>1, <1>3, SameProfile
  <1> QED  BY <1>2, <1>3 DEF Relaunch

LEMMA HelperRest ==
  ASSUME NEW h \in Helper,
         Update(h) \/ Return(h) \/ Cancel(h) \/ MoveAside(h) \/ MoveIn(h) \/ Cut(h)
  PROVE  UNCHANGED <<root, kept, saves, app>>
  BY DEF Update, Return, Cancel, MoveAside, MoveIn, Cut

LEMMA NextProfile ==
  ASSUME TypeOK, Profile, Next
  PROVE  Profile'
  <1>1. CASE Launch \/ Recover \/ Restage \/ RestageFails \/ PutAside \/ Place \/ Clear
    BY <1>1, LaunchProfile, RecoverProfile, RestageProfile, PutAsideProfile, PlaceProfile,
       ClearProfile
  <1>2. CASE Open \/ Checkpoint \/ RememberLast \/ WriteContract \/ RecordGeneration \/ Save
    BY <1>2, OpenProfile, CheckpointProfile, RememberLastProfile, WriteContractProfile,
       RunningProfile, SaveProfile
  <1>3. CASE Quit \/ Crash
    BY <1>3, RefusedProfile DEF Quit, Crash, Refused
  <1>4. ASSUME NEW h \in Helper,
               Update(h) \/ Return(h) \/ Cancel(h) \/ MoveAside(h) \/ MoveIn(h) \/ Cut(h)
        PROVE  Profile'
    BY <1>4, HelperRest, SameProfile
  <1>5. ASSUME NEW h \in Helper, Relaunch(h)  PROVE Profile'
    BY <1>5, RelaunchProfile
  <1> QED  BY <1>1, <1>2, <1>3, <1>4, <1>5 DEF Next
-----------------------------------------------------------------------------
(* Types                                                                   *)

RootTyped ==
  /\ live \in AtMost1 /\ staged \in AtMost1 /\ saved \in [Gens -> AtMost1]
  /\ pending \in Gens \cup {0}

KeptTyped ==
  /\ complete \in [Gens -> AtMost1] /\ begun \in Gens \cup {0} /\ last \in Gens \cup {0}
  /\ record \in Records /\ saves \in 0 .. MaxSave /\ faults \in 0 .. MaxFault

PackTyped ==
  /\ target \in Some /\ packages \in [Slots -> Some] /\ aside \in 0 .. MaxInstall
  /\ cut \in Slots \cup {0}

Typed ==
  RootTyped /\ KeptTyped /\ PackTyped /\ app \in Apps /\ helper \in [Helper -> Helpers]

LEMMA TypedIsTypeOK == (TypeOK <=> Typed) /\ (TypeOK' <=> Typed')
  BY DEF TypeOK, Typed, RootTyped, KeptTyped, PackTyped

LEMMA RootSame ==
  ASSUME RootTyped, UNCHANGED root
  PROVE  RootTyped'
  BY DEF RootTyped, root

LEMMA KeptSame ==
  ASSUME KeptTyped, UNCHANGED <<kept, record, saves>>, UNCHANGED faults \/ Fault
  PROVE  KeptTyped'
  <1>1. faults' \in 0 .. MaxFault
    BY UpgradeAssumption DEF KeptTyped, Fault, Failing
  <1> QED  BY <1>1 DEF KeptTyped, kept

LEMMA PackSame ==
  ASSUME PackTyped, UNCHANGED packs
  PROVE  PackTyped'
  BY DEF PackTyped, packs

LEMMA HelperSame ==
  ASSUME TypeOK, Gone \/ UNCHANGED helper
  PROVE  helper' \in [Helper -> Helpers]
  BY GoneHelper, StayHelper DEF Attend

(* What is not about the profile's directories.                            *)
LEMMA RestTyped ==
  ASSUME TypeOK, RootTyped', app' \in Apps, Gone \/ UNCHANGED helper,
         UNCHANGED <<kept, record, saves>>, UNCHANGED packs, UNCHANGED faults \/ Fault
  PROVE  TypeOK'
  <1>1. KeptTyped' /\ PackTyped'
    BY KeptSame, PackSame, TypedIsTypeOK DEF Typed
  <1>2. helper' \in [Helper -> Helpers]
    BY HelperSame
  <1>3. Typed'
    BY <1>1, <1>2 DEF Typed
  <1> QED  BY <1>3, TypedIsTypeOK

LEMMA GoneTyped ==
  ASSUME TypeOK, Gone, UNCHANGED <<root, kept, record, saves, packs>>, UNCHANGED faults \/ Fault
  PROVE  TypeOK'
  <1>1. app' \in Apps
    BY GoneApp DEF Gone
  <1>2. RootTyped'
    BY RootSame, TypedIsTypeOK DEF Typed
  <1>3. UNCHANGED <<kept, record, saves>> /\ UNCHANGED packs
    OBVIOUS
  <1> QED  BY <1>1, <1>2, <1>3, RestTyped

LEMMA OneTyped == {} \in AtMost1 /\ \A p \in Profiles : {p} \in AtMost1
  BY DEF AtMost1

LEMMA BeginTyped ==
  ASSUME NEW v \in Some, NEW id \in Gens \cup {0}, NEW here \in BOOLEAN, Begin(v, id, here)
  PROVE  app' \in Apps
  BY DEF Begin, Apps

LEMMA LaunchTyped ==
  ASSUME TypeOK, Launch
  PROVE  TypeOK'
  <1>1. 0 .. begun \subseteq Gens \cup {0}
    BY UpgradeAssumption DEF TypeOK, Gens
  <1>2. app' \in Apps
    <2>1. CASE \E id \in 0 .. begun : Begin(target, id, TRUE)
      BY <1>1, <2>1, BeginTyped DEF TypeOK
    <2>2. CASE \E id \in 0 .. begun, s \in Slots : Begin(packages[s], id, FALSE)
      <3>1. PICK id \in 0 .. begun, s \in Slots : Begin(packages[s], id, FALSE)
        BY <2>2
      <3>2. packages[s] \in Some
        BY DEF TypeOK
      <3> QED  BY <1>1, <3>1, <3>2, BeginTyped
    <2> QED  BY <2>1, <2>2 DEF Launch
  <1>3. RootTyped'
    BY RootSame, TypedIsTypeOK DEF Typed, Launch
  <1>4. UNCHANGED <<kept, record, saves>> /\ UNCHANGED packs /\ UNCHANGED <<helper, faults>>
    BY DEF Launch, install
  <1> QED  BY <1>2, <1>3, <1>4, RestTyped

(* A step of the start that goes on.                                       *)
LEMMA StartTyped ==
  ASSUME TypeOK, NEW step \in Steps, To(step), RootTyped', UNCHANGED <<kept, record, saves>>,
         UNCHANGED install, UNCHANGED faults
  PROVE  TypeOK'
  <1>1. app' \in Apps
    BY ToApp DEF TypeOK
  <1>2. UNCHANGED packs /\ UNCHANGED helper
    BY DEF install
  <1> QED  BY <1>1, <1>2, RestTyped

LEMMA RecoverTyped ==
  ASSUME TypeOK, Recover
  PROVE  TypeOK'
  <1>1. CASE Refused
    BY <1>1, GoneTyped DEF Refused
  <1>2. CASE To("aside") /\ UNCHANGED <<root, kept, record, saves, install, faults>>
    BY <1>2, RootSame, StartTyped, TypedIsTypeOK DEF Typed, Steps
  <1>3. CASE /\ To("restage") /\ staged' = {Bare}
             /\ UNCHANGED <<live, saved, pending, kept, record, saves, install, faults>>
    <2>1. RootTyped'
      BY <1>3, OneTyped, BareTyped DEF TypeOK, RootTyped
    <2> QED  BY <1>3, <2>1, StartTyped DEF Steps
  <1> QED  BY <1>1, <1>2, <1>3 DEF Recover

LEMMA RestageTyped ==
  ASSUME TypeOK, Profile, Restage \/ RestageFails
  PROVE  TypeOK'
  <1>1. app.id \in Gens /\ complete[app.id] \in AtMost1
    BY AppTyped DEF TypeOK, Profile, Stage, Restage, RestageFails
  <1>2. CASE Restage
    <2>1. RootTyped'
      BY <1>1, <1>2 DEF TypeOK, RootTyped, Restage
    <2> QED  BY <1>2, <2>1, StartTyped DEF Steps, Restage
  <1>3. CASE RestageFails
    <2>1. RootTyped'
      BY <1>1, <1>3, OneTyped DEF TypeOK, RootTyped, RestageFails
    <2>2. app' \in Apps
      BY <1>3, GoneApp DEF RestageFails, Gone
    <2>3. Gone /\ Fault /\ UNCHANGED <<kept, record, saves>> /\ UNCHANGED packs
      BY <1>3 DEF RestageFails
    <2> QED  BY <2>1, <2>2, <2>3, RestTyped
  <1> QED  BY <1>2, <1>3

LEMMA PlacingTyped ==
  ASSUME TypeOK, PutAside \/ Place \/ Clear
  PROVE  TypeOK'
  <1>1. CASE Refused
    BY <1>1, GoneTyped DEF Refused
  <1>2. CASE ~Refused
    <2>1. /\ \E step \in Steps : To(step)
          /\ UNCHANGED <<kept, record, saves>> /\ UNCHANGED install /\ UNCHANGED faults
      BY <1>2 DEF PutAside, Place, Clear, Steps
    <2>2. CASE PutAside
      BY <1>2, <2>2, <2>1, RootSame, StartTyped, OneTyped, TypedIsTypeOK
      DEF Typed, RootTyped, PutAside
    <2>3. CASE Place
      BY <1>2, <2>3, <2>1, RootSame, StartTyped, OneTyped, TypedIsTypeOK
      DEF Typed, RootTyped, Place
    <2>4. CASE Clear
      BY <1>2, <2>4, <2>1, RootSame, StartTyped, TypedIsTypeOK
      DEF Typed, RootTyped, Clear
    <2> QED  BY <2>2, <2>3, <2>4
  <1> QED  BY <1>1, <1>2

LEMMA OpenTyped ==
  ASSUME TypeOK, Open
  PROVE  TypeOK'
  <1>1. CASE Refused
    BY <1>1, GoneTyped DEF Refused
  <1>2. CASE ~Refused
    <2>1. /\ live' = (IF live = {} THEN {Bare} ELSE live)
          /\ UNCHANGED <<staged, saved, pending, complete, last, record, saves, faults>>
          /\ UNCHANGED packs /\ UNCHANGED helper
      BY <1>2 DEF Open, install
    <2>2. \E step \in Steps : To(step)
      BY <1>2 DEF Open, Steps
    <2>3. app' \in Apps
      BY <2>2, ToApp DEF TypeOK
    <2>4. begun' = begun \/ (begun < MaxGen /\ begun' = begun + 1)
      BY <1>2 DEF Open
    <2>5. begun' \in Gens \cup {0}
      BY <2>4, UpgradeAssumption DEF TypeOK, Gens
    <2>6. RootTyped'
      BY <2>1, OneTyped, BareTyped DEF TypeOK, RootTyped
    <2>7. KeptTyped' /\ PackTyped' /\ helper' \in [Helper -> Helpers]
      BY <2>1, <2>5 DEF TypeOK, KeptTyped, PackTyped, packs
    <2> QED  BY <2>3, <2>6, <2>7, TypedIsTypeOK DEF Typed
  <1> QED  BY <1>1, <1>2

LEMMA CheckpointTyped ==
  ASSUME TypeOK, Profile, Checkpoint \/ RememberLast
  PROVE  TypeOK'
  <1>1. /\ UNCHANGED <<root, begun, record, saves, install, faults>>
        /\ \E step \in Steps : To(step)
    BY DEF Checkpoint, RememberLast, Steps
  <1>2. complete' \in [Gens -> AtMost1] /\ last' \in Gens \cup {0}
    BY DEF TypeOK, Checkpoint, RememberLast
  <1>3. app' \in Apps
    BY <1>1, ToApp DEF TypeOK
  <1>4. RootTyped' /\ PackTyped' /\ helper' \in [Helper -> Helpers]
    BY <1>1 DEF TypeOK, RootTyped, PackTyped, root, install, packs
  <1>5. KeptTyped'
    BY <1>1, <1>2 DEF TypeOK, KeptTyped
  <1> QED  BY <1>3, <1>4, <1>5, TypedIsTypeOK DEF Typed

LEMMA WriteContractTyped ==
  ASSUME TypeOK, Profile, WriteContract
  PROVE  TypeOK'
  <1>1. app.ver \in Version
    BY AppTyped DEF Profile, WriteContract
  <1>2. live' = {Marks(p) : p \in live} /\ UNCHANGED <<staged, saved, pending>>
    BY DEF WriteContract, Marks
  <1>3. live' \in AtMost1
    <2>1. CASE live = {}
      BY <1>2, <2>1, OneTyped
    <2>2. ASSUME NEW p \in live  PROVE live' \in AtMost1
      <3>1. live = {p} /\ p \in Profiles
        BY <2>2, LiveTyped
      <3>2. live' = {Marks(p)} /\ Marks(p) \in Profiles
        BY <1>1, <1>2, <3>1, MarksTyped
      <3> QED  BY <3>2, OneTyped
    <2> QED  BY <2>1, <2>2
  <1>4. RootTyped'
    BY <1>2, <1>3 DEF TypeOK, RootTyped
  <1>5. /\ To("record") /\ UNCHANGED <<kept, record, saves>> /\ UNCHANGED install
        /\ UNCHANGED faults
    BY DEF WriteContract
  <1> QED  BY <1>4, <1>5, StartTyped DEF Steps

LEMMA RunningTyped ==
  ASSUME TypeOK, RecordGeneration
  PROVE  TypeOK'
  <1>1. record' \in Records
    <2>1. [record EXCEPT !.generation = last] \in Records
      BY DEF TypeOK, Records
    <2> QED  BY <2>1 DEF RecordGeneration, TypeOK
  <1>2. app' \in Apps
    BY ToApp DEF TypeOK, RecordGeneration, Steps
  <1>3. UNCHANGED <<root, kept, saves, install, faults>>
    BY DEF RecordGeneration
  <1>4. RootTyped' /\ PackTyped' /\ helper' \in [Helper -> Helpers]
    BY <1>3 DEF TypeOK, RootTyped, PackTyped, root, install, packs
  <1>5. KeptTyped'
    BY <1>1, <1>3 DEF TypeOK, KeptTyped, kept
  <1> QED  BY <1>2, <1>4, <1>5, TypedIsTypeOK DEF Typed

LEMMA SaveTyped ==
  ASSUME TypeOK, Profile, Save
  PROVE  TypeOK'
  <1>1. saves' \in 0 .. MaxSave /\ saves' \in Work
    <2>1. saves \in 0 .. MaxSave /\ MaxSave \in Nat
      BY UpgradeAssumption DEF TypeOK
    <2>2. saves < MaxSave /\ saves' = saves + 1
      BY DEF Save
    <2> QED  BY <2>1, <2>2 DEF Work
  <1>2. /\ live' = {Works(p) : p \in live}
        /\ UNCHANGED <<staged, saved, pending, kept, record, app, install, faults>>
    BY DEF Save, Works
  <1>3. app.ver \in Version
    BY AppTyped DEF Profile, Save
  <1>4. live' \in AtMost1
    <2>1. CASE live = {}
      BY <1>2, <2>1, OneTyped
    <2>2. ASSUME NEW p \in live  PROVE live' \in AtMost1
      <3>1. live = {p} /\ p \in Profiles
        BY <2>2, LiveTyped
      <3>2. live' = {Works(p)} /\ Works(p) \in Profiles
        BY <1>1, <1>2, <1>3, <3>1, WorksTyped
      <3> QED  BY <3>2, OneTyped
    <2> QED  BY <2>1, <2>2
  <1>5. RootTyped' /\ PackTyped' /\ helper' \in [Helper -> Helpers] /\ app' \in Apps
    BY <1>2, <1>4 DEF TypeOK, RootTyped, PackTyped, install, packs
  <1>6. KeptTyped'
    BY <1>1, <1>2 DEF TypeOK, KeptTyped, kept
  <1> QED  BY <1>5, <1>6, TypedIsTypeOK DEF Typed

(* A helper's step: the profile is as it was, and the app goes on.         *)
LEMMA HelpTyped ==
  ASSUME TypeOK, UNCHANGED root, UNCHANGED <<kept, saves>>, app' \in Apps,
         record' \in Records,
         UNCHANGED faults \/ \E n \in 0 .. 2 : Failing(n),
         helper' \in [Helper -> Helpers], PackTyped'
  PROVE  TypeOK'
  <1>1. faults' \in 0 .. MaxFault
    BY UpgradeAssumption DEF TypeOK, Failing
  <1>2. RootTyped'
    BY RootSame, TypedIsTypeOK DEF Typed
  <1>3. KeptTyped'
    BY <1>1 DEF TypeOK, KeptTyped, kept
  <1> QED  BY <1>2, <1>3, TypedIsTypeOK DEF Typed

LEMMA UpdateTyped ==
  ASSUME TypeOK, Profile, NEW h \in Helper, Update(h)
  PROVE  TypeOK'
  <1>1. PICK v \in Version :
          /\ record' = [prev |-> app.ver, next |-> v, package |-> aside + 1, generation |-> 0]
          /\ \/ Arm(h, v, 0, 0) /\ UNCHANGED faults
             \/ Fault /\ UNCHANGED <<aside, helper>>
    BY DEF Update
  <1>2. aside + 1 \in Slots /\ app.ver \in Some /\ aside < MaxInstall
    BY AppTyped, UpgradeAssumption DEF TypeOK, Update, Slots, Profile, Some
  <1>3. record' \in Records
    BY <1>1, <1>2 DEF Records, Some
  <1>4. helper' \in [Helper -> Helpers] /\ aside' \in 0 .. MaxInstall
    <2>1. CASE Arm(h, v, 0, 0)
      <3>1. v \in Some /\ 0 \in Slots \cup {0} /\ 0 \in Gens \cup {0}
        BY DEF Some
      <3> QED  BY <1>2, <2>1, <3>1, ArmsHelper
    <2> QED  BY <1>1, <2>1 DEF TypeOK
  <1>5. UNCHANGED root /\ UNCHANGED <<kept, saves>> /\ UNCHANGED <<app, target, packages, cut>>
    BY DEF Update
  <1>6. PackTyped' /\ app' \in Apps
    BY <1>4, <1>5 DEF TypeOK, PackTyped
  <1>7. UNCHANGED faults \/ \E n \in 0 .. 2 : Failing(n)
    BY <1>1 DEF Fault
  <1> QED  BY <1>3, <1>4, <1>5, <1>6, <1>7, HelpTyped

LEMMA ReturnTyped ==
  ASSUME TypeOK, NEW h \in Helper, Return(h)
  PROVE  TypeOK'
  <1>1. /\ record.prev \in Some /\ record.package \in Slots \cup {0}
        /\ record.generation \in Gens \cup {0}
    BY DEF TypeOK, Records
  <1>2. helper' \in [Helper -> Helpers] /\ aside' \in 0 .. MaxInstall
    BY <1>1, ArmsHelper DEF Return
  <1>3. UNCHANGED root /\ UNCHANGED <<kept, saves>>
        /\ UNCHANGED <<app, target, packages, cut, record, faults>>
    BY DEF Return
  <1>4. PackTyped' /\ app' \in Apps /\ record' \in Records
    BY <1>2, <1>3 DEF TypeOK, PackTyped
  <1> QED  BY <1>2, <1>3, <1>4, HelpTyped

LEMMA MovesTyped ==
  ASSUME TypeOK, Installation, NEW h \in Helper, MoveAside(h) \/ MoveIn(h)
  PROVE  TypeOK'
  <1>1. helper[h] \in Helpers /\ helper[h].to \in Some /\ packages \in [Slots -> Some]
    BY DEF TypeOK, Helpers
  <1>2. UNCHANGED root /\ UNCHANGED <<kept, saves>> /\ UNCHANGED <<record, app, aside>>
    BY DEF MoveAside, MoveIn
  <1>3. UNCHANGED faults \/ \E n \in 0 .. 2 : Failing(n)
    BY DEF MoveAside, MoveIn, Fault
  <1>4. helper' \in [Helper -> Helpers]
    <2>1. Done(h) \/ \E at \in {"moved", "launch"} : Moves(h, at)
      BY DEF MoveAside, MoveIn, Restore, LeftAside, Moves
    <2> QED  BY <2>1, DoneHelper, MovesHelper
  <1>5. target' \in Some /\ packages' \in [Slots -> Some] /\ cut' \in Slots \cup {0}
    <2>1. CASE MoveAside(h)
      BY <1>1, <2>1 DEF MoveAside, TypeOK, Some
    <2>2. CASE MoveIn(h)
      <3>1. helper[h].back \in Slots /\ 0 \in Some /\ cut \in Slots \cup {0} /\ target \in Some
        BY <2>2 DEF MoveIn, Installation, Moving, Some, TypeOK
      <3>2. CASE Restore(h)
        BY <1>1, <3>1, <3>2 DEF Restore
      <3>3. CASE LeftAside(h)
        BY <1>1, <3>1, <3>3 DEF LeftAside
      <3>4. CASE /\ target' = helper[h].to /\ cut' = cut
                 /\ packages' = [s \in Slots |-> IF s = helper[h].from THEN 0 ELSE packages[s]]
        BY <1>1, <3>1, <3>4
      <3> QED  BY <2>2, <3>2, <3>3, <3>4 DEF MoveIn
    <2> QED  BY <2>1, <2>2
  <1>6. PackTyped' /\ app' \in Apps /\ record' \in Records
    BY <1>2, <1>5 DEF TypeOK, PackTyped
  <1> QED  BY <1>2, <1>3, <1>4, <1>6, HelpTyped

LEMMA LeavesTyped ==
  ASSUME TypeOK, NEW h \in Helper, Cancel(h) \/ Relaunch(h) \/ Cut(h)
  PROVE  TypeOK'
  <1>1. /\ UNCHANGED root /\ UNCHANGED <<kept, saves>>
        /\ UNCHANGED <<record, target, packages, aside>> /\ Done(h)
    BY DEF Cancel, Relaunch, Cut, LeftAside, packs
  <1>2. UNCHANGED faults \/ \E n \in 0 .. 2 : Failing(n)
    <2>1. UNCHANGED faults \/ Failing(1)
      BY DEF Cancel, Relaunch, Cut, Fault, packs
    <2> QED  BY <2>1
  <1>3. helper' \in [Helper -> Helpers]
    BY <1>1, DoneHelper
  <1>4. cut' \in Slots \cup {0}
    <2>1. cut' \in {cut, helper[h].back}
      BY DEF Cancel, Relaunch, Cut, LeftAside, packs
    <2>2. helper[h].back \in Slots \cup {0}
      BY DEF TypeOK, Helpers
    <2> QED  BY <2>1, <2>2 DEF TypeOK
  <1>5. app' \in Apps
    <2>1. helper[h].id \in Gens \cup {0} /\ target \in Some
      BY DEF TypeOK, Helpers
    <2> QED  BY <2>1, BeginTyped DEF Cancel, Relaunch, Cut, TypeOK
  <1>6. PackTyped' /\ record' \in Records
    BY <1>1, <1>4 DEF TypeOK, PackTyped
  <1> QED  BY <1>1, <1>2, <1>3, <1>5, <1>6, HelpTyped

LEMMA NextTyped ==
  ASSUME IInv, Next
  PROVE  TypeOK'
  <1> USE DEF IInv
  <1>1. CASE Launch \/ Recover \/ Restage \/ RestageFails \/ PutAside \/ Place \/ Clear
    BY <1>1, LaunchTyped, RecoverTyped, RestageTyped, PlacingTyped
  <1>2. CASE Open \/ Checkpoint \/ RememberLast \/ WriteContract \/ RecordGeneration \/ Save
    BY <1>2, OpenTyped, CheckpointTyped, WriteContractTyped, RunningTyped, SaveTyped
  <1>3. CASE Quit \/ Crash
    BY <1>3, GoneTyped DEF Quit, Crash, Refused
  <1>4. ASSUME NEW h \in Helper, Update(h) \/ Return(h)  PROVE TypeOK'
    BY <1>4, UpdateTyped, ReturnTyped
  <1>5. ASSUME NEW h \in Helper, MoveAside(h) \/ MoveIn(h)  PROVE TypeOK'
    BY <1>5, MovesTyped
  <1>6. ASSUME NEW h \in Helper, Cancel(h) \/ Relaunch(h) \/ Cut(h)  PROVE TypeOK'
    BY <1>6, LeavesTyped
  <1> QED  BY <1>1, <1>2, <1>3, <1>4, <1>5, <1>6 DEF Next
-----------------------------------------------------------------------------
(* The theorems                                                            *)

LEMMA InitIInv ==
  ASSUME Init
  PROVE  IInv
  <1>1. PICK v \in Version \cup {0} :
          live = {} \/ (v \in Version /\ live = {[Bare EXCEPT !.schema = Format[v]]})
    BY DEF Init
  <1>2. \A p \in live : p \in Profiles /\ p.ver = 0 /\ live = {p}
    BY <1>1 DEF Bare, Profiles, Some
  <1>3. live \in AtMost1
    BY <1>2, OneTyped
  <1>4. Off \in Apps /\ NoRecord \in Records /\ Idle \in Helpers
    BY DEF Off, Apps, NoRecord, Records, Idle, Helpers, Some
  <1>5. RootTyped
    BY <1>3, OneTyped DEF Init, RootTyped
  <1>11. PackTyped
    <2>1. 0 \in 0 .. MaxInstall /\ target \in Some
      BY UpgradeAssumption DEF Init, Some
    <2>2. packages \in [Slots -> Some]
      BY DEF Init, Some
    <2> QED  BY <2>1, <2>2 DEF Init, PackTyped
  <1>9. KeptTyped
    BY <1>4, OneTyped, UpgradeAssumption DEF Init, KeptTyped
  <1>10. TypeOK
    BY <1>4, <1>5, <1>9, <1>11, TypedIsTypeOK DEF Init, Typed
  <1>6. Profile
    BY <1>2 DEF Init, Profile, GenerationsReadable, LiveReadable, Readable, Begun, Resuming,
                Stage, Off
  <1>7. target # 0
    BY UpgradeAssumption DEF Init
  <1>8. Installation
    BY <1>7 DEF Init, Installation, Moving, Installed, Idle
  <1> QED  BY <1>6, <1>8, <1>10 DEF IInv

LEMMA NextIInv ==
  ASSUME IInv, [Next]_vars
  PROVE  IInv'
  <1>1. CASE Next
    BY <1>1, NextTyped, NextProfile, NextInstallation DEF IInv
  <1>2. CASE UNCHANGED vars
    <2>1. UNCHANGED <<root, kept, app>> /\ UNCHANGED install
      BY <1>2 DEF vars
    <2>2. Profile'
      BY <2>1, SameProfile DEF IInv
    <2>3. Installation'
      BY <2>1, StayHelper, Attending DEF IInv, install
    <2>4. TypeOK'
      BY <1>2 DEF vars, root, kept, install, packs, IInv, TypeOK
    <2> QED  BY <2>2, <2>3, <2>4 DEF IInv
  <1> QED  BY <1>1, <1>2

(* The invariant is inductive: every step of the start, of the running app *)
(* and of the helpers keeps it, and so do crashes.                         *)
THEOREM Inductive == Spec => []IInv
  BY InitIInv, NextIInv, PTL DEF Spec

(* What a version opens it can read, and every generation can be read by   *)
(* the version it is kept for (accepts, checkpoint), whichever versions    *)
(* are launched in whatever order.                                         *)
THEOREM UpgradeInvHolds == Spec => []UpgradeInv
  <1>1. IInv => UpgradeInv
    BY DEF IInv, Profile, Stage, UpgradeInv, Understood
  <1> QED  BY <1>1, Inductive, PTL

(* A recovery that is written down can be finished by launching the        *)
(* version that began it with the same generation (recover).               *)
THEOREM ResumableHolds == Spec => []Resumable
  <1>1. IInv => Resumable
    BY DEF IInv, Profile, Resuming, Resumable
  <1> QED  BY <1>1, Inductive, PTL

(* There is an installation, but between the two moves of one helper       *)
(* (UNIX) or if it was killed just then.                                   *)
THEOREM InstalledHolds == Spec => []Installed
  <1>1. IInv => Installed
    BY DEF IInv, Installation
  <1> QED  BY <1>1, Inductive, PTL
-----------------------------------------------------------------------------
(* The refinement                                                          *)

Now == IF live = {} /\ pending # 0 THEN staged ELSE live
Pairs(f) == UNION {{g} \X f[g] : g \in Gens}

LEMMA PairsAre ==
  ASSUME NEW f, NEW x
  PROVE  x \in Pairs(f) <=> \E g \in Gens : \E p \in f[g] : x = <<g, p>>
  BY DEF Pairs

Adds(f, n, id, p) == n = [f EXCEPT ![id] = {p}]

LEMMA PairsAdd ==
  ASSUME NEW f \in [Gens -> AtMost1], NEW n, NEW id \in Gens, NEW p, f[id] = {},
         Adds(f, n, id, p)
  PROVE  Pairs(n) = Pairs(f) \cup {<<id, p>>} /\ \A x \in Pairs(f) : x[1] # id
  <1>1. n[id] = {p} /\ \A g \in Gens \ {id} : n[g] = f[g]
    BY DEF Adds
  <1>2. ASSUME NEW x  PROVE x \in Pairs(n) <=> x \in Pairs(f) \cup {<<id, p>>}
    BY <1>1, PairsAre
  <1>3. Pairs(n) = Pairs(f) \cup {<<id, p>>}
    BY <1>2
  <1>4. \A x \in Pairs(f) : x[1] # id
    BY PairsAre
  <1> QED  BY <1>3, <1>4

Stutter == UNCHANGED <<Now, Pairs(complete), Pairs(saved)>>

LEMMA Stutters ==
  ASSUME Stutter
  PROVE  [A!Next]_A!vars
  BY DEF Stutter, Now, Pairs, A!vars

LEMMA AbstractInit ==
  ASSUME Init
  PROVE  A!Init
  <1>1. live = {} \/ \E p \in Profiles : live = {p}
    BY DEF Init, Bare, Profiles, Some
  <1>2. Pairs(complete) = {} /\ Pairs(saved) = {}
    BY DEF Init, Pairs
  <1> QED  BY <1>1, <1>2 DEF Init, A!Init, Pairs

LEMMA SameRoot ==
  ASSUME UNCHANGED root, UNCHANGED complete
  PROVE  Stutter
  BY DEF Stutter, Now, Pairs, root

(* Nothing is pending before the step nor after it, and the profile stays. *)
LEMMA SameNow ==
  ASSUME pending = 0 \/ live # {}, UNCHANGED <<live, saved, complete>>,
         pending' = 0 \/ live # {}
  PROVE  Stutter
  BY DEF Stutter, Now, Pairs

LEMMA Changes ==
  ASSUME NEW p \in Profiles, pending = 0, UNCHANGED <<pending, saved, complete>>, live' = {p},
         \A q \in live : q.ver <= p.ver /\ q.work \subseteq p.work
  PROVE  A!Next
  <1>1. A!Change
    BY DEF A!Change, A!Continues
  <1> QED  BY <1>1 DEF A!Next

LEMMA RecoverKept ==
  ASSUME TypeOK, Profile, Recover \/ Restage \/ RestageFails
  PROVE  Stutter
  <1>1. CASE UNCHANGED root /\ UNCHANGED kept
    BY <1>1, SameRoot DEF kept
  <1>2. CASE Recover
    <2>1. CASE Selected /\ pending = 0 /\ UNCHANGED <<live, saved, pending, kept>>
      BY <2>1, SameNow DEF kept
    <2> QED  BY <1>1, <1>2, <2>1 DEF Recover, Refused
  <1>3. CASE Restage \/ RestageFails
    <2>1. /\ app.id \in Gens /\ pending = 0 /\ complete[app.id] # {}
          /\ UNCHANGED <<live, saved, complete>>
      BY <1>3, AppTyped DEF Profile, Stage, Restage, RestageFails, kept
    <2>2. live # {}
      BY <2>1 DEF Profile, Begun
    <2> QED  BY <2>1, <2>2, SameNow
  <1> QED  BY <1>2, <1>3

LEMMA PutAsideKept ==
  ASSUME TypeOK, Profile, PutAside
  PROVE  Stutter \/ A!Next
  <1>1. CASE UNCHANGED root /\ UNCHANGED kept
    BY <1>1, SameRoot DEF kept
  <1>2. CASE /\ saved[app.id] = {} /\ live # {}
             /\ saved' = [saved EXCEPT ![app.id] = live] /\ live' = {}
             /\ UNCHANGED <<staged, pending, kept>>
    <2>1. /\ app.id \in Gens /\ pending = app.id /\ pending # 0
          /\ UNCHANGED <<staged, pending, complete>>
      BY <1>2, AppTyped DEF Profile, Stage, PutAside, kept
    <2>2. complete[app.id] # {} /\ staged = complete[app.id]
      BY <1>2, <2>1 DEF Profile, Resuming
    <2>3. PICK p \in live : p \in Profiles /\ live = {p}
      BY <1>2, LiveTyped
    <2>4. PICK q \in complete[app.id] : complete[app.id] = {q}
      BY <2>1, <2>2, LiveTyped
    <2>5. /\ Pairs(saved') = Pairs(saved) \cup {<<app.id, p>>}
          /\ \A x \in Pairs(saved) : x[1] # app.id
      <3>1. saved \in [Gens -> AtMost1] /\ Adds(saved, saved', app.id, p)
        BY <1>2, <2>3 DEF TypeOK, Adds
      <3> QED  BY <1>2, <2>1, <2>3, <3>1, PairsAdd
    <2>6. <<app.id, q>> \in Pairs(complete)
      BY <2>1, <2>4, PairsAre
    <2>7. Now = {p} /\ Now' = {q} /\ Pairs(complete') = Pairs(complete)
      BY <1>2, <2>1, <2>2, <2>3, <2>4 DEF Now
    <2>8. A!Recover
      BY <2>3, <2>5, <2>6, <2>7 DEF A!Recover, Now, Pairs
    <2> QED  BY <2>8 DEF A!Next
  <1> QED  BY <1>1, <1>2 DEF PutAside, Refused

LEMMA PlaceKept ==
  ASSUME TypeOK, Profile, Place \/ Clear
  PROVE  Stutter
  <1>1. CASE UNCHANGED root /\ UNCHANGED kept
    BY <1>1, SameRoot DEF kept
  <1>2. CASE Place
    <2>1. pending = app.id /\ app.id # 0 /\ saved[app.id] # {}
      BY <1>2 DEF Profile, Stage, Place
    <2>2. CASE /\ live = {} /\ staged # {} /\ live' = staged /\ staged' = {}
               /\ UNCHANGED <<saved, pending, kept>>
      <3>1. Now = staged /\ Now' = staged /\ UNCHANGED <<saved, complete>>
        BY <2>1, <2>2 DEF Now, kept
      <3> QED  BY <3>1 DEF Stutter, Pairs
    <2> QED  BY <1>1, <1>2, <2>2 DEF Place, Refused
  <1>3. CASE Clear
    <2>1. live # {}
      BY <1>3 DEF Profile, Stage, Clear
    <2>2. CASE UNCHANGED <<live, saved, kept>>
      BY <2>1, <2>2, SameNow DEF kept
    <2> QED  BY <1>1, <1>3, <2>2 DEF Clear, Refused
  <1> QED  BY <1>2, <1>3

LEMMA OpenKept ==
  ASSUME TypeOK, Profile, Open
  PROVE  Stutter \/ A!Next
  <1>1. CASE Refused
    BY <1>1, SameRoot DEF Refused, kept
  <1>2. CASE ~Refused
    <2>1. /\ pending = 0 /\ live' = (IF live = {} THEN {Bare} ELSE live)
          /\ UNCHANGED <<saved, pending, complete>>
      BY <1>2 DEF Open, Opens
    <2>2. CASE live = {}
      BY <2>1, <2>2, BareTyped, Changes
    <2>3. CASE live # {}
      BY <2>1, <2>3, SameNow
    <2> QED  BY <2>2, <2>3
  <1> QED  BY <1>1, <1>2

LEMMA CheckpointKept ==
  ASSUME TypeOK, Profile, Checkpoint
  PROVE  A!Next
  <1>1. begun \in Gens /\ complete[begun] = {} /\ pending = 0 /\ live # {}
    BY DEF TypeOK, Profile, Begun, Stage, Checkpoint, Gens
  <1>2. PICK p \in live : p \in Profiles /\ live = {p}
    BY <1>1, LiveTyped
  <1>3. UNCHANGED <<live, pending, saved>> /\ Adds(complete, complete', begun, p)
    BY <1>2 DEF Checkpoint, root, Adds
  <1>4. /\ Pairs(complete') = Pairs(complete) \cup {<<begun, p>>}
        /\ \A x \in Pairs(complete) : x[1] # begun
    <2>1. complete \in [Gens -> AtMost1]
      BY DEF TypeOK
    <2> QED  BY <1>1, <1>2, <1>3, <2>1, PairsAdd
  <1>5. Now = live /\ Now' = live /\ Pairs(saved') = Pairs(saved)
    BY <1>1, <1>3 DEF Now
  <1>6. A!Complete
    BY <1>1, <1>2, <1>4, <1>5 DEF A!Complete, Now, Pairs
  <1> QED  BY <1>6 DEF A!Next

LEMMA WriteContractKept ==
  ASSUME TypeOK, Profile, WriteContract
  PROVE  A!Next
  <1>1. app.ver \in Version /\ pending = 0 /\ live # {} /\ \A p \in live : p.ver <= app.ver
    BY AppTyped DEF Profile, Stage, WriteContract, Accepts
  <1>2. PICK p \in live : p \in Profiles /\ live = {p}
    BY <1>1, LiveTyped
  <1>3. live' = {Marks(p)} /\ UNCHANGED <<pending, saved, complete>>
    BY <1>2 DEF WriteContract, Marks, kept
  <1> QED  BY <1>1, <1>2, <1>3, MarksTyped, Changes

LEMMA SaveKept ==
  ASSUME TypeOK, Profile, Save
  PROVE  A!Next
  <1>1. app.ver \in Version /\ pending = 0 /\ live # {}
    BY AppTyped DEF Profile, Stage, Save
  <1>2. saves' \in Work
    <2>1. saves \in 0 .. MaxSave /\ MaxSave \in Nat
      BY UpgradeAssumption DEF TypeOK
    <2>2. saves < MaxSave /\ saves' = saves + 1
      BY DEF Save
    <2> QED  BY <2>1, <2>2 DEF Work
  <1>3. PICK p \in live : p \in Profiles /\ live = {p}
    BY <1>1, LiveTyped
  <1>4. live' = {Works(p)} /\ UNCHANGED <<pending, saved, complete>>
    BY <1>3 DEF Save, Works, kept
  <1>5. Works(p) \in Profiles /\ Works(p).ver = p.ver /\ p.work \subseteq Works(p).work
    BY <1>1, <1>2, <1>3, WorksTyped
  <1>6. p.ver <= p.ver
    BY <1>3, ProfileTyped
  <1> QED  BY <1>1, <1>3, <1>4, <1>5, <1>6, Changes

LEMMA NextKept ==
  ASSUME TypeOK, Profile, Next
  PROVE  [A!Next]_A!vars
  <1>1. CASE UNCHANGED root /\ UNCHANGED kept
    BY <1>1, SameRoot, Stutters DEF kept
  <1>2. CASE Recover \/ Restage \/ RestageFails \/ Place \/ Clear
    BY <1>2, RecoverKept, PlaceKept, Stutters
  <1>3. CASE PutAside \/ Open
    BY <1>3, PutAsideKept, OpenKept, Stutters
  <1>4. CASE Checkpoint \/ WriteContract \/ Save
    BY <1>4, CheckpointKept, WriteContractKept, SaveKept
  <1>5. CASE Launch \/ Quit \/ Crash
    BY <1>1, <1>5 DEF Launch, Quit, Crash, Refused
  <1>6. CASE RememberLast \/ RecordGeneration
    <2>1. UNCHANGED root /\ UNCHANGED complete
      BY <1>6 DEF RememberLast, RecordGeneration, kept
    <2> QED  BY <2>1, SameRoot, Stutters
  <1>7. ASSUME NEW h \in Helper,
               Update(h) \/ Return(h) \/ Cancel(h) \/ MoveAside(h) \/ MoveIn(h) \/ Cut(h)
        PROVE  [A!Next]_A!vars
    BY <1>1, <1>7, HelperRest
  <1>8. ASSUME NEW h \in Helper, Relaunch(h)  PROVE [A!Next]_A!vars
    BY <1>1, <1>8 DEF Relaunch
  <1> QED  BY <1>2, <1>3, <1>4, <1>5, <1>6, <1>7, <1>8 DEF Next

(* The profile's directories implement Archive: whatever is launched, and  *)
(* whatever step it is stopped at, work is only ever added by ever newer   *)
(* versions, a generation is immutable, and a recovery happens at a stroke *)
(* (profile.rs, open, checkpoint and recover).                             *)
THEOREM KeptHolds == Spec => Kept
  <1>1. Init => A!Init
    BY AbstractInit
  <1>2. IInv /\ [Next]_vars => [A!Next]_A!vars
    <2>1. ASSUME IInv, Next  PROVE [A!Next]_A!vars
      BY <2>1, NextKept DEF IInv
    <2>2. ASSUME UNCHANGED vars  PROVE [A!Next]_A!vars
      <3>1. UNCHANGED root /\ UNCHANGED complete
        BY <2>2 DEF vars, kept
      <3> QED  BY <3>1, SameRoot, Stutters
    <2> QED  BY <2>1, <2>2
  <1> QED  BY <1>1, <1>2, Inductive, PTL DEF Spec, Kept
=============================================================================

----------------------------- MODULE HostProofs -----------------------------
(***************************************************************************)
(* Proofs about two things the app tends every turn, the wake lease        *)
(* (FinishWork) and the language servers (LanguageServers).                *)
(*                                                                         *)
(* Of FinishWork, for any shells, times and bounds: types, whose work the  *)
(* lease is held for, that it is taken by a click only and that safety     *)
(* wins.  Of LanguageServers, for any buffers, any servers and any length  *)
(* of the queue: types, that an answer is taken for its own request only,  *)
(* and that a living server has, or is about to read, the text that is     *)
(* edited.                                                                 *)
(***************************************************************************)
EXTENDS FinishWork, LanguageServers, FiniteSetTheorems, SequenceTheorems, TLAPS
-----------------------------------------------------------------------------
(* The wake lease                                                          *)

(* A submission that waits has not been counted yet, and nothing is counted*)
(* that has no generation.                                                 *)
Counted ==
  \A p \in Panes :
    /\ granted[p] + (IF armed[p] = Nothing THEN 0 ELSE 1) <= asked[p]
    /\ granted[p] <= last

(* While the lease is held the last that was heard of the power was good,  *)
(* and was heard no later than the situation became unsafe.                *)
Watched == fw.engaged => ~fw.unsafe /\ (unsafe => since <= fw.age)

IInv == TypeOK /\ Honest /\ Counted /\ Watched
-----------------------------------------------------------------------------
(* The policy's operators                                                  *)

LEMMA EligibleTyped == TypeOK => Eligible \subseteq Work /\ Eligible \subseteq origin
  BY FinishWorkAssumption DEF TypeOK, Eligible, Live, Work

LEMMA ReleaseIs ==
  ASSUME NEW f \in Host
  PROVE  /\ Release(f) \in Host /\ Release(f).engaged = FALSE
         /\ Release(f).lease = FALSE /\ Release(f).held = {}
  BY DEF Release, Host

LEMMA PolledIs ==
  ASSUME TypeOK, NEW f \in Host
  PROVE  /\ Polled(f) \in Host /\ Polled(f).engaged = f.engaged
         /\ Polled(f).lease = f.lease /\ Polled(f).held = f.held
         /\ Polled(f).unsafe = unsafe /\ Polled(f).age = 0
  <1>1. unsafe \in BOOLEAN /\ 0 \in 0 .. Poll
    BY FinishWorkAssumption DEF TypeOK
  <1> QED  BY <1>1 DEF Polled, Host

(* What the policy keeps true of itself, when the power is as it is.       *)
Sound(f) ==
  /\ f \in Host /\ f.lease = f.engaged /\ (f.lease => f.held # {})
  /\ f.held \subseteq origin
  /\ f.engaged => ~f.unsafe /\ (unsafe => since <= f.age)

LEMMA ReleaseSound == ASSUME NEW f \in Host PROVE Sound(Release(f))
  BY ReleaseIs DEF Sound

LEMMA EngageSound ==
  ASSUME TypeOK, NEW f, Sound(f), ~f.engaged, NEW refused \in BOOLEAN
  PROVE  /\ Sound(Engage(f, refused)) /\ (unsafe => ~Engage(f, refused).lease)
  <1>1. f \in Host /\ Polled(f) \in Host
    BY PolledIs DEF Sound
  <1>2. CASE unsafe \/ Eligible = {} \/ refused
    BY <1>1, <1>2, PolledIs DEF Sound, Engage
  <1>3. CASE ~(unsafe \/ Eligible = {} \/ refused)
    <2>1. Engage(f, refused)
            = [Polled(f) EXCEPT !.engaged = TRUE, !.held = Eligible, !.lease = TRUE]
      BY <1>3 DEF Engage
    <2>2. Polled(f).unsafe = FALSE
      BY <1>1, <1>3, PolledIs DEF TypeOK
    <2> QED  BY <1>1, <1>3, <2>1, <2>2, EligibleTyped DEF Sound, Host
  <1> QED  BY <1>2, <1>3

LEMMA ToggleSound ==
  ASSUME TypeOK, NEW f, Sound(f), NEW refused \in BOOLEAN
  PROVE  Sound(Toggle(f, refused)) /\ (unsafe => ~Toggle(f, refused).lease)
  <1>1. CASE f.engaged
    BY <1>1, ReleaseSound, ReleaseIs DEF Toggle, Disengage, Sound
  <1>2. CASE ~f.engaged
    BY <1>2, EngageSound DEF Toggle
  <1> QED  BY <1>1, <1>2

(* A turn without a click keeps the lease or gives it back; and it is given*)
(* back when it has been unsafe for as long as the power may go unasked.   *)
LEMMA SyncSound ==
  ASSUME TypeOK, NEW f, Sound(f), NEW refused \in BOOLEAN
  PROVE  /\ Sound(Sync(f, refused))
         /\ Sync(f, refused).lease => f.lease
         /\ unsafe /\ since = Poll => ~Sync(f, refused).lease
  <1> DEFINE g == IF Due(f) THEN Polled(f) ELSE f
  <1>1. CASE ~f.engaged
    BY <1>1 DEF Sync, Sound
  <1>2. CASE f.engaged
    <2>1. /\ f \in Host /\ f.lease /\ ~f.unsafe /\ (unsafe => since <= f.age)
          /\ f.age \in 0 .. Poll /\ f.held \subseteq origin
      BY <1>2 DEF Sound, Host
    <2>2. /\ g \in Host /\ g.engaged /\ g.lease /\ g.held = f.held
          /\ (unsafe /\ ~g.unsafe => since <= g.age)
          /\ (unsafe /\ since = Poll => g.unsafe)
      <3>1. CASE Due(f)
        <4>1. g.unsafe = unsafe /\ unsafe \in BOOLEAN
          BY <2>1, <3>1, PolledIs DEF TypeOK
        <4> QED  BY <1>2, <2>1, <3>1, <4>1, PolledIs
      <3>2. CASE ~Due(f)
        BY <1>2, <2>1, <3>2, FinishWorkAssumption DEF Due, TypeOK
      <3> QED  BY <3>1, <3>2
    <2>3. Sync(f, refused)
            = IF g.unsafe \/ Holds(g) = {} \/ (~g.lease /\ refused) THEN Release(g)
              ELSE [g EXCEPT !.held = Holds(g), !.lease = TRUE]
      BY <1>2 DEF Sync
    <2>4. CASE g.unsafe \/ Holds(g) = {} \/ (~g.lease /\ refused)
      BY <2>2, <2>3, <2>4, ReleaseSound, ReleaseIs
    <2>5. CASE ~(g.unsafe \/ Holds(g) = {} \/ (~g.lease /\ refused))
      <3>1. Holds(g) \subseteq Work /\ Holds(g) \subseteq origin
        BY EligibleTyped DEF Holds
      <3> QED  BY <2>1, <2>2, <2>3, <2>5, <3>1 DEF Sound, Host
    <2> QED  BY <2>4, <2>5
  <1> QED  BY <1>1, <1>2

LEMMA TurnSound ==
  ASSUME IInv, Turn
  PROVE  /\ Sound(fw') /\ (~fw.lease /\ fw'.lease => toggle)
         /\ unsafe /\ since = Poll => ~fw'.lease
  <1>1. PICK refused \in BOOLEAN :
          fw' = Sync(IF toggle THEN Toggle(fw, refused) ELSE fw, refused)
    BY DEF Turn
  <1>2. TypeOK /\ Sound(fw)
    BY DEF IInv, TypeOK, Honest, Watched, Sound
  <1>3. CASE toggle
    BY <1>1, <1>2, <1>3, ToggleSound, SyncSound
  <1>4. CASE ~toggle
    BY <1>1, <1>2, <1>4, SyncSound
  <1> QED  BY <1>3, <1>4
-----------------------------------------------------------------------------
(* Steps                                                                   *)

LEMMA InitInv == Init => IInv
  <1> SUFFICES ASSUME Init PROVE IInv
    OBVIOUS
  <1>1. 0 \in 0 .. MaxWork /\ 0 \in 0 .. MaxAsk /\ Poll \in 0 .. Poll /\ 0 \in 0 .. Poll
        /\ 0 \in 0 .. Fresh /\ Nothing \in Nothing .. Fresh
    BY FinishWorkAssumption DEF Nothing
  <1>2. fw \in Host
    BY <1>1 DEF Init, Host
  <1>3. <<>> \in Seq(Lines)
    OBVIOUS
  <1>4. TypeOK
    BY <1>1, <1>2, <1>3 DEF Init, TypeOK
  <1>5. Counted
    BY DEF Init, Counted
  <1> QED  BY <1>4, <1>5 DEF Init, IInv, Honest, Watched

(* The shells' types, and what they count, when a line is written.         *)
LEMMA GoesTyped ==
  ASSUME TypeOK, NEW p \in Panes, NEW line \in Lines, Goes(p, line)
  PROVE  typed' \in [Panes -> Seq(Lines)]
  BY DEF TypeOK, Goes

LEMMA ArmTyped ==
  ASSUME TypeOK, Counted, NEW p \in Panes, Arm(p)
  PROVE  /\ armed' \in [Panes -> Nothing .. Fresh] /\ asked' \in [Panes -> 0 .. MaxAsk]
         /\ granted' = granted /\ last' = last => Counted'
  <1>1. /\ armed' \in [Panes -> Nothing .. Fresh] /\ asked' \in [Panes -> 0 .. MaxAsk]
    BY FinishWorkAssumption DEF TypeOK, Arm, Nothing
  <1>2. ASSUME granted' = granted, last' = last, NEW q \in Panes
        PROVE  /\ granted'[q] + (IF armed'[q] = Nothing THEN 0 ELSE 1) <= asked'[q]
               /\ granted'[q] <= last'
    BY <1>2, FinishWorkAssumption, SMTT(30) DEF TypeOK, Counted, Arm, Nothing
  <1> QED  BY <1>1, <1>2 DEF Counted

LEMMA EnterInv == ASSUME IInv, NEW p \in Panes, Enter(p) PROVE IInv'
  <1>1. typed' \in [Panes -> Seq(Lines)]
    BY GoesTyped DEF IInv, TypeOK, Enter, Lines
  <1> QED  BY <1>1, ArmTyped DEF IInv, TypeOK, Honest, Watched, Enter, pages, work, lease, power

LEMMA RerunInv == ASSUME IInv, NEW p \in Panes, Rerun(p) PROVE IInv'
  <1>1. typed' \in [Panes -> Seq(Lines)]
    BY GoesTyped DEF IInv, Rerun, Lines
  <1> QED  BY <1>1, ArmTyped DEF IInv, TypeOK, Honest, Watched, Rerun, pages, work, lease, power

LEMMA AskForInv == ASSUME IInv, NEW p \in Panes, AskFor(p) PROVE IInv'
  BY DEF IInv, TypeOK, Honest, Watched, Counted, AskFor, pages, work, lease, power

LEMMA TypeAtPromptInv == ASSUME IInv, NEW p \in Panes, TypeAtPrompt(p) PROVE IInv'
  <1>1. typed' \in [Panes -> Seq(Lines)] /\ waiting' \in [Panes -> {"none", "user", "other"}]
    <2>1. waiting[p] \in Lines
      BY DEF IInv, TypeOK, TypeAtPrompt, Lines
    <2> QED  BY <2>1, GoesTyped DEF IInv, TypeOK, TypeAtPrompt
  <1>2. /\ armed' \in [Panes -> Nothing .. Fresh] /\ asked' \in [Panes -> 0 .. MaxAsk]
        /\ Counted'
    <2>1. granted' = granted /\ last' = last
      BY DEF TypeAtPrompt, work
    <2>2. CASE Arm(p)
      BY <2>1, <2>2, ArmTyped DEF IInv
    <2>3. CASE UNCHANGED <<armed, asked>>
      BY <2>1, <2>3 DEF IInv, TypeOK, Counted
    <2> QED  BY <2>2, <2>3 DEF TypeAtPrompt
  <1> QED  BY <1>1, <1>2 DEF IInv, TypeOK, Honest, Watched, TypeAtPrompt, pages, work, lease, power

LEMMA SendTextInv == ASSUME IInv, NEW p \in Panes, SendText(p) PROVE IInv'
  <1>1. typed' \in [Panes -> Seq(Lines)]
    BY GoesTyped DEF IInv, SendText, Lines
  <1> QED  BY <1>1 DEF IInv, TypeOK, Honest, Watched, Counted, SendText, pages, work, lease, power

LEMMA NextWorkTyped ==
  ASSUME TypeOK, NEW user, NextWork(user)
  PROVE  /\ last' = last + 1 /\ last' \in 1 .. MaxWork
         /\ origin' \subseteq Work /\ origin \subseteq origin'
  BY FinishWorkAssumption DEF TypeOK, NextWork, Work

LEMMA OutputStartInv == ASSUME IInv, NEW p \in Panes, OutputStart(p) PROVE IInv'
  <1>1. typed' \in [Panes -> Seq(Lines)]
    BY DEF IInv, TypeOK, OutputStart
  <1>2. CASE UNCHANGED <<armed, shell, granted, work>>
    BY <1>1, <1>2 DEF IInv, TypeOK, Honest, Watched, Counted, OutputStart, pages, work, lease, power
  <1>3. CASE /\ NextWork(armed[p] > 0) /\ Disarmed(p)
             /\ shell' = [shell EXCEPT ![p] = last']
             /\ granted' = IF armed[p] > 0 THEN [granted EXCEPT ![p] = @ + 1] ELSE granted
             /\ theirs' = IF Head(typed[p]) = "other" THEN theirs \cup {last'} ELSE theirs
    <2>1. /\ last' = last + 1 /\ last' \in 1 .. MaxWork
          /\ origin' \subseteq Work /\ origin \subseteq origin'
      BY <1>3, NextWorkTyped DEF IInv
    <2>2. armed' \in [Panes -> Nothing .. Fresh] /\ shell' \in [Panes -> 0 .. MaxWork]
      BY <1>3, <2>1, FinishWorkAssumption DEF IInv, TypeOK, Disarmed, Nothing
    <2>3. granted' \in [Panes -> 0 .. MaxWork]
      BY <1>3, <2>1, FinishWorkAssumption, SMTT(30) DEF IInv, TypeOK, Counted, Nothing
    <2>4. theirs' \subseteq Work
      BY <1>3, <2>1 DEF IInv, TypeOK, Work
    <2>5. TypeOK'
      BY <1>1, <2>1, <2>2, <2>3, <2>4, SMTT(30)
      DEF IInv, TypeOK, OutputStart, pages, work, lease, power
    <2>6. Counted'
      <3> SUFFICES ASSUME NEW q \in Panes
                   PROVE  /\ granted'[q] + (IF armed'[q] = Nothing THEN 0 ELSE 1) <= asked'[q]
                          /\ granted'[q] <= last'
        BY DEF Counted
      <3>1. asked' = asked
        BY DEF OutputStart
      <3>2. /\ granted[q] \in Nat /\ asked[q] \in Nat /\ last \in Nat /\ granted[q] <= last
            /\ granted[q] + (IF armed[q] = Nothing THEN 0 ELSE 1) <= asked[q]
        BY FinishWorkAssumption DEF IInv, TypeOK, Counted
      <3>3. CASE q # p
        BY <1>3, <2>1, <3>1, <3>2, <3>3 DEF IInv, TypeOK, Disarmed
      <3>4. CASE q = p
        <4>1. armed'[q] = Nothing
          BY <1>3, <3>4 DEF IInv, TypeOK, Disarmed
        <4>2. granted'[q] = granted[q] \/ (armed[q] > 0 /\ granted'[q] = granted[q] + 1)
          BY <1>3, <3>4 DEF IInv, TypeOK
        <4> QED  BY <2>1, <3>1, <3>2, <4>1, <4>2 DEF Nothing
      <3> QED  BY <3>3, <3>4
    <2> QED  BY <2>1, <2>5, <2>6 DEF IInv, Honest, Watched, OutputStart, lease, power
  <1> QED  BY <1>2, <1>3 DEF OutputStart

LEMMA CommandEndInv == ASSUME IInv, NEW p \in Panes, CommandEnd(p) PROVE IInv'
  BY FinishWorkAssumption
  DEF IInv, TypeOK, Honest, Watched, Counted, CommandEnd, pages, work, lease, power

LEMMA CloseInv == ASSUME IInv, NEW p \in Panes, Close(p) PROVE IInv'
  <1>1. TypeOK'
    BY FinishWorkAssumption, SMTT(30) DEF IInv, TypeOK, Close, Nothing, pages, work, lease, power
  <1>2. Counted'
    BY FinishWorkAssumption, SMTT(30) DEF IInv, TypeOK, Counted, Close, Nothing, work
  <1> QED  BY <1>1, <1>2 DEF IInv, Honest, Watched, Close, work, lease, power

LEMMA GestureInv == ASSUME IInv, Gesture PROVE IInv'
  BY FinishWorkAssumption
  DEF IInv, TypeOK, Honest, Watched, Counted, Gesture, shells, work, lease, power

LEMMA DownloadInv == ASSUME IInv, Download PROVE IInv'
  <1>1. /\ last' = last + 1 /\ last' \in 1 .. MaxWork
        /\ origin' \subseteq Work /\ origin \subseteq origin'
    BY NextWorkTyped DEF IInv, Download
  <1>2. moving' \subseteq Work
    BY <1>1 DEF IInv, TypeOK, Download, Work
  <1>3. TypeOK'
    BY <1>1, <1>2 DEF IInv, TypeOK, Download, shells, lease, power
  <1>4. Counted'
    BY <1>1 DEF IInv, TypeOK, Counted, Download, shells
  <1> QED  BY <1>1, <1>3, <1>4 DEF IInv, Honest, Watched, Download, lease, power

(* Pause, Resume and Ends move a download from one set to another.         *)
LEMMA MovedInv ==
  ASSUME IInv, NEW d \in moving \cup paused, Pause(d) \/ Resume(d) \/ Ends(d) PROVE IInv'
  <1>1. /\ moving' \subseteq Work /\ paused' \subseteq Work
        /\ UNCHANGED <<shells, gesture, work, lease, power>>
    BY DEF IInv, TypeOK, Pause, Resume, Ends
  <1> QED  BY <1>1 DEF IInv, TypeOK, Honest, Watched, Counted, shells, work, lease, power

LEMMA TurnInv == ASSUME IInv, Turn PROVE IInv'
  <1>1. Sound(fw')
    BY TurnSound
  <1>2. TypeOK' /\ Counted'
    BY <1>1 DEF IInv, TypeOK, Counted, Sound, Turn, shells, pages, work, power
  <1> QED  BY <1>1, <1>2 DEF IInv, Honest, Watched, Sound, Turn, work, power

LEMMA ClickInv == ASSUME IInv, Click PROVE IInv'
  BY DEF IInv, TypeOK, Honest, Watched, Counted, Click, shells, pages, work, power

LEMMA PowerInv == ASSUME IInv, Power PROVE IInv'
  <1>1. fw.age \in 0 .. Poll /\ 0 \in 0 .. Poll
    BY FinishWorkAssumption DEF IInv, TypeOK, Host
  <1> QED  BY <1>1 DEF IInv, TypeOK, Honest, Watched, Counted, Power, shells, pages, work, lease

LEMMA TickInv == ASSUME IInv, Tick PROVE IInv'
  <1>1. /\ fw \in Host /\ fw' \in Host /\ fw'.engaged = fw.engaged /\ fw'.lease = fw.lease
        /\ fw'.held = fw.held /\ fw'.unsafe = fw.unsafe
        /\ fw'.age = IF fw.age < Poll THEN fw.age + 1 ELSE fw.age
    <2>1. fw \in Host /\ fw' = [fw EXCEPT !.age = IF @ < Poll THEN @ + 1 ELSE @]
      BY DEF IInv, TypeOK, Tick
    <2>2. (IF fw.age < Poll THEN fw.age + 1 ELSE fw.age) \in 0 .. Poll
      BY <2>1, FinishWorkAssumption DEF Host
    <2> QED  BY <2>1, <2>2 DEF Host
  <1>2. armed' \in [Panes -> Nothing .. Fresh] /\ gesture' \in 0 .. Fresh /\ since' \in 0 .. Poll
    <2>1. Fresh \in Nat /\ Poll \in Nat
      BY FinishWorkAssumption
    <2>2. ASSUME NEW p \in Panes PROVE Older(armed[p]) \in Nothing .. Fresh
      BY <2>1 DEF IInv, TypeOK, Older, Nothing
    <2>3. gesture' \in 0 .. Fresh
      BY <2>1 DEF IInv, TypeOK, Tick, Older
    <2>4. since' \in 0 .. Poll
      BY <2>1 DEF IInv, TypeOK, Tick
    <2> QED  BY <2>2, <2>3, <2>4 DEF Tick
  <1>3. TypeOK'
    BY <1>1, <1>2 DEF IInv, TypeOK, Tick, work
  <1>4. Counted'
    <2>1. \A p \in Panes : armed[p] \in Nothing .. Fresh /\ (armed'[p] = Nothing <=> armed[p] = Nothing)
      BY FinishWorkAssumption DEF IInv, TypeOK, Tick, Older, Nothing
    <2> QED  BY <2>1 DEF IInv, Counted, Tick, work
  <1>5. Watched'
    BY <1>1, FinishWorkAssumption DEF IInv, TypeOK, Host, Watched, Tick
  <1> QED  BY <1>1, <1>3, <1>4, <1>5 DEF IInv, Honest, Tick, work
-----------------------------------------------------------------------------
LEMMA StepInv == IInv /\ [Next]_vars => IInv'
  <1> SUFFICES ASSUME IInv, [Next]_vars PROVE IInv'
    OBVIOUS
  <1>1. CASE UNCHANGED vars
    BY <1>1 DEF IInv, TypeOK, Honest, Watched, Counted, vars, shells, pages, work, lease, power
  <1>2. ASSUME NEW p \in Panes,
               \/ Enter(p) \/ Rerun(p) \/ AskFor(p) \/ TypeAtPrompt(p) \/ SendText(p)
               \/ OutputStart(p) \/ CommandEnd(p) \/ Close(p)
        PROVE  IInv'
    BY <1>2, EnterInv, RerunInv, AskForInv, TypeAtPromptInv, SendTextInv, OutputStartInv,
       CommandEndInv, CloseInv
  <1>3. ASSUME NEW d \in moving \cup paused, Pause(d) \/ Resume(d) \/ Ends(d) PROVE IInv'
    BY <1>3, MovedInv
  <1> QED  BY <1>1, <1>2, <1>3, GestureInv, DownloadInv, TurnInv, ClickInv, PowerInv, TickInv
           DEF Next

LEMMA SpecInv == Spec => []IInv
  BY InitInv, StepInv, PTL DEF Spec

(* Every variable has its type: no clock runs below zero or past its limit *)
(* and no submission is counted past the bounds.                           *)
THEOREM TypesHold == Spec => []TypeOK
  <1>1. IInv => TypeOK
    BY DEF IInv
  <1> QED  BY <1>1, SpecInv, PTL

(* The lease is held while and only while it is engaged, for some work, and*)
(* all of it was started by the user (finish_work.rs, sync).               *)
THEOREM HonestHolds == Spec => []Honest
  <1>1. IInv => Honest
    BY DEF IInv
  <1> QED  BY <1>1, SpecInv, PTL

(* One submission makes at most one command count as the user's, whatever  *)
(* follows it into the shell (app.rs, the start mark takes it).            *)
THEOREM OneEachHolds == Spec => []OneEach
  <1>1. ASSUME IInv, NEW p \in Panes PROVE granted[p] <= asked[p]
    <2>1. /\ granted[p] \in Nat /\ asked[p] \in Nat
          /\ granted[p] + (IF armed[p] = Nothing THEN 0 ELSE 1) <= asked[p]
      BY <1>1 DEF IInv, TypeOK, Counted
    <2> QED  BY <2>1
  <1>2. IInv => OneEach
    BY <1>1 DEF OneEach
  <1> QED  BY <1>2, SpecInv, PTL

(* Only a turn changes what the policy holds, but for the time that passes.*)
LEMMA OthersKeepLease == ASSUME [Next]_vars, ~Turn PROVE fw'.lease = fw.lease
  <1>1. CASE Tick
    <2>1. fw' = [fw EXCEPT !.age = IF @ < Poll THEN @ + 1 ELSE @]
      BY <1>1 DEF Tick
    <2> QED  BY <2>1
  <1> QED  BY <1>1 DEF Next, vars, lease, Enter, Rerun, AskFor, TypeAtPrompt, SendText, OutputStart,
           CommandEnd, Close, Gesture, Download, Pause, Resume, Ends, Click, Power

(* Nothing but a click takes the lease: not work that begins, nor power    *)
(* that comes back (finish_work.rs, toggle and sync).                      *)
THEOREM OnlyByClickHolds == Spec => OnlyByClick
  <1>1. IInv /\ [Next]_vars => [~fw.lease /\ fw'.lease => toggle]_vars
    BY TurnSound, OthersKeepLease
  <1> QED  BY <1>1, SpecInv, PTL DEF Spec, OnlyByClick

(* A turn at which the power has been unsafe for as long as it may go      *)
(* unasked ends with the lease given back (finish_work.rs, sync).          *)
THEOREM SafetyWinsHolds == Spec => SafetyWins
  <1>1. IInv /\ [Next]_vars => [Turn /\ unsafe /\ since = Poll => ~fw'.lease]_vars
    BY TurnSound
  <1> QED  BY <1>1, SpecInv, PTL DEF Spec, SafetyWins
-----------------------------------------------------------------------------
(* The language servers                                                    *)

(* Where there is no client there is no process that reads.               *)
Idle == \A s \in Servers : sv[s].state = "none" => ~sv[s].reads

(* A buffer counts as open only in a server that is up.                    *)
Ready == \A b \in in_lsp : sv[ServerOf[b]].state = "ready"

(* The ids of what a server is asked, from the queue to the inbox, and that*)
(* what waits for one of them was asked of this very process: an answer    *)
(* under way was a request before, so that Answerable alone is not enough. *)
AskIds(v) ==
  {v.out[i].id : i \in {j \in DOMAIN v.out : v.out[j].kind = "ask"}} \cup v.todo
    \cup {v.inbox[i].id : i \in {j \in DOMAIN v.inbox : v.inbox[j].kind = "answer"}}
OwnAsked == \A p \in pending : p.id \in AskIds(sv[p.server]) => p.gen = sv[p.server].gen

(* The inductive invariant.                                                *)
ServersInv == LspTypeOK /\ Idle /\ Ready /\ OwnAsked /\ ServerSees

(* A server with what it may hold.                                         *)
Fits == {v \in Server : Len(v.out) <= QueueCap}

LEMMA LspConstants ==
  /\ IsFiniteSet(Buffers) /\ ServerOf \in [Buffers -> Servers] /\ NoBuffer \notin Buffers
  /\ QueueCap \in Nat /\ QueueCap > 0 /\ MaxText \in Nat /\ MaxText > 0
  /\ MaxSpawn \in Nat /\ MaxSpawn > 0 /\ MaxRequest \in Nat /\ MaxRequest > 0
  BY LanguageServersAssumption

LEMMA NoServerIs ==
  ASSUME NEW g \in 0 .. MaxSpawn
  PROVE  NoServer(g) \in Fits /\ AskIds(NoServer(g)) = {}
  <1>1. NoServer(g).out = <<>> /\ NoServer(g).inbox = <<>> /\ NoServer(g).todo = {}
    BY DEF NoServer
  <1>2. AskIds(NoServer(g)) = {}
    BY <1>1 DEF AskIds
  <1>3. 1 \in Ids /\ Len(<<>>) = 0 /\ QueueCap \in Nat /\ <<>> \in Seq(Msgs) /\ <<>> \in Seq(Events)
    BY LspConstants DEF Ids
  <1>4. [b \in Buffers |-> Gone] \in [Buffers -> Texts \cup {Gone}]
    OBVIOUS
  <1>5. NoServer(g) \in Server
    BY <1>3, <1>4 DEF NoServer, Server
  <1>6. Len(NoServer(g).out) <= QueueCap
    BY <1>1, <1>3
  <1> QED  BY <1>2, <1>5, <1>6 DEF Fits

(* Nothing of a server but its queue, and whether it lives, is different.  *)
SameButQueue(v, w) ==
  /\ w.state = v.state /\ w.gen = v.gen /\ w.next = v.next /\ w.known = v.known
  /\ w.docs = v.docs /\ w.todo = v.todo /\ w.told = v.told /\ w.inbox = v.inbox

LEMMA QueueSet ==
  ASSUME NEW v \in Server, NEW o \in Seq(Msgs), NEW w, w = [v EXCEPT !.out = o]
  PROVE  w \in Server /\ SameButQueue(v, w) /\ w.out = o /\ (w.reads => v.reads)
  BY DEF Server, SameButQueue

LEMMA QueueSetEnded ==
  ASSUME NEW v \in Server, NEW o \in Seq(Msgs), NEW w, w = [v EXCEPT !.out = o, !.reads = FALSE]
  PROVE  w \in Server /\ SameButQueue(v, w) /\ w.out = o /\ w.reads = FALSE
  BY DEF Server, SameButQueue

LEMMA Ended ==
  ASSUME NEW v \in Server, NEW w, w = [v EXCEPT !.reads = FALSE]
  PROVE  w \in Server /\ SameButQueue(v, w) /\ w.out = v.out /\ w.reads = FALSE
  BY DEF Server, SameButQueue

(* Several messages into the queue of a server: the rest of it is as it    *)
(* was, and if it lives there was room for them.                           *)
LEMMA EnqueueAllIs ==
  ASSUME NEW v \in Fits, NEW ms \in Seq(Msgs)
  PROVE  LET w == EnqueueAll(v, ms) IN
         /\ w \in Fits /\ SameButQueue(v, w)
         /\ w.reads => v.reads
         /\ w.reads => w.out = v.out \o ms
         /\ \A i \in 1 .. Len(w.out) :
              \/ i \in 1 .. Len(v.out) /\ w.out[i] = v.out[i]
              \/ i - Len(v.out) \in 1 .. Len(ms) /\ w.out[i] = ms[i - Len(v.out)]
  <1> DEFINE room == QueueCap - Len(v.out)
             w    == EnqueueAll(v, ms)
  <1>1. v \in Server /\ v.out \in Seq(Msgs) /\ Len(v.out) \in Nat /\ Len(v.out) <= QueueCap
        /\ QueueCap \in Nat /\ room \in Nat /\ Len(ms) \in Nat
    BY LspConstants DEF Fits, Server
  <1>2. CASE Len(ms) <= room
    <2>1. w = [v EXCEPT !.out = v.out \o ms]
      BY <1>2 DEF EnqueueAll
    <2> HIDE DEF w
    <2>2. v.out \o ms \in Seq(Msgs) /\ Len(v.out \o ms) = Len(v.out) + Len(ms)
      BY <1>1
    <2>3. \A i \in 1 .. Len(v.out \o ms) :
            \/ i \in 1 .. Len(v.out) /\ (v.out \o ms)[i] = v.out[i]
            \/ i - Len(v.out) \in 1 .. Len(ms) /\ (v.out \o ms)[i] = ms[i - Len(v.out)]
      BY <1>1
    <2>4. w \in Server /\ SameButQueue(v, w) /\ w.out = v.out \o ms /\ (w.reads => v.reads)
      <3> DEFINE o == v.out \o ms
      <3>1. v \in Server /\ o \in Seq(Msgs) /\ w = [v EXCEPT !.out = o]
        BY <1>1, <2>1, <2>2
      <3> HIDE DEF o
      <3>2. w \in Server /\ SameButQueue(v, w) /\ w.out = o /\ (w.reads => v.reads)
        BY <3>1, QueueSet
      <3> QED  BY <3>2 DEF o
    <2>5. Len(w.out) <= QueueCap
      BY <1>1, <1>2, <2>2, <2>4
    <2>6. w.reads => v.reads
      BY <2>4, Zenon
    <2>7. \A i \in 1 .. Len(w.out) :
            \/ i \in 1 .. Len(v.out) /\ w.out[i] = v.out[i]
            \/ i - Len(v.out) \in 1 .. Len(ms) /\ w.out[i] = ms[i - Len(v.out)]
      BY <2>3, <2>4
    <2>8. w \in Fits /\ SameButQueue(v, w) /\ w.out = v.out \o ms
      BY <2>4, <2>5 DEF Fits
    <2> QED  BY <2>6, <2>7, <2>8 DEF w
  <1>3. CASE ~(Len(ms) <= room)
    <2> DEFINE q == SubSeq(ms, 1, room)
    <2>1. w = [v EXCEPT !.out = v.out \o q, !.reads = FALSE]
      BY <1>3 DEF EnqueueAll
    <2> HIDE DEF w
    <2>2. q \in Seq(Msgs) /\ Len(q) = room /\ \A i \in 1 .. room : q[i] = ms[i]
      <3>1. \A i \in 1 .. room : ms[i] \in Msgs
        BY <1>1, <1>3
      <3>2. 1 \in Int /\ room \in Int /\ room - 1 + 1 = room /\ (1 <= room \/ room = 0)
        BY <1>1
      <3> HIDE DEF room
      <3>3. /\ q \in Seq(Msgs) /\ Len(q) = IF 1 <= room THEN room - 1 + 1 ELSE 0
            /\ \A i \in 1 .. room - 1 + 1 : q[i] = ms[1 + i - 1]
        BY <3>1, <3>2, SubSeqProperties
      <3>4. \A i \in 1 .. room : 1 + i - 1 = i
        BY <3>2
      <3> QED  BY <3>2, <3>3, <3>4
    <2> HIDE DEF q
    <2>3. v.out \o q \in Seq(Msgs) /\ Len(v.out \o q) = QueueCap
      BY <1>1, <2>2
    <2>4. \A i \in 1 .. Len(v.out \o q) :
            \/ i \in 1 .. Len(v.out) /\ (v.out \o q)[i] = v.out[i]
            \/ i - Len(v.out) \in 1 .. Len(ms) /\ (v.out \o q)[i] = ms[i - Len(v.out)]
      BY <1>1, <1>3, <2>2
    <2>5. w \in Server /\ SameButQueue(v, w) /\ w.out = v.out \o q /\ w.reads = FALSE
      <3> DEFINE o == v.out \o q
      <3>1. v \in Server /\ o \in Seq(Msgs) /\ w = [v EXCEPT !.out = o, !.reads = FALSE]
        BY <1>1, <2>1, <2>3
      <3> HIDE DEF o
      <3>2. w \in Server /\ SameButQueue(v, w) /\ w.out = o /\ w.reads = FALSE
        BY <3>1, QueueSetEnded
      <3> QED  BY <3>2 DEF o
    <2>6. Len(w.out) <= QueueCap
      BY <1>1, <2>3, <2>5
    <2> QED  BY <2>4, <2>5, <2>6 DEF Fits, w
  <1> QED  BY <1>2, <1>3

(* The same of one message.                                                *)
LEMMA EnqueueIs ==
  ASSUME NEW v \in Fits, NEW m \in Msgs
  PROVE  LET w == Enqueue(v, m) IN
         /\ w \in Fits /\ SameButQueue(v, w)
         /\ w.reads => v.reads
         /\ w.reads => w.out = Append(v.out, m)
         /\ w.out = v.out \/ w.out = Append(v.out, m)
  <1> DEFINE w == Enqueue(v, m)
  <1>1. v \in Server /\ v.out \in Seq(Msgs) /\ Len(v.out) \in Nat /\ Len(v.out) <= QueueCap
        /\ QueueCap \in Nat
    BY LspConstants DEF Fits, Server
  <1>2. Append(v.out, m) \in Seq(Msgs) /\ Len(Append(v.out, m)) = Len(v.out) + 1
    BY <1>1
  <1>3. CASE Len(v.out) < QueueCap
    <2>1. w = [v EXCEPT !.out = Append(v.out, m)]
      BY <1>3 DEF Enqueue
    <2> HIDE DEF w
    <2>2. w \in Server /\ SameButQueue(v, w) /\ w.out = Append(v.out, m) /\ (w.reads => v.reads)
      <3> DEFINE o == Append(v.out, m)
      <3>1. v \in Server /\ o \in Seq(Msgs) /\ w = [v EXCEPT !.out = o]
        BY <1>1, <1>2, <2>1
      <3> HIDE DEF o
      <3>2. w \in Server /\ SameButQueue(v, w) /\ w.out = o /\ (w.reads => v.reads)
        BY <3>1, QueueSet
      <3> QED  BY <3>2 DEF o
    <2>3. Len(w.out) <= QueueCap
      BY <1>1, <1>2, <1>3, <2>2
    <2>4. w.reads => v.reads
      BY <2>2, Zenon
    <2>5. w \in Fits /\ SameButQueue(v, w) /\ w.out = Append(v.out, m)
      BY <2>2, <2>3 DEF Fits
    <2> QED  BY <2>4, <2>5 DEF w
  <1>4. CASE ~(Len(v.out) < QueueCap)
    <2>1. w = [v EXCEPT !.reads = FALSE]
      BY <1>4 DEF Enqueue
    <2> HIDE DEF w
    <2>2. w \in Server /\ SameButQueue(v, w) /\ w.out = v.out /\ w.reads = FALSE
      BY <1>1, <2>1, Ended
    <2> QED  BY <1>1, <2>2 DEF Fits, w
  <1> QED  BY <1>3, <1>4
-----------------------------------------------------------------------------
(* What a server is asked                                                  *)

(* Nothing but the message itself, if it is a request.                     *)
LEMMA AsksEnqueued ==
  ASSUME NEW v \in Fits, NEW m \in Msgs
  PROVE  AskIds(Enqueue(v, m)) \subseteq AskIds(v) \cup (IF m.kind = "ask" THEN {m.id} ELSE {})
  <1> DEFINE w == Enqueue(v, m)
  <1>1. w.todo = v.todo /\ w.inbox = v.inbox /\ (w.out = v.out \/ w.out = Append(v.out, m))
    BY EnqueueIs DEF SameButQueue
  <1>2. v.out \in Seq(Msgs)
    BY DEF Fits, Server
  <1>3. ASSUME NEW i \in DOMAIN w.out
        PROVE  (i \in DOMAIN v.out /\ w.out[i] = v.out[i]) \/ w.out[i] = m
    BY <1>1, <1>2
  <1> HIDE DEF w
  <1>4. ASSUME NEW i \in DOMAIN w.out, w.out[i].kind = "ask"
        PROVE  w.out[i].id \in AskIds(v) \/ (m.kind = "ask" /\ w.out[i].id = m.id)
    BY <1>3, <1>4 DEF AskIds
  <1>5. v.todo \subseteq AskIds(v)
        /\ \A i \in DOMAIN v.inbox : v.inbox[i].kind = "answer" => v.inbox[i].id \in AskIds(v)
    BY DEF AskIds
  <1>6. AskIds(w) \subseteq AskIds(v) \cup (IF m.kind = "ask" THEN {m.id} ELSE {})
    BY <1>1, <1>4, <1>5 DEF AskIds
  <1> QED  BY <1>6 DEF w

LEMMA AsksEnqueuedAll ==
  ASSUME NEW v \in Fits, NEW ms \in Seq(Msgs), \A i \in 1 .. Len(ms) : ms[i].kind # "ask"
  PROVE  AskIds(EnqueueAll(v, ms)) \subseteq AskIds(v)
  <1> DEFINE w == EnqueueAll(v, ms)
  <1>1. w.todo = v.todo /\ w.inbox = v.inbox /\ w.out \in Seq(Msgs) /\ v.out \in Seq(Msgs)
    BY EnqueueAllIs DEF SameButQueue, Fits, Server
  <1>2. ASSUME NEW i \in DOMAIN w.out
        PROVE  (i \in DOMAIN v.out /\ w.out[i] = v.out[i]) \/ w.out[i].kind # "ask"
    <2>1. \A j \in 1 .. Len(w.out) :
            \/ j \in 1 .. Len(v.out) /\ w.out[j] = v.out[j]
            \/ j - Len(v.out) \in 1 .. Len(ms) /\ w.out[j] = ms[j - Len(v.out)]
      BY EnqueueAllIs
    <2> HIDE DEF w
    <2>2. i \in 1 .. Len(w.out) /\ DOMAIN v.out = 1 .. Len(v.out)
      BY <1>1
    <2> QED  BY <2>1, <2>2
  <1> HIDE DEF w
  <1>3. \A i \in DOMAIN w.out : w.out[i].kind = "ask" => w.out[i].id \in AskIds(v)
    BY <1>2 DEF AskIds
  <1>4. v.todo \subseteq AskIds(v)
        /\ \A i \in DOMAIN v.inbox : v.inbox[i].kind = "answer" => v.inbox[i].id \in AskIds(v)
    BY DEF AskIds
  <1>5. AskIds(w) \subseteq AskIds(v)
    BY <1>1, <1>3, <1>4 DEF AskIds
  <1> QED  BY <1>5 DEF w
-----------------------------------------------------------------------------
(* What a server has, or is about to read, of a buffer                     *)

(* It is as it was if what is sent is not about the buffer; and if one     *)
(* message of those sent is, it is what that one says.                     *)
LEMMA HeadsSent ==
  ASSUME NEW v \in Fits, NEW w \in Fits, NEW ms \in Seq(Msgs), w.out = v.out \o ms, w.docs = v.docs,
         NEW b, NEW x
  PROVE  /\ (\A i \in 1 .. Len(ms) : ~About(ms[i], b)) /\ Heads(v, b, x) => Heads(w, b, x)
         /\ \A i \in 1 .. Len(ms) :
              /\ About(ms[i], b) /\ \A j \in 1 .. Len(ms) : About(ms[j], b) => j = i
              => Heads(w, b, Says(ms[i]))
  <1>1. v.out \in Seq(Msgs) /\ w.out \in Seq(Msgs) /\ Len(v.out) \in Nat /\ Len(ms) \in Nat
    BY DEF Fits, Server
  <1>2. /\ DOMAIN w.out = 1 .. Len(v.out) + Len(ms) /\ DOMAIN v.out = 1 .. Len(v.out)
        /\ \A i \in 1 .. Len(v.out) : w.out[i] = v.out[i]
        /\ \A i \in 1 .. Len(ms) : w.out[Len(v.out) + i] = ms[i]
    BY <1>1
  <1>3. ASSUME \A i \in 1 .. Len(ms) : ~About(ms[i], b), Heads(v, b, x) PROVE Heads(w, b, x)
    <2>1. HeardOf(w, b) = HeardOf(v, b)
      <3>1. ASSUME NEW i \in DOMAIN w.out, About(w.out[i], b) PROVE i \in HeardOf(v, b)
        <4>1. CASE i <= Len(v.out)
          BY <1>1, <1>2, <3>1, <4>1 DEF HeardOf
        <4>2. CASE ~(i <= Len(v.out))
          <5>1. i - Len(v.out) \in 1 .. Len(ms) /\ i = Len(v.out) + (i - Len(v.out))
            BY <1>1, <1>2, <4>2
          <5> QED  BY <1>2, <1>3, <3>1, <5>1
        <4> QED  BY <4>1, <4>2
      <3>2. ASSUME NEW i \in HeardOf(v, b) PROVE i \in HeardOf(w, b)
        BY <1>1, <1>2 DEF HeardOf
      <3> QED  BY <3>1, <3>2 DEF HeardOf
    <2>2. \A i \in HeardOf(v, b) : w.out[i] = v.out[i]
      BY <1>2 DEF HeardOf
    <2> QED  BY <1>3, <2>1, <2>2 DEF Heads
  <1>4. ASSUME NEW i \in 1 .. Len(ms), About(ms[i], b),
               \A j \in 1 .. Len(ms) : About(ms[j], b) => j = i
        PROVE  Heads(w, b, Says(ms[i]))
    <2> DEFINE k == Len(v.out) + i
    <2>1. k \in HeardOf(w, b) /\ w.out[k] = ms[i]
      BY <1>1, <1>2, <1>4 DEF HeardOf
    <2>2. ASSUME NEW j \in HeardOf(w, b) PROVE j <= k
      <3>1. j \in 1 .. Len(v.out) + Len(ms) /\ About(w.out[j], b)
        BY <1>2 DEF HeardOf
      <3>2. CASE j <= Len(v.out)
        BY <1>1, <3>1, <3>2
      <3>3. CASE ~(j <= Len(v.out))
        <4>1. j - Len(v.out) \in 1 .. Len(ms) /\ j = Len(v.out) + (j - Len(v.out))
          BY <1>1, <3>1, <3>3
        <4>2. j - Len(v.out) = i
          BY <1>2, <1>4, <3>1, <4>1
        <4> QED  BY <1>1, <3>1, <4>1, <4>2
      <3> QED  BY <3>2, <3>3
    <2> HIDE DEF k
    <2> QED  BY <2>1, <2>2 DEF Heads
  <1> QED  BY <1>3, <1>4

(* The same of one message.                                                *)
LEMMA HeadsEnqueued ==
  ASSUME NEW v \in Fits, NEW m \in Msgs, NEW b, NEW x, Enqueue(v, m).reads
  PROVE  /\ ~About(m, b) /\ Heads(v, b, x) => Heads(Enqueue(v, m), b, x)
         /\ About(m, b) => Heads(Enqueue(v, m), b, Says(m))
  <1> DEFINE w == Enqueue(v, m)
             ms == <<m>>
  <1>1. v.out \in Seq(Msgs) /\ ms \in Seq(Msgs) /\ Len(ms) = 1 /\ ms[1] = m
    BY DEF Fits, Server
  <1>2. w \in Fits /\ w.docs = v.docs /\ w.out = Append(v.out, m)
    BY EnqueueIs DEF SameButQueue
  <1>3. Append(v.out, m) = v.out \o ms
    BY <1>1
  <1>4. \A i \in 1 .. Len(ms) : i = 1
    BY <1>1
  <1> HIDE DEF w, ms
  <1>5. 1 \in 1 .. Len(ms)
    BY <1>1
  <1>6. /\ (\A i \in 1 .. Len(ms) : ~About(ms[i], b)) /\ Heads(v, b, x) => Heads(w, b, x)
        /\ \A i \in 1 .. Len(ms) :
              /\ About(ms[i], b) /\ \A j \in 1 .. Len(ms) : About(ms[j], b) => j = i
              => Heads(w, b, Says(ms[i]))
    BY <1>1, <1>2, <1>3, HeadsSent
  <1> QED  BY <1>1, <1>4, <1>5, <1>6 DEF w

(* A message that is read moves what it says from the queue to the         *)
(* documents.                                                              *)
LEMMA HeadsRead ==
  ASSUME NEW v \in Fits, NEW w \in Fits, v.out # <<>>, w.out = Tail(v.out),
         w.docs = Served(v, Head(v.out)).docs, NEW b \in Buffers, NEW x, Heads(v, b, x)
  PROVE  Heads(w, b, x)
  <1> DEFINE m == Head(v.out)
  <1>1. v.out \in Seq(Msgs) /\ Len(v.out) \in Nat /\ Len(v.out) >= 1 /\ m = v.out[1] /\ m \in Msgs
        /\ v.docs \in [Buffers -> Texts \cup {Gone}]
    BY DEF Fits, Server
  <1>2. Tail(v.out) \in Seq(Msgs) /\ Len(Tail(v.out)) = Len(v.out) - 1
        /\ \A i \in 1 .. Len(v.out) - 1 : Tail(v.out)[i] = v.out[i + 1]
    BY <1>1
  <1>3. DOMAIN v.out = 1 .. Len(v.out) /\ DOMAIN w.out = 1 .. Len(v.out) - 1
        /\ \A i \in 1 .. Len(v.out) - 1 : w.out[i] = v.out[i + 1]
    BY <1>1, <1>2
  <1>4. \A i \in 1 .. Len(v.out) - 1 : i \in HeardOf(w, b) <=> i + 1 \in HeardOf(v, b)
    BY <1>1, <1>3 DEF HeardOf
  <1>5. w.docs[b] = IF About(m, b) THEN Says(m) ELSE v.docs[b]
    <2>1. m.kind \in {"initialize", "open", "change", "close", "ask"}
      BY <1>1 DEF Msgs
    <2>2. CASE m.kind \in {"open", "change"}
      <3>1. Served(v, m).docs = [v.docs EXCEPT ![m.buffer] = m.text]
        BY <1>1, <2>2 DEF Served, Fits, Server
      <3> QED  BY <1>1, <2>2, <3>1 DEF About, Says
    <2>3. CASE m.kind = "close"
      <3>1. Served(v, m).docs = [v.docs EXCEPT ![m.buffer] = Gone]
        BY <1>1, <2>3 DEF Served, Fits, Server
      <3> QED  BY <1>1, <2>3, <3>1 DEF About, Says
    <2>4. CASE m.kind \in {"initialize", "ask"}
      <3>1. Served(v, m).docs = v.docs
        BY <1>1, <2>4 DEF Served, Fits, Server
      <3> QED  BY <1>1, <2>4, <3>1 DEF About
    <2> QED  BY <2>1, <2>2, <2>3, <2>4
  <1>6. \A i \in HeardOf(w, b) : i \in 1 .. Len(v.out) - 1
    BY <1>3 DEF HeardOf
  <1>7. 1 \in HeardOf(v, b) <=> About(m, b)
    BY <1>1, <1>3 DEF HeardOf
  <1>8. CASE HeardOf(v, b) = {} /\ v.docs[b] = x
    BY <1>4, <1>5, <1>6, <1>7, <1>8 DEF Heads
  <1>9. CASE \E i \in HeardOf(v, b) : (\A j \in HeardOf(v, b) : j <= i) /\ Says(v.out[i]) = x
    <2>1. PICK i \in HeardOf(v, b) : (\A j \in HeardOf(v, b) : j <= i) /\ Says(v.out[i]) = x
      BY <1>9
    <2>2. i \in 1 .. Len(v.out)
      BY <1>3 DEF HeardOf
    <2>3. CASE i = 1
      <3>1. HeardOf(w, b) = {}
        <4>1. ASSUME NEW j \in HeardOf(w, b) PROVE FALSE
          <5>1. j \in 1 .. Len(v.out) - 1 /\ j + 1 \in HeardOf(v, b)
            BY <1>4, <1>6
          <5>2. j + 1 <= 1
            BY <2>1, <2>3, <5>1
          <5> QED  BY <1>1, <5>1, <5>2
        <4> QED  BY <4>1
      <3> QED  BY <1>1, <1>5, <1>7, <2>1, <2>3, <3>1 DEF Heads
    <2>4. CASE i # 1
      <3>1. i - 1 \in 1 .. Len(v.out) - 1 /\ i = (i - 1) + 1
        BY <1>1, <2>2, <2>4
      <3>2. i - 1 \in HeardOf(w, b) /\ w.out[i - 1] = v.out[i]
        BY <1>3, <1>4, <3>1
      <3>3. ASSUME NEW j \in HeardOf(w, b) PROVE j <= i - 1
        <4>1. j \in 1 .. Len(v.out) - 1 /\ j + 1 \in HeardOf(v, b)
          BY <1>4, <1>6
        <4> QED  BY <1>1, <2>1, <2>2, <4>1
      <3> QED  BY <2>1, <3>2, <3>3 DEF Heads
    <2> QED  BY <2>3, <2>4
  <1> QED  BY <1>8, <1>9 DEF Heads
-----------------------------------------------------------------------------
(* Documents that are opened, or closed, together                          *)

(* SetToSeq lists a finite set, each of its members once.                  *)
LEMMA OrderIs ==
  ASSUME NEW B \in SUBSET Buffers
  PROVE  LET q == SetToSeq(B) IN
         /\ Cardinality(B) \in Nat /\ q \in [1 .. Cardinality(B) -> B]
         /\ \A i, j \in 1 .. Cardinality(B) : q[i] = q[j] => i = j
         /\ \A b \in B : \E i \in 1 .. Cardinality(B) : q[i] = b
  <1> DEFINE n == Cardinality(B)
             q == SetToSeq(B)
  <1>1. IsFiniteSet(B)
    BY LspConstants, FS_Subset
  <1>2. n \in Nat /\ ExistsBijection(1 .. n, B)
    BY <1>1, FS_CardinalityType
  <1>3. PICK f : f \in [1 .. n -> B] /\ IsInjective(f)
    BY <1>2 DEF ExistsBijection, Bijection, Injection
  <1>4. q \in [1 .. n -> B] /\ IsInjective(q)
    BY <1>3 DEF SetToSeq
  <1> HIDE DEF q
  <1>5. IsFiniteSet(1 .. n) /\ Cardinality(1 .. n) = n
    BY <1>2, FS_Interval
  <1>6. q \in Injection(1 .. n, B)
    BY <1>4 DEF Injection
  <1>7. q \in Surjection(1 .. n, B)
    BY <1>1, <1>5, <1>6, FS_Injection
  <1> QED  BY <1>2, <1>4, <1>7 DEF q, IsInjective, Surjection

(* One message for each of the buffers.                                    *)
LEMMA EachOfIs ==
  ASSUME NEW B \in SUBSET Buffers, NEW k \in {"open", "close"}, NEW t, \A b \in B : t[b] \in Texts,
         NEW ms, ms = EachOf(B, k, t)
  PROVE  /\ ms \in Seq(Msgs)
         /\ \A i \in 1 .. Len(ms) :
              ms[i].kind = k /\ ms[i].buffer \in B /\ ms[i].text = t[ms[i].buffer]
         /\ \A b \in B : \E i \in 1 .. Len(ms) :
              ms[i].buffer = b /\ \A j \in 1 .. Len(ms) : ms[j].buffer = b => j = i
  <1> DEFINE n == Cardinality(B)
             q == SetToSeq(B)
  <1>1. /\ n \in Nat /\ q \in [1 .. n -> B]
        /\ \A i, j \in 1 .. n : q[i] = q[j] => i = j
        /\ \A b \in B : \E i \in 1 .. n : q[i] = b
    BY OrderIs
  <1>2. ms = [i \in 1 .. n |-> Msg(k, q[i], t[q[i]], 0)]
    BY DEF EachOf
  <1> HIDE DEF n, q
  <1>3. \A i \in 1 .. n : Msg(k, q[i], t[q[i]], 0) \in Msgs
    BY <1>1, LspConstants DEF Msg, Msgs, Ids
  <1>4. ms \in Seq(Msgs) /\ Len(ms) = n
    BY <1>1, <1>2, <1>3
  <1>5. \A i \in 1 .. n : ms[i].kind = k /\ ms[i].buffer = q[i] /\ ms[i].text = t[q[i]]
    BY <1>2 DEF Msg
  <1>6. \A i \in 1 .. Len(ms) :
           ms[i].kind = k /\ ms[i].buffer \in B /\ ms[i].text = t[ms[i].buffer]
    BY <1>1, <1>4, <1>5
  <1>7. ASSUME NEW b \in B
        PROVE  \E i \in 1 .. Len(ms) :
                 ms[i].buffer = b /\ \A j \in 1 .. Len(ms) : ms[j].buffer = b => j = i
    <2>1. PICK i \in 1 .. n : q[i] = b
      BY <1>1
    <2>2. \A j \in 1 .. n : ms[j].buffer = b => j = i
      BY <1>1, <1>5, <2>1
    <2> QED  BY <1>4, <1>5, <2>1, <2>2
  <1> QED  BY <1>4, <1>6, <1>7

(* What is sent to a server, whatever it is, leaves it the process it was, *)
(* asked no more than it was.                                              *)
SentTo(v, w) ==
  /\ w \in Fits /\ w.state = v.state /\ w.gen = v.gen /\ (w.reads => v.reads)
  /\ AskIds(w) \subseteq AskIds(v)

LEMMA HeadsSame ==
  ASSUME NEW v, NEW w, w.out = v.out, w.docs = v.docs, NEW b, NEW x
  PROVE  Heads(w, b, x) <=> Heads(v, b, x)
  BY DEF Heads, HeardOf

LEMMA AsksSame ==
  ASSUME NEW v, NEW w, w.out = v.out, w.todo = v.todo, w.inbox = v.inbox
  PROVE  AskIds(w) = AskIds(v)
  BY DEF AskIds

(* From v to w the messages ms have been sent.                             *)
HeadsMove(v, w, ms) ==
  \A b \in Buffers :
    /\ (\A i \in 1 .. Len(ms) : ~About(ms[i], b)) => \A x : Heads(v, b, x) => Heads(w, b, x)
    /\ \A i \in 1 .. Len(ms) :
         /\ About(ms[i], b) /\ \A j \in 1 .. Len(ms) : About(ms[j], b) => j = i
         => Heads(w, b, Says(ms[i]))

LEMMA SentAll ==
  ASSUME NEW v \in Fits, NEW k \in SUBSET Buffers, NEW ms \in Seq(Msgs),
         \A i \in 1 .. Len(ms) : ms[i].kind # "ask",
         NEW u, u = [v EXCEPT !.known = k], NEW w, w = EnqueueAll(u, ms)
  PROVE  SentTo(v, w) /\ (w.reads => HeadsMove(v, w, ms))
  <1>1. /\ u \in Server /\ u.out = v.out /\ u.docs = v.docs /\ u.todo = v.todo
        /\ u.inbox = v.inbox /\ u.state = v.state /\ u.gen = v.gen
    BY DEF Fits, Server
  <1>2. u.reads => v.reads
    BY DEF Fits, Server
  <1>3. u \in Fits
    BY <1>1 DEF Fits
  <1>4. w \in Fits /\ SameButQueue(u, w) /\ (w.reads => w.out = u.out \o ms)
    BY <1>3, EnqueueAllIs
  <1>5. w.reads => u.reads
    BY <1>3, EnqueueAllIs
  <1>6. AskIds(w) \subseteq AskIds(v)
    BY <1>1, <1>3, AsksEnqueuedAll, AsksSame
  <1>7. SentTo(v, w)
    BY <1>1, <1>2, <1>4, <1>5, <1>6 DEF SentTo, SameButQueue
  <1>8. ASSUME w.reads PROVE HeadsMove(v, w, ms)
    <2>1. w \in Fits /\ w.docs = u.docs /\ w.out = u.out \o ms
      BY <1>4, <1>8 DEF SameButQueue
    <2>2. ASSUME NEW b \in Buffers, NEW x
          PROVE  /\ (\A i \in 1 .. Len(ms) : ~About(ms[i], b)) /\ Heads(u, b, x) => Heads(w, b, x)
                 /\ \A i \in 1 .. Len(ms) :
                      /\ About(ms[i], b) /\ \A j \in 1 .. Len(ms) : About(ms[j], b) => j = i
                      => Heads(w, b, Says(ms[i]))
      BY <1>3, <2>1, HeadsSent
    <2>3. \A b \in Buffers : \A x : Heads(v, b, x) => Heads(u, b, x)
      BY <1>1, HeadsSame
    <2> QED  BY <2>2, <2>3 DEF HeadsMove
  <1> QED  BY <1>7, <1>8

LEMMA DidOpenIs ==
  ASSUME NEW v \in Fits, NEW B \in SUBSET Buffers, NEW t, \A b \in B : t[b] \in Texts
  PROVE  LET w == DidOpen(v, B, t) IN
         /\ SentTo(v, w)
         /\ w.reads => \A b \in Buffers : \A x :
              IF b \in B THEN Heads(w, b, t[b]) ELSE Heads(v, b, x) => Heads(w, b, x)
  <1> DEFINE ms == EachOf(B, "open", t)
             k  == v.known \cup B
             u  == [v EXCEPT !.known = k]
             w  == EnqueueAll(u, ms)
  <1>1. /\ ms \in Seq(Msgs)
        /\ \A i \in 1 .. Len(ms) :
              ms[i].kind = "open" /\ ms[i].buffer \in B /\ ms[i].text = t[ms[i].buffer]
        /\ \A b \in B : \E i \in 1 .. Len(ms) :
              ms[i].buffer = b /\ \A j \in 1 .. Len(ms) : ms[j].buffer = b => j = i
    BY EachOfIs
  <1>2. k \in SUBSET Buffers
    BY DEF Fits, Server
  <1>8. u = [v EXCEPT !.known = k] /\ w = EnqueueAll(u, ms)
    OBVIOUS
  <1>3. DidOpen(v, B, t) = w
    BY DEF DidOpen
  <1> HIDE DEF ms, k, u, w
  <1>4. \A i \in 1 .. Len(ms) : ms[i].kind # "ask"
    BY <1>1
  <1>5. SentTo(v, w) /\ (w.reads => HeadsMove(v, w, ms))
    BY <1>1, <1>2, <1>4, <1>8, SentAll
  <1>6. ASSUME w.reads, NEW b \in Buffers, NEW x
        PROVE  IF b \in B THEN Heads(w, b, t[b]) ELSE Heads(v, b, x) => Heads(w, b, x)
    <2>2. /\ (\A i \in 1 .. Len(ms) : ~About(ms[i], b)) /\ Heads(v, b, x) => Heads(w, b, x)
          /\ \A i \in 1 .. Len(ms) :
               /\ About(ms[i], b) /\ \A j \in 1 .. Len(ms) : About(ms[j], b) => j = i
               => Heads(w, b, Says(ms[i]))
      BY <1>5, <1>6 DEF HeadsMove
    <2>3. CASE b \in B
      <3>1. PICK i \in 1 .. Len(ms) :
              ms[i].buffer = b /\ \A j \in 1 .. Len(ms) : ms[j].buffer = b => j = i
        BY <1>1, <2>3
      <3>2. About(ms[i], b) /\ Says(ms[i]) = t[b] /\ \A j \in 1 .. Len(ms) : About(ms[j], b) => j = i
        BY <1>1, <3>1 DEF About, Says
      <3> QED  BY <2>2, <2>3, <3>1, <3>2
    <2>4. CASE b \notin B
      <3>1. \A i \in 1 .. Len(ms) : ~About(ms[i], b)
        BY <1>1, <2>4 DEF About
      <3> QED  BY <2>2, <2>4, <3>1
    <2> QED  BY <2>3, <2>4
  <1>7. w.reads => \A b \in Buffers : \A x :
              IF b \in B THEN Heads(w, b, t[b]) ELSE Heads(v, b, x) => Heads(w, b, x)
    BY <1>6
  <1> QED  BY <1>3, <1>5, <1>7

LEMMA DidCloseIs ==
  ASSUME NEW v \in Fits, NEW B \in SUBSET Buffers
  PROVE  LET w == DidClose(v, B) IN
         /\ SentTo(v, w)
         /\ w.reads => \A b \in Buffers \ B : \A x : Heads(v, b, x) => Heads(w, b, x)
  <1> DEFINE t  == [b \in B |-> 0]
             ms == EachOf(B, "close", t)
             k  == v.known \ B
             u  == [v EXCEPT !.known = k]
             w  == EnqueueAll(u, ms)
  <1>1. \A b \in B : t[b] \in Texts
    BY LspConstants DEF Texts
  <1>2. DidClose(v, B) = w
    BY DEF DidClose
  <1> HIDE DEF t
  <1>8. ms = EachOf(B, "close", t) /\ "close" \in {"open", "close"}
    OBVIOUS
  <1>9. u = [v EXCEPT !.known = k] /\ w = EnqueueAll(u, ms)
    OBVIOUS
  <1> HIDE DEF ms, u, w, k
  <1>3. /\ ms \in Seq(Msgs)
        /\ \A i \in 1 .. Len(ms) : ms[i].kind = "close" /\ ms[i].buffer \in B
    BY <1>1, <1>8, EachOfIs
  <1>4. k \in SUBSET Buffers
    BY DEF Fits, Server, k
  <1>5. \A i \in 1 .. Len(ms) : ms[i].kind # "ask"
    BY <1>3
  <1>6. SentTo(v, w) /\ (w.reads => HeadsMove(v, w, ms))
    BY <1>3, <1>4, <1>5, <1>9, SentAll
  <1>7. ASSUME w.reads, NEW b \in Buffers \ B, NEW x, Heads(v, b, x)
        PROVE  Heads(w, b, x)
    <2>2. \A i \in 1 .. Len(ms) : ~About(ms[i], b)
      BY <1>3, <1>7 DEF About
    <2> QED  BY <1>6, <1>7, <2>2 DEF HeadsMove
  <1> QED  BY <1>2, <1>6, <1>7

(* A new process is asked nothing but to come up.                          *)
LEMMA SpawnIs ==
  ASSUME NEW v \in Fits, v.gen < MaxSpawn
  PROVE  LET w == Spawn(v) IN
         w \in Fits /\ w.state = "starting" /\ w.gen = v.gen + 1 /\ AskIds(w) = {}
  <1> DEFINE g == v.gen + 1
             u == [NoServer(g) EXCEPT !.state = "starting", !.reads = TRUE, !.next = 2]
             m == Msg("initialize", NoBuffer, 0, 1)
             w == Enqueue(u, m)
  <1>1. g \in 0 .. MaxSpawn
    BY LspConstants DEF Fits, Server
  <1>2. NoServer(g) \in Server /\ NoServer(g).out = <<>> /\ NoServer(g).todo = {}
        /\ NoServer(g).inbox = <<>> /\ NoServer(g).gen = g
    BY <1>1, NoServerIs DEF Fits, NoServer
  <1>3. 2 \in Ids /\ 1 \in Ids /\ 0 \in Texts
    BY LspConstants DEF Ids, Texts
  <1>4. m \in Msgs /\ m.kind # "ask"
    BY <1>3 DEF Msg, Msgs
  <1>5. w = Spawn(v)
    BY DEF Spawn
  <1> HIDE DEF g, m
  <1>6. u \in Server /\ u.out = <<>> /\ u.todo = {} /\ u.inbox = <<>> /\ u.gen = g
        /\ u.state = "starting"
    BY <1>2, <1>3 DEF Server
  <1> HIDE DEF u
  <1>7. u \in Fits /\ AskIds(u) = {}
    BY <1>6, LspConstants DEF Fits, AskIds
  <1>8. AskIds(w) = {}
    BY <1>4, <1>7, AsksEnqueued
  <1>9. w \in Fits /\ SameButQueue(u, w)
    BY <1>4, <1>7, EnqueueIs
  <1> HIDE DEF w
  <1> QED  BY <1>5, <1>6, <1>8, <1>9 DEF SameButQueue, g

(* A request is the one thing more that it is asked.                       *)
LEMMA RequestedIs ==
  ASSUME NEW v \in Fits, v.next <= MaxRequest, NEW b \in Buffers
  PROVE  LET w == Requested(v, b) IN
         /\ w \in Fits /\ w.state = v.state /\ w.gen = v.gen /\ (w.reads => v.reads)
         /\ AskIds(w) \subseteq AskIds(v) \cup {v.next}
         /\ w.reads => \A c \in Buffers : \A x : Heads(v, c, x) => Heads(w, c, x)
  <1> DEFINE u == [v EXCEPT !.next = v.next + 1]
             m == Msg("ask", b, 0, v.next)
             w == Enqueue(u, m)
  <1>1. v.next \in Ids /\ v.next + 1 \in Ids /\ 0 \in Texts
    BY LspConstants DEF Fits, Server, Ids, Texts
  <1>2. m \in Msgs /\ m.kind = "ask" /\ m.id = v.next
    BY <1>1 DEF Msg, Msgs
  <1>3. w = Requested(v, b)
    BY DEF Requested
  <1>4. u \in Server /\ u.out = v.out /\ u.todo = v.todo /\ u.inbox = v.inbox /\ u.gen = v.gen
        /\ u.state = v.state /\ u.docs = v.docs
    BY <1>1 DEF Fits, Server
  <1>5. u.reads => v.reads
    BY DEF Fits, Server
  <1> HIDE DEF u, m
  <1>6. u \in Fits /\ AskIds(u) = AskIds(v)
    BY <1>4, AsksSame DEF Fits
  <1>7. AskIds(w) \subseteq AskIds(v) \cup {v.next}
    BY <1>2, <1>6, AsksEnqueued
  <1>8. w \in Fits /\ SameButQueue(u, w)
    BY <1>2, <1>6, EnqueueIs
  <1>9. w.reads => u.reads
    BY <1>2, <1>6, EnqueueIs
  <1>10. ASSUME w.reads, NEW c \in Buffers, NEW x, Heads(v, c, x) PROVE Heads(w, c, x)
    <2>1. Heads(u, c, x)
      BY <1>4, <1>10, HeadsSame
    <2>2. ~About(m, c)
      BY <1>2 DEF About
    <2> QED  BY <1>2, <1>6, <1>10, <2>1, <2>2, HeadsEnqueued
  <1> HIDE DEF w
  <1>11. w.state = v.state /\ w.gen = v.gen
    BY <1>4, <1>8 DEF SameButQueue
  <1> QED  BY <1>3, <1>5, <1>7, <1>8, <1>9, <1>10, <1>11

(* After a change the server has, or is about to read, the new text.       *)
LEMMA ChangeIs ==
  ASSUME NEW v \in Fits, NEW c \in Buffers, NEW t \in Texts
  PROVE  LET w == Enqueue(v, Msg("change", c, t, 0)) IN
         /\ SentTo(v, w)
         /\ w.reads => /\ Heads(w, c, t)
                       /\ \A b \in Buffers \ {c} : \A x : Heads(v, b, x) => Heads(w, b, x)
  <1> DEFINE m == Msg("change", c, t, 0)
             w == Enqueue(v, m)
  <1>1. m \in Msgs /\ m.kind = "change" /\ m.buffer = c /\ m.text = t
    BY LspConstants DEF Msg, Msgs, Ids
  <1> HIDE DEF m
  <1>2. AskIds(w) \subseteq AskIds(v)
    BY <1>1, AsksEnqueued
  <1>3. w \in Fits /\ SameButQueue(v, w)
    BY <1>1, EnqueueIs
  <1>4. w.reads => v.reads
    BY <1>1, EnqueueIs
  <1>5. ASSUME w.reads PROVE Heads(w, c, t)
    <2>1. About(m, c) /\ Says(m) = t
      BY <1>1 DEF About, Says
    <2>2. Heads(w, c, Says(m))
      BY <1>1, <1>5, <2>1, HeadsEnqueued
    <2> QED  BY <2>1, <2>2
  <1>6. ASSUME w.reads, NEW b \in Buffers \ {c}, NEW x, Heads(v, b, x) PROVE Heads(w, b, x)
    <2>1. ~About(m, b)
      BY <1>1 DEF About
    <2> QED  BY <1>1, <1>6, <2>1, HeadsEnqueued
  <1> HIDE DEF w
  <1>7. SentTo(v, w)
    BY <1>2, <1>3, <1>4 DEF SentTo, SameButQueue
  <1> QED  BY <1>5, <1>6, <1>7 DEF w, m
-----------------------------------------------------------------------------
(* What a step may make of a server: it is asked no more than it was, or   *)
(* it is another process that is asked nothing.                            *)
Moves(v, w) ==
  /\ w \in Fits /\ (w.state = "none" => ~w.reads)
  /\ (w.gen = v.gen /\ AskIds(w) \subseteq AskIds(v)) \/ AskIds(w) = {}

(* What is true of each server between two steps.                          *)
Rest(v) == v \in Fits /\ (v.state = "none" => ~v.reads)

LEMMA SentMoves ==
  ASSUME NEW v, Rest(v), NEW w, SentTo(v, w)
  PROVE  Moves(v, w) /\ Rest(w)
  BY DEF Rest, SentTo, Moves

LEMMA StaysMoves ==
  ASSUME NEW v, Rest(v)
  PROVE  Moves(v, v)
  BY DEF Rest, Moves

LEMMA MovesTwice ==
  ASSUME NEW u, NEW v, NEW w, Moves(u, v), Moves(v, w)
  PROVE  Moves(u, w)
  BY DEF Moves

LEMMA MovesRest ==
  ASSUME NEW v, NEW w, Moves(v, w)
  PROVE  Rest(w)
  BY DEF Rest, Moves

LEMMA NoServerMoves ==
  ASSUME NEW v, NEW g \in 0 .. MaxSpawn
  PROVE  Moves(v, NoServer(g))
  <1>1. NoServer(g).reads = FALSE
    BY DEF NoServer
  <1> QED  BY <1>1, NoServerIs DEF Moves

LEMMA SpawnMoves ==
  ASSUME NEW v \in Fits, v.gen < MaxSpawn
  PROVE  Moves(v, Spawn(v)) /\ Spawn(v).state = "starting"
  BY SpawnIs DEF Moves

LEMMA Resting == ServersInv => /\ sv \in [Servers -> Fits] /\ \A s \in Servers : Rest(sv[s])
  BY DEF ServersInv, LspTypeOK, Idle, Fits, Rest

(* If every server moves so and nothing new is waited for, what is waited  *)
(* for is still one's own.                                                 *)
LEMMA AllMove ==
  ASSUME ServersInv, pending' \subseteq pending, DOMAIN sv' = Servers,
         sv' = [s \in Servers |-> sv'[s]], \A s \in Servers : Moves(sv[s], sv'[s])
  PROVE  /\ sv' \in [Servers -> Server] /\ \A s \in Servers : Len(sv'[s].out) <= QueueCap
         /\ Idle' /\ OwnAsked'
  <1>1. ASSUME NEW s \in Servers PROVE sv'[s] \in Server /\ Len(sv'[s].out) <= QueueCap
    BY DEF Moves, Fits
  <1>2. Idle'
    BY DEF Idle, Moves
  <1>3. ASSUME NEW p \in pending', p.id \in AskIds(sv'[p.server])
        PROVE  p.gen = sv'[p.server].gen
    <2>1. p \in pending /\ p.server \in Servers /\ Moves(sv[p.server], sv'[p.server])
      BY DEF ServersInv, LspTypeOK
    <2> QED  BY <1>3, <2>1 DEF ServersInv, OwnAsked, Moves
  <1>4. OwnAsked'
    BY <1>3 DEF OwnAsked
  <1> QED  BY <1>1, <1>2, <1>4

(* The servers w have, or are about to read, the text t of each of the     *)
(* buffers B that is taken for open.                                       *)
Seen(w, B, t) ==
  \A b \in B : w[ServerOf[b]].reads => Heads(w[ServerOf[b]], b, t[b])

(* Ready, of the servers w.                                                *)
AllReady(w) == \A b \in in_lsp : w[ServerOf[b]].state = "ready"

(* editor_synced                                                           *)
LEMMA SyncedIs ==
  ASSUME NEW w, w \in [Servers -> Fits], \A s \in Servers : Rest(w[s]),
         in_lsp \subseteq Buffers, focus \in Buffers, AllReady(w),
         NEW t \in [Buffers -> Texts], NEW P, Seen(w, in_lsp \cap P, t), Synced(w, t, P)
  PROVE  /\ sv' \in [Servers -> Fits]
         /\ \A s \in Servers : Moves(w[s], sv'[s]) /\ sv'[s].state = w[s].state
         /\ Seen(sv', in_lsp \cap pushed', t)
  <1> DEFINE s == ServerOf[focus]
             u == Enqueue(w[s], Msg("change", focus, t[focus], 0))
  <1>1. s \in Servers /\ w[s] \in Fits /\ t[focus] \in Texts
    BY LspConstants
  <1>2. \A b \in in_lsp : ServerOf[b] \in Servers
    BY LspConstants
  <1>3. pushed' = P \cup ({focus} \cap in_lsp)
    BY DEF Synced
  <1>4. CASE focus \in in_lsp \ P /\ w[s].state # "none"
    <2>1. SentTo(w[s], u) /\ (u.reads => /\ Heads(u, focus, t[focus])
                       /\ \A b \in Buffers \ {focus} : \A x : Heads(w[s], b, x) => Heads(u, b, x))
      BY <1>1, ChangeIs
    <2>2. sv' = [w EXCEPT ![s] = u]
      BY <1>4 DEF Synced
    <2> HIDE DEF u
    <2>3. sv'[s] = u /\ \A r \in Servers \ {s} : sv'[r] = w[r]
      BY <1>1, <2>2
    <2>4. u \in Fits /\ u.state = w[s].state
      BY <2>1 DEF SentTo
    <2>5. sv' \in [Servers -> Fits]
      BY <2>2, <2>4
    <2>6. \A r \in Servers : Moves(w[r], sv'[r]) /\ sv'[r].state = w[r].state
      BY <2>1, <2>3, <2>4, SentMoves, StaysMoves
    <2>7. ASSUME NEW b \in in_lsp \cap pushed', sv'[ServerOf[b]].reads
          PROVE  Heads(sv'[ServerOf[b]], b, t[b])
      <3>1. CASE b = focus
        BY <2>1, <2>3, <2>7, <3>1
      <3>2. CASE b # focus
        <4>1. b \in in_lsp \cap P /\ b \in Buffers \ {focus}
          BY <1>3, <2>7, <3>2
        <4>2. CASE ServerOf[b] = s
          <5>1. u.reads /\ w[s].reads
            BY <2>1, <2>3, <2>7, <4>2 DEF SentTo
          <5>2. Heads(w[s], b, t[b])
            BY <4>1, <4>2, <5>1 DEF Seen
          <5> QED  BY <2>1, <2>3, <4>1, <4>2, <5>1, <5>2
        <4>3. CASE ServerOf[b] # s
          BY <1>2, <2>3, <2>7, <4>1, <4>3 DEF Seen
        <4> QED  BY <4>2, <4>3
      <3> QED  BY <3>1, <3>2
    <2> QED  BY <2>5, <2>6, <2>7 DEF Seen
  <1>5. CASE ~(focus \in in_lsp \ P /\ w[s].state # "none")
    <2>1. sv' = w
      BY <1>5 DEF Synced
    <2>2. in_lsp \cap pushed' = in_lsp \cap P
      BY <1>3, <1>5 DEF AllReady
    <2> QED  BY <2>1, <2>2, StaysMoves
  <1> QED  BY <1>4, <1>5

(* editor_write                                                            *)
LEMMA WriteIs ==
  ASSUME NEW w, w \in [Servers -> Fits], \A s \in Servers : Rest(w[s]),
         in_lsp \subseteq Buffers, focus \in Buffers, AllReady(w),
         disk \in [Buffers -> Texts], failed \subseteq Servers,
         NEW t \in [Buffers -> Texts], NEW P, Seen(w, in_lsp \cap P, t), Write(w, t, P)
  PROVE  /\ sv' \in [Servers -> Fits] /\ \A s \in Servers : Moves(w[s], sv'[s])
         /\ \A b \in in_lsp : sv'[ServerOf[b]].state = "ready"
         /\ Seen(sv', in_lsp \cap pushed', t)
         /\ disk' \in [Buffers -> Texts] /\ failed' \subseteq Servers
         /\ pushed' = P \cup ({focus} \cap in_lsp)
  <1> DEFINE s == ServerOf[focus]
             v == IF w[s].state = "none" /\ s \in installed \ failed THEN Spawn(w[s]) ELSE w[s]
             u == [w EXCEPT ![s] = v]
  <1>1. s \in Servers /\ w[s] \in Fits /\ t[focus] \in Texts /\ \A b \in in_lsp : ServerOf[b] \in Servers
    BY LspConstants
  <1>2. v.gen <= MaxSpawn /\ Synced(u, t, P) /\ disk' = [disk EXCEPT ![focus] = t[focus]]
        /\ failed' = IF v.state = "none" /\ s \notin installed THEN failed \cup {s} ELSE failed
    BY DEF Write
  <1>3. Moves(w[s], v) /\ (w[s].state = "ready" => v = w[s])
    <2>1. CASE w[s].state = "none" /\ s \in installed \ failed
      <3>1. v = Spawn(w[s])
        BY <2>1
      <3>2. Spawn(w[s]).gen = w[s].gen + 1 /\ w[s].gen \in Nat
        <4>1. w[s].gen \in Nat
          BY <1>1 DEF Fits, Server
        <4>2. Spawn(w[s]).gen = w[s].gen + 1
          BY DEF Spawn, Enqueue, NoServer
        <4> QED  BY <4>1, <4>2
      <3>3. w[s].gen < MaxSpawn
        BY <1>2, <3>1, <3>2, LspConstants
      <3> QED  BY <1>1, <2>1, <3>1, <3>3, SpawnMoves
    <2>2. CASE ~(w[s].state = "none" /\ s \in installed \ failed)
      BY <1>1, <2>2, StaysMoves
    <2> QED  BY <2>1, <2>2
  <1> HIDE DEF v
  <1>4. v \in Fits
    BY <1>3 DEF Moves
  <1>5. u \in [Servers -> Fits] /\ u[s] = v /\ \A r \in Servers \ {s} : u[r] = w[r]
    BY <1>1, <1>4
  <1> HIDE DEF u
  <1>6. \A r \in Servers : Moves(w[r], u[r]) /\ Rest(u[r])
    BY <1>3, <1>5, StaysMoves, MovesRest
  <1>7. \A b \in in_lsp : u[ServerOf[b]] = w[ServerOf[b]]
    BY <1>1, <1>3, <1>5 DEF AllReady
  <1>8. AllReady(u) /\ Seen(u, in_lsp \cap P, t)
    BY <1>7 DEF AllReady, Seen
  <1>9. /\ sv' \in [Servers -> Fits]
        /\ \A r \in Servers : Moves(u[r], sv'[r]) /\ sv'[r].state = u[r].state
        /\ Seen(sv', in_lsp \cap pushed', t)
    BY <1>2, <1>5, <1>6, <1>8, SyncedIs
  <1>10. \A r \in Servers : Moves(w[r], sv'[r])
    BY <1>6, <1>9, MovesTwice
  <1>11. \A b \in in_lsp : sv'[ServerOf[b]].state = "ready"
    BY <1>1, <1>8, <1>9 DEF AllReady
  <1>12. disk' \in [Buffers -> Texts] /\ failed' \subseteq Servers
    BY <1>1, <1>2
  <1>13. pushed' = P \cup ({focus} \cap in_lsp)
    BY <1>2 DEF Synced
  <1> QED  BY <1>9, <1>10, <1>11, <1>12, <1>13
-----------------------------------------------------------------------------
(* Steps                                                                   *)

(* LspTypeOK, of the editor and of what waits.                             *)
EditorTyped ==
  /\ open \subseteq Buffers /\ text \in [Buffers -> Texts] /\ disk \in [Buffers -> Texts]
  /\ pushed \subseteq Buffers /\ in_lsp \subseteq open /\ saving \subseteq open
  /\ focus \in Buffers
Asking == [server : Servers, id : Ids, buffer : Buffers, gen : 0 .. MaxSpawn, save : BOOLEAN]

(* The invariant by the parts a step disturbs, before it and after it.     *)
LEMMA Parts ==
  ServersInv <=>
    /\ EditorTyped /\ pending \subseteq Asking /\ failed \subseteq Servers /\ installed \subseteq Servers
    /\ sv \in [Servers -> Server] /\ \A s \in Servers : Len(sv[s].out) <= QueueCap
    /\ Idle /\ OwnAsked /\ AllReady(sv) /\ Seen(sv, in_lsp \cap pushed, text)
  BY DEF ServersInv, LspTypeOK, EditorTyped, Asking, Ready, AllReady, ServerSees, Seen

LEMMA PartsNext ==
  ASSUME EditorTyped', pending' \subseteq Asking, failed' \subseteq Servers, installed' \subseteq Servers,
         sv' \in [Servers -> Server], \A s \in Servers : Len(sv'[s].out) <= QueueCap,
         Idle', OwnAsked', \A b \in in_lsp' : sv'[ServerOf[b]].state = "ready",
         Seen(sv', in_lsp' \cap pushed', text')
  PROVE  ServersInv'
  BY DEF ServersInv, LspTypeOK, EditorTyped, Asking, Ready, ServerSees, Seen

LEMMA OpenBuffersIs ==
  ASSUME ServersInv, NEW B \in SUBSET Buffers, B \cap in_lsp = {}, NEW f \in SUBSET Servers,
         OpenBuffers(B, f)
  PROVE  /\ DOMAIN sv' = Servers /\ sv' = [s \in Servers |-> sv'[s]]
         /\ \A s \in Servers : Moves(sv[s], sv'[s])
         /\ failed' \subseteq Servers
         /\ in_lsp \subseteq in_lsp' /\ in_lsp' \subseteq in_lsp \cup B
         /\ pushed' \subseteq pushed \cup B
         /\ \A b \in in_lsp' : sv'[ServerOf[b]].state = "ready"
         /\ Seen(sv', in_lsp' \cap pushed', text)
  <1> DEFINE S     == {ServerOf[b] : b \in B}
             ready == {b \in B : sv[ServerOf[b]].state = "ready"}
             r(s)  == Reached(s, f)
             w(s)  == DidOpen(r(s), Mine(ready, s), text)
  <1>1. /\ \A s \in S : r(s).gen <= MaxSpawn
        /\ sv' = [s \in Servers |-> IF s \in S THEN w(s) ELSE sv[s]]
        /\ failed' = f \cup {s \in S : Fails(s, f)}
        /\ in_lsp' = in_lsp \cup ready /\ pushed' = pushed \cup ready
    BY DEF OpenBuffers
  <1>2. /\ EditorTyped /\ \A s \in Servers : Rest(sv[s]) /\ sv[s] \in Fits
        /\ AllReady(sv) /\ Seen(sv, in_lsp \cap pushed, text)
    BY Parts, Resting
  <1>3. S \subseteq Servers /\ \A b \in Buffers : ServerOf[b] \in Servers
    BY LspConstants
  <1>4. ASSUME NEW s \in S
        PROVE  /\ Moves(sv[s], r(s)) /\ (sv[s].state = "ready" => r(s) = sv[s])
    <2>1. CASE r(s) = sv[s]
      BY <1>2, <1>3, <2>1, StaysMoves
    <2>2. CASE r(s) # sv[s]
      <3>1. sv[s].state = "none" /\ r(s) = Spawn(sv[s])
        BY <2>2 DEF Reached
      <3>2. Spawn(sv[s]).gen = sv[s].gen + 1
        BY DEF Spawn, Enqueue, NoServer
      <3>3. sv[s].gen \in Nat /\ sv[s] \in Fits
        BY <1>2, <1>3 DEF Fits, Server
      <3>4. r(s).gen <= MaxSpawn
        BY <1>1
      <3>5. sv[s].gen < MaxSpawn
        BY <3>1, <3>2, <3>3, <3>4, LspConstants
      <3> QED  BY <3>1, <3>3, <3>5, SpawnMoves
    <2> QED  BY <2>1, <2>2
  <1> HIDE DEF r
  <1>5. ASSUME NEW s \in S
        PROVE  /\ SentTo(r(s), w(s))
               /\ w(s).reads => \A b \in Buffers : \A x :
                    IF b \in Mine(ready, s) THEN Heads(w(s), b, text[b])
                    ELSE Heads(r(s), b, x) => Heads(w(s), b, x)
    <2>1. r(s) \in Fits
      BY <1>4 DEF Moves
    <2>2. Mine(ready, s) \in SUBSET Buffers /\ \A b \in Mine(ready, s) : text[b] \in Texts
      BY <1>2 DEF Mine, EditorTyped
    <2> QED  BY <2>1, <2>2, DidOpenIs
  <1> HIDE DEF w
  <1>6. ASSUME NEW s \in S PROVE Moves(sv[s], w(s)) /\ w(s).state = r(s).state
    <2>1. Moves(r(s), w(s))
      BY <1>4, <1>5, MovesRest, SentMoves
    <2> QED  BY <1>4, <1>5, <2>1, MovesTwice DEF SentTo
  <1>7. \A s \in Servers : Moves(sv[s], sv'[s])
    BY <1>1, <1>2, <1>6, StaysMoves
  <1>8. ASSUME NEW b \in in_lsp'
        PROVE  /\ sv'[ServerOf[b]].state = "ready"
               /\ b \in pushed' /\ sv'[ServerOf[b]].reads => Heads(sv'[ServerOf[b]], b, text[b])
    <2> DEFINE s == ServerOf[b]
    <2>1. b \in Buffers /\ s \in Servers /\ sv[s].state = "ready" /\ b \in in_lsp \cup ready
      BY <1>1, <1>2, <1>3 DEF EditorTyped, AllReady
    <2>2. b \notin ready => b \in in_lsp /\ (b \in pushed' => b \in pushed)
      BY <1>1, <2>1
    <2>3. b \in in_lsp /\ b \in pushed /\ sv[s].reads => Heads(sv[s], b, text[b])
      BY <1>2 DEF Seen
    <2>4. CASE s \in S
      <3>1. r(s) = sv[s] /\ sv'[s] = w(s)
        BY <1>1, <1>3, <1>4, <2>1, <2>4
      <3>2. sv'[s].state = "ready"
        BY <1>6, <2>1, <2>4, <3>1
      <3>3. ASSUME b \in pushed', w(s).reads PROVE Heads(w(s), b, text[b])
        <4>1. CASE b \in ready
          <5>1. b \in Mine(ready, s)
            BY <4>1 DEF Mine
          <5> QED  BY <1>5, <2>1, <2>4, <3>3, <5>1
        <4>2. CASE b \notin ready
          <5>1. b \notin Mine(ready, s)
            BY <4>2 DEF Mine
          <5>2. sv[s].reads
            BY <1>5, <2>4, <3>1, <3>3 DEF SentTo
          <5>3. Heads(r(s), b, text[b])
            BY <2>2, <2>3, <3>1, <3>3, <4>2, <5>2
          <5> QED  BY <1>5, <2>1, <2>4, <3>3, <5>1, <5>3
        <4> QED  BY <4>1, <4>2
      <3> QED  BY <3>1, <3>2, <3>3
    <2>5. CASE s \notin S
      <3>1. b \notin ready
        BY <2>5
      <3>2. sv'[s] = sv[s]
        BY <1>1, <2>1, <2>5
      <3> QED  BY <2>1, <2>2, <2>3, <3>1, <3>2
    <2> QED  BY <2>4, <2>5
  <1>9. failed' \subseteq Servers /\ in_lsp \subseteq in_lsp' /\ in_lsp' \subseteq in_lsp \cup B
         /\ pushed' \subseteq pushed \cup B
    BY <1>1, <1>3
  <1>10. DOMAIN sv' = Servers /\ sv' = [s \in Servers |-> sv'[s]]
    BY <1>1
  <1> QED  BY <1>7, <1>8, <1>9, <1>10 DEF Seen

LEMMA OpenBufferInv == ASSUME ServersInv, NEW b \in Buffers, OpenBuffer(b) PROVE ServersInv'
  <1>1. EditorTyped /\ pending \subseteq Asking /\ failed \subseteq Servers /\ installed \subseteq Servers
    BY Parts
  <1>2. b \notin open /\ open' = open \cup {b} /\ focus' = b /\ installed' = installed
        /\ OpenBuffers({b}, failed) /\ text' = text /\ disk' = disk /\ saving' = saving
        /\ pending' = pending
    BY DEF OpenBuffer
  <1>3. {b} \in SUBSET Buffers /\ {b} \cap in_lsp = {} /\ failed \in SUBSET Servers
    BY <1>1, <1>2 DEF EditorTyped
  <1>4. /\ DOMAIN sv' = Servers /\ sv' = [s \in Servers |-> sv'[s]]
        /\ \A s \in Servers : Moves(sv[s], sv'[s])
        /\ failed' \subseteq Servers
        /\ in_lsp \subseteq in_lsp' /\ in_lsp' \subseteq in_lsp \cup {b}
        /\ pushed' \subseteq pushed \cup {b}
        /\ \A c \in in_lsp' : sv'[ServerOf[c]].state = "ready"
        /\ Seen(sv', in_lsp' \cap pushed', text)
    BY <1>2, <1>3, OpenBuffersIs
  <1>5. EditorTyped'
    BY <1>1, <1>2, <1>4 DEF EditorTyped
  <1>6. /\ sv' \in [Servers -> Server] /\ \A s \in Servers : Len(sv'[s].out) <= QueueCap
        /\ Idle' /\ OwnAsked'
    BY <1>2, <1>4, AllMove
  <1> QED  BY <1>1, <1>2, <1>4, <1>5, <1>6, PartsNext

LEMMA InstallInv == ASSUME ServersInv, NEW s0 \in Servers, Install(s0) PROVE ServersInv'
  <1>1. EditorTyped /\ pending \subseteq Asking /\ failed \subseteq Servers /\ installed \subseteq Servers
    BY Parts
  <1> DEFINE B == open \ in_lsp
  <1>2. installed' = installed \cup {s0} /\ OpenBuffers(B, {})
        /\ open' = open /\ text' = text /\ disk' = disk /\ saving' = saving /\ focus' = focus
        /\ pending' = pending
    BY DEF Install
  <1>3. B \in SUBSET Buffers /\ B \cap in_lsp = {} /\ {} \in SUBSET Servers /\ B \subseteq open
    BY <1>1 DEF EditorTyped
  <1> HIDE DEF B
  <1>4. /\ DOMAIN sv' = Servers /\ sv' = [s \in Servers |-> sv'[s]]
        /\ \A s \in Servers : Moves(sv[s], sv'[s])
        /\ failed' \subseteq Servers
        /\ in_lsp \subseteq in_lsp' /\ in_lsp' \subseteq in_lsp \cup B
        /\ pushed' \subseteq pushed \cup B
        /\ \A c \in in_lsp' : sv'[ServerOf[c]].state = "ready"
        /\ Seen(sv', in_lsp' \cap pushed', text)
    BY <1>2, <1>3, OpenBuffersIs
  <1>5. EditorTyped'
    BY <1>1, <1>2, <1>3, <1>4 DEF EditorTyped
  <1>6. /\ sv' \in [Servers -> Server] /\ \A s \in Servers : Len(sv'[s].out) <= QueueCap
        /\ Idle' /\ OwnAsked'
    BY <1>2, <1>4, AllMove
  <1> QED  BY <1>1, <1>2, <1>4, <1>5, <1>6, PartsNext

LEMMA EditInv == ASSUME ServersInv, Edit PROVE ServersInv'
  <1>1. /\ EditorTyped /\ pending \subseteq Asking /\ failed \subseteq Servers /\ installed \subseteq Servers
        /\ sv \in [Servers -> Fits] /\ \A s \in Servers : Rest(sv[s])
        /\ AllReady(sv) /\ Seen(sv, in_lsp \cap pushed, text)
    BY Parts, Resting
  <1> DEFINE t == [text EXCEPT ![focus] = @ + 1]
             P == pushed \ {focus}
  <1>2. /\ focus \in open /\ text[focus] < MaxText /\ text' = t /\ Synced(sv, t, P)
        /\ open' = open /\ disk' = disk /\ in_lsp' = in_lsp /\ saving' = saving /\ focus' = focus
        /\ pending' = pending /\ failed' = failed /\ installed' = installed
    BY DEF Edit
  <1>3. t \in [Buffers -> Texts]
    <2>1. text[focus] + 1 \in Texts
      BY <1>1, <1>2, LspConstants DEF EditorTyped, Texts
    <2> QED  BY <1>1, <2>1 DEF EditorTyped
  <1>4. Seen(sv, in_lsp \cap P, t)
    BY <1>1 DEF Seen, EditorTyped
  <1> HIDE DEF t, P
  <1>5. /\ sv' \in [Servers -> Fits]
        /\ \A s \in Servers : Moves(sv[s], sv'[s]) /\ sv'[s].state = sv[s].state
        /\ Seen(sv', in_lsp \cap pushed', t)
    BY <1>1, <1>2, <1>3, <1>4, SyncedIs DEF EditorTyped
  <1>6. pushed' = P \cup ({focus} \cap in_lsp)
    BY <1>2 DEF Synced
  <1>7. EditorTyped'
    BY <1>1, <1>2, <1>3, <1>6 DEF EditorTyped, P
  <1>8. /\ sv' \in [Servers -> Server] /\ \A s \in Servers : Len(sv'[s].out) <= QueueCap
        /\ Idle' /\ OwnAsked'
    BY <1>2, <1>5, AllMove
  <1>9. \A b \in in_lsp' : sv'[ServerOf[b]].state = "ready"
    BY <1>1, <1>2, <1>5, LspConstants DEF AllReady, EditorTyped
  <1> QED  BY <1>1, <1>2, <1>5, <1>7, <1>8, <1>9, PartsNext

LEMMA FocusInv == ASSUME ServersInv, NEW b \in Buffers, Focus(b) PROVE ServersInv'
  BY DEF ServersInv, LspTypeOK, Idle, Ready, OwnAsked, ServerSees, Focus

LEMMA GiveUpInv == ASSUME ServersInv, NEW b \in Buffers, GiveUp(b) PROVE ServersInv'
  BY DEF ServersInv, LspTypeOK, Idle, Ready, OwnAsked, ServerSees, GiveUp

LEMMA CloseBufferInv == ASSUME ServersInv, NEW b \in Buffers, CloseBuffer(b) PROVE ServersInv'
  <1>1. /\ EditorTyped /\ pending \subseteq Asking /\ failed \subseteq Servers /\ installed \subseteq Servers
        /\ sv \in [Servers -> Server] /\ \A s \in Servers : Len(sv[s].out) <= QueueCap
        /\ Idle /\ OwnAsked /\ AllReady(sv) /\ Seen(sv, in_lsp \cap pushed, text)
    BY Parts
  <1>2. /\ open' = open \ {b} /\ in_lsp' = in_lsp \ {b} /\ saving' = saving \ {b}
        /\ pushed' = pushed \ {b} /\ text' = [text EXCEPT ![b] = disk[b]] /\ disk' = disk
        /\ focus' = focus /\ pending' = pending /\ failed' = failed /\ installed' = installed
        /\ sv' = sv
    BY DEF CloseBuffer
  <1>3. EditorTyped'
    BY <1>1, <1>2 DEF EditorTyped
  <1>4. \A c \in in_lsp' : c \in in_lsp /\ text'[c] = text[c]
    BY <1>1, <1>2 DEF EditorTyped
  <1>5. Idle' /\ OwnAsked' /\ \A c \in in_lsp' : sv'[ServerOf[c]].state = "ready"
    BY <1>1, <1>2, <1>4 DEF Idle, OwnAsked, AllReady
  <1>6. Seen(sv', in_lsp' \cap pushed', text')
    BY <1>1, <1>2, <1>4 DEF Seen
  <1> QED  BY <1>1, <1>2, <1>3, <1>5, <1>6, PartsNext

(* A request, and what has changed.                                        *)
LEMMA RequestIs ==
  ASSUME ServersInv, CanAsk(focus), NEW save \in BOOLEAN, Request(save)
  PROVE  /\ pending' \subseteq Asking
         /\ sv' \in [Servers -> Server] /\ \A s \in Servers : Len(sv'[s].out) <= QueueCap
         /\ Idle' /\ OwnAsked'
         /\ \A b \in in_lsp : sv'[ServerOf[b]].state = "ready"
         /\ Seen(sv', in_lsp \cap pushed', text)
         /\ pushed' = pushed \cup ({focus} \cap in_lsp)
  <1>1. /\ EditorTyped /\ pending \subseteq Asking
        /\ sv \in [Servers -> Fits] /\ \A s \in Servers : Rest(sv[s])
        /\ OwnAsked /\ AllReady(sv) /\ Seen(sv, in_lsp \cap pushed, text)
    BY Parts, Resting
  <1> DEFINE s == ServerOf[focus]
             u == Requested(sv[s], focus)
             w == [sv EXCEPT ![s] = u]
             p == [server |-> s, id |-> sv[s].next, buffer |-> focus, gen |-> sv[s].gen, save |-> save]
  <1>2. Synced(w, text, pushed) /\ pending' = Asked(p)
    BY DEF Request
  <1>3. /\ s \in Servers /\ sv[s] \in Fits /\ sv[s].state = "ready" /\ sv[s].next <= MaxRequest
        /\ focus \in Buffers /\ \A b \in in_lsp : ServerOf[b] \in Servers
    BY <1>1, LspConstants DEF EditorTyped, CanAsk
  <1>4. /\ u \in Fits /\ u.state = "ready" /\ u.gen = sv[s].gen /\ (u.reads => sv[s].reads)
        /\ AskIds(u) \subseteq AskIds(sv[s]) \cup {sv[s].next}
        /\ u.reads => \A c \in Buffers : \A x : Heads(sv[s], c, x) => Heads(u, c, x)
    BY <1>3, RequestedIs
  <1> HIDE DEF u
  <1>5. w \in [Servers -> Fits] /\ w[s] = u /\ \A r \in Servers \ {s} : w[r] = sv[r]
    BY <1>1, <1>3, <1>4
  <1> HIDE DEF w
  <1>6. (\A r \in Servers : Rest(w[r])) /\ AllReady(w)
    BY <1>1, <1>3, <1>4, <1>5 DEF Rest, AllReady
  <1>7. Seen(w, in_lsp \cap pushed, text)
    BY <1>1, <1>3, <1>4, <1>5 DEF Seen, EditorTyped
  <1>8. /\ sv' \in [Servers -> Fits]
        /\ \A r \in Servers : Moves(w[r], sv'[r]) /\ sv'[r].state = w[r].state
        /\ Seen(sv', in_lsp \cap pushed', text)
    BY <1>1, <1>2, <1>5, <1>6, <1>7, SyncedIs DEF EditorTyped
  <1>9. sv' \in [Servers -> Server] /\ \A r \in Servers : Len(sv'[r].out) <= QueueCap
    BY <1>8 DEF Fits
  <1>10. Idle'
    BY <1>8 DEF Idle, Moves
  <1>11. p \in Asking
    BY <1>3 DEF Asking, Fits, Server
  <1>12. pending' \subseteq Asking
    BY <1>1, <1>2, <1>11 DEF Asked
  <1>13. ASSUME NEW q \in pending', q.id \in AskIds(sv'[q.server]) PROVE q.gen = sv'[q.server].gen
    <2>1. q.server \in Servers
      BY <1>12 DEF Asking
    <2>2. sv'[q.server].gen = w[q.server].gen /\ AskIds(sv'[q.server]) \subseteq AskIds(w[q.server])
      BY <1>8, <1>13, <2>1 DEF Moves
    <2>3. CASE q = p
      BY <1>4, <1>5, <2>2, <2>3
    <2>4. CASE q # p
      <3>1. q \in pending /\ (q.server # s \/ q.id # sv[s].next)
        BY <1>2, <1>13, <2>4 DEF Asked
      <3>2. w[q.server].gen = sv[q.server].gen
        BY <1>4, <1>5, <2>1
      <3>3. q.id \in AskIds(sv[q.server])
        BY <1>4, <1>5, <1>13, <2>1, <2>2, <3>1
      <3> QED  BY <1>1, <2>2, <3>1, <3>2, <3>3 DEF OwnAsked
    <2> QED  BY <2>3, <2>4
  <1>14. OwnAsked'
    BY <1>13 DEF OwnAsked
  <1>15. \A b \in in_lsp : sv'[ServerOf[b]].state = "ready"
    BY <1>3, <1>6, <1>8 DEF AllReady
  <1>16. pushed' = pushed \cup ({focus} \cap in_lsp)
    BY <1>2 DEF Synced
  <1> QED  BY <1>8, <1>9, <1>10, <1>12, <1>14, <1>15, <1>16

LEMMA EditorRequestInv == ASSUME ServersInv, EditorRequest PROVE ServersInv'
  <1>1. EditorTyped /\ failed \subseteq Servers /\ installed \subseteq Servers
    BY Parts
  <1>2. /\ CanAsk(focus) /\ Request(FALSE) /\ open' = open /\ text' = text /\ disk' = disk
        /\ in_lsp' = in_lsp /\ saving' = saving /\ focus' = focus /\ failed' = failed
        /\ installed' = installed
    BY DEF EditorRequest
  <1>3. /\ pending' \subseteq Asking
        /\ sv' \in [Servers -> Server] /\ \A s \in Servers : Len(sv'[s].out) <= QueueCap
        /\ Idle' /\ OwnAsked'
        /\ \A b \in in_lsp : sv'[ServerOf[b]].state = "ready"
        /\ Seen(sv', in_lsp \cap pushed', text)
        /\ pushed' = pushed \cup ({focus} \cap in_lsp)
    BY <1>2, RequestIs
  <1>4. EditorTyped'
    BY <1>1, <1>2, <1>3 DEF EditorTyped
  <1> QED  BY <1>1, <1>2, <1>3, <1>4, PartsNext

LEMMA EditorSaveInv == ASSUME ServersInv, EditorSave PROVE ServersInv'
  <1>1. EditorTyped /\ pending \subseteq Asking /\ failed \subseteq Servers /\ installed \subseteq Servers
    BY Parts
  <1>2. /\ focus \in open /\ open' = open /\ text' = text /\ in_lsp' = in_lsp /\ focus' = focus
        /\ installed' = installed
    BY DEF EditorSave
  <1>3. CASE CanAsk(focus) /\ Request(TRUE) /\ saving' = saving \cup {focus} /\ UNCHANGED <<disk, failed>>
    <2>1. /\ pending' \subseteq Asking
          /\ sv' \in [Servers -> Server] /\ \A s \in Servers : Len(sv'[s].out) <= QueueCap
          /\ Idle' /\ OwnAsked'
          /\ \A b \in in_lsp : sv'[ServerOf[b]].state = "ready"
          /\ Seen(sv', in_lsp \cap pushed', text)
          /\ pushed' = pushed \cup ({focus} \cap in_lsp)
      BY <1>3, RequestIs
    <2>2. EditorTyped'
      BY <1>1, <1>2, <1>3, <2>1 DEF EditorTyped
    <2> QED  BY <1>1, <1>2, <1>3, <2>1, <2>2, PartsNext
  <1>4. CASE Write(sv, text, pushed) /\ saving' = saving \ {focus} /\ UNCHANGED pending
    <2>1. /\ sv \in [Servers -> Fits] /\ \A s \in Servers : Rest(sv[s])
          /\ AllReady(sv) /\ Seen(sv, in_lsp \cap pushed, text)
      BY Parts, Resting
    <2>2. /\ sv' \in [Servers -> Fits] /\ \A s \in Servers : Moves(sv[s], sv'[s])
          /\ \A b \in in_lsp : sv'[ServerOf[b]].state = "ready"
          /\ Seen(sv', in_lsp \cap pushed', text)
          /\ disk' \in [Buffers -> Texts] /\ failed' \subseteq Servers
          /\ pushed' = pushed \cup ({focus} \cap in_lsp)
      BY <1>1, <1>4, <2>1, WriteIs DEF EditorTyped
    <2>3. EditorTyped'
      BY <1>1, <1>2, <1>4, <2>2 DEF EditorTyped
    <2>4. /\ sv' \in [Servers -> Server] /\ \A s \in Servers : Len(sv'[s].out) <= QueueCap
          /\ Idle' /\ OwnAsked'
      BY <1>4, <2>2, AllMove
    <2> QED  BY <1>1, <1>2, <1>4, <2>2, <2>3, <2>4, PartsNext
  <1> QED  BY <1>3, <1>4 DEF EditorSave

LEMMA TrimInv == ASSUME ServersInv, Trim PROVE ServersInv'
  <1>1. /\ EditorTyped /\ pending \subseteq Asking /\ failed \subseteq Servers /\ installed \subseteq Servers
        /\ sv \in [Servers -> Fits] /\ \A s \in Servers : Rest(sv[s])
        /\ AllReady(sv) /\ Seen(sv, in_lsp \cap pushed, text)
    BY Parts, Resting
  <1>2. /\ sv' = [s \in Servers |-> IF sv[s].state = "none" THEN sv[s] ELSE Trimmed(s)]
        /\ pending' \subseteq pending /\ open' = open /\ text' = text /\ disk' = disk
        /\ pushed' = pushed /\ in_lsp' = in_lsp /\ saving' = saving /\ focus' = focus
        /\ failed' = failed /\ installed' = installed
    BY DEF Trim, editor
  <1>3. ASSUME NEW s \in Servers, Mine(open, s) # {}
        PROVE  LET v == Trimmed(s) IN
               /\ SentTo(sv[s], v)
               /\ v.reads => \A b \in Mine(open, s) : \A x : Heads(sv[s], b, x) => Heads(v, b, x)
    <2> DEFINE B == sv[s].known \ Mine(open, s)
    <2>1. B \in SUBSET Buffers /\ sv[s] \in Fits
      BY <1>1 DEF Fits, Server
    <2>2. Trimmed(s) = DidClose(sv[s], B)
      BY <1>3 DEF Trimmed
    <2>3. \A b \in Mine(open, s) : b \in Buffers \ B
      BY <1>1 DEF Mine, EditorTyped
    <2> HIDE DEF B
    <2> QED  BY <2>1, <2>2, <2>3, DidCloseIs
  <1>4. ASSUME NEW s \in Servers PROVE Moves(sv[s], sv'[s])
    <2>1. CASE sv[s].state = "none"
      BY <1>1, <1>2, <2>1, StaysMoves
    <2>2. CASE sv[s].state # "none" /\ Mine(open, s) = {}
      <3>1. sv'[s] = NoServer(sv[s].gen)
        BY <1>2, <2>2 DEF Trimmed
      <3>2. sv[s].gen \in 0 .. MaxSpawn
        BY <1>1 DEF Fits, Server
      <3> QED  BY <3>1, <3>2, NoServerMoves
    <2>3. CASE sv[s].state # "none" /\ Mine(open, s) # {}
      BY <1>1, <1>2, <1>3, <2>3, SentMoves
    <2> QED  BY <2>1, <2>2, <2>3
  <1>5. ASSUME NEW b \in in_lsp
        PROVE  /\ sv'[ServerOf[b]].state = "ready"
               /\ b \in pushed /\ sv'[ServerOf[b]].reads => Heads(sv'[ServerOf[b]], b, text[b])
    <2> DEFINE s == ServerOf[b]
    <2>1. b \in open /\ s \in Servers /\ sv[s].state = "ready" /\ b \in Mine(open, s)
      BY <1>1, LspConstants DEF EditorTyped, AllReady, Mine
    <2>2. sv'[s] = Trimmed(s)
      BY <1>2, <2>1
    <2>3. /\ SentTo(sv[s], sv'[s])
          /\ sv'[s].reads => \A c \in Mine(open, s) : \A x : Heads(sv[s], c, x) => Heads(sv'[s], c, x)
      BY <1>3, <2>1, <2>2
    <2>4. b \in pushed /\ sv[s].reads => Heads(sv[s], b, text[b])
      BY <1>1 DEF Seen
    <2> HIDE DEF s
    <2>5. sv'[s].reads => sv[s].reads
      BY <2>3 DEF SentTo
    <2>6. sv'[s].state = "ready"
      BY <2>1, <2>3 DEF SentTo
    <2>7. b \in pushed /\ sv'[s].reads => Heads(sv'[s], b, text[b])
      BY <2>1, <2>3, <2>4, <2>5
    <2> QED  BY <2>6, <2>7 DEF s
  <1>6. /\ sv' \in [Servers -> Server] /\ \A s \in Servers : Len(sv'[s].out) <= QueueCap
        /\ Idle' /\ OwnAsked'
    BY <1>2, <1>4, AllMove
  <1>7. EditorTyped'
    BY <1>1, <1>2 DEF EditorTyped
  <1>8. Seen(sv', in_lsp' \cap pushed', text')
    BY <1>2, <1>5 DEF Seen
  <1> QED  BY <1>1, <1>2, <1>5, <1>6, <1>7, <1>8, PartsNext

(* A step of one server by itself, with or without what waits for it.      *)
LEMMA OneServer ==
  ASSUME ServersInv, NEW s \in Servers, NEW v, sv' = [sv EXCEPT ![s] = v], Moves(sv[s], v),
         v.state = sv[s].state, v.reads => sv[s].reads,
         \A b \in Buffers : \A x : v.reads /\ Heads(sv[s], b, x) => Heads(v, b, x),
         UNCHANGED <<editor, pending, failed, installed>>
  PROVE  ServersInv'
  <1>1. /\ EditorTyped /\ pending \subseteq Asking /\ failed \subseteq Servers /\ installed \subseteq Servers
        /\ sv \in [Servers -> Fits] /\ \A r \in Servers : Rest(sv[r])
        /\ AllReady(sv) /\ Seen(sv, in_lsp \cap pushed, text)
    BY Parts, Resting
  <1>2. sv'[s] = v /\ (\A r \in Servers \ {s} : sv'[r] = sv[r])
        /\ DOMAIN sv' = Servers /\ sv' = [r \in Servers |-> sv'[r]]
    BY <1>1
  <1>3. \A r \in Servers : Moves(sv[r], sv'[r])
    BY <1>1, <1>2, StaysMoves
  <1>4. /\ open' = open /\ text' = text /\ disk' = disk /\ pushed' = pushed /\ in_lsp' = in_lsp
        /\ saving' = saving /\ focus' = focus /\ pending' = pending
        /\ failed' = failed /\ installed' = installed
    BY DEF editor
  <1>5. /\ sv' \in [Servers -> Server] /\ \A r \in Servers : Len(sv'[r].out) <= QueueCap
        /\ Idle' /\ OwnAsked'
    BY <1>2, <1>3, <1>4, AllMove
  <1>6. EditorTyped'
    BY <1>1, <1>4 DEF EditorTyped
  <1>7. \A b \in in_lsp : b \in Buffers /\ ServerOf[b] \in Servers
    BY <1>1, LspConstants DEF EditorTyped
  <1>8. \A b \in in_lsp' : sv'[ServerOf[b]].state = "ready"
    BY <1>1, <1>2, <1>4, <1>7 DEF AllReady
  <1>9. ASSUME NEW b \in in_lsp \cap pushed, sv'[ServerOf[b]].reads
        PROVE  Heads(sv'[ServerOf[b]], b, text[b])
    <2>1. CASE ServerOf[b] = s
      <3>1. v.reads /\ sv[s].reads
        BY <1>2, <1>9, <2>1
      <3>2. Heads(sv[s], b, text[b])
        BY <1>1, <2>1, <3>1 DEF Seen
      <3> QED  BY <1>2, <1>7, <2>1, <3>1, <3>2
    <2>2. CASE ServerOf[b] # s
      BY <1>1, <1>2, <1>7, <1>9, <2>2 DEF Seen
    <2> QED  BY <2>1, <2>2
  <1>10. Seen(sv', in_lsp' \cap pushed', text')
    BY <1>4, <1>9 DEF Seen
  <1> QED  BY <1>1, <1>4, <1>5, <1>6, <1>8, <1>10, PartsNext

LEMMA DieInv == ASSUME ServersInv, NEW s \in Servers, Die(s) PROVE ServersInv'
  <1> DEFINE v == [sv[s] EXCEPT !.reads = FALSE]
  <1>1. sv[s] \in Fits /\ sv[s] \in Server /\ Rest(sv[s])
    BY Resting DEF Fits
  <1>2. sv' = [sv EXCEPT ![s] = v] /\ UNCHANGED <<editor, pending, failed, installed>>
    BY DEF Die
  <1>3. v = [sv[s] EXCEPT !.reads = FALSE]
    OBVIOUS
  <1> HIDE DEF v
  <1>4. v \in Server /\ SameButQueue(sv[s], v) /\ v.out = sv[s].out /\ v.reads = FALSE
    BY <1>1, <1>3, Ended
  <1>5. v \in Fits /\ v.state = sv[s].state /\ v.gen = sv[s].gen /\ AskIds(v) = AskIds(sv[s])
    BY <1>1, <1>4, AsksSame DEF Fits, SameButQueue
  <1>6. Moves(sv[s], v)
    BY <1>4, <1>5 DEF Moves
  <1> QED  BY <1>2, <1>4, <1>5, <1>6, OneServer

LEMMA TellInv == ASSUME ServersInv, NEW s \in Servers, Tell(s) PROVE ServersInv'
  <1> DEFINE e == Event("exited", 0)
             o == Append(sv[s].inbox, e)
             v == [sv[s] EXCEPT !.told = TRUE, !.inbox = o]
  <1>1. sv \in [Servers -> Fits] /\ sv[s] \in Fits /\ sv[s] \in Server /\ Rest(sv[s])
        /\ sv[s].inbox \in Seq(Events)
    BY Resting DEF Fits, Server
  <1>2. sv' = [sv EXCEPT ![s] = v] /\ UNCHANGED <<editor, pending, failed, installed>>
    BY <1>1 DEF Tell
  <1>3. e \in Events /\ e.kind = "exited"
    BY LspConstants DEF Event, Events, Ids
  <1> HIDE DEF e
  <1>4. o \in Seq(Events) /\ \A i \in DOMAIN o : (i \in DOMAIN sv[s].inbox /\ o[i] = sv[s].inbox[i]) \/ o[i] = e
    BY <1>1, <1>3
  <1> HIDE DEF o
  <1>5. v \in Server /\ v.out = sv[s].out /\ v.docs = sv[s].docs /\ v.todo = sv[s].todo /\ v.inbox = o
        /\ v.state = sv[s].state /\ v.gen = sv[s].gen
    BY <1>1, <1>4 DEF Server
  <1>6. v.reads => sv[s].reads
    BY <1>1 DEF Server
  <1> HIDE DEF v
  <1>7. AskIds(v) \subseteq AskIds(sv[s])
    BY <1>3, <1>4, <1>5 DEF AskIds
  <1>8. Moves(sv[s], v)
    BY <1>1, <1>5, <1>6, <1>7 DEF Moves, Fits, Rest
  <1>9. \A b \in Buffers : \A x : Heads(sv[s], b, x) => Heads(v, b, x)
    BY <1>5, HeadsSame
  <1> QED  BY <1>2, <1>5, <1>6, <1>8, <1>9, OneServer

LEMMA ReplyInv == ASSUME ServersInv, NEW s \in Servers, NEW id \in sv[s].todo, Reply(s, id) PROVE ServersInv'
  <1> DEFINE e == Event("answer", id)
             o == Append(sv[s].inbox, e)
             v == [sv[s] EXCEPT !.todo = sv[s].todo \ {id}, !.inbox = o]
  <1>1. sv \in [Servers -> Fits] /\ sv[s] \in Fits /\ sv[s] \in Server /\ Rest(sv[s])
        /\ sv[s].inbox \in Seq(Events) /\ sv[s].todo \subseteq Ids
    BY Resting DEF Fits, Server
  <1>2. sv' = [sv EXCEPT ![s] = v] /\ UNCHANGED <<editor, pending, failed, installed>>
    BY <1>1 DEF Reply
  <1>3. e \in Events /\ e.id = id /\ id \in AskIds(sv[s])
    BY <1>1 DEF Event, Events, AskIds
  <1> HIDE DEF e
  <1>4. o \in Seq(Events) /\ \A i \in DOMAIN o : (i \in DOMAIN sv[s].inbox /\ o[i] = sv[s].inbox[i]) \/ o[i] = e
    BY <1>1, <1>3
  <1> HIDE DEF o
  <1>5. v \in Server /\ v.out = sv[s].out /\ v.docs = sv[s].docs /\ v.todo \subseteq sv[s].todo
        /\ v.inbox = o /\ v.state = sv[s].state /\ v.gen = sv[s].gen
    BY <1>1, <1>4 DEF Server
  <1>6. v.reads => sv[s].reads
    BY <1>1 DEF Server
  <1> HIDE DEF v
  <1>7. \A i \in DOMAIN v.inbox : v.inbox[i].kind = "answer" => v.inbox[i].id \in AskIds(sv[s])
    BY <1>3, <1>4, <1>5 DEF AskIds
  <1>8. AskIds(v) \subseteq AskIds(sv[s])
    BY <1>5, <1>7 DEF AskIds
  <1>9. Moves(sv[s], v)
    BY <1>1, <1>5, <1>6, <1>8 DEF Moves, Fits, Rest
  <1>10. \A b \in Buffers : \A x : Heads(sv[s], b, x) => Heads(v, b, x)
    BY <1>5, HeadsSame
  <1> QED  BY <1>2, <1>5, <1>6, <1>9, <1>10, OneServer

(* What the process makes of a message, its queue aside.                   *)
LEMMA ServedIs ==
  ASSUME NEW v \in Server, NEW m \in Msgs
  PROVE  LET u == Served(v, m) IN
         /\ u \in Server /\ u.out = v.out /\ u.state = v.state /\ u.gen = v.gen
         /\ u.reads => v.reads
         /\ u.todo \subseteq v.todo \cup (IF m.kind = "ask" THEN {m.id} ELSE {})
         /\ \A i \in DOMAIN u.inbox :
              u.inbox[i].kind = "answer" => i \in DOMAIN v.inbox /\ u.inbox[i] = v.inbox[i]
  <1>1. m.kind \in {"initialize", "open", "change", "close", "ask"} /\ m.id \in Ids /\ m.text \in Texts
    BY DEF Msgs
  <1>2. v.inbox \in Seq(Events) /\ v.docs \in [Buffers -> Texts \cup {Gone}]
    BY DEF Server
  <1>3. CASE m.kind = "initialize"
    <2> DEFINE e == Event("initialized", 1)
               o == Append(v.inbox, e)
    <2>1. e \in Events /\ e.kind = "initialized"
      BY LspConstants DEF Event, Events, Ids
    <2>2. Served(v, m) = [v EXCEPT !.inbox = o]
      BY <1>3 DEF Served
    <2> HIDE DEF e
    <2>3. o \in Seq(Events) /\ \A i \in DOMAIN o : (i \in DOMAIN v.inbox /\ o[i] = v.inbox[i]) \/ o[i] = e
      BY <1>2, <2>1
    <2> HIDE DEF o
    <2>4. Served(v, m).reads => v.reads
      BY <2>2 DEF Server
    <2>5. /\ Served(v, m) \in Server /\ Served(v, m).out = v.out /\ Served(v, m).state = v.state
          /\ Served(v, m).gen = v.gen /\ Served(v, m).todo = v.todo /\ Served(v, m).inbox = o
      BY <2>2, <2>3 DEF Server
    <2> QED  BY <2>1, <2>3, <2>4, <2>5
  <1>4. CASE m.kind \in {"open", "change", "close"}
    <2> DEFINE x == Says(m)
               d == [v.docs EXCEPT ![m.buffer] = x]
    <2>1. x \in Texts \cup {Gone}
      BY <1>1 DEF Says
    <2>2. d \in [Buffers -> Texts \cup {Gone}]
      BY <1>2, <2>1
    <2>3. Served(v, m) = [v EXCEPT !.docs = d]
      BY <1>4 DEF Served, Says
    <2> HIDE DEF d
    <2>4. Served(v, m).reads => v.reads
      BY <2>3 DEF Server
    <2>5. /\ Served(v, m) \in Server /\ Served(v, m).out = v.out /\ Served(v, m).state = v.state
          /\ Served(v, m).gen = v.gen /\ Served(v, m).todo = v.todo /\ Served(v, m).inbox = v.inbox
      BY <2>2, <2>3 DEF Server
    <2> QED  BY <2>4, <2>5
  <1>5. CASE m.kind = "ask"
    <2> DEFINE k == v.todo \cup {m.id}
    <2>1. Served(v, m) = [v EXCEPT !.todo = k]
      BY <1>5 DEF Served
    <2>2. k \subseteq Ids
      BY <1>1 DEF Server
    <2> HIDE DEF k
    <2>3. Served(v, m).reads => v.reads
      BY <2>1 DEF Server
    <2>4. /\ Served(v, m) \in Server /\ Served(v, m).out = v.out /\ Served(v, m).state = v.state
          /\ Served(v, m).gen = v.gen /\ Served(v, m).todo = k /\ Served(v, m).inbox = v.inbox
      BY <2>1, <2>2 DEF Server
    <2> QED  BY <1>5, <2>3, <2>4 DEF k
  <1> QED  BY <1>1, <1>3, <1>4, <1>5

LEMMA ServeInv == ASSUME ServersInv, NEW s \in Servers, Serve(s) PROVE ServersInv'
  <1> DEFINE m == Head(sv[s].out)
             u == Served(sv[s], m)
             o == Tail(sv[s].out)
             v == [u EXCEPT !.out = Tail(@)]
  <1>1. sv \in [Servers -> Fits] /\ sv[s] \in Fits /\ sv[s] \in Server /\ Rest(sv[s])
        /\ sv[s].out \in Seq(Msgs) /\ Len(sv[s].out) <= QueueCap
    BY Resting DEF Fits, Server
  <1>2. /\ sv[s].out # <<>> /\ sv' = [sv EXCEPT ![s] = v]
        /\ UNCHANGED <<editor, pending, failed, installed>>
    BY DEF Serve
  <1>3. m \in Msgs /\ o \in Seq(Msgs) /\ Len(o) <= QueueCap /\ 1 \in DOMAIN sv[s].out
        /\ m = sv[s].out[1] /\ \A i \in DOMAIN o : i + 1 \in DOMAIN sv[s].out /\ o[i] = sv[s].out[i + 1]
    BY <1>1, <1>2, LspConstants
  <1>5. /\ u \in Server /\ u.out = sv[s].out /\ u.state = sv[s].state /\ u.gen = sv[s].gen
        /\ u.reads => sv[s].reads
        /\ u.todo \subseteq sv[s].todo \cup (IF m.kind = "ask" THEN {m.id} ELSE {})
        /\ \A i \in DOMAIN u.inbox :
             u.inbox[i].kind = "answer" => i \in DOMAIN sv[s].inbox /\ u.inbox[i] = sv[s].inbox[i]
    BY <1>1, <1>3, ServedIs
  <1>4. v = [u EXCEPT !.out = o]
    BY <1>5
  <1> HIDE DEF v, o
  <1>6. v \in Server /\ SameButQueue(u, v) /\ v.out = o /\ (v.reads => u.reads)
    BY <1>3, <1>4, <1>5, QueueSet
  <1>7. v \in Fits /\ v.state = sv[s].state /\ v.gen = sv[s].gen
    BY <1>3, <1>5, <1>6 DEF Fits, SameButQueue
  <1>8. v.reads => sv[s].reads
    BY <1>5, <1>6
  <1>9. /\ \A i \in DOMAIN o : o[i].kind = "ask" => o[i].id \in AskIds(sv[s])
        /\ m.kind = "ask" => m.id \in AskIds(sv[s])
        /\ sv[s].todo \subseteq AskIds(sv[s])
        /\ \A i \in DOMAIN sv[s].inbox :
             sv[s].inbox[i].kind = "answer" => sv[s].inbox[i].id \in AskIds(sv[s])
    BY <1>3 DEF AskIds
  <1>10. AskIds(v) \subseteq AskIds(sv[s])
    <2> HIDE DEF u, m
    <2>1. v.todo = u.todo /\ v.inbox = u.inbox /\ v.out = o
      BY <1>6 DEF SameButQueue
    <2> QED  BY <1>5, <1>9, <2>1 DEF AskIds
  <1>11. Moves(sv[s], v)
    BY <1>1, <1>7, <1>8, <1>10 DEF Moves, Rest
  <1>12. v.docs = Served(sv[s], Head(sv[s].out)).docs /\ v.out = Tail(sv[s].out)
    BY <1>6 DEF SameButQueue, o
  <1>13. ASSUME NEW b \in Buffers, NEW x, Heads(sv[s], b, x) PROVE Heads(v, b, x)
    BY <1>1, <1>2, <1>7, <1>12, <1>13, HeadsRead
  <1> QED  BY <1>2, <1>7, <1>8, <1>11, <1>13, OneServer

(* An event is taken out of the inbox.                                     *)
LEMMA PopIs ==
  ASSUME NEW v \in Fits, v.inbox # <<>>, NEW w, w = [v EXCEPT !.inbox = Tail(@)]
  PROVE  /\ SentTo(v, w) /\ w.out = v.out /\ w.docs = v.docs
         /\ Head(v.inbox).kind = "answer" => Head(v.inbox).id \in AskIds(v)
  <1> DEFINE o == Tail(v.inbox)
  <1>1. v \in Server /\ v.inbox \in Seq(Events)
    BY DEF Fits, Server
  <1>2. /\ o \in Seq(Events) /\ 1 \in DOMAIN v.inbox /\ Head(v.inbox) = v.inbox[1]
        /\ \A i \in DOMAIN o : i + 1 \in DOMAIN v.inbox /\ o[i] = v.inbox[i + 1]
    BY <1>1
  <1>3. w = [v EXCEPT !.inbox = o]
    OBVIOUS
  <1> HIDE DEF o
  <1>4. w \in Server /\ w.out = v.out /\ w.docs = v.docs /\ w.todo = v.todo /\ w.inbox = o
        /\ w.state = v.state /\ w.gen = v.gen
    BY <1>1, <1>2, <1>3 DEF Server
  <1>5. w.reads => v.reads
    BY <1>1, <1>3 DEF Server
  <1>6. AskIds(w) \subseteq AskIds(v)
    BY <1>2, <1>4 DEF AskIds
  <1>7. w \in Fits
    BY <1>4 DEF Fits
  <1> QED  BY <1>2, <1>4, <1>5, <1>6, <1>7 DEF SentTo, AskIds

LEMMA InitializedInv ==
  ASSUME ServersInv, NEW s \in Servers, sv[s].state # "none", NEW v, SentTo(sv[s], v),
         v.out = sv[s].out, v.docs = sv[s].docs, Initialized(s, v), installed' = installed
  PROVE  ServersInv'
  <1>1. /\ EditorTyped /\ pending \subseteq Asking /\ failed \subseteq Servers /\ installed \subseteq Servers
        /\ sv \in [Servers -> Fits] /\ \A r \in Servers : Rest(sv[r])
        /\ AllReady(sv) /\ Seen(sv, in_lsp \cap pushed, text)
    BY Parts, Resting
  <1> DEFINE B == Mine(open \ in_lsp, s)
             u == [v EXCEPT !.state = "ready"]
             w == DidOpen(u, B, text)
  <1>2. /\ sv' = [sv EXCEPT ![s] = w] /\ in_lsp' = in_lsp \cup B /\ pushed' = pushed \cup B
        /\ open' = open /\ text' = text /\ disk' = disk /\ saving' = saving /\ focus' = focus
        /\ pending' = pending /\ failed' = failed
    BY DEF Initialized
  <1>3. B \in SUBSET Buffers /\ (\A b \in B : text[b] \in Texts /\ ServerOf[b] = s) /\ B \subseteq open
    BY <1>1 DEF EditorTyped, Mine
  <1> HIDE DEF B
  <1>4. v \in Fits /\ v \in Server /\ v.gen = sv[s].gen /\ AskIds(v) \subseteq AskIds(sv[s])
    BY DEF SentTo, Fits
  <1>5. u \in Server /\ u.out = v.out /\ u.docs = v.docs /\ u.todo = v.todo /\ u.inbox = v.inbox
        /\ u.state = "ready" /\ u.gen = v.gen
    BY <1>4 DEF Server
  <1>6. u.reads => v.reads
    BY <1>4 DEF Server
  <1> HIDE DEF u
  <1>7. u \in Fits /\ AskIds(u) = AskIds(v)
    BY <1>4, <1>5, AsksSame DEF Fits
  <1>8. /\ SentTo(u, w)
        /\ w.reads => \A b \in Buffers : \A x :
              IF b \in B THEN Heads(w, b, text[b]) ELSE Heads(u, b, x) => Heads(w, b, x)
    BY <1>3, <1>7, DidOpenIs
  <1> HIDE DEF w
  <1>9. w.state = "ready" /\ Moves(sv[s], w)
    BY <1>4, <1>5, <1>7, <1>8 DEF SentTo, Moves
  <1>10. /\ sv'[s] = w /\ (\A r \in Servers \ {s} : sv'[r] = sv[r])
         /\ DOMAIN sv' = Servers /\ sv' = [r \in Servers |-> sv'[r]]
    BY <1>1, <1>2
  <1>11. \A r \in Servers : Moves(sv[r], sv'[r])
    BY <1>1, <1>9, <1>10, StaysMoves
  <1>12. /\ sv' \in [Servers -> Server] /\ \A r \in Servers : Len(sv'[r].out) <= QueueCap
         /\ Idle' /\ OwnAsked'
    BY <1>2, <1>10, <1>11, AllMove
  <1>13. EditorTyped'
    BY <1>1, <1>2, <1>3 DEF EditorTyped
  <1>14. ASSUME NEW b \in in_lsp'
         PROVE  /\ sv'[ServerOf[b]].state = "ready"
                /\ b \in pushed' /\ sv'[ServerOf[b]].reads => Heads(sv'[ServerOf[b]], b, text[b])
    <2>1. b \in Buffers /\ ServerOf[b] \in Servers
      BY <1>1, <1>2, <1>3, LspConstants DEF EditorTyped
    <2>2. CASE b \in B
      BY <1>3, <1>8, <1>9, <1>10, <2>1, <2>2
    <2>3. CASE b \notin B
      <3>1. b \in in_lsp /\ (b \in pushed' => b \in pushed)
        BY <1>2, <2>3
      <3>2. CASE ServerOf[b] = s
        <4>1. sv'[ServerOf[b]].state = "ready"
          BY <1>9, <1>10, <3>2
        <4>2. ASSUME b \in pushed', w.reads PROVE Heads(w, b, text[b])
          <5>1. u.reads
            BY <1>8, <4>2 DEF SentTo
          <5>2. sv[s].reads
            BY <1>6, <5>1 DEF SentTo
          <5>3. Heads(sv[s], b, text[b])
            BY <1>1, <3>1, <3>2, <4>2, <5>2 DEF Seen
          <5>4. Heads(u, b, text[b])
            <6>1. u.out = sv[s].out /\ u.docs = sv[s].docs
              BY <1>5
            <6> QED  BY <5>3, <6>1, HeadsSame
          <5> QED  BY <1>8, <2>1, <2>3, <4>2, <5>4
        <4> QED  BY <1>10, <3>2, <4>1, <4>2
      <3>3. CASE ServerOf[b] # s
        <4>1. sv'[ServerOf[b]] = sv[ServerOf[b]]
          BY <1>10, <2>1, <3>3
        <4> QED  BY <1>1, <3>1, <4>1 DEF AllReady, Seen
      <3> QED  BY <3>2, <3>3
    <2> QED  BY <2>2, <2>3
  <1>15. Seen(sv', in_lsp' \cap pushed', text')
    BY <1>2, <1>14 DEF Seen
  <1> QED  BY <1>1, <1>2, <1>12, <1>13, <1>14, <1>15, PartsNext

LEMMA ExitedInv ==
  ASSUME ServersInv, NEW s \in Servers, Exited(s), installed' = installed
  PROVE  ServersInv'
  <1>1. /\ EditorTyped /\ pending \subseteq Asking /\ failed \subseteq Servers /\ installed \subseteq Servers
        /\ sv \in [Servers -> Fits] /\ \A r \in Servers : Rest(sv[r])
    BY Parts, Resting
  <1> DEFINE v == NoServer(sv[s].gen)
  <1>2. /\ sv' = [sv EXCEPT ![s] = v] /\ failed' = failed \cup {s} /\ in_lsp' = {}
        /\ open' = open /\ text' = text /\ disk' = disk /\ pushed' = pushed /\ saving' = saving
        /\ focus' = focus /\ pending' = pending
    BY DEF Exited, Left
  <1>3. sv[s].gen \in 0 .. MaxSpawn
    BY <1>1 DEF Fits, Server
  <1>4. Moves(sv[s], v)
    BY <1>3, NoServerMoves
  <1> HIDE DEF v
  <1>5. /\ DOMAIN sv' = Servers /\ sv' = [r \in Servers |-> sv'[r]]
        /\ \A r \in Servers : Moves(sv[r], sv'[r])
    BY <1>1, <1>2, <1>4, StaysMoves
  <1>6. /\ sv' \in [Servers -> Server] /\ \A r \in Servers : Len(sv'[r].out) <= QueueCap
        /\ Idle' /\ OwnAsked'
    BY <1>2, <1>5, AllMove
  <1>7. EditorTyped'
    BY <1>1, <1>2 DEF EditorTyped
  <1>8. Seen(sv', in_lsp' \cap pushed', text')
    BY <1>2 DEF Seen
  <1> QED  BY <1>1, <1>2, <1>6, <1>7, <1>8, PartsNext

LEMMA AnswerInv ==
  ASSUME ServersInv, NEW s \in Servers, NEW v, SentTo(sv[s], v), v.out = sv[s].out,
         v.docs = sv[s].docs, NEW w, w = [sv EXCEPT ![s] = v], NEW id, Answer(s, w, id),
         installed' = installed
  PROVE  ServersInv'
  <1>1. /\ EditorTyped /\ pending \subseteq Asking /\ failed \subseteq Servers /\ installed \subseteq Servers
        /\ sv \in [Servers -> Fits] /\ \A r \in Servers : Rest(sv[r])
        /\ AllReady(sv) /\ Seen(sv, in_lsp \cap pushed, text)
    BY Parts, Resting
  <1>2. v \in Fits /\ v.state = sv[s].state /\ Moves(sv[s], v) /\ Rest(v)
    BY <1>1, SentMoves DEF SentTo
  <1>3. w \in [Servers -> Fits] /\ w[s] = v /\ \A r \in Servers \ {s} : w[r] = sv[r]
    BY <1>1, <1>2
  <1>4. \A r \in Servers : Moves(sv[r], w[r]) /\ Rest(w[r])
    BY <1>1, <1>2, <1>3, StaysMoves
  <1>5. \A b \in in_lsp : b \in Buffers /\ ServerOf[b] \in Servers
    BY <1>1, LspConstants DEF EditorTyped
  <1>6. AllReady(w)
    BY <1>1, <1>2, <1>3, <1>5 DEF AllReady
  <1>7. ASSUME NEW b \in in_lsp \cap pushed, w[ServerOf[b]].reads
        PROVE  Heads(w[ServerOf[b]], b, text[b])
    <2>1. CASE ServerOf[b] = s
      <3>1. sv[s].reads
        BY <1>3, <1>7, <2>1 DEF SentTo
      <3>2. Heads(sv[s], b, text[b])
        BY <1>1, <2>1, <3>1 DEF Seen
      <3> QED  BY <1>3, <2>1, <3>2, HeadsSame
    <2>2. CASE ServerOf[b] # s
      BY <1>1, <1>3, <1>5, <1>7, <2>2 DEF Seen
    <2> QED  BY <2>1, <2>2
  <1>8. pending' \subseteq pending /\ open' = open /\ in_lsp' = in_lsp /\ focus' = focus
    BY DEF Answer
  <1>9. CASE sv' = w /\ UNCHANGED <<text, disk, saving, pushed, failed>>
    <2>1. /\ sv' \in [Servers -> Server] /\ \A r \in Servers : Len(sv'[r].out) <= QueueCap
          /\ Idle' /\ OwnAsked'
      BY <1>3, <1>4, <1>8, <1>9, AllMove
    <2>2. EditorTyped'
      BY <1>1, <1>8, <1>9 DEF EditorTyped
    <2>3. Seen(sv', in_lsp' \cap pushed', text') /\ \A b \in in_lsp' : sv'[ServerOf[b]].state = "ready"
      BY <1>6, <1>7, <1>8, <1>9 DEF Seen, AllReady
    <2> QED  BY <1>1, <1>8, <1>9, <2>1, <2>2, <2>3, PartsNext
  <1>10. ASSUME NEW p \in pending, Formatted(p, w)
         PROVE  ServersInv'
    <2>0. PICK found \in SUBSET ({p.buffer} \cap open) :
            \E t \in {text} \cup {[text EXCEPT ![b] = @ + 1] : b \in {c \in found : text[c] < MaxText}} :
              LET P == IF t = text THEN pushed ELSE pushed \ found IN
              /\ text' = t
              /\ \/ focus \in open /\ Write(w, t, P) /\ saving' = saving \ (found \cup {focus})
                 \/ /\ focus \notin open /\ sv' = w /\ pushed' = P /\ saving' = saving \ found
                    /\ UNCHANGED <<disk, failed>>
      BY <1>10 DEF Formatted
    <2>1. PICK t \in {text} \cup {[text EXCEPT ![b] = @ + 1] : b \in {c \in found : text[c] < MaxText}} :
            LET P == IF t = text THEN pushed ELSE pushed \ found IN
            /\ text' = t
            /\ \/ focus \in open /\ Write(w, t, P) /\ saving' = saving \ (found \cup {focus})
               \/ /\ focus \notin open /\ sv' = w /\ pushed' = P /\ saving' = saving \ found
                  /\ UNCHANGED <<disk, failed>>
      BY <2>0
    <2> DEFINE P == IF t = text THEN pushed ELSE pushed \ found
    <2>2. /\ t \in [Buffers -> Texts]
          /\ \A b \in in_lsp \cap P : b \in pushed /\ t[b] = text[b]
          /\ P \subseteq pushed
      <3>1. CASE t = text
        BY <1>1, <3>1 DEF EditorTyped
      <3>2. CASE t # text
        <4>1. PICK c \in found : text[c] < MaxText /\ t = [text EXCEPT ![c] = @ + 1]
          BY <2>1, <3>2
        <4>2. c \in Buffers /\ text[c] + 1 \in Texts
          BY <1>1, <4>1, LspConstants DEF EditorTyped, Texts
        <4>3. \A b \in P : b \notin found /\ b \in pushed
          BY <3>2
        <4> QED  BY <1>1, <4>1, <4>2, <4>3 DEF EditorTyped
      <3> QED  BY <3>1, <3>2
    <2>3. Seen(w, in_lsp \cap P, t)
      BY <1>7, <2>2 DEF Seen
    <2>4. CASE focus \in open /\ Write(w, t, P) /\ saving' = saving \ (found \cup {focus})
      <3>1. /\ sv' \in [Servers -> Fits] /\ \A r \in Servers : Moves(w[r], sv'[r])
            /\ \A b \in in_lsp : sv'[ServerOf[b]].state = "ready"
            /\ Seen(sv', in_lsp \cap pushed', t)
            /\ disk' \in [Buffers -> Texts] /\ failed' \subseteq Servers
            /\ pushed' = P \cup ({focus} \cap in_lsp)
        <4> HIDE DEF P
        <4> QED  BY <1>1, <1>3, <1>4, <1>5, <1>6, <2>2, <2>3, <2>4, WriteIs DEF EditorTyped
      <3>2. \A r \in Servers : Moves(sv[r], sv'[r])
        BY <1>4, <3>1, MovesTwice
      <3>3. /\ sv' \in [Servers -> Server] /\ \A r \in Servers : Len(sv'[r].out) <= QueueCap
            /\ Idle' /\ OwnAsked'
        BY <1>8, <3>1, <3>2, AllMove
      <3>4. EditorTyped'
        BY <1>1, <1>8, <2>1, <2>2, <2>4, <3>1 DEF EditorTyped
      <3>5. Seen(sv', in_lsp' \cap pushed', text')
        BY <1>8, <2>1, <3>1
      <3> QED  BY <1>1, <1>8, <3>1, <3>3, <3>4, <3>5, PartsNext
    <2>5. CASE /\ focus \notin open /\ sv' = w /\ pushed' = P /\ saving' = saving \ found
               /\ UNCHANGED <<disk, failed>>
      <3>1. /\ sv' \in [Servers -> Server] /\ \A r \in Servers : Len(sv'[r].out) <= QueueCap
            /\ Idle' /\ OwnAsked'
        BY <1>3, <1>4, <1>8, <2>5, AllMove
      <3>2. EditorTyped'
        BY <1>1, <1>8, <2>1, <2>2, <2>5 DEF EditorTyped
      <3>3. Seen(sv', in_lsp' \cap pushed', text')
        BY <1>8, <2>1, <2>3, <2>5
      <3>4. \A b \in in_lsp' : sv'[ServerOf[b]].state = "ready"
        BY <1>6, <1>8, <2>5 DEF AllReady
      <3> QED  BY <1>1, <1>8, <2>5, <3>1, <3>2, <3>3, <3>4, PartsNext
    <2> QED  BY <2>1, <2>4, <2>5
  <1> QED  BY <1>9, <1>10 DEF Answer

LEMMA PollLspInv == ASSUME ServersInv, NEW s \in Servers, PollLsp(s) PROVE ServersInv'
  <1> DEFINE e == Head(sv[s].inbox)
             v == [sv[s] EXCEPT !.inbox = Tail(@)]
             w == [sv EXCEPT ![s] = v]
  <1>1. /\ sv[s].state # "none" /\ sv[s].inbox # <<>> /\ installed' = installed
        /\ \/ Initialized(s, v)
           \/ Answer(s, w, e.id)
           \/ Exited(s)
    BY DEF PollLsp
  <1>2. sv[s] \in Fits /\ v = [sv[s] EXCEPT !.inbox = Tail(@)] /\ w = [sv EXCEPT ![s] = v]
    BY Resting
  <1> HIDE DEF w, v
  <1>3. SentTo(sv[s], v) /\ v.out = sv[s].out /\ v.docs = sv[s].docs
    BY <1>1, <1>2, PopIs
  <1> QED  BY <1>1, <1>2, <1>3, InitializedInv, AnswerInv, ExitedInv
-----------------------------------------------------------------------------
LEMMA ServersInit == LspInit => ServersInv
  <1> SUFFICES ASSUME LspInit PROVE ServersInv
    OBVIOUS
  <1>1. NoServer(0) \in Fits /\ AskIds(NoServer(0)) = {} /\ NoServer(0).reads = FALSE
    <2>1. 0 \in 0 .. MaxSpawn
      BY LspConstants
    <2>2. NoServer(0) \in Fits /\ AskIds(NoServer(0)) = {}
      BY <2>1, NoServerIs
    <2> QED  BY <2>2 DEF NoServer
  <1>2. \A s \in Servers : sv[s] = NoServer(0)
    BY DEF LspInit
  <1>3. sv \in [Servers -> Server] /\ \A s \in Servers : Len(sv[s].out) <= QueueCap
    BY <1>1, <1>2 DEF LspInit, Fits
  <1>4. Idle
    BY <1>1, <1>2 DEF Idle
  <1>5. 0 \in Texts
    BY LspConstants DEF Texts
  <1> QED  BY <1>3, <1>4, <1>5 DEF LspInit, ServersInv, LspTypeOK, Ready, OwnAsked, ServerSees

LEMMA ServersStep == ServersInv /\ [LspNext]_lspVars => ServersInv'
  <1> SUFFICES ASSUME ServersInv, [LspNext]_lspVars PROVE ServersInv'
    OBVIOUS
  <1>1. CASE UNCHANGED lspVars
    BY <1>1 DEF ServersInv, LspTypeOK, Idle, Ready, OwnAsked, ServerSees, lspVars, editor
  <1>2. ASSUME NEW b \in Buffers, OpenBuffer(b) \/ Focus(b) \/ GiveUp(b) \/ CloseBuffer(b)
        PROVE  ServersInv'
    BY <1>2, OpenBufferInv, FocusInv, GiveUpInv, CloseBufferInv
  <1>3. ASSUME NEW s \in Servers,
               \/ Install(s) \/ PollLsp(s) \/ Serve(s) \/ Die(s) \/ Tell(s)
               \/ \E id \in sv[s].todo : Reply(s, id)
        PROVE  ServersInv'
    BY <1>3, InstallInv, PollLspInv, ServeInv, DieInv, TellInv, ReplyInv
  <1> QED  BY <1>1, <1>2, <1>3, EditInv, EditorRequestInv, EditorSaveInv, TrimInv DEF LspNext

(* The invariant that the two below rest on.                               *)
THEOREM ServersAlways == LspSpec => []ServersInv
  BY ServersInit, ServersStep, PTL DEF LspSpec

(* An answer is only ever taken for the request it answers, whatever       *)
(* process it was made to, and every variable has its type: no queue holds *)
(* more than its slots (Client::enqueue, poll_lsp).                        *)
THEOREM ServerInvAlways == LspSpec => []ServerInv
  <1>1. ServersInv => ServerInv
    <2> SUFFICES ASSUME ServersInv PROVE ServerInv
      OBVIOUS
    <2>1. \A s \in Servers : Answerable(s) \subseteq AskIds(sv[s])
      BY DEF Answerable, AskIds
    <2>2. \A p \in pending : p.server \in Servers
      BY DEF ServersInv, LspTypeOK
    <2> QED  BY <2>1, <2>2 DEF ServersInv, OwnAsked, ServerInv, AnswersOwn
  <1> QED  BY <1>1, ServersAlways, PTL

(* A buffer that is taken for open and sent is, in a server that lives, the*)
(* very text that is edited (editor_synced, poll_lsp).                     *)
THEOREM ServerSeesAlways == LspSpec => []ServerSees
  <1>1. ServersInv => ServerSees
    BY DEF ServersInv
  <1> QED  BY <1>1, ServersAlways, PTL
=============================================================================

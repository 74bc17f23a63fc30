--------------------------- MODULE SyncJobsProofs ---------------------------
(***************************************************************************)
(* Proofs about SyncJobs, for any devices, jobs and bounds: types, that a  *)
(* key goes only to the code it was offered under and what pairing reports *)
(* is so, one try a code, and a rotated key in its place.                  *)
(***************************************************************************)
EXTENDS SyncJobs, TLAPS

(* A job is at one of its kind's steps; an empty slot is at none.          *)
Right(j) ==
  /\ j.id = 0 <=> j.kind = "none"
  /\ j.kind = "none" => j.at = "ended"
  /\ j.kind = "offer" => j.at \in {"listen", "agree", "confirm", "ended"}
  /\ j.kind = "receive" => j.at \in {"find", "agree", "parcel", "write", "ended"}
  /\ j.kind = "rotate" => /\ j.at \in {"first", "clear", "second", "write", "ended"}
                          /\ j.old # 0 /\ j.word # 0
  /\ j.at = "write" => j.word # 0

JobRight(d) == Right(job[d]) /\ job[d].word <= made
OwnIds == \A d, e \in Devices : Me(d) = Me(e) /\ Me(d) # 0 => d = e

(* A connection is of a job that was started, to one that was, and a key   *)
(* goes over it to the code it was offered under only.                     *)
LinkRight(r) ==
  /\ r > started => link[r] = NoLink
  /\ link[r].to <= started /\ link[r].parcel <= made
  /\ link[r].parcel # 0 => link[r].code = link[r].to

(* What each end of a pairing may rely on of the connection at its step.   *)
Gave(d) == At(d, "offer", "confirm") \/ (At(d, "offer", "ended") /\ job[d].ok)

Met(d) ==
  /\ At(d, "receive", "find") =>
       link[Me(d)].to = 0 /\ link[Me(d)].proofs = {} /\ link[Me(d)].parcel = 0
  /\ At(d, "offer", "listen") => \A r \in Came(d) : "offer" \notin link[r].proofs
  /\ At(d, "offer", "agree") \/ Gave(d) =>
       job[d].peer \in Jobs /\ link[job[d].peer].to = Me(d)
  /\ Gave(d) => /\ link[job[d].peer].code = Me(d)
                /\ link[job[d].peer].parcel = job[d].word
  /\ At(d, "offer", "ended") /\ job[d].ok => link[job[d].peer].ack

(* The key of the last rotation is in its place, or on its way there.      *)
Moving(d) == At(d, "rotate", "second") \/ At(d, "rotate", "write")

Turned(d) ==
  turned[d].to # 0 => turned[d].to = IF Moving(d) THEN job[d].word ELSE key[d]

IInv ==
  /\ TypeOK /\ OwnIds /\ OneTry
  /\ \A d \in Devices : JobRight(d) /\ Met(d) /\ Turned(d)
  /\ \A r \in Jobs : LinkRight(r)
-----------------------------------------------------------------------------
(* What a step does to a job and to a connection                           *)

LEMMA Bounds ==
  MaxKey \in Nat /\ MaxJob \in Nat /\ MaxFault \in Nat /\ 0 \in Keys
  BY SyncJobsAssumption DEF Keys

Puts(d, j)  == job' = [job EXCEPT ![d] = j]
Wires(r, l) == link' = [link EXCEPT ![r] = l]

LEMMA PutsIs ==
  ASSUME NEW d \in Devices, job \in [Devices -> Job], NEW j \in Job, Puts(d, j)
  PROVE  /\ job' \in [Devices -> Job] /\ job'[d] = j
         /\ \A e \in Devices \ {d} : job'[e] = job[e]
  BY DEF Puts

LEMMA WiresIs ==
  ASSUME NEW r \in Jobs, link \in [Jobs -> Link], NEW l \in Link, Wires(r, l)
  PROVE  /\ link' \in [Jobs -> Link] /\ link'[r] = l
         /\ \A q \in Jobs \ {r} : link'[q] = link[q]
  BY DEF Wires

Places == {"listen", "find", "agree", "parcel", "confirm", "write",
           "first", "clear", "second", "ended"}

LEMMA JobIs ==
  ASSUME NEW j \in Job
  PROVE  /\ j.id \in 0 .. MaxJob /\ j.kind \in {"none", "offer", "receive", "rotate"}
         /\ j.at \in Places /\ j.word \in Keys /\ j.old \in Keys
         /\ j.peer \in 0 .. MaxJob /\ j.stop \in BOOLEAN /\ j.ok \in BOOLEAN
  BY DEF Job, Places

LEMMA LinkIs ==
  ASSUME NEW l \in Link
  PROVE  /\ l.code \in 0 .. MaxJob /\ l.to \in 0 .. MaxJob
         /\ l.proofs \subseteq {"offer", "receive"} /\ l.parcel \in Keys /\ l.ack \in BOOLEAN
  BY DEF Link

(* The fields that a step of the worker leaves alone.                      *)
Same(j, i) ==
  /\ j \in Job /\ j.id = i.id /\ j.kind = i.kind /\ j.old = i.old /\ j.stop = i.stop

LEMMA GoesIs ==
  ASSUME NEW i \in Job, NEW at \in Places
  PROVE  LET j == [i EXCEPT !.at = at]
         IN  Same(j, i) /\ j.at = at /\ j.word = i.word /\ j.peer = i.peer /\ j.ok = i.ok
  BY DEF Job, Places, Same

LEMMA EndsIs ==
  ASSUME NEW i \in Job, NEW ok \in BOOLEAN
  PROVE  LET j == [i EXCEPT !.at = "ended", !.ok = ok]
         IN  Same(j, i) /\ j.at = "ended" /\ j.word = i.word /\ j.peer = i.peer /\ j.ok = ok
  BY DEF Job, Same

LEMMA AcceptsIs ==
  ASSUME NEW i \in Job, NEW r \in Jobs
  PROVE  LET j == [i EXCEPT !.at = "agree", !.peer = r]
         IN  Same(j, i) /\ j.at = "agree" /\ j.word = i.word /\ j.peer = r /\ j.ok = i.ok
  <1>1. r \in 0 .. MaxJob
    BY Bounds DEF Jobs
  <1> QED  BY <1>1 DEF Job, Same

LEMMA OpensIs ==
  ASSUME NEW i \in Job, NEW word \in Keys
  PROVE  LET j == [i EXCEPT !.at = "write", !.word = word]
         IN  Same(j, i) /\ j.at = "write" /\ j.word = word /\ j.peer = i.peer /\ j.ok = i.ok
  BY DEF Job, Same

LEMMA StopsIs ==
  ASSUME NEW i \in Job
  PROVE  LET j == [i EXCEPT !.stop = TRUE]
         IN  /\ j \in Job /\ j.id = i.id /\ j.kind = i.kind /\ j.old = i.old /\ j.at = i.at
             /\ j.word = i.word /\ j.peer = i.peer /\ j.ok = i.ok
  BY DEF Job

LEMMA NoJobIs ==
  /\ NoJob \in Job /\ NoJob.id = 0 /\ NoJob.kind = "none" /\ NoJob.at = "ended"
  /\ NoJob.word = 0 /\ NoJob.old = 0 /\ NoJob.peer = 0 /\ NoJob.ok = FALSE
  BY Bounds DEF NoJob, Job, Keys

LEMMA NoLinkIs ==
  /\ NoLink \in Link /\ NoLink.code = 0 /\ NoLink.to = 0 /\ NoLink.proofs = {}
  /\ NoLink.parcel = 0 /\ NoLink.ack = FALSE
  BY Bounds DEF NoLink, Link, Keys
-----------------------------------------------------------------------------
(* What is left alone stays right                                          *)

(* One slot gets another job: its own further on, none, or a new one.      *)
Puttable(d, j) ==
  /\ j \in Job /\ Right(j) /\ Puts(d, j) /\ j.word <= made'
  /\ j.id = Me(d) \/ j.id = 0 \/ (j.id = started + 1 /\ started' = started + 1)

Counts == made' \in Keys /\ made <= made' /\ started' \in 0 .. MaxJob /\ started <= started'

LEMMA CountsIs ==
  ASSUME IInv, UNCHANGED <<made, started>>
  PROVE  Counts
  BY Bounds DEF IInv, TypeOK, Counts, Keys

LEMMA Slots ==
  ASSUME IInv, Counts, NEW d \in Devices, NEW j, Puttable(d, j)
  PROVE  /\ job' \in [Devices -> Job] /\ job'[d] = j /\ OwnIds'
         /\ \A e \in Devices \ {d} : job'[e] = job[e]
         /\ \A e \in Devices : JobRight(e)' /\ job'[e].id <= started'
                              /\ (job'[e].at = "write" => job'[e].word # 0)
  <1>1. /\ job' \in [Devices -> Job] /\ job'[d] = j
        /\ \A e \in Devices \ {d} : job'[e] = job[e]
    BY PutsIs DEF IInv, TypeOK, Puttable
  <1>2. \A e \in Devices : Me(e) \in Nat /\ Me(e) <= started /\ job[e].word \in Nat
                          /\ job[e].word <= made /\ Right(job[e])
    BY JobIs DEF IInv, TypeOK, Me, JobRight, Keys
  <1>3. /\ made \in Nat /\ made' \in Nat /\ made <= made'
        /\ started \in Nat /\ started' \in Nat /\ started <= started'
    BY DEF IInv, TypeOK, Counts, Keys
  <1>4. j.id \in Nat /\ j.id <= started' /\ Right(j) /\ j.word <= made'
    BY <1>2, <1>3, JobIs DEF Puttable
  <1>5. \A e \in Devices : JobRight(e)' /\ job'[e].id <= started'
    <2> SUFFICES ASSUME NEW e \in Devices PROVE JobRight(e)' /\ job'[e].id <= started'
      OBVIOUS
    <2>1. CASE e = d
      BY <1>1, <1>4, <2>1 DEF JobRight
    <2>2. CASE e # d
      BY <1>1, <1>2, <1>3, <2>2 DEF JobRight, Me
    <2> QED  BY <2>1, <2>2
  <1>6. OwnIds'
    <2> SUFFICES ASSUME NEW e \in Devices, NEW f \in Devices,
                        job'[e].id = job'[f].id, job'[e].id # 0
                 PROVE  e = f
      BY DEF OwnIds, Me
    <2>1. \A g \in Devices \ {d} : job'[g].id = Me(g) /\ Me(g) # started + 1
      BY <1>1, <1>2, <1>3 DEF Me
    <2>2. OwnIds
      BY DEF IInv
    <2> QED  BY <1>1, <2>1, <2>2 DEF OwnIds, Puttable, Me
  <1>7. \A e \in Devices : job'[e].at = "write" => job'[e].word # 0
    BY <1>5 DEF JobRight, Right
  <1> QED  BY <1>1, <1>5, <1>6, <1>7

LEMMA LinkTyped ==
  ASSUME IInv, Counts, NEW r \in Jobs
  PROVE  /\ link[r].to \in Nat /\ link[r].parcel \in Nat /\ LinkRight(r) /\ r \in Nat
         /\ made \in Nat /\ made' \in Nat /\ started \in Nat /\ started' \in Nat
  <1>1. link[r] \in Link /\ LinkRight(r)
    BY DEF IInv, TypeOK
  <1>2. link[r].to \in Nat /\ link[r].parcel \in Nat
    BY <1>1, LinkIs DEF Keys
  <1> QED  BY <1>1, <1>2 DEF IInv, TypeOK, Counts, Keys, Jobs

LEMMA LinksKept ==
  ASSUME IInv, Counts, UNCHANGED link
  PROVE  link' \in [Jobs -> Link] /\ OneTry' /\ \A r \in Jobs : LinkRight(r)'
  <1>1. link' = link /\ OneTry /\ link \in [Jobs -> Link]
    BY DEF IInv, TypeOK
  <1>2. OneTry'
    BY <1>1 DEF OneTry
  <1>3. ASSUME NEW r \in Jobs PROVE LinkRight(r)'
    <2>1. /\ link[r].to \in Nat /\ link[r].parcel \in Nat /\ LinkRight(r) /\ r \in Nat
          /\ made \in Nat /\ made' \in Nat /\ started \in Nat /\ started' \in Nat
      BY LinkTyped
    <2> QED  BY <1>1, <2>1 DEF LinkRight, Counts
  <1> QED  BY <1>1, <1>2, <1>3

(* A frame on one connection: nothing that went over it is taken back, and *)
(* what concerns another device's job stays as it was.                     *)
Wireable(d, r, l) ==
  /\ r \in Jobs /\ l \in Link /\ Wires(r, l)
  /\ r <= started' /\ l.to <= started' /\ l.parcel <= made'
  /\ l.parcel # 0 => l.code = l.to
  /\ link[r].to # 0 => l.to = link[r].to /\ l.code = link[r].code /\ (link[r].ack => l.ack)
  /\ l.parcel = link[r].parcel \/ (link[r].to = Me(d) /\ Me(d) # 0)
  /\ \/ "offer" \notin l.proofs
     \/ "offer" \in link[r].proofs /\ l.to = link[r].to
     \/ /\ l.to = Me(d) /\ Me(d) # 0
        /\ \A q \in Jobs : link[q].to = Me(d) => "offer" \notin link[q].proofs
  /\ \A e \in Devices \ {d} : At(e, "receive", "find") => Me(e) # r

LEMMA LinksGrow ==
  ASSUME IInv, Counts, NEW d \in Devices, NEW r, NEW l, Wireable(d, r, l)
  PROVE  /\ link' \in [Jobs -> Link] /\ OneTry' /\ (\A q \in Jobs : LinkRight(q)')
         /\ link'[r] = l /\ \A q \in Jobs \ {r} : link'[q] = link[q]
  <1>1. /\ link' \in [Jobs -> Link] /\ link'[r] = l /\ r \in Jobs
        /\ \A q \in Jobs \ {r} : link'[q] = link[q]
    BY WiresIs DEF IInv, TypeOK, Wireable
  <1>2. OneTry'
    <2> SUFFICES ASSUME NEW p \in Jobs, NEW q \in Jobs, "offer" \in link'[p].proofs,
                        "offer" \in link'[q].proofs, link'[p].to = link'[q].to
                 PROVE  p = q
      BY DEF OneTry
    <2>1. \A x, y \in Jobs :
            "offer" \in link[x].proofs \cap link[y].proofs /\ link[x].to = link[y].to
            => x = y
      BY DEF IInv, OneTry
    <2>2. CASE "offer" \notin l.proofs
      BY <1>1, <2>1, <2>2
    <2>3. CASE "offer" \in link[r].proofs /\ l.to = link[r].to
      BY <1>1, <2>1, <2>3
    <2>4. CASE /\ l.to = Me(d) /\ Me(d) # 0
               /\ \A x \in Jobs : link[x].to = Me(d) => "offer" \notin link[x].proofs
      BY <1>1, <2>1, <2>4
    <2> QED  BY <2>2, <2>3, <2>4 DEF Wireable
  <1>3. ASSUME NEW q \in Jobs PROVE LinkRight(q)'
    <2>1. /\ link[q].to \in Nat /\ link[q].parcel \in Nat /\ LinkRight(q) /\ q \in Nat
          /\ made \in Nat /\ made' \in Nat /\ started \in Nat /\ started' \in Nat
      BY LinkTyped
    <2>2. CASE q = r
      BY <1>1, <2>1, <2>2 DEF LinkRight, Wireable
    <2>3. CASE q # r
      BY <1>1, <2>1, <2>3 DEF LinkRight, Counts
    <2> QED  BY <2>2, <2>3
  <1> QED  BY <1>1, <1>2, <1>3

(* Both ends that do not take this step may rely on the same as before.    *)
OthersPut(d) == \A e \in Devices \ {d} : job'[e] = job[e]

LEMMA MetKept ==
  ASSUME IInv, NEW d \in Devices, OthersPut(d), UNCHANGED link
  PROVE  \A e \in Devices \ {d} : Met(e)'
  BY DEF IInv, OthersPut, Met, Gave, At, Me, Came

LEMMA MetGrow ==
  ASSUME IInv, Counts, NEW d \in Devices, OthersPut(d),
         NEW r, NEW l, Wireable(d, r, l)
  PROVE  \A e \in Devices \ {d} : Met(e)'
  <1> SUFFICES ASSUME NEW e \in Devices \ {d} PROVE Met(e)'
    OBVIOUS
  <1>1. link'[r] = l /\ r \in Jobs /\ \A q \in Jobs \ {r} : link'[q] = link[q]
    BY LinksGrow DEF Wireable
  <1>2. job'[e] = job[e] /\ Met(e) /\ JobRight(e) /\ (Me(e) # 0 => Me(e) # Me(d))
    BY DEF IInv, OwnIds, OthersPut
  <1>3. /\ \A at : At(e, "receive", at) \/ At(e, "offer", at) => Me(e) # 0
        /\ Me(e) \in 0 .. MaxJob
    BY <1>2, JobIs DEF JobRight, Right, At, Me, IInv, TypeOK
  <1>4. At(e, "receive", "find") => Me(e) \in Jobs \ {r}
    BY <1>3, Bounds DEF Wireable, Jobs
  <1>5. CASE At(e, "receive", "find")
    BY <1>1, <1>2, <1>4, <1>5 DEF Met, Gave, At, Me
  <1>6. CASE At(e, "offer", "listen")
    <2>1. ASSUME NEW q \in Jobs, link'[q].to = Me(e) PROVE "offer" \notin link'[q].proofs
      <3>1. \A x \in Jobs : link[x].to = Me(e) => "offer" \notin link[x].proofs
        BY <1>2, <1>6 DEF Met, Came
      <3>2. CASE q = r
        BY <1>1, <1>2, <1>3, <1>6, <2>1, <3>1, <3>2 DEF Wireable
      <3> QED  BY <1>1, <2>1, <3>1, <3>2
    <2> QED  BY <1>2, <1>6, <2>1 DEF Met, Gave, At, Me, Came
  <1>7. CASE At(e, "offer", "agree") \/ Gave(e)
    <2>1. job[e].peer \in Jobs /\ link[job[e].peer].to = Me(e) /\ Me(e) # 0
      BY <1>2, <1>3, <1>7 DEF Met, Gave
    <2>2. LET q == job[e].peer
          IN  /\ link'[q].to = link[q].to /\ link'[q].code = link[q].code
              /\ link'[q].parcel = link[q].parcel /\ (link[q].ack => link'[q].ack)
      BY <1>1, <1>2, <2>1 DEF Wireable
    <2> QED  BY <1>2, <1>7, <2>1, <2>2 DEF Met, Gave, At, Me
  <1> QED  BY <1>2, <1>5, <1>6, <1>7 DEF Met, Gave, At

LEMMA TurnedKept ==
  ASSUME IInv, NEW d \in Devices, OthersPut(d), Turned(d)',
         \A e \in Devices \ {d} : key'[e] = key[e] /\ turned'[e] = turned[e]
  PROVE  \A e \in Devices : Turned(e)'
  BY DEF IInv, OthersPut, Turned, Moving, At
-----------------------------------------------------------------------------
(* One step                                                                *)

RestTyped ==
  /\ key' \in [Devices -> Keys] /\ handle' \in [Devices -> 0 .. MaxJob]
  /\ exchange' \in [Devices -> Keys] /\ folders' \subseteq Devices \X (Keys \ {0})
  /\ faults' \in 0 .. MaxFault /\ turned' \in [Devices -> [from : Keys, to : Keys]]
  /\ \A e \in Devices : key'[e] <= made' /\ exchange'[e] <= made'

OthersKeep(d) == \A e \in Devices \ {d} : key'[e] = key[e] /\ turned'[e] = turned[e]

Linked(d) == UNCHANGED link \/ \E r, l : Wireable(d, r, l)

LEMMA StepInv ==
  ASSUME IInv, Counts, RestTyped, NEW d \in Devices, NEW j, Puttable(d, j), Linked(d),
         OthersKeep(d), Met(d)', Turned(d)'
  PROVE  IInv'
  <1>1. /\ job' \in [Devices -> Job] /\ OwnIds' /\ OthersPut(d)
        /\ \A e \in Devices : JobRight(e)' /\ job'[e].id <= started'
                              /\ (job'[e].at = "write" => job'[e].word # 0)
    BY Slots DEF OthersPut
  <1>2. /\ link' \in [Jobs -> Link] /\ OneTry' /\ (\A q \in Jobs : LinkRight(q)')
        /\ \A e \in Devices \ {d} : Met(e)'
    BY <1>1, LinksKept, LinksGrow, MetKept, MetGrow DEF Linked
  <1>3. \A e \in Devices : Turned(e)'
    BY <1>1, TurnedKept DEF OthersKeep
  <1>4. TypeOK'
    BY <1>1, <1>2 DEF TypeOK, RestTyped, Counts
  <1> QED  BY <1>1, <1>2, <1>3, <1>4 DEF IInv

(* What else a step may change, and of one device only.                    *)
Turns == [from : Keys, to : Keys]
KeyMoves(d)    == UNCHANGED key \/ \E k \in Keys : k <= made' /\ Written(d, k)
HandleMoves(d) == UNCHANGED handle \/ \E h \in 0 .. MaxJob : Handle(d, h)
ExchangeMoves(d) ==
  \/ UNCHANGED exchange
  \/ \E k \in Keys : k <= made' /\ exchange' = [exchange EXCEPT ![d] = k]
TurnMoves(d) == UNCHANGED turned \/ \E t \in Turns : turned' = [turned EXCEPT ![d] = t]

LEMMA RestMoves ==
  ASSUME IInv, Counts, NEW d \in Devices, KeyMoves(d), HandleMoves(d), ExchangeMoves(d),
         TurnMoves(d), folders' \subseteq Devices \X (Keys \ {0}), Sound \/ Faulty
  PROVE  RestTyped /\ OthersKeep(d)
  <1>1. faults' \in 0 .. MaxFault
    BY Bounds DEF IInv, TypeOK, Sound, Faulty
  <1>2. /\ made \in Nat /\ made' \in Nat /\ made <= made'
        /\ \A e \in Devices : key[e] \in Nat /\ exchange[e] \in Nat
                             /\ key[e] <= made /\ exchange[e] <= made
    BY DEF IInv, TypeOK, Counts, Keys
  <1>3. /\ key' \in [Devices -> Keys]
        /\ \A e \in Devices : key'[e] <= made' /\ (e # d => key'[e] = key[e])
    BY <1>2 DEF IInv, TypeOK, KeyMoves, Written
  <1>4. exchange' \in [Devices -> Keys] /\ \A e \in Devices : exchange'[e] <= made'
    <2>1. exchange \in [Devices -> Keys]
      BY DEF IInv, TypeOK
    <2>2. CASE UNCHANGED exchange
      BY <1>2, <2>1, <2>2
    <2>3. CASE \E k \in Keys : k <= made' /\ exchange' = [exchange EXCEPT ![d] = k]
      <3>1. PICK k \in Keys : k <= made' /\ exchange' = [exchange EXCEPT ![d] = k]
        BY <2>3
      <3> QED  BY <1>2, <2>1, <3>1
    <2> QED  BY <2>2, <2>3 DEF ExchangeMoves
  <1>5. handle' \in [Devices -> 0 .. MaxJob]
    BY DEF IInv, TypeOK, HandleMoves, Handle
  <1>6. turned' \in [Devices -> Turns] /\ \A e \in Devices : e # d => turned'[e] = turned[e]
    BY DEF IInv, TypeOK, TurnMoves, Turns
  <1> QED  BY <1>1, <1>3, <1>4, <1>5, <1>6 DEF RestTyped, OthersKeep, Turns

(* A step that leaves everything but a job, a connection, the folders and  *)
(* the faults alone.                                                       *)
LEMMA RestKept ==
  ASSUME IInv, UNCHANGED <<key, made, started, handle, exchange, turned>>,
         folders' \subseteq Devices \X (Keys \ {0}), Sound \/ Faulty, NEW d \in Devices
  PROVE  RestTyped /\ Counts /\ OthersKeep(d)
  BY RestMoves, CountsIs DEF KeyMoves, HandleMoves, ExchangeMoves, TurnMoves

LEMMA JobTyped == IInv => \A d \in Devices : job[d] \in Job
  BY DEF IInv, TypeOK

LEMMA MineGoes ==
  ASSUME IInv, NEW d \in Devices,
         NEW at \in {"agree", "parcel", "confirm", "write", "clear", "second"}
  PROVE  LET j == [job[d] EXCEPT !.at = at]
         IN  /\ Same(j, job[d]) /\ j.at = at /\ j.word = job[d].word
             /\ j.peer = job[d].peer /\ j.ok = job[d].ok
  <1>1. job[d] \in Job
    BY JobTyped
  <1>2. at \in Places
    BY DEF Places
  <1> QED  BY <1>1, <1>2, GoesIs

LEMMA MineIs ==
  ASSUME IInv, NEW d \in Devices
  PROVE  /\ job[d] \in Job /\ Right(job[d]) /\ job[d].word <= made /\ job[d].word \in Keys
         /\ Me(d) \in 0 .. MaxJob /\ Me(d) <= started /\ job[d].at \in Places
         /\ job[d].ok \in BOOLEAN /\ made \in Nat /\ started \in Nat
         /\ Met(d) /\ Turned(d)
         /\ (job[d].kind # "none" => Me(d) # 0 /\ Me(d) \in Jobs)
  <1>1. /\ job[d] \in Job /\ Right(job[d]) /\ job[d].word <= made /\ Met(d) /\ Turned(d)
        /\ Me(d) <= started
    BY DEF IInv, TypeOK, JobRight, Me
  <1>2. made \in Nat /\ started \in Nat
    BY DEF IInv, TypeOK, Keys
  <1>3. job[d].kind # "none" => Me(d) # 0 /\ Me(d) \in Jobs
    BY <1>1, JobIs, Bounds DEF Right, Me, Jobs
  <1> QED  BY <1>1, <1>2, <1>3, JobIs DEF Me

(* The worker goes on, or ends, and nothing has gone over the connection.  *)
LEMMA EndsInv ==
  ASSUME IInv, NEW d \in Devices, Ends(d, FALSE), ~Moving(d),
         UNCHANGED <<key, link, turned, unmoved>>,
         folders' \subseteq Devices \X (Keys \ {0}), Sound \/ Faulty
  PROVE  IInv'
  <1> DEFINE j == [job[d] EXCEPT !.at = "ended", !.ok = FALSE]
  <1>1. RestTyped /\ Counts /\ OthersKeep(d)
    BY RestKept DEF unmoved
  <1>2. Puts(d, j)
    BY DEF Ends, Puts
  <1>3. Same(j, job[d]) /\ j.at = "ended" /\ j.word = job[d].word /\ j.ok = FALSE
    BY JobTyped, EndsIs
  <1> HIDE DEF j
  <1>4. Puttable(d, j)
    BY <1>2, <1>3, MineIs DEF Puttable, Right, Same, Me, unmoved
  <1>5. job'[d] = j
    BY <1>1, <1>4, Slots
  <1>6. Met(d)'
    BY <1>3, <1>5 DEF Met, Gave, At
  <1>7. Turned(d)'
    BY <1>3, <1>5, MineIs DEF Turned, Moving, At
  <1> QED  BY <1>1, <1>4, <1>6, <1>7, StepInv DEF Linked

(* It goes on to a place nothing is relied on at.                          *)
LEMMA GoesInv ==
  ASSUME IInv, NEW d \in Devices, NEW at \in {"parcel", "clear"}, Goes(d, at),
         \/ At(d, "receive", "agree") /\ at = "parcel"
         \/ At(d, "rotate", "first") /\ at = "clear",
         UNCHANGED <<key, link, turned, unmoved>>,
         folders' \subseteq Devices \X (Keys \ {0}), Sound \/ Faulty
  PROVE  IInv'
  <1> DEFINE j == [job[d] EXCEPT !.at = at]
  <1>1. RestTyped /\ Counts /\ OthersKeep(d)
    BY RestKept DEF unmoved
  <1>2. Puts(d, j)
    BY DEF Goes, Puts
  <1>3. Same(j, job[d]) /\ j.at = at /\ j.word = job[d].word
    <2>1. at \in {"agree", "parcel", "confirm", "write", "clear", "second"}
      OBVIOUS
    <2> QED  BY <2>1, MineGoes
  <1> HIDE DEF j
  <1>4. Puttable(d, j)
    BY <1>2, <1>3, MineIs DEF Puttable, Right, Same, Me, unmoved, At
  <1>5. job'[d] = j
    BY <1>1, <1>4, Slots
  <1>6. Met(d)'
    BY <1>3, <1>5 DEF Met, Gave, At
  <1>7. Turned(d)'
    BY <1>3, <1>5, MineIs DEF Turned, Moving, At, Same
  <1> QED  BY <1>1, <1>4, <1>6, <1>7, StepInv DEF Linked

LEMMA AcceptInv == ASSUME IInv, NEW d \in Devices, Accept(d) PROVE IInv'
  <1>1. PICK r \in Came(d) :
          /\ job' = [job EXCEPT ![d].at = "agree", ![d].peer = r]
          /\ link' = [link EXCEPT ![r].proofs = @ \cup {"offer"}]
    BY DEF Accept
  <1> DEFINE j == [job[d] EXCEPT !.at = "agree", !.peer = r]
             l == [link[r] EXCEPT !.proofs = @ \cup {"offer"}]
  <1>2. RestTyped /\ Counts /\ OthersKeep(d) /\ At(d, "offer", "listen")
    <2>1. folders' \subseteq Devices \X (Keys \ {0})
      BY DEF Accept, IInv, TypeOK
    <2> QED  BY <2>1, RestKept DEF Accept, Sound, unmoved
  <1>3. Puts(d, j) /\ Wires(r, l)
    BY <1>1 DEF Puts, Wires
  <1>4. /\ r \in Jobs /\ link[r].to = Me(d) /\ link[r] \in Link /\ LinkRight(r)
        /\ \A q \in Jobs : link[q].to = Me(d) => "offer" \notin link[q].proofs
    BY <1>1, <1>2, MineIs DEF IInv, TypeOK, Came, Met
  <1>5. Same(j, job[d]) /\ j.at = "agree" /\ j.word = job[d].word /\ j.peer = r
    BY <1>4, JobTyped, AcceptsIs
  <1>6. /\ l \in Link /\ l.code = link[r].code /\ l.to = Me(d)
        /\ l.parcel = link[r].parcel /\ l.ack = link[r].ack
    BY <1>4 DEF Link
  <1> HIDE DEF j, l
  <1>7. Puttable(d, j)
    BY <1>2, <1>3, <1>5, MineIs DEF Puttable, Right, Same, Me, Accept, At, unmoved
  <1>8. Wireable(d, r, l)
    <2>1. Me(d) # 0 /\ made' = made /\ started' = started
      BY <1>2, MineIs DEF At, Accept, unmoved
    <2>2. r <= started /\ l.to <= started /\ l.parcel <= made
      <3>1. r \in Nat /\ started \in Nat
        BY <1>4, MineIs DEF Jobs
      <3>2. r > started => link[r].to = 0
        BY <1>4, NoLinkIs DEF LinkRight
      <3> QED  BY <1>4, <1>6, <2>1, <3>1, <3>2 DEF LinkRight
    <2>3. \A e \in Devices \ {d} : At(e, "receive", "find") => Me(e) # r
      BY <1>4, <2>1 DEF IInv, Met
    <2> QED  BY <1>3, <1>4, <1>6, <2>1, <2>2, <2>3 DEF Wireable, LinkRight
  <1>9. job'[d] = j /\ link'[r] = l
    BY <1>2, <1>7, <1>8, Slots, LinksGrow
  <1>10. Met(d)'
    BY <1>2, <1>4, <1>5, <1>6, <1>9 DEF Met, Gave, At, Me, Same
  <1>11. Turned(d)'
    BY <1>2, <1>5, <1>9, MineIs DEF Turned, Moving, At, Same, Accept
  <1> QED  BY <1>2, <1>7, <1>8, <1>10, <1>11, StepInv DEF Linked

LEMMA OfferAgreesInv == ASSUME IInv, NEW d \in Devices, OfferAgrees(d) PROVE IInv'
  <1> DEFINE r == job[d].peer
             j == [job[d] EXCEPT !.at = "confirm"]
             l == [link[r] EXCEPT !.parcel = job[d].word]
  <1>1. folders' \subseteq Devices \X (Keys \ {0})
    BY DEF OfferAgrees, IInv, TypeOK
  <1>2. RestTyped /\ Counts /\ OthersKeep(d) /\ At(d, "offer", "agree")
    BY <1>1, RestKept DEF OfferAgrees, Sound, unmoved
  <1>3. CASE ~Agreed(r)
    BY <1>1, <1>2, <1>3, EndsInv DEF OfferAgrees, Sound, Moving, At, unmoved
  <1>4. CASE Agreed(r)
    <2>1. Puts(d, j) /\ Wires(r, l)
      BY <1>4 DEF OfferAgrees, Goes, Puts, Wires
    <2>2. r \in Jobs /\ link[r].to = Me(d) /\ link[r].code = Me(d) /\ link[r] \in Link
      <3>1. r \in Jobs /\ link[r].to = Me(d)
        BY <1>2 DEF IInv, Met
      <3> QED  BY <1>4, <3>1 DEF IInv, TypeOK, Agreed
    <2>3. Same(j, job[d]) /\ j.at = "confirm" /\ j.word = job[d].word /\ j.peer = r
      BY MineGoes
    <2>4. /\ l \in Link /\ l.code = Me(d) /\ l.to = Me(d) /\ l.proofs = link[r].proofs
          /\ l.parcel = job[d].word /\ l.ack = link[r].ack
      BY <2>2, MineIs DEF Link
    <2> HIDE DEF j, l, r
    <2>5. Puttable(d, j)
      BY <1>2, <2>1, <2>3, MineIs DEF Puttable, Right, Same, Me, OfferAgrees, At, unmoved
    <2>6. Wireable(d, r, l)
      <3>1. Me(d) # 0 /\ made' = made /\ started' = started /\ Me(d) <= started
        BY <1>2, MineIs DEF At, OfferAgrees, unmoved
      <3>2. r <= started
        <4>1. r \in Nat /\ started \in Nat
          BY <2>2, MineIs DEF Jobs
        <4>2. r > started => link[r].to = 0
          BY <2>2, NoLinkIs DEF IInv, LinkRight
        <4> QED  BY <2>2, <3>1, <4>1, <4>2
      <3>3. \A e \in Devices \ {d} : At(e, "receive", "find") => Me(e) # r
        BY <2>2, <3>1 DEF IInv, Met
      <3> QED  BY <2>1, <2>2, <2>4, <3>1, <3>2, <3>3, MineIs DEF Wireable
    <2>7. job'[d] = j /\ link'[r] = l
      BY <1>2, <2>5, <2>6, Slots, LinksGrow
    <2>8. Met(d)'
      BY <1>2, <2>2, <2>3, <2>4, <2>7 DEF Met, Gave, At, Me, Same
    <2>9. Turned(d)'
      BY <1>2, <2>3, <2>7, MineIs DEF Turned, Moving, At, Same, OfferAgrees
    <2> QED  BY <1>2, <2>5, <2>6, <2>8, <2>9, StepInv DEF Linked
  <1> QED  BY <1>3, <1>4

LEMMA FoldersTyped ==
  ASSUME IInv
  PROVE  /\ folders \subseteq Devices \X (Keys \ {0})
         /\ \A d \in Devices, k \in Keys \ {0} :
              folders \cup {<<d, k>>} \subseteq Devices \X (Keys \ {0})
  BY DEF IInv, TypeOK

LEMMA ConfirmedInv == ASSUME IInv, NEW d \in Devices, Confirmed(d) PROVE IInv'
  <1> DEFINE j == [job[d] EXCEPT !.at = "ended", !.ok = TRUE]
  <1>1. RestTyped /\ Counts /\ OthersKeep(d) /\ At(d, "offer", "confirm")
    BY FoldersTyped, RestKept DEF Confirmed, Sound, unmoved
  <1>2. Puts(d, j)
    BY DEF Confirmed, Ends, Puts
  <1>3. Same(j, job[d]) /\ j.at = "ended" /\ j.word = job[d].word /\ j.peer = job[d].peer
    BY JobTyped, EndsIs
  <1> HIDE DEF j
  <1>4. Puttable(d, j)
    BY <1>1, <1>2, <1>3, MineIs DEF Puttable, Right, Same, Me, Confirmed, At, unmoved
  <1>5. job'[d] = j
    BY <1>1, <1>4, Slots
  <1>6. Met(d)'
    BY <1>1, <1>3, <1>5, MineIs DEF Met, Gave, At, Me, Same, Confirmed
  <1>7. Turned(d)'
    BY <1>1, <1>3, <1>5, MineIs DEF Turned, Moving, At, Same, Confirmed
  <1> QED  BY <1>1, <1>4, <1>6, <1>7, StepInv DEF Linked, Confirmed

LEMMA ConnectInv == ASSUME IInv, NEW d \in Devices, Connect(d) PROVE IInv'
  <1>1. PICK e \in Devices \ {d} :
          /\ job[e].kind = "offer" /\ Running(e)
          /\ link' = [link EXCEPT ![Me(d)].to = Me(e), ![Me(d)].proofs = {"receive"}]
    BY DEF Connect
  <1> DEFINE r == Me(d)
             j == [job[d] EXCEPT !.at = "agree"]
             l == [link[r] EXCEPT !.to = Me(e), !.proofs = {"receive"}]
  <1>2. RestTyped /\ Counts /\ OthersKeep(d) /\ At(d, "receive", "find")
    BY FoldersTyped, RestKept DEF Connect, Sound, unmoved
  <1>3. Puts(d, j) /\ Wires(r, l)
    BY <1>1 DEF Connect, Goes, Puts, Wires
  <1>4. /\ r \in Jobs /\ r # 0 /\ link[r] \in Link /\ link[r].to = 0
        /\ link[r].parcel = 0 /\ r <= started
    <2>1. r \in Jobs /\ r # 0 /\ r <= started
      BY <1>2, MineIs DEF At
    <2>2. link[r].to = 0 /\ link[r].parcel = 0
      BY <1>2 DEF IInv, Met
    <2>3. link \in [Jobs -> Link]
      BY DEF IInv, TypeOK
    <2> QED  BY <2>1, <2>2, <2>3
  <1>5. Same(j, job[d]) /\ j.at = "agree" /\ j.word = job[d].word
    BY MineGoes
  <1>6. l \in Link /\ l.to = Me(e) /\ l.proofs = {"receive"} /\ l.parcel = 0
    BY <1>4, MineIs DEF Link
  <1> HIDE DEF j, l, r
  <1>7. Puttable(d, j)
    BY <1>2, <1>3, <1>5, MineIs DEF Puttable, Right, Same, Me, Connect, At, unmoved
  <1>8. Wireable(d, r, l)
    <2>1. made' = made /\ started' = started
      BY DEF Connect, unmoved
    <2>2. Me(e) <= started /\ 0 <= made
      BY MineIs
    <2>3. \A f \in Devices \ {d} : Me(f) # r
      BY <1>4 DEF IInv, OwnIds, r
    <2> QED  BY <1>3, <1>4, <1>6, <2>1, <2>2, <2>3 DEF Wireable
  <1>9. job'[d] = j
    BY <1>2, <1>7, Slots
  <1>10. Met(d)'
    BY <1>2, <1>5, <1>9 DEF Met, Gave, At, Same
  <1>11. Turned(d)'
    BY <1>2, <1>5, <1>9, MineIs DEF Turned, Moving, At, Same, Connect
  <1> QED  BY <1>2, <1>7, <1>8, <1>10, <1>11, StepInv DEF Linked

LEMMA OpenInv == ASSUME IInv, NEW d \in Devices, Open(d) PROVE IInv'
  <1> DEFINE r == Me(d)
             j == [job[d] EXCEPT !.at = "write", !.word = link[r].parcel]
             l == [link[r] EXCEPT !.ack = TRUE]
  <1>1. RestTyped /\ Counts /\ OthersKeep(d) /\ At(d, "receive", "parcel")
    BY FoldersTyped, RestKept DEF Open, Sound, unmoved
  <1>2. Puts(d, j) /\ Wires(r, l)
    BY DEF Open, Puts, Wires
  <1>3. /\ r \in Jobs /\ r # 0 /\ link[r] \in Link /\ r <= started /\ LinkRight(r)
        /\ link[r].parcel \in Keys /\ link[r].parcel # 0 /\ link[r].parcel <= made
    <2>1. r \in Jobs /\ r # 0 /\ r <= started
      BY <1>1, MineIs DEF At
    <2> QED  BY <2>1, LinkIs DEF IInv, TypeOK, LinkRight, Open
  <1>4. Same(j, job[d]) /\ j.at = "write" /\ j.word = link[r].parcel
    BY <1>3, JobTyped, OpensIs
  <1>5. /\ l \in Link /\ l.code = link[r].code /\ l.to = link[r].to
        /\ l.proofs = link[r].proofs /\ l.parcel = link[r].parcel /\ l.ack = TRUE
    BY <1>3 DEF Link
  <1> HIDE DEF j, l, r
  <1>6. Puttable(d, j)
    BY <1>1, <1>2, <1>3, <1>4, MineIs DEF Puttable, Right, Same, Me, Open, At, unmoved
  <1>7. Wireable(d, r, l)
    <2>1. made' = made /\ started' = started
      BY DEF Open, unmoved
    <2>2. \A f \in Devices \ {d} : Me(f) # r
      BY <1>3 DEF IInv, OwnIds, r
    <2> QED  BY <1>2, <1>3, <1>5, <2>1, <2>2 DEF Wireable, LinkRight
  <1>8. job'[d] = j
    BY <1>1, <1>6, Slots
  <1>9. Met(d)'
    BY <1>1, <1>4, <1>8 DEF Met, Gave, At, Same
  <1>10. Turned(d)'
    BY <1>1, <1>4, <1>8, MineIs DEF Turned, Moving, At, Same, Open
  <1> QED  BY <1>1, <1>6, <1>7, <1>9, <1>10, StepInv DEF Linked

LEMMA FirstRoundInv == ASSUME IInv, NEW d \in Devices, FirstRound(d) PROVE IInv'
  <1>1. job[d].old \in Keys \ {0}
    BY MineIs, JobIs DEF FirstRound, At, Right
  <1>2. folders' \subseteq Devices \X (Keys \ {0})
    BY <1>1, FoldersTyped DEF FirstRound, Published
  <1>3. CASE Goes(d, "clear") /\ Sound
    BY <1>2, <1>3, GoesInv DEF FirstRound, unmoved
  <1>4. CASE Ends(d, FALSE) /\ Faulty
    BY <1>2, <1>4, EndsInv DEF FirstRound, Moving, At, unmoved
  <1> QED  BY <1>3, <1>4 DEF FirstRound

LEMMA ClearInv == ASSUME IInv, NEW d \in Devices, Clear(d) PROVE IInv'
  <1> DEFINE j == [job[d] EXCEPT !.at = "second"]
             t == [from |-> IF <<d, job[d].old>> \in folders' THEN 0 ELSE job[d].old,
                   to |-> job[d].word]
  <1>1. t \in Turns /\ t.to = job[d].word
    BY MineIs, JobIs, Bounds DEF Turns
  <1>2. turned' = [turned EXCEPT ![d] = t]
    BY DEF Clear
  <1> HIDE DEF t
  <1>3. folders' \subseteq Devices \X (Keys \ {0})
    BY FoldersTyped DEF Clear
  <1>4. (Sound \/ Faulty) /\ UNCHANGED <<key, link, unmoved>> /\ At(d, "rotate", "first") = FALSE
        /\ At(d, "rotate", "clear")
    BY DEF Clear, At
  <1>5. RestTyped /\ Counts /\ OthersKeep(d)
    <2>1. Counts
      BY <1>4, CountsIs DEF unmoved
    <2>2. KeyMoves(d) /\ HandleMoves(d) /\ ExchangeMoves(d) /\ TurnMoves(d)
      BY <1>1, <1>2, <1>4 DEF unmoved, KeyMoves, HandleMoves, ExchangeMoves, TurnMoves
    <2> QED  BY <1>3, <1>4, <2>1, <2>2, RestMoves
  <1>6. Puts(d, j)
    BY DEF Clear, Goes, Puts
  <1>7. Same(j, job[d]) /\ j.at = "second" /\ j.word = job[d].word
    BY MineGoes
  <1> HIDE DEF j
  <1>8. Puttable(d, j)
    BY <1>4, <1>6, <1>7, MineIs DEF Puttable, Right, Same, Me, At, unmoved
  <1>9. job'[d] = j
    BY <1>5, <1>8, Slots
  <1>10. Met(d)'
    BY <1>4, <1>7, <1>9 DEF Met, Gave, At, Same
  <1>11. Turned(d)'
    <2>1. turned'[d] = t
      BY <1>2 DEF IInv, TypeOK
    <2> QED  BY <1>1, <1>4, <1>7, <1>9, <2>1 DEF Turned, Moving, At, Same
  <1> QED  BY <1>4, <1>5, <1>8, <1>10, <1>11, StepInv DEF Linked

LEMMA SecondRoundInv == ASSUME IInv, NEW d \in Devices, SecondRound(d) PROVE IInv'
  <1> DEFINE j == [job[d] EXCEPT !.at = "write"]
  <1>1. job[d].word \in Keys \ {0} /\ At(d, "rotate", "second")
    BY MineIs, JobIs DEF SecondRound, At, Right
  <1>2. RestTyped /\ Counts /\ OthersKeep(d)
    <2>1. folders' \subseteq Devices \X (Keys \ {0})
      BY <1>1, FoldersTyped DEF SecondRound, Published
    <2> QED  BY <2>1, RestKept DEF SecondRound, unmoved
  <1>3. Puts(d, j)
    BY DEF SecondRound, Goes, Puts
  <1>4. Same(j, job[d]) /\ j.at = "write" /\ j.word = job[d].word
    BY MineGoes
  <1> HIDE DEF j
  <1>5. Puttable(d, j)
    BY <1>1, <1>3, <1>4, MineIs DEF Puttable, Right, Same, Me, At, SecondRound, unmoved
  <1>6. job'[d] = j
    BY <1>2, <1>5, Slots
  <1>7. Met(d)'
    BY <1>1, <1>4, <1>6 DEF Met, Gave, At, Same
  <1>8. Turned(d)'
    BY <1>1, <1>4, <1>6, MineIs DEF Turned, Moving, At, Same, SecondRound
  <1> QED  BY <1>2, <1>5, <1>7, <1>8, StepInv DEF Linked, SecondRound

(* The word of a job is written, unless the write fails: then there is     *)
(* nothing to keep to any more.                                            *)
LEMMA WriteInv == ASSUME IInv, NEW d \in Devices, Write(d) PROVE IInv'
  <1> DEFINE j == [job[d] EXCEPT !.at = "ended", !.ok = TRUE]
             w == job[d].word
  <1>1. /\ w \in Keys \ {0} /\ w <= made /\ job[d].at = "write" /\ made' = made
        /\ job[d].kind \in {"receive", "rotate"}
    BY MineIs, JobIs DEF Write, Right, unmoved
  <1>2. NotTurned \in Turns /\ NotTurned.to = 0
    BY Bounds DEF NotTurned, Turns
  <1>3. RestTyped /\ Counts /\ OthersKeep(d)
    <2>1. Counts
      BY CountsIs DEF Write, unmoved
    <2>2. KeyMoves(d) /\ (Sound \/ Faulty)
      BY <1>1 DEF Write, Kept, WriteKey, KeyMoves
    <2>3. HandleMoves(d) /\ ExchangeMoves(d) /\ TurnMoves(d)
      BY <1>2 DEF Write, unmoved, HandleMoves, ExchangeMoves, TurnMoves
    <2> QED  BY <2>1, <2>2, <2>3, RestMoves, FoldersTyped DEF Write
  <1>4. Puts(d, j)
    BY DEF Write, Ends, Puts
  <1>5. Same(j, job[d]) /\ j.at = "ended" /\ j.word = w
    BY JobTyped, EndsIs
  <1> HIDE DEF j
  <1>6. Puttable(d, j)
    BY <1>1, <1>4, <1>5, MineIs DEF Puttable, Right, Same, Me, Write, unmoved
  <1>7. job'[d] = j
    BY <1>3, <1>6, Slots
  <1>8. Met(d)'
    BY <1>1, <1>5, <1>7 DEF Met, Gave, At, Same
  <1>9. Turned(d)'
    <2>1. ~Moving(d)'
      BY <1>5, <1>7 DEF Moving, At
    <2>2. turned \in [Devices -> [from : Keys, to : Keys]] /\ key \in [Devices -> Keys]
      BY DEF IInv, TypeOK
    <2>3. CASE turned' = [turned EXCEPT ![d] = NotTurned]
      BY <1>2, <2>2, <2>3 DEF Turned
    <2>4. CASE UNCHANGED turned /\ job[d].kind = "rotate" /\ faults' = faults
      <3>1. key' = [key EXCEPT ![d] = w]
        <4>1. faults + 1 # faults
          BY DEF IInv, TypeOK
        <4> QED  BY <2>4, <4>1 DEF Write, Kept, WriteKey, Faulty, Written
      <3>2. turned[d].to # 0 => turned[d].to = w
        BY <1>1, <2>4, MineIs DEF Turned, Moving, At
      <3> QED  BY <2>1, <2>2, <2>4, <3>1, <3>2 DEF Turned
    <2> QED  BY <1>1, <2>3, <2>4 DEF Write
  <1> QED  BY <1>3, <1>6, <1>8, <1>9, StepInv DEF Linked, Write

LEMMA WorkerInv == ASSUME IInv, NEW d \in Devices, Worker(d) \/ Lapse(d) PROVE IInv'
  <1>1. CASE Look(d) \/ Lapse(d)
    BY <1>1, EndsInv, FoldersTyped DEF Look, Lapse, Moving, At, Sound, unmoved
  <1>2. CASE GiveUp(d)
    BY <1>2, EndsInv, FoldersTyped DEF GiveUp, Moving, At, Sound, unmoved
  <1>3. CASE ReceiveAgrees(d)
    <2>1. CASE Goes(d, "parcel")
      BY <1>3, <2>1, GoesInv, FoldersTyped DEF ReceiveAgrees, Sound, unmoved
    <2>2. CASE Ends(d, FALSE)
      BY <1>3, <2>2, EndsInv, FoldersTyped DEF ReceiveAgrees, Moving, At, Sound, unmoved
    <2> QED  BY <1>3, <2>1, <2>2 DEF ReceiveAgrees
  <1> QED
    BY <1>1, <1>2, <1>3, AcceptInv, OfferAgreesInv, ConfirmedInv, ConnectInv, OpenInv,
       FirstRoundInv, ClearInv, SecondRoundInv, WriteInv DEF Worker
-----------------------------------------------------------------------------
(* The terminals, the exchange and the key by hand                         *)

(* Whatever becomes of the key, the last rotation is forgotten with it.    *)
TurnRight(d) ==
  \/ UNCHANGED <<key, turned>>
  \/ turned' = [turned EXCEPT ![d] = NotTurned]

LEMMA NotTurnedIs == NotTurned \in Turns /\ NotTurned.to = 0
  BY Bounds DEF NotTurned, Turns

LEMMA TurnRightIs ==
  ASSUME IInv, NEW d \in Devices, TurnRight(d), ~Moving(d)' \/ job'[d] = job[d],
         ~Moving(d) \/ job'[d] = job[d] \/ turned' = [turned EXCEPT ![d] = NotTurned]
  PROVE  Turned(d)' /\ TurnMoves(d)
  <1>1. turned \in [Devices -> [from : Keys, to : Keys]] /\ Turned(d)
    BY DEF IInv, TypeOK
  <1>2. CASE turned' = [turned EXCEPT ![d] = NotTurned]
    <2>1. turned'[d] = NotTurned
      BY <1>1, <1>2
    <2> QED  BY <1>2, <2>1, NotTurnedIs DEF TurnMoves, Turned
  <1>3. CASE UNCHANGED <<key, turned>> /\ job'[d] = job[d]
    BY <1>1, <1>3 DEF Turned, Moving, At, TurnMoves
  <1>4. CASE UNCHANGED <<key, turned>> /\ ~Moving(d) /\ ~Moving(d)'
    BY <1>1, <1>4 DEF Turned, TurnMoves
  <1> QED  BY <1>2, <1>3, <1>4 DEF TurnRight

LEMMA StillInv ==
  ASSUME IInv, Counts, NEW d \in Devices, KeyMoves(d), HandleMoves(d), ExchangeMoves(d),
         TurnRight(d), folders' \subseteq Devices \X (Keys \ {0}), Sound \/ Faulty,
         UNCHANGED <<job, link>>
  PROVE  IInv'
  <1>1. Puts(d, job[d])
    BY DEF IInv, TypeOK, Puts
  <1>2. job[d].word <= made'
    BY MineIs DEF Counts, Keys
  <1>3. Puttable(d, job[d])
    BY <1>1, <1>2, MineIs DEF Puttable, Me
  <1>4. Met(d)'
    BY MineIs DEF Met, Gave, At, Me, Came
  <1>5. Turned(d)' /\ TurnMoves(d)
    BY TurnRightIs
  <1>6. RestTyped /\ OthersKeep(d)
    BY <1>5, RestMoves
  <1> QED  BY <1>3, <1>4, <1>5, <1>6, StepInv DEF Linked

LEMMA FreedInv ==
  ASSUME IInv, Counts, NEW d \in Devices, KeyMoves(d), HandleMoves(d), ExchangeMoves(d),
         TurnRight(d), folders' \subseteq Devices \X (Keys \ {0}), Sound \/ Faulty,
         UNCHANGED link, job' = [job EXCEPT ![d] = NoJob],
         ~Moving(d) \/ turned' = [turned EXCEPT ![d] = NotTurned]
  PROVE  IInv'
  <1>1. 0 <= made'
    BY DEF Counts, Keys
  <1>2. Puttable(d, NoJob)
    BY <1>1, NoJobIs DEF Puttable, Puts, Right
  <1>3. job'[d] = NoJob
    BY <1>2, Slots
  <1>4. Met(d)' /\ ~Moving(d)'
    BY <1>3, NoJobIs DEF Met, Gave, At, Moving
  <1>5. Turned(d)' /\ TurnMoves(d)
    BY <1>4, TurnRightIs
  <1>6. RestTyped /\ OthersKeep(d)
    BY <1>5, RestMoves
  <1> QED  BY <1>2, <1>4, <1>5, <1>6, StepInv DEF Linked

(* A job that begins: nothing went over a connection of its number yet,    *)
(* and none was made to it.                                                *)
Begins(j) ==
  /\ j.id = started' /\ j.word <= made' /\ j.ok = FALSE
  /\ \/ j.kind = "offer" /\ j.at = "listen"
     \/ j.kind = "receive" /\ j.at = "find"
     \/ j.kind = "rotate" /\ j.at = "first" /\ j.old # 0 /\ j.word # 0

LEMMA BegunInv ==
  ASSUME IInv, Counts, NEW d \in Devices, KeyMoves(d), HandleMoves(d), ExchangeMoves(d),
         TurnRight(d), folders' \subseteq Devices \X (Keys \ {0}), Sound \/ Faulty,
         ~Running(d), started' = started + 1, NEW j \in Job, Begins(j), Puts(d, j),
         \/ UNCHANGED link /\ j.kind = "rotate"
         \/ \E c \in 0 .. MaxJob : link' = [link EXCEPT ![started'].code = c]
  PROVE  IInv'
  <1>1. /\ started' \in Jobs /\ started' > started /\ started' # 0 /\ started \in Nat
        /\ \A r \in Jobs : link[r].to <= started /\ link[r].to \in Nat
    <2>1. started \in Nat /\ started' \in 0 .. MaxJob
      BY MineIs DEF Counts
    <2>2. \A r \in Jobs : link[r].to <= started /\ link[r].to \in Nat
      BY LinkIs DEF IInv, TypeOK, LinkRight
    <2> QED  BY <2>1, <2>2, Bounds DEF Jobs
  <1>2. Puttable(d, j)
    BY <1>1 DEF Puttable, Begins, Right
  <1>3. job'[d] = j
    BY <1>2, Slots
  <1>4. link[started'] = NoLink
    BY <1>1 DEF IInv, LinkRight
  <1>5. ASSUME \E c \in 0 .. MaxJob : link' = [link EXCEPT ![started'].code = c]
        PROVE  Met(d)' /\ Linked(d)
    <2>1. PICK c \in 0 .. MaxJob : link' = [link EXCEPT ![started'].code = c]
      BY <1>5
    <2> DEFINE l == [NoLink EXCEPT !.code = c]
    <2>2. /\ l \in Link /\ l.code = c /\ l.to = 0 /\ l.proofs = {} /\ l.parcel = 0
          /\ l.ack = FALSE
      BY NoLinkIs DEF Link
    <2>3. Wires(started', l)
      BY <1>4, <2>1 DEF Wires
    <2> HIDE DEF l
    <2>4. Wireable(d, started', l)
      <3>1. \A e \in Devices : Me(e) # started'
        BY <1>1, MineIs
      <3>2. 0 <= started' /\ 0 <= made' /\ started' <= started'
        BY <1>1 DEF Counts, Keys
      <3> QED  BY <1>1, <1>4, <2>2, <2>3, <3>1, <3>2, NoLinkIs DEF Wireable
    <2>5. /\ link'[started'] = l
          /\ \A r \in Jobs : link'[r].to # started'
      BY <1>1, <2>2, <2>4, LinksGrow
    <2>6. Met(d)'
      BY <1>3, <2>2, <2>5 DEF Met, Gave, At, Me, Came, Begins
    <2> QED  BY <2>4, <2>6 DEF Linked
  <1>6. Met(d)' /\ Linked(d)
    <2>1. CASE UNCHANGED link /\ j.kind = "rotate"
      BY <1>3, <2>1 DEF Met, Gave, At, Linked
    <2> QED  BY <1>5, <2>1
  <1>7. ~Moving(d)' /\ ~Moving(d)
    BY <1>3 DEF Moving, At, Begins, Running
  <1>8. Turned(d)' /\ TurnMoves(d)
    BY <1>7, TurnRightIs
  <1>9. RestTyped /\ OthersKeep(d)
    BY <1>8, RestMoves
  <1> QED  BY <1>2, <1>6, <1>8, <1>9, StepInv

LEMMA MakeKeyIs ==
  ASSUME IInv, NEW d \in Devices, NEW word \in Keys, MakeKey(d, word)
  PROVE  /\ made' \in Keys /\ made <= made' /\ word <= made' /\ KeyMoves(d)
         /\ (Sound \/ Faulty)
  <1>1. made \in Nat /\ key[d] \in Keys /\ key[d] \in Nat /\ key[d] <= made /\ MaxKey \in Nat
    BY Bounds DEF IInv, TypeOK, Keys
  <1>2. CASE key[d] # 0 /\ word = key[d] /\ Sound /\ UNCHANGED <<key, made>>
    BY <1>1, <1>2 DEF KeyMoves, IInv, TypeOK
  <1>3. CASE made < MaxKey /\ made' = made + 1 /\ word = made'
    <2>1. made' \in Keys /\ made <= made' /\ word <= made' /\ word \in Keys
      BY <1>1, <1>3 DEF Keys
    <2>2. KeyMoves(d) /\ (Sound \/ Faulty)
      BY <1>1, <1>3, <2>1 DEF MakeKey, WriteKey, KeyMoves
    <2> QED  BY <2>1, <2>2
  <1> QED  BY <1>2, <1>3 DEF MakeKey

LEMMA KeyNow ==
  ASSUME IInv, Counts, NEW d \in Devices, KeyMoves(d)
  PROVE  key'[d] \in Keys /\ key'[d] <= made'
  <1>1. /\ key \in [Devices -> Keys] /\ key[d] \in Nat /\ made \in Nat /\ made' \in Nat
        /\ key[d] <= made /\ made <= made'
    BY DEF IInv, TypeOK, Counts, Keys
  <1> QED  BY <1>1 DEF KeyMoves, Written

LEMMA SyncNowIs ==
  ASSUME IInv, Counts, NEW d \in Devices, KeyMoves(d),
         SyncNow(d) \/ Finished(d) \/ UNCHANGED exchange
  PROVE  ExchangeMoves(d)
  BY KeyNow DEF ExchangeMoves, Finished, SyncNow

LEMMA PairOfferInv == ASSUME IInv, NEW d \in Devices, PairOffer(d) PROVE IInv'
  <1>1. PICK word \in Keys :
          /\ MakeKey(d, word)
          /\ \/ Refused(d) /\ Handle(d, 0) /\ UNCHANGED link
             \/ /\ Starts(d, [NoJob EXCEPT !.kind = "offer", !.at = "listen", !.word = word])
                /\ Handle(d, started') /\ link' = [link EXCEPT ![started'].code = started']
    BY DEF PairOffer
  <1>2. /\ made' \in Keys /\ made <= made' /\ word <= made' /\ KeyMoves(d)
        /\ (Sound \/ Faulty)
    BY <1>1, MakeKeyIs
  <1>3. folders' \subseteq Devices \X (Keys \ {0}) /\ TurnRight(d)
    BY FoldersTyped DEF PairOffer, TurnRight
  <1>4. CASE Refused(d) /\ Handle(d, 0) /\ UNCHANGED link
    <2>1. Counts /\ HandleMoves(d)
      BY <1>2, <1>4, Bounds DEF Counts, Refused, HandleMoves, IInv, TypeOK
    <2>2. CASE UNCHANGED <<job, exchange>>
      BY <1>2, <1>3, <1>4, <2>1, <2>2, StillInv DEF ExchangeMoves
    <2>3. CASE ~Running(d) /\ Finished(d) /\ job' = [job EXCEPT ![d] = NoJob]
      <3>1. ExchangeMoves(d) /\ ~Moving(d)
        BY <1>2, <2>1, <2>3, SyncNowIs DEF Running, Moving, At
      <3> QED  BY <1>2, <1>3, <1>4, <2>1, <2>3, <3>1, FreedInv
    <2> QED  BY <1>4, <2>2, <2>3 DEF Refused
  <1>5. CASE /\ Starts(d, [NoJob EXCEPT !.kind = "offer", !.at = "listen", !.word = word])
             /\ Handle(d, started') /\ link' = [link EXCEPT ![started'].code = started']
    <2> DEFINE j == [[NoJob EXCEPT !.kind = "offer", !.at = "listen", !.word = word]
                       EXCEPT !.id = started']
    <2>1. /\ started' \in 0 .. MaxJob /\ started' = started + 1 /\ started <= started'
          /\ ~Running(d) /\ Finished(d) /\ Puts(d, j)
      BY <1>5, Bounds DEF Starts, IInv, TypeOK, Puts
    <2>2. Counts /\ HandleMoves(d)
      BY <1>2, <1>5, <2>1 DEF Counts, HandleMoves
    <2>3. ExchangeMoves(d)
      BY <1>2, <2>1, <2>2, SyncNowIs
    <2>4. j \in Job /\ j.id = started' /\ j.kind = "offer" /\ j.at = "listen"
          /\ j.word = word /\ j.ok = FALSE
      BY <2>1, NoJobIs DEF Job
    <2> HIDE DEF j
    <2>5. Begins(j)
      BY <1>2, <2>4 DEF Begins
    <2>6. \E c \in 0 .. MaxJob : link' = [link EXCEPT ![started'].code = c]
      BY <1>5, <2>1
    <2> QED  BY <1>2, <1>3, <2>1, <2>2, <2>3, <2>4, <2>5, <2>6, BegunInv
  <1> QED  BY <1>1, <1>4, <1>5

LEMMA PairReceiveInv == ASSUME IInv, NEW d \in Devices, PairReceive(d) PROVE IInv'
  <1>1. KeyMoves(d) /\ Sound /\ made' = made /\ TurnRight(d)
    BY DEF PairReceive, KeyMoves, Sound, TurnRight
  <1>2. folders' \subseteq Devices \X (Keys \ {0})
    BY FoldersTyped DEF PairReceive
  <1>3. CASE Refused(d) /\ Handle(d, 0) /\ UNCHANGED link
    <2>1. Counts /\ HandleMoves(d)
      BY <1>1, <1>3, Bounds, CountsIs DEF Refused, HandleMoves
    <2>2. CASE UNCHANGED <<job, exchange>>
      BY <1>1, <1>2, <1>3, <2>1, <2>2, StillInv DEF ExchangeMoves
    <2>3. CASE ~Running(d) /\ Finished(d) /\ job' = [job EXCEPT ![d] = NoJob]
      <3>1. ExchangeMoves(d) /\ ~Moving(d)
        BY <1>1, <2>1, <2>3, SyncNowIs DEF Running, Moving, At
      <3> QED  BY <1>1, <1>2, <1>3, <2>1, <2>3, <3>1, FreedInv
    <2> QED  BY <1>3, <2>2, <2>3 DEF Refused
  <1>4. CASE /\ Starts(d, [NoJob EXCEPT !.kind = "receive", !.at = "find"])
             /\ Handle(d, started')
             /\ \E code \in {job[e].id : e \in {e \in Devices : job[e].kind = "offer"}}
                              \cup {started'} :
                  link' = [link EXCEPT ![started'].code = code]
    <2> DEFINE j == [[NoJob EXCEPT !.kind = "receive", !.at = "find"] EXCEPT !.id = started']
    <2>1. /\ started' \in 0 .. MaxJob /\ started' = started + 1 /\ started <= started'
          /\ ~Running(d) /\ Finished(d) /\ Puts(d, j)
      BY <1>4, Bounds DEF Starts, IInv, TypeOK, Puts
    <2>2. Counts /\ HandleMoves(d)
      <3>1. made' \in Keys /\ made <= made'
        BY <1>1 DEF IInv, TypeOK, Keys
      <3> QED  BY <1>4, <2>1, <3>1 DEF Counts, HandleMoves
    <2>3. ExchangeMoves(d)
      BY <1>1, <2>1, <2>2, SyncNowIs
    <2>4. j \in Job /\ j.id = started' /\ j.kind = "receive" /\ j.at = "find"
          /\ j.word = 0 /\ j.ok = FALSE
      BY <2>1, NoJobIs DEF Job
    <2> HIDE DEF j
    <2>5. Begins(j)
      BY <2>2, <2>4 DEF Begins, Counts, Keys
    <2>6. \E c \in 0 .. MaxJob : link' = [link EXCEPT ![started'].code = c]
      <3> DEFINE Typed == {job[e].id : e \in {e \in Devices : job[e].kind = "offer"}}
                            \cup {started'}
      <3>1. \A e \in Devices : job[e].id \in 0 .. MaxJob
        BY MineIs DEF Me
      <3>2. Typed \subseteq 0 .. MaxJob
        BY <2>1, <3>1
      <3>3. PICK code \in Typed : link' = [link EXCEPT ![started'].code = code]
        BY <1>4
      <3> QED  BY <3>2, <3>3
    <2> QED  BY <1>1, <1>2, <2>1, <2>2, <2>3, <2>4, <2>5, <2>6, BegunInv
  <1> QED  BY <1>3, <1>4 DEF PairReceive

LEMMA RotateInv == ASSUME IInv, NEW d \in Devices, Rotate(d) PROVE IInv'
  <1>1. KeyMoves(d) /\ Sound /\ TurnRight(d) /\ HandleMoves(d) /\ UNCHANGED link
    BY DEF Rotate, KeyMoves, Sound, TurnRight, HandleMoves
  <1>2. folders' \subseteq Devices \X (Keys \ {0})
    BY FoldersTyped DEF Rotate
  <1>3. CASE Refused(d) /\ UNCHANGED made
    <2>1. Counts
      BY <1>3, CountsIs DEF Refused
    <2>2. CASE UNCHANGED <<job, exchange>>
      BY <1>1, <1>2, <1>3, <2>1, <2>2, StillInv DEF ExchangeMoves
    <2>3. CASE ~Running(d) /\ Finished(d) /\ job' = [job EXCEPT ![d] = NoJob]
      <3>1. ExchangeMoves(d) /\ ~Moving(d)
        BY <1>1, <2>1, <2>3, SyncNowIs DEF Running, Moving, At
      <3> QED  BY <1>1, <1>2, <1>3, <2>1, <2>3, <3>1, FreedInv
    <2> QED  BY <1>3, <2>2, <2>3 DEF Refused
  <1>4. CASE /\ made < MaxKey /\ made' = made + 1
             /\ Starts(d, [NoJob EXCEPT !.kind = "rotate", !.at = "first", !.old = key[d],
                                        !.word = made'])
    <2> DEFINE j == [[NoJob EXCEPT !.kind = "rotate", !.at = "first", !.old = key[d],
                                   !.word = made'] EXCEPT !.id = started']
    <2>1. /\ started' \in 0 .. MaxJob /\ started' = started + 1 /\ started <= started'
          /\ ~Running(d) /\ Finished(d) /\ Puts(d, j)
      BY <1>4, Bounds DEF Starts, IInv, TypeOK, Puts
    <2>2. Counts /\ made' # 0 /\ made' \in Keys /\ made' <= made'
      <3>1. made' \in Keys /\ made <= made' /\ made' # 0 /\ made' <= made'
        BY <1>4, Bounds DEF IInv, TypeOK, Keys
      <3> QED  BY <2>1, <3>1 DEF Counts
    <2>3. ExchangeMoves(d)
      BY <1>1, <2>1, <2>2, SyncNowIs
    <2>4. j \in Job /\ j.id = started' /\ j.kind = "rotate" /\ j.at = "first"
          /\ j.word = made' /\ j.old = key[d] /\ j.ok = FALSE
      <3>1. key[d] \in Keys
        BY DEF IInv, TypeOK
      <3> QED  BY <2>1, <2>2, <3>1, NoJobIs DEF Job
    <2> HIDE DEF j
    <2>5. Begins(j)
      BY <2>2, <2>4 DEF Begins, Rotate
    <2> QED  BY <1>1, <1>2, <2>1, <2>2, <2>3, <2>4, <2>5, BegunInv
  <1> QED  BY <1>3, <1>4 DEF Rotate

LEMMA CollectInv == ASSUME IInv, NEW d \in Devices, Collect(d) PROVE IInv'
  <1>1. Counts /\ KeyMoves(d) /\ HandleMoves(d) /\ TurnRight(d) /\ Sound
    BY CountsIs DEF Collect, KeyMoves, HandleMoves, TurnRight, Sound
  <1>2. ExchangeMoves(d) /\ ~Moving(d)
    BY <1>1, SyncNowIs DEF Collect, Answered, Running, Moving, At
  <1> QED  BY <1>1, <1>2, FoldersTyped, FreedInv DEF Collect

LEMMA InterruptInv == ASSUME IInv, NEW d \in Devices, Interrupt(d) PROVE IInv'
  <1> DEFINE j == [job[d] EXCEPT !.stop = TRUE]
  <1>1. Counts /\ KeyMoves(d) /\ ExchangeMoves(d) /\ TurnRight(d) /\ Sound
    BY CountsIs DEF Interrupt, KeyMoves, ExchangeMoves, TurnRight, Sound
  <1>2. HandleMoves(d)
    BY Bounds DEF Interrupt, HandleMoves
  <1>3. CASE job' = job
    BY <1>1, <1>2, <1>3, FoldersTyped, StillInv DEF Interrupt
  <1>4. CASE job' = [job EXCEPT ![d].stop = TRUE]
    <2>1. Puts(d, j)
      BY <1>4 DEF Puts
    <2>2. /\ j \in Job /\ j.id = job[d].id /\ j.kind = job[d].kind /\ j.old = job[d].old
          /\ j.at = job[d].at /\ j.word = job[d].word /\ j.peer = job[d].peer
          /\ j.ok = job[d].ok
      BY JobTyped, StopsIs
    <2> HIDE DEF j
    <2>3. Puttable(d, j)
      BY <2>1, <2>2, MineIs DEF Puttable, Right, Me, Interrupt
    <2>4. job'[d] = j
      BY <1>1, <2>3, Slots
    <2>5. Met(d)'
      BY <2>2, <2>4, MineIs DEF Met, Gave, At, Me, Came, Interrupt
    <2>6. Turned(d)'
      BY <2>2, <2>4, MineIs DEF Turned, Moving, At, Interrupt
    <2>7. RestTyped /\ OthersKeep(d)
      BY <1>1, <1>2, FoldersTyped, RestMoves DEF Interrupt, TurnMoves
    <2> QED  BY <1>1, <2>3, <2>5, <2>6, <2>7, StepInv DEF Linked, Interrupt
  <1> QED  BY <1>3, <1>4 DEF Interrupt

LEMMA AloneInv ==
  ASSUME IInv, NEW d \in Devices,
         Timer(d) \/ Exchanged(d) \/ (\E k \in Keys : Join(d, k)) \/ Forget(d)
  PROVE  IInv'
  <1>1. Counts /\ HandleMoves(d) /\ UNCHANGED <<job, link>>
    BY CountsIs DEF Timer, Exchanged, Join, Forget, HandleMoves, app
  <1>2. made \in Nat /\ made' = made /\ 0 \in Keys /\ 0 <= made'
    BY <1>1, Bounds DEF IInv, TypeOK, Keys, Timer, Exchanged, Join, Forget
  <1>3. CASE Timer(d)
    <2>1. key[d] \in Keys /\ key[d] <= made'
      BY <1>2 DEF IInv, TypeOK
    <2>2. KeyMoves(d) /\ TurnRight(d) /\ Sound /\ ExchangeMoves(d)
      BY <1>3, <2>1 DEF Timer, KeyMoves, TurnRight, Sound, ExchangeMoves
    <2> QED  BY <1>1, <1>3, <2>2, FoldersTyped, StillInv DEF Timer
  <1>4. CASE Exchanged(d)
    <2>1. exchange[d] \in Keys \ {0}
      BY <1>4 DEF IInv, TypeOK, Exchanged, Idle
    <2>2. folders' \subseteq Devices \X (Keys \ {0})
      BY <1>4, <2>1, FoldersTyped DEF Exchanged, Published
    <2>3. KeyMoves(d) /\ TurnRight(d) /\ (Sound \/ Faulty) /\ ExchangeMoves(d)
      BY <1>2, <1>4 DEF Exchanged, KeyMoves, TurnRight, ExchangeMoves
    <2> QED  BY <1>1, <2>2, <2>3, StillInv
  <1>5. CASE \E k \in Keys : Join(d, k)
    <2>1. PICK k \in Keys : Join(d, k)
      BY <1>5
    <2>2. KeyMoves(d) /\ TurnRight(d) /\ Faulty
      BY <1>2, <2>1 DEF Join, KeyMoves, TurnRight
    <2>3. ExchangeMoves(d)
      BY <1>1, <2>1, <2>2, SyncNowIs DEF Join
    <2> QED  BY <1>1, <2>1, <2>2, <2>3, FoldersTyped, StillInv DEF Join
  <1>6. CASE Forget(d)
    <2>1. KeyMoves(d) /\ TurnRight(d) /\ Faulty /\ ExchangeMoves(d)
      BY <1>2, <1>6 DEF Forget, KeyMoves, TurnRight, ExchangeMoves, app
    <2> QED  BY <1>1, <1>6, <2>1, FoldersTyped, StillInv DEF Forget
  <1> QED  BY <1>3, <1>4, <1>5, <1>6

LEMMA CrashInv == ASSUME IInv, NEW d \in Devices, Crash(d) PROVE IInv'
  <1>1. Counts /\ KeyMoves(d) /\ TurnRight(d) /\ Faulty
    BY CountsIs DEF Crash, KeyMoves, TurnRight
  <1>2. HandleMoves(d) /\ ExchangeMoves(d)
    <2>1. 0 \in Keys /\ 0 <= made' /\ 0 \in 0 .. MaxJob
      BY <1>1, Bounds DEF Counts, Keys
    <2> QED  BY <2>1 DEF Crash, HandleMoves, ExchangeMoves
  <1>3. ~Moving(d) \/ turned' = [turned EXCEPT ![d] = NotTurned]
    BY DEF Crash, Running, Moving, At
  <1> QED  BY <1>1, <1>2, <1>3, FoldersTyped, FreedInv DEF Crash

LEMMA InitInv == Init => IInv
  <1> SUFFICES ASSUME Init PROVE IInv
    OBVIOUS
  <1>1. TypeOK
    BY NoJobIs, NoLinkIs, NotTurnedIs, Bounds DEF Init, TypeOK, Keys, Turns
  <1>2. OwnIds /\ OneTry
    BY NoJobIs, NoLinkIs DEF Init, OwnIds, OneTry, Me
  <1>3. ASSUME NEW d \in Devices PROVE JobRight(d) /\ Met(d) /\ Turned(d)
    BY NoJobIs, NotTurnedIs DEF Init, JobRight, Right, Met, Gave, At, Turned
  <1>4. ASSUME NEW r \in Jobs PROVE LinkRight(r)
    BY NoLinkIs DEF Init, LinkRight
  <1> QED  BY <1>1, <1>2, <1>3, <1>4 DEF IInv

LEMMA NextInv == IInv /\ [Next]_vars => IInv'
  <1> SUFFICES ASSUME IInv, [Next]_vars PROVE IInv'
    OBVIOUS
  <1>1. CASE UNCHANGED vars
    <2>1. UNCHANGED <<key, made, started, job, handle, exchange, folders, link, faults, turned>>
      BY <1>1 DEF vars, app
    <2>2. TypeOK' /\ OwnIds' /\ OneTry'
      BY <2>1 DEF IInv, TypeOK, OwnIds, OneTry, Me
    <2>3. \A d \in Devices : JobRight(d)' /\ Met(d)' /\ Turned(d)'
      BY <2>1 DEF IInv, JobRight, Met, Gave, Turned, Moving, At, Me, Came
    <2>4. \A r \in Jobs : LinkRight(r)'
      BY <2>1 DEF IInv, LinkRight
    <2> QED  BY <2>2, <2>3, <2>4 DEF IInv
  <1>2. CASE Next
    <2>1. PICK d \in Devices :
            \/ Terminals(d) \/ Worker(d) \/ Lapse(d)
            \/ Timer(d) \/ Exchanged(d) \/ (\E k \in Keys : Join(d, k)) \/ Forget(d)
            \/ Crash(d)
      BY <1>2 DEF Next
    <2>2. CASE Terminals(d)
      BY <2>2, PairOfferInv, PairReceiveInv, RotateInv, CollectInv, InterruptInv
         DEF Terminals
    <2> QED  BY <2>1, <2>2, WorkerInv, AloneInv, CrashInv
  <1> QED  BY <1>1, <1>2
-----------------------------------------------------------------------------
(* Every variable keeps its type, no key goes over a connection whose two  *)
(* ends were not given the same code, and an offer that reports that the   *)
(* other device has the key was answered by one with its code that opened  *)
(* its parcel: pair::offer and pair::receive.                              *)
THEOREM PairInvAlways == Spec => []PairInv
  <1>1. IInv => PairInv
    <2> SUFFICES ASSUME IInv PROVE HandedRight
      BY DEF IInv, PairInv
    <2>1. ASSUME NEW d \in Devices, At(d, "offer", "ended"), job[d].ok
          PROVE  LET l == link[job[d].peer]
                 IN  l.code = Me(d) /\ l.parcel = job[d].word /\ l.ack
      BY <2>1, MineIs DEF Met, Gave
    <2>2. ASSUME NEW r \in Jobs, link[r].parcel # 0 PROVE link[r].code = link[r].to
      BY <2>2 DEF IInv, LinkRight
    <2> QED  BY <2>1, <2>2 DEF HandedRight
  <1> QED  BY <1>1, InitInv, NextInv, PTL DEF Spec

(* An offer lets one device in, ever, whether it had the right code or a   *)
(* wrong one: the listener of pair::offer is left at the first connection. *)
THEOREM OneTryAlways == Spec => []OneTry
  <1>1. IInv => OneTry
    BY DEF IInv
  <1> QED  BY <1>1, InitInv, NextInv, PTL DEF Spec

(* A device whose rotation has taken its old folders away holds the new    *)
(* key once the job has ended, whoever asks for the answer: sync_remote's  *)
(* rotate writes it from the worker.                                       *)
THEOREM NoKeyStrandedAlways == Spec => []NoKeyStranded
  <1>1. IInv => NoKeyStranded
    <2> SUFFICES ASSUME IInv, NEW d \in Devices, turned[d].to # 0, ~Running(d)
                 PROVE  key[d] = turned[d].to
      BY DEF NoKeyStranded
    <2> QED  BY MineIs DEF Turned, Moving, At, Running
  <1> QED  BY <1>1, InitInv, NextInv, PTL DEF Spec
=============================================================================

---------------------------- MODULE VaultProofs ----------------------------
(***************************************************************************)
(* Proofs about Vault, for any profiles, channel, threads and bounds: what *)
(* is saved always has its key, a finished uninstall leaves none behind,   *)
(* and the last write stands.                                              *)
(***************************************************************************)
EXTENDS Vault, TLAPS

(* An identifier that is about to be written is the only one of its kind.  *)
Named == \A p \in Profiles : marker[p] \in {0} \cup named

New(p, t) == marker[p] = 0 /\ op[p][t].id \in keys \ named

Naming ==
  \A p \in Profiles, t \in Threads : At(p, t, "name") =>
    /\ New(p, t)
    /\ \A q \in Profiles, u \in Threads :
         At(q, u, "name") /\ (q = p \/ op[q][u].id = op[p][t].id) => q = p /\ u = t

(* Who goes on with a record has its key in hand; what a thread has seen of*)
(* a record is there still, or has been sealed since.                      *)
Keyed(p, t) ==
  \/ At(p, t, "judge") \/ At(p, t, "reseal") \/ At(p, t, "put")
  \/ At(p, t, "open") /\ op[p][t].do # "read"
  => cached[p] # 0

Seen(p, t) ==
  /\ op[p][t].saw.form = "sealed" => file[p].form = "sealed"
  /\ op[p][t].saw.form = "plain" => file[p].form \in {"plain", "sealed"}
  /\ At(p, t, "reseal") => op[p][t].saw.form = "plain" /\ p \notin format
  /\ At(p, t, "put") => file[p].form \in {"none", "sealed"}

(* The migration has the profile to itself.                                *)
Starting(p) ==
  op[p][Main].do = "migrate" => \A t \in Threads \ {Main} : op[p][t] = Idle

Going ==
  /\ \A p \in Profiles, t \in Threads : Keyed(p, t) /\ Seen(p, t)
  /\ \A p \in Profiles : Starting(p)

(* A sealed record, and a complete migration, have a key with a name.      *)
Sealing ==
  \A p \in Profiles :
    /\ file[p].form = "sealed" => file[p].id = marker[p] /\ marker[p] # 0
    /\ p \in format => marker[p] # 0

(* What is being removed is closed, and stays so.                          *)
Closed ==
  /\ \A p \in gone : p \notin open /\ marker[p] = 0
  /\ purge.at = "erase" => Standing \cap open = {}

(* The keys the uninstall retains are those that others share.             *)
Sharers ==
  purge.at \in {"lock", "erase"} =>
    /\ \A k \in purge.retained : k # 0 /\ \E q \in Profiles \ Doomed : marker[q] = k
    /\ \A q \in Profiles \ Doomed, p \in Doomed :
         marker[q] = marker[p] /\ marker[p] # 0 => marker[p] \in purge.retained

(* What it has been through has no key left but a retained one.            *)
Through ==
  purge.at = "erase" =>
    \A p \in Standing \ purge.left :
      marker[p] = 0 \/ marker[p] \notin keys \/ marker[p] \in purge.retained

(* A key that ever had a profile has one still.                            *)
Owned == \A k \in keys \cap named : \E p \in Profiles \ gone : marker[p] = k

Erasing == Closed /\ Sharers /\ Through /\ Owned

IInv == TypeOK /\ Openable /\ Named /\ Naming /\ Going /\ Sealing /\ Erasing
-----------------------------------------------------------------------------
(* What a thread is doing                                                  *)

Doings == [Profiles -> [Threads -> Op]]
Places == {"end", "key", "name", "open", "judge", "reseal", "put"}
Only(p, t) ==
  /\ op' \in Doings
  /\ \A q \in Profiles, u \in Threads : q # p \/ u # t => op'[q][u] = op[q][u]
Sets(p, t, o) == op' = [op EXCEPT ![p][t] = o]
SetsSaw(p, t, at) == op' = [op EXCEPT ![p][t].saw = file[p], ![p][t].at = at]
SetsName(p, t, k) == op' = [op EXCEPT ![p][t].at = "name", ![p][t].id = k]

LEMMA IdleTyped == Idle \in Op /\ NoFile \in Record
  BY VaultAssumption DEF Idle, Op, NoFile, Record, Ids

LEMMA OpTyped ==
  ASSUME TypeOK, NEW p \in Profiles, NEW t \in Threads
  PROVE  op \in Doings /\ op[p] \in [Threads -> Op] /\ op[p][t] \in Op
  BY DEF TypeOK, Doings

LEMMA SetOp ==
  ASSUME TypeOK, NEW p \in Profiles, NEW t \in Threads, NEW o \in Op, Sets(p, t, o)
  PROVE  /\ Only(p, t) /\ op'[p][t] = o
  <1>1. op \in Doings /\ op[p] \in [Threads -> Op]
    BY OpTyped
  <1>2. /\ [op[p] EXCEPT ![t] = o] \in [Threads -> Op]
        /\ op' = [op EXCEPT ![p] = [op[p] EXCEPT ![t] = o]]
    BY <1>1 DEF Doings, Sets
  <1>3. op' \in Doings
    BY <1>1, <1>2 DEF Doings
  <1>4. op'[p] = [op[p] EXCEPT ![t] = o] /\ \A q \in Profiles \ {p} : op'[q] = op[q]
    BY <1>1, <1>2 DEF Doings
  <1>5. op'[p][t] = o /\ \A u \in Threads \ {t} : op'[p][u] = op[p][u]
    BY <1>1, <1>4
  <1> QED  BY <1>3, <1>4, <1>5 DEF Only

LEMMA EndsOp ==
  ASSUME TypeOK, NEW p \in Profiles, NEW t \in Threads, Ends(p, t)
  PROVE  /\ Only(p, t) /\ op'[p][t] = Idle
  <1>1. Sets(p, t, Idle)
    BY DEF Ends, Sets
  <1> QED  BY <1>1, IdleTyped, SetOp

LEMMA BeginsOp ==
  ASSUME TypeOK, NEW p \in Profiles, NEW t \in Threads,
         NEW do \in {"migrate", "read", "write"}, NEW at \in Places, Begins(p, t, do, at)
  PROVE  /\ Only(p, t) /\ op'[p][t] = [Idle EXCEPT !.do = do, !.at = at]
  <1>1. [Idle EXCEPT !.do = do, !.at = at] \in Op
    BY IdleTyped DEF Op, Places
  <1>2. Sets(p, t, [Idle EXCEPT !.do = do, !.at = at])
    BY DEF Begins, Sets
  <1> QED  BY <1>1, <1>2, SetOp

LEMMA GoesOp ==
  ASSUME TypeOK, NEW p \in Profiles, NEW t \in Threads, NEW at \in Places, Goes(p, t, at)
  PROVE  /\ Only(p, t)
         /\ op'[p][t].at = at /\ op'[p][t].do = op[p][t].do
         /\ op'[p][t].id = op[p][t].id /\ op'[p][t].saw = op[p][t].saw
  <1> DEFINE o == [op[p][t] EXCEPT !.at = at]
  <1>1. op[p][t] \in Op
    BY OpTyped
  <1>2. o \in Op /\ o.at = at /\ o.do = op[p][t].do /\ o.id = op[p][t].id /\ o.saw = op[p][t].saw
    BY <1>1 DEF Op, Places
  <1>3. Sets(p, t, o)
    BY DEF Goes, Sets
  <1> HIDE DEF o
  <1> QED  BY <1>2, <1>3, SetOp

LEMMA OpensOp ==
  ASSUME TypeOK, NEW p \in Profiles, NEW t \in Threads, NEW at \in Places,
         SetsSaw(p, t, at)
  PROVE  /\ Only(p, t)
         /\ op'[p][t].at = at /\ op'[p][t].do = op[p][t].do /\ op'[p][t].saw = file[p]
  <1> DEFINE o == [op[p][t] EXCEPT !.saw = file[p], !.at = at]
  <1>1. op[p][t] \in Op /\ file[p] \in Record
    BY OpTyped DEF TypeOK
  <1>2. o \in Op /\ o.at = at /\ o.do = op[p][t].do /\ o.saw = file[p]
    BY <1>1 DEF Op, Places
  <1>3. Sets(p, t, o)
    BY OpTyped DEF Doings, Sets, SetsSaw
  <1> HIDE DEF o
  <1> QED  BY <1>2, <1>3, SetOp

LEMMA NamesOp ==
  ASSUME TypeOK, NEW p \in Profiles, NEW t \in Threads, NEW k \in Ids,
         SetsName(p, t, k)
  PROVE  /\ Only(p, t)
         /\ op'[p][t].at = "name" /\ op'[p][t].do = op[p][t].do
         /\ op'[p][t].id = k /\ op'[p][t].saw = op[p][t].saw
  <1> DEFINE o == [op[p][t] EXCEPT !.at = "name", !.id = k]
  <1>1. op[p][t] \in Op
    BY OpTyped
  <1>2. o \in Op /\ o.at = "name" /\ o.do = op[p][t].do /\ o.id = k /\ o.saw = op[p][t].saw
    BY <1>1 DEF Op
  <1>3. Sets(p, t, o)
    BY OpTyped DEF Doings, Sets, SetsName
  <1> HIDE DEF o
  <1> QED  BY <1>2, <1>3, SetOp
-----------------------------------------------------------------------------
(* What a thread that moves leaves as it was                               *)

LEMMA BusyOpen ==
  ASSUME TypeOK, NEW p \in Profiles, NEW t \in Threads, op[p][t].at # "end"
  PROVE  p \in open /\ op[p][t] # Idle
  BY DEF TypeOK, Idle

LEMMA TypesKept ==
  ASSUME TypeOK, NEW p \in Profiles, NEW t \in Threads, Only(p, t), p \in open,
         UNCHANGED <<store, open, cached, fate>>, format' \subseteq Profiles,
         file' \in [Profiles -> Record], written' \in 1 .. MaxText, faults' \in 0 .. MaxFault
  PROVE  TypeOK'
  <1>1. \A q \in Profiles : q \notin open => \A u \in Threads : op'[q][u] = Idle
    BY DEF TypeOK, Only
  <1> QED  BY <1>1 DEF TypeOK, store, fate, Only, Doings

LEMMA NamingKept ==
  ASSUME Named, Naming, NEW p \in Profiles, NEW t \in Threads, Only(p, t),
         op'[p][t].at # "name", UNCHANGED store
  PROVE  Named' /\ Naming'
  BY DEF Named, Naming, New, At, Only, store

LEMMA GoingKept ==
  ASSUME Going, NEW p \in Profiles, NEW t \in Threads, Only(p, t),
         Keyed(p, t)', Seen(p, t)', Starting(p)', UNCHANGED <<cached, file, format>>
  PROVE  Going'
  <1>1. ASSUME NEW q \in Profiles, NEW u \in Threads, q # p \/ u # t
        PROVE  Keyed(q, u)' /\ Seen(q, u)'
    <2>1. op'[q][u] = op[q][u] /\ Keyed(q, u) /\ Seen(q, u)
      BY <1>1 DEF Only, Going
    <2> QED  BY <2>1 DEF Keyed, Seen, At
  <1>2. ASSUME NEW q \in Profiles, q # p PROVE Starting(q)'
    <2>1. Starting(q) /\ \A u \in Threads : op'[q][u] = op[q][u]
      BY <1>2 DEF Only, Going
    <2> QED  BY <2>1, VaultAssumption DEF Starting
  <1> QED  BY <1>1, <1>2 DEF Going

LEMMA ErasingKept ==
  ASSUME Erasing, UNCHANGED <<store, open, fate>> PROVE Erasing'
  BY DEF Erasing, Closed, Standing, Sharers, Through, Owned, store, fate

(* Whoever ends leaves nothing behind; whoever goes on was not idle, and so*)
(* the migration is not under way elsewhere.                               *)
LEMMA StartingEnds ==
  ASSUME Going, NEW p \in Profiles, NEW t \in Threads, Only(p, t), op'[p][t] = Idle
  PROVE  Starting(p)'
  <1>1. Starting(p) /\ Main \in Threads
    BY VaultAssumption DEF Going
  <1>2. Idle.do = "nothing"
    BY DEF Idle
  <1> QED  BY <1>1, <1>2 DEF Only, Starting

LEMMA StartingGoes ==
  ASSUME TypeOK, Going, NEW p \in Profiles, NEW t \in Threads, Only(p, t),
         op[p][t].at # "end", op'[p][t].do = op[p][t].do
  PROVE  Starting(p)'
  <1>1. Starting(p) /\ Main \in Threads /\ op[p][t] # Idle
    BY VaultAssumption, BusyOpen DEF Going
  <1> QED  BY <1>1 DEF Only, Starting

LEMMA Ended ==
  ASSUME IInv, NEW p \in Profiles, NEW t \in Threads, Ends(p, t), p \in open,
         UNCHANGED <<store, format, file, app, fate>>, faults' \in 0 .. MaxFault
  PROVE  IInv'
  <1> USE DEF IInv
  <1>1. Only(p, t) /\ op'[p][t] = Idle
    BY EndsOp
  <1>2. Idle.at = "end" /\ Idle.saw.form = "none"
    BY DEF Idle, NoFile
  <1>3. TypeOK'
    BY <1>1, TypesKept DEF app, TypeOK
  <1>4. Named' /\ Naming'
    BY <1>1, <1>2, NamingKept
  <1>5. Going'
    BY <1>1, <1>2, StartingEnds, GoingKept DEF Keyed, Seen, At, app
  <1>6. Erasing' /\ Openable' /\ Sealing'
    BY ErasingKept DEF Openable, Sealing, app, store, fate
  <1> QED  BY <1>3, <1>4, <1>5, <1>6

LEMMA Moved ==
  ASSUME IInv, NEW p \in Profiles, NEW t \in Threads, Only(p, t), p \in open,
         op'[p][t].at # "name", Keyed(p, t)', Seen(p, t)', Starting(p)',
         UNCHANGED <<store, format, file, app, fate>>, faults' \in 0 .. MaxFault
  PROVE  IInv'
  <1> USE DEF IInv
  <1>1. TypeOK'
    BY TypesKept DEF app, TypeOK
  <1>2. Named' /\ Naming'
    BY NamingKept
  <1>3. Going'
    BY GoingKept DEF app
  <1>4. Erasing' /\ Openable' /\ Sealing'
    BY ErasingKept DEF Openable, Sealing, app, store, fate
  <1> QED  BY <1>1, <1>2, <1>3, <1>4

LEMMA Faults == ASSUME TypeOK, Faulty \/ Sound PROVE faults' \in 0 .. MaxFault
  BY VaultAssumption DEF TypeOK, Faulty, Sound
-----------------------------------------------------------------------------
(* The actions that only move a thread                                     *)

LEMMA StartInv == ASSUME IInv, NEW p \in Profiles, Start(p) PROVE IInv'
  <1> USE DEF IInv
  <1>0. Main \in Threads /\ p \notin open /\ \A t \in Threads : op[p][t] = Idle
    BY VaultAssumption DEF Start, TypeOK
  <1>1. Only(p, Main) /\ op'[p][Main] = [Idle EXCEPT !.do = "migrate", !.at = "key"]
    BY <1>0, BeginsOp DEF Start, Places
  <1>2. op'[p][Main].at = "key" /\ op'[p][Main].saw = NoFile
    BY <1>1 DEF Idle
  <1>3. TypeOK'
    <2>1. \A q \in Profiles : q \notin open' => \A u \in Threads : op'[q][u] = Idle
      BY <1>1 DEF Start, Only, TypeOK
    <2>2. \A q \in Profiles : cached[q] # 0 => q \in open' /\ cached[q] = marker[q]
      BY DEF Start, TypeOK
    <2> QED  BY <1>1, <2>1, <2>2 DEF Start, TypeOK, store, fate, Only, Doings
  <1>4. Named' /\ Naming'
    BY <1>0, <1>1, <1>2, NamingKept DEF Start
  <1>5. Going'
    <2>1. Keyed(p, Main)' /\ Seen(p, Main)'
      BY <1>2 DEF Keyed, Seen, At, NoFile
    <2>2. Starting(p)'
      BY <1>0, <1>1 DEF Starting, Only
    <2> QED  BY <1>0, <1>1, <2>1, <2>2, GoingKept DEF Start
  <1>6. Openable' /\ Sealing'
    BY DEF Start, Openable, Sealing, store, fate
  <1>7. Erasing'
    <2>1. Closed'
      BY DEF Start, Erasing, Closed, Standing, fate, store, TypeOK
    <2>2. Sharers' /\ Through' /\ Owned'
      BY DEF Start, Erasing, Standing, Sharers, Through, Owned, store, fate
    <2> QED  BY <2>1, <2>2 DEF Erasing
  <1> QED  BY <1>3, <1>4, <1>5, <1>6, <1>7

LEMMA ReadInv ==
  ASSUME IInv, NEW p \in Profiles, NEW t \in Threads, Read(p, t) PROVE IInv'
  <1>1. Only(p, t) /\ op'[p][t] = [Idle EXCEPT !.do = "read", !.at = "open"]
    BY BeginsOp DEF IInv, Read, Places
  <1>2. op'[p][t].at = "open" /\ op'[p][t].do = "read" /\ op'[p][t].saw = NoFile
    BY <1>1 DEF Idle
  <1>3. Keyed(p, t)' /\ Seen(p, t)'
    BY <1>2 DEF Keyed, Seen, At, NoFile
  <1>4. Starting(p)'
    BY <1>1, <1>2, VaultAssumption DEF Read, Free, Starting, Only
  <1>5. faults' \in 0 .. MaxFault
    BY DEF IInv, TypeOK, Read
  <1> QED  BY <1>1, <1>2, <1>3, <1>4, <1>5, Moved DEF Read, Free

LEMMA WriteInv == ASSUME IInv, NEW p \in Profiles, Write(p) PROVE IInv'
  <1>0. Main \in Threads
    BY VaultAssumption
  <1>1. Only(p, Main) /\ op'[p][Main] = [Idle EXCEPT !.do = "write", !.at = "key"]
    BY <1>0, BeginsOp DEF IInv, Write, Places
  <1>2. op'[p][Main].at = "key" /\ op'[p][Main].do = "write" /\ op'[p][Main].saw = NoFile
    BY <1>1 DEF Idle
  <1>3. Keyed(p, Main)' /\ Seen(p, Main)' /\ Starting(p)'
    BY <1>2 DEF Keyed, Seen, At, NoFile, Starting
  <1>5. faults' \in 0 .. MaxFault
    BY DEF IInv, TypeOK, Write
  <1> QED  BY <1>0, <1>1, <1>2, <1>3, <1>5, Moved DEF Write, Free

LEMMA QuitInv == ASSUME IInv, NEW p \in Profiles, Quit(p) PROVE IInv'
  <1> USE DEF IInv
  <1>1. /\ op' \in Doings /\ \A t \in Threads : op'[p][t] = Idle
        /\ \A q \in Profiles \ {p} : op'[q] = op[q]
    BY IdleTyped DEF Quit, TypeOK, Doings
  <1>2. cached' \in [Profiles -> Ids] /\ cached'[p] = 0
        /\ \A q \in Profiles \ {p} : cached'[q] = cached[q]
    BY VaultAssumption DEF Quit, TypeOK, Ids
  <1>3. Idle.at = "end" /\ Idle.do = "nothing" /\ Idle.saw.form = "none"
    BY DEF Idle, NoFile
  <1>4. TypeOK'
    <2>1. \A q \in Profiles : q \notin open' => \A u \in Threads : op'[q][u] = Idle
      BY <1>1 DEF Quit, TypeOK
    <2>2. \A q \in Profiles : cached'[q] # 0 => q \in open' /\ cached'[q] = marker[q]
      BY <1>2 DEF Quit, TypeOK
    <2> QED  BY <1>1, <1>2, <2>1, <2>2 DEF Quit, TypeOK, store, fate, Doings
  <1>5. Named' /\ Naming'
    BY <1>1, <1>3 DEF Quit, Named, Naming, New, At, store
  <1>6. Going'
    <2>1. ASSUME NEW q \in Profiles, NEW u \in Threads PROVE Keyed(q, u)' /\ Seen(q, u)'
      <3>1. CASE q = p
        BY <1>1, <1>3, <3>1 DEF Keyed, Seen, At
      <3>2. CASE q # p
        BY <1>1, <1>2, <3>2 DEF Quit, Going, Keyed, Seen, At
      <3> QED  BY <3>1, <3>2
    <2>2. ASSUME NEW q \in Profiles PROVE Starting(q)'
      BY <1>1, <1>3, VaultAssumption DEF Going, Starting
    <2> QED  BY <2>1, <2>2 DEF Going
  <1>7. Openable' /\ Sealing'
    BY DEF Quit, Openable, Sealing, store, fate
  <1>8. Erasing'
    BY DEF Quit, Erasing, Closed, Standing, Sharers, Through, Owned, store, fate
  <1> QED  BY <1>4, <1>5, <1>6, <1>7, <1>8

LEMMA HasKeyInv ==
  ASSUME IInv, NEW p \in Profiles, NEW t \in Threads, HasKey(p, t) PROVE IInv'
  <1>1. op[p][t].at = "key" /\ p \in open /\ cached'[p] # 0 /\ faults' \in 0 .. MaxFault
    BY BusyOpen DEF HasKey, At, IInv, app, TypeOK
  <1>2. ASSUME NEW at \in {"judge", "open"}, Goes(p, t, at) PROVE IInv'
    <2>1. /\ Only(p, t) /\ op'[p][t].at = at /\ op'[p][t].do = op[p][t].do
          /\ op'[p][t].saw = op[p][t].saw
      BY <1>2, GoesOp DEF IInv, Places
    <2>2. Seen(p, t) /\ file' = file
      BY DEF IInv, Going, HasKey
    <2>3. Keyed(p, t)' /\ Seen(p, t)'
      BY <1>1, <1>2, <2>1, <2>2 DEF Keyed, Seen, At
    <2>4. Starting(p)'
      BY <1>1, <2>1, StartingGoes DEF IInv
    <2> QED  BY <1>1, <1>2, <2>1, <2>3, <2>4, Moved DEF HasKey
  <1>3. CASE Ends(p, t)
    BY <1>1, <1>3, Ended DEF HasKey
  <1> QED  BY <1>2, <1>3 DEF HasKey

LEMMA FoundInv ==
  ASSUME IInv, NEW p \in Profiles, NEW t \in Threads, Found(p, t), op[p][t].at # "end",
         cached[p] # 0, file[p].form \in {"none", "sealed"},
         UNCHANGED <<store, format, file, app, fate>>, faults' \in 0 .. MaxFault
  PROVE  IInv'
  <1>0. p \in open /\ cached' = cached
    BY BusyOpen DEF IInv, app
  <1>1. CASE Ends(p, t)
    BY <1>0, <1>1, Ended
  <1>2. CASE Goes(p, t, "put")
    <2>1. /\ Only(p, t) /\ op'[p][t].at = "put" /\ op'[p][t].do = op[p][t].do
          /\ op'[p][t].saw = op[p][t].saw
      BY <1>2, GoesOp DEF IInv, Places
    <2>2. Seen(p, t) /\ file' = file
      BY DEF IInv, Going
    <2>3. Keyed(p, t)' /\ Seen(p, t)'
      BY <1>0, <2>1, <2>2 DEF Keyed, Seen, At
    <2>4. Starting(p)'
      BY <2>1, StartingGoes DEF IInv
    <2> QED  BY <1>0, <2>1, <2>3, <2>4, Moved
  <1> QED  BY <1>1, <1>2 DEF Found

LEMMA OpenInv ==
  ASSUME IInv, NEW p \in Profiles, NEW t \in Threads, Open(p, t) PROVE IInv'
  <1>1. /\ op[p][t].at = "open" /\ p \in open /\ faults' \in 0 .. MaxFault
        /\ cached' = cached /\ file' = file /\ format' = format
        /\ op[p][t].do # "read" => cached[p] # 0
    BY BusyOpen DEF Open, At, IInv, app, TypeOK, Going, Keyed
  <1>2. CASE file[p] = NoFile
    <2>1. Found(p, t) /\ file[p].form = "none"
      BY <1>2 DEF Open, NoFile
    <2>2. CASE op[p][t].do = "read"
      BY <1>1, <2>1, <2>2, Ended DEF Found, Open
    <2>3. CASE op[p][t].do # "read"
      BY <1>1, <2>1, <2>3, FoundInv DEF Open
    <2> QED  BY <2>2, <2>3
  <1>3. CASE file[p] # NoFile
    <2> DEFINE at == IF op[p][t].do = "read" THEN "key" ELSE "judge"
    <2>1. at \in Places /\ SetsSaw(p, t, at)
      BY <1>3 DEF Open, Places, SetsSaw
    <2>2. at \in {"key", "judge"} /\ (at = "judge" => op[p][t].do # "read")
      OBVIOUS
    <2> HIDE DEF at
    <2>3. /\ Only(p, t) /\ op'[p][t].at = at /\ op'[p][t].do = op[p][t].do
          /\ op'[p][t].saw = file[p]
      BY <2>1, OpensOp DEF IInv
    <2>4. Keyed(p, t)'
      BY <1>1, <2>2, <2>3 DEF Keyed, At
    <2>5. Seen(p, t)'
      BY <1>1, <2>2, <2>3 DEF Seen, At
    <2>6. Starting(p)'
      BY <1>1, <2>3, StartingGoes DEF IInv
    <2> QED  BY <1>1, <2>2, <2>3, <2>4, <2>5, <2>6, Moved DEF Open
  <1> QED  BY <1>2, <1>3

LEMMA JudgeInv ==
  ASSUME IInv, NEW p \in Profiles, NEW t \in Threads, Judge(p, t) PROVE IInv'
  <1>1. /\ op[p][t].at = "judge" /\ p \in open /\ faults' \in 0 .. MaxFault
        /\ cached' = cached /\ file' = file /\ format' = format
        /\ cached[p] # 0 /\ Seen(p, t)
    BY BusyOpen DEF Judge, At, IInv, app, TypeOK, Going, Keyed
  <1>2. CASE Opens(p, op[p][t].saw) /\ Found(p, t)
    <2>1. file[p].form = "sealed"
      BY <1>1, <1>2 DEF Opens, Seen
    <2> QED  BY <1>1, <1>2, <2>1, FoundInv DEF Judge
  <1>3. CASE Legacy(p, op[p][t].saw) /\ Goes(p, t, "reseal")
    <2>1. /\ Only(p, t) /\ op'[p][t].at = "reseal" /\ op'[p][t].do = op[p][t].do
          /\ op'[p][t].saw = op[p][t].saw
      BY <1>3, GoesOp DEF IInv, Places
    <2>2. Keyed(p, t)' /\ Seen(p, t)'
      BY <1>1, <1>3, <2>1 DEF Keyed, Seen, At, Legacy
    <2>3. Starting(p)'
      BY <1>1, <2>1, StartingGoes DEF IInv
    <2> QED  BY <1>1, <2>1, <2>2, <2>3, Moved DEF Judge
  <1>4. CASE Ends(p, t)
    BY <1>1, <1>4, Ended DEF Judge
  <1> QED  BY <1>2, <1>3, <1>4 DEF Judge
-----------------------------------------------------------------------------
(* The key                                                                 *)

LEMMA FetchKeyInv ==
  ASSUME IInv, NEW p \in Profiles, NEW t \in Threads, FetchKey(p, t) PROVE IInv'
  <1> USE DEF IInv
  <1>1. op[p][t].at = "key" /\ p \in open /\ faults' \in 0 .. MaxFault
    BY BusyOpen, Faults DEF FetchKey, At, Fails, Sound
  <1>2. CASE Ends(p, t) /\ UNCHANGED cached
    <2>1. UNCHANGED <<store, format, file, app, fate>>
      BY <1>2 DEF FetchKey, app
    <2> QED  BY <1>1, <1>2, <2>1, Ended
  <1>3. CASE cached' = [cached EXCEPT ![p] = marker[p]] /\ UNCHANGED op
    <2>1. /\ cached' \in [Profiles -> Ids] /\ cached'[p] = marker[p] /\ marker[p] # 0
          /\ \A q \in Profiles \ {p} : cached'[q] = cached[q]
      BY <1>3 DEF FetchKey, TypeOK
    <2>2. TypeOK'
      BY <1>1, <1>3, <2>1 DEF FetchKey, TypeOK, store, fate
    <2>3. Named' /\ Naming'
      BY <1>3 DEF FetchKey, Named, Naming, New, At, store
    <2>4. Going'
      <3>1. ASSUME NEW q \in Profiles, NEW u \in Threads PROVE Keyed(q, u)' /\ Seen(q, u)'
        BY <1>3, <2>1 DEF FetchKey, Going, Keyed, Seen, At
      <3>2. ASSUME NEW q \in Profiles PROVE Starting(q)'
        BY <1>3 DEF Going, Starting
      <3> QED  BY <3>1, <3>2 DEF Going
    <2>5. Openable' /\ Sealing' /\ Erasing'
      BY ErasingKept DEF FetchKey, Openable, Sealing, store, fate
    <2> QED  BY <2>2, <2>3, <2>4, <2>5
  <1> QED  BY <1>2, <1>3 DEF FetchKey, Fails

LEMMA NewKeyInv ==
  ASSUME IInv, NEW p \in Profiles, NEW t \in Threads, NewKey(p, t) PROVE IInv'
  <1> USE DEF IInv
  <1>1. /\ op[p][t].at = "key" /\ p \in open /\ faults' \in 0 .. MaxFault
        /\ marker[p] = 0 /\ cached[p] = 0
        /\ UNCHANGED <<marker, named, format, file, open, cached, written, fate>>
    BY BusyOpen, Faults DEF NewKey, At, Fails, Sound, app
  <1>2. /\ made' = made + 1 /\ made \in Nat /\ made' \in Ids /\ keys \subseteq 1 .. made
        /\ named \subseteq 1 .. made
    BY VaultAssumption DEF NewKey, TypeOK, Ids
  <1>3. /\ made' \notin keys /\ made' \notin named /\ made' # 0
         /\ \A k \in keys \cup named : k \in 1 .. made'
    BY <1>2
  <1>4. \A q \in Profiles : marker[q] # made'
    BY <1>3 DEF Named
  <1>5. keys \subseteq keys' /\ keys' \subseteq keys \cup {made'}
    BY DEF NewKey
  <1>6. /\ Only(p, t) /\ (op'[p][t].do = op[p][t].do \/ op'[p][t] = Idle)
        /\ \/ op'[p][t].at = "name" /\ op'[p][t].id = made' /\ made' \in keys'
           \/ op'[p][t].at = "end"
        /\ op'[p][t].saw \in {op[p][t].saw, NoFile}
    <2>1. CASE Ends(p, t)
      BY <2>1, EndsOp DEF Idle
    <2>2. CASE SetsName(p, t, made') /\ made' \in keys'
      BY <2>2, <1>2, NamesOp
    <2> QED  BY <2>1, <2>2 DEF NewKey, Fails, SetsName
  <1>7. TypeOK'
    <2>1. \A q \in Profiles : q \notin open => \A u \in Threads : op'[q][u] = Idle
      BY <1>1, <1>6 DEF TypeOK, Only
    <2>2. keys' \subseteq 1 .. made' /\ named' \subseteq 1 .. made'
      <3>1. made' \in 1 .. made'
        BY <1>2
      <3> QED  BY <1>1, <1>3, <1>5, <3>1
    <2> QED  BY <1>1, <1>2, <1>6, <2>1, <2>2 DEF TypeOK, fate, Only, Doings
  <1>8. Named'
    BY <1>1 DEF Named
  <1>9. Naming'
    <2>1. ASSUME NEW q \in Profiles, NEW u \in Threads, q # p \/ u # t, At(q, u, "name")'
          PROVE  q # p /\ New(q, u)' /\ op'[q][u].id # made' /\ At(q, u, "name")
      <3>1. op'[q][u] = op[q][u] /\ At(q, u, "name")
        BY <1>6, <2>1 DEF Only, At
      <3>2. q # p
        BY <3>1 DEF NewKey, Alone
      <3>3. New(q, u) /\ op[q][u].id # made'
        BY <1>3, <3>1 DEF Naming, New
      <3> QED  BY <1>1, <1>5, <3>1, <3>2, <3>3 DEF New
    <2>2. At(p, t, "name")' => New(p, t)' /\ op'[p][t].id = made'
      BY <1>1, <1>3, <1>6 DEF At, New
    <2>3. \A q \in Profiles, u \in Threads : q # p => op'[q][u] = op[q][u]
      BY <1>6 DEF Only
    <2>4. ASSUME NEW q \in Profiles, NEW u \in Threads, At(q, u, "name")',
                 NEW r \in Profiles, NEW v \in Threads, At(r, v, "name")',
                 r = q \/ op'[r][v].id = op'[q][u].id
          PROVE  r = q /\ v = u
      <3>1. CASE q = p /\ u = t
        BY <2>1, <2>2, <2>4, <3>1
      <3>2. CASE ~(q = p /\ u = t) /\ r = p /\ v = t
        BY <2>1, <2>2, <2>4, <3>2
      <3>3. CASE ~(q = p /\ u = t) /\ ~(r = p /\ v = t)
        <4>1. q # p /\ r # p /\ At(q, u, "name") /\ At(r, v, "name")
          BY <2>1, <2>4, <3>3
        <4> QED  BY <2>3, <2>4, <4>1 DEF Naming
      <3> QED  BY <3>1, <3>2, <3>3
    <2> QED  BY <2>1, <2>2, <2>4 DEF Naming
  <1>10. Going'
    <2>1. Seen(p, t) /\ NoFile.form = "none"
      BY DEF Going, NoFile
    <2>2. Keyed(p, t)' /\ Seen(p, t)'
      BY <1>1, <1>6, <2>1 DEF Keyed, Seen, At
    <2>3. Starting(p)'
      BY <1>1, <1>6, StartingEnds, StartingGoes
    <2> QED  BY <1>1, <1>6, <2>2, <2>3, GoingKept
  <1>11. Openable' /\ Sealing'
    BY <1>1, <1>5 DEF Openable, Sealing, fate
  <1>12. Erasing'
    <2>1. Closed' /\ Sharers'
      BY <1>1 DEF Erasing, Closed, Standing, Sharers, fate
    <2>2. Through'
      <3>1. Through /\ Doomed \subseteq Profiles /\ UNCHANGED <<purge, gone, marker>>
        BY <1>1, VaultAssumption DEF Erasing, fate
      <3> QED  BY <1>5, <1>4, <3>1 DEF Through, Standing
    <2>3. Owned'
      BY <1>1, <1>3, <1>5 DEF Erasing, Owned, fate
    <2> QED  BY <2>1, <2>2, <2>3 DEF Erasing
  <1> QED  BY <1>7, <1>8, <1>9, <1>10, <1>11, <1>12

LEMMA NameKeyInv ==
  ASSUME IInv, NEW p \in Profiles, NEW t \in Threads, NameKey(p, t) PROVE IInv'
  <1> USE DEF IInv
  <1>1. op[p][t].at = "name" /\ p \in open /\ faults' \in 0 .. MaxFault
    BY BusyOpen, Faults DEF NameKey, At, Fails, Sound
  <1>2. CASE Ends(p, t) /\ UNCHANGED <<marker, named>>
    <2>1. UNCHANGED <<store, format, file, app, fate>>
      BY <1>2 DEF NameKey, store
    <2> QED  BY <1>1, <1>2, <2>1, Ended
  <1>3. CASE /\ Goes(p, t, "key")
             /\ marker' = [marker EXCEPT ![p] = op[p][t].id]
             /\ named' = named \cup {op[p][t].id}
    <2> DEFINE k == op[p][t].id
    <2>1. k \in keys \ named /\ k \in Ids /\ k # 0 /\ k \in 1 .. made /\ marker[p] = 0
      <3>1. k \in keys \ named /\ marker[p] = 0 /\ k \in Ids
        BY <1>1, OpTyped DEF Naming, New, At, Op
      <3> HIDE DEF k
      <3> QED  BY <3>1 DEF TypeOK
    <2>2. /\ Only(p, t) /\ op'[p][t].at = "key" /\ op'[p][t].do = op[p][t].do
          /\ op'[p][t].saw = op[p][t].saw
      BY <1>3, GoesOp DEF Places
    <2>3. /\ marker' \in [Profiles -> Ids] /\ marker'[p] = k /\ named' = named \cup {k}
          /\ \A q \in Profiles \ {p} : marker'[q] = marker[q]
      BY <1>3, <2>1 DEF TypeOK
    <2>4. \A q \in Profiles : marker[q] # k
      BY <2>1 DEF Named
    <2>5. UNCHANGED <<keys, made, format, file, open, cached, written, fate>>
      BY DEF NameKey, app
    <2> HIDE DEF k
    <2>6. TypeOK'
      <3>1. \A q \in Profiles : q \notin open => \A u \in Threads : op'[q][u] = Idle
        BY <1>1, <2>2 DEF TypeOK, Only
      <3>2. \A q \in Profiles : cached[q] # 0 => q \in open /\ cached[q] = marker'[q]
        BY <2>1, <2>3 DEF TypeOK
      <3>3. named' \subseteq 1 .. made
        BY <2>1, <2>3 DEF TypeOK
      <3> QED  BY <1>1, <2>2, <2>3, <2>5, <3>1, <3>2, <3>3 DEF TypeOK, fate, Only, Doings
    <2>7. Named'
      BY <2>3 DEF Named
    <2>8. Naming'
      <3>1. ASSUME NEW q \in Profiles, NEW u \in Threads, At(q, u, "name")'
            PROVE  /\ q # p /\ op'[q][u] = op[q][u] /\ At(q, u, "name")
                   /\ op[q][u].id # k
        <4>1. q # p \/ u # t
          BY <2>2, <3>1 DEF At
        <4>2. op'[q][u] = op[q][u] /\ At(q, u, "name")
          BY <2>2, <3>1, <4>1 DEF Only, At
        <4> QED  BY <1>1, <4>1, <4>2 DEF Naming, At, k
      <3>2. ASSUME NEW q \in Profiles, NEW u \in Threads, At(q, u, "name")' PROVE New(q, u)'
        BY <2>3, <2>5, <3>1, <3>2 DEF Naming, New
      <3> QED  BY <3>1, <3>2 DEF Naming
    <2>9. Going'
      <3>1. Seen(p, t)
        BY DEF Going
      <3>2. Keyed(p, t)' /\ Seen(p, t)'
        BY <2>2, <2>5, <3>1 DEF Keyed, Seen, At
      <3>3. Starting(p)'
        BY <1>1, <2>2, StartingGoes
      <3> QED  BY <2>2, <2>5, <3>2, <3>3, GoingKept
    <2>10. Openable' /\ Sealing'
      <3>1. UNCHANGED <<keys, file, format, erased>>
        BY <2>5 DEF fate
      <3>2. ASSUME NEW q \in Profiles
            PROVE  /\ file[q].form = "sealed" => file[q].id = marker'[q] /\ marker'[q] # 0
                   /\ q \in format => marker'[q] # 0
                   /\ q \notin erased => marker'[q] = 0 \/ marker'[q] \in keys
        BY <2>1, <2>3 DEF Openable, Sealing
      <3> QED  BY <3>1, <3>2 DEF Openable, Sealing
    <2>11. Closed'
      <3>1. Closed /\ gone \subseteq Profiles /\ UNCHANGED <<gone, open, purge>>
        BY <2>5, VaultAssumption DEF Erasing, fate, TypeOK
      <3> QED  BY <1>1, <2>3, <3>1 DEF Closed, Standing
    <2>12. Sharers'
      <3>1. Sharers /\ UNCHANGED purge /\ Doomed \subseteq Profiles
        BY <2>5, VaultAssumption DEF Erasing, fate
      <3> QED  BY <2>1, <2>3, <2>4, <3>1 DEF Sharers
    <2>13. Through'
      <3>1. /\ Closed /\ Through /\ Doomed \subseteq Profiles
            /\ UNCHANGED <<purge, gone, keys>>
        BY <2>5, VaultAssumption DEF Erasing, fate
      <3> QED  BY <1>1, <2>3, <3>1 DEF Through, Closed, Standing
    <2>14. Owned'
      <3>1. p \in Profiles \ gone
        BY <1>1 DEF Erasing, Closed
      <3>2. ASSUME NEW j \in keys \cap named PROVE \E q \in Profiles \ gone : marker'[q] = j
        <4>1. PICK q \in Profiles \ gone : marker[q] = j
          BY DEF Erasing, Owned
        <4>2. j # 0
          BY DEF TypeOK
        <4> QED  BY <2>1, <2>3, <4>1, <4>2
      <3> QED  BY <2>3, <2>5, <3>1, <3>2 DEF Owned, fate
    <2> QED  BY <2>6, <2>7, <2>8, <2>9, <2>10, <2>11, <2>12, <2>13, <2>14 DEF Erasing
  <1> QED  BY <1>2, <1>3 DEF NameKey, Fails
-----------------------------------------------------------------------------
(* The record                                                              *)

LEMMA SealedInv ==
  ASSUME IInv, NEW p \in Profiles, NEW t \in Threads, NEW x \in 0 .. MaxText,
         Only(p, t), p \in open, op'[p][t].at # "name",
         file' = [file EXCEPT ![p] = Sealed(cached[p], x)], cached[p] # 0,
         UNCHANGED <<store, format, open, cached, fate>>,
         Keyed(p, t)', Starting(p)', op'[p][t].at # "reseal",
         written' \in 1 .. MaxText, faults' \in 0 .. MaxFault
  PROVE  IInv'
  <1> USE DEF IInv
  <1>1. Sealed(cached[p], x) \in Record /\ cached[p] = marker[p]
    BY DEF Sealed, Record, TypeOK
  <1>2. /\ file' \in [Profiles -> Record] /\ file'[p].form = "sealed" /\ file'[p].id = marker[p]
        /\ \A q \in Profiles \ {p} : file'[q] = file[q]
    BY <1>1 DEF TypeOK, Sealed
  <1>3. TypeOK'
    BY <1>2, TypesKept DEF TypeOK
  <1>4. Named' /\ Naming'
    BY NamingKept
  <1>5. Going'
    <2>1. ASSUME NEW q \in Profiles, NEW u \in Threads PROVE Keyed(q, u)' /\ Seen(q, u)'
      <3>1. CASE q = p /\ u = t
        BY <1>2, <3>1 DEF Seen, At
      <3>2. CASE q # p \/ u # t
        <4>1. op'[q][u] = op[q][u] /\ Keyed(q, u) /\ Seen(q, u)
          BY <3>2 DEF Only, Going
        <4> QED  BY <1>2, <4>1 DEF Keyed, Seen, At
      <3> QED  BY <3>1, <3>2
    <2>2. ASSUME NEW q \in Profiles PROVE Starting(q)'
      <3>1. q # p => Starting(q) /\ \A u \in Threads : op'[q][u] = op[q][u]
        BY DEF Only, Going
      <3> QED  BY <3>1, VaultAssumption DEF Starting
    <2> QED  BY <2>1, <2>2 DEF Going
  <1>6. Openable' /\ Sealing'
    <2>1. UNCHANGED <<marker, keys, format, erased>>
      BY DEF store, fate
    <2> QED  BY <1>1, <1>2, <2>1 DEF Openable, Sealing
  <1>7. Erasing'
    BY ErasingKept
  <1> QED  BY <1>3, <1>4, <1>5, <1>6, <1>7

LEMMA ResealInv ==
  ASSUME IInv, NEW p \in Profiles, NEW t \in Threads, Reseal(p, t) PROVE IInv'
  <1> USE DEF IInv
  <1>1. /\ op[p][t].at = "reseal" /\ p \in open /\ faults' \in 0 .. MaxFault
        /\ cached[p] # 0 /\ op[p][t].saw.text \in 0 .. MaxText
        /\ UNCHANGED <<store, format, open, cached, written, fate>>
    BY BusyOpen, Faults, OpTyped DEF Reseal, At, Fails, Sound, app, Going, Keyed, Op, Record
  <1>2. CASE Ends(p, t) /\ UNCHANGED file
    BY <1>1, <1>2, Ended DEF app
  <1>3. CASE /\ Found(p, t) \/ Ends(p, t)
             /\ file' = [file EXCEPT ![p] = Sealed(cached[p], op[p][t].saw.text)]
    <2>1. /\ Only(p, t) /\ op'[p][t].at \in {"end", "put"}
          /\ op'[p][t] = Idle \/ op'[p][t].do = op[p][t].do
      <3>1. CASE Ends(p, t)
        BY <3>1, EndsOp DEF Idle
      <3>2. CASE Goes(p, t, "put")
        BY <3>2, GoesOp DEF Places
      <3> QED  BY <1>3, <3>1, <3>2 DEF Found
    <2>2. Keyed(p, t)'
      BY <1>1, <2>1 DEF Keyed, At
    <2>3. Starting(p)'
      BY <1>1, <2>1, StartingEnds, StartingGoes
    <2>4. written' \in 1 .. MaxText
      BY <1>1 DEF TypeOK
    <2> QED  BY <1>1, <1>3, <2>1, <2>2, <2>3, <2>4, SealedInv
  <1> QED  BY <1>2, <1>3 DEF Reseal, Fails

LEMMA PutInv ==
  ASSUME IInv, NEW p \in Profiles, NEW t \in Threads, Put(p, t) PROVE IInv'
  <1> USE DEF IInv
  <1>1. /\ op[p][t].at = "put" /\ p \in open /\ faults' \in 0 .. MaxFault
        /\ cached[p] # 0 /\ UNCHANGED <<store, format, open, cached, fate>>
    BY BusyOpen, Faults DEF Put, At, Fails, Sound, Going, Keyed
  <1>2. Ends(p, t)
    BY DEF Put, Fails
  <1>3. CASE UNCHANGED <<file, written>>
    BY <1>1, <1>2, <1>3, Ended DEF app
  <1>4. CASE written' = written + 1 /\ file' = [file EXCEPT ![p] = Sealed(cached[p], written')]
    <2>1. Only(p, t) /\ op'[p][t] = Idle
      BY <1>2, EndsOp
    <2>2. Keyed(p, t)' /\ op'[p][t].at = "end"
      BY <2>1 DEF Keyed, At, Idle
    <2>3. Starting(p)'
      BY <2>1, StartingEnds
    <2>4. written' \in 1 .. MaxText /\ written' \in 0 .. MaxText
      BY <1>4, VaultAssumption DEF Put, TypeOK
    <2> QED  BY <1>1, <1>4, <2>1, <2>2, <2>3, <2>4, SealedInv
  <1> QED  BY <1>3, <1>4 DEF Put

LEMMA FinishMigrationInv == ASSUME IInv, NEW p \in Profiles, FinishMigration(p) PROVE IInv'
  <1> USE DEF IInv
  <1>0. Main \in Threads
    BY VaultAssumption
  <1>1. /\ op[p][Main].at = "put" /\ op[p][Main].do = "migrate" /\ p \in open
        /\ faults' \in 0 .. MaxFault /\ Ends(p, Main) /\ UNCHANGED <<store, file, app, fate>>
    BY <1>0, BusyOpen, Faults DEF FinishMigration, At, Fails, Sound
  <1>2. CASE UNCHANGED format
    BY <1>0, <1>1, <1>2, Ended
  <1>3. CASE format' = format \cup {p}
    <2>1. /\ Only(p, Main) /\ op'[p][Main] = Idle
          /\ Idle.at = "end" /\ Idle.saw.form = "none"
      BY <1>0, <1>1, EndsOp DEF Idle, NoFile
    <2>2. \A t \in Threads \ {Main} : op[p][t] = Idle
      BY <1>1 DEF Going, Starting
    <2>3. \A t \in Threads : op'[p][t] = Idle
      BY <1>0, <2>1, <2>2 DEF Only
    <2>4. TypeOK'
      BY <1>0, <1>1, <1>3, <2>1, TypesKept DEF app, TypeOK
    <2>5. Named' /\ Naming'
      BY <1>0, <1>1, <2>1, NamingKept
    <2>6. Going'
      <3>1. ASSUME NEW q \in Profiles, NEW u \in Threads PROVE Keyed(q, u)' /\ Seen(q, u)'
        <4>1. CASE q = p
          BY <2>1, <2>3, <4>1 DEF Keyed, Seen, At
        <4>2. CASE q # p
          <5>1. op'[q][u] = op[q][u] /\ Keyed(q, u) /\ Seen(q, u) /\ UNCHANGED <<cached, file>>
            BY <1>1, <2>1, <4>2 DEF Only, Going, app
          <5> QED  BY <1>3, <4>2, <5>1 DEF Keyed, Seen, At
        <4> QED  BY <4>1, <4>2
      <3>2. ASSUME NEW q \in Profiles PROVE Starting(q)'
        <4>1. q # p => Starting(q) /\ \A u \in Threads : op'[q][u] = op[q][u]
          BY <2>1 DEF Only, Going
        <4> QED  BY <2>3, <4>1, <1>0 DEF Starting
      <3> QED  BY <3>1, <3>2 DEF Going
    <2>7. marker[p] # 0
      BY <1>0, <1>1 DEF Going, Keyed, At, TypeOK
    <2>8. Openable' /\ Sealing'
      BY <1>1, <1>3, <2>7 DEF Openable, Sealing, store, fate
    <2>9. Erasing'
      BY <1>1, ErasingKept DEF app
    <2> QED  BY <2>4, <2>5, <2>6, <2>8, <2>9
  <1> QED  BY <1>2, <1>3 DEF FinishMigration
-----------------------------------------------------------------------------
(* The world, and the uninstall                                            *)

LEMMA DamageInv == ASSUME IInv, NEW p \in Profiles, Damage(p) PROVE IInv'
  <1> USE DEF IInv
  <1>1. /\ file' \in [Profiles -> Record] /\ file'[p].form \in {"plain", "damaged"}
        /\ \A q \in Profiles \ {p} : file'[q] = file[q]
    BY VaultAssumption DEF Damage, TypeOK, Plain, Record, Ids
  <1>2. UNCHANGED <<store, format, app, op, fate>> /\ faults' \in 0 .. MaxFault
    BY Faults DEF Damage
  <1>3. TypeOK'
    BY <1>1, <1>2 DEF TypeOK, store, app, fate
  <1>4. Named' /\ Naming'
    BY <1>2 DEF Named, Naming, New, At, store
  <1>5. Going'
    <2>1. Idle.at = "end" /\ Idle.saw.form = "none" /\ \A t \in Threads : op[p][t] = Idle
      BY DEF Idle, NoFile, Damage
    <2>2. ASSUME NEW q \in Profiles, NEW u \in Threads PROVE Keyed(q, u)' /\ Seen(q, u)'
      <3>1. CASE q = p
        BY <1>2, <2>1, <3>1 DEF Keyed, Seen, At
      <3>2. CASE q # p
        BY <1>1, <1>2, <3>2 DEF Going, Keyed, Seen, At, app
      <3> QED  BY <3>1, <3>2
    <2>3. ASSUME NEW q \in Profiles PROVE Starting(q)'
      BY <1>2 DEF Going, Starting
    <2> QED  BY <2>2, <2>3 DEF Going
  <1>6. Openable' /\ Sealing'
    BY <1>1, <1>2 DEF Openable, Sealing, store, fate
  <1>7. Erasing'
    BY <1>2, ErasingKept DEF app
  <1> QED  BY <1>3, <1>4, <1>5, <1>6, <1>7

LEMMA CopyInv ==
  ASSUME IInv, NEW p \in Profiles, NEW q \in Profiles, Copy(p, q) PROVE IInv'
  <1> USE DEF IInv
  <1>1. /\ marker' \in [Profiles -> Ids] /\ marker'[q] = marker[p]
        /\ \A r \in Profiles \ {q} : marker'[r] = marker[r]
        /\ file' \in [Profiles -> Record] /\ file'[q] = file[p]
        /\ \A r \in Profiles \ {q} : file'[r] = file[r]
    BY DEF Copy, TypeOK
  <1>2. /\ q # p /\ marker[p] # 0 /\ marker[q] = 0 /\ q \notin open /\ q \notin gone
        /\ p \notin erased /\ purge.at = "no" /\ cached[q] = 0
        /\ \A u \in Threads : op[q][u] = Idle
    BY DEF Copy, NoPurge, TypeOK
  <1>3. UNCHANGED <<keys, made, named, app, op, fate, faults>>
    BY DEF Copy
  <1>4. /\ format' \subseteq Profiles /\ (q \in format' <=> p \in format)
        /\ format' \ {q} = format \ {q}
    BY <1>2 DEF Copy, TypeOK
  <1>5. TypeOK'
    BY <1>1, <1>2, <1>3, <1>4 DEF TypeOK, app, fate
  <1>6. Named'
    BY <1>1, <1>3 DEF Named
  <1>7. Naming'
    <2>1. Idle.at = "end"
      BY DEF Idle
    <2>2. ASSUME NEW r \in Profiles, NEW u \in Threads, At(r, u, "name")
          PROVE  New(r, u)'
      BY <1>1, <1>2, <1>3, <2>1, <2>2 DEF Naming, New, At
    <2> QED  BY <1>3, <2>2 DEF Naming, At
  <1>8. Going'
    <2>1. Idle.at = "end" /\ Idle.saw.form = "none"
      BY DEF Idle, NoFile
    <2>2. ASSUME NEW r \in Profiles, NEW u \in Threads PROVE Keyed(r, u)' /\ Seen(r, u)'
      <3>1. CASE r = q
        BY <1>2, <1>3, <2>1, <3>1 DEF Keyed, Seen, At
      <3>2. CASE r # q
        <4>1. file'[r] = file[r] /\ (r \in format' <=> r \in format) /\ UNCHANGED <<cached, op>>
          BY <1>1, <1>3, <1>4, <3>2 DEF app
        <4> QED  BY <4>1 DEF Going, Keyed, Seen, At
      <3> QED  BY <3>1, <3>2
    <2>3. ASSUME NEW r \in Profiles PROVE Starting(r)'
      BY <1>3 DEF Going, Starting
    <2> QED  BY <2>2, <2>3 DEF Going
  <1>9. Openable'
    BY <1>1, <1>2, <1>3 DEF Openable, fate
  <1>10. Sealing'
    BY <1>1, <1>2, <1>4 DEF Sealing
  <1>11. Erasing'
    <2>0. UNCHANGED <<purge, gone, open>> /\ Closed /\ gone \subseteq Profiles
      BY <1>3, VaultAssumption DEF app, fate, Erasing, TypeOK
    <2>1. Closed' /\ Sharers' /\ Through'
      BY <1>1, <1>2, <2>0 DEF Closed, Sharers, Through
    <2>2. ASSUME NEW k \in keys \cap named PROVE \E r \in Profiles \ gone : marker'[r] = k
      <3>1. PICK r \in Profiles \ gone : marker[r] = k
        BY DEF Erasing, Owned
      <3>2. k # 0
        BY DEF TypeOK
      <3> QED  BY <1>1, <1>2, <3>1, <3>2
    <2> QED  BY <1>3, <2>1, <2>2 DEF Erasing, Owned, fate
  <1> QED  BY <1>5, <1>6, <1>7, <1>8, <1>9, <1>10, <1>11

(* What the uninstall does touches no thread, and no profile that is open. *)
LEMMA PurgeInv ==
  ASSUME IInv, UNCHANGED <<store, format, file, app, op, gone, erased>>,
         faults' \in 0 .. MaxFault, Closed', Sharers', Through',
         purge' \in [at : {"no", "lock", "erase", "done"}, retained : SUBSET Ids,
                     left : SUBSET Doomed]
  PROVE  IInv'
  <1> USE DEF IInv
  <1>1. TypeOK'
    BY DEF TypeOK, store, app
  <1>2. Named' /\ Naming' /\ Openable' /\ Sealing'
    BY DEF Named, Naming, New, At, Openable, Sealing, store
  <1>3. Going'
    BY DEF Going, Keyed, Seen, Starting, At, app
  <1>4. Owned'
    BY DEF Erasing, Owned, store
  <1> QED  BY <1>1, <1>2, <1>3, <1>4 DEF Erasing

LEMMA NoPurgeIs ==
  /\ NoPurge.at = "no" /\ NoPurge.left = {}
  /\ NoPurge \in [at : {"no", "lock", "erase", "done"}, retained : SUBSET Ids,
                  left : SUBSET Doomed]
  BY DEF NoPurge

LEMMA StopsInv ==
  ASSUME IInv, purge' = NoPurge, UNCHANGED <<store, format, file, app, op, gone, erased>>,
         faults' \in 0 .. MaxFault
  PROVE  IInv'
  <1>1. Closed' /\ Sharers' /\ Through'
    BY NoPurgeIs DEF IInv, Erasing, Closed, Sharers, Through, store, app
  <1> QED  BY <1>1, NoPurgeIs, PurgeInv

LEMMA SurveyInv == ASSUME IInv, Survey PROVE IInv'
  <1> USE DEF IInv
  <1>1. /\ purge'.at = "lock" /\ purge'.retained = Retained /\ faults' \in 0 .. MaxFault
        /\ UNCHANGED <<store, format, file, app, op, gone, erased>>
    BY DEF Survey, TypeOK
  <1>2. Retained \subseteq Ids
    BY VaultAssumption DEF Retained, TypeOK
  <1>3. purge' \in [at : {"no", "lock", "erase", "done"}, retained : SUBSET Ids,
                    left : SUBSET Doomed]
    BY <1>2 DEF Survey
  <1>4. Closed' /\ Sharers' /\ Through'
    BY <1>1 DEF Erasing, Closed, Sharers, Through, Retained, store, app
  <1> QED  BY <1>1, <1>3, <1>4, PurgeInv

LEMMA LockInv == ASSUME IInv, Lock PROVE IInv'
  <1> USE DEF IInv
  <1>1. /\ purge.at = "lock" /\ faults' \in 0 .. MaxFault
        /\ UNCHANGED <<store, format, file, app, op, gone, erased>>
    BY DEF Lock, TypeOK
  <1>2. CASE purge' = NoPurge
    BY <1>1, <1>2, StopsInv
  <1>3. CASE Standing \cap open = {} /\ purge' = [purge EXCEPT !.at = "erase", !.left = Standing]
    <2>1. /\ purge'.at = "erase" /\ purge'.left = Standing /\ purge'.retained = purge.retained
          /\ purge' \in [at : {"no", "lock", "erase", "done"}, retained : SUBSET Ids,
                         left : SUBSET Doomed]
      BY <1>3 DEF TypeOK, Standing
    <2>2. UNCHANGED <<gone, open, marker, keys>> /\ Closed /\ Sharers
      BY <1>1 DEF Erasing, store, app
    <2>3. Closed' /\ Through'
      BY <1>3, <2>1, <2>2 DEF Closed, Through, Standing
    <2>4. Sharers'
      BY <1>1, <2>1, <2>2 DEF Sharers
    <2> QED  BY <1>1, <2>1, <2>3, <2>4, PurgeInv
  <1> QED  BY <1>2, <1>3 DEF Lock

LEMMA UninstallDiesInv == ASSUME IInv, UninstallDies PROVE IInv'
  BY Faults, StopsInv DEF UninstallDies, IInv

LEMMA EraseKeyInv == ASSUME IInv, NEW p \in Doomed, EraseKey(p) PROVE IInv'
  <1> USE DEF IInv
  <1>0. p \in Profiles /\ Doomed \subseteq Profiles
    BY VaultAssumption
  <1>1. /\ purge.at = "erase" /\ faults' \in 0 .. MaxFault
        /\ UNCHANGED <<marker, made, named, format, file, app, op, gone>>
    BY Faults DEF EraseKey
  <1>2. CASE purge' = NoPurge /\ UNCHANGED <<keys, erased>>
    BY <1>1, <1>2, StopsInv DEF store
  <1>3. CASE /\ purge' = [purge EXCEPT !.left = @ \ {p}]
             /\ keys' = IF Erases(p) THEN keys \ {marker[p]} ELSE keys
             /\ erased' = IF Erases(p) THEN erased \cup Sharing(p) ELSE erased
    <2>1. /\ purge'.at = "erase" /\ purge'.left = purge.left \ {p}
          /\ purge'.retained = purge.retained
          /\ purge' \in [at : {"no", "lock", "erase", "done"}, retained : SUBSET Ids,
                         left : SUBSET Doomed]
      BY <1>1, <1>3 DEF TypeOK
    <2>2. keys' \subseteq keys /\ \A k \in keys \ keys' : k = marker[p] /\ k # 0
      BY <1>3 DEF Erases
    <2>3. erased' \subseteq Doomed
      BY <1>3 DEF TypeOK, Sharing, Standing
    <2>4. TypeOK'
      BY <1>1, <2>1, <2>2, <2>3 DEF TypeOK, app
    <2>5. Named' /\ Sealing' /\ Going'
      BY <1>1 DEF Named, Sealing, Going, Keyed, Seen, Starting, At, app
    <2>6. Naming'
      <3>1. ASSUME NEW q \in Profiles, NEW u \in Threads, At(q, u, "name") PROVE New(q, u)'
        <4>1. New(q, u) /\ op[q][u].id # marker[p]
          BY <1>0, <3>1 DEF Naming, New, Named, TypeOK
        <4> QED  BY <1>1, <2>2, <4>1 DEF New
      <3> QED  BY <1>1, <3>1 DEF Naming, At
    <2>7. Openable'
      <3>1. ASSUME NEW q \in Profiles \ erased', marker[q] # 0 PROVE marker[q] \in keys'
        <4>1. q \notin erased /\ marker[q] \in keys
          BY <1>3, <3>1 DEF Openable
        <4>2. ASSUME Erases(p), marker[q] = marker[p] PROVE FALSE
          <5>1. q \notin Standing
            BY <1>3, <3>1, <4>2 DEF Sharing
          <5>2. q \notin gone
            BY <3>1 DEF Erasing, Closed
          <5>3. q \in Profiles \ Doomed
            BY <3>1, <5>1, <5>2 DEF Standing
          <5>4. marker[p] \in purge.retained
            BY <1>1, <3>1, <4>2, <5>3 DEF Erasing, Sharers
          <5> QED  BY <4>2, <5>4 DEF Erases
        <4> QED  BY <1>3, <4>1, <4>2
      <3> QED  BY <1>1, <1>3, <3>1 DEF Openable
    <2>8. Closed' /\ Sharers'
      BY <1>1, <2>1 DEF Erasing, Closed, Standing, Sharers, app
    <2>9. Through'
      <3>1. ASSUME NEW q \in Standing \ (purge.left \ {p})
            PROVE  marker[q] = 0 \/ marker[q] \notin keys' \/ marker[q] \in purge.retained
        <4>1. CASE q = p
          BY <1>3, <4>1 DEF Erases
        <4>2. CASE q # p
          BY <1>1, <2>2, <3>1, <4>2 DEF Erasing, Through
        <4> QED  BY <4>1, <4>2
      <3> QED  BY <1>1, <2>1, <3>1 DEF Through, Standing
    <2>10. Owned'
      BY <1>1, <2>2 DEF Erasing, Owned
    <2> QED  BY <2>4, <2>5, <2>6, <2>7, <2>8, <2>9, <2>10 DEF Erasing
  <1> QED  BY <1>2, <1>3 DEF EraseKey

LEMMA RemoveInv == ASSUME IInv, Remove PROVE IInv'
  <1> USE DEF IInv
  <1>0. /\ purge.at = "erase" /\ purge.left = {} /\ Doomed \subseteq Profiles
        /\ UNCHANGED <<keys, made, named, app, op, erased>>
    BY VaultAssumption DEF Remove
  <1> PICK some \in SUBSET Standing :
         /\ some # Standing => Faulty
         /\ some = Standing => Sound
         /\ gone' = gone \cup some
         /\ purge' = [NoPurge EXCEPT !.at = IF some = Standing THEN "done" ELSE "no"]
         /\ file' = [p \in Profiles |-> IF p \in some THEN NoFile ELSE file[p]]
         /\ marker' = [p \in Profiles |-> IF p \in some THEN 0 ELSE marker[p]]
         /\ format' = format \ some
    BY DEF Remove
  <1>1. /\ some \subseteq Doomed /\ some \subseteq Profiles /\ some \cap open = {}
        /\ faults' \in 0 .. MaxFault
    BY <1>0, Faults DEF Standing, Erasing, Closed
  <1>2. /\ purge'.at \in {"no", "done"}
        /\ purge' \in [at : {"no", "lock", "erase", "done"}, retained : SUBSET Ids,
                       left : SUBSET Doomed]
    BY DEF NoPurge
  <1>3. /\ marker' \in [Profiles -> Ids] /\ file' \in [Profiles -> Record]
        /\ \A p \in some : marker'[p] = 0 /\ file'[p] = NoFile /\ cached[p] = 0
                            /\ \A u \in Threads : op[p][u] = Idle
        /\ \A p \in Profiles \ some : marker'[p] = marker[p] /\ file'[p] = file[p]
    BY <1>1, IdleTyped, VaultAssumption DEF TypeOK, Ids
  <1>4. Idle.at = "end" /\ Idle.saw.form = "none" /\ NoFile.form = "none"
    BY DEF Idle, NoFile
  <1>5. TypeOK'
    <2>1. \A p \in Profiles : cached[p] # 0 => p \in open /\ cached[p] = marker'[p]
      BY <1>3 DEF TypeOK
    <2>2. gone' \subseteq Doomed /\ format' \subseteq Profiles
      BY <1>1 DEF TypeOK
    <2> QED  BY <1>0, <1>1, <1>2, <1>3, <2>1, <2>2 DEF TypeOK, app
  <1>6. Named'
    BY <1>0, <1>3 DEF Named
  <1>7. Naming'
    <2>1. ASSUME NEW q \in Profiles, NEW u \in Threads, At(q, u, "name") PROVE New(q, u)'
      BY <1>0, <1>3, <1>4, <2>1 DEF Naming, New, At
    <2> QED  BY <1>0, <2>1 DEF Naming, At
  <1>8. Going'
    <2>1. ASSUME NEW q \in Profiles, NEW u \in Threads PROVE Keyed(q, u)' /\ Seen(q, u)'
      <3>1. CASE q \in some
        BY <1>0, <1>3, <1>4, <3>1 DEF Keyed, Seen, At
      <3>2. CASE q \notin some
        <4>1. file'[q] = file[q] /\ (q \in format' => q \in format) /\ UNCHANGED <<cached, op>>
          BY <1>0, <1>3, <3>2 DEF app
        <4> QED  BY <4>1 DEF Going, Keyed, Seen, At
      <3> QED  BY <3>1, <3>2
    <2>2. ASSUME NEW q \in Profiles PROVE Starting(q)'
      BY <1>0 DEF Going, Starting
    <2> QED  BY <2>1, <2>2 DEF Going
  <1>9. Openable'
    BY <1>0, <1>3, <1>4 DEF Openable
  <1>10. Sealing'
    BY <1>0, <1>3, <1>4 DEF Sealing
  <1>11. Closed'
    BY <1>0, <1>1, <1>2, <1>3 DEF Erasing, Closed, app, TypeOK
  <1>12. Sharers' /\ Through'
    BY <1>2 DEF Sharers, Through
  <1>13. Owned'
    <2>1. ASSUME NEW k \in keys \cap named PROVE \E q \in Profiles \ gone' : marker'[q] = k
      <3>1. PICK q \in Profiles \ gone : marker[q] = k
        BY DEF Erasing, Owned
      <3>2. CASE q \in some
        <4>1. k \in purge.retained
          <5>1. q \in Standing \ purge.left /\ k # 0
            BY <1>0, <3>2 DEF TypeOK
          <5> QED  BY <1>0, <3>1, <5>1 DEF Erasing, Through
        <4>2. PICK r \in Profiles \ Doomed : marker[r] = k
          BY <1>0, <4>1 DEF Erasing, Sharers
        <4>3. r \notin gone' /\ marker'[r] = k
          BY <1>1, <1>3, <4>2 DEF TypeOK
        <4> QED  BY <4>2, <4>3
      <3>3. CASE q \notin some
        BY <1>3, <3>1, <3>3
      <3> QED  BY <3>2, <3>3
    <2> QED  BY <1>0, <2>1 DEF Owned
  <1> QED  BY <1>5, <1>6, <1>7, <1>8, <1>9, <1>10, <1>11, <1>12, <1>13 DEF Erasing
-----------------------------------------------------------------------------
(* The invariant                                                           *)

LEMMA InitInv == Init => IInv
  <1> SUFFICES ASSUME Init PROVE IInv
    OBVIOUS
  <1>1. 0 \in Ids /\ 1 \in 1 .. MaxText /\ 0 \in 0 .. MaxFault
    BY VaultAssumption DEF Ids
  <1>2. /\ Idle \in Op /\ Idle.at = "end" /\ Idle.do = "nothing" /\ Idle.saw.form = "none"
        /\ NoFile \in Record /\ NoFile.form = "none"
    BY IdleTyped DEF Idle, NoFile
  <1>3. Plain(1) \in Record /\ Plain(1).form = "plain"
    BY <1>1, VaultAssumption DEF Plain, Record
  <1>4. \A p \in Profiles : file[p] \in Record /\ file[p].form # "sealed"
    BY <1>2, <1>3 DEF Init
  <1>5. TypeOK
    BY <1>1, <1>2, <1>3, NoPurgeIs DEF Init, TypeOK
  <1>6. Openable /\ Named /\ Sealing
    BY <1>4 DEF Init, Openable, Named, Sealing
  <1>7. Naming /\ Going
    BY <1>2, VaultAssumption DEF Init, Naming, Going, Keyed, Seen, Starting, At
  <1>8. Erasing
    BY NoPurgeIs DEF Init, Erasing, Closed, Sharers, Through, Owned
  <1> QED  BY <1>5, <1>6, <1>7, <1>8 DEF IInv

LEMMA UnchangedInv == IInv /\ UNCHANGED vars => IInv'
  <1> SUFFICES ASSUME IInv, UNCHANGED vars PROVE IInv'
    OBVIOUS
  <1>1. UNCHANGED <<store, format, file, app, op, fate, faults>>
    BY DEF vars
  <1>2. TypeOK'
    BY <1>1 DEF IInv, TypeOK, store, app, fate
  <1>3. Openable' /\ Named' /\ Sealing' /\ Naming'
    BY <1>1 DEF IInv, Openable, Named, Sealing, Naming, New, At, store, fate
  <1>4. Going'
    BY <1>1 DEF IInv, Going, Keyed, Seen, Starting, At, app
  <1>5. Erasing'
    BY <1>1, ErasingKept DEF IInv, app
  <1> QED  BY <1>2, <1>3, <1>4, <1>5 DEF IInv

LEMMA StepInv == IInv /\ [Next]_vars => IInv'
  <1> SUFFICES ASSUME IInv, [Next]_vars PROVE IInv'
    OBVIOUS
  <1>1. ASSUME NEW p \in Profiles,
               Start(p) \/ Write(p) \/ Quit(p) \/ FinishMigration(p) \/ Damage(p)
        PROVE  IInv'
    BY <1>1, StartInv, WriteInv, QuitInv, FinishMigrationInv, DamageInv
  <1>2. ASSUME NEW p \in Profiles, NEW t \in Threads, Thread(p, t) PROVE IInv'
    BY <1>2, ReadInv, HasKeyInv, FetchKeyInv, NewKeyInv, NameKeyInv, OpenInv, JudgeInv,
       ResealInv, PutInv DEF Thread
  <1>3. CASE Uninstall
    BY <1>3, SurveyInv, LockInv, EraseKeyInv, RemoveInv, UninstallDiesInv DEF Uninstall
  <1> QED  BY <1>1, <1>2, <1>3, CopyInv, UnchangedInv DEF Next

LEMMA SpecInv == Spec => []IInv
  BY InitInv, StepInv, PTL DEF Spec

(* The store has the key of every profile that has an identifier, and every*)
(* sealed record is sealed with it, whatever dies or is uninstalled        *)
(* (vault/src/lib.rs, key; lifecycle.rs, purge_channel_data).              *)
THEOREM VaultInvHolds == Spec => []VaultInv
  <1>1. IInv => VaultInv
    BY DEF IInv, VaultInv
  <1> QED  BY <1>1, SpecInv, PTL

(* An uninstall that says it is done has left no key that a profile was    *)
(* named after and no profile uses (lifecycle.rs, purge_channel_data).     *)
THEOREM NoKeyLeftHolds == Spec => []NoKeyLeft
  <1>1. IInv => NoKeyLeft
    BY DEF IInv, Erasing, Owned, NoKeyLeft
  <1> QED  BY <1>1, SpecInv, PTL

(* Only a thread that has read or is about to write seals a record, and    *)
(* only a copy brings a sealed one to where there was none.                *)
LEMMA Resealed ==
  ASSUME IInv, NEW p \in Profiles, NEW t \in Threads, Reseal(p, t), NEW q \in Profiles,
         Rewritten(q)
  PROVE  file[q].form # "damaged" /\ q \notin format
  <1>1. q = p
    BY DEF IInv, Reseal, Rewritten, TypeOK
  <1>2. op[p][t].saw.form = "plain" /\ p \notin format /\ file[p].form \in {"plain", "sealed"}
    BY DEF IInv, Going, Seen, Reseal
  <1> QED  BY <1>1, <1>2

LEMMA WrittenOver ==
  ASSUME IInv, NEW p \in Profiles, NEW t \in Threads, Put(p, t), NEW q \in Profiles,
         Rewritten(q)
  PROVE  file[q].form # "damaged" /\ ByWrite(q)
  <1>1. written' = written + 1 /\ file' = [file EXCEPT ![p] = Sealed(cached[p], written')]
    BY DEF Put, Rewritten
  <1>2. /\ file'[p] = Sealed(cached[p], written')
        /\ \A r \in Profiles \ {p} : file'[r] = file[r]
    BY <1>1 DEF IInv, TypeOK
  <1>3. q = p
    BY <1>2 DEF Rewritten
  <1>4. file[p].form \in {"none", "sealed"}
    BY DEF IInv, Going, Seen, Put
  <1>5. written' # written /\ file'[p].text = written'
    <2>1. written \in Nat
      BY VaultAssumption DEF IInv, TypeOK
    <2> QED  BY <1>1, <1>2, <2>1 DEF Sealed
  <1> QED  BY <1>3, <1>4, <1>5 DEF ByWrite

LEMMA CopiedTo ==
  ASSUME IInv, NEW p \in Profiles, NEW r \in Profiles, Copy(p, r), NEW q \in Profiles,
         Rewritten(q)
  PROVE  file[q].form # "damaged" /\ q \notin format
  <1>1. q = r
    BY DEF IInv, Copy, Rewritten, TypeOK
  <1> QED  BY <1>1 DEF IInv, Sealing, Copy, NoFile

(* Once the migration of a profile is complete a sealed record is replaced *)
(* by a write only, and by its own text; and what is damaged is never      *)
(* replaced (vault/src/lib.rs, read_at and write_at).                      *)
THEOREM LastWriteStandsHolds == Spec => LastWriteStands
  <1>1. IInv /\ [Next]_vars =>
          [\A p \in Profiles : Rewritten(p) =>
             /\ file[p].form # "damaged"
             /\ p \in format => ByWrite(p)]_vars
    <2> SUFFICES ASSUME IInv, [Next]_vars, NEW q \in Profiles, Rewritten(q)
                 PROVE  file[q].form # "damaged" /\ (q \in format => ByWrite(q))
      OBVIOUS
    <2>1. file' # file
      BY DEF Rewritten
    <2>2. ASSUME NEW p \in Profiles, NEW t \in Threads, Thread(p, t)
          PROVE  Reseal(p, t) \/ Put(p, t)
      BY <2>1, <2>2 DEF Thread, Read, HasKey, FetchKey, NewKey, NameKey, Open, Judge
    <2>3. ASSUME NEW p \in Profiles
          PROVE  ~(Start(p) \/ Write(p) \/ Quit(p) \/ FinishMigration(p))
      BY <2>1 DEF Start, Write, Quit, FinishMigration
    <2>4. ASSUME NEW p \in Profiles PROVE ~Damage(p)
      <3>1. ASSUME Damage(p)
            PROVE  /\ file'[p].form # "sealed"
                   /\ \A r \in Profiles \ {p} : file'[r] = file[r]
        BY <3>1 DEF Damage, IInv, TypeOK, Plain
      <3> QED  BY <3>1 DEF Rewritten
    <2>5. ~Uninstall
      <3>1. ~Remove
        BY DEF Remove, Rewritten, NoFile
      <3> QED  BY <2>1, <3>1 DEF Uninstall, Survey, Lock, EraseKey, UninstallDies
    <2>6. ~UNCHANGED vars
      BY <2>1 DEF vars
    <2> QED  BY <2>2, <2>3, <2>4, <2>5, <2>6, Resealed, WrittenOver, CopiedTo DEF Next
  <1> QED  BY <1>1, SpecInv, PTL DEF Spec, LastWriteStands
=============================================================================

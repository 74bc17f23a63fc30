--------------------------- MODULE LibraryProofs ---------------------------
(***************************************************************************)
(* What holds of the reading library for any number of records, captures,  *)
(* forms and devices.                                                      *)
(***************************************************************************)
EXTENDS Library, TLAPS, FiniteSetTheorems

USE LibraryAssumption

LEMMA Bounds ==
  /\ MaxSource \in Nat /\ MaxKey \in Nat /\ MaxRevision \in Nat /\ MaxTicket \in Nat
  /\ MaxHeld \in Nat /\ MaxFault \in Nat
  /\ 1 \in Sources /\ 1 \in Keys /\ Watched \subseteq Keys
BY DEF Sources, Keys

LEMMA Fields ==
  ASSUME NEW r \in Records
  PROVE  /\ r.source \in 0 .. MaxSource /\ r.revision \in 0 .. MaxRevision
         /\ r.deleted \in BOOLEAN /\ r.reading \in BOOLEAN
         /\ r.ticket \in Tickets /\ r.copy \in Tickets
         /\ r.revision \in Nat /\ r.ticket \in Nat /\ r.copy \in Nat
BY Bounds DEF Records, Tickets

LEMMA Typed == ASSUME TypeOK, NEW k \in Keys PROVE record[k] \in Records
BY DEF TypeOK

(* What the records that are written are made of.                          *)
LEMMA FreshIs ==
  ASSUME NEW s \in Sources, NEW b \in BOOLEAN
  PROVE  LET r == Fresh(s, b)
         IN  r \in Records /\ r.source = s /\ r.ticket = 0 /\ r.copy = 0
<1>1. None \in Records /\ None.ticket = 0 /\ None.copy = 0
  BY Bounds DEF None, Records, Tickets
<1>2. s \in 0 .. MaxSource
  BY Bounds DEF Sources
<1> QED BY <1>1, <1>2 DEF Fresh, Records

LEMMA RestoredIs ==
  ASSUME TypeOK, NEW k \in Keys, NEW b \in BOOLEAN
  PROVE  LET r == Restored(k, b)
         IN  /\ r \in Records /\ r.ticket = 0
             /\ r.source = record[k].source /\ r.copy = record[k].copy
<1>1. record[k] \in Records /\ 0 \in Tickets
  BY Typed, Bounds DEF Tickets
<1> QED BY <1>1 DEF Restored, Records

LEMMA EditedIs ==
  ASSUME TypeOK, NEW k \in Keys, NEW s \in Sources
  PROVE  LET r == Edited(k, s)
         IN  /\ r \in Records /\ r.ticket = 0 /\ r.source = s
             /\ r.copy # 0 => r.source = record[k].source /\ r.copy = record[k].copy
<1> DEFINE c == IF s = record[k].source THEN record[k].copy ELSE 0
           r == [record[k] EXCEPT !.source = s, !.ticket = 0, !.copy = c]
<1>1. /\ record[k] \in Records /\ s \in 0 .. MaxSource /\ 0 \in Tickets
      /\ c \in Tickets /\ (c # 0 => s = record[k].source /\ c = record[k].copy)
  BY Typed, Fields, Bounds DEF Sources, Tickets
<1> HIDE DEF c
<1>2. r \in Records /\ r.ticket = 0 /\ r.source = s /\ r.copy = c
  BY <1>1 DEF Records
<1>3. Edited(k, s) = r
  BY DEF Edited, c
<1> HIDE DEF r
<1> QED BY <1>1, <1>2, <1>3

(* A write changes one record, and its revision with it.                   *)
Written(k) == /\ record' \in [Keys -> Records]
              /\ \A j \in Keys \ {k} : record'[j] = record[j]
              /\ record'[k].revision = record[k].revision + 1

LEMMA PutIs ==
  ASSUME TypeOK, NEW k \in Keys, NEW r \in Records, Put(k, r)
  PROVE  /\ Written(k) /\ record'[k].source = r.source /\ record'[k].ticket = r.ticket
         /\ record'[k].copy = r.copy
<1> DEFINE n == record[k].revision + 1
           w == [r EXCEPT !.revision = n]
<1>1. n \in 0 .. MaxRevision
  <2>1. record[k].revision \in Nat /\ record[k].revision < MaxRevision /\ MaxRevision \in Nat
    BY Typed, Fields, Bounds DEF Put
  <2> QED BY <2>1
<1>2. record' = [record EXCEPT ![k] = w]
  BY DEF Put
<1> HIDE DEF n
<1>3. w \in Records /\ w.revision = n /\ w.source = r.source /\ w.ticket = r.ticket /\ w.copy = r.copy
  BY <1>1 DEF Records
<1> HIDE DEF w
<1>4. record' \in [Keys -> Records] /\ record'[k] = w /\ \A j \in Keys \ {k} : record'[j] = record[j]
  BY <1>2, <1>3 DEF TypeOK
<1> QED BY <1>3, <1>4 DEF Written, n

(* A record that is there is of some source.                               *)
Sourced == \A k \in Keys : There(k) => record[k].source \in Sources
-----------------------------------------------------------------------------
(* What a step does to the records and the captures, of four kinds.        *)

(* A write that keeps or drops what is there of a copy and of a capture.   *)
Plain(k) ==
  LET r == record[k]
      w == record'[k]
  IN  /\ k \in Keys /\ Written(k) /\ pending' \subseteq pending
      /\ UNCHANGED <<tickets, captured, elsewhere>>
      /\ w.source \in Sources
      /\ \/ void' = void
         \/ w.ticket = 0 /\ void' = void \cup ({r.ticket} \ {0})
      /\ w.ticket # 0 => w.source = r.source /\ w.ticket = r.ticket
      /\ w.copy # 0 => w.source = r.source /\ w.copy = r.copy

(* A write that begins a capture.                                          *)
Begins(k) ==
  LET r == record[k]
      w == record'[k]
  IN  /\ k \in Keys /\ Written(k) /\ UNCHANGED <<captured, elsewhere>> /\ w.source \in Sources
      /\ tickets < MaxTicket /\ tickets' = tickets + 1 /\ w.ticket = tickets'
      /\ pending' = pending \cup {[key |-> k, ticket |-> tickets', source |-> w.source]}
      /\ void' \in {void, void \cup ({r.ticket} \ {0})}
      /\ w.copy # 0 => w.source = r.source /\ w.copy = r.copy

(* A capture's text becomes the copy.                                      *)
Commits(p) ==
  LET r == record[p.key]
      w == record'[p.key]
  IN  /\ p \in pending /\ pending' = pending \ {p} /\ Written(p.key)
      /\ UNCHANGED <<tickets, void, elsewhere>>
      /\ captured' = [captured EXCEPT ![p.ticket] = p.source]
      /\ r.ticket = p.ticket /\ w.ticket = 0 /\ w.copy = p.ticket
      /\ w.source = r.source /\ w.source \in Sources

(* Another device's record.                                                *)
Foreign(k) ==
  LET r == record[k]
      w == record'[k]
  IN  /\ k \in Keys /\ pending' = pending /\ record' \in [Keys -> Records]
      /\ \A j \in Keys \ {k} : record'[j] = record[j]
      /\ \/ UNCHANGED <<tickets, captured>>
         \/ /\ tickets < MaxTicket /\ tickets' = tickets + 1
            /\ \E s \in Sources : captured' = [captured EXCEPT ![tickets'] = s]
      /\ w.source \in Sources
      /\ w.copy # 0 => captured'[w.copy] = w.source
      /\ w.ticket # 0 => [key |-> k, ticket |-> w.ticket, source |-> w.source] \in pending
      /\ void' = (void \cup {r.ticket}) \ {0, w.ticket}
      /\ synced' = synced \cup {k} /\ returned' \subseteq returned \cup void
      /\ faults' # faults

Nothing == pending' \subseteq pending /\ UNCHANGED <<record, tickets, captured, void, elsewhere>>

Effect ==
  \/ Nothing
  \/ \E k \in Keys : Plain(k) \/ Begins(k) \/ Foreign(k)
  \/ \E p \in pending : Commits(p)

LEMMA PlainPut ==
  ASSUME TypeOK, NEW k \in Keys, NEW r \in Records, Put(k, r), r.source \in Sources,
         pending' \subseteq pending, UNCHANGED <<tickets, captured, elsewhere>>,
         \/ void' = void
         \/ r.ticket = 0 /\ Voids(k),
         r.ticket # 0 => r.source = record[k].source /\ r.ticket = record[k].ticket,
         r.copy # 0 => r.source = record[k].source /\ r.copy = record[k].copy
  PROVE  Plain(k)
<1>1. /\ Written(k) /\ record'[k].source = r.source /\ record'[k].ticket = r.ticket
      /\ record'[k].copy = r.copy
  BY PutIs
<1> QED BY <1>1 DEF Plain, Voids

LEMMA BeginsIssue ==
  ASSUME TypeOK, NEW k \in Keys, NEW r \in Records, Issue(k, r), UNCHANGED <<captured, elsewhere>>,
         r.source \in Sources,
         void' = void \/ Voids(k),
         r.copy # 0 => r.source = record[k].source /\ r.copy = record[k].copy
  PROVE  Begins(k)
<1> DEFINE w == [r EXCEPT !.ticket = tickets']
<1>1. tickets < MaxTicket /\ tickets' = tickets + 1 /\ tickets' \in Tickets
  BY Bounds DEF Issue, TypeOK, Tickets
<1>2. /\ Put(k, w)
      /\ pending' = pending \cup {[key |-> k, ticket |-> tickets', source |-> r.source]}
  BY DEF Issue
<1>3. w \in Records /\ w.source = r.source /\ w.ticket = tickets' /\ w.copy = r.copy
  BY <1>1 DEF Records
<1> HIDE DEF w
<1>4. /\ Written(k) /\ record'[k].source = r.source /\ record'[k].ticket = tickets'
      /\ record'[k].copy = r.copy
  BY <1>2, <1>3, PutIs
<1> QED BY <1>1, <1>2, <1>4 DEF Begins, Voids

LEMMA FreshEffect ==
  ASSUME TypeOK, NEW s \in Sources, NEW k \in Keys, NEW b \in BOOLEAN, Put(k, Fresh(s, b)),
         pending' = pending, UNCHANGED <<tickets, captured, void, elsewhere>>
  PROVE  Plain(k)
<1> DEFINE r == Fresh(s, b)
<1>1. r \in Records /\ r.copy = 0 /\ r.ticket = 0 /\ Put(k, r) /\ r.source \in Sources
  BY FreshIs
<1> HIDE DEF r
<1> QED BY <1>1, PlainPut

LEMMA SaveEffect ==
  ASSUME TypeOK, NEW s \in Sources, Save(s) PROVE \E k \in Keys : Plain(k) \/ Begins(k)
<1>1. ASSUME NEW k \in NewKey(s), Issue(k, Fresh(s, TRUE)), void' = void,
             UNCHANGED <<captured, elsewhere>>
      PROVE  k \in Keys /\ Begins(k)
  <2>1. k \in Keys
    BY <1>1 DEF NewKey
  <2> DEFINE r == Fresh(s, TRUE)
  <2>2. r \in Records /\ r.copy = 0 /\ Issue(k, r) /\ r.source = s
    BY <1>1, FreshIs
  <2> HIDE DEF r
  <2> QED BY <1>1, <2>1, <2>2, BeginsIssue
<1>2. ASSUME NEW k \in Saved(s), Put(k, Restored(k, TRUE)), Voids(k), pending' = pending,
             UNCHANGED <<tickets, captured, elsewhere>>
      PROVE  k \in Keys /\ Plain(k)
  <2>1. k \in Keys /\ record[k].source \in Sources
    BY DEF Saved
  <2> DEFINE r == Restored(k, TRUE)
  <2>2. /\ r \in Records /\ r.ticket = 0 /\ r.source = record[k].source
        /\ r.copy = record[k].copy /\ Put(k, r)
    BY <1>2, <2>1, RestoredIs
  <2> HIDE DEF r
  <2> QED BY <1>2, <2>1, <2>2, PlainPut
<1>3. ASSUME NEW k \in Saved(s), Issue(k, Restored(k, TRUE)), Voids(k),
             UNCHANGED <<captured, elsewhere>>
      PROVE  k \in Keys /\ Begins(k)
  <2>1. k \in Keys /\ record[k].source \in Sources
    BY DEF Saved
  <2> DEFINE r == Restored(k, TRUE)
  <2>2. /\ r \in Records /\ r.source = record[k].source
        /\ r.copy = record[k].copy /\ Issue(k, r)
    BY <1>3, <2>1, RestoredIs
  <2> HIDE DEF r
  <2> QED BY <1>3, <2>1, <2>2, BeginsIssue
<1>4. ASSUME NEW k \in NewKey(s), Put(k, Fresh(s, TRUE)), pending' = pending,
             UNCHANGED <<tickets, captured, void, elsewhere>>
      PROVE  k \in Keys /\ Plain(k)
  <2>1. k \in Keys
    BY <1>4 DEF NewKey
  <2> QED BY <1>4, <2>1, FreshEffect
<1> QED
  BY <1>1, <1>2, <1>3, <1>4 DEF Save

LEMMA RestoredEffect ==
  ASSUME TypeOK, NEW k \in Keys, NEW b \in BOOLEAN, Put(k, Restored(k, b)),
         record[k].source \in Sources,
         void' = void \/ Voids(k), pending' = pending, UNCHANGED <<tickets, captured, elsewhere>>
  PROVE  Plain(k)
<1> DEFINE r == Restored(k, b)
<1>1. /\ r \in Records /\ r.ticket = 0 /\ r.source = record[k].source
      /\ r.copy = record[k].copy /\ Put(k, r)
  BY RestoredIs
<1> HIDE DEF r
<1> QED BY <1>1, PlainPut

LEMMA KeepEffect ==
  ASSUME TypeOK, NEW s \in Sources, Keep(s) \/ AddForm(s) PROVE \E k \in Keys : Plain(k)
<1>1. pending' = pending /\ UNCHANGED <<tickets, captured, elsewhere>>
  BY DEF Keep, AddForm
<1>2. ASSUME NEW b \in BOOLEAN, NEW k \in NewKey(s), Put(k, Fresh(s, b)), void' = void
      PROVE  k \in Keys /\ Plain(k)
  <2>1. k \in Keys
    BY <1>2 DEF NewKey
  <2> QED BY <1>1, <1>2, <2>1, FreshEffect
<1>3. ASSUME NEW k \in Saved(s), Put(k, Restored(k, FALSE)), Voids(k)
      PROVE  k \in Keys /\ Plain(k)
  <2>1. k \in Keys /\ record[k].source \in Sources
    BY DEF Saved
  <2> QED BY <1>1, <1>3, <2>1, RestoredEffect
<1>4. CASE Keep(s)
  BY <1>2, <1>3, <1>4 DEF Keep
<1>5. CASE AddForm(s)
  BY <1>2, <1>5 DEF AddForm
<1> QED BY <1>4, <1>5

LEMMA SeedEffect ==
  ASSUME TypeOK, Seed PROVE Nothing \/ Plain(1)
<1>1. pending' = pending /\ UNCHANGED <<tickets, captured, void, elsewhere>>
  BY DEF Seed
<1>2. Put(1, Fresh(1, TRUE)) \/ UNCHANGED record
  BY DEF Seed
<1> QED BY <1>1, <1>2, Bounds, FreshEffect DEF Nothing

LEMMA ChangeEffect ==
  ASSUME TypeOK, Sourced, NEW k \in Keys, NEW b \in BOOLEAN, Live(k),
         Put(k, [record[k] EXCEPT !.reading = b]), pending' = pending,
         UNCHANGED <<tickets, history>>
  PROVE  Plain(k)
<1> DEFINE r == [record[k] EXCEPT !.reading = b]
<1>1. record[k] \in Records /\ record[k].source \in Sources
  BY Typed DEF Sourced, Live
<1>2. /\ r \in Records /\ Put(k, r) /\ r.source = record[k].source
      /\ r.ticket = record[k].ticket /\ r.copy = record[k].copy
  BY <1>1 DEF Records
<1> HIDE DEF r
<1>3. UNCHANGED <<tickets, captured, void, elsewhere>>
  BY DEF history
<1> QED BY <1>1, <1>2, <1>3, PlainPut

LEMMA FlushEffect ==
  ASSUME TypeOK, Sourced, NEW k \in Keys, Live(k), Put(k, record[k]), pending' = pending,
         UNCHANGED <<tickets, history>>
  PROVE  Plain(k)
<1> DEFINE r == record[k]
<1>1. r \in Records /\ Put(k, r) /\ r = record[k] /\ r.source \in Sources
  BY Typed DEF Sourced, Live
<1> HIDE DEF r
<1>2. UNCHANGED <<tickets, captured, void, elsewhere>>
  BY DEF history
<1> QED BY <1>1, <1>2, PlainPut

LEMMA RefreshEffect ==
  ASSUME TypeOK, Sourced, NEW k \in Keys, Refresh(k) PROVE Begins(k)
<1> DEFINE r == record[k]
<1>1. /\ r \in Records /\ Issue(k, r) /\ r = record[k] /\ Voids(k) /\ r.source \in Sources
      /\ UNCHANGED <<captured, elsewhere>>
  BY Typed DEF Refresh, Sourced, Live
<1> HIDE DEF r
<1> QED BY <1>1, BeginsIssue

LEMMA CaptureEffect ==
  ASSUME TypeOK, Sourced, NEW p \in pending, Commit(p) \/ CaptureFailed(p)
  PROVE  Nothing \/ Commits(p) \/ Plain(p.key)
<1> DEFINE k == p.key
           t == p.ticket
<1>1. /\ k \in Keys /\ t \in Tickets /\ UNCHANGED <<tickets, void, elsewhere>>
      /\ pending' = pending \ {p}
  BY DEF TypeOK, Commit, CaptureFailed, history
<1>2. \/ /\ Expected(p) /\ Put(k, [record[k] EXCEPT !.ticket = 0, !.copy = t])
         /\ captured' = [captured EXCEPT ![t] = p.source]
      \/ Expected(p) /\ Put(k, [record[k] EXCEPT !.ticket = 0]) /\ UNCHANGED captured
      \/ UNCHANGED <<record, captured>>
  BY DEF Commit, CaptureFailed, history
<1>3. Expected(p) => record[k].ticket = t /\ record[k].source \in Sources
  BY <1>1 DEF Expected, Sourced, Live
<1> HIDE DEF k, t
<1>4. record[k] \in Records /\ 0 \in Tickets
  BY <1>1, Typed, Bounds DEF Tickets
<1>5. ASSUME Expected(p), Put(k, [record[k] EXCEPT !.ticket = 0, !.copy = t]),
             captured' = [captured EXCEPT ![t] = p.source]
      PROVE  Commits(p)
  <2> DEFINE r == [record[k] EXCEPT !.ticket = 0, !.copy = t]
  <2>1. r \in Records /\ r.ticket = 0 /\ r.source = record[k].source /\ r.copy = t /\ Put(k, r)
    BY <1>1, <1>4, <1>5 DEF Records
  <2> HIDE DEF r
  <2>2. /\ Written(k) /\ record'[k].source = record[k].source /\ record'[k].ticket = 0
        /\ record'[k].copy = t
    BY <1>1, <2>1, PutIs
  <2> QED BY <1>1, <1>3, <1>5, <2>2 DEF Commits, k, t
<1>6. ASSUME Expected(p), Put(k, [record[k] EXCEPT !.ticket = 0]), UNCHANGED captured
      PROVE  Plain(p.key)
  <2> DEFINE r == [record[k] EXCEPT !.ticket = 0]
  <2>1. /\ r \in Records /\ r.ticket = 0 /\ r.source = record[k].source
        /\ r.copy = record[k].copy /\ Put(k, r)
    BY <1>1, <1>4, <1>6 DEF Records
  <2> HIDE DEF r
  <2>2. Plain(k)
    BY <1>1, <1>3, <1>6, <2>1, PlainPut
  <2> QED BY <2>2 DEF k
<1> QED
  BY <1>1, <1>2, <1>5, <1>6 DEF Nothing

LEMMA HeldTyped ==
  ASSUME TypeOK, NEW h \in held
  PROVE  /\ h.key \in Keys /\ h.shown \in Records
         /\ h.kind \in {"form", "remove", "undo"} /\ h \in Held
BY DEF TypeOK, Held

LEMMA FormEffect ==
  ASSUME TypeOK, NEW h \in held, NEW s \in Sources, SaveForm(h, s) PROVE Plain(h.key)
<1> DEFINE k == h.key
           r == Edited(k, s)
<1>1. k \in Keys /\ Put(k, r) /\ Voids(k) /\ pending' = pending
      /\ UNCHANGED <<tickets, captured, elsewhere>>
  BY HeldTyped DEF SaveForm
<1>2. /\ r \in Records /\ r.ticket = 0
      /\ r.copy # 0 => r.source = record[k].source /\ r.copy = record[k].copy
      /\ r.source = s
  BY <1>1, EditedIs
<1> HIDE DEF r, k
<1>3. Plain(k)
  BY <1>1, <1>2, PlainPut
<1> QED BY <1>3 DEF k

LEMMA RemoveEffect ==
  ASSUME TypeOK, Sourced, NEW h \in held, Remove(h) PROVE Plain(h.key)
<1> DEFINE k == h.key
           r == [record[k] EXCEPT !.deleted = TRUE, !.ticket = 0]
<1>1. /\ k \in Keys /\ Put(k, r) /\ Voids(k) /\ pending' = pending
      /\ UNCHANGED <<tickets, captured, elsewhere>>
      /\ record[k].source \in Sources
  BY HeldTyped DEF Remove, Sourced, Live
<1>2. /\ r \in Records /\ r.ticket = 0 /\ r.source = record[k].source
      /\ r.copy = record[k].copy
  <2>1. record[k] \in Records /\ 0 \in Tickets
    BY <1>1, Typed, Bounds DEF Tickets
  <2> HIDE DEF k
  <2> QED BY <2>1 DEF Records
<1> HIDE DEF r, k
<1>3. Plain(k)
  BY <1>1, <1>2, PlainPut
<1> QED BY <1>3 DEF k

LEMMA UndoEffect ==
  ASSUME TypeOK, Sourced, NEW h \in held, UndoRemove(h) PROVE Plain(h.key)
<1>1. /\ h.key \in Keys /\ record[h.key].reading \in BOOLEAN
      /\ Put(h.key, Restored(h.key, record[h.key].reading))
      /\ pending' = pending /\ UNCHANGED <<tickets, captured, void, elsewhere>>
      /\ record[h.key].source \in Sources
  BY HeldTyped, Typed, Fields DEF UndoRemove, history, Sourced
<1> QED BY <1>1, RestoredEffect

LEMMA ForeignEffect ==
  ASSUME TypeOK, NEW k \in Keys, Exchange(k) PROVE Foreign(k)
<1>1. PICK r \in Incoming(k) :
        /\ record' = [record EXCEPT ![k] = r]
        /\ void' = (void \cup {record[k].ticket}) \ {0, r.ticket}
        /\ returned' = returned \cup (void \cap {r.ticket})
  BY DEF Exchange
<1>2. /\ r \in Records /\ r.source # 0
      /\ r.copy # 0 => captured'[r.copy] = r.source
      /\ r.ticket # 0 => [key |-> k, ticket |-> r.ticket, source |-> r.source] \in pending
  BY <1>1 DEF Incoming
<1>3. r.source \in Sources
  BY <1>2, Fields, Bounds DEF Sources
<1>4. /\ record'[k] = r /\ record' \in [Keys -> Records]
      /\ \A j \in Keys \ {k} : record'[j] = record[j]
  BY <1>1, <1>2 DEF TypeOK
<1>5. /\ pending' = pending /\ synced' = synced \cup {k} /\ faults' # faults
      /\ returned' \subseteq returned \cup void
  BY <1>1, Bounds DEF Exchange, Fault, TypeOK
<1>6. \/ UNCHANGED <<tickets, captured>>
      \/ /\ tickets < MaxTicket /\ tickets' = tickets + 1
         /\ \E s \in Sources : captured' = [captured EXCEPT ![tickets'] = s]
  BY DEF Exchange, CopiedThere
<1> QED BY <1>1, <1>2, <1>3, <1>4, <1>5, <1>6 DEF Foreign

LEMMA EffectStep == ASSUME TypeOK, Sourced, [Next]_vars PROVE Effect
<1> USE DEF history, window
<1>1. ASSUME NEW s \in Sources, Save(s) \/ Keep(s) \/ AddForm(s) PROVE Effect
  BY <1>1, SaveEffect, KeepEffect DEF Effect
<1>2. CASE Seed
  BY <1>2, SeedEffect, Bounds DEF Effect
<1>3. ASSUME NEW k \in Keys, Change(k) \/ Refresh(k) \/ Exchange(k) PROVE Effect
  <2>1. CASE Change(k)
    <3>1. PICK b \in BOOLEAN : Put(k, [record[k] EXCEPT !.reading = b])
      BY <2>1 DEF Change
    <3>2. Live(k) /\ pending' = pending /\ UNCHANGED <<tickets, history>>
      BY <2>1 DEF Change
    <3> QED BY <3>1, <3>2, ChangeEffect DEF Effect
  <2>2. CASE Refresh(k)
    BY <2>2, RefreshEffect DEF Effect
  <2>3. CASE Exchange(k)
    BY <2>3, ForeignEffect DEF Effect
  <2> QED BY <1>3, <2>1, <2>2, <2>3
<1>4. ASSUME NEW k \in Watched, Flush(k) PROVE Effect
  <2>1. /\ k \in Keys /\ pending' = pending /\ UNCHANGED <<tickets, history>>
        /\ (Live(k) /\ Put(k, record[k])) \/ UNCHANGED record
    BY <1>4, Bounds DEF Flush, Current
  <2> QED BY <2>1, FlushEffect DEF Effect, Nothing
<1>5. ASSUME NEW p \in pending, Commit(p) \/ CaptureFailed(p) PROVE Effect
  <2>1. p.key \in Keys
    BY <1>5 DEF TypeOK
  <2> QED BY <1>5, <2>1, CaptureEffect DEF Effect
<1>6. ASSUME NEW h \in held, Remove(h) \/ UndoRemove(h) PROVE Effect
  BY <1>6, RemoveEffect, UndoEffect, HeldTyped DEF Effect
<1>7. ASSUME NEW h \in held, NEW s \in Sources, SaveForm(h, s) PROVE Effect
  BY <1>7, FormEffect, HeldTyped DEF Effect
<1>8. ASSUME Nothing PROVE Effect
  BY <1>8 DEF Effect
<1>9. CASE Scroll \/ Reload \/ ScanReady \/ Crash \/ UNCHANGED vars
  BY <1>8, <1>9 DEF Scroll, Reload, ScanReady, Crash, vars, Nothing
<1>10. ASSUME NEW k \in Keys, Show("form", k) \/ Show("remove", k) PROVE Effect
  BY <1>8, <1>10 DEF Show, Nothing
<1>11. ASSUME NEW k \in Watched, Open(k) \/ List(k) PROVE Effect
  BY <1>8, <1>11 DEF Open, List, Nothing
<1>12. ASSUME NEW h \in held, LetGo(h) PROVE Effect
  BY <1>8, <1>12 DEF LetGo, Nothing
<1> QED
  BY <1>1, <1>2, <1>3, <1>4, <1>5, <1>6, <1>7, <1>9, <1>10, <1>11, <1>12 DEF Next
-----------------------------------------------------------------------------
(* What a step does to what this window shows and to its scan.             *)
Looks ==
  \/ UNCHANGED <<view, scan>>
  \/ \E k \in Watched : /\ view' = [view EXCEPT ![k] = record'[k].revision]
                        /\ scan' = [scan EXCEPT !.stale = scan.on]
  \/ Reload
  \/ \E k \in Watched : List(k)
  \/ ScanReady
  \/ Crash

LEMMA RemembersIs == ASSUME NEW k, Remembers(k) PROVE Looks
BY DEF Remembers, Remember, Looks

LEMMA LooksStep == ASSUME TypeOK, [Next]_vars PROVE Looks
<1> USE DEF history, window
<1>1. ASSUME NEW s \in Sources, Save(s) \/ Keep(s) \/ AddForm(s) PROVE Looks
  BY <1>1, RemembersIs DEF Save, Keep, AddForm
<1>2. ASSUME UNCHANGED <<view, scan>> PROVE Looks
  BY <1>2 DEF Looks
<1>3. CASE Seed
  BY <1>2, <1>3, RemembersIs DEF Seed
<1>4. ASSUME NEW k \in Keys, Change(k) \/ Refresh(k) PROVE Looks
  BY <1>4, RemembersIs DEF Change, Refresh
<1>5. ASSUME NEW k \in Keys, Exchange(k) \/ Show("form", k) \/ Show("remove", k) PROVE Looks
  BY <1>2, <1>5 DEF Exchange, Show
<1>6. ASSUME NEW k \in Watched, Flush(k) PROVE Looks
  BY <1>2, <1>6 DEF Flush, Remember, Looks
<1>7. ASSUME NEW k \in Watched, Open(k) PROVE Looks
  BY <1>7 DEF Open, Looks
<1>8. ASSUME NEW p \in pending, Commit(p) \/ CaptureFailed(p) PROVE Looks
  BY <1>2, <1>8, RemembersIs DEF Commit, CaptureFailed
<1>9. ASSUME NEW h \in held, Remove(h) \/ UndoRemove(h) PROVE Looks
  BY <1>9, RemembersIs DEF Remove, UndoRemove
<1>10. ASSUME NEW h \in held, NEW s \in Sources, SaveForm(h, s) PROVE Looks
  BY <1>10, RemembersIs DEF SaveForm
<1>11. ASSUME NEW h \in held, LetGo(h) PROVE Looks
  BY <1>2, <1>11 DEF LetGo
<1>12. CASE Scroll \/ UNCHANGED vars
  BY <1>2, <1>12 DEF Scroll, vars
<1>13. ASSUME NEW k \in Watched, List(k) PROVE Looks
  BY <1>13 DEF Looks
<1>14. CASE Reload \/ ScanReady \/ Crash
  BY <1>14 DEF Looks
<1> QED
  BY <1>1, <1>3, <1>4, <1>5, <1>6, <1>7, <1>8, <1>9, <1>10, <1>11, <1>12, <1>13, <1>14 DEF Next

(* What a step does to the forms, confirmations and undos on the screen:   *)
(* one comes up with what is there, and writes only over that.             *)
Holds ==
  \/ held' \subseteq held /\ \A h \in held : record'[h.key] = record[h.key] \/ h \in held'
  \/ UNCHANGED record /\ Cardinality(held) < MaxHeld
     /\ \E k \in Keys, kind \in {"form", "remove"} :
          held' = held \cup {[kind |-> kind, key |-> k, shown |-> record'[k]]}
  \/ \E h \in held :
       /\ AsShown(h)
       /\ \/ held' = held \ {h}
          \/ held' = (held \ {h}) \cup
               {[kind |-> "undo", key |-> h.key, shown |-> record'[h.key]]}

LEMMA HoldsStep == ASSUME TypeOK, [Next]_vars PROVE Holds
<1> USE DEF history, window
<1>1. ASSUME UNCHANGED held PROVE Holds
  BY <1>1 DEF Holds
<1>2. ASSUME NEW s \in Sources, Save(s) \/ Keep(s) \/ AddForm(s) PROVE Holds
  BY <1>1, <1>2 DEF Save, Keep, AddForm
<1>3. CASE Seed \/ Scroll \/ Reload \/ ScanReady \/ UNCHANGED vars
  BY <1>1, <1>3 DEF Seed, Scroll, Reload, ScanReady, vars
<1>4. CASE Crash
  BY <1>4 DEF Crash, Holds
<1>5. ASSUME NEW k \in Keys, Change(k) \/ Refresh(k) \/ Exchange(k) PROVE Holds
  BY <1>1, <1>5 DEF Change, Refresh, Exchange
<1>6. ASSUME NEW k \in Keys, NEW kind \in {"form", "remove"}, Show(kind, k) PROVE Holds
  BY <1>6 DEF Show, Holds
<1>7. ASSUME NEW k \in Watched, Open(k) \/ Flush(k) \/ List(k) PROVE Holds
  BY <1>1, <1>7 DEF Open, Flush, List
<1>8. ASSUME NEW p \in pending, Commit(p) \/ CaptureFailed(p) PROVE Holds
  BY <1>1, <1>8 DEF Commit, CaptureFailed
<1>9. ASSUME NEW h \in held, LetGo(h) PROVE Holds
  BY <1>9 DEF LetGo, Holds
<1>10. ASSUME NEW h \in held, Remove(h) \/ UndoRemove(h) PROVE Holds
  BY <1>10 DEF Remove, UndoRemove, Holds
<1>11. ASSUME NEW h \in held, NEW s \in Sources, SaveForm(h, s) PROVE Holds
  BY <1>11 DEF SaveForm, Holds
<1> QED
  BY <1>2, <1>3, <1>4, <1>5, <1>6, <1>7, <1>8, <1>9, <1>10, <1>11 DEF Next
-----------------------------------------------------------------------------
(* Type correctness, a variable or two at a time.                          *)
TypeInv == TypeOK /\ Sourced /\ IsFiniteSet(held)

LEMMA RecordTyped ==
  ASSUME TypeOK, Effect
  PROVE  /\ record' \in [Keys -> Records] /\ tickets' \in Tickets
         /\ captured' \in [Tickets -> 0 .. MaxSource] /\ void' \subseteq Tickets
         /\ synced' \subseteq Keys /\ returned' \subseteq Tickets
<1> USE DEF elsewhere
<1>1. CASE Nothing
  BY <1>1 DEF Nothing, TypeOK
<1>2. ASSUME NEW k \in Keys
      PROVE  /\ void \cup ({record[k].ticket} \ {0}) \subseteq Tickets
             /\ \A t : (void \cup {record[k].ticket}) \ {0, t} \subseteq Tickets
  BY <1>2, Typed, Fields DEF TypeOK
<1>3. ASSUME NEW t \in Tickets, NEW s \in 0 .. MaxSource, captured' = [captured EXCEPT ![t] = s]
      PROVE  captured' \in [Tickets -> 0 .. MaxSource]
  BY <1>3 DEF TypeOK
<1>4. tickets' = tickets \/ (tickets < MaxTicket /\ tickets' = tickets + 1) => tickets' \in Tickets
  BY Bounds DEF TypeOK, Tickets
<1>5. ASSUME NEW k \in Keys, Plain(k) \/ Begins(k)
      PROVE  /\ record' \in [Keys -> Records] /\ captured' = captured /\ tickets' \in Tickets
             /\ void' \subseteq Tickets /\ synced' = synced /\ returned' = returned
  BY <1>2, <1>4, <1>5 DEF Plain, Begins, Written, TypeOK
<1>6. ASSUME NEW k \in Keys, Foreign(k)
      PROVE  /\ record' \in [Keys -> Records] /\ tickets' \in Tickets
             /\ captured' \in [Tickets -> 0 .. MaxSource] /\ void' \subseteq Tickets
             /\ synced' \subseteq Keys /\ returned' \subseteq Tickets
  <2>1. record' \in [Keys -> Records] /\ tickets' \in Tickets
    BY <1>4, <1>6 DEF Foreign
  <2>2. captured' \in [Tickets -> 0 .. MaxSource]
    <3>1. CASE captured' = captured
      BY <3>1 DEF TypeOK
    <3>2. ASSUME NEW s \in Sources, captured' = [captured EXCEPT ![tickets'] = s]
          PROVE  captured' \in [Tickets -> 0 .. MaxSource]
      <4>1. s \in 0 .. MaxSource
        BY Bounds DEF Sources
      <4> QED BY <1>3, <2>1, <3>2, <4>1
    <3> QED BY <1>6, <3>1, <3>2 DEF Foreign
  <2>3. void' \subseteq Tickets
    BY <1>2, <1>6 DEF Foreign
  <2>4. synced' \subseteq Keys /\ returned' \subseteq Tickets
    BY <1>6 DEF Foreign, TypeOK
  <2> QED BY <2>1, <2>2, <2>3, <2>4
<1>7. ASSUME NEW p \in pending, Commits(p)
      PROVE  /\ record' \in [Keys -> Records] /\ tickets' = tickets
             /\ captured' \in [Tickets -> 0 .. MaxSource] /\ void' = void
             /\ synced' = synced /\ returned' = returned
  <2>1. p.ticket \in Tickets /\ p.source \in 0 .. MaxSource
    BY Bounds DEF TypeOK, Sources
  <2>2. captured' = [captured EXCEPT ![p.ticket] = p.source]
    BY <1>7 DEF Commits
  <2>3. captured' \in [Tickets -> 0 .. MaxSource]
    BY <1>3, <2>1, <2>2
  <2> QED BY <1>7, <2>3 DEF Commits, Written
<1>8. tickets \in Tickets /\ void \subseteq Tickets /\ synced \subseteq Keys /\ returned \subseteq Tickets
      /\ captured \in [Tickets -> 0 .. MaxSource]
  BY DEF TypeOK
<1> QED
  BY <1>1, <1>5, <1>6, <1>7, <1>8 DEF Effect

LEMMA SourcedStep ==
  ASSUME TypeOK, Sourced, Effect PROVE Sourced'
<1> SUFFICES ASSUME NEW j \in Keys, record'[j].revision > 0 PROVE record'[j].source \in Sources
  BY DEF Sourced, There
<1>1. record'[j] = record[j] => record'[j].source \in Sources
  BY DEF Sourced, There
<1>2. ASSUME NEW k \in Keys, Plain(k) \/ Begins(k) \/ Foreign(k)
      PROVE  record'[j].source \in Sources
  BY <1>1, <1>2 DEF Plain, Begins, Foreign, Written
<1>3. ASSUME NEW p \in pending, Commits(p) PROVE record'[j].source \in Sources
  BY <1>1, <1>3 DEF Commits, Written
<1> QED
  BY <1>1, <1>2, <1>3 DEF Effect, Nothing

LEMMA PendingTyped ==
  ASSUME TypeOK, Sourced, [Next]_vars
  PROVE  pending' \subseteq [key : Keys, ticket : Tickets, source : Sources]
<1> DEFINE P == [key : Keys, ticket : Tickets, source : Sources]
<1> USE DEF history, window
<1>1. ASSUME pending' \subseteq pending PROVE pending' \subseteq P
  BY <1>1 DEF TypeOK
<1>2. ASSUME NEW k \in Keys, NEW r, r.source \in Sources, Issue(k, r) PROVE pending' \subseteq P
  <2>1. tickets' \in Tickets
    BY <1>2, Bounds DEF Issue, TypeOK, Tickets
  <2> QED BY <1>2, <2>1 DEF Issue, TypeOK
<1>3. ASSUME NEW s \in Sources, Save(s) PROVE pending' \subseteq P
  <2>1. ASSUME NEW k \in NewKey(s), Issue(k, Fresh(s, TRUE)) PROVE pending' \subseteq P
    <3>1. k \in Keys /\ Fresh(s, TRUE).source \in Sources
      BY FreshIs DEF NewKey
    <3> QED BY <1>2, <2>1, <3>1
  <2>2. ASSUME NEW k \in Saved(s), Issue(k, Restored(k, TRUE)) PROVE pending' \subseteq P
    <3>1. k \in Keys /\ record[k].source = s
      BY DEF Saved
    <3>2. Restored(k, TRUE).source = s
      BY <3>1, RestoredIs
    <3> QED BY <1>2, <2>2, <3>1, <3>2
  <2> QED BY <1>1, <1>3, <2>1, <2>2 DEF Save
<1>4. ASSUME NEW k \in Keys, Refresh(k) PROVE pending' \subseteq P
  <2>1. record[k].source \in Sources
    BY <1>4 DEF Refresh, Live, Sourced
  <2> QED BY <1>2, <1>4, <2>1 DEF Refresh
<1>5. ASSUME NEW s \in Sources, Keep(s) \/ AddForm(s) PROVE pending' \subseteq P
  BY <1>1, <1>5 DEF Keep, AddForm
<1>6. CASE Seed \/ Scroll \/ Reload \/ ScanReady \/ Crash \/ UNCHANGED vars
  BY <1>1, <1>6 DEF Seed, Scroll, Reload, ScanReady, Crash, vars
<1>7. ASSUME NEW k \in Keys, Change(k) \/ Show("form", k) \/ Show("remove", k) \/ Exchange(k)
      PROVE  pending' \subseteq P
  BY <1>1, <1>7 DEF Change, Show, Exchange
<1>8. ASSUME NEW k \in Watched, Open(k) \/ Flush(k) \/ List(k) PROVE pending' \subseteq P
  BY <1>1, <1>8 DEF Open, Flush, List
<1>9. ASSUME NEW p \in pending, Commit(p) \/ CaptureFailed(p) PROVE pending' \subseteq P
  BY <1>1, <1>9 DEF Commit, CaptureFailed
<1>10. ASSUME NEW h \in held, LetGo(h) \/ Remove(h) \/ UndoRemove(h) PROVE pending' \subseteq P
  BY <1>1, <1>10 DEF LetGo, Remove, UndoRemove
<1>11. ASSUME NEW h \in held, NEW s \in Sources, SaveForm(h, s) PROVE pending' \subseteq P
  BY <1>1, <1>11 DEF SaveForm
<1> QED
  BY <1>3, <1>4, <1>5, <1>6, <1>7, <1>8, <1>9, <1>10, <1>11 DEF Next

LEMMA HeldStep ==
  ASSUME TypeOK, IsFiniteSet(held), Holds, record' \in [Keys -> Records]
  PROVE  held' \subseteq Held /\ Cardinality(held') <= MaxHeld /\ IsFiniteSet(held')
<1>1. /\ held \subseteq Held /\ Cardinality(held) <= MaxHeld /\ Cardinality(held) \in Nat
      /\ MaxHeld \in Nat
  BY FS_CardinalityType, Bounds DEF TypeOK
<1>2. ASSUME NEW S \in SUBSET held
      PROVE  S \subseteq Held /\ IsFiniteSet(S) /\ Cardinality(S) \in Nat
             /\ Cardinality(S) <= Cardinality(held)
  BY <1>1, FS_Subset, FS_CardinalityType
<1>3. ASSUME NEW S, IsFiniteSet(S), S \subseteq Held, Cardinality(S) < MaxHeld,
             NEW k \in Keys, NEW kind \in {"form", "remove", "undo"},
             held' = S \cup {[kind |-> kind, key |-> k, shown |-> record'[k]]}
      PROVE  held' \subseteq Held /\ Cardinality(held') <= MaxHeld /\ IsFiniteSet(held')
  <2> DEFINE x == [kind |-> kind, key |-> k, shown |-> record'[k]]
  <2>1. x \in Held
    BY DEF Held
  <2>2. held' = S \cup {x}
    BY <1>3
  <2> HIDE DEF x
  <2>3. /\ IsFiniteSet(S \cup {x}) /\ Cardinality(S) \in Nat
        /\ Cardinality(S \cup {x}) = IF x \in S THEN Cardinality(S) ELSE Cardinality(S) + 1
    BY <1>3, FS_AddElement, FS_CardinalityType
  <2> QED BY <1>1, <1>3, <2>1, <2>2, <2>3
<1>4. CASE held' \subseteq held
  <2>1. held' \in SUBSET held
    BY <1>4
  <2>2. held' \subseteq Held /\ IsFiniteSet(held') /\ Cardinality(held') \in Nat
        /\ Cardinality(held') <= Cardinality(held)
    BY <1>2, <2>1
  <2> QED BY <1>1, <2>2
<1>5. ASSUME Cardinality(held) < MaxHeld, NEW k \in Keys, NEW kind \in {"form", "remove"},
             held' = held \cup {[kind |-> kind, key |-> k, shown |-> record'[k]]}
      PROVE  held' \subseteq Held /\ Cardinality(held') <= MaxHeld /\ IsFiniteSet(held')
  BY <1>1, <1>3, <1>5
<1>6. ASSUME NEW h \in held,
             held' = (held \ {h}) \cup
                       {[kind |-> "undo", key |-> h.key, shown |-> record'[h.key]]}
      PROVE  held' \subseteq Held /\ Cardinality(held') <= MaxHeld /\ IsFiniteSet(held')
  <2> DEFINE S == held \ {h}
  <2>1. S \in SUBSET held /\ h.key \in Keys
    BY HeldTyped
  <2>2. Cardinality(S) = Cardinality(held) - 1
    BY FS_RemoveElement
  <2>3. IsFiniteSet(S) /\ S \subseteq Held
    BY <1>2, <2>1
  <2>4. held' = S \cup {[kind |-> "undo", key |-> h.key, shown |-> record'[h.key]]}
    BY <1>6
  <2> HIDE DEF S
  <2>5. Cardinality(S) < MaxHeld
    BY <1>1, <2>2
  <2> QED BY <1>3, <2>1, <2>3, <2>4, <2>5
<1> QED
  BY <1>4, <1>5, <1>6 DEF Holds

LEMMA LooksTyped ==
  ASSUME TypeOK, Looks, record' \in [Keys -> Records]
  PROVE  /\ view' \in [Watched -> 0 .. MaxRevision]
         /\ scan' \in [left : SUBSET Watched, seen : [Watched -> 0 .. MaxRevision],
                       on : BOOLEAN, stale : BOOLEAN]
<1> DEFINE Scans == [left : SUBSET Watched, seen : [Watched -> 0 .. MaxRevision],
                     on : BOOLEAN, stale : BOOLEAN]
<1>1. view \in [Watched -> 0 .. MaxRevision] /\ scan \in Scans
  BY DEF TypeOK
<1>2. NoScan \in Scans
  BY Bounds DEF NoScan
<1>3. \A k \in Watched : /\ record[k].revision \in 0 .. MaxRevision
                         /\ record'[k].revision \in 0 .. MaxRevision
  <2> SUFFICES ASSUME NEW k \in Watched
               PROVE  /\ record[k].revision \in 0 .. MaxRevision
                      /\ record'[k].revision \in 0 .. MaxRevision
    OBVIOUS
  <2>1. record[k] \in Records /\ record'[k] \in Records
    BY Typed, Bounds
  <2> QED BY <2>1, Fields
<1>4. ASSUME NEW k \in Watched, view' = [view EXCEPT ![k] = record'[k].revision],
             scan' = [scan EXCEPT !.stale = scan.on]
      PROVE  view' \in [Watched -> 0 .. MaxRevision] /\ scan' \in Scans
  BY <1>1, <1>3, <1>4
<1>5. ASSUME Reload
      PROVE  view' \in [Watched -> 0 .. MaxRevision] /\ scan' \in Scans
  BY <1>1, <1>2, <1>5 DEF Reload
<1>6. ASSUME NEW k \in Watched, List(k)
      PROVE  view' \in [Watched -> 0 .. MaxRevision] /\ scan' \in Scans
  <2> DEFINE s == [scan.seen EXCEPT ![k] = record[k].revision]
             l == scan.left \ {k}
  <2>1. s \in [Watched -> 0 .. MaxRevision] /\ l \in SUBSET Watched
    BY <1>1, <1>3
  <2>2. scan' = [scan EXCEPT !.left = l, !.seen = s]
    BY <1>1, <1>6 DEF List
  <2>3. view' = view
    BY <1>6 DEF List
  <2> HIDE DEF s, l
  <2> QED BY <1>1, <2>1, <2>2, <2>3
<1>7. ASSUME ScanReady
      PROVE  view' \in [Watched -> 0 .. MaxRevision] /\ scan' \in Scans
  BY <1>1, <1>2, <1>7 DEF ScanReady
<1>8. ASSUME Crash
      PROVE  view' \in [Watched -> 0 .. MaxRevision] /\ scan' \in Scans
  BY <1>2, <1>8, Bounds DEF Crash
<1> HIDE DEF Scans
<1>9. ASSUME UNCHANGED <<view, scan>>
      PROVE  view' \in [Watched -> 0 .. MaxRevision] /\ scan' \in Scans
  BY <1>1, <1>9
<1>10. view' \in [Watched -> 0 .. MaxRevision] /\ scan' \in Scans
  BY <1>4, <1>5, <1>6, <1>7, <1>8, <1>9 DEF Looks
<1> QED BY <1>10 DEF Scans

LEMMA RestTyped ==
  ASSUME TypeOK, [Next]_vars
  PROVE  /\ seeded' \in BOOLEAN /\ reading' \in [key : 0 .. MaxKey, copy : Tickets]
         /\ scrolled' \in [Watched -> Tickets] /\ faults' \in 0 .. MaxFault
<1> DEFINE R == [key : 0 .. MaxKey, copy : Tickets]
           Rest == /\ seeded' \in BOOLEAN /\ reading' \in R
                   /\ scrolled' \in [Watched -> Tickets] /\ faults' \in 0 .. MaxFault
<1> USE DEF history, window
<1>1. /\ seeded \in BOOLEAN /\ reading \in R
      /\ scrolled \in [Watched -> Tickets] /\ faults \in 0 .. MaxFault
      /\ Closed \in R /\ 0 \in Tickets
  BY Bounds DEF TypeOK, Closed, Tickets
<1>2. Fault => faults' \in 0 .. MaxFault
  BY <1>1, Bounds DEF Fault
<1> HIDE DEF R
<1>3. ASSUME UNCHANGED <<seeded, reading, scrolled, faults>> PROVE Rest
  BY <1>1, <1>3
<1>4. ASSUME NEW s \in Sources, Save(s) \/ Keep(s) \/ AddForm(s) PROVE Rest
  BY <1>3, <1>4 DEF Save, Keep, AddForm
<1>5. ASSUME Seed PROVE Rest
  BY <1>1, <1>2, <1>5 DEF Seed
<1>6. ASSUME Crash PROVE Rest
  BY <1>1, <1>2, <1>6 DEF Crash
<1>7. ASSUME Scroll PROVE Rest
  <2>1. reading.copy \in Tickets
    BY <1>1 DEF R
  <2> QED BY <1>1, <1>7, <2>1 DEF Scroll
<1>8. ASSUME Reload \/ ScanReady \/ UNCHANGED vars PROVE Rest
  BY <1>3, <1>8 DEF Reload, ScanReady, vars
<1>9. ASSUME NEW k \in Keys, Change(k) \/ Refresh(k) \/ Show("form", k) \/ Show("remove", k)
      PROVE  Rest
  BY <1>3, <1>9 DEF Change, Refresh, Show
<1>10. ASSUME NEW k \in Keys, Exchange(k) PROVE Rest
  BY <1>1, <1>2, <1>10 DEF Exchange
<1>11. ASSUME NEW k \in Watched, Open(k) PROVE Rest
  <2>1. k \in 0 .. MaxKey /\ record[k].copy \in Tickets
    <3>1. k \in Keys
      BY Bounds
    <3>2. record[k] \in Records
      BY <3>1, Typed
    <3> QED BY <3>1, <3>2, Fields, Bounds DEF Keys
  <2>2. [key |-> k, copy |-> record[k].copy] \in R
    BY <2>1 DEF R
  <2> QED BY <1>1, <1>11, <2>2 DEF Open
<1>12. ASSUME NEW k \in Watched, Flush(k) \/ List(k) PROVE Rest
  BY <1>1, <1>12 DEF Flush, List
<1>13. ASSUME NEW p \in pending, Commit(p) \/ CaptureFailed(p) PROVE Rest
  BY <1>3, <1>13 DEF Commit, CaptureFailed
<1>14. ASSUME NEW h \in held, LetGo(h) \/ UndoRemove(h) PROVE Rest
  BY <1>3, <1>14 DEF LetGo, UndoRemove
<1>15. ASSUME NEW h \in held, Remove(h) PROVE Rest
  BY <1>1, <1>15 DEF Remove
<1>16. ASSUME NEW h \in held, NEW s \in Sources, SaveForm(h, s) PROVE Rest
  BY <1>1, <1>16 DEF SaveForm
<1>17. Rest
  BY <1>4, <1>5, <1>6, <1>7, <1>8, <1>9, <1>10, <1>11, <1>12, <1>13, <1>14, <1>15, <1>16 DEF Next
<1> QED BY <1>17 DEF R

LEMMA TypeStep == TypeInv /\ [Next]_vars => TypeInv'
<1> SUFFICES ASSUME TypeInv, [Next]_vars PROVE TypeInv'
  OBVIOUS
<1>1. TypeOK /\ Sourced /\ IsFiniteSet(held) /\ Effect /\ Looks /\ Holds
  BY EffectStep, LooksStep, HoldsStep DEF TypeInv
<1>2. /\ record' \in [Keys -> Records] /\ tickets' \in Tickets
      /\ captured' \in [Tickets -> 0 .. MaxSource] /\ void' \subseteq Tickets
      /\ synced' \subseteq Keys /\ returned' \subseteq Tickets
  BY <1>1, RecordTyped
<1>3. held' \subseteq Held /\ Cardinality(held') <= MaxHeld /\ IsFiniteSet(held')
  BY <1>1, <1>2, HeldStep
<1>4. /\ view' \in [Watched -> 0 .. MaxRevision]
      /\ scan' \in [left : SUBSET Watched, seen : [Watched -> 0 .. MaxRevision],
                    on : BOOLEAN, stale : BOOLEAN]
  BY <1>1, <1>2, LooksTyped
<1>5. pending' \subseteq [key : Keys, ticket : Tickets, source : Sources]
  BY <1>1, PendingTyped
<1>6. Sourced'
  BY <1>1, SourcedStep
<1> QED
  BY <1>1, <1>2, <1>3, <1>4, <1>5, <1>6, RestTyped DEF TypeInv, TypeOK
-----------------------------------------------------------------------------
(* Captures and copies.  A record's ticket is nobody else's, has not been  *)
(* voided and has given no copy yet; its copy is of its source.            *)
Owned(k) ==
  LET r == record[k]
  IN  /\ r.ticket <= tickets /\ r.copy <= tickets
      /\ r.ticket # 0 => r.ticket \notin void /\ captured[r.ticket] = 0
      /\ r.copy # 0 => captured[r.copy] = r.source /\ r.source # 0

(* A capture under way is the only one with its ticket, and gives the text *)
(* of the source of the one record that may still wait for it.             *)
Own(p) ==
  /\ p.ticket # 0 /\ p.ticket <= tickets /\ captured[p.ticket] = 0
  /\ \A j \in Keys :
       record[j].ticket = p.ticket => j = p.key /\ record[j].source = p.source
  /\ \A q \in pending : q.ticket = p.ticket => q = p

Unissued   == \A t \in Tickets : t > tickets => captured[t] = 0
VoidIssued == \A t \in void : t <= tickets /\ captured[t] = 0
OneTicket  == \A j, k \in Keys :
                record[j].ticket = record[k].ticket /\ record[k].ticket # 0 => j = k
TicketInv  == /\ \A k \in Keys : Owned(k)
              /\ \A p \in pending : Own(p)
              /\ Unissued /\ VoidIssued /\ OneTicket

LEMMA Numbers ==
  ASSUME TypeOK
  PROVE  /\ tickets \in Nat /\ \A t \in void : t \in Nat
         /\ \A k \in Keys : /\ record[k].ticket \in Nat /\ record[k].copy \in Nat
                            /\ record[k].revision \in Nat
BY Typed, Fields, Bounds DEF TypeOK, Tickets

LEMMA PendingIs ==
  ASSUME TypeOK, NEW p \in pending
  PROVE  p.key \in Keys /\ p.ticket \in Tickets /\ p.ticket \in Nat /\ p.source \in Sources
BY Bounds DEF TypeOK, Tickets

(* Of what was issued, another device's record changes no page.            *)
LEMMA Kept ==
  ASSUME TypeOK, NEW k \in Keys, Foreign(k), NEW t \in Tickets, t <= tickets
  PROVE  captured'[t] = captured[t] /\ t <= tickets'
<1>1. t \in Nat /\ tickets \in Nat
  BY Bounds DEF TypeOK, Tickets
<1>2. CASE UNCHANGED <<tickets, captured>>
  BY <1>1, <1>2
<1>3. ASSUME NEW s \in Sources, tickets' = tickets + 1, captured' = [captured EXCEPT ![tickets'] = s]
      PROVE  captured'[t] = captured[t] /\ t <= tickets'
  BY <1>1, <1>3 DEF TypeOK
<1> QED BY <1>2, <1>3 DEF Foreign

LEMMA TicketsKept ==
  ASSUME TypeOK, TypeOK', TicketInv, NEW k \in Keys, Plain(k) PROVE TicketInv'
<1> DEFINE r == record[k]
           w == record'[k]
<1>1. /\ tickets' = tickets /\ captured' = captured /\ pending' \subseteq pending
      /\ \A j \in Keys \ {k} : record'[j] = record[j]
      /\ \/ void' = void
         \/ w.ticket = 0 /\ void' = void \cup ({r.ticket} \ {0})
      /\ w.ticket # 0 => w.source = r.source /\ w.ticket = r.ticket
      /\ w.copy # 0 => w.source = r.source /\ w.copy = r.copy
  BY DEF Plain, Written
<1>2. tickets \in Nat /\ r.ticket \in Nat /\ r.copy \in Nat /\ w.ticket \in Nat /\ w.copy \in Nat
  <2>1. \A j \in Keys : record'[j] \in Records
    BY DEF TypeOK
  <2> QED BY <2>1, Numbers, Fields
<1>3. Owned(k)
  BY DEF TicketInv
<1>4. VoidIssued'
  BY <1>1, <1>2, <1>3 DEF TicketInv, VoidIssued, Owned
<1>5. Owned(k)'
  <2>1. w.ticket <= tickets /\ w.copy <= tickets
    BY <1>1, <1>2, <1>3 DEF Owned
  <2>2. w.ticket # 0 => w.ticket \notin void' /\ captured[w.ticket] = 0
    BY <1>1, <1>3 DEF Owned
  <2>3. w.copy # 0 => captured[w.copy] = w.source /\ w.source # 0
    BY <1>1, <1>3 DEF Owned
  <2> QED BY <1>1, <2>1, <2>2, <2>3 DEF Owned
<1>6. ASSUME NEW j \in Keys \ {k} PROVE Owned(j)'
  <2>1. Owned(j) /\ record'[j] = record[j]
    BY <1>1 DEF TicketInv
  <2>2. record[j].ticket # 0 => record[j].ticket # r.ticket
    BY DEF TicketInv, OneTicket
  <2>3. record[j].ticket # 0 => record[j].ticket \notin void'
    BY <1>1, <2>1, <2>2 DEF Owned
  <2> QED BY <1>1, <2>1, <2>3 DEF Owned
<1>7. OneTicket'
  <2> SUFFICES ASSUME NEW i \in Keys, NEW j \in Keys, record'[i].ticket = record'[j].ticket,
                      record'[j].ticket # 0
               PROVE  i = j
    BY DEF OneTicket
  <2>1. record[i].ticket = record'[i].ticket /\ record[j].ticket = record'[j].ticket
    BY <1>1
  <2> QED BY <2>1 DEF TicketInv, OneTicket
<1>8. ASSUME NEW p \in pending' PROVE Own(p)'
  <2>1. Own(p)
    BY <1>1 DEF TicketInv
  <2>2. ASSUME NEW j \in Keys, record'[j].ticket = p.ticket
        PROVE  j = p.key /\ record'[j].source = p.source
    <3>1. record[j].ticket = p.ticket /\ record'[j].source = record[j].source
      BY <1>1, <2>1, <2>2 DEF Own
    <3> QED BY <2>1, <3>1 DEF Own
  <2> QED BY <1>1, <2>1, <2>2 DEF Own
<1>9. Unissued'
  BY <1>1 DEF TicketInv, Unissued
<1> QED
  BY <1>4, <1>5, <1>6, <1>7, <1>8, <1>9 DEF TicketInv

LEMMA TicketBegun ==
  ASSUME TypeOK, TypeOK', TicketInv, NEW k \in Keys, Begins(k) PROVE TicketInv'
<1> DEFINE r == record[k]
           w == record'[k]
           n == tickets + 1
           b == [key |-> k, ticket |-> n, source |-> w.source]
<1>1. /\ tickets' = n /\ w.ticket = n /\ captured' = captured
      /\ pending' = pending \cup {b}
      /\ \A j \in Keys \ {k} : record'[j] = record[j]
      /\ void' \in {void, void \cup ({r.ticket} \ {0})}
      /\ w.copy # 0 => w.source = r.source /\ w.copy = r.copy
      /\ n \in Tickets
  BY DEF Begins, Written, TypeOK
<1>2. /\ tickets \in Nat /\ n > tickets /\ r.ticket \in Nat /\ r.copy \in Nat
      /\ w.ticket \in Nat /\ w.copy \in Nat /\ \A t \in void : t \in Nat
  <2>1. w \in Records
    BY DEF TypeOK
  <2> QED BY <2>1, Numbers, Fields
<1>3. Owned(k)
  BY DEF TicketInv
<1>4. \A t \in void' : t <= tickets /\ captured[t] = 0 /\ t \in Nat
  BY <1>1, <1>2, <1>3 DEF TicketInv, VoidIssued, Owned
<1>5. captured[n] = 0
  BY <1>1, <1>2 DEF TicketInv, Unissued
<1>6. \A j \in Keys : record[j].ticket \in Nat /\ record[j].copy \in Nat
  BY Typed, Fields
<1>7. \A j \in Keys \ {k} : record'[j].ticket # n
  <2> SUFFICES ASSUME NEW j \in Keys \ {k} PROVE record'[j].ticket # n
    OBVIOUS
  <2>1. record'[j] = record[j] /\ record[j].ticket <= tickets /\ record[j].ticket \in Nat
    BY <1>1, <1>6 DEF TicketInv, Owned
  <2> QED BY <1>2, <2>1
<1>8. \A p \in pending : p.ticket # n /\ p.ticket <= n
  <2> SUFFICES ASSUME NEW p \in pending PROVE p.ticket # n /\ p.ticket <= n
    OBVIOUS
  <2>1. p.ticket <= tickets /\ p.ticket \in Nat
    BY PendingIs DEF TicketInv, Own
  <2> QED BY <1>2, <2>1
<1>9. b.key = k /\ b.ticket = n /\ b.source = w.source /\ n # 0 /\ n <= n
  BY <1>2
<1> HIDE DEF r, w, n, b
<1>10. Owned(k)'
  <2>1. w.ticket <= n /\ w.copy <= n
    BY <1>1, <1>2, <1>3 DEF Owned, r
  <2>2. w.ticket \notin void' /\ captured[w.ticket] = 0
    BY <1>1, <1>2, <1>4, <1>5
  <2>3. w.copy # 0 => captured[w.copy] = w.source /\ w.source # 0
    BY <1>1, <1>3 DEF Owned, r
  <2> QED BY <1>1, <2>1, <2>2, <2>3 DEF Owned, w
<1>11. ASSUME NEW j \in Keys \ {k} PROVE Owned(j)'
  <2>1. Owned(j) /\ record'[j] = record[j]
    BY <1>1 DEF TicketInv
  <2> DEFINE q == record[j]
  <2>2. /\ q.ticket <= tickets /\ q.copy <= tickets
        /\ q.ticket # 0 => q.ticket \notin void /\ captured[q.ticket] = 0
        /\ q.copy # 0 => captured[q.copy] = q.source /\ q.source # 0
    BY <2>1 DEF Owned
  <2>3. q.ticket # 0 => q.ticket \notin void'
    <3>1. q.ticket # 0 => q.ticket # r.ticket
      BY DEF TicketInv, OneTicket, r
    <3> QED BY <1>1, <2>2, <3>1
  <2>4. q.ticket <= n /\ q.copy <= n
    BY <1>2, <1>6, <2>2 DEF n
  <2> QED BY <1>1, <2>1, <2>2, <2>3, <2>4 DEF Owned
<1>12. VoidIssued'
  BY <1>1, <1>2, <1>4 DEF VoidIssued, n
<1>13. OneTicket'
  <2> SUFFICES ASSUME NEW i \in Keys, NEW j \in Keys, record'[i].ticket = record'[j].ticket,
                      record'[j].ticket # 0
               PROVE  i = j
    BY DEF OneTicket
  <2>1. record'[k].ticket = n
    BY <1>1 DEF w
  <2>2. CASE i = k \/ j = k
    BY <1>7, <2>1, <2>2
  <2>3. CASE i # k /\ j # k
    <3>1. record'[i] = record[i] /\ record'[j] = record[j]
      BY <1>1, <2>3
    <3> QED BY <3>1 DEF TicketInv, OneTicket
  <2> QED BY <2>2, <2>3
<1>14. Unissued'
  <2> SUFFICES ASSUME NEW t \in Tickets, t > n PROVE captured[t] = 0
    BY <1>1 DEF Unissued
  <2>1. t > tickets
    BY <1>2, Bounds DEF n, Tickets
  <2> QED BY <2>1 DEF TicketInv, Unissued
<1>15. ASSUME NEW p \in pending', p = b PROVE Own(p)'
  <2>1. p.ticket # 0 /\ p.ticket <= tickets' /\ captured'[p.ticket] = 0
    BY <1>1, <1>5, <1>9, <1>15
  <2>2. \A j \in Keys : record'[j].ticket = p.ticket => j = p.key /\ record'[j].source = p.source
    BY <1>7, <1>9, <1>15 DEF w
  <2>3. \A q \in pending' : q.ticket = p.ticket => q = p
    BY <1>1, <1>8, <1>9, <1>15
  <2> QED BY <2>1, <2>2, <2>3 DEF Own
<1>16. ASSUME NEW p \in pending PROVE Own(p)'
  <2>1. Own(p)
    BY DEF TicketInv
  <2>2. p.ticket # 0 /\ p.ticket <= tickets' /\ captured'[p.ticket] = 0
    BY <1>1, <1>8, <2>1 DEF Own
  <2>3. \A j \in Keys : record'[j].ticket = p.ticket => j = p.key /\ record'[j].source = p.source
    BY <1>1, <1>8, <2>1 DEF Own, w
  <2>4. \A q \in pending' : q.ticket = p.ticket => q = p
    BY <1>1, <1>8, <1>9, <2>1 DEF Own
  <2> QED BY <2>2, <2>3, <2>4 DEF Own
<1>17. \A p \in pending' : Own(p)'
  BY <1>1, <1>15, <1>16
<1> QED
  BY <1>10, <1>11, <1>12, <1>13, <1>14, <1>17 DEF TicketInv

LEMMA TicketCommitted ==
  ASSUME TypeOK, TypeOK', TicketInv, NEW p \in pending, Commits(p) PROVE TicketInv'
<1> DEFINE k == p.key
           t == p.ticket
           w == record'[k]
<1>1. /\ tickets' = tickets /\ void' = void /\ pending' = pending \ {p}
      /\ \A j \in Keys \ {k} : record'[j] = record[j]
      /\ record[k].ticket = t /\ w.ticket = 0 /\ w.copy = t
      /\ w.source = record[k].source /\ w.source \in Sources
      /\ captured' = [captured EXCEPT ![t] = p.source]
  BY DEF Commits, Written
<1>2. /\ k \in Keys /\ t \in Tickets /\ t # 0 /\ t <= tickets /\ captured[t] = 0
      /\ w.source = p.source /\ w.source # 0 /\ tickets \in Nat /\ t \in Nat
  <2>1. k \in Keys /\ t \in Tickets /\ t \in Nat /\ tickets \in Nat
    BY PendingIs, Numbers
  <2>2. Own(p)
    BY DEF TicketInv
  <2>3. t # 0 /\ t <= tickets /\ captured[t] = 0
    BY <2>2 DEF Own
  <2>4. w.source = p.source
    BY <1>1, <2>1, <2>2 DEF Own
  <2>5. w.source # 0
    BY <1>1, Bounds DEF Sources
  <2> QED BY <2>1, <2>3, <2>4, <2>5
<1>3. captured'[t] = w.source /\ \A u \in Tickets \ {t} : captured'[u] = captured[u]
  BY <1>1, <1>2 DEF TypeOK
<1>4. \A j \in Keys : record[j].ticket \in Tickets /\ record[j].copy \in Tickets
  BY Typed, Fields
<1>5. t \notin void
  BY <1>1, <1>2 DEF TicketInv, Owned
<1> HIDE DEF k, t, w
<1>6. Owned(k)'
  BY <1>1, <1>2, <1>3 DEF Owned, w
<1>7. ASSUME NEW j \in Keys \ {k} PROVE Owned(j)'
  <2>1. Owned(j) /\ record'[j] = record[j]
    BY <1>1 DEF TicketInv
  <2>2. record[j].ticket # 0 => record[j].ticket # t
    BY <1>1, <1>2 DEF TicketInv, OneTicket
  <2>3. record[j].copy # 0 => record[j].copy # t
    BY <1>2, <2>1 DEF Owned
  <2> QED BY <1>1, <1>3, <1>4, <2>1, <2>2, <2>3 DEF Owned
<1>8. Unissued'
  <2> SUFFICES ASSUME NEW u \in Tickets, u > tickets PROVE captured'[u] = 0
    BY <1>1 DEF Unissued
  <2>1. u # t
    BY <1>2
  <2> QED BY <1>3, <2>1 DEF TicketInv, Unissued
<1>9. VoidIssued'
  <2>1. \A u \in void : u \in Tickets \ {t}
    BY <1>5 DEF TypeOK
  <2> QED BY <1>1, <1>3, <2>1 DEF TicketInv, VoidIssued
<1>10. OneTicket'
  <2> SUFFICES ASSUME NEW i \in Keys, NEW j \in Keys, record'[i].ticket = record'[j].ticket,
                      record'[j].ticket # 0
               PROVE  i = j
    BY DEF OneTicket
  <2>1. i # k /\ j # k
    BY <1>1 DEF w
  <2>2. record'[i] = record[i] /\ record'[j] = record[j]
    BY <1>1, <2>1
  <2> QED BY <2>2 DEF TicketInv, OneTicket
<1>11. ASSUME NEW q \in pending' PROVE Own(q)'
  <2>1. q \in pending /\ q # p /\ Own(q) /\ q.ticket \in Tickets
    BY <1>1, PendingIs DEF TicketInv
  <2>2. q.ticket # t
    BY <2>1 DEF TicketInv, Own, t
  <2>3. q.ticket # 0 /\ q.ticket <= tickets' /\ captured'[q.ticket] = 0
    BY <1>1, <1>3, <2>1, <2>2 DEF Own
  <2>4. \A j \in Keys : record'[j].ticket = q.ticket => j = q.key /\ record'[j].source = q.source
    BY <1>1, <2>1, <2>3 DEF Own, w
  <2>5. \A o \in pending' : o.ticket = q.ticket => o = q
    BY <1>1, <2>1 DEF Own
  <2> QED BY <2>3, <2>4, <2>5 DEF Own
<1> QED
  BY <1>6, <1>7, <1>8, <1>9, <1>10, <1>11 DEF TicketInv

LEMMA TicketForeign ==
  ASSUME TypeOK, TypeOK', TicketInv, NEW k \in Keys, Foreign(k) PROVE TicketInv'
<1> DEFINE r == record[k]
           w == record'[k]
           b == [key |-> k, ticket |-> w.ticket, source |-> w.source]
<1>1. /\ pending' = pending
      /\ \A j \in Keys \ {k} : record'[j] = record[j]
      /\ void' = (void \cup {r.ticket}) \ {0, w.ticket}
      /\ w.source \in Sources
      /\ w.copy # 0 => captured'[w.copy] = w.source
      /\ w.ticket # 0 => b \in pending
  BY DEF Foreign
<1>2. /\ tickets \in Nat /\ tickets' \in Nat /\ w.source # 0
      /\ w.copy \in Tickets /\ w.ticket \in Tickets /\ r.ticket \in Tickets /\ r.copy \in Tickets
      /\ w.copy \in Nat /\ w.ticket \in Nat /\ 0 <= tickets'
  <2>1. w \in Records /\ r \in Records
    BY DEF TypeOK
  <2>2. /\ w.copy \in Tickets /\ w.ticket \in Tickets /\ r.ticket \in Tickets /\ r.copy \in Tickets
        /\ w.copy \in Nat /\ w.ticket \in Nat
    BY <2>1, Fields
  <2>3. tickets \in Nat /\ tickets' \in Nat /\ 0 <= tickets'
    BY Bounds DEF TypeOK, Tickets
  <2>4. w.source # 0
    BY <1>1, Bounds DEF Sources
  <2> QED BY <2>2, <2>3, <2>4
<1>3. \A u \in Tickets : u <= tickets => captured'[u] = captured[u] /\ u <= tickets'
  BY Kept
<1>4. Unissued'
  <2> SUFFICES ASSUME NEW u \in Tickets, u > tickets' PROVE captured'[u] = 0
    BY DEF Unissued
  <2>1. CASE UNCHANGED <<tickets, captured>>
    BY <2>1 DEF TicketInv, Unissued
  <2>2. ASSUME NEW s \in Sources, tickets' = tickets + 1,
               captured' = [captured EXCEPT ![tickets'] = s]
        PROVE  captured'[u] = 0
    <3>1. u \in Nat
      BY Bounds DEF Tickets
    <3>2. u # tickets' /\ u > tickets
      BY <1>2, <2>2, <3>1
    <3>3. captured'[u] = captured[u]
      BY <2>2, <3>2 DEF TypeOK
    <3> QED BY <3>2, <3>3 DEF TicketInv, Unissued
  <2> QED BY <2>1, <2>2 DEF Foreign
<1>5. b.key = k /\ b.ticket = w.ticket /\ b.source = w.source
  OBVIOUS
<1>6. Owned(k)
  BY DEF TicketInv
<1> HIDE DEF r, w, b
<1>7. Owned(k)'
  <2>1. w.ticket <= tickets'
    <3>1. CASE w.ticket = 0
      BY <1>2, <3>1
    <3>2. CASE w.ticket # 0
      BY <1>1, <1>2, <1>3, <1>5, <3>2 DEF TicketInv, Own
    <3> QED BY <3>1, <3>2
  <2>2. w.copy <= tickets'
    <3>1. CASE w.copy = 0
      BY <1>2, <3>1
    <3>2. CASE w.copy # 0
      <4>1. captured'[w.copy] # 0
        BY <1>1, <1>2, <3>2
      <4>2. ~(w.copy > tickets')
        BY <1>2, <1>4, <4>1 DEF Unissued
      <4> QED BY <1>2, <4>2
    <3> QED BY <3>1, <3>2
  <2>3. w.ticket # 0 => w.ticket \notin void' /\ captured'[w.ticket] = 0
    <3>1. w.ticket # 0 => w.ticket <= tickets /\ captured[w.ticket] = 0
      BY <1>1, <1>5 DEF TicketInv, Own
    <3> QED BY <1>1, <1>2, <1>3, <3>1
  <2>4. w.copy # 0 => captured'[w.copy] = w.source /\ w.source # 0
    BY <1>1, <1>2
  <2> QED BY <2>1, <2>2, <2>3, <2>4 DEF Owned, w
<1>8. ASSUME NEW j \in Keys \ {k} PROVE Owned(j)'
  <2>1. Owned(j) /\ record'[j] = record[j]
    BY <1>1 DEF TicketInv
  <2> DEFINE q == record[j]
  <2>2. /\ q.ticket <= tickets /\ q.copy <= tickets
        /\ q.ticket # 0 => q.ticket \notin void /\ captured[q.ticket] = 0
        /\ q.copy # 0 => captured[q.copy] = q.source /\ q.source # 0
    BY <2>1 DEF Owned
  <2>3. q.ticket \in Tickets /\ q.copy \in Tickets
    BY Typed, Fields
  <2>4. q.ticket # 0 => q.ticket \notin void'
    <3>1. q.ticket # 0 => q.ticket # r.ticket
      BY DEF TicketInv, OneTicket, r
    <3> QED BY <1>1, <2>2, <3>1
  <2>5. /\ captured'[q.ticket] = captured[q.ticket] /\ q.ticket <= tickets'
        /\ captured'[q.copy] = captured[q.copy] /\ q.copy <= tickets'
    BY <1>3, <2>2, <2>3
  <2> QED BY <2>1, <2>2, <2>4, <2>5 DEF Owned
<1>9. VoidIssued'
  <2> SUFFICES ASSUME NEW u \in void' PROVE u <= tickets' /\ captured'[u] = 0
    BY DEF VoidIssued
  <2>1. u \in void \/ (u = r.ticket /\ u # 0)
    BY <1>1
  <2>2. u <= tickets /\ captured[u] = 0 /\ u \in Tickets
    BY <1>2, <1>6, <2>1 DEF TicketInv, VoidIssued, TypeOK, Owned, r
  <2> QED BY <1>3, <2>2
<1>10. OneTicket'
  <2>1. ASSUME NEW j \in Keys \ {k}, w.ticket # 0 PROVE record'[j].ticket # w.ticket
    <3>1. record'[j] = record[j] /\ b \in pending /\ b.ticket = w.ticket /\ b.key = k
      BY <1>1, <1>5, <2>1
    <3> QED BY <3>1 DEF TicketInv, Own
  <2> SUFFICES ASSUME NEW i \in Keys, NEW j \in Keys, record'[i].ticket = record'[j].ticket,
                      record'[j].ticket # 0
               PROVE  i = j
    BY DEF OneTicket
  <2>2. CASE i = k \/ j = k
    BY <2>1, <2>2 DEF w
  <2>3. CASE i # k /\ j # k
    <3>1. record'[i] = record[i] /\ record'[j] = record[j]
      BY <1>1, <2>3
    <3> QED BY <3>1 DEF TicketInv, OneTicket
  <2> QED BY <2>2, <2>3
<1>11. ASSUME NEW p \in pending PROVE Own(p)'
  <2>1. Own(p) /\ p.ticket \in Tickets
    BY PendingIs DEF TicketInv
  <2>2. p.ticket # 0 /\ p.ticket <= tickets' /\ captured'[p.ticket] = 0
    BY <1>3, <2>1 DEF Own
  <2>3. ASSUME NEW j \in Keys, record'[j].ticket = p.ticket
        PROVE  j = p.key /\ record'[j].source = p.source
    <3>1. CASE j # k
      BY <1>1, <2>1, <2>3, <3>1 DEF Own
    <3>2. CASE j = k
      <4>1. b \in pending /\ b.ticket = p.ticket
        BY <1>1, <1>5, <2>2, <2>3, <3>2 DEF w
      <4>2. b = p
        BY <2>1, <4>1 DEF Own
      <4> QED BY <1>5, <3>2, <4>2 DEF w
    <3> QED BY <3>1, <3>2
  <2>4. \A q \in pending' : q.ticket = p.ticket => q = p
    BY <1>1, <2>1 DEF Own
  <2> QED BY <2>2, <2>3, <2>4 DEF Own
<1> QED
  BY <1>1, <1>4, <1>7, <1>8, <1>9, <1>10, <1>11 DEF TicketInv

LEMMA TicketStep ==
  ASSUME TypeInv, TypeInv', TicketInv, [Next]_vars PROVE TicketInv'
<1>1. Effect /\ TypeOK /\ TypeOK'
  BY EffectStep DEF TypeInv
<1>2. CASE Nothing
  BY <1>2 DEF Nothing, TicketInv, Owned, Own, Unissued, VoidIssued, OneTicket
<1> QED
  BY <1>1, <1>2, TicketsKept, TicketBegun, TicketCommitted, TicketForeign DEF Effect
-----------------------------------------------------------------------------
(* What is on the screen.  As long as no other device's record has come in *)
(* its place, a record is not behind what was shown of it, and is what was *)
(* shown if their revisions agree.                                         *)
AsHeld(h) == /\ h.shown.revision <= record[h.key].revision
             /\ h.shown.revision = record[h.key].revision => h.shown = record[h.key]
HeldInv   == \A h \in held : h.key \notin synced => AsHeld(h)

(* A record of this device only ever goes forward.                         *)
LEMMA Forward ==
  ASSUME TypeOK, Effect, NEW k \in Keys, k \notin synced'
  PROVE  /\ k \notin synced
         /\ \/ record'[k] = record[k]
            \/ record'[k].revision = record[k].revision + 1
<1>1. ASSUME NEW p \in pending, Commits(p)
      PROVE  /\ k \notin synced
             /\ \/ record'[k] = record[k]
                \/ record'[k].revision = record[k].revision + 1
  BY <1>1 DEF Commits, Written, elsewhere
<1> QED
  BY <1>1 DEF Effect, Nothing, Plain, Begins, Foreign, Written, elsewhere

LEMMA HeldInvStep ==
  ASSUME TypeInv, TypeInv', HeldInv, [Next]_vars PROVE HeldInv'
<1>1. Effect /\ Holds /\ TypeOK /\ TypeOK'
  BY EffectStep, HoldsStep DEF TypeInv
<1> SUFFICES ASSUME NEW h \in held', h.key \notin synced' PROVE AsHeld(h)'
  BY DEF HeldInv
<1>2. CASE h \in held
  <2>1. h.key \in Keys /\ h.shown \in Records
    BY <1>1, <1>2, HeldTyped
  <2>2. /\ h.key \notin synced
        /\ \/ record'[h.key] = record[h.key]
           \/ record'[h.key].revision = record[h.key].revision + 1
    BY <1>1, <2>1, Forward
  <2>3. AsHeld(h)
    BY <1>2, <2>2 DEF HeldInv
  <2>4. h.shown.revision \in Nat /\ record[h.key].revision \in Nat
    BY <1>1, <2>1, Fields, Numbers
  <2> QED BY <2>2, <2>3, <2>4 DEF AsHeld
<1>3. CASE h \notin held
  <2>1. h.shown = record'[h.key] /\ h.key \in Keys
    BY <1>1, <1>3, HeldTyped DEF Holds
  <2>2. record'[h.key].revision \in Nat
    <3>1. record'[h.key] \in Records
      BY <1>1, <2>1 DEF TypeOK
    <3> QED BY <3>1, Fields
  <2> QED BY <2>1, <2>2 DEF AsHeld
<1> QED BY <1>2, <1>3
-----------------------------------------------------------------------------
(* This window's view.  Of a record of this device it is never ahead, and  *)
(* what a scan that is still good has read is not behind it.               *)
Seen(k) == /\ view[k] <= record[k].revision /\ scan.seen[k] <= record[k].revision
           /\ scan.on /\ ~scan.stale /\ k \notin scan.left => view[k] <= scan.seen[k]
ViewInv == \A k \in Watched \ synced : Seen(k)

LEMMA ViewNumbers ==
  ASSUME TypeOK, NEW k \in Watched
  PROVE  view[k] \in Nat /\ scan.seen[k] \in Nat /\ record[k].revision \in Nat /\ k \in Keys
<1>1. k \in Keys
  BY Bounds
<1>2. view[k] \in 0 .. MaxRevision /\ scan.seen[k] \in 0 .. MaxRevision
  BY DEF TypeOK
<1> QED BY <1>1, <1>2, Numbers, Bounds

LEMMA ViewStep ==
  ASSUME TypeInv, TypeInv', ViewInv, [Next]_vars,
         NEW k \in Watched, k \notin synced'
  PROVE  Seen(k)' /\ (faults' = faults => view[k] <= view'[k])
<1>1. Effect /\ Looks /\ TypeOK /\ TypeOK'
  BY EffectStep, LooksStep DEF TypeInv
<1>2. view[k] \in Nat /\ scan.seen[k] \in Nat /\ record[k].revision \in Nat /\ k \in Keys
  BY <1>1, ViewNumbers
<1>3. /\ k \notin synced
      /\ \/ record'[k] = record[k]
         \/ record'[k].revision = record[k].revision + 1
  BY <1>1, <1>2, Forward
<1>4. Seen(k)
  BY <1>3 DEF ViewInv
<1>5. record'[k].revision >= record[k].revision /\ record'[k].revision \in Nat
  BY <1>2, <1>3
<1>6. /\ scan.left \in SUBSET Watched /\ scan.seen \in [Watched -> 0 .. MaxRevision]
      /\ view \in [Watched -> 0 .. MaxRevision]
  BY <1>1 DEF TypeOK
<1>7. CASE UNCHANGED <<view, scan>>
  BY <1>2, <1>4, <1>5, <1>7 DEF Seen
<1>8. ASSUME NEW j \in Watched, view' = [view EXCEPT ![j] = record'[j].revision],
             scan' = [scan EXCEPT !.stale = scan.on]
      PROVE  Seen(k)' /\ view[k] <= view'[k]
  <2>1. scan'.seen = scan.seen /\ (scan'.on => scan'.stale)
    BY <1>1, <1>8 DEF TypeOK
  <2>2. view'[k] = IF j = k THEN record'[k].revision ELSE view[k]
    BY <1>6, <1>8
  <2>3. view[k] <= record[k].revision /\ scan.seen[k] <= record[k].revision
    BY <1>4 DEF Seen
  <2> QED BY <1>2, <1>5, <2>1, <2>2, <2>3 DEF Seen
<1>9. CASE Reload
  <2>1. /\ view' = view /\ record' = record /\ scan'.left = Watched
        /\ scan'.seen = [l \in Watched |-> 0]
    BY <1>9 DEF Reload, NoScan
  <2> QED BY <1>2, <1>4, <2>1 DEF Seen
<1>10. ASSUME NEW j \in Watched, List(j) PROVE Seen(k)' /\ view[k] <= view'[k]
  <2>1. /\ view' = view /\ record' = record /\ scan'.on = scan.on /\ scan'.stale = scan.stale
        /\ scan'.left = scan.left \ {j}
        /\ scan'.seen = [scan.seen EXCEPT ![j] = record[j].revision]
    BY <1>1, <1>10 DEF List, TypeOK
  <2>2. scan'.seen[k] = IF j = k THEN record[k].revision ELSE scan.seen[k]
    BY <1>6, <2>1
  <2> QED BY <1>2, <1>4, <2>1, <2>2 DEF Seen
<1>11. CASE ScanReady
  <2>1. /\ record' = record /\ scan.on /\ scan.left = {} /\ ~scan'.on
        /\ scan'.seen = [l \in Watched |-> 0]
        /\ view' = IF scan.stale THEN view ELSE scan.seen
    BY <1>11 DEF ScanReady, NoScan
  <2> QED BY <1>2, <1>4, <2>1 DEF Seen
<1>12. CASE Crash
  <2>1. /\ record' = record /\ ~scan'.on /\ scan'.seen = [l \in Watched |-> 0]
        /\ view' = [l \in Watched |-> 0] /\ faults' = faults + 1 /\ faults \in Nat
    BY <1>1, <1>12, Bounds DEF Crash, NoScan, Fault, TypeOK
  <2> QED BY <1>2, <2>1 DEF Seen
<1> QED
  BY <1>1, <1>7, <1>8, <1>9, <1>10, <1>11, <1>12 DEF Looks

LEMMA ViewInvStep ==
  ASSUME TypeInv, TypeInv', ViewInv, [Next]_vars PROVE ViewInv'
BY ViewStep DEF ViewInv
-----------------------------------------------------------------------------
IInv == TypeInv /\ TicketInv /\ HeldInv /\ ViewInv

LEMMA InitTyped == Init => TypeInv
<1> SUFFICES ASSUME Init PROVE TypeInv
  OBVIOUS
<1>1. None \in Records /\ NoScan \in [left : SUBSET Watched, seen : [Watched -> 0 .. MaxRevision],
                                      on : BOOLEAN, stale : BOOLEAN]
  BY Bounds DEF None, NoScan, Records, Tickets
<1>2. held = {} /\ IsFiniteSet(held) /\ Cardinality(held) <= MaxHeld
  BY FS_EmptySet, Bounds DEF Init
<1>3. Closed \in [key : 0 .. MaxKey, copy : Tickets] /\ 0 \in Tickets
  BY Bounds DEF Closed, Tickets
<1>4. Sourced
  BY DEF Init, Sourced, There, None
<1>5. /\ record \in [Keys -> Records] /\ captured \in [Tickets -> 0 .. MaxSource]
      /\ view \in [Watched -> 0 .. MaxRevision] /\ scrolled \in [Watched -> Tickets]
  BY <1>1, <1>3, Bounds DEF Init
<1>6. /\ seeded \in BOOLEAN /\ pending = {} /\ tickets \in Tickets /\ void = {} /\ held = {}
      /\ reading = Closed /\ scan = NoScan /\ faults \in 0 .. MaxFault
      /\ synced = {} /\ returned = {}
  <2>1. 0 \in 0 .. MaxFault
    BY Bounds
  <2>2. /\ seeded = FALSE /\ pending = {} /\ tickets = 0 /\ void = {} /\ held = {}
        /\ reading = Closed /\ scan = NoScan /\ faults = 0 /\ synced = {} /\ returned = {}
    BY DEF Init
  <2> QED BY <1>3, <2>1, <2>2
<1>7. TypeOK
  BY <1>1, <1>2, <1>3, <1>5, <1>6 DEF TypeOK
<1> QED
  BY <1>2, <1>4, <1>7 DEF TypeInv

LEMMA Initial == Init => IInv
<1> SUFFICES ASSUME Init PROVE TicketInv /\ HeldInv /\ ViewInv
  BY InitTyped DEF IInv
<1>1. \A k \in Keys : record[k] = None
  BY DEF Init
<1>2. TicketInv
  BY <1>1 DEF Init, None, TicketInv, Owned, Own, Unissued, VoidIssued, OneTicket
<1>3. HeldInv
  BY DEF Init, HeldInv
<1>4. ViewInv
  BY <1>1, Bounds DEF Init, None, NoScan, ViewInv, Seen
<1> QED
  BY <1>2, <1>3, <1>4

(* The strengthened invariant, for every step.                             *)
THEOREM Inductive == Spec => []IInv
<1>1. IInv /\ [Next]_vars => IInv'
  BY TypeStep, TicketStep, HeldInvStep, ViewInvStep DEF IInv
<1> QED
  BY <1>1, Initial, PTL DEF Spec

(* A record's copy is the text of its own source, whatever was edited,     *)
(* removed, restored or refreshed while its capture was under way.         *)
THEOREM LibraryInvAlways == Spec => []LibraryInv
<1>1. IInv => LibraryInv
  BY DEF IInv, TypeInv, TicketInv, Owned, LibraryInv, CopyOfSource
<1> QED BY <1>1, Inductive, PTL

LEMMA NotResurrected ==
  ASSUME IInv, [Next]_vars, NEW k \in Keys
  PROVE  record'[k].copy \in {0, record[k].copy} \/ record'[k].copy \notin void
<1>1. Effect /\ TicketInv /\ TypeOK
  BY EffectStep DEF IInv, TypeInv
<1>2. ASSUME NEW j \in Keys, Plain(j) \/ Begins(j)
      PROVE  record'[k].copy \in {0, record[k].copy}
  BY <1>2 DEF Plain, Begins, Written
<1>3. ASSUME NEW p \in pending, Commits(p)
      PROVE  record'[k].copy = record[k].copy \/ record'[k].copy \notin void
  <2>1. p.key \in Keys /\ p.ticket # 0
    BY <1>1 DEF TypeOK, TicketInv, Own
  <2>2. p.ticket \notin void
    BY <1>1, <1>3, <2>1 DEF Commits, TicketInv, Owned
  <2> QED BY <1>3, <2>1, <2>2 DEF Commits, Written
<1>4. ASSUME NEW j \in Keys, Foreign(j)
      PROVE  \/ record'[k].copy \in {0, record[k].copy}
             \/ record'[k].copy \notin void
  <2> SUFFICES ASSUME k = j, record'[k].copy # 0, record'[k].copy \in void PROVE FALSE
    BY <1>4 DEF Foreign
  <2> DEFINE t == record'[k].copy
  <2>1. t \in Tickets /\ t <= tickets /\ captured[t] = 0
    BY <1>1 DEF TypeOK, TicketInv, VoidIssued
  <2>2. captured'[t] \in Sources
    BY <1>4 DEF Foreign
  <2> HIDE DEF t
  <2>3. captured'[t] = captured[t]
    BY <1>1, <1>4, <2>1, Kept
  <2> QED BY <2>1, <2>2, <2>3, Bounds DEF Sources
<1> QED BY <1>1, <1>2, <1>3, <1>4 DEF Effect, Nothing

(* A capture begun before its record was removed, edited or refreshed is   *)
(* never committed, even once the record has come back, but where another  *)
(* device's record has brought its ticket back.                            *)
THEOREM NeverResurrectedAlways == Spec => NeverResurrected
<1>1. IInv /\ [Next]_vars =>
        [\A k \in Keys : record'[k].copy \in {0, record[k].copy} \/ record'[k].copy \notin void]_vars
  BY NotResurrected
<1> QED BY <1>1, Inductive, PTL DEF Spec, NeverResurrected

LEMMA WritesOverShown ==
  ASSUME IInv, [Next]_vars, NEW h \in held, h \notin held', record'[h.key] # record[h.key],
         h.key \notin synced
  PROVE  record[h.key] = h.shown
<1>1. Holds
  BY HoldsStep DEF IInv, TypeInv
<1>2. AsShown(h)
  BY <1>1 DEF Holds
<1> QED BY <1>2 DEF IInv, HeldInv, AsHeld, AsShown

(* What a form, a confirmation or an undo writes over is what it showed.   *)
THEOREM OverwritesAsShownAlways == Spec => OverwritesAsShown
<1>1. IInv /\ [Next]_vars =>
        [\A h \in held :
           /\ h \notin held' /\ record'[h.key] # record[h.key] /\ h.key \notin synced
           => record[h.key] = h.shown]_vars
  BY WritesOverShown
<1> QED BY <1>1, Inductive, PTL DEF Spec, OverwritesAsShown

LEMMA NotBack ==
  ASSUME IInv, IInv', [Next]_vars, faults' = faults, NEW k \in Watched \ synced
  PROVE  view[k] <= view'[k]
<1>1. Effect
  BY EffectStep DEF IInv, TypeInv
<1>2. synced' = synced
  BY <1>1 DEF Effect, Nothing, Plain, Begins, Foreign, Commits, elsewhere
<1> QED BY <1>2, ViewStep DEF IInv

(* What the window shows of a record never goes back behind what it has    *)
(* shown, whichever scan ends after whichever write.                       *)
THEOREM ViewNeverBackAlways == Spec => ViewNeverBack
<1>1. IInv /\ IInv' /\ [Next]_vars =>
        [faults' = faults => \A k \in Watched \ synced : view[k] <= view'[k]]_vars
  BY NotBack
<1> QED BY <1>1, Inductive, PTL DEF Spec, ViewNeverBack
=============================================================================

------------------------------ MODULE Library ------------------------------
(***************************************************************************)
(* The reading library: one record per saved page, changed under a writer's*)
(* lock by every window of nus and by the exchange with other devices      *)
(* (spikes/composite/src/library_store.rs), the captures that bring in a   *)
(* page's text some time after they were begun, and what one window shows  *)
(* of it all and scrolls (library.rs, library_form.rs, library_menu.rs).   *)
(*                                                                         *)
(* Sources are numbered and stand for an address however it was reached; a *)
(* record's id is that of the source it was first saved for, unless it is  *)
(* taken.  The copy a capture commits is known by the capture's ticket.    *)
(***************************************************************************)
EXTENDS Integers, FiniteSets

CONSTANTS
  MaxSource, MaxKey,   (* bound: sources, and records                      *)
  Watched,             (* bound: the ids that the window scans and opens   *)
  MaxRevision,         (* bound: writes of one record                      *)
  MaxTicket,           (* bound: captures begun                            *)
  MaxHeld,             (* bound: forms, confirmations and undos at a time  *)
  MaxFault             (* bound: records from elsewhere, failures, crashes *)

ASSUME LibraryAssumption ==
  /\ {MaxSource, MaxKey} \subseteq Nat \ {0}
  /\ {MaxRevision, MaxTicket, MaxHeld, MaxFault} \subseteq Nat
  /\ Watched \subseteq 1 .. MaxKey

VARIABLES
  record,    (* id -> its record; one never written has revision 0         *)
  seeded,    (* the marker of the first links                              *)
  pending,   (* captures under way in some window                          *)
  tickets,   (* tickets issued so far                                      *)
  captured,  (* history: copy -> the source of the page it is of           *)
  void,      (* history: tickets of before a removal, an edit, a refresh   *)
  held,      (* what windows hold of a record they have shown              *)
  view,      (* this window's records, by revision                         *)
  scan,      (* its scan of the directory                                  *)
  reading,   (* the copy it has open, [key, copy]                          *)
  scrolled,  (* its positions not yet saved, id -> a copy                  *)
  faults,
  synced,    (* history: ids whose record came from another device         *)
  returned   (* history: void tickets that came back in one                *)

elsewhere == <<synced, returned>>
history == <<captured, void, elsewhere>>
window == <<view, scan, reading, scrolled>>
vars == <<record, seeded, pending, tickets, held, window, faults, history>>
-----------------------------------------------------------------------------
Sources == 1 .. MaxSource
Keys    == 1 .. MaxKey
Tickets == 0 .. MaxTicket
Records == [source : 0 .. MaxSource, revision : 0 .. MaxRevision, deleted : BOOLEAN,
            reading : BOOLEAN, ticket : Tickets, copy : Tickets]
None    == [source |-> 0, revision |-> 0, deleted |-> FALSE,
            reading |-> FALSE, ticket |-> 0, copy |-> 0]
Held    == [kind : {"form", "remove", "undo"}, key : Keys, shown : Records]
NoScan  == [left |-> {}, seen |-> [k \in Watched |-> 0], on |-> FALSE, stale |-> FALSE]

TypeOK ==
  /\ record \in [Keys -> Records] /\ seeded \in BOOLEAN
  /\ pending \subseteq [key : Keys, ticket : Tickets, source : Sources]
  /\ tickets \in Tickets /\ captured \in [Tickets -> 0 .. MaxSource] /\ void \subseteq Tickets
  /\ held \subseteq Held /\ Cardinality(held) <= MaxHeld
  /\ view \in [Watched -> 0 .. MaxRevision]
  /\ scan \in [left : SUBSET Watched, seen : [Watched -> 0 .. MaxRevision], on : BOOLEAN, stale : BOOLEAN]
  /\ reading \in [key : 0 .. MaxKey, copy : Tickets] /\ scrolled \in [Watched -> Tickets]
  /\ faults \in 0 .. MaxFault /\ synced \subseteq Keys /\ returned \subseteq Tickets

Closed == [key |-> 0, copy |-> 0]

Init ==
  /\ record = [k \in Keys |-> None] /\ seeded = FALSE
  /\ pending = {} /\ tickets = 0 /\ captured = [t \in Tickets |-> 0] /\ void = {}
  /\ held = {} /\ view = [k \in Watched |-> 0] /\ scan = NoScan
  /\ reading = Closed /\ scrolled = [k \in Watched |-> 0] /\ faults = 0
  /\ synced = {} /\ returned = {}
-----------------------------------------------------------------------------
There(k) == record[k].revision > 0
Live(k)  == There(k) /\ ~record[k].deleted
Saved(s) == {k \in Keys : There(k) /\ record[k].source = s}
NewKey(s) ==
  IF s \in Keys /\ ~There(s) THEN {s} ELSE {k \in Keys \ Sources : ~There(k)}

Ready    == seeded \/ faults > 0

Fault == faults < MaxFault /\ faults' = faults + 1

(* A record is written whole, a revision later.                            *)
Put(k, r) ==
  /\ record[k].revision < MaxRevision
  /\ record' = [record EXCEPT ![k] = [r EXCEPT !.revision = record[k].revision + 1]]

(* This window remembers what it has written itself, and a scan begun      *)
(* before is of no use any more.  Other windows' writing it has yet to see.*)
Remember_quietly(k) ==
  /\ view' = [view EXCEPT ![k] = record'[k].revision]
  /\ UNCHANGED scan
Remember(k) ==
  /\ view' = [view EXCEPT ![k] = record'[k].revision]
  /\ scan' = [scan EXCEPT !.stale = scan.on]
Remembers(k) == (k \in Watched /\ Remember(k)) \/ UNCHANGED <<view, scan>>

(* A write that voids the ticket of a capture under way.                   *)
Voids(k) == void' = void \cup ({record[k].ticket} \ {0})

Issue(k, r) ==
  /\ tickets < MaxTicket /\ tickets' = tickets + 1
  /\ Put(k, [r EXCEPT !.ticket = tickets'])
  /\ pending' = pending \cup {[key |-> k, ticket |-> tickets', source |-> r.source]}

Restored(k, reads) ==
  [record[k] EXCEPT !.deleted = FALSE, !.ticket = 0, !.reading = reads]

Fresh(s, reads) == [None EXCEPT !.source = s, !.reading = reads]
-----------------------------------------------------------------------------
(* Save to reading list.  A new link, or one only kept so far, is captured;*)
(* a removed one comes back as it was; of one that is there nothing        *)
(* changes.  Its writes are one here: where it is cut short, or another    *)
(* window comes between them, they are a link without a capture, a Keep or *)
(* a Change, and a Refresh.                                                *)
Save(s) ==
  /\ Ready
  /\ \/ /\ Saved(s) = {} /\ \E k \in NewKey(s) : Issue(k, Fresh(s, TRUE)) /\ Remembers(k)
        /\ UNCHANGED void
     \/ /\ Saved(s) = {} /\ \E k \in NewKey(s) : Put(k, Fresh(s, TRUE)) /\ Remembers(k)
        /\ UNCHANGED <<void, tickets, pending>>
     \/ \E k \in Saved(s) :
          /\ record[k].deleted /\ record[k].reading /\ Put(k, Restored(k, TRUE))
          /\ Voids(k) /\ Remembers(k) /\ UNCHANGED <<tickets, pending>>
     \/ \E k \in Saved(s) :
          /\ ~record[k].reading
          /\ Issue(k, Restored(k, TRUE)) /\ Voids(k) /\ Remembers(k)
  /\ UNCHANGED <<seeded, captured, held, reading, scrolled, faults, elsewhere>>

Keep(s) ==
  /\ Ready
  /\ \/ /\ Saved(s) = {} /\ void' = void
        /\ \E k \in NewKey(s) : Put(k, Fresh(s, FALSE)) /\ Remembers(k)
     \/ \E k \in Saved(s) :
          record[k].deleted /\ Put(k, Restored(k, FALSE)) /\ Voids(k) /\ Remembers(k)
  /\ UNCHANGED <<seeded, pending, tickets, captured, held, reading, scrolled, faults, elsewhere>>

(* The first links are installed once, over nothing that is there, before  *)
(* anything else is done unless that fails.  A failure before the marker   *)
(* is written leaves the links.                                            *)
Seed ==
  /\ ~seeded
  /\ \/ ~There(1) /\ Put(1, Fresh(1, TRUE)) /\ Remembers(1)
     \/ UNCHANGED <<record, view, scan>>
  /\ \/ seeded' = TRUE /\ record'[1] # None /\ UNCHANGED faults
     \/ seeded' = FALSE /\ Fault
  /\ UNCHANGED <<pending, tickets, captured, void, held, reading, scrolled, elsewhere>>

(* state, update: a role of a record that is there, such as its being on   *)
(* the reading list.                                                       *)
Change(k) ==
  /\ Live(k)
  /\ \E listed \in BOOLEAN : Put(k, [record[k] EXCEPT !.reading = listed])
  /\ Remembers(k)
  /\ UNCHANGED <<seeded, pending, tickets, held, reading, scrolled, faults, history>>
-----------------------------------------------------------------------------
(* Captures                                                                *)

(* Refresh: the page is open, and what it will give goes to its record.    *)
Refresh(k) ==
  /\ Live(k) /\ Issue(k, record[k]) /\ Voids(k) /\ Remembers(k)
  /\ UNCHANGED <<seeded, captured, held, reading, scrolled, faults, elsewhere>>

Expected_live(p) == Live(p.key)
Expected(p) == Live(p.key) /\ record[p.key].ticket = p.ticket

(* The page has answered.  The text is written first and the record, which *)
(* names it, last.                                                         *)
Commit(p) ==
  /\ pending' = pending \ {p}
  /\ \/ Expected(p) /\ Put(p.key, [record[p.key] EXCEPT !.ticket = 0, !.copy = p.ticket])
        /\ Remembers(p.key) /\ captured' = [captured EXCEPT ![p.ticket] = p.source]
     \/ ~Expected(p) /\ UNCHANGED <<record, view, scan, captured>>
  /\ UNCHANGED <<seeded, tickets, held, reading, scrolled, faults, void, elsewhere>>

(* The page has changed, closed or not answered in ten seconds.            *)
CaptureFailed(p) ==
  /\ pending' = pending \ {p}
  /\ \/ Expected(p) /\ Put(p.key, [record[p.key] EXCEPT !.ticket = 0]) /\ Remembers(p.key)
     \/ ~Expected(p) /\ UNCHANGED <<record, view, scan>>
  /\ UNCHANGED <<seeded, tickets, held, reading, scrolled, faults, history>>
-----------------------------------------------------------------------------
(* What is shown of a record and acted on later                            *)

Show(kind, k) ==
  /\ Live(k) /\ Cardinality(held) < MaxHeld
  /\ held' = held \cup {[kind |-> kind, key |-> k, shown |-> record[k]]}
  /\ held' # held
  /\ UNCHANGED <<record, seeded, pending, tickets, window, faults, history>>

LetGo(h) ==
  /\ held' = held \ {h}
  /\ UNCHANGED <<record, seeded, pending, tickets, window, faults, history>>

AsShown_any(h) == TRUE
AsShown(h) == record[h.key].revision = h.shown.revision

(* The edited source must be no other live record's.  A new source leaves  *)
(* the old one's copy and capture behind.                                  *)
Edited_keeping(k, s) ==
  [record[k] EXCEPT !.source = s, !.copy = IF s = record[k].source THEN @ ELSE 0]
Edited(k, s) ==
  [record[k] EXCEPT !.source = s, !.ticket = 0, !.copy = IF s = record[k].source THEN @ ELSE 0]

SaveForm(h, s) ==
  /\ h.kind = "form" /\ Live(h.key) /\ AsShown(h)
  /\ \A k \in Saved(s) \ {h.key} : record[k].deleted
  /\ Put(h.key, Edited(h.key, s)) /\ Voids(h.key) /\ Remembers(h.key)
  /\ held' = held \ {h}
  /\ \/ reading' = Closed
     \/ UNCHANGED reading
  /\ UNCHANGED <<seeded, pending, tickets, captured, scrolled, faults, elsewhere>>

AddForm(s) ==
  /\ Ready
  /\ \A k \in Saved(s) : record[k].deleted
  /\ \E k \in NewKey(s) : Put(k, Fresh(s, TRUE)) /\ Remembers(k)
  /\ UNCHANGED <<seeded, pending, tickets, captured, void, held, reading, scrolled, faults, elsewhere>>

(* A removal that was confirmed for what was shown, and its undo.          *)
Remove(h) ==
  /\ h.kind = "remove" /\ Live(h.key) /\ AsShown(h)
  /\ Put(h.key, [record[h.key] EXCEPT !.deleted = TRUE, !.ticket = 0])
  /\ Voids(h.key) /\ Remembers(h.key)
  /\ held' = (held \ {h}) \cup {[kind |-> "undo", key |-> h.key, shown |-> record'[h.key]]}
  /\ \/ /\ scrolled' = [k \in Watched |-> IF k = h.key THEN 0 ELSE scrolled[k]]
        /\ reading' = IF reading.key = h.key THEN Closed ELSE reading
     \/ UNCHANGED <<scrolled, reading>>
  /\ UNCHANGED <<seeded, pending, tickets, captured, faults, elsewhere>>

UndoRemove(h) ==
  /\ h.kind = "undo" /\ There(h.key) /\ record[h.key].deleted /\ AsShown(h)
  /\ Put(h.key, Restored(h.key, record[h.key].reading)) /\ Remembers(h.key)
  /\ held' = held \ {h}
  /\ UNCHANGED <<seeded, pending, tickets, reading, scrolled, faults, history>>
-----------------------------------------------------------------------------
(* This window                                                             *)

(* A saved copy is opened, and scrolled; the position waits to be written. *)
Open(k) ==
  /\ Live(k) /\ record[k].copy # 0
  /\ reading' = [key |-> k, copy |-> record[k].copy]
  /\ view' = [view EXCEPT ![k] = record[k].revision] /\ scan' = [scan EXCEPT !.stale = scan.on]
  /\ UNCHANGED <<record, seeded, pending, tickets, held, scrolled, faults, history>>

Scroll ==
  /\ reading # Closed /\ scrolled' = [scrolled EXCEPT ![reading.key] = reading.copy]
  /\ UNCHANGED <<record, seeded, pending, tickets, held, view, scan, reading, faults, history>>

Current(k) == Live(k) /\ record[k].copy = scrolled[k]
Outdated_deleted(k) == There(k) /\ record[k].deleted
Outdated(k) == There(k) /\ (record[k].deleted \/ record[k].copy \notin {0, scrolled[k]})

(* A position is written if it is in the copy that is there, let go if     *)
(* that is another, and otherwise tried again.                             *)
Flush(k) ==
  /\ scrolled[k] # 0
  /\ \/ /\ Current(k) /\ Put(k, record[k]) /\ scrolled' = [scrolled EXCEPT ![k] = 0]
        /\ Remember(k)
     \/ /\ Outdated(k) /\ scrolled' = [scrolled EXCEPT ![k] = 0]
        /\ UNCHANGED <<record, view, scan>>
  /\ UNCHANGED <<seeded, pending, tickets, held, reading, faults, history>>

(* The scan's thread reads one record after another.                       *)
Reload ==
  /\ ~scan.on /\ scan' = [NoScan EXCEPT !.on = TRUE, !.left = Watched]
  /\ UNCHANGED <<record, seeded, pending, tickets, held, view, reading, scrolled, faults, history>>

List(k) ==
  /\ k \in scan.left
  /\ scan' = [scan EXCEPT !.left = @ \ {k}, !.seen[k] = record[k].revision]
  /\ UNCHANGED <<record, seeded, pending, tickets, held, view, reading, scrolled, faults, history>>

ScanReady ==
  /\ scan.on /\ scan.left = {} /\ scan' = NoScan
  /\ view' = IF scan.stale THEN view ELSE scan.seen
  /\ UNCHANGED <<record, seeded, pending, tickets, held, reading, scrolled, faults, history>>
-----------------------------------------------------------------------------
(* Another device's record comes in the place of this one's, as it is.     *)
(* That device runs this code, over records that have been here: a copy it *)
(* has is of its record's source, and made here or there; its ticket may   *)
(* be one that was issued here and is still to be answered here, and any   *)
(* other is no capture's here.                                             *)
Incoming(k) ==
  {r \in Records :
     /\ r.source # 0 /\ r.revision # 0
     /\ r.copy # 0 => captured'[r.copy] = r.source
     /\ r.ticket # 0 => /\ ~r.deleted
                       /\ [key |-> k, ticket |-> r.ticket, source |-> r.source] \in pending}

CopiedThere(s) ==
  /\ tickets < MaxTicket /\ tickets' = tickets + 1
  /\ captured' = [captured EXCEPT ![tickets'] = s]

Exchange(k) ==
  /\ Fault /\ synced' = synced \cup {k}
  /\ UNCHANGED <<tickets, captured>> \/ \E s \in Sources : CopiedThere(s)
  /\ \E r \in Incoming(k) :
       /\ captured' # captured => r.copy = tickets'
       /\ record' = [record EXCEPT ![k] = r]
       /\ void' = (void \cup {record[k].ticket}) \ {0, r.ticket}
       /\ returned' = returned \cup (void \cap {r.ticket})
  /\ UNCHANGED <<seeded, pending, held, window>>

Crash ==
  /\ Fault /\ pending' = {} /\ held' = {}
  /\ view' = [k \in Watched |-> 0] /\ scan' = NoScan
  /\ reading' = Closed /\ scrolled' = [k \in Watched |-> 0]
  /\ UNCHANGED <<record, seeded, tickets, history>>

Next ==
  \/ \E s \in Sources : Save(s) \/ Keep(s) \/ AddForm(s)
  \/ Seed \/ Scroll \/ Reload \/ ScanReady \/ Crash
  \/ \E k \in Keys :
       \/ Change(k) \/ Refresh(k) \/ Show("form", k) \/ Show("remove", k)
       \/ Exchange(k)
  \/ \E k \in Watched : Open(k) \/ Flush(k) \/ List(k)
  \/ \E p \in pending : Commit(p) \/ CaptureFailed(p)
  \/ \E h \in held : LetGo(h) \/ Remove(h) \/ UndoRemove(h) \/ \E s \in Sources : SaveForm(h, s)

Spec == Init /\ [][Next]_vars

(* poll_library flushes what waits, again and again.                       *)
FairSpec == Spec /\ \A k \in Watched : WF_vars(Flush(k))
-----------------------------------------------------------------------------
(* A record's copy is the text of its own source, whatever was edited,     *)
(* removed, restored or refreshed while the capture was under way.         *)
CopyOfSource ==
  \A k \in Keys : record[k].copy # 0 => captured[record[k].copy] = record[k].source

(* That, and every variable has its type.                                  *)
LibraryInv == TypeOK /\ CopyOfSource

(* A capture that was under way when its record was removed, edited or     *)
(* refreshed is never committed, even after the record has come back, but  *)
(* where another device has given the record its ticket back.              *)
NeverResurrected ==
  [][\A k \in Keys : record'[k].copy \in {0, record[k].copy} \/ record'[k].copy \notin void]_vars

(* save_link: "never resurrect a capture that was in flight before         *)
(* removal".                                                               *)
NeverBroughtBack ==
  [][\A k \in Keys :
       record'[k].copy \in {0, record[k].copy} \/ record'[k].copy \notin void \cup returned]_vars

(* One page is one item, however it was reached (keep), among the records  *)
(* of this device.                                                         *)
OneItem ==
  \A j, k \in Keys \ synced :
    Live(j) /\ Live(k) /\ record[j].source = record[k].source => j = k

(* What a form, a confirmation or an undo writes over is what it was shown:*)
(* "another window's changes cause a conflict instead of being             *)
(* overwritten" (save_item).  Not so if another device's record has come   *)
(* in between under the very revision that was shown.                      *)
OverwritesAsShown ==
  [][\A h \in held :
       /\ h \notin held' /\ record'[h.key] # record[h.key] /\ h.key \notin synced
       => record[h.key] = h.shown]_vars

(* What the window shows of a record never goes back behind what it has    *)
(* shown, save by another device or a restart.                             *)
ViewNeverBack ==
  [][faults' = faults =>
       \A k \in Watched \ synced : view[k] <= view'[k]]_vars

(* A position that waits is saved or let go in the end, if its record has  *)
(* a copy at all: of a record without one, a conflict is taken for a       *)
(* failure, and tried again for ever.  (Or the bound is reached.)          *)
Waits(k) == scrolled[k] # 0 /\ record[k].copy # 0 /\ record[k].revision < MaxRevision
PositionSettles == \A k \in Watched : Waits(k) ~> ~Waits(k)
=============================================================================

----------------------------- MODULE NoteStore ------------------------------
(***************************************************************************)
(* One note's file and the one way nus writes it                           *)
(* (spikes/composite/src/notes_store.rs, Home::commit and Home::recover).  *)
(* A commit holds the home's writer lock from its first read to its last   *)
(* write:                                                                  *)
(*                                                                         *)
(*   compare with the base -> intent -> checkpoint -> head -> read back    *)
(*     -> retire the intent                                                *)
(*                                                                         *)
(* and may fail, or its process die, at each of them.  An intent holds     *)
(* both versions whole; recover() compares them with the head.  A plain    *)
(* editor takes no lock.                                                   *)
(*                                                                         *)
(* The bytes of a file are its text and a stamp: a commit writes the next  *)
(* revision and the time into the header, so that no two commits write the *)
(* same bytes; a legacy note has no header and no stamp.                   *)
(***************************************************************************)
EXTENDS Naturals, FiniteSets

CONSTANTS
  Who,        (* who commits: the threads and processes that write notes   *)
  MaxText,    (* the texts are 0 (nothing at all), 1, 2, ... MaxText       *)
  Legacy,     (* the note is a legacy one                                  *)
  MaxClock,   (* bound: commits that get as far as an intent               *)
  MaxFail,    (* bound: steps that fail                                    *)
  MaxEdit     (* bound: edits by a plain editor                            *)

ASSUME StoreAssumption ==
  /\ MaxText \in Nat \ {0} /\ Legacy \in BOOLEAN
  /\ {MaxClock, MaxFail, MaxEdit} \subseteq Nat

VARIABLES
  head,       (* the note's file                                           *)
  intents,    (* .state/recovery: the commits in flight                    *)
  kept,       (* .state/revisions: the texts kept as checkpoints           *)
  offered,    (* history: the intents recover() has handed to somebody     *)
  commit,     (* where each committer is                                   *)
  clock, fails, edits

storeVars == <<head, intents, kept, offered, commit, clock, fails, edits>>

Texts == 0 .. MaxText
Contents == Texts \ {0}
Ops   == 1 .. MaxClock
Bytes == [text : Texts, stamp : 0 .. MaxClock]
Absent  == [text |-> 0, stamp |-> MaxClock + 2]      \* no file at all
Emptied == [text |-> 0, stamp |-> 0]                 \* a file of no bytes
Versions == Bytes \cup {Absent}

Intents == [op : Ops, prev : Versions, prop : Bytes]

Working  == {"intent", "checkpoint", "head", "verify", "retire"}
Outcomes == {"ok", "conflict", "error"}
NoCommit == [step |-> "none", op |-> 0, prev |-> Emptied, prop |-> Emptied]

Locked == \E w \in Who : commit[w].step \in Working

Intent(w) == [op |-> commit[w].op, prev |-> commit[w].prev, prop |-> commit[w].prop]
At(w, step) == [commit EXCEPT ![w].step = step]

StoreTypeOK ==
  /\ head \in Versions
  /\ intents \subseteq Intents
  /\ kept \subseteq Texts
  /\ offered \subseteq Ops
  /\ commit \in [Who -> [step : Working \cup Outcomes \cup {"none"},
                         op : 0 .. MaxClock, prev : Versions, prop : Bytes]]
  /\ clock \in 0 .. MaxClock /\ fails \in 0 .. MaxFail /\ edits \in 0 .. MaxEdit

StoreInit ==
  /\ head = [text |-> 1, stamp |-> 0]
  /\ intents = {} /\ kept = {} /\ offered = {}
  /\ commit = [w \in Who |-> NoCommit]
  /\ clock = 0 /\ fails = 0 /\ edits = 0
-----------------------------------------------------------------------------
(* Home::commit                                                            *)

Stamped(text) == [text |-> text, stamp |-> IF Legacy THEN 0 ELSE clock + 1]

(* The note on disk is not the one the committer started from.             *)
Refuse(w, base) ==
  /\ commit[w].step = "none" /\ ~Locked /\ head # base
  /\ commit' = [commit EXCEPT ![w] = [NoCommit EXCEPT !.step = "conflict", !.prev = head]]
  /\ UNCHANGED <<head, intents, kept, offered, clock, fails, edits>>

NothingToDo(w, base, text) ==
  /\ commit[w].step = "none" /\ ~Locked /\ head = base /\ Stamped(text) = head
  /\ commit' = [commit EXCEPT ![w] = [NoCommit EXCEPT !.step = "ok", !.prop = head]]
  /\ UNCHANGED <<head, intents, kept, offered, clock, fails, edits>>

SetOut(w, base, text) ==
  /\ commit[w].step = "none" /\ ~Locked /\ head = base /\ Stamped(text) # head
  /\ clock < MaxClock /\ clock' = clock + 1
  /\ commit' = [commit EXCEPT ![w] =
       [step |-> "intent", op |-> clock + 1, prev |-> head, prop |-> Stamped(text)]]
  /\ UNCHANGED <<head, intents, kept, offered, fails, edits>>

(* The lock was not to be had for a second and a half, the vault is        *)
(* locked, or the note cannot be read.                                     *)
Balk(w) ==
  /\ commit[w].step = "none" /\ fails < MaxFail
  /\ fails' = fails + 1
  /\ commit' = [commit EXCEPT ![w] = [NoCommit EXCEPT !.step = "error"]]
  /\ UNCHANGED <<head, intents, kept, offered, clock, edits>>

Begin_blind(w, base, text) == SetOut(w, head, text)

Begin(w, base, text) ==
  Refuse(w, base) \/ NothingToDo(w, base, text) \/ SetOut(w, base, text) \/ Balk(w)

WriteIntent_skipped(w) ==
  /\ commit[w].step = "intent"
  /\ commit' = At(w, "checkpoint")
  /\ UNCHANGED <<head, intents, kept, offered, clock, fails, edits>>

WriteIntent(w) ==
  /\ commit[w].step = "intent"
  /\ intents' = intents \cup {Intent(w)}
  /\ commit' = At(w, "checkpoint")
  /\ UNCHANGED <<head, kept, offered, clock, fails, edits>>

(* A checkpoint is due every five minutes, and one that cannot be written  *)
(* is done without.                                                        *)
Checkpoint(w) ==
  /\ commit[w].step = "checkpoint"
  /\ \/ commit[w].prev # Absent /\ kept' = kept \cup {commit[w].prev.text}
     \/ UNCHANGED kept
  /\ commit' = At(w, "head")
  /\ UNCHANGED <<head, intents, offered, clock, fails, edits>>

WriteHead(w) ==
  /\ commit[w].step = "head"
  /\ head' = commit[w].prop
  /\ commit' = At(w, "verify")
  /\ UNCHANGED <<intents, kept, offered, clock, fails, edits>>

Verify(w) ==
  /\ commit[w].step = "verify"
  /\ commit' = At(w, IF head = commit[w].prop THEN "retire" ELSE "error")
  /\ UNCHANGED <<head, intents, kept, offered, clock, fails, edits>>

RetireOwn(w) ==
  /\ commit[w].step = "retire"
  /\ intents' = {i \in intents : i.op # commit[w].op}
  /\ commit' = At(w, "ok")
  /\ UNCHANGED <<head, kept, offered, clock, fails, edits>>

(* A write or the reading back fails; the intent, once there, stays.       *)
StepFails_tidily(w) ==
  /\ commit[w].step \in Working \ {"checkpoint"} /\ fails < MaxFail
  /\ fails' = fails + 1
  /\ commit' = At(w, "error")
  /\ intents' = {i \in intents : i.op # commit[w].op}
  /\ UNCHANGED <<head, kept, offered, clock, edits>>

StepFails(w) ==
  /\ commit[w].step \in Working \ {"checkpoint"} /\ fails < MaxFail
  /\ fails' = fails + 1
  /\ commit' = At(w, "error")
  /\ UNCHANGED <<head, intents, kept, offered, clock, edits>>

CommitStep(w) ==
  WriteIntent(w) \/ Checkpoint(w) \/ WriteHead(w) \/ Verify(w) \/ RetireOwn(w) \/ StepFails(w)

(* The caller has its answer, or the caller's process dies; the system     *)
(* gives the lock back.                                                    *)
Answered(w) ==
  /\ commit[w].step \in Outcomes
  /\ commit' = [commit EXCEPT ![w] = NoCommit]
  /\ UNCHANGED <<head, intents, kept, offered, clock, fails, edits>>

Dies(w) ==
  /\ commit[w].step # "none"
  /\ commit' = [commit EXCEPT ![w] = NoCommit]
  /\ UNCHANGED <<head, intents, kept, offered, clock, fails, edits>>
-----------------------------------------------------------------------------
(* A conflict hands over what is on disk; no file reads as no bytes.       *)
Theirs(bytes) == IF bytes = Absent THEN Emptied ELSE bytes

(* Home::recover.  It takes no lock.  Intents that are the head by now are *)
(* retired; the others are handed out, and stay.                           *)
Finished_any == intents
Finished == {i \in intents : i.prop = head}

Recovered(i) ==
  [intent |-> i, theirs |-> Theirs(head),
   kind |-> IF head = i.prev THEN "draft" ELSE "diverged"]

Recover ==
  /\ intents' = intents \ Finished
  /\ offered' = offered \cup {i.op : i \in intents'}
  /\ UNCHANGED <<head, kept, commit, clock, fails, edits>>

(* It ends at the first file it cannot read or remove, and hands out none. *)
RecoverFails ==
  /\ fails < MaxFail /\ fails' = fails + 1
  /\ \E done \in SUBSET Finished : intents' = intents \ done
  /\ UNCHANGED <<head, kept, offered, commit, clock, edits>>

(* Home::retire: a draft was taken or let go.                              *)
Retire(op) ==
  /\ ~Locked /\ op \in offered
  /\ intents' = {i \in intents : i.op # op}
  /\ UNCHANGED <<head, kept, offered, commit, clock, fails, edits>>

(* An editor, a checkout, a sync client: another text, no bytes, no file.  *)
EditOutside ==
  /\ edits < MaxEdit /\ edits' = edits + 1
  /\ head' \in [text : Contents, stamp : IF Legacy THEN {0} ELSE {head.stamp} \ {Absent.stamp}]
               \cup {Emptied, Absent}
  /\ head' # head
  /\ UNCHANGED <<intents, kept, offered, commit, clock, fails>>
-----------------------------------------------------------------------------
StoreNext ==
  \/ \E w \in Who : \/ \E base \in {head, Absent}, text \in Contents : Begin(w, base, text)
                    \/ CommitStep(w) \/ Answered(w) \/ Dies(w)
  \/ Recover \/ RecoverFails \/ \E op \in Ops : Retire(op)

(* Among writers that take the lock.                                       *)
StoreSpec == StoreInit /\ [][StoreNext]_storeVars
-----------------------------------------------------------------------------
(* One commit is under way at a time, and until it has written the head    *)
(* the head is the one it compared.                                        *)
Exclusive ==
  /\ \A v, w \in Who : commit[v].step \in Working /\ commit[w].step \in Working => v = w
  /\ \A w \in Who : /\ commit[w].step \in {"intent", "checkpoint", "head"} => head = commit[w].prev
                    /\ commit[w].step \in {"verify", "retire"} => head = commit[w].prop

(* "Whatever point a crash stops it at, recover finds either the finished  *)
(* head or the intent": from the intent on, there is one or the other.     *)
Recoverable ==
  \A w \in Who : commit[w].step \in Working \ {"intent"} =>
    head = commit[w].prop \/ Intent(w) \in intents

(* No two commits share a name, so retiring one retires no other.          *)
OpsFresh ==
  /\ \A i, j \in intents : i.op = j.op => i = j
  /\ \A i \in intents : i.op <= clock
  /\ \A op \in offered : op <= clock
  /\ \A w \in Who : commit[w].step \in Working =>
       /\ commit[w].op \in 1 .. clock
       /\ \A i \in intents : i.op = commit[w].op => i = Intent(w)
       /\ commit[w].step = "intent" =>
            commit[w].op \notin offered /\ \A i \in intents : i.op # commit[w].op

StoreInv == StoreTypeOK /\ Exclusive /\ Recoverable /\ OpsFresh

(* The home keeps NoteDrafts' promise: a text set out to be saved is kept  *)
(* until it is the file or was offered and let go, and the file changes    *)
(* only from the version that text was written over.                       *)
Promise == INSTANCE NoteDrafts WITH drafts <- intents
PromiseKept == Promise!Spec
=============================================================================

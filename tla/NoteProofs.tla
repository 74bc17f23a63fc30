----------------------------- MODULE NoteProofs -----------------------------
(***************************************************************************)
(* What holds of a note's file and of the session over it, for any set of  *)
(* writers and any bounds.                                                 *)
(*                                                                         *)
(* First NoteStore by itself: the protocol's invariant, which is inductive *)
(* as it stands, and that every step of it is a step of NoteDrafts'        *)
(* promise or changes nothing there.  Then NoteSession: that what shows as *)
(* saved is on disk, with plain editors about; and, among writers that     *)
(* take the lock, the protocol and the promise again, now under everything *)
(* a session does, and that nothing unseen is overwritten.                 *)
(***************************************************************************)
EXTENDS NoteSession, SequenceTheorems, TLAPS

CommitType ==
  [step : Working \cup Outcomes \cup {"none"}, op : 0 .. MaxClock, prev : Versions, prop : Bytes]

(* The one commit that a step of w touches, and what it becomes.           *)
LEMMA AtFields ==
  ASSUME StoreTypeOK, NEW w \in Who, NEW s \in Working \cup Outcomes
  PROVE  /\ At(w, s) \in [Who -> CommitType]
         /\ At(w, s)[w].step = s
         /\ At(w, s)[w].op = commit[w].op
         /\ At(w, s)[w].prev = commit[w].prev
         /\ At(w, s)[w].prop = commit[w].prop
         /\ \A v \in Who \ {w} : At(w, s)[v] = commit[v]
BY DEF StoreTypeOK, At, CommitType

LEMMA ResetFields ==
  ASSUME StoreTypeOK, NEW w \in Who, NEW c \in CommitType
  PROVE  LET now == [commit EXCEPT ![w] = c]
         IN  /\ now \in [Who -> CommitType]
             /\ now[w] = c
             /\ \A v \in Who \ {w} : now[v] = commit[v]
BY DEF StoreTypeOK, CommitType

LEMMA EmptiedType == Emptied \in Bytes /\ Emptied \in Versions /\ NoCommit \in CommitType
BY StoreAssumption DEF Emptied, Bytes, Texts, Versions, NoCommit, CommitType

LEMMA AbsentApart == Absent \notin Bytes
BY StoreAssumption DEF Absent, Bytes

(* What a commit that has set out is about to write.                       *)
LEMMA StampedType ==
  ASSUME StoreTypeOK, NEW text \in Texts
  PROVE  /\ Stamped(text) # Absent
         /\ clock < MaxClock => Stamped(text) \in Bytes
BY StoreAssumption DEF StoreTypeOK, Stamped, Bytes, Absent, Texts

LEMMA InitInv == StoreInit => StoreInv
<1> SUFFICES ASSUME StoreInit PROVE StoreInv
  OBVIOUS
<1> USE StoreAssumption, EmptiedType DEF StoreInit
<1>1. head \in Versions
  BY DEF Versions, Bytes, Texts
<1>2. \A w \in Who : commit[w] = NoCommit
  OBVIOUS
<1>3. NoCommit.step = "none"
  BY DEF NoCommit
<1>4. StoreTypeOK
  BY <1>1 DEF StoreTypeOK, CommitType
<1>5. Exclusive /\ Recoverable /\ OpsFresh
  BY <1>2, <1>3 DEF Exclusive, Recoverable, OpsFresh, Working
<1> QED
  BY <1>4, <1>5 DEF StoreInv
-----------------------------------------------------------------------------
LEMMA OthersRest ==
  ASSUME Exclusive, NEW w \in Who, commit[w].step \in Working
  PROVE  \A v \in Who \ {w} : commit[v].step \notin Working
BY DEF Exclusive

(* A commit of w that ends, or never set out, with nothing else changed.   *)
LEMMA EndStep ==
  ASSUME StoreInv, NEW w \in Who, NEW c \in CommitType, c.step \notin Working,
         commit' = [commit EXCEPT ![w] = c],
         UNCHANGED <<head, intents, kept, offered, clock, edits>>, fails' \in 0 .. MaxFail
  PROVE  StoreInv'
<1> USE DEF StoreInv
<1>1. /\ commit' \in [Who -> CommitType]
      /\ commit'[w].step \notin Working
      /\ \A v \in Who \ {w} : commit'[v] = commit[v]
  BY ResetFields
<1>2. StoreTypeOK'
  BY <1>1 DEF StoreTypeOK, CommitType
<1>3. \A v \in Who : commit'[v].step \in Working => commit'[v] = commit[v] /\ Intent(v)' = Intent(v)
  BY <1>1 DEF Intent
<1>4. Exclusive'
  BY <1>3 DEF Exclusive, Working
<1>5. Recoverable'
  BY <1>3 DEF Recoverable, Working
<1>6. OpsFresh'
  BY <1>3 DEF OpsFresh
<1> QED
  BY <1>2, <1>4, <1>5, <1>6

LEMMA RefuseInv ==
  ASSUME StoreInv, NEW w \in Who, NEW base, Refuse(w, base)
  PROVE  StoreInv'
<1> DEFINE c == [NoCommit EXCEPT !.step = "conflict", !.prev = head]
<1>1. c \in CommitType /\ c.step \notin Working
  BY EmptiedType DEF StoreInv, StoreTypeOK, NoCommit, CommitType, Outcomes, Working
<1>2. commit' = [commit EXCEPT ![w] = c] /\ fails' \in 0 .. MaxFail
      /\ UNCHANGED <<head, intents, kept, offered, clock, edits>>
  BY DEF Refuse, StoreInv, StoreTypeOK
<1> HIDE DEF c
<1> QED
  BY <1>1, <1>2, EndStep

LEMMA NothingToDoInv ==
  ASSUME StoreInv, NEW w \in Who, NEW base, NEW text \in Texts, NothingToDo(w, base, text)
  PROVE  StoreInv'
<1> DEFINE c == [NoCommit EXCEPT !.step = "ok", !.prop = head]
<1>1. head \in Bytes
  BY StampedType DEF NothingToDo, Versions, StoreInv, StoreTypeOK
<1>2. c \in CommitType /\ c.step \notin Working
  BY <1>1, EmptiedType DEF NoCommit, CommitType, Outcomes, Working
<1>3. commit' = [commit EXCEPT ![w] = c] /\ fails' \in 0 .. MaxFail
      /\ UNCHANGED <<head, intents, kept, offered, clock, edits>>
  BY DEF NothingToDo, StoreInv, StoreTypeOK
<1> HIDE DEF c
<1> QED
  BY <1>2, <1>3, EndStep

LEMMA BalkInv ==
  ASSUME StoreInv, NEW w \in Who, Balk(w)
  PROVE  StoreInv'
<1> DEFINE c == [NoCommit EXCEPT !.step = "error"]
<1>1. c \in CommitType /\ c.step \notin Working
  BY EmptiedType DEF NoCommit, CommitType, Outcomes, Working
<1>2. commit' = [commit EXCEPT ![w] = c] /\ fails' \in 0 .. MaxFail
      /\ UNCHANGED <<head, intents, kept, offered, clock, edits>>
  BY StoreAssumption DEF Balk, StoreInv, StoreTypeOK
<1> HIDE DEF c
<1> QED
  BY <1>1, <1>2, EndStep

LEMMA GoneInv ==
  ASSUME StoreInv, NEW w \in Who, Answered(w) \/ Dies(w)
  PROVE  StoreInv'
<1>1. NoCommit \in CommitType /\ NoCommit.step \notin Working
  BY EmptiedType DEF NoCommit, Working
<1>2. commit' = [commit EXCEPT ![w] = NoCommit] /\ fails' \in 0 .. MaxFail
      /\ UNCHANGED <<head, intents, kept, offered, clock, edits>>
  BY DEF Answered, Dies, StoreInv, StoreTypeOK
<1> QED
  BY <1>1, <1>2, EndStep

(* Setting out: the head is what was compared, and the name is a new one.  *)
LEMMA SetOutInv ==
  ASSUME StoreInv, NEW w \in Who, NEW base, NEW text \in Texts, SetOut(w, base, text)
  PROVE  StoreInv'
<1> DEFINE c == [step |-> "intent", op |-> clock + 1, prev |-> head, prop |-> Stamped(text)]
<1> USE DEF StoreInv
<1>1. /\ commit' = [commit EXCEPT ![w] = c]
      /\ clock < MaxClock /\ clock' = clock + 1
      /\ UNCHANGED <<head, intents, kept, offered, fails, edits>>
  BY DEF SetOut
<1>2. clock \in Nat /\ MaxClock \in Nat /\ clock' \in 1 .. MaxClock
  BY <1>1, StoreAssumption DEF StoreTypeOK
<1>3. c \in CommitType
  BY <1>1, <1>2, StampedType DEF CommitType, Working, StoreTypeOK
<1>4. c.step = "intent" /\ c.op = clock + 1 /\ c.prev = head
  OBVIOUS
<1> HIDE DEF c
<1>5. /\ commit' \in [Who -> CommitType]
      /\ commit'[w] = c
      /\ \A v \in Who \ {w} : commit'[v] = commit[v]
  BY <1>1, <1>3, ResetFields
<1>6. \A v \in Who \ {w} : commit[v].step \notin Working /\ commit'[v].step \notin Working
  BY <1>5 DEF SetOut, Locked
<1>7. StoreTypeOK'
  BY <1>1, <1>2, <1>5 DEF StoreTypeOK, CommitType
<1>8. Exclusive'
  BY <1>1, <1>4, <1>5, <1>6 DEF Exclusive, Working
<1>9. Recoverable'
  BY <1>4, <1>5, <1>6 DEF Recoverable, Working
<1>10. OpsFresh'
  <2>1. \A i \in intents : i.op \in Nat /\ i.op <= clock
    BY DEF OpsFresh, StoreTypeOK, Intents, Ops
  <2>2. \A op \in offered : op \in Nat /\ op <= clock
    BY DEF OpsFresh, StoreTypeOK, Ops
  <2>3. \A i, j \in intents' : i.op = j.op => i = j
    BY <1>1 DEF OpsFresh
  <2>4. (\A i \in intents' : i.op <= clock') /\ (\A op \in offered' : op <= clock')
    BY <1>1, <1>2, <2>1, <2>2
  <2>5. commit'[w].op \in 1 .. clock'
    BY <1>1, <1>2, <1>4, <1>5
  <2>6. commit'[w].op \notin offered' /\ \A i \in intents' : i.op # commit'[w].op
    BY <1>1, <1>2, <1>4, <1>5, <2>1, <2>2
  <2> QED
    BY <1>6, <2>3, <2>4, <2>5, <2>6 DEF OpsFresh
<1> QED
  BY <1>7, <1>8, <1>9, <1>10

LEMMA BeginInv ==
  ASSUME StoreInv, NEW w \in Who, NEW base, NEW text \in Texts, Begin(w, base, text)
  PROVE  StoreInv'
BY RefuseInv, NothingToDoInv, SetOutInv, BalkInv DEF Begin

(* The steps of one commit.  Its writer is the only one at work.           *)
LEMMA CommitStepFrame ==
  ASSUME StoreInv, NEW w \in Who, CommitStep(w)
  PROVE  /\ commit[w].step \in Working
         /\ \A v \in Who \ {w} : commit[v].step \notin Working
         /\ \E s \in Working \cup Outcomes : commit' = At(w, s)
         /\ UNCHANGED <<offered, clock, edits>>
         /\ fails' \in 0 .. MaxFail
<1> USE DEF StoreInv
<1>1. commit[w].step \in Working
  BY DEF CommitStep, WriteIntent, Checkpoint, WriteHead, Verify, RetireOwn, StepFails, Working
<1>2. \E s \in Working \cup Outcomes : commit' = At(w, s)
  <2>1. {"checkpoint", "head", "verify", "retire", "ok", "error"} \subseteq Working \cup Outcomes
    BY DEF Working, Outcomes
  <2> QED
    BY <2>1 DEF CommitStep, WriteIntent, Checkpoint, WriteHead, Verify, RetireOwn, StepFails
<1>3. UNCHANGED <<offered, clock, edits>>
  BY DEF CommitStep, WriteIntent, Checkpoint, WriteHead, Verify, RetireOwn, StepFails
<1>4. fails' \in 0 .. MaxFail
  BY StoreAssumption
     DEF CommitStep, WriteIntent, Checkpoint, WriteHead, Verify, RetireOwn, StepFails, StoreTypeOK
<1> QED
  BY <1>1, <1>2, <1>3, <1>4, OthersRest

LEMMA CommitStepFields ==
  ASSUME StoreInv, NEW w \in Who, CommitStep(w)
  PROVE  /\ commit' \in [Who -> CommitType]
         /\ commit'[w].op = commit[w].op
         /\ commit'[w].prev = commit[w].prev
         /\ commit'[w].prop = commit[w].prop
         /\ Intent(w)' = Intent(w)
         /\ \A v \in Who \ {w} : commit'[v] = commit[v] /\ commit'[v].step \notin Working
<1> USE DEF StoreInv
<1>1. PICK s \in Working \cup Outcomes : commit' = At(w, s)
  BY CommitStepFrame
<1>2. /\ commit' \in [Who -> CommitType]
      /\ commit'[w].op = commit[w].op
      /\ commit'[w].prev = commit[w].prev
      /\ commit'[w].prop = commit[w].prop
      /\ \A v \in Who \ {w} : commit'[v] = commit[v]
  BY <1>1, AtFields
<1>3. Intent(w)' = Intent(w)
  BY <1>2 DEF Intent
<1> QED
  BY <1>2, <1>3, CommitStepFrame

LEMMA IntentType ==
  ASSUME StoreInv, NEW w \in Who, commit[w].step \in Working
  PROVE  /\ Intent(w) \in Intents
         /\ Intent(w).op = commit[w].op
         /\ Intent(w).prev = commit[w].prev
         /\ Intent(w).prop = commit[w].prop
<1>1. commit[w].op \in Ops /\ commit[w].prev \in Versions /\ commit[w].prop \in Bytes
  BY StoreAssumption DEF StoreInv, OpsFresh, StoreTypeOK, Ops, CommitType
<1> QED
  BY <1>1 DEF Intent, Intents

LEMMA WriteIntentInv ==
  ASSUME StoreInv, NEW w \in Who, WriteIntent(w)
  PROVE  StoreInv'
<1> USE DEF StoreInv
<1>0. CommitStep(w)
  BY DEF CommitStep
<1>1. commit[w].step = "intent" /\ commit'[w].step = "checkpoint"
  BY AtFields DEF WriteIntent, Working
<1>2. /\ intents' = intents \cup {Intent(w)}
      /\ UNCHANGED <<head, kept, offered, clock, fails, edits>>
  BY DEF WriteIntent
<1>3. /\ commit[w].step \in Working
      /\ Intent(w) \in Intents /\ Intent(w).op = commit[w].op
  BY <1>1, IntentType DEF Working
<1>4. StoreTypeOK'
  BY <1>0, <1>2, <1>3, CommitStepFields DEF StoreTypeOK, CommitType
<1>5. Exclusive'
  BY <1>0, <1>1, <1>2, CommitStepFields DEF Exclusive, Working
<1>6. Recoverable'
  BY <1>0, <1>1, <1>2, CommitStepFields DEF Recoverable, Working
<1>7. OpsFresh'
  <2>1. /\ commit[w].op \in 1 .. clock /\ commit[w].op \notin offered
        /\ \A i \in intents : i.op # commit[w].op
    BY <1>1, <1>3 DEF OpsFresh
  <2>2. \A i, j \in intents' : i.op = j.op => i = j
    BY <1>2, <1>3, <2>1 DEF OpsFresh
  <2>3. (\A i \in intents' : i.op <= clock') /\ (\A op \in offered' : op <= clock')
    BY <1>2, <1>3, <2>1 DEF OpsFresh
  <2>4. \A i \in intents' : i.op = commit'[w].op => i = Intent(w)'
    BY <1>0, <1>2, <1>3, <2>1, CommitStepFields
  <2> QED
    BY <1>0, <1>1, <1>2, <2>1, <2>2, <2>3, <2>4, CommitStepFields DEF OpsFresh
<1> QED
  BY <1>4, <1>5, <1>6, <1>7

(* Steps after the intent that leave the head and the intents alone.       *)
LEMMA QuietInv ==
  ASSUME StoreInv, NEW w \in Who, CommitStep(w),
         UNCHANGED <<head, intents>>, kept' \subseteq Texts,
         commit'[w].step \in Working =>
           /\ commit'[w].step # "intent"
           /\ commit[w].step # "intent" \/ Intent(w) \in intents
           /\ commit'[w].step \in {"checkpoint", "head"} =>
                commit[w].step \in {"intent", "checkpoint", "head"}
           /\ commit'[w].step \in {"verify", "retire"} => head = commit[w].prop
  PROVE  StoreInv'
<1> USE DEF StoreInv
<1>1. StoreTypeOK'
  BY CommitStepFrame, CommitStepFields DEF StoreTypeOK, CommitType
<1>2. Exclusive'
  BY CommitStepFields DEF Exclusive, Working
<1>3. Recoverable'
  BY CommitStepFrame, CommitStepFields DEF Recoverable, Working
<1>4. OpsFresh'
  <2>1. commit[w].step \in Working /\ UNCHANGED <<offered, clock>>
    BY CommitStepFrame
  <2> QED
    BY <2>1, CommitStepFields DEF OpsFresh
<1> QED
  BY <1>1, <1>2, <1>3, <1>4

LEMMA CheckpointInv ==
  ASSUME StoreInv, NEW w \in Who, Checkpoint(w)
  PROVE  StoreInv'
<1>1. CommitStep(w) /\ UNCHANGED <<head, intents>>
  BY DEF CommitStep, Checkpoint
<1>2. commit[w].step = "checkpoint" /\ commit'[w].step = "head"
  BY AtFields DEF Checkpoint, Working, StoreInv
<1>3. kept' \subseteq Texts
  BY DEF Checkpoint, StoreInv, StoreTypeOK, Versions, Bytes
<1> QED
  BY <1>1, <1>2, <1>3, QuietInv

LEMMA VerifyInv ==
  ASSUME StoreInv, NEW w \in Who, Verify(w)
  PROVE  StoreInv'
<1>1. CommitStep(w) /\ UNCHANGED <<head, intents, kept>>
  BY DEF CommitStep, Verify
<1>2. commit[w].step = "verify"
      /\ commit'[w].step = (IF head = commit[w].prop THEN "retire" ELSE "error")
  BY AtFields DEF Verify, Working, Outcomes, StoreInv
<1>3. kept' \subseteq Texts
  BY <1>1 DEF StoreInv, StoreTypeOK
<1> QED
  BY <1>1, <1>2, <1>3, QuietInv DEF Working

LEMMA StepFailsInv ==
  ASSUME StoreInv, NEW w \in Who, StepFails(w)
  PROVE  StoreInv'
<1>1. CommitStep(w) /\ UNCHANGED <<head, intents, kept>>
  BY DEF CommitStep, StepFails
<1>2. commit'[w].step = "error"
  BY AtFields DEF StepFails, Outcomes, StoreInv
<1>3. kept' \subseteq Texts
  BY <1>1 DEF StoreInv, StoreTypeOK
<1> QED
  BY <1>1, <1>2, <1>3, QuietInv DEF Working

LEMMA WriteHeadInv ==
  ASSUME StoreInv, NEW w \in Who, WriteHead(w)
  PROVE  StoreInv'
<1> USE DEF StoreInv
<1>0. CommitStep(w)
  BY DEF CommitStep
<1>1. commit[w].step = "head" /\ commit'[w].step = "verify"
  BY AtFields DEF WriteHead, Working
<1>2. head' = commit[w].prop /\ UNCHANGED <<intents, kept, offered, clock, fails, edits>>
  BY DEF WriteHead
<1>3. commit[w].step \in Working /\ commit[w].prop \in Versions
  BY <1>1 DEF StoreTypeOK, Working, Versions
<1>4. StoreTypeOK'
  BY <1>0, <1>2, <1>3, CommitStepFields DEF StoreTypeOK, CommitType
<1>5. Exclusive'
  BY <1>0, <1>1, <1>2, CommitStepFields DEF Exclusive, Working
<1>6. Recoverable'
  BY <1>0, <1>1, <1>2, CommitStepFields DEF Recoverable, Working
<1>7. OpsFresh'
  BY <1>0, <1>1, <1>2, <1>3, CommitStepFields DEF OpsFresh
<1> QED
  BY <1>4, <1>5, <1>6, <1>7

LEMMA RetireOwnInv ==
  ASSUME StoreInv, NEW w \in Who, RetireOwn(w)
  PROVE  StoreInv'
<1> USE DEF StoreInv
<1>0. CommitStep(w)
  BY DEF CommitStep
<1>1. commit'[w].step = "ok"
  BY AtFields DEF RetireOwn, Outcomes
<1>2. /\ intents' \subseteq intents
      /\ UNCHANGED <<head, kept, offered, clock, fails, edits>>
  BY DEF RetireOwn
<1>3. \A v \in Who : commit'[v].step \notin Working
  BY <1>0, <1>1, CommitStepFields DEF Working
<1>4. StoreTypeOK'
  BY <1>0, <1>2, CommitStepFields DEF StoreTypeOK, CommitType
<1>5. Exclusive' /\ Recoverable'
  BY <1>3 DEF Exclusive, Recoverable, Working
<1>6. OpsFresh'
  BY <1>2, <1>3 DEF OpsFresh
<1> QED
  BY <1>4, <1>5, <1>6

LEMMA CommitStepInv ==
  ASSUME StoreInv, NEW w \in Who, CommitStep(w)
  PROVE  StoreInv'
BY WriteIntentInv, CheckpointInv, WriteHeadInv, VerifyInv, RetireOwnInv, StepFailsInv DEF CommitStep

(* Recovery and retirement take intents away, never one that a commit past *)
(* its intent still needs.                                                 *)
LEMMA RecoverInv ==
  ASSUME StoreInv, Recover
  PROVE  StoreInv'
<1> USE DEF StoreInv
<1>1. /\ intents' = intents \ Finished /\ offered' = offered \cup {i.op : i \in intents'}
      /\ UNCHANGED <<head, kept, commit, clock, fails, edits>>
  BY DEF Recover
<1>2. intents' \subseteq intents /\ \A i \in intents : i \in intents' \/ i.prop = head
  BY <1>1 DEF Finished
<1>3. \A i \in intents : i.op \in Ops
  BY DEF StoreTypeOK, Intents
<1>4. StoreTypeOK'
  BY <1>1, <1>2, <1>3 DEF StoreTypeOK
<1>5. Exclusive'
  BY <1>1 DEF Exclusive
<1>6. \A w \in Who : Intent(w)' = Intent(w) /\ Intent(w).prop = commit[w].prop
  BY <1>1 DEF Intent
<1>7. Recoverable'
  BY <1>1, <1>2, <1>6 DEF Recoverable
<1>8. OpsFresh'
  BY <1>1, <1>2, <1>6 DEF OpsFresh
<1> QED
  BY <1>4, <1>5, <1>7, <1>8

LEMMA RecoverFailsInv ==
  ASSUME StoreInv, RecoverFails
  PROVE  StoreInv'
<1> USE DEF StoreInv
<1>1. /\ intents' \subseteq intents /\ \A i \in intents : i \in intents' \/ i.prop = head
      /\ fails < MaxFail /\ fails' = fails + 1
      /\ UNCHANGED <<head, kept, offered, commit, clock, edits>>
  BY DEF RecoverFails, Finished
<1>2. fails' \in 0 .. MaxFail
  BY <1>1, StoreAssumption DEF StoreTypeOK
<1>3. StoreTypeOK'
  BY <1>1, <1>2 DEF StoreTypeOK
<1>4. Exclusive'
  BY <1>1 DEF Exclusive
<1>5. \A w \in Who : Intent(w)' = Intent(w) /\ Intent(w).prop = commit[w].prop
  BY <1>1 DEF Intent
<1>6. Recoverable'
  BY <1>1, <1>5 DEF Recoverable
<1>7. OpsFresh'
  BY <1>1, <1>5 DEF OpsFresh
<1> QED
  BY <1>3, <1>4, <1>6, <1>7

LEMMA RetireInv ==
  ASSUME StoreInv, NEW op, Retire(op)
  PROVE  StoreInv'
<1> USE DEF StoreInv
<1>1. /\ intents' \subseteq intents
      /\ UNCHANGED <<head, kept, offered, commit, clock, fails, edits>>
  BY DEF Retire
<1>2. \A w \in Who : commit'[w].step \notin Working
  BY <1>1 DEF Retire, Locked
<1>3. StoreTypeOK'
  BY <1>1 DEF StoreTypeOK
<1>4. Exclusive' /\ Recoverable'
  BY <1>2 DEF Exclusive, Recoverable, Working
<1>5. OpsFresh'
  BY <1>1, <1>2 DEF OpsFresh
<1> QED
  BY <1>3, <1>4, <1>5

LEMMA NextInv == StoreInv /\ [StoreNext]_storeVars => StoreInv'
<1> SUFFICES ASSUME StoreInv, [StoreNext]_storeVars PROVE StoreInv'
  OBVIOUS
<1>0. Contents \subseteq Texts
  BY DEF Contents
<1>1. ASSUME NEW w \in Who, NEW base \in {head, Absent}, NEW text \in Contents, Begin(w, base, text)
      PROVE  StoreInv'
  BY <1>0, <1>1, BeginInv
<1>2. ASSUME NEW w \in Who, CommitStep(w) \/ Answered(w) \/ Dies(w)
      PROVE  StoreInv'
  BY <1>2, CommitStepInv, GoneInv
<1>3. ASSUME Recover \/ RecoverFails \/ \E op \in Ops : Retire(op)
      PROVE  StoreInv'
  BY <1>3, RecoverInv, RecoverFailsInv, RetireInv
<1>4. ASSUME UNCHANGED storeVars
      PROVE  StoreInv'
  BY <1>4 DEF storeVars, StoreInv, StoreTypeOK, Exclusive, Recoverable, OpsFresh, Intent
<1> QED
  BY <1>1, <1>2, <1>3, <1>4 DEF StoreNext

(* The protocol of commit, recover and retire keeps one commit at work,    *)
(* leaves the head or an intent at every point after the intent is         *)
(* written, and names no two commits alike: for any writers and bounds.    *)
THEOREM ProtocolHolds == StoreSpec => []StoreInv
BY InitInv, NextInv, PTL DEF StoreSpec
-----------------------------------------------------------------------------
(* The promise.  Of all steps four show in it: writing the intent sets     *)
(* out, writing the head publishes, taking one's own or a finished intent  *)
(* away settles, and retiring an offered one lets go.                      *)

promised == <<head, intents, offered>>

LEMMA PromiseInit == StoreInit => Promise!Init
<1> SUFFICES ASSUME StoreInit PROVE Promise!Init
  OBVIOUS
<1>1. head \in Versions
  BY InitInv DEF StoreInv, StoreTypeOK
<1> QED
  BY <1>1 DEF StoreInit, Promise!Init

LEMMA WriteIntentPromised ==
  ASSUME StoreInv, NEW w \in Who, WriteIntent(w)
  PROVE  Promise!SetOut
<1> DEFINE d == Intent(w)
<1>1. commit[w].step = "intent" /\ commit[w].step \in Working
  BY DEF WriteIntent, Working
<1>2. d \in Promise!Drafts /\ d.op = commit[w].op /\ d.prev = commit[w].prev
  BY <1>1, IntentType DEF Intents, Promise!Drafts, Versions
<1>3. d.prev = head /\ \A e \in intents : e.op # d.op
  BY <1>1, <1>2 DEF StoreInv, Exclusive, OpsFresh
<1>4. intents' = intents \cup {d} /\ UNCHANGED <<head, offered>>
  BY DEF WriteIntent
<1> HIDE DEF d
<1> QED
  BY <1>2, <1>3, <1>4 DEF Promise!SetOut

LEMMA WriteHeadPromised ==
  ASSUME StoreInv, NEW w \in Who, WriteHead(w)
  PROVE  Promise!Publish \/ UNCHANGED promised
<1> DEFINE d == Intent(w)
<1>1. commit[w].step = "head" /\ commit[w].step \in Working
  BY DEF WriteHead, Working
<1>2. d.prev = commit[w].prev /\ d.prop = commit[w].prop
  BY <1>1, IntentType
<1>3. head = commit[w].prop \/ d \in intents
  BY <1>1 DEF StoreInv, Recoverable, Working
<1>4. head = commit[w].prev
  BY <1>1 DEF StoreInv, Exclusive
<1>5. head' = commit[w].prop /\ UNCHANGED <<intents, offered>>
  BY DEF WriteHead
<1> HIDE DEF d
<1>6. CASE d \in intents
  BY <1>2, <1>4, <1>5, <1>6 DEF Promise!Publish
<1>7. CASE head = commit[w].prop
  BY <1>5, <1>7 DEF promised
<1> QED
  BY <1>3, <1>6, <1>7

LEMMA RetireOwnPromised ==
  ASSUME StoreInv, NEW w \in Who, RetireOwn(w)
  PROVE  Promise!Settle
<1> DEFINE done == {i \in intents : i.op = commit[w].op}
<1>1. commit[w].step = "retire" /\ commit[w].step \in Working
  BY DEF RetireOwn, Working
<1>2. \A i \in done : i.prop = head
  BY <1>1, IntentType DEF StoreInv, Exclusive, OpsFresh
<1>3. intents' = intents \ done /\ UNCHANGED <<head, offered>>
  BY DEF RetireOwn
<1>4. done \in SUBSET {d \in intents : d.prop = head}
  BY <1>2
<1> HIDE DEF done
<1> QED
  BY <1>3, <1>4 DEF Promise!Settle

LEMMA RecoverPromised ==
  ASSUME StoreInv, Recover
  PROVE  Promise!Settle
<1>1. intents' = intents \ Finished /\ UNCHANGED head
      /\ offered' = offered \cup {i.op : i \in intents'}
  BY DEF Recover
<1>2. Finished \in SUBSET {d \in intents : d.prop = head}
  BY DEF Finished
<1> QED
  BY <1>1, <1>2 DEF Promise!Settle

LEMMA RecoverFailsPromised ==
  ASSUME StoreInv, RecoverFails
  PROVE  Promise!Settle
<1>1. PICK done \in SUBSET Finished : intents' = intents \ done
  BY DEF RecoverFails
<1>2. UNCHANGED <<head, offered>>
  BY DEF RecoverFails
<1>3. done \in SUBSET {d \in intents : d.prop = head}
  BY DEF Finished
<1>4. offered' \in SUBSET (offered \cup {d.op : d \in intents'}) /\ offered \subseteq offered'
  BY <1>2
<1> QED
  BY <1>1, <1>2, <1>3, <1>4 DEF Promise!Settle

LEMMA RetirePromised ==
  ASSUME StoreInv, NEW op, Retire(op)
  PROVE  Promise!LetGo \/ UNCHANGED promised
<1>1. op \in offered /\ intents' = {i \in intents : i.op # op} /\ UNCHANGED <<head, offered>>
  BY DEF Retire
<1>2. CASE \E i \in intents : i.op = op
  <2>1. PICK d \in intents : d.op = op
    BY <1>2
  <2>2. intents' = intents \ {d}
    BY <1>1, <2>1 DEF StoreInv, OpsFresh
  <2> QED
    BY <1>1, <2>1, <2>2 DEF Promise!LetGo
<1>3. CASE ~ \E i \in intents : i.op = op
  BY <1>1, <1>3 DEF promised
<1> QED
  BY <1>2, <1>3

LEMMA StepPromised ==
  StoreInv /\ [StoreNext]_storeVars => [Promise!Next]_promised
<1> SUFFICES ASSUME StoreInv, [StoreNext]_storeVars
             PROVE  Promise!Next \/ UNCHANGED promised
  BY DEF promised
<1>1. ASSUME NEW w \in Who, NEW base, NEW text, Begin(w, base, text)
      PROVE  UNCHANGED promised
  BY <1>1 DEF Begin, Refuse, NothingToDo, SetOut, Balk, promised
<1>2. ASSUME NEW w \in Who, CommitStep(w)
      PROVE  Promise!Next \/ UNCHANGED promised
  <2>1. CASE WriteIntent(w)
    BY <2>1, WriteIntentPromised DEF Promise!Next
  <2>2. CASE WriteHead(w)
    BY <2>2, WriteHeadPromised DEF Promise!Next
  <2>3. CASE RetireOwn(w)
    BY <2>3, RetireOwnPromised DEF Promise!Next
  <2>4. CASE Checkpoint(w) \/ Verify(w) \/ StepFails(w)
    BY <2>4 DEF Checkpoint, Verify, StepFails, promised
  <2> QED
    BY <1>2, <2>1, <2>2, <2>3, <2>4 DEF CommitStep
<1>3. ASSUME NEW w \in Who, Answered(w) \/ Dies(w)
      PROVE  UNCHANGED promised
  BY <1>3 DEF Answered, Dies, promised
<1>4. ASSUME Recover \/ RecoverFails \/ \E op \in Ops : Retire(op)
      PROVE  Promise!Next \/ UNCHANGED promised
  BY <1>4, RecoverPromised, RecoverFailsPromised, RetirePromised DEF Promise!Next
<1>5. ASSUME UNCHANGED storeVars
      PROVE  UNCHANGED promised
  BY <1>5 DEF storeVars, promised
<1> QED
  BY <1>1, <1>2, <1>3, <1>4, <1>5 DEF StoreNext

(* Home::commit, Home::recover and Home::retire implement the promise of   *)
(* NoteDrafts: among writers that take the lock no text set out to be      *)
(* saved goes but by becoming the file or being offered and let go, and    *)
(* the file changes only from the version that text was written over.      *)
THEOREM KeepsPromise == StoreSpec => PromiseKept
<1>1. StoreSpec => []StoreInv
  BY ProtocolHolds
<1> QED
  BY <1>1, PromiseInit, StepPromised, PTL
  DEF StoreSpec, PromiseKept, Promise!Spec, promised
-----------------------------------------------------------------------------
(* The session's invariant.  Who writes what: the thread works on the      *)
(* first snapshot of the queue, the UI thread on a session that has none   *)
(* out; and a commit writes the text it was given.                         *)
WorkNamed == \A w \in Who : commit[w].step \in Working => commit[w].op \in Ops

BeforeHead == {"intent", "checkpoint", "head"}
Writes(c, text) == c.step \in Working \cup {"ok"} => c.prop.text = text

ThreadWorks ==
  commit["thread"].step # "none" =>
    queue # <<>> /\ Writes(commit["thread"], Head(queue).text)

UiWorks ==
  commit["ui"].step # "none" =>
    /\ session.open /\ Dirty(session) /\ ~session.inflight /\ session.conflict = NoConflict
    /\ Writes(commit["ui"], session.text)

(* A session in conflict has no save out, and one let go leaves nothing.   *)
Sound(s) ==
  /\ s \in Sessions
  /\ s.conflict # NoConflict => ~s.inflight
  /\ ~s.open => s = Closed

(* With nothing unsaved the session shows its base.                        *)
ShowsBase(s) ==
  /\ s.saved <= s.gen
  /\ s.open /\ ~Dirty(s) => s.text = s.base.text

(* The one save that is out is of what the session holds, or of what it    *)
(* held before it was changed again, over the base it still has.           *)
JobOf(j, s) ==
  /\ s.saved < j.gen /\ j.gen <= s.gen
  /\ j.gen = s.gen => j.text = s.text
  /\ j.base = s.base

AnswerOf(d, s) ==
  /\ s.saved < d.gen /\ d.gen <= s.gen
  /\ d.step = "ok" /\ d.gen = s.gen => d.prop.text = s.text

Pending ==
  /\ ~session.inflight => queue = <<>> /\ dones = <<>>
  /\ session.inflight => Len(queue) + Len(dones) = 1
  /\ \A i \in 1 .. Len(queue) : JobOf(queue[i], session)
  /\ \A i \in 1 .. Len(dones) : AnswerOf(dones[i], session)

FromBase == \A w \in Ours : commit[w].step \in BeforeHead => commit[w].prev = session.base

(* The base is a version nus has shown or saved, no file, or one it keeps, *)
(* unless a draft was laid over it.                                        *)
Known(v) == v \in seen \cup {Absent} \/ v.text \in kept
BaseSeen == session.open /\ session.op = NoOp => Known(session.base)

(* The drafts recover() has handed out, and the one in the session.        *)
Handed == session.op \in offered \cup {NoOp} /\ \A d \in found : d.intent.op \in offered

Drafts == [intent : Intents, theirs : Bytes, kind : {"draft", "diverged"}]

(* The session's own variables.                                            *)
OwnTypeOK ==
  /\ queue \in Seq(Jobs) /\ dones \in Seq(Done)
  /\ looked \in BOOLEAN /\ toast \in BOOLEAN
  /\ found \subseteq Drafts
  /\ crashes \in 0 .. MaxCrash /\ seen \subseteq Versions
  /\ crossed \in BOOLEAN

WorkInv  == WorkNamed /\ ThreadWorks /\ UiWorks
BoundInv == ~crossed => Pending /\ FromBase
SeenInv  == BaseSeen /\ Handed

IInv ==
  /\ StoreTypeOK /\ OwnTypeOK
  /\ Sound(session)
  /\ crossed \/ ShowsBase(session)
  /\ WorkInv /\ BoundInv /\ SeenInv

LEMMA InvNoted == IInv => NoteInv
BY DEF IInv, NoteInv, TypeOK, OwnTypeOK, Sound, SavedIsOnDisk, SavedMeansSaved, ShowsBase, Saved, Drafts
-----------------------------------------------------------------------------
(* The data.                                                               *)

LEMMA OursAre == "thread" \in Who /\ "ui" \in Who /\ Ours = {"thread", "ui"} /\ "thread" # "ui"
BY SessionAssumption DEF Ours

LEMMA BytesAreVersions == Bytes \subseteq Versions /\ Contents \subseteq Texts
BY DEF Versions, Contents

LEMMA NoConflictApart == NoConflict \notin Bytes
BY StoreAssumption DEF NoConflict, Bytes

LEMMA TheirsType ==
  ASSUME NEW v \in Versions
  PROVE  Theirs(v) \in Bytes
BY EmptiedType DEF Theirs, Versions

LEMMA ClosedFields ==
  /\ Closed \in Sessions
  /\ ~Closed.open /\ ~Closed.inflight /\ Closed.op = NoOp /\ Closed.views = 0
  /\ Closed.gen = 0 /\ Closed.saved = 0 /\ Closed.conflict = NoConflict
<1>1. 0 \in Texts /\ 0 \in 0 .. MaxGen /\ 0 \in 0 .. MaxViews /\ 0 \in 0 .. MaxClock
  BY StoreAssumption, SessionAssumption DEF Texts
<1> QED
  BY <1>1, EmptiedType DEF Closed, Sessions, NoOp

LEMMA ClosedSound == Sound(Closed)
BY ClosedFields DEF Sound

LEMMA VersionText ==
  ASSUME NEW v \in Versions
  PROVE  v.text \in Texts
BY StoreAssumption DEF Versions, Bytes, Absent, Texts

(* A change of text is a new generation, and changes nothing else.         *)
LEMMA ChangedFields ==
  ASSUME NEW s \in Sessions, NEW text \in Texts, s.gen < MaxGen
  PROVE  LET t == Changed(s, text)
         IN  /\ t \in Sessions
             /\ t.text = text
             /\ t.gen = IF text = s.text THEN s.gen ELSE s.gen + 1
             /\ t.open = s.open /\ t.saved = s.saved /\ t.base = s.base
             /\ t.inflight = s.inflight /\ t.failed = s.failed /\ t.conflict = s.conflict
             /\ t.views = s.views /\ t.mark = s.mark /\ t.op = s.op
<1> USE DEF Changed
<1>1. CASE text = s.text
  BY <1>1
<1>2. CASE text # s.text
  <2>1. s.gen + 1 \in 0 .. MaxGen
    BY SessionAssumption DEF Sessions
  <2> QED
    BY <1>2, <2>1 DEF Sessions
<1> QED
  BY <1>1, <1>2

LEMMA TookFields ==
  ASSUME NEW s \in Sessions, NEW bytes \in Bytes, s.gen < MaxGen
  PROVE  LET t == Took(s, bytes)
         IN  /\ t \in Sessions
             /\ t.text = bytes.text /\ t.base = bytes
             /\ t.gen \in 0 .. MaxGen /\ t.saved = t.gen
             /\ t.conflict = NoConflict
             /\ t.open = s.open /\ t.inflight = s.inflight /\ t.op = s.op
<1> DEFINE c == Changed(s, bytes.text)
<1>1. bytes.text \in Texts /\ bytes \in Versions
  BY DEF Bytes, Versions
<1>2. /\ c \in Sessions
      /\ c.text = bytes.text
      /\ c.open = s.open /\ c.inflight = s.inflight /\ c.op = s.op
  BY <1>1, ChangedFields
<1> HIDE DEF c
<1>3. Took(s, bytes) = [c EXCEPT !.base = bytes, !.saved = c.gen,
                                 !.conflict = NoConflict, !.failed = FALSE]
  BY DEF Took, c
<1> QED
  BY <1>1, <1>2, <1>3 DEF Sessions

LEMMA FreshFields ==
  ASSUME head \in Versions
  PROVE  /\ Fresh \in Sessions
         /\ Fresh.open /\ ~Fresh.inflight /\ Fresh.op = NoOp /\ Fresh.views = 0
         /\ Fresh.gen = 0 /\ Fresh.saved = 0 /\ Fresh.conflict = NoConflict
         /\ Fresh.text = head.text /\ Fresh.base = head
<1>1. head.text \in Texts
  BY VersionText
<1> QED
  BY <1>1, ClosedFields DEF Fresh, Sessions

LEMMA DraftFields ==
  ASSUME head \in Versions, NEW d \in Drafts
  PROVE  LET s == WithDraft(d)
         IN  /\ s \in Sessions
             /\ s.open /\ ~s.inflight /\ s.views = 0 /\ s.saved = 0 /\ s.base = head
             /\ s.text = d.intent.prop.text /\ s.op = d.intent.op /\ s.op \in Ops
             /\ s.gen = IF s.text = head.text THEN 0 ELSE 1
<1>1. /\ d.intent.prop.text \in Texts /\ d.intent.op \in Ops /\ d.intent.op \in 0 .. MaxClock
      /\ d.theirs \in Bytes
  BY StoreAssumption DEF Drafts, Intents, Bytes, Ops
<1>2. 0 \in 0 .. MaxGen /\ 1 \in 0 .. MaxGen
  BY SessionAssumption
<1> DEFINE g == IF d.intent.prop.text = head.text THEN 0 ELSE 1
           c == IF d.kind = "diverged" THEN d.theirs ELSE NoConflict
<1>3. g \in 0 .. MaxGen /\ c \in Bytes \cup {NoConflict}
  BY <1>1, <1>2
<1>4. WithDraft(d) = [Fresh EXCEPT !.text = d.intent.prop.text, !.op = d.intent.op,
                                   !.gen = g, !.conflict = c]
  BY DEF WithDraft
<1> HIDE DEF c
<1> QED
  BY <1>1, <1>3, <1>4, FreshFields DEF Sessions

(* What a session starts from: the open one, or one of its own.            *)
Reopens(o) == session.open /\ o.now = session /\ o.left = found /\ o.shows = {}

Opens(o) ==
  /\ ~session.open
  /\ o.now.open /\ ~o.now.inflight /\ ShowsBase(o.now)
  /\ o.now.op # NoOp \/ o.now.base \in o.shows
  /\ o.now.op \in {d.intent.op : d \in found} \cup {NoOp}

LEMMA OpeningsAre ==
  ASSUME IInv, NEW o \in Openings
  PROVE  /\ Sound(o.now) /\ o.left \subseteq found /\ o.shows \subseteq Versions
         /\ Reopens(o) \/ Opens(o)
<1>1. head \in Versions /\ found \subseteq Drafts /\ Sound(session)
  BY DEF IInv, StoreTypeOK, OwnTypeOK
<1>2. CASE session.open
  BY <1>1, <1>2 DEF Openings, Reopens
<1>3. CASE ~session.open /\ o = [now |-> Fresh, left |-> found, shows |-> {head}]
  <2>1. Sound(Fresh) /\ ShowsBase(Fresh)
    BY <1>1, FreshFields DEF Sound, ShowsBase
  <2> QED
    BY <1>1, <1>3, <2>1, FreshFields DEF Opens
<1>4. ASSUME ~session.open, NEW d \in found,
             o = [now |-> WithDraft(d), left |-> found \ {d},
                  shows |-> {d.intent.prev, d.intent.prop}]
      PROVE  /\ Sound(o.now) /\ o.left \subseteq found /\ o.shows \subseteq Versions
             /\ Opens(o)
  <2> DEFINE s == WithDraft(d)
  <2>1. /\ s \in Sessions
        /\ s.open /\ ~s.inflight /\ s.views = 0 /\ s.saved = 0 /\ s.base = head
        /\ s.op = d.intent.op /\ s.op \in Ops
        /\ s.gen = IF s.text = head.text THEN 0 ELSE 1
    BY <1>1, DraftFields
  <2>2. d.intent.prev \in Versions /\ d.intent.prop \in Versions
    BY <1>1 DEF Drafts, Intents, Versions
  <2>3. o.now = s /\ o.left = found \ {d} /\ o.shows = {d.intent.prev, d.intent.prop}
    BY <1>4
  <2> HIDE DEF s
  <2>4. Sound(s) /\ ShowsBase(s) /\ s.op # NoOp
    BY <2>1 DEF Sound, ShowsBase, Dirty, Ops, NoOp
  <2> QED
    BY <1>4, <2>1, <2>2, <2>3, <2>4 DEF Opens
<1>5. CASE ~session.open
  <2>1. \/ o = [now |-> Fresh, left |-> found, shows |-> {head}]
        \/ \E d \in found : o = [now |-> WithDraft(d), left |-> found \ {d},
                                 shows |-> {d.intent.prev, d.intent.prop}]
    BY <1>5 DEF Openings
  <2> QED
    BY <1>3, <1>4, <1>5, <2>1
<1> QED
  BY <1>2, <1>5

(* An answer: a save leaves the saved text as the base.                    *)
LEMMA SettledFields ==
  ASSUME NEW s, Sound(s), s.open, NEW d \in Done
  PROVE  LET t == Settled(s, d)
         IN  /\ Sound(t)
             /\ t.open /\ t.text = s.text /\ t.gen = s.gen /\ ~t.inflight
             /\ d.step = "ok" => /\ t.base = d.prop /\ t.op = NoOp
                                 /\ t.saved = Higher(s.saved, d.gen)
             /\ d.step # "ok" => t.base = s.base /\ t.op = s.op /\ t.saved = s.saved
<1>1. /\ s \in Sessions
      /\ d.gen \in 0 .. MaxGen /\ d.prop \in Versions /\ Theirs(d.prev) \in Bytes
  BY TheirsType DEF Sound, Done, Versions
<1>2. Higher(s.saved, d.gen) \in 0 .. MaxGen
  BY <1>1 DEF Higher, Sessions
<1>3. NoOp \in 0 .. MaxClock
  BY StoreAssumption DEF NoOp
<1>4. CASE d.step = "ok"
  BY <1>1, <1>2, <1>3, <1>4 DEF Settled, Sound, Sessions
<1>5. CASE d.step = "conflict"
  BY <1>1, <1>5 DEF Settled, Sound, Sessions
<1>6. CASE d.step = "error"
  BY <1>1, <1>6 DEF Settled, Sound, Sessions
<1> QED
  BY <1>4, <1>5, <1>6 DEF Done, Outcomes
-----------------------------------------------------------------------------
(* The store's variables, whoever wrote the file last.                     *)

(* A commit that has begun: refused, done at once, failed, or setting out  *)
(* from the base it was given.                                             *)
Begun(w, base, text) ==
  /\ commit[w].step = "none"
  /\ commit' \in [Who -> CommitType]
  /\ \A v \in Who \ {w} : commit'[v] = commit[v]
  /\ commit'[w].step \in Outcomes \cup {"intent"}
  /\ commit'[w].step = "intent" => commit'[w].op \in Ops
  /\ Writes(commit'[w], text)
  /\ commit'[w].step \in BeforeHead => commit'[w].prev = base
  /\ UNCHANGED <<head, intents, kept, offered, edits>>
  /\ clock' \in 0 .. MaxClock /\ fails' \in 0 .. MaxFail

LEMMA BeginBegins ==
  ASSUME StoreTypeOK, NEW w \in Who, NEW base, NEW text \in Texts, Begin(w, base, text)
  PROVE  Begun(w, base, text)
<1> USE DEF Writes
<1>0. clock \in 0 .. MaxClock /\ fails \in 0 .. MaxFail /\ head \in Versions
  BY DEF StoreTypeOK
<1>1. ASSUME NEW c \in CommitType, commit' = [commit EXCEPT ![w] = c]
      PROVE  /\ commit' \in [Who -> CommitType]
             /\ commit'[w] = c
             /\ \A v \in Who \ {w} : commit'[v] = commit[v]
  BY <1>1, ResetFields
<1>2. CASE Refuse(w, base)
  <2> DEFINE c == [NoCommit EXCEPT !.step = "conflict", !.prev = head]
  <2>1. c \in CommitType /\ c.step = "conflict"
    BY <1>0, EmptiedType DEF NoCommit, CommitType, Outcomes
  <2>2. /\ commit[w].step = "none" /\ commit' = [commit EXCEPT ![w] = c]
        /\ UNCHANGED <<head, intents, kept, offered, clock, fails, edits>>
    BY <1>2 DEF Refuse
  <2> HIDE DEF c
  <2> QED
    BY <1>0, <1>1, <2>1, <2>2 DEF Begun, Outcomes, Working, BeforeHead
<1>3. CASE NothingToDo(w, base, text)
  <2> DEFINE c == [NoCommit EXCEPT !.step = "ok", !.prop = head]
  <2>1. head \in Bytes /\ head.text = text
    BY <1>0, <1>3, StampedType DEF NothingToDo, Versions, Stamped
  <2>2. c \in CommitType /\ c.step = "ok" /\ c.prop.text = text
    BY <2>1, EmptiedType DEF NoCommit, CommitType, Outcomes
  <2>3. /\ commit[w].step = "none" /\ commit' = [commit EXCEPT ![w] = c]
        /\ UNCHANGED <<head, intents, kept, offered, clock, fails, edits>>
    BY <1>3 DEF NothingToDo
  <2> HIDE DEF c
  <2> QED
    BY <1>0, <1>1, <2>2, <2>3 DEF Begun, Outcomes, BeforeHead
<1>4. CASE SetOut(w, base, text)
  <2> DEFINE c == [step |-> "intent", op |-> clock + 1, prev |-> head, prop |-> Stamped(text)]
  <2>1. /\ commit[w].step = "none" /\ commit' = [commit EXCEPT ![w] = c] /\ head = base
        /\ clock < MaxClock /\ clock' = clock + 1
        /\ UNCHANGED <<head, intents, kept, offered, fails, edits>>
    BY <1>4 DEF SetOut
  <2>2. clock' \in 0 .. MaxClock /\ clock + 1 \in Ops /\ clock + 1 \in 0 .. MaxClock
    BY <1>0, <2>1, StoreAssumption DEF Ops
  <2>3. Stamped(text) \in Bytes /\ Stamped(text).text = text
    BY <2>1, StampedType DEF Stamped
  <2>4. c \in CommitType /\ c.step = "intent" /\ c.op \in Ops /\ c.prev = base /\ c.prop.text = text
    BY <1>0, <2>1, <2>2, <2>3 DEF CommitType, Working
  <2> HIDE DEF c
  <2> QED
    BY <1>0, <1>1, <2>1, <2>2, <2>4 DEF Begun
<1>5. CASE Balk(w)
  <2> DEFINE c == [NoCommit EXCEPT !.step = "error"]
  <2>1. c \in CommitType /\ c.step = "error"
    BY EmptiedType DEF NoCommit, CommitType, Outcomes
  <2>2. /\ commit[w].step = "none" /\ commit' = [commit EXCEPT ![w] = c]
        /\ fails < MaxFail /\ fails' = fails + 1
        /\ UNCHANGED <<head, intents, kept, offered, clock, edits>>
    BY <1>5 DEF Balk
  <2>3. fails' \in 0 .. MaxFail
    BY <1>0, <2>2, StoreAssumption
  <2> HIDE DEF c
  <2> QED
    BY <1>0, <1>1, <2>1, <2>2, <2>3 DEF Begun, Outcomes, Working, BeforeHead
<1> QED
  BY <1>2, <1>3, <1>4, <1>5 DEF Begin

LEMMA BegunTypes ==
  ASSUME StoreTypeOK, WorkNamed, NEW w \in Who, NEW base, NEW text, Begun(w, base, text)
  PROVE  StoreTypeOK' /\ WorkNamed'
<1>1. StoreTypeOK'
  BY DEF Begun, StoreTypeOK, CommitType
<1>2. ASSUME NEW v \in Who, commit'[v].step \in Working
      PROVE  commit'[v].op \in Ops
  BY <1>2 DEF Begun, WorkNamed, Working, Outcomes
<1> QED
  BY <1>1, <1>2 DEF WorkNamed, Ops

(* A commit that goes on: what it writes, and from which base, stays.      *)
GoesOn(w) ==
  /\ commit[w].step \in Working
  /\ commit' \in [Who -> CommitType]
  /\ commit'[w].op = commit[w].op /\ commit'[w].prev = commit[w].prev
  /\ commit'[w].prop = commit[w].prop
  /\ commit'[w].step \in Working \cup Outcomes
  /\ commit'[w].step \in BeforeHead => commit[w].step \in BeforeHead
  /\ \A v \in Who \ {w} : commit'[v] = commit[v]

LEMMA CommitStepGoesOn ==
  ASSUME StoreTypeOK, WorkNamed, NEW w \in Who, CommitStep(w)
  PROVE  /\ GoesOn(w) /\ StoreTypeOK' /\ WorkNamed'
         /\ kept \subseteq kept' /\ UNCHANGED <<offered, edits>>
<1>1. commit[w].step \in Working
  BY DEF CommitStep, WriteIntent, Checkpoint, WriteHead, Verify, RetireOwn, StepFails, Working
<1>2. PICK s \in Working \cup Outcomes :
        commit' = At(w, s) /\ (s \in BeforeHead => commit[w].step \in BeforeHead)
  <2>1. {"checkpoint", "head", "verify", "retire", "ok", "error"} \subseteq Working \cup Outcomes
    BY DEF Working, Outcomes
  <2> QED
    BY <2>1 DEF CommitStep, WriteIntent, Checkpoint, WriteHead, Verify, RetireOwn, StepFails, BeforeHead
<1>3. GoesOn(w)
  BY <1>1, <1>2, AtFields DEF GoesOn
<1>4. commit[w].op \in Ops /\ commit[w].prev \in Versions /\ commit[w].prop \in Bytes
  BY <1>1 DEF WorkNamed, StoreTypeOK
<1>5. Intent(w) \in Intents /\ commit[w].prop \in Versions /\ commit[w].prev.text \in Texts
  BY <1>4, VersionText, BytesAreVersions DEF Intent, Intents
<1>6. /\ head' \in Versions /\ intents' \subseteq Intents /\ kept' \subseteq Texts
      /\ kept \subseteq kept' /\ UNCHANGED <<offered, clock, edits>>
  BY <1>5 DEF StoreTypeOK, CommitStep, WriteIntent, Checkpoint, WriteHead, Verify, RetireOwn, StepFails
<1>7. fails' \in 0 .. MaxFail
  BY StoreAssumption
     DEF CommitStep, WriteIntent, Checkpoint, WriteHead, Verify, RetireOwn, StepFails, StoreTypeOK
<1>8. StoreTypeOK'
  BY <1>3, <1>6, <1>7 DEF StoreTypeOK, GoesOn, CommitType
<1>9. ASSUME NEW v \in Who, commit'[v].step \in Working
      PROVE  commit'[v].op \in Ops
  BY <1>1, <1>3, <1>9 DEF GoesOn, WorkNamed
<1> QED
  BY <1>3, <1>6, <1>8, <1>9 DEF WorkNamed, Ops

LEMMA EditOutsideTypes ==
  ASSUME StoreTypeOK, EditOutside
  PROVE  StoreTypeOK' /\ UNCHANGED <<intents, kept, offered, commit>>
<1>1. head \in Versions /\ edits \in 0 .. MaxEdit
  BY DEF StoreTypeOK
<1>2. head.stamp \in 0 .. MaxClock \/ head.stamp = Absent.stamp
  BY <1>1 DEF Versions, Bytes
<1>3. head' \in Versions
  <2>1. ASSUME NEW text \in Contents, NEW stamp \in 0 .. MaxClock
        PROVE  [text |-> text, stamp |-> stamp] \in Versions
    BY BytesAreVersions DEF Versions, Bytes
  <2>2. 0 \in 0 .. MaxClock
    BY StoreAssumption
  <2>3. \A stamp \in (IF Legacy THEN {0} ELSE {head.stamp} \ {Absent.stamp}) : stamp \in 0 .. MaxClock
    BY <1>2, <2>2
  <2>4. CASE head' \in {Emptied, Absent}
    BY <2>4, EmptiedType DEF Versions
  <2>5. CASE head' \in [text : Contents, stamp : IF Legacy THEN {0} ELSE {head.stamp} \ {Absent.stamp}]
    <3>1. PICK text \in Contents,
               stamp \in (IF Legacy THEN {0} ELSE {head.stamp} \ {Absent.stamp}) :
            head' = [text |-> text, stamp |-> stamp]
      BY <2>5
    <3> QED
      BY <2>1, <2>3, <3>1
  <2> QED
    BY <2>4, <2>5 DEF EditOutside
<1>4. edits' \in 0 .. MaxEdit
  BY <1>1, StoreAssumption DEF EditOutside
<1> QED
  BY <1>3, <1>4 DEF EditOutside, StoreTypeOK
-----------------------------------------------------------------------------
(* Commits that move under a session that does not.                        *)

LEMMA SeenGrows ==
  ASSUME SeenInv, session' = session, seen \subseteq seen', kept \subseteq kept',
         offered \subseteq offered', \A d \in found' : d.intent.op \in offered'
  PROVE  SeenInv'
BY DEF SeenInv, BaseSeen, Handed, Known, Absent

(* Ours go on, or stay as they are.                                        *)
OursGoOn == \A w \in Ours : commit'[w] = commit[w] \/ GoesOn(w)

LEMMA CommitsMove ==
  ASSUME IInv, OursGoOn, WorkNamed', UNCHANGED <<session, queue, dones, crossed>>
  PROVE  WorkInv' /\ BoundInv'
<1>1. ASSUME NEW w \in Ours
      PROVE  /\ commit'[w].step # "none" => commit[w].step # "none"
             /\ \A text : commit[w].step # "none" /\ Writes(commit[w], text) => Writes(commit'[w], text)
             /\ commit'[w].step \in BeforeHead =>
                  commit[w].step \in BeforeHead /\ commit'[w].prev = commit[w].prev
  BY <1>1 DEF OursGoOn, GoesOn, Writes, Working, Outcomes
<1>2. ThreadWorks' /\ UiWorks'
  BY <1>1, OursAre DEF IInv, WorkInv, ThreadWorks, UiWorks, Dirty
<1>3. BoundInv'
  BY <1>1 DEF IInv, BoundInv, Pending, FromBase
<1> QED
  BY <1>2, <1>3 DEF WorkInv

LEMMA UnderneathInv ==
  ASSUME IInv, OursGoOn, StoreTypeOK', WorkNamed', kept \subseteq kept', UNCHANGED offered,
         UNCHANGED sessionVars, UNCHANGED historyVars
  PROVE  IInv'
<1>1. UNCHANGED <<session, queue, dones, looked, found, toast, crashes, seen, crossed>>
  BY DEF sessionVars, historyVars
<1>2. WorkInv' /\ BoundInv'
  BY <1>1, CommitsMove
<1>3. SeenInv /\ \A d \in found' : d.intent.op \in offered'
  BY <1>1 DEF IInv, SeenInv, Handed
<1>4. SeenInv'
  BY <1>1, <1>3, SeenGrows
<1>5. OwnTypeOK' /\ Sound(session') /\ (crossed' \/ ShowsBase(session'))
  BY <1>1 DEF IInv, OwnTypeOK
<1> QED
  BY <1>2, <1>4, <1>5 DEF IInv

LEMMA OurStepInv ==
  ASSUME IInv, NEW w \in Ours, OurStep(w)
  PROVE  IInv'
<1>1. w \in Who /\ StoreTypeOK /\ WorkNamed
  BY OursAre DEF IInv, WorkInv
<1>2. CommitStep(w) /\ UNCHANGED sessionVars /\ UNCHANGED historyVars
  BY DEF OurStep
<1>3. /\ GoesOn(w) /\ StoreTypeOK' /\ WorkNamed'
      /\ kept \subseteq kept' /\ UNCHANGED offered
  BY <1>1, <1>2, CommitStepGoesOn
<1>4. OursGoOn
  BY <1>3, OursAre DEF OursGoOn, GoesOn
<1> QED
  BY <1>2, <1>3, <1>4, UnderneathInv

LEMMA PeerInv ==
  ASSUME IInv, NEW w \in Peers, Peer(w)
  PROVE  IInv'
<1>1. w \in Who /\ w \notin Ours /\ StoreTypeOK /\ WorkNamed
  BY DEF IInv, WorkInv, Peers
<1>2. UNCHANGED sessionVars /\ UNCHANGED historyVars
  BY DEF Peer
<1>3. ASSUME NEW text \in Contents, SetOut(w, head, text)
      PROVE  /\ StoreTypeOK' /\ WorkNamed' /\ kept \subseteq kept' /\ UNCHANGED offered
             /\ \A v \in Who \ {w} : commit'[v] = commit[v]
  <2>1. text \in Texts /\ Begin(w, head, text)
    BY <1>3, BytesAreVersions DEF Begin
  <2>2. Begun(w, head, text)
    BY <1>1, <2>1, BeginBegins
  <2>3. StoreTypeOK' /\ WorkNamed'
    BY <1>1, <2>2, BegunTypes
  <2> QED
    BY <2>2, <2>3 DEF Begun
<1>4. ASSUME CommitStep(w)
      PROVE  /\ StoreTypeOK' /\ WorkNamed' /\ kept \subseteq kept' /\ UNCHANGED offered
             /\ \A v \in Who \ {w} : commit'[v] = commit[v]
  BY <1>1, <1>4, CommitStepGoesOn DEF GoesOn
<1>5. ASSUME Answered(w) \/ Dies(w)
      PROVE  /\ StoreTypeOK' /\ WorkNamed' /\ kept \subseteq kept' /\ UNCHANGED offered
             /\ \A v \in Who \ {w} : commit'[v] = commit[v]
  <2>1. /\ commit' = [commit EXCEPT ![w] = NoCommit]
        /\ UNCHANGED <<head, intents, kept, offered, clock, fails, edits>>
    BY <1>5 DEF Answered, Dies
  <2>2. /\ commit' \in [Who -> CommitType] /\ commit'[w] = NoCommit
        /\ \A v \in Who \ {w} : commit'[v] = commit[v]
    BY <1>1, <2>1, EmptiedType, ResetFields
  <2>3. StoreTypeOK'
    BY <1>1, <2>1, <2>2 DEF StoreTypeOK, CommitType
  <2>4. WorkNamed'
    BY <1>1, <2>2 DEF WorkNamed, NoCommit, Working, Ops
  <2> QED
    BY <2>1, <2>2, <2>3, <2>4
<1>6. /\ StoreTypeOK' /\ WorkNamed' /\ kept \subseteq kept' /\ UNCHANGED offered
      /\ \A v \in Who \ {w} : commit'[v] = commit[v]
  BY <1>3, <1>4, <1>5 DEF Peer
<1>7. OursGoOn
  BY <1>1, <1>6, OursAre DEF OursGoOn
<1> QED
  BY <1>2, <1>6, <1>7, UnderneathInv

LEMMA EditorInv ==
  ASSUME IInv, Editor
  PROVE  IInv'
<1>1. StoreTypeOK /\ WorkNamed /\ EditOutside /\ UNCHANGED sessionVars /\ UNCHANGED historyVars
  BY DEF IInv, WorkInv, Editor
<1>2. StoreTypeOK' /\ UNCHANGED <<intents, kept, offered, commit>>
  BY <1>1, EditOutsideTypes
<1>3. WorkNamed' /\ OursGoOn
  BY <1>1, <1>2 DEF WorkNamed, OursGoOn, Ops
<1> QED
  BY <1>1, <1>2, <1>3, UnderneathInv

LEMMA LookInv ==
  ASSUME IInv, Look
  PROVE  IInv'
<1>1. /\ looked' = TRUE /\ intents' \subseteq intents
      /\ offered \subseteq offered' /\ offered' \subseteq offered \cup {i.op : i \in intents'}
      /\ found' \subseteq {Recovered(i) : i \in intents'}
      /\ \A d \in found' : d.intent.op \in offered'
      /\ UNCHANGED <<head, kept, commit, clock, edits, session, queue, dones, toast>>
      /\ UNCHANGED <<crashes, seen, crossed>>
  BY DEF Look, Recover, RecoverFails, Recovered, historyVars
<1>2. fails' = fails \/ (fails < MaxFail /\ fails' = fails + 1)
  BY DEF Look, Recover, RecoverFails
<1>3. intents' \subseteq Intents /\ \A i \in intents' : i.op \in Ops
  BY <1>1 DEF IInv, StoreTypeOK, Intents
<1>4. StoreTypeOK'
  <2>1. fails' \in 0 .. MaxFail
    BY <1>2, StoreAssumption DEF IInv, StoreTypeOK
  <2> QED BY <1>1, <1>3, <2>1 DEF IInv, StoreTypeOK
<1>5. WorkNamed' /\ OursGoOn
  BY <1>1 DEF IInv, WorkInv, WorkNamed, OursGoOn, Ops
<1>6. WorkInv' /\ BoundInv'
  BY <1>1, <1>5, CommitsMove
<1>7. \A i \in intents' : Recovered(i) \in Drafts /\ Recovered(i).intent = i
  BY <1>3, TheirsType DEF Recovered, Drafts, IInv, StoreTypeOK
<1>8. found' \subseteq Drafts /\ \A d \in found' : d.intent.op \in offered'
  BY <1>1, <1>7
<1>9. SeenInv'
  BY <1>1, <1>8, SeenGrows DEF IInv
<1>10. OwnTypeOK' /\ Sound(session') /\ (crossed' \/ ShowsBase(session'))
  BY <1>1, <1>8 DEF IInv, OwnTypeOK
<1> QED
  BY <1>4, <1>6, <1>9, <1>10 DEF IInv

LEMMA StillSavingInv ==
  ASSUME IInv, StillSaving
  PROVE  IInv'
<1>1. toast' = TRUE /\ UNCHANGED <<session, queue, dones, looked, found>>
      /\ UNCHANGED <<crashes, seen, crossed>>
      /\ UNCHANGED <<head, intents, kept, offered, commit, clock, fails, edits>>
  BY DEF StillSaving, historyVars, storeVars
<1>2. StoreTypeOK' /\ WorkNamed' /\ OursGoOn
  BY <1>1 DEF IInv, StoreTypeOK, WorkInv, WorkNamed, OursGoOn, Ops
<1>3. WorkInv' /\ BoundInv'
  BY <1>1, <1>2, CommitsMove
<1>4. SeenInv /\ \A d \in found' : d.intent.op \in offered'
  BY <1>1 DEF IInv, SeenInv, Handed
<1>5. SeenInv'
  BY <1>1, <1>4, SeenGrows
<1>6. OwnTypeOK' /\ Sound(session') /\ (crossed' \/ ShowsBase(session'))
  BY <1>1 DEF IInv, OwnTypeOK
<1> QED
  BY <1>2, <1>3, <1>5, <1>6 DEF IInv
-----------------------------------------------------------------------------
(* A session that moves while the UI thread is free and nothing is sent or *)
(* answered.                                                               *)

(* It goes on with the save it has out, perhaps with another text.         *)
Continues(t) ==
  /\ t.inflight = session.inflight /\ t.base = session.base /\ t.saved = session.saved
  /\ session.gen <= t.gen
  /\ t.gen = session.gen => t.text = session.text

(* Or it is let go, opened or set to a version with no save out.           *)
StartsAnew(t) == ~session.inflight /\ ~t.inflight

Moves == UiFree /\ UNCHANGED <<commit, queue, dones>>

LEMMA NoSaveOut ==
  ASSUME IInv, ~crossed, ~session.inflight, UiFree
  PROVE  queue = <<>> /\ dones = <<>> /\ \A w \in Ours : commit[w].step = "none"
BY OursAre DEF IInv, BoundInv, Pending, WorkInv, ThreadWorks, UiFree

LEMMA MovesBound ==
  ASSUME IInv, Moves, Sound(session'), crossed' \in BOOLEAN,
         ~crossed' => ~crossed /\ (Continues(session') \/ StartsAnew(session'))
  PROVE  WorkInv' /\ BoundInv'
<1>1. WorkInv'
  BY DEF IInv, WorkInv, WorkNamed, ThreadWorks, UiWorks, Moves, UiFree, Ops
<1>2. ASSUME ~crossed', Continues(session')
      PROVE  Pending' /\ FromBase'
  <2>1. Pending /\ FromBase /\ session \in Sessions /\ session' \in Sessions
    BY <1>2 DEF IInv, BoundInv, Sound
  <2>2. session.gen \in Nat /\ session'.gen \in Nat /\ session.gen <= session'.gen
    BY <1>2, <2>1 DEF Continues, Sessions
  <2>3. ASSUME NEW j, j.gen \in Nat, JobOf(j, session)
        PROVE  JobOf(j, session')
    BY <1>2, <2>2, <2>3 DEF Continues, JobOf
  <2>4. ASSUME NEW d, d.gen \in Nat, AnswerOf(d, session)
        PROVE  AnswerOf(d, session')
    BY <1>2, <2>2, <2>4 DEF Continues, AnswerOf
  <2>5. /\ \A i \in 1 .. Len(queue) : queue[i].gen \in Nat
        /\ \A i \in 1 .. Len(dones) : dones[i].gen \in Nat
    <3>1. queue \in Seq(Jobs) /\ dones \in Seq(Done)
      BY DEF IInv, OwnTypeOK
    <3>2. /\ \A i \in 1 .. Len(queue) : queue[i] \in Jobs
          /\ \A i \in 1 .. Len(dones) : dones[i] \in Done
      BY <3>1
    <3> QED
      BY <3>2, SessionAssumption DEF Jobs, Done
  <2>6. queue' = queue /\ dones' = dones /\ commit' = commit
    BY DEF Moves
  <2>7. Pending'
    BY <1>2, <2>1, <2>3, <2>4, <2>5, <2>6 DEF Pending, Continues
  <2>8. FromBase'
    BY <1>2, <2>1, <2>6 DEF FromBase, Continues
  <2> QED
    BY <2>7, <2>8
<1>3. ASSUME ~crossed', StartsAnew(session')
      PROVE  Pending' /\ FromBase'
  <2>1. queue = <<>> /\ dones = <<>> /\ \A w \in Ours : commit[w].step = "none"
    BY <1>3, NoSaveOut DEF StartsAnew, Moves
  <2>2. queue' = <<>> /\ dones' = <<>> /\ \A w \in Ours : commit'[w].step = "none"
    BY <2>1 DEF Moves
  <2>3. Len(queue') = 0 /\ Len(dones') = 0
    BY <2>2
  <2> QED
    BY <1>3, <2>2, <2>3 DEF StartsAnew, Pending, FromBase, BeforeHead
<1> QED
  BY <1>1, <1>2, <1>3 DEF BoundInv

LEMMA MovesInv ==
  ASSUME IInv, Moves, UNCHANGED <<head, intents, offered, clock, fails, edits, looked>>,
         kept' \subseteq Texts, toast' \in BOOLEAN, crashes' \in 0 .. MaxCrash,
         found' \subseteq found, seen' \subseteq Versions, crossed' \in BOOLEAN,
         Sound(session'),
         ~crossed' => /\ ~crossed
                      /\ Continues(session') \/ StartsAnew(session')
                      /\ ShowsBase(session'),
         BaseSeen', session'.op \in offered \cup {NoOp}
  PROVE  IInv'
<1>1. WorkInv' /\ BoundInv'
  BY MovesBound
<1>2. StoreTypeOK'
  BY DEF IInv, StoreTypeOK, Moves
<1>3. OwnTypeOK'
  BY DEF IInv, OwnTypeOK, Moves
<1>4. Handed'
  BY DEF IInv, SeenInv, Handed
<1> QED
  BY <1>1, <1>2, <1>3, <1>4 DEF IInv, SeenInv

(* What a session starts from, with another text or more views on it.      *)
LEMMA OpensInto ==
  ASSUME IInv, Moves, NEW o \in Openings, Sound(session'),
         LET s == o.now IN
           /\ session'.open = s.open /\ session'.inflight = s.inflight
           /\ session'.base = s.base /\ session'.saved = s.saved /\ session'.op = s.op
           /\ \/ session'.text = s.text /\ session'.gen = s.gen
              \/ session'.gen = s.gen + 1,
         found' = o.left, seen' = seen \cup o.shows,
         UNCHANGED <<head, intents, kept, offered, clock, fails, edits, looked, toast, crashes, crossed>>
  PROVE  IInv'
<1> DEFINE s == o.now
           t == session'
<1>1. /\ Sound(s) /\ o.left \subseteq found /\ o.shows \subseteq Versions
      /\ Reopens(o) \/ Opens(o)
  BY OpeningsAre
<1>2. s \in Sessions /\ s.gen \in Nat /\ s.saved \in Nat /\ s.gen < s.gen + 1
  BY <1>1, SessionAssumption DEF Sound, Sessions
<1>3. /\ t.open = s.open /\ t.inflight = s.inflight /\ t.base = s.base
      /\ t.saved = s.saved /\ t.op = s.op
      /\ (t.text = s.text /\ t.gen = s.gen) \/ t.gen = s.gen + 1
  OBVIOUS
<1>4. ASSUME ShowsBase(s)
      PROVE  ShowsBase(t)
  <2>1. t.gen = s.gen + 1 => s.saved <= t.gen /\ t.gen > s.saved
    BY <1>2, <1>4 DEF ShowsBase
  <2> QED
    BY <1>3, <1>4, <2>1 DEF ShowsBase, Dirty
<1>5. ~crossed' => ~crossed /\ (Continues(t) \/ StartsAnew(t)) /\ ShowsBase(t)
  <2>1. CASE Reopens(o)
    <3>1. s = session /\ (~crossed => ShowsBase(s))
      BY <2>1 DEF Reopens, IInv
    <3> HIDE DEF s, t
    <3>2. s.gen <= t.gen /\ (t.gen = s.gen => t.text = s.text)
      BY <1>2, <1>3
    <3>3. Continues(t)
      BY <1>3, <3>1, <3>2 DEF Continues
    <3> QED
      BY <1>4, <3>1, <3>3
  <2>2. CASE Opens(o)
    <3>1. ~session.inflight /\ ~t.inflight /\ ShowsBase(s)
      BY <1>3, <2>2, ClosedFields DEF Opens, IInv, Sound
    <3> QED
      BY <1>4, <3>1 DEF StartsAnew
  <2> QED
    BY <1>1, <2>1, <2>2
<1>6. BaseSeen' /\ t.op \in offered \cup {NoOp}
  <2>1. CASE Reopens(o)
    <3>1. s = session /\ BaseSeen /\ Handed /\ session.open
      BY <2>1 DEF Reopens, IInv, SeenInv
    <3>2. t.base = session.base /\ t.op = session.op
      BY <1>3, <3>1
    <3> QED
      BY <3>1, <3>2 DEF BaseSeen, Known, Handed
  <2>2. CASE Opens(o)
    <3>1. Handed
      BY DEF IInv, SeenInv
    <3>2. t.op # NoOp \/ t.base \in seen'
      BY <1>3, <2>2 DEF Opens
    <3>3. t.op \in offered \cup {NoOp}
      BY <1>3, <2>2, <3>1 DEF Opens, Handed
    <3> QED
      BY <3>2, <3>3 DEF BaseSeen, Known
  <2> QED
    BY <1>1, <2>1, <2>2
<1>7. /\ kept' \subseteq Texts /\ toast' \in BOOLEAN /\ crashes' \in 0 .. MaxCrash
      /\ found' \subseteq found /\ seen' \subseteq Versions /\ crossed' \in BOOLEAN
  BY <1>1 DEF IInv, StoreTypeOK, OwnTypeOK
<1> HIDE DEF s, t
<1>8. Sound(session') /\ session'.op \in offered \cup {NoOp}
  BY <1>6 DEF t
<1>9. ~crossed' => /\ ~crossed
                   /\ Continues(session') \/ StartsAnew(session')
                   /\ ShowsBase(session')
  BY <1>5 DEF t
<1> QED
  BY <1>6, <1>7, <1>8, <1>9, MovesInv

LEMMA AttachInv ==
  ASSUME IInv, Attach
  PROVE  IInv'
<1>1. PICK o \in Openings :
        /\ o.now.views < MaxViews
        /\ session' = [o.now EXCEPT !.views = @ + 1]
        /\ found' = o.left /\ seen' = seen \cup o.shows
  BY DEF Attach
<1> DEFINE s == o.now
<1>2. Moves /\ UNCHANGED <<head, intents, kept, offered, clock, fails, edits, looked, toast, crashes, crossed>>
  BY DEF Attach, Moves, storeVars
<1>3. Sound(s) /\ s.open
  BY OpeningsAre DEF Reopens, Opens
<1>4. s.views + 1 \in 0 .. MaxViews
  BY <1>1, <1>3, SessionAssumption DEF Sound, Sessions
<1>5. session' = [s EXCEPT !.views = s.views + 1]
  BY <1>1
<1> HIDE DEF s
<1>6. /\ Sound(session')
      /\ session'.open = s.open /\ session'.inflight = s.inflight
      /\ session'.base = s.base /\ session'.saved = s.saved /\ session'.op = s.op
      /\ session'.text = s.text /\ session'.gen = s.gen
  BY <1>3, <1>4, <1>5 DEF Sound, Sessions
<1> QED
  BY <1>1, <1>2, <1>6, OpensInto DEF s

LEMMA CaptureInv ==
  ASSUME IInv, NEW text \in Contents, Capture(text)
  PROVE  IInv'
<1>1. PICK o \in Openings :
        /\ text # o.now.text /\ o.now.gen < MaxGen
        /\ session' = [Changed(o.now, text) EXCEPT !.mark = TRUE]
        /\ found' = o.left /\ seen' = seen \cup o.shows
  BY DEF Capture
<1> DEFINE s == o.now
           c == Changed(o.now, text)
<1>2. Moves /\ UNCHANGED <<head, intents, kept, offered, clock, fails, edits, looked, toast, crashes, crossed>>
  BY DEF Capture, Moves, storeVars
<1>3. Sound(s) /\ s.open /\ s \in Sessions /\ text \in Texts
  BY OpeningsAre, BytesAreVersions DEF Reopens, Opens, Sound
<1>4. /\ c \in Sessions /\ c.gen = s.gen + 1
      /\ c.open = s.open /\ c.saved = s.saved /\ c.base = s.base
      /\ c.inflight = s.inflight /\ c.conflict = s.conflict /\ c.op = s.op
  BY <1>1, <1>3, ChangedFields
<1>5. session' = [c EXCEPT !.mark = TRUE]
  BY <1>1
<1> HIDE DEF s, c
<1>6. /\ Sound(session')
      /\ session'.open = s.open /\ session'.inflight = s.inflight
      /\ session'.base = s.base /\ session'.saved = s.saved /\ session'.op = s.op
      /\ session'.gen = s.gen + 1
  BY <1>3, <1>4, <1>5 DEF Sound, Sessions
<1> QED
  BY <1>1, <1>2, <1>6, OpensInto DEF s

LEMMA EditInv ==
  ASSUME IInv, NEW text \in Contents, Edit(text)
  PROVE  IInv'
<1> DEFINE c == Changed(session, text)
<1>1. /\ session.open /\ text # session.text /\ session.gen < MaxGen
      /\ session' = c
      /\ UNCHANGED <<head, intents, kept, offered, clock, fails, edits, looked, toast, crashes, crossed>>
      /\ UNCHANGED <<found, seen>>
  BY DEF Edit, storeVars, historyVars
<1>2. Moves
  BY DEF Edit, Moves, storeVars
<1>3. Sound(session) /\ session \in Sessions /\ text \in Texts
  BY BytesAreVersions DEF IInv, Sound
<1>4. /\ c \in Sessions /\ c.gen = session.gen + 1
      /\ c.open = session.open /\ c.saved = session.saved /\ c.base = session.base
      /\ c.inflight = session.inflight /\ c.conflict = session.conflict /\ c.op = session.op
  BY <1>1, <1>3, ChangedFields
<1> HIDE DEF c
<1>5. Sound(session')
  BY <1>1, <1>3, <1>4 DEF Sound
<1> DEFINE o == [now |-> session, left |-> found, shows |-> {}]
<1>6. o \in Openings /\ o.now = session /\ found' = o.left /\ seen' = seen \cup o.shows
  BY <1>1 DEF Openings
<1> HIDE DEF o
<1> QED
  BY <1>1, <1>2, <1>4, <1>5, <1>6, OpensInto

(* A session that is let go of when it is idle: what it was stays, or it   *)
(* closes with nothing unsaved and no save out.                            *)
LEMMA LetGoInv ==
  ASSUME IInv, Moves, NEW s \in Sessions, session.open,
         s.open = session.open /\ s.inflight = session.inflight /\ s.base = session.base,
         s.saved = session.saved /\ s.op = session.op /\ s.text = session.text,
         s.gen = session.gen /\ s.conflict = session.conflict /\ s.failed = session.failed,
         session' = IF Idle(s) THEN Closed ELSE s,
         UNCHANGED <<head, intents, kept, offered, clock, fails, edits, looked, toast, crashes, crossed>>,
         UNCHANGED <<found, seen>>
  PROVE  IInv'
<1>1. Sound(session) /\ Handed /\ BaseSeen /\ (crossed \/ ShowsBase(session))
  BY DEF IInv, SeenInv
<1>2. session.gen \in Nat
  BY <1>1, SessionAssumption DEF Sound, Sessions
<1>3. /\ kept' \subseteq Texts /\ toast' \in BOOLEAN /\ crashes' \in 0 .. MaxCrash
      /\ found' \subseteq found /\ seen' \subseteq Versions /\ crossed' \in BOOLEAN
  BY DEF IInv, StoreTypeOK, OwnTypeOK
<1>4. CASE Idle(s)
  <2>1. session' = Closed /\ ~session.inflight
    BY <1>4 DEF Idle, Saved
  <2>2. Sound(session') /\ StartsAnew(session') /\ ShowsBase(session') /\ session'.op = NoOp
    BY <2>1, ClosedSound, ClosedFields DEF StartsAnew, ShowsBase
  <2>3. BaseSeen'
    BY <2>1, ClosedFields DEF BaseSeen
  <2> QED
    BY <1>3, <2>2, <2>3, MovesInv
<1>5. CASE ~Idle(s)
  <2>1. session' = s
    BY <1>5
  <2>2. Sound(session') /\ session'.op \in offered \cup {NoOp}
    BY <1>1, <2>1 DEF Sound, Handed
  <2>3. Continues(session') /\ (~crossed => ShowsBase(session'))
    BY <1>1, <1>2, <2>1 DEF Continues, ShowsBase, Dirty
  <2>4. BaseSeen'
    BY <1>1, <2>1 DEF BaseSeen, Known
  <2> QED
    BY <1>3, <2>2, <2>3, <2>4, MovesInv
<1> QED
  BY <1>4, <1>5

LEMMA OpenIfAny ==
  ASSUME IInv, session.views > 0 \/ session.mark
  PROVE  session.open
BY ClosedFields DEF IInv, Sound, Closed

LEMMA DetachInv ==
  ASSUME IInv, Detach
  PROVE  IInv'
<1> DEFINE s == [session EXCEPT !.views = @ - 1]
<1>1. /\ session.views > 0 /\ session' = IF Idle(s) THEN Closed ELSE s
      /\ UNCHANGED <<head, intents, kept, offered, clock, fails, edits, looked, toast, crashes, crossed>>
      /\ UNCHANGED <<found, seen>>
  BY DEF Detach, storeVars, historyVars
<1>2. Moves
  BY DEF Detach, Moves, storeVars
<1>3. session \in Sessions /\ session.open
  BY <1>1, OpenIfAny DEF IInv, Sound
<1>4. session.views - 1 \in 0 .. MaxViews
  BY <1>1, <1>3, SessionAssumption DEF Sessions
<1>5. /\ s \in Sessions
      /\ s.open = session.open /\ s.inflight = session.inflight /\ s.base = session.base
      /\ s.saved = session.saved /\ s.op = session.op /\ s.text = session.text
      /\ s.gen = session.gen /\ s.conflict = session.conflict /\ s.failed = session.failed
  BY <1>3, <1>4 DEF Sessions
<1> HIDE DEF s
<1> QED
  BY <1>1, <1>2, <1>3, <1>5, LetGoInv

LEMMA UndoWindowInv ==
  ASSUME IInv, UndoWindowEnds
  PROVE  IInv'
<1> DEFINE s == [session EXCEPT !.mark = FALSE]
<1>1. /\ session.mark /\ session' = IF Idle(s) THEN Closed ELSE s
      /\ UNCHANGED <<head, intents, kept, offered, clock, fails, edits, looked, toast, crashes, crossed>>
      /\ UNCHANGED <<found, seen>>
  BY DEF UndoWindowEnds, storeVars, historyVars
<1>2. Moves
  BY DEF UndoWindowEnds, Moves, storeVars
<1>3. session \in Sessions /\ session.open
  BY <1>1, OpenIfAny DEF IInv, Sound
<1>4. /\ s \in Sessions
      /\ s.open = session.open /\ s.inflight = session.inflight /\ s.base = session.base
      /\ s.saved = session.saved /\ s.op = session.op /\ s.text = session.text
      /\ s.gen = session.gen /\ s.conflict = session.conflict /\ s.failed = session.failed
  BY <1>3 DEF Sessions
<1> HIDE DEF s
<1> QED
  BY <1>1, <1>2, <1>3, <1>4, LetGoInv
-----------------------------------------------------------------------------
(* Choosing between versions.                                              *)

LEMMA KeepMineInv ==
  ASSUME IInv, KeepMine
  PROVE  IInv'
<1> DEFINE b == IF session.conflict = Emptied THEN Absent ELSE session.conflict
<1>1. /\ session.open /\ session.conflict # NoConflict /\ session.gen < MaxGen
      /\ kept' = kept \cup {session.conflict.text}
      /\ session' = [session EXCEPT !.base = b, !.conflict = NoConflict, !.gen = session.gen + 1]
      /\ UNCHANGED <<head, intents, offered, clock, fails, edits, looked, found, toast, crashes, seen, crossed>>
  BY DEF KeepMine, historyVars
<1>2. Moves
  BY DEF KeepMine, Moves
<1>3. /\ Sound(session) /\ session \in Sessions /\ ~session.inflight /\ session.conflict \in Bytes
      /\ session.conflict.text \in Texts
  BY <1>1 DEF IInv, Sound, Sessions, Bytes
<1>4. b \in Versions /\ (b = Absent \/ b = session.conflict) /\ session.gen + 1 \in 0 .. MaxGen
  BY <1>1, <1>3, SessionAssumption DEF Versions, Sessions
<1> HIDE DEF b
<1>5. /\ session' \in Sessions
      /\ session'.base = b /\ session'.conflict = NoConflict /\ session'.gen = session.gen + 1
      /\ session'.open = session.open /\ session'.inflight = session.inflight
      /\ session'.saved = session.saved /\ session'.op = session.op
  BY <1>1, <1>3, <1>4 DEF Sessions
<1>6. Sound(session') /\ StartsAnew(session')
  BY <1>1, <1>3, <1>5 DEF Sound, StartsAnew
<1>7. ~crossed => ShowsBase(session')
  <2>1. session.gen \in Nat /\ session.saved \in Nat /\ (~crossed => session.saved <= session.gen)
    BY <1>3, SessionAssumption DEF IInv, Sessions, ShowsBase
  <2> QED
    BY <1>5, <2>1 DEF ShowsBase, Dirty
<1>8. BaseSeen' /\ session'.op \in offered \cup {NoOp}
  BY <1>1, <1>4, <1>5 DEF IInv, SeenInv, Handed, BaseSeen, Known, Absent
<1>9. /\ kept' \subseteq Texts /\ toast' \in BOOLEAN /\ crashes' \in 0 .. MaxCrash
      /\ found' \subseteq found /\ seen' \subseteq Versions /\ crossed' \in BOOLEAN
  BY <1>1, <1>3 DEF IInv, StoreTypeOK, OwnTypeOK
<1> QED
  BY <1>1, <1>2, <1>6, <1>7, <1>8, <1>9, MovesInv

LEMMA TakeTheirsInv ==
  ASSUME IInv, TakeTheirs
  PROVE  IInv'
<1> DEFINE t == Took(session, session.conflict)
<1>1. /\ session.open /\ session.conflict # NoConflict /\ session.gen < MaxGen
      /\ kept' = kept \cup {session.text} /\ session' = t
      /\ seen' = seen \cup {session.conflict}
      /\ UNCHANGED <<head, intents, offered, clock, fails, edits, looked, found, toast, crashes, crossed>>
  BY DEF TakeTheirs
<1>2. Moves
  BY DEF TakeTheirs, Moves
<1>3. /\ Sound(session) /\ session \in Sessions /\ ~session.inflight /\ session.conflict \in Bytes
      /\ session.text \in Texts
  BY <1>1 DEF IInv, Sound, Sessions
<1>4. /\ t \in Sessions
      /\ t.text = session.conflict.text /\ t.base = session.conflict
      /\ t.gen \in 0 .. MaxGen /\ t.saved = t.gen
      /\ t.conflict = NoConflict
      /\ t.open = session.open /\ t.inflight = session.inflight /\ t.op = session.op
  BY <1>1, <1>3, TookFields
<1> HIDE DEF t
<1>5. Sound(session') /\ StartsAnew(session') /\ ShowsBase(session')
  BY <1>1, <1>3, <1>4, SessionAssumption DEF Sound, StartsAnew, ShowsBase
<1>6. BaseSeen' /\ session'.op \in offered \cup {NoOp}
  BY <1>1, <1>4 DEF IInv, SeenInv, Handed, BaseSeen, Known
<1>7. /\ kept' \subseteq Texts /\ toast' \in BOOLEAN /\ crashes' \in 0 .. MaxCrash
      /\ found' \subseteq found /\ seen' \subseteq Versions /\ crossed' \in BOOLEAN
  BY <1>1, <1>3 DEF IInv, StoreTypeOK, OwnTypeOK, Versions
<1> QED
  BY <1>1, <1>2, <1>5, <1>6, <1>7, MovesInv

LEMMA DiscardInv ==
  ASSUME IInv, Discard
  PROVE  IInv'
<1> DEFINE t == Took(session, head)
<1>1. /\ session.open /\ session.gen < MaxGen /\ head # Absent
      /\ toast' \in {FALSE, toast} /\ kept' \in {kept, kept \cup {session.text}}
      /\ session' = IF session.views = 0 THEN Closed ELSE [t EXCEPT !.mark = FALSE]
      /\ seen' = seen \cup {head} /\ crossed' = (crossed \/ session.inflight)
      /\ UNCHANGED <<head, intents, offered, clock, fails, edits, looked, found, crashes>>
  BY DEF Discard
<1>2. Moves
  BY DEF Discard, Moves
<1>3. session \in Sessions /\ head \in Bytes /\ session.text \in Texts
  BY <1>1 DEF IInv, Sound, Sessions, StoreTypeOK, Versions
<1>4. /\ t \in Sessions
      /\ t.text = head.text /\ t.base = head
      /\ t.gen \in 0 .. MaxGen /\ t.saved = t.gen
      /\ t.conflict = NoConflict
      /\ t.open = session.open /\ t.inflight = session.inflight /\ t.op = session.op
  BY <1>1, <1>3, TookFields
<1> HIDE DEF t
<1>5. /\ kept' \subseteq Texts /\ toast' \in BOOLEAN /\ crashes' \in 0 .. MaxCrash
      /\ found' \subseteq found /\ seen' \subseteq Versions /\ crossed' \in BOOLEAN
  BY <1>1, <1>3 DEF IInv, StoreTypeOK, OwnTypeOK, Versions, Sessions
<1>6. ~crossed' => ~crossed /\ ~session.inflight
  <2>1. crossed \in BOOLEAN /\ session.inflight \in BOOLEAN
    BY <1>3 DEF IInv, OwnTypeOK, Sessions
  <2> QED
    BY <1>1, <2>1
<1>7. CASE session.views = 0
  <2>1. session' = Closed
    BY <1>1, <1>7
  <2>2. /\ Sound(session') /\ ShowsBase(session') /\ session'.op = NoOp
        /\ ~crossed' => ~crossed /\ StartsAnew(session')
    BY <1>6, <2>1, ClosedSound, ClosedFields DEF StartsAnew, ShowsBase
  <2>3. BaseSeen'
    BY <2>1, ClosedFields DEF BaseSeen
  <2> QED
    BY <1>1, <1>2, <1>5, <2>2, <2>3, MovesInv
<1>8. CASE session.views # 0
  <2>1. session' = [t EXCEPT !.mark = FALSE]
    BY <1>1, <1>8
  <2>2. /\ session' \in Sessions
        /\ session'.text = head.text /\ session'.base = head
        /\ session'.gen \in 0 .. MaxGen /\ session'.saved = session'.gen
        /\ session'.conflict = NoConflict
        /\ session'.open = session.open /\ session'.inflight = session.inflight
        /\ session'.op = session.op
    BY <1>4, <2>1 DEF Sessions
  <2>3. ShowsBase(session')
    BY <2>2, SessionAssumption DEF ShowsBase
  <2>5. Sound(session')
    BY <1>1, <2>2 DEF Sound
  <2>6. ~crossed' => ~crossed /\ StartsAnew(session')
    BY <1>6, <2>2 DEF StartsAnew
  <2>4. BaseSeen' /\ session'.op \in offered \cup {NoOp}
    BY <1>1, <2>2 DEF IInv, SeenInv, Handed, BaseSeen, Known
  <2> QED
    BY <1>1, <1>2, <1>5, <2>3, <2>4, <2>5, <2>6, MovesInv
<1> QED
  BY <1>7, <1>8
-----------------------------------------------------------------------------
(* Saving.                                                                 *)

(* Of the one save that is out there is one record, sent or answered.      *)
LEMMA OneAlone ==
  ASSUME NEW S, NEW s \in Seq(S), Len(s) = 1
  PROVE  Tail(s) = <<>> /\ Head(s) = s[1] /\ s[1] \in S
<1>1. s # <<>> /\ Head(s) = s[1]
  BY EmptySeq
<1>2. Head(s) \in S /\ Tail(s) \in Seq(S) /\ Len(Tail(s)) = 0
  BY <1>1, HeadTailProperties
<1>3. Tail(s) = <<>>
  BY <1>2, EmptySeq
<1> QED
  BY <1>1, <1>2, <1>3

LEMMA TheJob ==
  ASSUME IInv, ~crossed, queue # <<>>
  PROVE  /\ session.open /\ session.inflight
         /\ Len(queue) = 1 /\ dones = <<>> /\ Tail(queue) = <<>>
         /\ Head(queue) \in Jobs /\ JobOf(Head(queue), session)
<1>1. /\ Pending /\ Sound(session) /\ queue \in Seq(Jobs) /\ dones \in Seq(Done)
  BY DEF IInv, BoundInv, OwnTypeOK
<1>2. session.inflight /\ session.open
  BY <1>1, ClosedFields DEF Pending, Sound
<1>3. Len(queue) + Len(dones) = 1 /\ Len(queue) \in Nat /\ Len(dones) \in Nat /\ Len(queue) # 0
  BY <1>1, <1>2, EmptySeq, LenProperties DEF Pending
<1>4. Len(queue) = 1 /\ Len(dones) = 0
  BY <1>3
<1>5. dones = <<>> /\ Tail(queue) = <<>> /\ Head(queue) = queue[1] /\ queue[1] \in Jobs
  BY <1>1, <1>4, EmptySeq, OneAlone
<1> QED
  BY <1>1, <1>2, <1>4, <1>5 DEF Pending

LEMMA TheAnswer ==
  ASSUME IInv, ~crossed, dones # <<>>
  PROVE  /\ session.open /\ session.inflight
         /\ queue = <<>> /\ Tail(dones) = <<>>
         /\ Head(dones) \in Done /\ AnswerOf(Head(dones), session)
<1>1. /\ Pending /\ Sound(session) /\ queue \in Seq(Jobs) /\ dones \in Seq(Done)
  BY DEF IInv, BoundInv, OwnTypeOK
<1>2. session.inflight /\ session.open
  BY <1>1, ClosedFields DEF Pending, Sound
<1>3. Len(queue) + Len(dones) = 1
  BY <1>1, <1>2 DEF Pending
<1>4. Len(queue) \in Nat /\ Len(dones) \in Nat \ {0}
  BY <1>1, EmptySeq, LenProperties
<1>5. Len(dones) = 1 /\ Len(queue) = 0
  <2>1. \A x \in Nat, y \in Nat \ {0} : x + y = 1 => x = 0 /\ y = 1
    OBVIOUS
  <2> QED
    BY <1>3, <1>4, <2>1
<1>6. queue = <<>> /\ Tail(dones) = <<>> /\ Head(dones) = dones[1] /\ dones[1] \in Done
  BY <1>1, <1>5, EmptySeq, OneAlone
<1> QED
  BY <1>1, <1>2, <1>5, <1>6 DEF Pending

LEMMA DispatchInv ==
  ASSUME IInv, Dispatch
  PROVE  IInv'
<1> DEFINE j == [gen |-> session.gen, text |-> session.text, base |-> session.base]
<1>1. /\ UiFree /\ session.open /\ Dirty(session) /\ ~session.inflight /\ session.conflict = NoConflict
      /\ queue' = Append(queue, j) /\ session' = [session EXCEPT !.inflight = TRUE]
      /\ UNCHANGED <<head, intents, kept, offered, commit, clock, fails, edits>>
      /\ UNCHANGED <<dones, looked, found, toast, crashes, seen, crossed>>
  BY DEF Dispatch, Due, storeVars, historyVars
<1>2. session \in Sessions /\ queue \in Seq(Jobs) /\ dones \in Seq(Done)
  BY DEF IInv, Sound, OwnTypeOK
<1>3. j \in Jobs
  BY <1>2 DEF Jobs, Sessions
<1>4. j.gen = session.gen /\ j.text = session.text /\ j.base = session.base
  OBVIOUS
<1> HIDE DEF j
<1>5. /\ session' \in Sessions /\ session'.inflight = TRUE
      /\ session'.open = session.open /\ session'.text = session.text
      /\ session'.gen = session.gen /\ session'.saved = session.saved
      /\ session'.base = session.base /\ session'.conflict = session.conflict
      /\ session'.op = session.op
  BY <1>1, <1>2 DEF Sessions
<1>6. queue' \in Seq(Jobs)
  BY <1>1, <1>2, <1>3
<1>7. StoreTypeOK' /\ OwnTypeOK'
  BY <1>1, <1>6 DEF IInv, StoreTypeOK, OwnTypeOK
<1>8. Sound(session') /\ (crossed' \/ ShowsBase(session'))
  BY <1>1, <1>5 DEF IInv, Sound, ShowsBase, Dirty
<1>9. WorkInv'
  <2>1. ThreadWorks'
    <3>1. CASE queue = <<>>
      BY <1>1, <3>1 DEF IInv, WorkInv, ThreadWorks
    <3>2. CASE queue # <<>>
      <4>1. queue' # <<>> /\ Head(queue') = Head(queue)
        BY <1>1, <1>2, <1>3, <3>2
      <4> QED
        BY <1>1, <4>1 DEF IInv, WorkInv, ThreadWorks
    <3> QED
      BY <3>1, <3>2
  <2>2. WorkNamed' /\ UiWorks'
    BY <1>1 DEF IInv, WorkInv, WorkNamed, UiWorks, UiFree, Ops
  <2> QED
    BY <2>1, <2>2 DEF WorkInv
<1>10. BoundInv'
  <2> SUFFICES ASSUME ~crossed'
               PROVE  Pending' /\ FromBase'
    BY DEF BoundInv
  <2>1. queue = <<>> /\ dones = <<>> /\ \A w \in Ours : commit[w].step = "none"
    BY <1>1, NoSaveOut
  <2>2. Len(queue') = 1 /\ queue'[1] = j /\ Len(dones') = 0
    BY <1>1, <2>1
  <2>3. session.saved < j.gen /\ j.gen <= session.gen
    BY <1>2, <1>1, <1>4, SessionAssumption DEF Dirty, Sessions
  <2>4. JobOf(j, session')
    BY <1>4, <1>5, <2>3 DEF JobOf
  <2>5. Pending'
    BY <1>5, <2>2, <2>4 DEF Pending
  <2>6. FromBase'
    BY <1>1, <2>1 DEF FromBase, BeforeHead
  <2> QED
    BY <2>5, <2>6
<1>11. SeenInv'
  BY <1>1, <1>5 DEF IInv, SeenInv, BaseSeen, Handed, Known
<1> QED
  BY <1>7, <1>8, <1>9, <1>10, <1>11 DEF IInv

LEMMA ThreadBeginsInv ==
  ASSUME IInv, ThreadBegins
  PROVE  IInv'
<1> DEFINE j == Head(queue)
           w == "thread"
<1>1. /\ queue # <<>> /\ Begin(w, j.base, j.text)
      /\ UNCHANGED <<session, queue, dones, looked, found, toast, crashes, seen, crossed>>
  BY DEF ThreadBegins, sessionVars, historyVars
<1>2. StoreTypeOK /\ WorkNamed /\ queue \in Seq(Jobs)
  BY DEF IInv, WorkInv, OwnTypeOK
<1>3. j \in Jobs
  BY <1>1, <1>2
<1>4. j.text \in Texts /\ w \in Who
  BY <1>3, OursAre DEF Jobs
<1>5. Begun(w, j.base, j.text)
  BY <1>1, <1>2, <1>4, BeginBegins
<1>6. StoreTypeOK' /\ WorkNamed'
  BY <1>2, <1>4, <1>5, BegunTypes
<1>7. OwnTypeOK' /\ Sound(session') /\ (crossed' \/ ShowsBase(session'))
  BY <1>1 DEF IInv, OwnTypeOK
<1>8. commit'["ui"] = commit["ui"]
  BY <1>5, OursAre DEF Begun
<1>9. WorkInv'
  BY <1>1, <1>5, <1>6, <1>8 DEF IInv, WorkInv, ThreadWorks, UiWorks, Begun
<1>10. BoundInv'
  <2> SUFFICES ASSUME ~crossed
               PROVE  Pending' /\ FromBase'
    BY <1>1 DEF BoundInv
  <2>1. Pending /\ FromBase /\ j.base = session.base
    BY <1>1, TheJob DEF IInv, BoundInv, JobOf
  <2>2. Pending'
    BY <1>1, <2>1 DEF Pending
  <2>3. FromBase'
    BY <1>1, <1>5, <1>8, <2>1, OursAre DEF FromBase, Begun
  <2> QED
    BY <2>2, <2>3
<1>11. SeenInv'
  BY <1>1, <1>5 DEF IInv, SeenInv, BaseSeen, Handed, Known, Begun
<1> QED
  BY <1>6, <1>7, <1>9, <1>10, <1>11 DEF IInv

LEMMA FlushInv ==
  ASSUME IInv, Flush
  PROVE  IInv'
<1> DEFINE w == "ui"
<1>1. /\ session.open /\ Dirty(session) /\ ~session.inflight /\ session.conflict = NoConflict
      /\ Begin(w, session.base, session.text)
      /\ UNCHANGED <<session, queue, dones, looked, found, toast, crashes, seen, crossed>>
  BY DEF Flush, Due, sessionVars, historyVars
<1>2. StoreTypeOK /\ WorkNamed
  BY DEF IInv, WorkInv
<1>3. session.text \in Texts /\ w \in Who
  BY OursAre DEF IInv, Sound, Sessions
<1>4. Begun(w, session.base, session.text)
  BY <1>1, <1>2, <1>3, BeginBegins
<1>5. StoreTypeOK' /\ WorkNamed'
  BY <1>2, <1>3, <1>4, BegunTypes
<1>6. OwnTypeOK' /\ Sound(session') /\ (crossed' \/ ShowsBase(session'))
  BY <1>1 DEF IInv, OwnTypeOK
<1>7. commit'["thread"] = commit["thread"]
  BY <1>4, OursAre DEF Begun
<1>8. WorkInv'
  BY <1>1, <1>4, <1>5, <1>7 DEF IInv, WorkInv, ThreadWorks, UiWorks, Begun
<1>9. BoundInv'
  BY <1>1, <1>4, <1>7, OursAre DEF IInv, BoundInv, Pending, FromBase, Begun
<1>10. SeenInv'
  BY <1>1, <1>4 DEF IInv, SeenInv, BaseSeen, Handed, Known, Begun
<1> QED
  BY <1>5, <1>6, <1>8, <1>9, <1>10 DEF IInv

LEMMA ThreadAnswersInv ==
  ASSUME IInv, ThreadAnswers
  PROVE  IInv'
<1> DEFINE j == Head(queue)
           c == commit["thread"]
           d == [gen |-> j.gen, step |-> c.step, prev |-> c.prev, prop |-> c.prop]
<1>1. /\ c.step \in Outcomes /\ commit' = [commit EXCEPT !["thread"] = NoCommit]
      /\ queue' = Tail(queue) /\ dones' = Append(dones, d)
      /\ UNCHANGED <<head, intents, kept, offered, clock, fails, edits>>
      /\ UNCHANGED <<session, looked, found, toast, crashes, seen, crossed>>
  BY DEF ThreadAnswers, Answered, historyVars
<1>2. StoreTypeOK /\ WorkInv /\ queue \in Seq(Jobs) /\ dones \in Seq(Done)
  BY DEF IInv, OwnTypeOK
<1>3. queue # <<>> /\ Writes(c, j.text) /\ c.step # "none"
  BY <1>1, <1>2 DEF WorkInv, ThreadWorks, Outcomes
<1>4. j \in Jobs /\ Tail(queue) \in Seq(Jobs)
  BY <1>2, <1>3, HeadTailProperties
<1>5. d \in Done
  BY <1>1, <1>2, <1>4, OursAre DEF Done, Jobs, StoreTypeOK, CommitType
<1>6. d.gen = j.gen /\ d.step = c.step /\ d.prop = c.prop
  OBVIOUS
<1>7. /\ commit' \in [Who -> CommitType] /\ commit'["thread"] = NoCommit
      /\ \A v \in Who \ {"thread"} : commit'[v] = commit[v]
  BY <1>1, <1>2, OursAre, EmptiedType, ResetFields
<1>8. NoCommit.step = "none"
  BY DEF NoCommit
<1> HIDE DEF j, c, d
<1>9. StoreTypeOK'
  BY <1>1, <1>2, <1>7 DEF StoreTypeOK, CommitType
<1>10. OwnTypeOK' /\ Sound(session') /\ (crossed' \/ ShowsBase(session'))
  BY <1>1, <1>2, <1>4, <1>5 DEF IInv, OwnTypeOK
<1>11. WorkInv'
  <2>1. WorkNamed'
    BY <1>2, <1>7, <1>8 DEF WorkInv, WorkNamed, Working, Ops
  <2>2. ThreadWorks' /\ UiWorks'
    BY <1>1, <1>2, <1>7, <1>8, OursAre DEF WorkInv, ThreadWorks, UiWorks
  <2> QED
    BY <2>1, <2>2 DEF WorkInv
<1>12. BoundInv'
  <2> SUFFICES ASSUME ~crossed
               PROVE  Pending' /\ FromBase'
    BY <1>1 DEF BoundInv
  <2>1. /\ session.open /\ session.inflight /\ dones = <<>> /\ Tail(queue) = <<>>
        /\ JobOf(j, session)
    BY <1>3, TheJob DEF j
  <2>2. AnswerOf(d, session)
    BY <1>3, <1>6, <2>1 DEF JobOf, AnswerOf, Writes
  <2>3. Len(queue') = 0 /\ Len(dones') = 1 /\ dones'[1] = d
    <3>1. <<>> \in Seq(Done) /\ Len(<<>>) = 0
      BY EmptySeq
    <3>2. Len(Append(<<>>, d)) = Len(<<>>) + 1 /\ Append(<<>>, d)[Len(<<>>) + 1] = d
      BY <1>5, <3>1, AppendProperties
    <3>3. queue' = <<>> /\ dones' = Append(<<>>, d)
      BY <1>1, <2>1
    <3> QED
      BY <3>1, <3>2, <3>3
  <2>4. Pending'
    BY <1>1, <2>1, <2>2, <2>3 DEF Pending
  <2>5. FromBase'
    BY <1>1, <1>7, <1>8, OursAre DEF IInv, BoundInv, FromBase, BeforeHead
  <2> QED
    BY <2>4, <2>5
<1>13. SeenInv'
  BY <1>1 DEF IInv, SeenInv, BaseSeen, Handed, Known
<1> QED
  BY <1>9, <1>10, <1>11, <1>12, <1>13 DEF IInv

(* An answer that is taken: what the session becomes, and that it is right *)
(* to show the text as saved.                                              *)
LEMMA SettleFields ==
  ASSUME IInv, NEW d \in Done, Settle(d)
  PROVE  /\ Sound(session') /\ ~session'.inflight
         /\ session'.op \in offered \cup {NoOp}
         /\ seen' \subseteq Versions /\ intents' \subseteq intents
         /\ kept' = kept => BaseSeen'
         /\ (~crossed /\ (session.open => AnswerOf(d, session)) => ShowsBase(session'))
<1> DEFINE t == Settled(session, d)
<1>1. /\ Sound(session) /\ BaseSeen /\ Handed /\ seen \subseteq Versions
      /\ crossed \/ ShowsBase(session)
  BY DEF IInv, SeenInv, OwnTypeOK
<1>2. intents' \subseteq intents
  BY DEF Settle
<1>3. CASE ~session.open
  <2>1. session = Closed /\ session' = Closed /\ seen' = seen
    BY <1>1, <1>3 DEF Sound, Settle
  <2> QED
    BY <1>1, <1>2, <1>3, <2>1, ClosedSound, ClosedFields DEF BaseSeen, ShowsBase
<1>4. CASE session.open
  <2>1. /\ Sound(t)
        /\ t.open /\ t.text = session.text /\ t.gen = session.gen /\ ~t.inflight
        /\ d.step = "ok" => /\ t.base = d.prop /\ t.op = NoOp
                            /\ t.saved = Higher(session.saved, d.gen)
        /\ d.step # "ok" => t.base = session.base /\ t.op = session.op /\ t.saved = session.saved
    BY <1>1, <1>4, SettledFields
  <2>2. /\ session' = IF d.step = "ok" /\ Idle(t) THEN Closed ELSE t
        /\ seen' = IF d.step = "ok" THEN seen \cup {d.prop} ELSE seen
    BY <1>4 DEF Settle
  <2> HIDE DEF t
  <2>3. Sound(session') /\ ~session'.inflight /\ session'.op \in offered \cup {NoOp}
    BY <1>1, <2>1, <2>2, ClosedSound, ClosedFields DEF Handed
  <2>4. seen' \subseteq Versions
    BY <1>1, <2>2 DEF Done, Versions
  <2>5. kept' = kept => BaseSeen'
    BY <1>1, <1>4, <2>1, <2>2, ClosedFields DEF BaseSeen, Known
  <2>6. ASSUME ~crossed, AnswerOf(d, session)
        PROVE  ShowsBase(session')
    <3>1. /\ session.gen \in Nat /\ session.saved \in Nat /\ d.gen \in Nat
          /\ session.saved < d.gen /\ d.gen <= session.gen
      BY <1>1, <2>6, SessionAssumption DEF Sound, Sessions, Done, AnswerOf
    <3>2. ShowsBase(t)
      <4>1. CASE d.step = "ok"
        <5>1. t.saved = d.gen
          BY <2>1, <3>1, <4>1 DEF Higher
        <5>2. t.saved <= t.gen /\ (~Dirty(t) => d.gen = session.gen)
          BY <2>1, <3>1, <5>1 DEF Dirty
        <5>3. ~Dirty(t) => t.text = t.base.text
          BY <2>1, <2>6, <4>1, <5>2 DEF AnswerOf
        <5> QED
          BY <5>2, <5>3 DEF ShowsBase
      <4>2. CASE d.step # "ok"
        <5>1. ShowsBase(session)
          BY <1>1, <2>6
        <5> QED
          BY <1>4, <2>1, <4>2, <5>1 DEF ShowsBase, Dirty
      <4> QED
        BY <4>1, <4>2
    <3>3. ShowsBase(Closed)
      BY ClosedFields DEF ShowsBase
    <3> QED
      BY <2>2, <3>2, <3>3
  <2> QED
    BY <1>1, <1>2, <1>4, <2>3, <2>4, <2>5, <2>6
<1> QED
  BY <1>3, <1>4

LEMMA SettleThreadInv ==
  ASSUME IInv, SettleThread
  PROVE  IInv'
<1> DEFINE d == Head(dones)
<1>1. /\ UiFree /\ dones # <<>> /\ Settle(d) /\ dones' = Tail(dones)
      /\ UNCHANGED <<head, kept, offered, commit, clock, fails, edits>>
      /\ UNCHANGED <<queue, looked, found, toast, crashes, crossed>>
  BY DEF SettleThread
<1>2. StoreTypeOK /\ OwnTypeOK /\ WorkInv /\ SeenInv /\ queue \in Seq(Jobs) /\ dones \in Seq(Done)
  BY DEF IInv, OwnTypeOK
<1>3. d \in Done /\ Tail(dones) \in Seq(Done)
  BY <1>1, <1>2, HeadTailProperties
<1>4. ~crossed => /\ session.open /\ queue = <<>> /\ Tail(dones) = <<>>
                  /\ AnswerOf(d, session)
  BY <1>1, TheAnswer
<1>5. /\ Sound(session') /\ ~session'.inflight
      /\ session'.op \in offered \cup {NoOp}
      /\ seen' \subseteq Versions /\ intents' \subseteq intents
      /\ kept' = kept => BaseSeen'
      /\ (~crossed /\ (session.open => AnswerOf(d, session)) => ShowsBase(session'))
  BY <1>1, <1>3, SettleFields
<1> HIDE DEF d
<1>6. StoreTypeOK'
  BY <1>1, <1>2, <1>5 DEF StoreTypeOK
<1>7. OwnTypeOK'
  BY <1>1, <1>2, <1>3, <1>5 DEF OwnTypeOK
<1>8. crossed' \/ ShowsBase(session')
  BY <1>1, <1>4, <1>5
<1>9. WorkInv'
  BY <1>1, <1>2 DEF WorkInv, WorkNamed, ThreadWorks, UiWorks, UiFree, Ops
<1>10. BoundInv'
  <2> SUFFICES ASSUME ~crossed
               PROVE  Pending' /\ FromBase'
    BY <1>1 DEF BoundInv
  <2>1. queue' = <<>> /\ dones' = <<>> /\ Len(queue') = 0 /\ Len(dones') = 0
    BY <1>1, <1>4
  <2>2. \A w \in Ours : commit'[w].step = "none"
    BY <1>1, <1>2, <1>4, OursAre DEF WorkInv, ThreadWorks, UiFree
  <2>3. Pending'
    BY <1>5, <2>1 DEF Pending
  <2> QED
    BY <2>2, <2>3 DEF FromBase, BeforeHead
<1>11. SeenInv'
  BY <1>1, <1>2, <1>5 DEF SeenInv, Handed
<1> QED
  BY <1>5, <1>6, <1>7, <1>8, <1>9, <1>10, <1>11 DEF IInv

LEMMA SettleUiInv ==
  ASSUME IInv, SettleUi
  PROVE  IInv'
<1> DEFINE c == commit["ui"]
           d == [gen |-> session.gen, step |-> c.step, prev |-> c.prev, prop |-> c.prop]
<1>1. /\ c.step \in Outcomes /\ Settle(d) /\ commit' = [commit EXCEPT !["ui"] = NoCommit]
      /\ toast' = (toast \/ c.step = "error")
      /\ UNCHANGED <<head, kept, offered, clock, fails, edits>>
      /\ UNCHANGED <<queue, dones, looked, found, crashes, crossed>>
  BY DEF SettleUi
<1>2. /\ StoreTypeOK /\ OwnTypeOK /\ WorkInv /\ SeenInv /\ Sound(session)
      /\ session \in Sessions
  BY DEF IInv, Sound
<1>3. d \in Done
  BY <1>1, <1>2, OursAre DEF Done, Sessions, StoreTypeOK, CommitType
<1>4. /\ session.open /\ Dirty(session) /\ ~session.inflight
      /\ Writes(c, session.text)
  BY <1>1, <1>2 DEF WorkInv, UiWorks, Outcomes
<1>5. d.gen = session.gen /\ d.step = c.step /\ d.prop = c.prop
  OBVIOUS
<1>6. /\ commit' \in [Who -> CommitType] /\ commit'["ui"] = NoCommit
      /\ \A v \in Who \ {"ui"} : commit'[v] = commit[v]
  BY <1>1, <1>2, OursAre, EmptiedType, ResetFields
<1>7. NoCommit.step = "none"
  BY DEF NoCommit
<1> HIDE DEF c, d
<1>8. AnswerOf(d, session)
  <2>1. session.gen \in Nat /\ session.saved \in Nat
    BY <1>2, SessionAssumption DEF Sessions
  <2>2. session.saved < d.gen /\ d.gen <= session.gen
    BY <1>4, <1>5, <2>1 DEF Dirty
  <2> QED
    BY <1>4, <1>5, <2>2 DEF AnswerOf, Writes
<1>9. /\ Sound(session') /\ ~session'.inflight
      /\ session'.op \in offered \cup {NoOp}
      /\ seen' \subseteq Versions /\ intents' \subseteq intents
      /\ kept' = kept => BaseSeen'
      /\ (~crossed /\ (session.open => AnswerOf(d, session)) => ShowsBase(session'))
  BY <1>1, <1>3, SettleFields
<1>10. StoreTypeOK'
  BY <1>1, <1>2, <1>6, <1>9 DEF StoreTypeOK, CommitType
<1>11. OwnTypeOK'
  <2>1. toast' \in BOOLEAN
    BY <1>1, <1>2 DEF OwnTypeOK
  <2> QED
    BY <1>1, <1>2, <1>9, <2>1 DEF OwnTypeOK
<1>12. crossed' \/ ShowsBase(session')
  BY <1>1, <1>8, <1>9
<1>13. WorkInv'
  <2>1. WorkNamed'
    BY <1>2, <1>6, <1>7 DEF WorkInv, WorkNamed, Working, Ops
  <2>2. ThreadWorks' /\ UiWorks'
    BY <1>1, <1>2, <1>6, <1>7, OursAre DEF WorkInv, ThreadWorks, UiWorks
  <2> QED
    BY <2>1, <2>2 DEF WorkInv
<1>14. BoundInv'
  <2> SUFFICES ASSUME ~crossed
               PROVE  Pending' /\ FromBase'
    BY <1>1 DEF BoundInv
  <2>1. queue = <<>> /\ dones = <<>>
    BY <1>4 DEF IInv, BoundInv, Pending
  <2>2. queue' = <<>> /\ dones' = <<>> /\ Len(queue') = 0 /\ Len(dones') = 0
    BY <1>1, <2>1
  <2>3. commit'["ui"].step = "none" /\ commit'["thread"].step = "none"
    BY <1>2, <1>6, <1>7, <2>1, OursAre DEF WorkInv, ThreadWorks
  <2>4. Pending'
    BY <1>9, <2>2 DEF Pending
  <2> QED
    BY <2>3, <2>4, OursAre DEF FromBase, BeforeHead
<1>15. SeenInv'
  BY <1>1, <1>2, <1>9 DEF SeenInv, Handed
<1> QED
  BY <1>9, <1>10, <1>11, <1>12, <1>13, <1>14, <1>15 DEF IInv

(* The process goes, and its commits and its session with it.              *)
LEMMA CrashInv ==
  ASSUME IInv, Crash
  PROVE  IInv'
<1>1. /\ crashes < MaxCrash /\ crashes' = crashes + 1
      /\ session' = Closed /\ queue' = <<>> /\ dones' = <<>> /\ looked' = FALSE /\ found' = {}
      /\ toast' = FALSE
      /\ commit' = [w \in Who |-> IF w \in Ours THEN NoCommit ELSE commit[w]]
      /\ UNCHANGED <<head, intents, kept, offered, clock, fails, edits, seen, crossed>>
  BY DEF Crash
<1>2. StoreTypeOK /\ OwnTypeOK /\ WorkNamed
  BY DEF IInv, WorkInv
<1>3. /\ commit' \in [Who -> CommitType]
      /\ \A w \in Ours : commit'[w] = NoCommit
      /\ \A w \in Who \ Ours : commit'[w] = commit[w]
  BY <1>1, <1>2, EmptiedType, OursAre DEF StoreTypeOK, CommitType
<1>4. NoCommit.step = "none"
  BY DEF NoCommit
<1>5. StoreTypeOK'
  BY <1>1, <1>2, <1>3 DEF StoreTypeOK, CommitType
<1>6. crashes' \in 0 .. MaxCrash
  BY <1>1, <1>2, SessionAssumption DEF OwnTypeOK
<1>7. <<>> \in Seq(Jobs) /\ <<>> \in Seq(Done)
  BY EmptySeq
<1>8. OwnTypeOK'
  BY <1>1, <1>2, <1>6, <1>7 DEF OwnTypeOK
<1>9. Sound(session') /\ ShowsBase(session')
  BY <1>1, ClosedSound, ClosedFields DEF ShowsBase
<1>10. WorkInv'
  <2>1. WorkNamed'
    BY <1>2, <1>3, <1>4 DEF WorkNamed, Working, Ops
  <2>2. commit'["thread"].step = "none" /\ commit'["ui"].step = "none"
    BY <1>3, <1>4, OursAre
  <2> QED
    BY <2>1, <2>2 DEF WorkInv, ThreadWorks, UiWorks
<1>11. BoundInv'
  <2>1. Len(queue') = 0 /\ Len(dones') = 0
    BY <1>1
  <2>2. Pending'
    BY <1>1, <2>1, ClosedFields DEF Pending
  <2>3. FromBase'
    BY <1>3, <1>4 DEF FromBase, BeforeHead
  <2> QED
    BY <2>2, <2>3 DEF BoundInv
<1>12. SeenInv'
  BY <1>1, ClosedFields DEF SeenInv, BaseSeen, Handed
<1> QED
  BY <1>5, <1>8, <1>9, <1>10, <1>11, <1>12 DEF IInv
-----------------------------------------------------------------------------
LEMMA SessionInit == Init => IInv
<1> SUFFICES ASSUME Init PROVE IInv
  OBVIOUS
<1>1. StoreInit /\ StoreTypeOK
  BY InitInv DEF Init, StoreInv
<1>2. /\ session = Closed /\ queue = <<>> /\ dones = <<>>
      /\ looked = FALSE /\ found = {} /\ toast = FALSE
      /\ crashes = 0 /\ seen = {} /\ crossed = FALSE
  BY DEF Init
<1>3. OwnTypeOK
  <2>1. <<>> \in Seq(Jobs) /\ <<>> \in Seq(Done)
    BY EmptySeq
  <2>2. 0 \in 0 .. MaxCrash
    BY SessionAssumption
  <2> QED
    BY <1>2, <2>1, <2>2 DEF OwnTypeOK
<1>4. \A w \in Who : commit[w].step = "none"
  BY <1>1 DEF StoreInit, NoCommit
<1>5. WorkInv
  BY <1>4, OursAre DEF WorkInv, WorkNamed, ThreadWorks, UiWorks, Working
<1>6. BoundInv
  <2>1. Len(queue) = 0 /\ Len(dones) = 0
    BY <1>2
  <2>2. Pending
    BY <1>2, <2>1, ClosedFields DEF Pending
  <2>3. FromBase
    BY <1>4, OursAre DEF FromBase, BeforeHead
  <2> QED
    BY <2>2, <2>3 DEF BoundInv
<1>7. Sound(session) /\ ShowsBase(session) /\ SeenInv
  BY <1>2, ClosedSound, ClosedFields DEF ShowsBase, SeenInv, BaseSeen, Handed
<1> QED
  BY <1>1, <1>3, <1>5, <1>6, <1>7 DEF IInv

LEMMA SessionNext == IInv /\ [Next]_vars => IInv'
<1> SUFFICES ASSUME IInv, [Next]_vars PROVE IInv'
  OBVIOUS
<1>1. CASE Look \/ Attach \/ Detach \/ UndoWindowEnds
  BY <1>1, LookInv, AttachInv, DetachInv, UndoWindowInv
<1>2. ASSUME NEW text \in Contents, Capture(text) \/ Edit(text)
      PROVE  IInv'
  BY <1>2, CaptureInv, EditInv
<1>3. CASE Dispatch \/ ThreadBegins \/ ThreadAnswers \/ Flush \/ StillSaving
  BY <1>3, DispatchInv, ThreadBeginsInv, ThreadAnswersInv, FlushInv, StillSavingInv
<1>4. CASE SettleThread \/ SettleUi
  BY <1>4, SettleThreadInv, SettleUiInv
<1>5. CASE KeepMine \/ TakeTheirs \/ Discard
  BY <1>5, KeepMineInv, TakeTheirsInv, DiscardInv
<1>6. ASSUME NEW w \in Ours, OurStep(w)
      PROVE  IInv'
  BY <1>6, OurStepInv
<1>7. ASSUME NEW w \in Peers, Peer(w)
      PROVE  IInv'
  BY <1>7, PeerInv
<1>8. CASE Editor \/ Crash
  BY <1>8, EditorInv, CrashInv
<1>9. CASE UNCHANGED vars
  <2>1. /\ UNCHANGED <<head, intents, kept, offered, commit, clock, fails, edits>>
        /\ UNCHANGED sessionVars /\ UNCHANGED historyVars
    BY <1>9 DEF vars, storeVars
  <2>2. StoreTypeOK' /\ WorkNamed' /\ OursGoOn
    BY <2>1 DEF IInv, StoreTypeOK, WorkInv, WorkNamed, OursGoOn, Ops
  <2> QED
    BY <2>1, <2>2, UnderneathInv
<1> QED
  BY <1>1, <1>2, <1>3, <1>4, <1>5, <1>6, <1>7, <1>8, <1>9 DEF Next

LEMMA SessionInductive == Spec => []IInv
BY SessionInit, SessionNext, PTL DEF Spec

(* What the footer calls saved is on disk, as long as nobody else has      *)
(* written the file and no text was let go while a save of it was out:     *)
(* for any other processes and with plain editors about.                   *)
THEOREM NoteInvAlways == Spec => []NoteInv
BY SessionInductive, InvNoted, PTL
-----------------------------------------------------------------------------
(* Among writers that take the lock: no plain editor.                      *)
NoEditor == MaxEdit = 0

(* Commits that end, and intents that go while the lock is free.           *)
LEMMA EndsInv ==
  ASSUME StoreInv, StoreTypeOK',
         \A w \in Who : commit'[w] = commit[w] \/ commit'[w].step \notin Working,
         intents' = intents \/ (~Locked /\ intents' \subseteq intents),
         UNCHANGED <<head, offered, clock>>
  PROVE  StoreInv'
<1> USE DEF StoreInv
<1>1. \A w \in Who : commit'[w].step \in Working =>
        commit'[w] = commit[w] /\ Intent(w)' = Intent(w) /\ intents' = intents
  BY DEF Intent, Locked
<1>2. Exclusive' /\ Recoverable'
  BY <1>1 DEF Exclusive, Recoverable, Working
<1>3. intents' \subseteq intents
  OBVIOUS
<1>4. OpsFresh'
  BY <1>1, <1>3 DEF OpsFresh
<1> QED
  BY <1>2, <1>4

LEMMA SettleIntents ==
  ASSUME NEW d, Settle(d)
  PROVE  intents' = intents
         \/ (~Locked /\ intents' = {i \in intents : i.op # session.op})
BY DEF Settle

LEMMA StoreKept ==
  ASSUME NoEditor, StoreInv, IInv, [Next]_vars
  PROVE  StoreInv'
<1>1. IInv' /\ StoreTypeOK'
  BY SessionNext DEF IInv
<1>2. ASSUME UNCHANGED <<head, intents, offered, commit, clock>>
      PROVE  StoreInv'
  BY <1>1, <1>2, EndsInv
<1>3. CASE Look
  BY <1>3, RecoverInv, RecoverFailsInv DEF Look
<1>4. CASE Attach \/ Detach \/ UndoWindowEnds \/ Dispatch \/ StillSaving \/ UNCHANGED vars
  BY <1>2, <1>4 DEF Attach, Detach, UndoWindowEnds, Dispatch, StillSaving, vars, storeVars
<1>5. ASSUME NEW text \in Contents, Capture(text) \/ Edit(text)
      PROVE  StoreInv'
  BY <1>2, <1>5 DEF Capture, Edit, storeVars
<1>6. CASE KeepMine \/ TakeTheirs \/ Discard
  BY <1>2, <1>6 DEF KeepMine, TakeTheirs, Discard
<1>7. CASE ThreadBegins
  <2>1. queue \in Seq(Jobs) /\ queue # <<>>
    BY <1>7 DEF IInv, OwnTypeOK, ThreadBegins
  <2>2. Head(queue) \in Jobs
    BY <2>1, HeadTailProperties
  <2>3. Head(queue).text \in Texts
    BY <2>2 DEF Jobs
  <2>4. Begin("thread", Head(queue).base, Head(queue).text)
    BY <1>7 DEF ThreadBegins
  <2> QED
    BY <2>3, <2>4, OursAre, BeginInv
<1>8. CASE ThreadAnswers
  BY <1>8, OursAre, GoneInv DEF ThreadAnswers
<1>9. CASE Flush
  <2>1. session.text \in Texts
    BY DEF IInv, Sound, Sessions
  <2> QED
    BY <1>9, <2>1, OursAre, BeginInv DEF Flush
<1>10. CASE SettleThread
  <2>1. Settle(Head(dones)) /\ UNCHANGED <<head, offered, commit, clock>>
    BY <1>10 DEF SettleThread
  <2>2. intents' = intents \/ (~Locked /\ intents' \subseteq intents)
    BY <2>1, SettleIntents
  <2> QED
    BY <1>1, <2>1, <2>2, EndsInv
<1>11. CASE SettleUi
  <2>1. PICK d : Settle(d)
    BY <1>11 DEF SettleUi
  <2>2. commit' = [commit EXCEPT !["ui"] = NoCommit] /\ UNCHANGED <<head, offered, clock>>
    BY <1>11 DEF SettleUi
  <2>3. \A w \in Who : commit'[w] = commit[w] \/ commit'[w].step \notin Working
    BY <2>2, OursAre, EmptiedType, ResetFields DEF StoreInv, NoCommit, Working
  <2>4. intents' = intents \/ (~Locked /\ intents' \subseteq intents)
    BY <2>1, SettleIntents
  <2> QED
    BY <1>1, <2>2, <2>3, <2>4, EndsInv
<1>12. ASSUME NEW w \in Ours, OurStep(w)
       PROVE  StoreInv'
  BY <1>12, OursAre, CommitStepInv DEF OurStep
<1>13. ASSUME NEW w \in Peers, Peer(w)
       PROVE  StoreInv'
  <2>1. w \in Who
    BY DEF Peers
  <2>2. ASSUME NEW text \in Contents, SetOut(w, head, text)
        PROVE  StoreInv'
    BY <2>1, <2>2, BytesAreVersions, SetOutInv
  <2> QED
    BY <1>13, <2>1, <2>2, CommitStepInv, GoneInv DEF Peer
<1>14. CASE Editor
  BY <1>14, StoreAssumption DEF Editor, EditOutside, NoEditor, StoreInv, StoreTypeOK
<1>15. CASE Crash
  <2>1. /\ commit' = [w \in Who |-> IF w \in Ours THEN NoCommit ELSE commit[w]]
        /\ UNCHANGED <<head, intents, offered, clock>>
    BY <1>15 DEF Crash
  <2>2. \A w \in Who : commit'[w] = commit[w] \/ commit'[w].step \notin Working
    BY <2>1 DEF NoCommit, Working
  <2> QED
    BY <1>1, <2>1, <2>2, EndsInv
<1> QED
  BY <1>3, <1>4, <1>5, <1>6, <1>7, <1>8, <1>9, <1>10, <1>11, <1>12, <1>13, <1>14, <1>15 DEF Next

(* Under everything a session does, and with crashes, one commit works at  *)
(* a time, the head or an intent holds what was to be saved, and no two    *)
(* commits share a name.                                                   *)
THEOREM StoreInvAlways == ASSUME NoEditor PROVE Spec => []StoreInv
<1>1. Init => StoreInv
  BY InitInv DEF Init
<1>2. StoreInv /\ IInv /\ [Next]_vars => StoreInv'
  BY StoreKept
<1> QED
  BY <1>1, <1>2, SessionInductive, PTL DEF Spec

(* Checkpoints stay.                                                       *)
LEMMA KeptGrows ==
  ASSUME IInv, [Next]_vars
  PROVE  kept \subseteq kept'
<1>1. ASSUME NEW w, CommitStep(w)
      PROVE  kept \subseteq kept'
  BY <1>1 DEF CommitStep, WriteIntent, Checkpoint, WriteHead, Verify, RetireOwn, StepFails
<1>2. ASSUME NEW w, NEW base, NEW text, Begin(w, base, text)
      PROVE  kept \subseteq kept'
  BY <1>2 DEF Begin, Refuse, NothingToDo, SetOut, Balk
<1>3. CASE Look \/ Attach \/ Detach \/ UndoWindowEnds \/ Dispatch \/ StillSaving \/ UNCHANGED vars
  BY <1>3 DEF Look, Recover, RecoverFails, Attach, Detach, UndoWindowEnds, Dispatch, StillSaving, vars, storeVars
<1>4. ASSUME NEW text, Capture(text) \/ Edit(text)
      PROVE  kept \subseteq kept'
  BY <1>4 DEF Capture, Edit, storeVars
<1>5. CASE KeepMine \/ TakeTheirs \/ Discard
  BY <1>5 DEF KeepMine, TakeTheirs, Discard
<1>6. CASE ThreadBegins \/ Flush
  BY <1>2, <1>6 DEF ThreadBegins, Flush
<1>7. CASE ThreadAnswers \/ SettleThread \/ SettleUi \/ Crash \/ Editor
  BY <1>7 DEF ThreadAnswers, Answered, SettleThread, SettleUi, Crash, Editor, EditOutside
<1>8. ASSUME NEW w, OurStep(w)
      PROVE  kept \subseteq kept'
  BY <1>1, <1>8 DEF OurStep
<1>9. ASSUME NEW w, Peer(w)
      PROVE  kept \subseteq kept'
  BY <1>1, <1>9 DEF Peer, SetOut, Answered, Dies
<1> QED
  BY <1>3, <1>4, <1>5, <1>6, <1>7, <1>8, <1>9 DEF Next

LEMMA OverwritesKnown ==
  ASSUME StoreInv, IInv, [Next]_vars, NEW w \in Ours, Overwrites(w)
  PROVE  Accounted \/ session.op # NoOp \/ crossed
<1> SUFFICES ASSUME session.op = NoOp, ~crossed
             PROVE  Accounted
  OBVIOUS
<1>1. commit[w].step = "head" /\ w \in Who
  BY OursAre DEF Overwrites
<1>2. head = commit[w].prev
  BY <1>1 DEF StoreInv, Exclusive
<1>3. commit[w].prev = session.base
  BY <1>1 DEF IInv, BoundInv, FromBase, BeforeHead
<1>4. session.open
  <2>1. CASE w = "ui"
    BY <1>1, <2>1 DEF IInv, WorkInv, UiWorks
  <2>2. CASE w = "thread"
    <3>1. queue # <<>>
      BY <1>1, <2>2 DEF IInv, WorkInv, ThreadWorks
    <3> QED
      BY <3>1, TheJob
  <2> QED
    BY <2>1, <2>2, OursAre
<1>5. Known(head)
  BY <1>2, <1>3, <1>4 DEF IInv, SeenInv, BaseSeen
<1>6. kept \subseteq kept'
  BY KeptGrows
<1> QED
  BY <1>5, <1>6 DEF Known, Accounted

(* What a commit of ours replaces nus has shown, saved itself or keeps,    *)
(* unless a draft was laid over it or text was let go with a save out.     *)
THEOREM SeenButByDraftsAlways == ASSUME NoEditor PROVE Spec => SeenButByDrafts
<1>1. StoreInv /\ IInv /\ [Next]_vars =>
        [\A w \in Ours : Overwrites(w) => Accounted \/ session.op # NoOp \/ crossed]_vars
  BY OverwritesKnown
<1>2. Spec => []StoreInv
  BY StoreInvAlways
<1> QED
  BY <1>1, <1>2, SessionInductive, PTL DEF Spec, SeenButByDrafts
-----------------------------------------------------------------------------
(* The promise again: of what a session does only settling an answer       *)
(* touches the intents, and lets go of the draft the session started from. *)

LEMMA SettlePromised ==
  ASSUME StoreInv, IInv, NEW d, Settle(d), UNCHANGED <<head, offered>>
  PROVE  Promise!LetGo \/ UNCHANGED promised
<1>1. CASE intents' = intents
  BY <1>1 DEF promised
<1>2. CASE intents' = {i \in intents : i.op # session.op}
  <2>1. CASE \E i \in intents : i.op = session.op
    <3>1. PICK i \in intents : i.op = session.op
      BY <2>1
    <3>2. intents' = intents \ {i}
      BY <1>2, <3>1 DEF StoreInv, OpsFresh
    <3>3. i.op \in Ops /\ i.op \in offered \cup {NoOp}
      BY <3>1 DEF IInv, SeenInv, Handed, StoreTypeOK, Intents
    <3>4. i.op \in offered
      BY <3>3 DEF Ops, NoOp
    <3> QED
      BY <3>1, <3>2, <3>4 DEF Promise!LetGo
  <2>2. CASE ~ \E i \in intents : i.op = session.op
    BY <1>2, <2>2 DEF promised
  <2> QED
    BY <2>1, <2>2
<1> QED
  BY <1>1, <1>2, SettleIntents

LEMMA CommitPromised ==
  ASSUME StoreInv, NEW w \in Who, CommitStep(w)
  PROVE  Promise!Next \/ UNCHANGED promised
<1>1. StoreNext
  BY DEF StoreNext
<1> QED
  BY <1>1, StepPromised

LEMMA SessionStepPromised ==
  ASSUME NoEditor, StoreInv, IInv, [Next]_vars
  PROVE  Promise!Next \/ UNCHANGED promised
<1>1. ASSUME NEW w, NEW base, NEW text, Begin(w, base, text)
      PROVE  UNCHANGED promised
  BY <1>1 DEF Begin, Refuse, NothingToDo, SetOut, Balk, promised
<1>2. CASE Look
  BY <1>2, RecoverPromised, RecoverFailsPromised DEF Look, Promise!Next
<1>3. CASE Attach \/ Detach \/ UndoWindowEnds \/ Dispatch \/ StillSaving \/ UNCHANGED vars
  BY <1>3 DEF Attach, Detach, UndoWindowEnds, Dispatch, StillSaving, vars, storeVars, promised
<1>4. ASSUME NEW text, Capture(text) \/ Edit(text)
      PROVE  UNCHANGED promised
  BY <1>4 DEF Capture, Edit, storeVars, promised
<1>5. CASE KeepMine \/ TakeTheirs \/ Discard \/ Crash
  BY <1>5 DEF KeepMine, TakeTheirs, Discard, Crash, promised
<1>6. CASE ThreadBegins \/ Flush
  BY <1>1, <1>6 DEF ThreadBegins, Flush
<1>7. CASE ThreadAnswers
  BY <1>7 DEF ThreadAnswers, Answered, promised
<1>8. CASE SettleThread \/ SettleUi
  <2>1. (\E d : Settle(d)) /\ UNCHANGED <<head, offered>>
    BY <1>8 DEF SettleThread, SettleUi
  <2> QED
    BY <2>1, SettlePromised DEF Promise!Next
<1>9. ASSUME NEW w \in Ours, OurStep(w)
      PROVE  Promise!Next \/ UNCHANGED promised
  BY <1>9, OursAre, CommitPromised DEF OurStep
<1>10. ASSUME NEW w \in Peers, Peer(w)
       PROVE  Promise!Next \/ UNCHANGED promised
  <2>1. CASE CommitStep(w)
    BY <2>1, CommitPromised DEF Peers
  <2>2. CASE (\E text \in Contents : SetOut(w, head, text)) \/ Answered(w) \/ Dies(w)
    BY <2>2 DEF SetOut, Answered, Dies, promised
  <2> QED
    BY <1>10, <2>1, <2>2 DEF Peer
<1>11. CASE Editor
  BY <1>11, StoreAssumption DEF Editor, EditOutside, NoEditor, StoreInv, StoreTypeOK
<1> QED
  BY <1>2, <1>3, <1>4, <1>5, <1>6, <1>7, <1>8, <1>9, <1>10, <1>11 DEF Next

(* The session and its two threads, crashes and other processes included,  *)
(* keep the promise of NoteDrafts: what was set out to be saved goes only  *)
(* by becoming the file or by being offered and let go.                    *)
THEOREM PromiseKeptAlways == ASSUME NoEditor PROVE Spec => PromiseKept
<1>1. Spec => []StoreInv
  BY StoreInvAlways
<1>2. StoreInv /\ IInv /\ [Next]_vars => [Promise!Next]_promised
  BY SessionStepPromised DEF promised
<1>3. Init => Promise!Init
  BY PromiseInit DEF Init
<1> QED
  BY <1>1, <1>2, <1>3, SessionInductive, PTL
  DEF Spec, PromiseKept, Promise!Spec, promised
=============================================================================

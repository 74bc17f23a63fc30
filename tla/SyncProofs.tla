----------------------------- MODULE SyncProofs -----------------------------
(***************************************************************************)
(* Proofs about Sync, for any devices, kinds, carriers and bounds: types,  *)
(* that nothing is lost in silence, and that a library record never goes   *)
(* back.                                                                   *)
(***************************************************************************)
EXTENDS Sync, TLAPS

(* No clock is ahead of the last second anything was dated in.             *)
Past ==
  \A d \in Device :
    /\ file[d].time <= clock /\ run[d].time <= clock /\ run[d].mine.time <= clock
    /\ remote[d].manifest.time <= clock
    /\ \A e \in Device : copy[d][e].manifest.time <= clock

(* Only a union is merged, and a library record is never dated afterwards. *)
KindOfStep ==
  \A d \in Device :
    /\ run[d].merge => kind = "union"
    /\ run[d].at = "date" => kind # "library"

(* What is about to be replaced is beside the file or in what replaces it. *)
Kept ==
  \A d \in Device :
    run[d].at = "write" /\ mishaps \cap {"unkept", "overwritten"} = {} =>
      file[d].text \ Torn
        \subseteq (UNION lost[d]) \cup (IF run[d].merge THEN run[d].text ELSE {})

(* What replaces a library record that could be read is no older than it.  *)
Ahead ==
  \A d \in Device :
    kind = "library" /\ run[d].at \in {"keep", "write"} /\ ~run[d].unread =>
      file[d].time <= run[d].time

IInv == TypeOK /\ Past /\ KindOfStep /\ Kept /\ Ahead
-----------------------------------------------------------------------------
(* Types                                                                   *)

LEMMA InitTyped == Init => TypeOK
  BY SyncAssumption DEF Init, TypeOK, Files, Texts, Times, NoFile, Idle, Runs, Steps,
     Shelf, Empty

(* What is put together from typed parts is typed.                         *)
LEMMA NoFileTyped == NoFile \in Files /\ Idle \in Runs /\ Empty \in Shelf
  BY SyncAssumption DEF NoFile, Files, Texts, Times, Idle, Runs, Steps, Empty, Shelf

LEMMA StepTyped ==
  ASSUME NEW r \in Runs, NEW s \in Steps PROVE [r EXCEPT !.at = s] \in Runs
  BY DEF Runs

LEMMA ToTyped ==
  ASSUME TypeOK, NEW d \in Device, NEW s \in Steps, To(d, s)
  PROVE  run' \in [Device -> Runs]
  <1>1. run[d] \in Runs /\ run \in [Device -> Runs]
    BY DEF TypeOK
  <1>2. [run[d] EXCEPT !.at = s] \in Runs
    BY <1>1, StepTyped
  <1> QED  BY <1>1, <1>2 DEF To

LEMMA BlobTyped ==
  ASSUME TypeOK, NEW d \in Device, NEW e \in Device, NEW t \in Texts,
         copy' = [copy EXCEPT ![d][e].blob = t]
  PROVE  copy' \in [Device -> [Device -> Shelf]]
  <1>1. copy[d][e] \in Shelf /\ copy[d] \in [Device -> Shelf]
    BY DEF TypeOK
  <1>2. [copy[d][e] EXCEPT !.blob = t] \in Shelf
    BY <1>1 DEF Shelf
  <1>3. [copy[d] EXCEPT ![e].blob = t] \in [Device -> Shelf]
    BY <1>1, <1>2
  <1> QED  BY <1>3 DEF TypeOK

LEMMA ManifestTyped ==
  ASSUME TypeOK, NEW d \in Device, NEW e \in Device, NEW f \in Files,
         copy' = [copy EXCEPT ![d][e].manifest = f]
  PROVE  copy' \in [Device -> [Device -> Shelf]]
  <1>1. copy[d][e] \in Shelf /\ copy[d] \in [Device -> Shelf]
    BY DEF TypeOK
  <1>2. [copy[d][e] EXCEPT !.manifest = f] \in Shelf
    BY <1>1 DEF Shelf
  <1>3. [copy[d] EXCEPT ![e].manifest = f] \in [Device -> Shelf]
    BY <1>1, <1>2
  <1> QED  BY <1>3 DEF TypeOK

LEMMA TextTyped ==
  ASSUME TypeOK, NEW d \in Device
  PROVE  /\ file[d] \in Files /\ file[d].text \in Texts
         /\ run[d] \in Runs /\ run[d].text \in Texts /\ run[d].mine \in Files
         /\ \A e \in Device : copy[d][e] \in Shelf /\ copy[d][e].blob \in Texts
                             /\ copy[d][e].manifest \in Files
  BY DEF TypeOK, Files, Runs, Shelf

(* A file that is cut off or not dated is a file dated now.                *)
LEMMA DatedTyped ==
  ASSUME TypeOK, NEW also \in SUBSET Mishaps, DatedNow(also)
  PROVE  clock' \in Times /\ clock <= clock' /\ mishaps \subseteq mishaps'
         /\ mishaps' \subseteq Mishaps
  <1>1. clock \in 0 .. MaxClock /\ MaxClock \in Nat /\ mishaps \subseteq Mishaps
    BY SyncAssumption DEF TypeOK, Times
  <1>2. clock' \in Times /\ clock <= clock'
    BY <1>1 DEF DatedNow, Times
  <1>3. mishaps' \in {mishaps \cup also, (mishaps \cup also) \cup {"tie"}}
    BY DEF DatedNow
  <1>4. "tie" \in Mishaps
    BY DEF Mishaps
  <1> QED  BY <1>1, <1>2, <1>3, <1>4

LEMMA CutOffTyped ==
  ASSUME TypeOK, NEW d \in Device, CutOff(d) \/ NotDated(d)
  PROVE  /\ clock' \in Times /\ clock <= clock' /\ file' \in [Device -> Files]
         /\ mishaps \subseteq mishaps' /\ mishaps' \subseteq Mishaps
         /\ file'[d].time = clock'
         /\ \A x \in Device \ {d} : file'[x] = file[x]
  <1>1. {"torn"} \subseteq Mishaps /\ {"redated"} \subseteq Mishaps
    BY DEF Mishaps
  <1>2. DatedNow({"torn"}) \/ DatedNow({"redated"})
    BY DEF CutOff, NotDated
  <1>3. clock' \in Times /\ clock <= clock' /\ mishaps \subseteq mishaps'
        /\ mishaps' \subseteq Mishaps
    BY <1>1, <1>2, DatedTyped
  <1>4. [text |-> Torn, time |-> clock'] \in Files
    BY <1>3 DEF Files, Texts, Torn
  <1>5. [file[d] EXCEPT !.time = clock'] \in Files
    BY <1>3, TextTyped DEF Files
  <1>6. CASE file' = [file EXCEPT ![d] = [text |-> Torn, time |-> clock']]
    BY <1>3, <1>4, <1>6 DEF TypeOK
  <1>7. CASE file' = [file EXCEPT ![d] = [file[d] EXCEPT !.time = clock']]
    BY <1>3, <1>5, <1>7, TextTyped DEF TypeOK, Files
  <1>8. file' = [file EXCEPT ![d] = [text |-> Torn, time |-> clock']]
        \/ file' = [file EXCEPT ![d] = [file[d] EXCEPT !.time = clock']]
    BY DEF CutOff, NotDated
  <1> QED  BY <1>6, <1>7, <1>8

LEMMA EditTyped ==
  ASSUME TypeOK, NEW d \in Device, Edit(d) PROVE TypeOK'
  <1>1. clock' \in Times
    BY SyncAssumption DEF Edit, TypeOK, DatedNow, Times
  <1>2. edits' \in 0 .. MaxEdit
    BY SyncAssumption DEF Edit, TypeOK
  <1>3. file' \in [Device -> Files]
    BY SyncAssumption DEF Edit, TypeOK, DatedNow, Files, Texts, Times, Edits
  <1>4. mishaps' \subseteq Mishaps
    BY SyncAssumption DEF Edit, TypeOK, DatedNow, Overtaking, Mishaps
  <1> QED  BY <1>1, <1>2, <1>3, <1>4 DEF Edit, TypeOK, exchanged

LEMMA PullTyped ==
  ASSUME TypeOK, NEW d \in Device, Pull(d) PROVE TypeOK'
  <1>1. run' \in [Device -> Runs]
    BY ToTyped DEF Pull, Steps
  <1>2. copy' \in [Device -> [Device -> Shelf]]
    <2>1. [e \in Device |-> IF e = d THEN copy[d][d] ELSE remote[e]] \in [Device -> Shelf]
      BY DEF TypeOK
    <2>2. CASE copy' = [copy EXCEPT ![d] =
                         [e \in Device |-> IF e = d THEN copy[d][d] ELSE remote[e]]]
      BY <2>1, <2>2 DEF TypeOK
    <2> QED  BY <2>2 DEF Pull, TypeOK
  <1>3. behind' \subseteq Device /\ dirty' \subseteq Device
    BY SyncAssumption DEF Pull, TypeOK
  <1>4. faults' \in 0 .. MaxFault
    BY SyncAssumption DEF Pull, TypeOK, Fault, Faulty, NoFault
  <1>5. mishaps' \subseteq Mishaps
    BY SyncAssumption DEF Pull, TypeOK, Fault, Faulty, NoFault
  <1> QED  BY <1>1, <1>2, <1>3, <1>4, <1>5 DEF Pull, TypeOK, exchanged

LEMMA LookTyped ==
  ASSUME TypeOK, NEW d \in Device, Look(d) PROVE TypeOK'
  <1>1. run' \in [Device -> Runs]
    <2>1. CASE To(d, "survey")
      BY <2>1, StepTyped, TextTyped DEF To, TypeOK, Steps
    <2>2. ASSUME NEW e \in Best(d), NEW u \in BOOLEAN, run' = [run EXCEPT ![d] =
                   [at |-> "keep", text |-> copy[d][e].blob,
                    time |-> copy[d][e].manifest.time, merge |-> FALSE,
                    unread |-> u, mine |-> NoFile]]
          PROVE  run' \in [Device -> Runs]
      <3>1. e \in Device
        BY DEF Best
      <3>2. copy[d][e].manifest.time \in Times
        BY <3>1, TextTyped DEF Files
      <3>3. copy[d][e].blob \in Texts
        BY <3>1, TextTyped
      <3>4. [at |-> "keep", text |-> copy[d][e].blob, time |-> copy[d][e].manifest.time,
             merge |-> FALSE, unread |-> u, mine |-> NoFile] \in Runs
        BY <3>2, <3>3, NoFileTyped DEF Runs, Steps
      <3> QED  BY <2>2, <3>4 DEF TypeOK
    <2>3. ASSUME NEW e \in Best(d), NEW m \in Reads(d), run' = [run EXCEPT ![d] =
                   [at |-> "keep", text |-> copy[d][e].blob,
                    time |-> copy[d][e].manifest.time, merge |-> FALSE,
                    unread |-> (m # file[d]), mine |-> NoFile]]
          PROVE  run' \in [Device -> Runs]
      <3>1. (m # file[d]) \in BOOLEAN
        OBVIOUS
      <3> QED  BY <2>2, <2>3, <3>1
    <2> QED  BY <2>1, <2>3 DEF Look
  <1>2. faults' \in 0 .. MaxFault
    BY SyncAssumption DEF Look, TypeOK, Reads
  <1>3. mishaps' \subseteq Mishaps
    BY SyncAssumption DEF Look, TypeOK, Mishaps
  <1> QED  BY <1>1, <1>2, <1>3 DEF Look, TypeOK, exchanged

LEMMA KeepTyped ==
  ASSUME TypeOK, NEW d \in Device, Keep(d) PROVE TypeOK'
  <1>1. file' \in [Device -> Files]
    BY NoFileTyped DEF Keep, TypeOK
  <1>2. lost' \in [Device -> SUBSET Texts]
    BY SyncAssumption DEF Keep, TypeOK, KeptBeside, Files
  <1>3. run' \in [Device -> Runs]
    <2>1. CASE To(d, "write")
      BY <2>1, StepTyped, TextTyped DEF To, TypeOK, Steps
    <2>3. CASE To(d, "survey")
      BY <2>3, StepTyped, TextTyped DEF To, TypeOK, Steps
    <2>2. CASE Joined(d)
      <3>1. run[d].text \cup file[d].text \in Texts
        BY TextTyped DEF Texts
      <3>2. [run[d] EXCEPT !.at = "write", !.merge = TRUE,
                           !.text = run[d].text \cup file[d].text] \in Runs
        BY <3>1, TextTyped DEF Runs, Steps
      <3> QED  BY <2>2, <3>2 DEF Joined, TypeOK
    <2> QED  BY <2>1, <2>2, <2>3 DEF Keep
  <1>4. faults' \in 0 .. MaxFault
    BY SyncAssumption DEF Keep, TypeOK, Fault, Faulty, NoFault
  <1>5. mishaps' \subseteq Mishaps
    BY SyncAssumption DEF Keep, TypeOK, Fault, Faulty, NoFault, Mishaps
  <1> QED  BY <1>1, <1>2, <1>3, <1>4, <1>5 DEF Keep, TypeOK, exchanged

LEMMA WriteTyped ==
  ASSUME TypeOK, NEW d \in Device, Write(d) PROVE TypeOK'
  <1>1. clock' \in Times
    BY SyncAssumption DEF Write, TypeOK, DatedNow, Times
  <1>2. file' \in [Device -> Files]
    BY SyncAssumption DEF Write, TypeOK, DatedNow, Runs, Files, Times
  <1>3. run' \in [Device -> Runs]
    BY TextTyped, StepTyped DEF Write, TypeOK, To, Steps
  <1>4. mishaps' \subseteq Mishaps
    BY SyncAssumption DEF Write, TypeOK, DatedNow, Mishaps
  <1> QED  BY <1>1, <1>2, <1>3, <1>4 DEF Write, TypeOK, exchanged

LEMMA WriteFailsTyped ==
  ASSUME TypeOK, NEW d \in Device, WriteFails(d) PROVE TypeOK'
  <1>1. run' \in [Device -> Runs]
    BY ToTyped DEF WriteFails, Steps
  <1>2. faults' \in 0 .. MaxFault
    BY SyncAssumption DEF WriteFails, TypeOK, Faulty
  <1>3. clock' \in Times /\ file' \in [Device -> Files] /\ mishaps' \subseteq Mishaps
    BY CutOffTyped DEF WriteFails, TypeOK
  <1> QED  BY <1>1, <1>2, <1>3 DEF WriteFails, TypeOK

LEMMA SetModifiedTyped ==
  ASSUME TypeOK, NEW d \in Device, SetModified(d) PROVE TypeOK'
  <1>1. clock' \in Times /\ file' \in [Device -> Files] /\ mishaps' \subseteq Mishaps
    <2>1. [file[d] EXCEPT !.time = run[d].time] \in Files
      BY TextTyped DEF Files, Runs
    <2>2. CASE file' = [file EXCEPT ![d].time = WritersClock(d)] /\ NoFault /\ UNCHANGED clock
      BY <2>1, <2>2 DEF WritersClock, TypeOK, NoFault
    <2>3. CASE NotDated(d)
      BY <2>3, CutOffTyped
    <2> QED  BY <2>2, <2>3 DEF SetModified
  <1>2. run' \in [Device -> Runs]
    BY ToTyped DEF SetModified, Steps
  <1>3. faults' \in 0 .. MaxFault
    BY SyncAssumption DEF SetModified, TypeOK, NoFault, Faulty
  <1> QED  BY <1>1, <1>2, <1>3 DEF SetModified, TypeOK

LEMMA ResurveyTyped ==
  ASSUME TypeOK, NEW d \in Device, Resurvey(d) PROVE TypeOK'
  <1>1. run' \in [Device -> Runs]
    <2> PICK mine \in Reads(d) :
           run' = [run EXCEPT ![d] = [Idle EXCEPT !.at = "blob", !.mine = mine]]
      BY DEF Resurvey
    <2>1. mine \in Files
      <3>1. [file[d] EXCEPT !.time = 0] \in Files
        BY SyncAssumption, TextTyped DEF Files, Times
      <3> QED  BY <3>1, TextTyped, NoFileTyped DEF Reads
    <2>2. [Idle EXCEPT !.at = "blob", !.mine = mine] \in Runs
      BY <2>1, NoFileTyped DEF Runs, Steps
    <2> QED  BY <2>2 DEF TypeOK
  <1>2. faults' \in 0 .. MaxFault
    BY SyncAssumption DEF Resurvey, TypeOK, Reads
  <1> QED  BY <1>1, <1>2 DEF Resurvey, TypeOK, exchanged

LEMMA PushBlobTyped ==
  ASSUME TypeOK, NEW d \in Device, PushBlob(d) PROVE TypeOK'
  <1>1. run' \in [Device -> Runs]
    BY ToTyped DEF PushBlob, Steps
  <1>2. copy' \in [Device -> [Device -> Shelf]]
    <2>1. CASE copy' = [copy EXCEPT ![d][d].blob = file[d].text]
      BY <2>1, BlobTyped, TextTyped
    <2>2. CASE copy' = copy
      BY <2>2 DEF TypeOK
    <2> QED  BY <2>1, <2>2 DEF PushBlob
  <1>3. faults' \in 0 .. MaxFault
    BY SyncAssumption DEF PushBlob, TypeOK, Fault, Faulty, NoFault
  <1>4. mishaps' \subseteq Mishaps
    BY SyncAssumption DEF PushBlob, TypeOK, Fault, Faulty, NoFault, Mishaps
  <1> QED  BY <1>1, <1>2, <1>3, <1>4 DEF PushBlob, TypeOK, exchanged

LEMMA PushManifestTyped ==
  ASSUME TypeOK, NEW d \in Device, PushManifest(d) PROVE TypeOK'
  <1>1. run' \in [Device -> Runs]
    BY NoFileTyped, StepTyped DEF PushManifest, TypeOK, Idle, Runs, Steps
  <1>2. copy' \in [Device -> [Device -> Shelf]]
    <2>1. CASE copy' = [copy EXCEPT ![d][d].manifest = run[d].mine]
      BY <2>1, ManifestTyped, TextTyped
    <2>2. CASE copy' = copy
      BY <2>2 DEF TypeOK
    <2> QED  BY <2>1, <2>2 DEF PushManifest
  <1>3. faults' \in 0 .. MaxFault
    BY SyncAssumption DEF PushManifest, TypeOK, Fault, Faulty, NoFault
  <1>4. mishaps' \subseteq Mishaps
    BY SyncAssumption DEF PushManifest, TypeOK, Fault, Faulty, NoFault
  <1> QED  BY <1>1, <1>2, <1>3, <1>4 DEF PushManifest, TypeOK, exchanged

LEMMA AfterTyped ==
  ASSUME TypeOK, NEW d \in Device, After(d) PROVE TypeOK'
  <1>1. run' \in [Device -> Runs]
    BY NoFileTyped DEF After, TypeOK
  <1>2. remote' \in [Device -> Shelf]
    BY SyncAssumption DEF After, TypeOK
  <1>3. behind' \subseteq Device /\ dirty' \subseteq Device
    BY SyncAssumption DEF After, TypeOK, Uncommitted
  <1>4. faults' \in 0 .. MaxFault
    BY SyncAssumption DEF After, TypeOK, Fault, Faulty, NoFault
  <1>5. mishaps' \subseteq Mishaps
    BY SyncAssumption DEF After, TypeOK, Fault, Faulty, NoFault
  <1> QED  BY <1>1, <1>2, <1>3, <1>4, <1>5 DEF After, TypeOK, exchanged

LEMMA CrashTyped ==
  ASSUME TypeOK, NEW d \in Device, Crash(d) PROVE TypeOK'
  <1>1. clock' \in Times /\ file' \in [Device -> Files] /\ mishaps' \subseteq Mishaps
    BY CutOffTyped DEF Crash, TypeOK
  <1>2. run' \in [Device -> Runs]
    BY NoFileTyped DEF Crash, TypeOK
  <1>3. behind' \subseteq Device /\ dirty' \subseteq Device
    BY SyncAssumption DEF Crash, TypeOK, Uncommitted
  <1>4. faults' \in 0 .. MaxFault
    BY SyncAssumption DEF Crash, TypeOK, Faulty
  <1> QED  BY <1>1, <1>2, <1>3, <1>4 DEF Crash, TypeOK

LEMMA ReplicateTyped ==
  ASSUME TypeOK, NEW d \in Device, NEW e \in Device, Replicate(d, e) PROVE TypeOK'
  <1>1. copy' \in [Device -> [Device -> Shelf]]
    <2>1. CASE copy' = [copy EXCEPT ![d][e].blob = copy[e][e].blob]
      BY <2>1, BlobTyped, TextTyped
    <2>2. CASE copy' = [copy EXCEPT ![d][e].manifest = copy[e][e].manifest]
      BY <2>2, ManifestTyped, TextTyped
    <2> QED  BY <2>1, <2>2 DEF Replicate
  <1>2. faults' \in 0 .. MaxFault
    BY SyncAssumption DEF Replicate, TypeOK, NoFault
  <1>3. mishaps' \subseteq Mishaps
    BY SyncAssumption DEF Replicate, TypeOK, NoFault
  <1> QED  BY <1>1, <1>2, <1>3 DEF Replicate, TypeOK, exchanged

LEMMA TypedStep == TypeOK /\ [Next]_vars => TypeOK'
  <1> SUFFICES ASSUME TypeOK, [Next]_vars PROVE TypeOK'
    OBVIOUS
  <1>1. CASE UNCHANGED vars
    BY <1>1 DEF vars, exchanged, TypeOK
  <1>2. ASSUME NEW d \in Device, Edit(d) \/ Crash(d) \/ Exchange(d) PROVE TypeOK'
    BY <1>2, EditTyped, CrashTyped, PullTyped, LookTyped, KeepTyped, WriteTyped,
       WriteFailsTyped, SetModifiedTyped, ResurveyTyped, PushBlobTyped,
       PushManifestTyped, AfterTyped DEF Exchange
  <1>3. ASSUME NEW d \in Device, NEW e \in Device, Replicate(d, e) PROVE TypeOK'
    BY <1>3, ReplicateTyped
  <1> QED  BY <1>1, <1>2, <1>3 DEF Next

(* Every variable has its type.                                            *)
THEOREM TypeCorrect == Spec => []TypeOK
  BY InitTyped, TypedStep, PTL DEF Spec

-----------------------------------------------------------------------------
(* The invariant                                                           *)

LEMMA Clocks ==
  ASSUME TypeOK, NEW d \in Device
  PROVE  /\ clock \in Nat /\ file[d].time \in Int /\ run[d].time \in Int
         /\ run[d].mine.time \in Int /\ remote[d].manifest.time \in Int
         /\ \A e \in Device : copy[d][e].manifest.time \in Int
  BY SyncAssumption DEF TypeOK, Files, Runs, Shelf, Times

LEMMA Moved ==
  ASSUME TypeOK, NEW d \in Device, NEW s, To(d, s)
  PROVE  /\ run'[d].at = s
         /\ \A x \in Device : /\ x # d => run'[x] = run[x]
                              /\ run'[x].text = run[x].text /\ run'[x].time = run[x].time
                              /\ run'[x].merge = run[x].merge
                              /\ run'[x].unread = run[x].unread
                              /\ run'[x].mine = run[x].mine
  BY DEF To, TypeOK, Runs

LEMMA IInit == Init => IInv
  <1> SUFFICES ASSUME Init PROVE IInv
    OBVIOUS
  <1>1. TypeOK
    BY InitTyped
  <1>2. Past /\ KindOfStep /\ Kept /\ Ahead
    BY DEF Init, Past, KindOfStep, Kept, Ahead, NoFile, Idle, Empty
  <1> QED  BY <1>1, <1>2 DEF IInv

LEMMA Steady ==
  ASSUME TypeOK, [Next]_vars
  PROVE  kind' = kind /\ mishaps \subseteq mishaps' /\ clock \in Int /\ clock' \in Int
         /\ clock <= clock'
  <1>1. CASE UNCHANGED vars
    BY <1>1 DEF vars, exchanged, TypeOK, Times
  <1>2. ASSUME NEW d \in Device, Edit(d) PROVE kind' = kind /\ mishaps \subseteq mishaps' /\ clock' \in Int /\ clock <= clock'
    BY <1>2, SyncAssumption DEF Edit, exchanged, Fault, Faulty, NoFault, TypeOK, Times, DatedNow
  <1>3. ASSUME NEW d \in Device, Pull(d) PROVE kind' = kind /\ mishaps \subseteq mishaps' /\ clock' \in Int /\ clock <= clock'
    BY <1>3, SyncAssumption DEF Pull, exchanged, Fault, Faulty, NoFault, TypeOK, Times
  <1>4. ASSUME NEW d \in Device, Look(d) PROVE kind' = kind /\ mishaps \subseteq mishaps' /\ clock' \in Int /\ clock <= clock'
    BY <1>4, SyncAssumption DEF Look, exchanged, Fault, Faulty, NoFault, TypeOK, Times
  <1>5. ASSUME NEW d \in Device, Keep(d) PROVE kind' = kind /\ mishaps \subseteq mishaps' /\ clock' \in Int /\ clock <= clock'
    BY <1>5, SyncAssumption DEF Keep, exchanged, Fault, Faulty, NoFault, TypeOK, Times
  <1>6. ASSUME NEW d \in Device, Write(d) PROVE kind' = kind /\ mishaps \subseteq mishaps' /\ clock' \in Int /\ clock <= clock'
    BY <1>6, SyncAssumption DEF Write, exchanged, Fault, Faulty, NoFault, TypeOK, Times, DatedNow
  <1>7. ASSUME NEW d \in Device, WriteFails(d) PROVE kind' = kind /\ mishaps \subseteq mishaps' /\ clock' \in Int /\ clock <= clock'
    BY <1>7, CutOffTyped, SyncAssumption DEF WriteFails, exchanged, Fault, Faulty, NoFault, TypeOK, Times
  <1>8. ASSUME NEW d \in Device, SetModified(d) PROVE kind' = kind /\ mishaps \subseteq mishaps' /\ clock' \in Int /\ clock <= clock'
    BY <1>8, CutOffTyped, SyncAssumption DEF SetModified, exchanged, Fault, Faulty, NoFault, TypeOK, Times
  <1>9. ASSUME NEW d \in Device, Resurvey(d) PROVE kind' = kind /\ mishaps \subseteq mishaps' /\ clock' \in Int /\ clock <= clock'
    BY <1>9, SyncAssumption DEF Resurvey, exchanged, Fault, Faulty, NoFault, TypeOK, Times
  <1>10. ASSUME NEW d \in Device, PushBlob(d) PROVE kind' = kind /\ mishaps \subseteq mishaps' /\ clock' \in Int /\ clock <= clock'
    BY <1>10, SyncAssumption DEF PushBlob, exchanged, Fault, Faulty, NoFault, TypeOK, Times
  <1>11. ASSUME NEW d \in Device, PushManifest(d) PROVE kind' = kind /\ mishaps \subseteq mishaps' /\ clock' \in Int /\ clock <= clock'
    BY <1>11, SyncAssumption DEF PushManifest, exchanged, Fault, Faulty, NoFault, TypeOK, Times
  <1>12. ASSUME NEW d \in Device, After(d) PROVE kind' = kind /\ mishaps \subseteq mishaps' /\ clock' \in Int /\ clock <= clock'
    BY <1>12, SyncAssumption DEF After, exchanged, Fault, Faulty, NoFault, TypeOK, Times
  <1>13. ASSUME NEW d \in Device, Crash(d) PROVE kind' = kind /\ mishaps \subseteq mishaps' /\ clock' \in Int /\ clock <= clock'
    BY <1>13, CutOffTyped, SyncAssumption DEF Crash, exchanged, Fault, Faulty, NoFault, TypeOK, Times
  <1>14. ASSUME NEW d \in Device, NEW e \in Device, Replicate(d, e)
       PROVE  kind' = kind /\ mishaps \subseteq mishaps' /\ clock' = clock
    BY <1>14 DEF Replicate, exchanged, NoFault
  <1> QED  BY <1>1, <1>2, <1>3, <1>4, <1>5, <1>6, <1>7, <1>8, <1>9, <1>10, <1>11, <1>12, <1>13, <1>14 DEF Next, Exchange, TypeOK, Times

(* What a device does leaves every other device as it was.                 *)
LEMMA Others ==
  ASSUME TypeOK, NEW d \in Device, NEW x \in Device \ {d}, Edit(d) \/ Crash(d) \/ Exchange(d)
  PROVE  file'[x] = file[x] /\ run'[x] = run[x] /\ lost'[x] = lost[x]
         /\ remote'[x] = remote[x] /\ copy'[x] = copy[x]
  <1>1. CASE Edit(d)
    BY <1>1 DEF Edit, exchanged, TypeOK
  <1>2. CASE Pull(d)
    BY <1>2, Moved DEF Pull, exchanged, TypeOK
  <1>3. CASE Look(d)
    BY <1>3, Moved DEF Look, exchanged, TypeOK
  <1>4. CASE Keep(d)
    BY <1>4, Moved DEF Keep, exchanged, TypeOK, Joined
  <1>5. CASE Write(d)
    BY <1>5, Moved DEF Write, exchanged, TypeOK
  <1>6. CASE WriteFails(d)
    BY <1>6, Moved, CutOffTyped DEF WriteFails, exchanged, TypeOK
  <1>7. CASE SetModified(d)
    BY <1>7, Moved, CutOffTyped DEF SetModified, exchanged, TypeOK
  <1>8. CASE Resurvey(d)
    BY <1>8 DEF Resurvey, exchanged, TypeOK
  <1>9. CASE PushBlob(d)
    BY <1>9, Moved DEF PushBlob, exchanged, TypeOK
  <1>10. CASE PushManifest(d)
    BY <1>10 DEF PushManifest, exchanged, TypeOK
  <1>11. CASE After(d)
    BY <1>11 DEF After, exchanged, TypeOK
  <1>12. CASE Crash(d)
    BY <1>12, Moved, CutOffTyped DEF Crash, exchanged, TypeOK
  <1> QED  BY <1>1, <1>2, <1>3, <1>4, <1>5, <1>6, <1>7, <1>8, <1>9, <1>10, <1>11, <1>12 DEF Exchange

(* What a step does to the device that takes it.                           *)

LEMMA KindOfStepOwn ==
  ASSUME IInv, [Next]_vars, NEW d \in Device, Edit(d) \/ Crash(d) \/ Exchange(d)
  PROVE  /\ run'[d].merge => kind' = "union"
         /\ run'[d].at = "date" => kind' # "library"
  <1> USE DEF IInv
  <1>1. CASE Edit(d)
    BY <1>1, Steady DEF Edit, KindOfStep, exchanged, TypeOK
  <1>2. CASE Pull(d)
    BY <1>2, Steady, Moved DEF Pull, KindOfStep, exchanged, TypeOK
  <1>3. CASE Look(d)
    BY <1>3, Steady, Moved DEF Look, KindOfStep, exchanged, TypeOK, Runs
  <1>4. CASE Keep(d)
    BY <1>4, Steady, Moved DEF Keep, KindOfStep, exchanged, TypeOK, Joined, Merges, Runs
  <1>5. CASE Write(d)
    BY <1>5, Steady, Moved DEF Write, KindOfStep, exchanged, TypeOK, Dated
  <1>6. CASE WriteFails(d)
    BY <1>6, Steady, Moved DEF WriteFails, KindOfStep, exchanged, TypeOK
  <1>7. CASE SetModified(d)
    BY <1>7, Steady, Moved DEF SetModified, KindOfStep, exchanged, TypeOK
  <1>8. CASE Resurvey(d)
    BY <1>8, Steady DEF Resurvey, KindOfStep, exchanged, TypeOK, Idle, Runs
  <1>9. CASE PushBlob(d)
    BY <1>9, Steady, Moved DEF PushBlob, KindOfStep, exchanged, TypeOK
  <1>10. CASE PushManifest(d)
    BY <1>10, Steady DEF PushManifest, KindOfStep, exchanged, TypeOK, Idle
  <1>11. CASE After(d)
    BY <1>11, Steady DEF After, KindOfStep, exchanged, TypeOK, Idle
  <1>12. CASE Crash(d)
    BY <1>12, Steady DEF Crash, KindOfStep, exchanged, TypeOK, Idle
  <1> QED  BY <1>1, <1>2, <1>3, <1>4, <1>5, <1>6, <1>7, <1>8, <1>9, <1>10, <1>11, <1>12 DEF Exchange

LEMMA KindOfStepStep == IInv /\ [Next]_vars => KindOfStep'
  <1> SUFFICES ASSUME IInv, [Next]_vars PROVE KindOfStep'
    OBVIOUS
  <1>0. TypeOK /\ KindOfStep
    BY DEF IInv
  <1>1. CASE UNCHANGED vars
    BY <1>0, <1>1 DEF vars, exchanged, KindOfStep
  <1>2. ASSUME NEW d \in Device, Edit(d) \/ Crash(d) \/ Exchange(d) PROVE KindOfStep'
    <2>1. ASSUME NEW x \in Device \ {d}
          PROVE  file'[x] = file[x] /\ run'[x] = run[x] /\ lost'[x] = lost[x]
      BY <1>0, <1>2, <2>1, Others
    <2> QED  BY <1>0, <1>2, <2>1, KindOfStepOwn, Steady DEF KindOfStep
  <1>3. ASSUME NEW d \in Device, NEW e \in Device, Replicate(d, e) PROVE KindOfStep'
    BY <1>0, <1>3 DEF Replicate, exchanged, NoFault, KindOfStep
  <1> QED  BY <1>1, <1>2, <1>3 DEF Next

LEMMA AheadOwn ==
  ASSUME IInv, [Next]_vars, NEW d \in Device, Edit(d) \/ Crash(d) \/ Exchange(d)
  PROVE  kind' = "library" /\ run'[d].at \in {"keep", "write"} /\ ~run'[d].unread =>
           file'[d].time <= run'[d].time
  <1> USE DEF IInv
  <1>1. CASE Edit(d)
    BY <1>1, Steady, Clocks DEF Edit, Ahead, exchanged, TypeOK
  <1>2. CASE Pull(d)
    BY <1>2, Steady, Moved, Clocks DEF Pull, Ahead, exchanged, TypeOK
  <1>3. CASE Look(d)
    <2> SUFFICES ASSUME kind = "library", run'[d].at \in {"keep", "write"},
                        ~run'[d].unread
                 PROVE  file'[d].time <= run'[d].time
      BY Steady
    <2>2. PICK m \in Reads(d), e \in Best(d) :
            /\ Wanted(copy[d][e], m)
            /\ run' = [run EXCEPT ![d] =
                 [at |-> "keep", text |-> copy[d][e].blob,
                  time |-> copy[d][e].manifest.time, merge |-> FALSE,
                  unread |-> (m # file[d]), mine |-> NoFile]]
      BY <1>3, Moved DEF Look
    <2>1. m = file[d] /\ file' = file
      BY <1>3, <2>2 DEF Look, TypeOK
    <2>3. run'[d].time = copy[d][e].manifest.time /\ e \in Device
      BY <2>2 DEF Best, TypeOK
    <2>4. file[d].time <= copy[d][e].manifest.time
      <3>1. file[d].time \in Nat /\ copy[d][e].manifest.time \in Nat
        BY <2>3, SyncAssumption DEF TypeOK, Files, Shelf, Times
      <3> QED  BY <2>1, <2>2, <3>1 DEF Wanted, NoFile
    <2> QED  BY <2>1, <2>3, <2>4
  <1>4. CASE Keep(d)
    BY <1>4, Steady, Moved, Clocks DEF Keep, Ahead, exchanged, TypeOK, Joined, Merges, Runs
  <1>5. CASE Write(d)
    BY <1>5, Steady, Moved, Clocks DEF Write, Ahead, exchanged, TypeOK, Dated, KindOfStep
  <1>6. CASE WriteFails(d)
    BY <1>6, Steady, Moved, Clocks DEF WriteFails, Ahead, exchanged, TypeOK
  <1>7. CASE SetModified(d)
    BY <1>7, Steady, Moved, Clocks DEF SetModified, Ahead, exchanged, TypeOK, KindOfStep
  <1>8. CASE Resurvey(d)
    BY <1>8, Steady, Clocks DEF Resurvey, Ahead, exchanged, TypeOK, Idle, Runs
  <1>9. CASE PushBlob(d)
    BY <1>9, Steady, Moved, Clocks DEF PushBlob, Ahead, exchanged, TypeOK
  <1>10. CASE PushManifest(d)
    BY <1>10, Steady, Clocks DEF PushManifest, Ahead, exchanged, TypeOK, Idle
  <1>11. CASE After(d)
    BY <1>11, Steady, Clocks DEF After, Ahead, exchanged, TypeOK, Idle
  <1>12. CASE Crash(d)
    BY <1>12, Steady, Clocks DEF Crash, Ahead, exchanged, TypeOK, Idle
  <1> QED  BY <1>1, <1>2, <1>3, <1>4, <1>5, <1>6, <1>7, <1>8, <1>9, <1>10, <1>11, <1>12 DEF Exchange

LEMMA AheadStep == IInv /\ [Next]_vars => Ahead'
  <1> SUFFICES ASSUME IInv, [Next]_vars PROVE Ahead'
    OBVIOUS
  <1>0. TypeOK /\ Ahead
    BY DEF IInv
  <1>1. CASE UNCHANGED vars
    BY <1>0, <1>1 DEF vars, exchanged, Ahead
  <1>2. ASSUME NEW d \in Device, Edit(d) \/ Crash(d) \/ Exchange(d) PROVE Ahead'
    <2>1. ASSUME NEW x \in Device \ {d}
          PROVE  file'[x] = file[x] /\ run'[x] = run[x] /\ lost'[x] = lost[x]
      BY <1>0, <1>2, <2>1, Others
    <2> QED  BY <1>0, <1>2, <2>1, AheadOwn, Steady DEF Ahead
  <1>3. ASSUME NEW d \in Device, NEW e \in Device, Replicate(d, e) PROVE Ahead'
    BY <1>0, <1>3 DEF Replicate, exchanged, NoFault, Ahead
  <1> QED  BY <1>1, <1>2, <1>3 DEF Next

LEMMA KeptOwn ==
  ASSUME IInv, [Next]_vars, NEW d \in Device, Edit(d) \/ Crash(d) \/ Exchange(d)
  PROVE  run'[d].at = "write" /\ mishaps' \cap {"unkept", "overwritten"} = {} =>
           file'[d].text \ Torn
             \subseteq (UNION lost'[d]) \cup (IF run'[d].merge THEN run'[d].text ELSE {})
  <1> USE DEF IInv
  <1>1. CASE Edit(d)
    BY <1>1, Steady DEF Edit, Kept, exchanged, TypeOK, DatedNow, Overtaking
  <1>2. CASE Pull(d)
    BY <1>2, Steady, Moved DEF Pull, Kept, exchanged, TypeOK
  <1>3. CASE Look(d)
    BY <1>3, Steady, Moved DEF Look, Kept, exchanged, TypeOK, Runs
  <1>4. CASE Keep(d)
    <2>1. CASE ~Here(d) /\ To(d, "write") /\ UNCHANGED <<file, lost>>
      BY <2>1, Moved DEF Here, NoFile
    <2>2. CASE Joined(d) /\ UNCHANGED <<file, lost>>
      BY <2>2 DEF Joined, TypeOK, Runs
    <2>3. CASE Here(d) /\ To(d, "write") /\ lost' = [lost EXCEPT ![d] = KeptBeside(d)]
                 /\ file' = IF kind = "plain" THEN [file EXCEPT ![d] = NoFile] ELSE file
      <3>1. file[d].text \in lost'[d]
        BY <2>3 DEF KeptBeside, TypeOK
      <3>2. file'[d].text \subseteq file[d].text
        BY <2>3 DEF NoFile, TypeOK
      <3> QED  BY <3>1, <3>2, <2>3, Moved
    <2>4. CASE To(d, "survey")
      BY <2>4, Moved
    <2>5. CASE Fault({"unkept"})
      BY <2>5 DEF Fault
    <2> QED  BY <1>4, <2>1, <2>2, <2>3, <2>4, <2>5 DEF Keep
  <1>5. CASE Write(d)
    BY <1>5, Steady, Moved DEF Write, Kept, exchanged, TypeOK, Dated
  <1>6. CASE WriteFails(d)
    BY <1>6, Steady, Moved DEF WriteFails, Kept, exchanged, TypeOK
  <1>7. CASE SetModified(d)
    BY <1>7, Steady, Moved DEF SetModified, Kept, exchanged, TypeOK
  <1>8. CASE Resurvey(d)
    BY <1>8, Steady DEF Resurvey, Kept, exchanged, TypeOK, Idle, Runs
  <1>9. CASE PushBlob(d)
    BY <1>9, Steady, Moved DEF PushBlob, Kept, exchanged, TypeOK
  <1>10. CASE PushManifest(d)
    BY <1>10, Steady DEF PushManifest, Kept, exchanged, TypeOK, Idle
  <1>11. CASE After(d)
    BY <1>11, Steady DEF After, Kept, exchanged, TypeOK, Idle
  <1>12. CASE Crash(d)
    BY <1>12, Steady DEF Crash, Kept, exchanged, TypeOK, Idle
  <1> QED  BY <1>1, <1>2, <1>3, <1>4, <1>5, <1>6, <1>7, <1>8, <1>9, <1>10, <1>11, <1>12 DEF Exchange

LEMMA KeptStep == IInv /\ [Next]_vars => Kept'
  <1> SUFFICES ASSUME IInv, [Next]_vars PROVE Kept'
    OBVIOUS
  <1>0. TypeOK /\ Kept
    BY DEF IInv
  <1>1. CASE UNCHANGED vars
    BY <1>0, <1>1 DEF vars, exchanged, Kept
  <1>2. ASSUME NEW d \in Device, Edit(d) \/ Crash(d) \/ Exchange(d) PROVE Kept'
    <2>1. ASSUME NEW x \in Device \ {d}
          PROVE  file'[x] = file[x] /\ run'[x] = run[x] /\ lost'[x] = lost[x]
      BY <1>0, <1>2, <2>1, Others
    <2> QED  BY <1>0, <1>2, <2>1, KeptOwn, Steady DEF Kept
  <1>3. ASSUME NEW d \in Device, NEW e \in Device, Replicate(d, e) PROVE Kept'
    BY <1>0, <1>3 DEF Replicate, exchanged, NoFault, Kept
  <1> QED  BY <1>1, <1>2, <1>3 DEF Next

LEMMA PastOwn ==
  ASSUME IInv, [Next]_vars, NEW d \in Device, Edit(d) \/ Crash(d) \/ Exchange(d)
  PROVE  /\ file'[d].time <= clock' /\ run'[d].time <= clock' /\ run'[d].mine.time <= clock'
         /\ remote'[d].manifest.time <= clock'
         /\ \A e \in Device : copy'[d][e].manifest.time <= clock'
  <1> USE DEF IInv
  <1>1. CASE Edit(d)
    BY <1>1, Steady, Clocks DEF Edit, Past, exchanged, TypeOK, DatedNow
  <1>2. CASE Pull(d)
    <2>1. \A e \in Device : copy'[d][e].manifest \in {copy[d][e].manifest, remote[e].manifest}
      BY <1>2 DEF Pull, TypeOK
    <2> QED  BY <1>2, <2>1, Moved DEF Pull, Past, exchanged, TypeOK
  <1>3. CASE Look(d)
    BY <1>3, Steady, Clocks, Moved DEF Look, Past, exchanged, TypeOK, Best, Runs, NoFile
  <1>4. CASE Keep(d)
    <2>1. file'[d] \in {file[d], NoFile}
      BY <1>4 DEF Keep, TypeOK
    <2>2. run'[d].time = run[d].time /\ run'[d].mine = run[d].mine
      <3>1. CASE Joined(d)
        BY <3>1 DEF Joined, TypeOK, Runs
      <3> QED  BY <1>4, <3>1, Moved DEF Keep
    <2>3. NoFile.time <= clock
      BY Clocks DEF NoFile
    <2> QED  BY <1>4, <2>1, <2>2, <2>3 DEF Keep, Past, exchanged
  <1>5. CASE Write(d)
    <2>1. file'[d].time \in {run[d].time, clock'}
      BY <1>5 DEF Write, TypeOK
    <2>2. run'[d].time = run[d].time /\ run'[d].mine = run[d].mine
      BY <1>5, Moved DEF Write
    <2>3. remote' = remote /\ copy' = copy
      BY <1>5 DEF Write
    <2> QED  BY <2>1, <2>2, <2>3, Steady, Clocks DEF Past
  <1>6. CASE WriteFails(d)
    <2>1. file'[d].time \in {file[d].time, clock'}
      BY <1>6, CutOffTyped DEF WriteFails
    <2>2. run'[d].time = run[d].time /\ run'[d].mine = run[d].mine
      BY <1>6, Moved DEF WriteFails
    <2>3. remote' = remote /\ copy' = copy
      BY <1>6 DEF WriteFails
    <2> QED  BY <2>1, <2>2, <2>3, Steady, Clocks DEF Past
  <1>7. CASE SetModified(d)
    <2>1. file'[d].time \in {run[d].time, clock'}
      <3>1. CASE file' = [file EXCEPT ![d].time = WritersClock(d)]
        BY <3>1, TextTyped DEF TypeOK, WritersClock, Files
      <3> QED  BY <1>7, <3>1, CutOffTyped DEF SetModified
    <2> QED  BY <1>7, <2>1, Steady, Clocks, Moved DEF SetModified, Past, exchanged
  <1>8. CASE Resurvey(d)
    <2>1. PICK mine \in Reads(d) :
            run' = [run EXCEPT ![d] = [Idle EXCEPT !.at = "blob", !.mine = mine]]
      BY <1>8 DEF Resurvey
    <2>2. mine.time \in {0, file[d].time}
      BY <2>1, TextTyped DEF Reads, NoFile, Files
    <2>3. run'[d].time = 0 /\ run'[d].mine = mine
      BY <2>1 DEF TypeOK, Idle
    <2>4. file' = file /\ clock' = clock /\ remote' = remote /\ copy' = copy
      BY <1>8 DEF Resurvey, exchanged
    <2> QED  BY <2>2, <2>3, <2>4, Clocks DEF Past
  <1>9. CASE PushBlob(d)
    <2>1. \A e \in Device : copy'[d][e].manifest = copy[d][e].manifest
      <3>1. CASE copy' = [copy EXCEPT ![d][d].blob = file[d].text]
        BY <3>1 DEF TypeOK, Shelf
      <3> QED  BY <1>9, <3>1 DEF PushBlob
    <2> QED  BY <1>9, <2>1, Moved DEF PushBlob, Past, exchanged
  <1>10. CASE PushManifest(d)
    <2>1. \A e \in Device : copy'[d][e].manifest \in {copy[d][e].manifest, run[d].mine}
      <3>1. CASE copy' = [copy EXCEPT ![d][d].manifest = run[d].mine]
        BY <3>1 DEF TypeOK, Shelf
      <3> QED  BY <1>10, <3>1 DEF PushManifest
    <2>2. run'[d].time = 0 /\ run'[d].mine.time = 0
      BY <1>10 DEF PushManifest, TypeOK, Idle, NoFile
    <2> QED  BY <1>10, <2>1, <2>2, Clocks DEF PushManifest, Past, exchanged
  <1>11. CASE After(d)
    BY <1>11, Steady, Clocks DEF After, Past, exchanged, TypeOK, Idle, NoFile
  <1>12. CASE Crash(d)
    <2>1. file'[d].time <= clock'
      BY <1>12, Steady, Clocks, CutOffTyped DEF Crash, Past
    <2> QED  BY <1>12, <2>1, Steady, Clocks DEF Crash, Past, exchanged, TypeOK, Idle, NoFile
  <1> QED  BY <1>1, <1>2, <1>3, <1>4, <1>5, <1>6, <1>7, <1>8, <1>9, <1>10, <1>11, <1>12 DEF Exchange

LEMMA PastStep == IInv /\ [Next]_vars => Past'
  <1> SUFFICES ASSUME IInv, [Next]_vars PROVE Past'
    OBVIOUS
  <1>0. TypeOK /\ Past
    BY DEF IInv
  <1>1. CASE UNCHANGED vars
    BY <1>0, <1>1 DEF vars, exchanged, Past
  <1>2. ASSUME NEW d \in Device, Edit(d) \/ Crash(d) \/ Exchange(d) PROVE Past'
    <2>1. ASSUME NEW x \in Device \ {d}
          PROVE  /\ file'[x].time <= clock' /\ run'[x].time <= clock'
                 /\ run'[x].mine.time <= clock' /\ remote'[x].manifest.time <= clock'
                 /\ \A e \in Device : copy'[x][e].manifest.time <= clock'
      <3>1. /\ file'[x] = file[x] /\ run'[x] = run[x]
            /\ remote'[x] = remote[x] /\ copy'[x] = copy[x]
        BY <1>0, <1>2, <2>1, Others
      <3> QED  BY <1>0, <3>1, Clocks, Steady DEF Past
    <2> QED  BY <2>1, <1>2, PastOwn DEF Past
  <1>3. ASSUME NEW d \in Device, NEW e \in Device, Replicate(d, e) PROVE Past'
    <2>1. \A x, y \in Device : copy'[x][y].manifest \in {copy[x][y].manifest, copy[e][e].manifest}
      <3>1. CASE copy' = [copy EXCEPT ![d][e].blob = copy[e][e].blob]
        BY <1>0, <3>1 DEF TypeOK, Shelf
      <3>2. CASE copy' = [copy EXCEPT ![d][e].manifest = copy[e][e].manifest]
        BY <1>0, <3>2 DEF TypeOK, Shelf
      <3> QED  BY <1>3, <3>1, <3>2 DEF Replicate
    <2> QED  BY <1>0, <1>3, <2>1 DEF Replicate, exchanged, Past
  <1> QED  BY <1>1, <1>2, <1>3 DEF Next

THEOREM Inductive == Spec => []IInv
  <1>1. IInv /\ [Next]_vars => IInv'
    BY TypedStep, PastStep, KindOfStepStep, KeptStep, AheadStep DEF IInv
  <1> QED  BY IInit, <1>1, PTL DEF Spec
-----------------------------------------------------------------------------
(* What follows from it                                                    *)

(* Whatever happens, a device has what it had of the file, in the file or  *)
(* beside it, but for the two ways the code loses a text.                  *)
LEMMA HeldByOwn ==
  ASSUME IInv, [Next]_vars, NEW d \in Device, Edit(d) \/ Crash(d) \/ Exchange(d),
         mishaps' \cap {"unkept", "overwritten"} = {}
  PROVE  Held(d) \ Torn \subseteq Held(d)'
  <1> USE DEF IInv
  <1>0. mishaps \cap {"unkept", "overwritten"} = {}
    BY Steady
  <1>1. CASE Edit(d)
    BY <1>1 DEF Edit, Held, TypeOK
  <1>2. CASE Keep(d)
    <2>1. CASE UNCHANGED <<file, lost>>
      BY <2>1 DEF Held
    <2>2. CASE lost' = [lost EXCEPT ![d] = KeptBeside(d)]
      BY <2>2 DEF KeptBeside, Held, TypeOK
    <2> QED  BY <1>2, <2>1, <2>2 DEF Keep
  <1>3. CASE Write(d)
    <2>1. file'[d].text = run[d].text /\ lost' = lost
      BY <1>3 DEF Write, TypeOK
    <2>2. file[d].text \ Torn
            \subseteq (UNION lost[d]) \cup (IF run[d].merge THEN run[d].text ELSE {})
      BY <1>0, <1>3 DEF Write, Kept
    <2> QED  BY <2>1, <2>2 DEF Held
  <1>4. CASE file'[d].text = file[d].text /\ lost' = lost
    BY <1>4 DEF Held
  <1>5. CASE CutOff(d) /\ lost' = lost
    <2>1. run[d].at = "write" /\ kind = "plain"
      BY <1>5 DEF CutOff
    <2>2. file[d].text \ Torn \subseteq UNION lost[d]
      BY <1>0, <2>1 DEF Kept, KindOfStep
    <2> QED  BY <1>5, <2>2 DEF Held
  <1>6. CASE NotDated(d) /\ lost' = lost
    BY <1>4, <1>6, TextTyped DEF NotDated, TypeOK, Files
  <1>7. CASE SetModified(d)
    <2>1. CASE file' = [file EXCEPT ![d].time = WritersClock(d)]
      BY <1>4, <1>7, <2>1, TextTyped DEF SetModified, TypeOK, Files
    <2> QED  BY <1>6, <1>7, <2>1 DEF SetModified
  <1>8. CASE WriteFails(d)
    BY <1>4, <1>5, <1>8 DEF WriteFails
  <1>9. CASE Crash(d)
    BY <1>4, <1>5, <1>6, <1>9 DEF Crash
  <1>10. CASE UNCHANGED <<file, lost>>
    BY <1>10 DEF Held
  <1> QED  BY <1>1, <1>2, <1>3, <1>7, <1>8, <1>9, <1>10 DEF Exchange, Pull, Look,
              Resurvey, PushBlob, PushManifest, After

(* Nothing is lost in silence, for any devices, kinds and carriers.        *)
THEOREM NothingLostAlways == Spec => NothingLost
  <1>1. IInv /\ [Next]_vars =>
          [mishaps' \cap {"unkept", "overwritten"} = {} =>
             \A d \in Device : Held(d) \ Torn \subseteq Held(d)']_vars
    <2> SUFFICES ASSUME IInv, [Next]_vars, mishaps' \cap {"unkept", "overwritten"} = {},
                        NEW x \in Device
                 PROVE  Held(x) \ Torn \subseteq Held(x)'
      OBVIOUS
    <2>0. TypeOK
      BY DEF IInv
    <2>1. CASE UNCHANGED vars
      BY <2>1 DEF vars, exchanged, Held
    <2>2. ASSUME NEW d \in Device, Edit(d) \/ Crash(d) \/ Exchange(d)
          PROVE  Held(x) \ Torn \subseteq Held(x)'
      <3>1. CASE x = d
        BY <2>2, <3>1, HeldByOwn
      <3>2. CASE x # d
        BY <2>0, <2>2, <3>2, Others DEF Held
      <3> QED  BY <3>1, <3>2
    <2>3. ASSUME NEW d \in Device, NEW e \in Device, Replicate(d, e)
          PROVE  Held(x) \ Torn \subseteq Held(x)'
      BY <2>3 DEF Replicate, Held
    <2> QED  BY <2>1, <2>2, <2>3 DEF Next
  <1> QED  BY Inductive, <1>1, PTL DEF Spec, NothingLost

(* A library record's clock never goes back, but where it was not read.    *)
LEMMA OlderByOwn ==
  ASSUME IInv, [Next]_vars, NEW d \in Device, Edit(d) \/ Crash(d) \/ Exchange(d),
         kind = "library"
  PROVE  file[d].time <= file'[d].time \/ run[d].unread
  <1> USE DEF IInv
  <1>1. CASE Edit(d)
    BY <1>1, Steady, Clocks DEF Edit, TypeOK, Past
  <1>2. CASE Keep(d)
    BY <1>2, Clocks DEF Keep
  <1>3. CASE Write(d)
    BY <1>3 DEF Write, TypeOK, Ahead
  <1>4. CASE SetModified(d)
    BY <1>4 DEF SetModified, KindOfStep
  <1>5. CASE CutOff(d) \/ NotDated(d)
    BY <1>5, Clocks, Steady, CutOffTyped DEF Past
  <1>6. CASE UNCHANGED file
    BY <1>6, Clocks
  <1> QED  BY <1>1, <1>2, <1>3, <1>4, <1>5, <1>6 DEF Exchange, Pull, Look, WriteFails,
              Crash, Resurvey, PushBlob, PushManifest, After

THEOREM NeverOlderAlways == Spec => NeverOlder
  <1>1. IInv /\ [Next]_vars =>
          [kind = "library" =>
             \A d \in Device : file[d].time <= file'[d].time \/ run[d].unread]_vars
    <2> SUFFICES ASSUME IInv, [Next]_vars, kind = "library", NEW x \in Device
                 PROVE  file[x].time <= file'[x].time \/ run[x].unread
      OBVIOUS
    <2>0. TypeOK
      BY DEF IInv
    <2>1. CASE UNCHANGED vars
      BY <2>0, <2>1, Clocks DEF vars
    <2>2. ASSUME NEW d \in Device, Edit(d) \/ Crash(d) \/ Exchange(d)
          PROVE  file[x].time <= file'[x].time \/ run[x].unread
      <3>1. CASE x = d
        BY <2>2, <3>1, OlderByOwn
      <3>2. CASE x # d
        BY <2>0, <2>2, <3>2, Others, Clocks
      <3> QED  BY <3>1, <3>2
    <2>3. ASSUME NEW d \in Device, NEW e \in Device, Replicate(d, e)
          PROVE  file[x].time <= file'[x].time \/ run[x].unread
      BY <2>0, <2>3, Clocks DEF Replicate
    <2> QED  BY <2>1, <2>2, <2>3 DEF Next
  <1> QED  BY Inductive, <1>1, PTL DEF Spec, NeverOlder
=============================================================================

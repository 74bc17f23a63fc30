----------------------------- MODULE HoldProofs -----------------------------
(***************************************************************************)
(* What holds of the holder for any number of connections, any capacities  *)
(* and any placement of the cursor-position asks.                          *)
(***************************************************************************)
EXTENDS Hold, TLAPS, FiniteSetTheorems

USE NoConnAssumption, BoundsAssumption

LEMMA Bounds == RingCap \in Nat /\ MaxOut \in Nat /\ MaxSay \in Nat
OBVIOUS

(* A link stays a link when a field is given a value of its type.          *)
LEMMA EditHeld ==
  ASSUME NEW l \in Links, NEW b \in BOOLEAN PROVE [l EXCEPT !.held = b] \in Links
BY DEF Links

LEMMA EditDown ==
  ASSUME NEW l \in Links, NEW s \in Seq(Frames) PROVE [l EXCEPT !.down = s] \in Links
BY DEF Links

LEMMA EditHello ==
  ASSUME NEW l \in Links, NEW h \in Hellos, NEW b \in BOOLEAN,
         NEW p \in {"idle", "hello", "live", "closed"}
  PROVE  [l EXCEPT !.hello = h, !.backlog = b, !.phase = p] \in Links
BY DEF Links

LEMMA EditTurned ==
  ASSUME NEW l \in Links, NEW p \in {"idle", "hello", "live", "closed"}
  PROVE  [l EXCEPT !.backlog = FALSE, !.phase = p] \in Links
BY DEF Links

LEMMA EditEnded ==
  ASSUME NEW l \in Links, NEW p \in {"idle", "hello", "live", "closed"}
  PROVE  [l EXCEPT !.held = FALSE, !.backlog = FALSE, !.phase = p] \in Links
BY DEF Links

LEMMA EditUp ==
  ASSUME NEW l \in Links, NEW s \in Seq(Said), NEW b \in BOOLEAN
  PROVE  [l EXCEPT !.up = s, !.held = b] \in Links
BY DEF Links

LEMMA EditSayHead ==
  ASSUME NEW l \in Links, NEW n \in 0 .. MaxSay, NEW k \in Kinds
  PROVE  [l EXCEPT !.said = n, !.saying = k] \in Links
BY DEF Links

LEMMA EditSayRest ==
  ASSUME NEW l \in Links, NEW s \in Seq(Said)
  PROVE  [l EXCEPT !.saying = "nothing", !.up = s] \in Links
BY DEF Links

LEMMA EditRead ==
  ASSUME NEW l \in Links, NEW s \in Seq(Frames), NEW g \in Seq(SUBSET Outputs),
         NEW e \in {"none", "code", "gone"}
  PROVE  [l EXCEPT !.down = s, !.got = g, !.exit = e] \in Links
BY DEF Links

LEMMA EditExit ==
  ASSUME NEW l \in Links PROVE [l EXCEPT !.exit = "gone"] \in Links
BY DEF Links

LEMMA EditGreeted ==
  ASSUME NEW l \in Links, NEW s \in Seq(Frames)
  PROVE  /\ [l EXCEPT !.backlog = FALSE, !.held = TRUE] \in Links
         /\ [l EXCEPT !.backlog = FALSE, !.held = TRUE, !.phase = "live", !.down = s] \in Links
BY DEF Links

LEMMA EditClose ==
  ASSUME NEW l \in Links, NEW s \in Seq(Frames)
  PROVE  [l EXCEPT !.phase = "closed", !.down = s] \in Links
BY DEF Links

LEMMA EditLink ==
  ASSUME NEW f \in [Conns -> Links], NEW c \in Conns, NEW l \in Links
  PROVE  [f EXCEPT ![c] = l] \in [Conns -> Links]
OBVIOUS

LEMMA LinkTyped ==
  ASSUME TypeOK, NEW c \in Conns
  PROVE  /\ link[c] \in Links
         /\ link[c].up \in Seq(Said) /\ link[c].down \in Seq(Frames)
         /\ link[c].got \in Seq(SUBSET Outputs)
BY DEF TypeOK, Links

LEMMA EndedTyped ==
  ASSUME TypeOK PROVE [c \in Conns |-> Ended(c)] \in [Conns -> Links]
<1>1. ASSUME NEW c \in Conns PROVE Ended(c) \in Links
  <2> DEFINE p == IF link[c].phase = "hello" THEN "closed" ELSE link[c].phase
  <2>1. link[c] \in Links /\ p \in {"idle", "hello", "live", "closed"}
    BY LinkTyped DEF Links
  <2>2. [link[c] EXCEPT !.held = FALSE, !.backlog = FALSE, !.phase = p] \in Links
    <3> HIDE DEF p
    <3> QED BY <2>1, EditEnded
  <2> QED
    BY <2>2 DEF Ended
<1> QED
  BY <1>1

LEMMA SentTyped ==
  ASSUME TypeOK, NEW c \in Conns, NEW f \in Frames
  PROVE  Sent(c, f) \in [Conns -> Links]
<1> DEFINE s == Append(link[c].down, f)
<1>1. s \in Seq(Frames)
  BY LinkTyped
<1>2. [link[c] EXCEPT !.down = s] \in Links
  <2> HIDE DEF s
  <2> QED BY <1>1, EditDown, LinkTyped
<1>3. [link EXCEPT ![c] = [link[c] EXCEPT !.down = s]] \in [Conns -> Links]
  BY <1>2, EditLink DEF TypeOK
<1> QED
  BY <1>3 DEF Sent, TypeOK

LEMMA EndedFields ==
  ASSUME TypeOK, NEW c \in Conns
  PROVE  /\ ~Ended(c).held
         /\ Ended(c).exit = link[c].exit /\ Ended(c).down = link[c].down
<1> DEFINE p == IF link[c].phase = "hello" THEN "closed" ELSE link[c].phase
           m == [link[c] EXCEPT !.held = FALSE, !.backlog = FALSE, !.phase = p]
<1>1. ~m.held /\ m.exit = link[c].exit /\ m.down = link[c].down
  <2> HIDE DEF p
  <2> QED BY LinkTyped DEF Links
<1> QED
  BY <1>1 DEF Ended

LEMMA ReadFields ==
  ASSUME NEW l \in Links, NEW s, NEW g, NEW e
  PROVE  LET m == [l EXCEPT !.down = s, !.got = g, !.exit = e]
         IN  m.held = l.held /\ m.hello = l.hello /\ m.phase = l.phase
BY DEF Links

LEMMA ConnectFields ==
  ASSUME NEW l \in Links, NEW h, NEW b, NEW p
  PROVE  LET m == [l EXCEPT !.hello = h, !.backlog = b, !.phase = p]
         IN  m.held = l.held /\ m.exit = l.exit /\ m.down = l.down
BY DEF Links

LEMMA SayRestFields ==
  ASSUME NEW l \in Links, NEW k, NEW s
  PROVE  LET m == [l EXCEPT !.saying = k, !.up = s]
         IN  /\ m.held = l.held /\ m.hello = l.hello /\ m.phase = l.phase
             /\ m.exit = l.exit /\ m.down = l.down
BY DEF Links

LEMMA CloseFields ==
  ASSUME NEW l \in Links, NEW p, NEW s
  PROVE  LET m == [l EXCEPT !.phase = p, !.down = s]
         IN  m.held = l.held /\ m.hello = l.hello /\ m.phase = p
BY DEF Links

LEMMA EndOfStreamFields ==
  ASSUME NEW l \in Links, NEW e
  PROVE  LET m == [l EXCEPT !.exit = e]
         IN  m.held = l.held /\ m.hello = l.hello /\ m.phase = l.phase
BY DEF Links

LEMMA TurnAwayFields ==
  ASSUME TypeOK, NEW c \in Conns, TurnAway(c)
  PROVE  /\ LET l == link[c]
                m == link'[c]
            IN  /\ m.got = l.got /\ m.down = l.down /\ m.exit = l.exit /\ m.hello = l.hello
                /\ m.held = l.held /\ m.up = l.up /\ m.said = l.said /\ m.saying = l.saying
                /\ ~m.backlog
                /\ m.phase = "closed" \/ (m.phase = "live" /\ l.phase = "hello")
         /\ \A d \in Conns \ {c} : link'[d] = link[d]
<1>1. PICK to \in TurnedTo(link[c]) : link' = [link EXCEPT ![c].backlog = FALSE, ![c].phase = to]
  BY DEF TurnAway
<1>2. to = "closed" \/ (to = "live" /\ link[c].phase = "hello")
  BY DEF TurnedTo
<1>3. link[c] \in Links /\ link \in [Conns -> Links]
  BY LinkTyped DEF TypeOK
<1> QED BY <1>1, <1>2, <1>3 DEF Links

LEMMA TakeableBound ==
  ASSUME TypeOK PROVE Takeable \in Nat /\ taken + Takeable <= queued
BY DEF TypeOK, Takeable

LEMMA RetainSubset == \A out : Retain(out) \subseteq out
BY DEF Retain

LEMMA StrippedSubset ==
  \A out : /\ Stripped(out) \subseteq out /\ Matched(out) \subseteq out
           /\ Stripped(out) \cap Matched(out) = {}
BY DEF Stripped, Matched

LEMMA InitTyped == Init => TypeOK
<1> SUFFICES ASSUME Init PROVE TypeOK
  OBVIOUS
<1>1. Idle \in Links
  BY Bounds DEF Idle, Links, Hellos, Kinds
<1>2. link \in [Conns -> Links] /\ did \in Seq(Said)
  BY <1>1 DEF Init
<1>3. /\ emitted \in 0 .. MaxOut /\ queued \in 0 .. emitted /\ taken \in 0 .. queued
      /\ ring \in SUBSET (1 .. taken) /\ answered \in SUBSET (1 .. taken)
      /\ stripped \in SUBSET (1 .. taken)
  BY Bounds DEF Init
<1> QED
  BY <1>2, <1>3 DEF Init, TypeOK

LEMMA TypeStep == TypeOK /\ [Next]_vars => TypeOK'
<1> SUFFICES ASSUME TypeOK, [Next]_vars PROVE TypeOK'
  OBVIOUS
<1> USE DEF ptyVars, holderVars
<1>1. CASE Emit
  BY <1>1, Bounds DEF Emit, TypeOK
<1>2. CASE ShellExits
  BY <1>2 DEF ShellExits, TypeOK
<1>3. CASE PtyReader
  BY <1>3 DEF PtyReader, TypeOK
<1>4. CASE Drain
  <2> DEFINE out == taken + 1 .. taken + Takeable
  <2>0. taken \in Nat /\ queued \in Nat /\ queued <= MaxOut
    BY Bounds DEF TypeOK
  <2>1. /\ taken' \in 0 .. queued /\ out \subseteq 1 .. taken' /\ out \subseteq Outputs
        /\ 1 .. taken \subseteq 1 .. taken'
    BY <1>4, <2>0, Bounds, TakeableBound DEF Drain, Outputs
  <2>2. ring' \in SUBSET (1 .. taken')
    BY <1>4, <2>1, RetainSubset, StrippedSubset DEF Drain, TypeOK
  <2>3. /\ answered' \in SUBSET (1 .. taken') /\ stripped' \in SUBSET (1 .. taken')
        /\ client' \in Conns \cup {NoConn}
    BY <1>4, <2>1, StrippedSubset DEF Drain, TypeOK
  <2>4. link' \in [Conns -> Links]
    <3>1. CASE UNCHANGED link
      BY <3>1 DEF TypeOK
    <3>2. CASE client \in Conns /\ link' = Sent(client, [tag |-> "o", out |-> out])
      BY <3>2, <2>1, SentTyped DEF Frames
    <3>3. CASE client \in Conns /\ link' = Hangup(client)
      BY <3>3, EditHeld, EditLink DEF Hangup, TypeOK
    <3> QED
      BY <1>4, <3>1, <3>2, <3>3 DEF Drain, TypeOK
  <2> QED
    BY <1>4, <2>1, <2>2, <2>3, <2>4 DEF Drain, TypeOK
<1>5. CASE PollExit
  <2>1. link' \in [Conns -> Links]
    <3>1. CASE UNCHANGED link
      BY <3>1 DEF TypeOK
    <3>2. CASE client \in Conns /\ link' = Sent(client, ExitFrame)
      BY <3>2, SentTyped DEF Frames, ExitFrame
    <3> QED
      BY <1>5, <3>1, <3>2 DEF PollExit, TypeOK
  <2> QED
    BY <1>5, <2>1 DEF PollExit, TypeOK
<1>6. CASE PollLinger
  BY <1>6 DEF PollLinger, TypeOK
<1>7. CASE Linger
  BY <1>7 DEF Linger, TypeOK
<1>8. CASE Leave
  BY <1>8, EndedTyped DEF Leave, TypeOK
<1>9. CASE AcceptNone
  BY <1>9 DEF AcceptNone, TypeOK
<1>10. ASSUME NEW c \in Conns, Attach(c) PROVE TypeOK'
  <2>1. <<[tag |-> "h", out |-> ring]>> \in Seq(Frames)
    BY Bounds DEF Frames, TypeOK, Outputs
  <2>2. Greeted(c) \in Links
    BY <2>1, LinkTyped, EditGreeted DEF Greeted
  <2>3. \A d \in Conns : Displaced(d) \in Links /\ link[d] \in Links
    BY LinkTyped, EditHeld DEF Displaced
  <2>4. link' \in [Conns -> Links]
    BY <1>10, <2>2, <2>3 DEF Attach, Welcome
  <2> QED
    BY <1>10, <2>4 DEF Attach, Welcome, TypeOK
<1>11. ASSUME NEW c \in Conns, TurnAway(c) PROVE TypeOK'
  <2>1. PICK to \in {"closed", "live"} :
          link' = [link EXCEPT ![c].backlog = FALSE, ![c].phase = to]
    BY <1>11 DEF TurnAway, TurnedTo
  <2>2. [link[c] EXCEPT !.backlog = FALSE, !.phase = to] \in Links
    BY LinkTyped, EditTurned
  <2>3. link' \in [Conns -> Links]
    BY <2>1, <2>2, EditLink DEF TypeOK
  <2> QED
    BY <1>11, <2>3 DEF TurnAway, TypeOK
<1>12. CASE ReadNobody
  BY <1>12 DEF ReadNobody, TypeOK
<1>13. CASE ReadClient
  <2> DEFINE gone == link[client].phase = "closed"
  <2>1. client \in Conns
    BY <1>13 DEF ReadClient, TypeOK
  <2>2. [link[client] EXCEPT !.up = <<>>, !.held = ~gone] \in Links
    <3>1. gone \in BOOLEAN /\ <<>> \in Seq(Said) /\ link[client] \in Links
      BY <2>1, LinkTyped
    <3> HIDE DEF gone
    <3> QED BY <3>1, EditUp
  <2>3. link' \in [Conns -> Links]
    BY <1>13, <2>1, <2>2, EditLink DEF ReadClient, TypeOK
  <2>4. did' \in Seq(Said)
    BY <1>13, <2>1, LinkTyped DEF ReadClient, Arrived, TypeOK
  <2> QED
    BY <1>13, <2>1, <2>3, <2>4 DEF ReadClient, TypeOK, Kills
<1>14. CASE Crash
  BY <1>14, EndedTyped DEF Crash, TypeOK
<1>15. ASSUME NEW c \in Conns, Client(c) PROVE TypeOK'
  <2> USE <1>15, LinkTyped
  <2>1. ASSUME NEW h \in Hellos, Connect(c, h) PROVE TypeOK'
    <3>1. [link[c] EXCEPT !.hello = h, !.backlog = (pc # "left"),
                          !.phase = IF pc = "left" THEN "closed" ELSE "hello"] \in Links
      BY EditHello
    <3>2. link' \in [Conns -> Links]
      BY <2>1, <3>1, EditLink DEF Connect, TypeOK
    <3> QED
      BY <2>1, <3>2 DEF Connect, TypeOK
  <2>2. ASSUME NEW kind \in Kinds, SayHead(c, kind) PROVE TypeOK'
    <3>1. link[c].said + 1 \in 0 .. MaxSay
      BY <2>2, Bounds, SMTT(30) DEF SayHead, Links
    <3>2. [link[c] EXCEPT !.said = @ + 1, !.saying = kind] \in Links
      BY <3>1, EditSayHead
    <3>3. link' \in [Conns -> Links]
      BY <2>2, <3>2, EditLink DEF SayHead, TypeOK
    <3> QED
      BY <2>2, <3>3 DEF SayHead, TypeOK
  <2>3. CASE SayRest(c)
    <3> DEFINE frame == [by |-> c, n |-> link[c].said, kind |-> link[c].saying]
               up == IF link[c].held THEN Append(link[c].up, frame) ELSE link[c].up
    <3>1. frame \in Said
      BY <2>3 DEF SayRest, Said, Links
    <3>2. up \in Seq(Said)
      BY <3>1
    <3>3. [link[c] EXCEPT !.saying = "nothing", !.up = up] \in Links
      <4> HIDE DEF up
      <4> QED BY <3>2, EditSayRest
    <3>4. link' \in [Conns -> Links]
      BY <2>3, <3>3, EditLink DEF SayRest, TypeOK
    <3> QED
      BY <2>3, <3>4 DEF SayRest, TypeOK
  <2>4. CASE Close(c)
    <3>1. [link[c] EXCEPT !.phase = "closed", !.down = <<>>] \in Links
      <4>1. <<>> \in Seq(Frames)
        OBVIOUS
      <4> QED BY <4>1, EditClose
    <3>2. link' \in [Conns -> Links]
      BY <2>4, <3>1, EditLink DEF Close, TypeOK
    <3> QED
      BY <2>4, <3>2 DEF Close, TypeOK
  <2>5. CASE Receive(c)
    <3> DEFINE frame == Head(link[c].down)
               down == Tail(link[c].down)
               got == Append(link[c].got, frame.out)
               exit == IF frame.tag = "x" THEN "code" ELSE link[c].exit
    <3>1. frame \in Frames /\ down \in Seq(Frames)
      BY <2>5 DEF Receive
    <3>2. got \in Seq(SUBSET Outputs)
      BY <3>1 DEF Frames
    <3>3. exit \in {"none", "code", "gone"}
      BY DEF Links
    <3>4. [link[c] EXCEPT !.down = down, !.got = got, !.exit = exit] \in Links
      <4> HIDE DEF down, got, exit
      <4> QED BY <3>1, <3>2, <3>3, EditRead
    <3>5. link' \in [Conns -> Links]
      BY <2>5, <3>4, EditLink DEF Receive, TypeOK
    <3> QED
      BY <2>5, <3>5 DEF Receive, TypeOK
  <2>6. CASE EndOfStream(c)
    <3>1. [link[c] EXCEPT !.exit = "gone"] \in Links
      BY EditExit
    <3>2. link' \in [Conns -> Links]
      BY <2>6, <3>1, EditLink DEF EndOfStream, TypeOK
    <3> QED
      BY <2>6, <3>2 DEF EndOfStream, TypeOK
  <2> QED
    BY <2>1, <2>2, <2>3, <2>4, <2>5, <2>6 DEF Client
<1>16. CASE UNCHANGED vars
  BY <1>16 DEF vars, TypeOK
<1> QED
  BY <1>1, <1>2, <1>3, <1>4, <1>5, <1>6, <1>7, <1>8, <1>9, <1>10, <1>11, <1>12,
     <1>13, <1>14, <1>15, <1>16 DEF Next, Holder

(* Every variable keeps its type.                                          *)
THEOREM TypeCorrect == Spec => []TypeOK
<1> QED
  BY InitTyped, TypeStep, PTL DEF Spec

-----------------------------------------------------------------------------
(* What a connection has seen, and how each edit of it changes that.       *)
LEMMA SeenSame ==
  ASSUME NEW l, NEW m, m.got = l.got, m.down = l.down
  PROVE  Seen(m) = Seen(l)
BY DEF Seen

LEMMA InSeen ==
  ASSUME NEW l, NEW x
  PROVE  x \in Seen(l) <=> \/ \E i \in DOMAIN l.got : x \in l.got[i]
                           \/ \E i \in DOMAIN l.down : x \in l.down[i].out
<1> DEFINE A == UNION {l.got[i] : i \in DOMAIN l.got}
           B == UNION {l.down[i].out : i \in DOMAIN l.down}
<1>1. x \in A <=> \E i \in DOMAIN l.got : x \in l.got[i]
  BY Zenon
<1>2. x \in B <=> \E i \in DOMAIN l.down : x \in l.down[i].out
  BY Zenon
<1>3. Seen(l) = A \cup B
  BY DEF Seen
<1> HIDE DEF A, B
<1> QED
  BY <1>1, <1>2, <1>3

LEMMA SeenAppend ==
  ASSUME NEW l \in Links, NEW f \in Frames
  PROVE  Seen([l EXCEPT !.down = Append(@, f)]) \subseteq Seen(l) \cup f.out
<1> DEFINE s == Append(l.down, f)
           m == [l EXCEPT !.down = s]
<1>1. l.down \in Seq(Frames) /\ m.got = l.got /\ m.down = s
  BY DEF Links
<1>2. \A i \in DOMAIN s : s[i] = f \/ (i \in DOMAIN l.down /\ s[i] = l.down[i])
  BY <1>1
<1> HIDE DEF s
<1> SUFFICES ASSUME NEW x \in Seen(m), x \notin f.out PROVE x \in Seen(l)
  BY DEF s
<1>3. CASE \E i \in DOMAIN m.got : x \in m.got[i]
  BY <1>1, <1>3, InSeen
<1>4. CASE \E i \in DOMAIN m.down : x \in m.down[i].out
  <2>1. PICK i \in DOMAIN s : x \in s[i].out
    BY <1>1, <1>4
  <2>2. i \in DOMAIN l.down /\ x \in l.down[i].out
    BY <1>2, <2>1
  <2> QED BY <2>2, InSeen
<1> QED
  BY <1>3, <1>4, InSeen

LEMMA SeenReceive ==
  ASSUME NEW l \in Links, l.down # <<>>, NEW e
  PROVE  Seen([l EXCEPT !.down = Tail(@), !.got = Append(@, Head(l.down).out), !.exit = e])
           \subseteq Seen(l)
<1> DEFINE d == Tail(l.down)
           g == Append(l.got, Head(l.down).out)
           m == [l EXCEPT !.down = d, !.got = g, !.exit = e]
<1>1. l.down \in Seq(Frames) /\ l.got \in Seq(SUBSET Outputs) /\ m.got = g /\ m.down = d
  BY DEF Links
<1>2. 1 \in DOMAIN l.down /\ Head(l.down) = l.down[1]
  BY <1>1
<1>3. \A i \in DOMAIN d : i + 1 \in DOMAIN l.down /\ d[i] = l.down[i + 1]
  BY <1>1
<1>4. \A i \in DOMAIN g : g[i] = l.down[1].out \/ (i \in DOMAIN l.got /\ g[i] = l.got[i])
  BY <1>1, <1>2
<1> HIDE DEF d, g
<1> SUFFICES ASSUME NEW x \in Seen(m) PROVE x \in Seen(l)
  BY DEF d, g
<1>5. CASE \E i \in DOMAIN m.got : x \in m.got[i]
  <2>1. PICK i \in DOMAIN g : x \in g[i]
    BY <1>1, <1>5
  <2> QED BY <1>2, <1>4, <2>1, InSeen
<1>6. CASE \E i \in DOMAIN m.down : x \in m.down[i].out
  <2>1. PICK i \in DOMAIN d : x \in d[i].out
    BY <1>1, <1>6
  <2>2. i + 1 \in DOMAIN l.down /\ x \in l.down[i + 1].out
    BY <1>3, <2>1
  <2> QED BY <2>2, InSeen
<1> QED
  BY <1>5, <1>6, InSeen

(* No step but handing over the ring or sending new output makes a         *)
(* connection see more than it did.                                        *)
LEMMA SeenSent ==
  ASSUME TypeOK, NEW c \in Conns, NEW f \in Frames, link' = Sent(c, f)
  PROVE  \A d \in Conns : Saw(d)' \subseteq Saw(d) \cup (IF d = c THEN f.out ELSE {})
<1> SUFFICES ASSUME NEW d \in Conns
             PROVE  Saw(d)' \subseteq Saw(d) \cup (IF d = c THEN f.out ELSE {})
  OBVIOUS
<1>1. CASE link[d]' = link[d]
  BY <1>1 DEF Saw
<1>2. CASE d = c /\ link[d]' = [link[d] EXCEPT !.down = Append(@, f)]
  BY <1>2, LinkTyped, SeenAppend DEF Saw
<1> QED
  BY <1>1, <1>2 DEF Sent, TypeOK

LEMMA SeenEdited ==
  ASSUME \A c \in Conns : link[c]'.got = link[c].got /\ link[c]'.down = link[c].down
  PROVE  \A c \in Conns : Saw(c)' = Saw(c)
BY SeenSame DEF Saw

LEMMA SeenClient ==
  ASSUME TypeOK, NEW c \in Conns, Client(c)
  PROVE  \A d \in Conns : Saw(d)' \subseteq Saw(d)
<1> SUFFICES ASSUME NEW d \in Conns PROVE Saw(d)' \subseteq Saw(d)
  OBVIOUS
<1>1. CASE link[d]' = link[d]
  BY <1>1 DEF Saw
<1>2. CASE d = c /\ link[d]'.got = link[d].got /\ link[d]'.down = link[d].down
  BY <1>2, SeenSame DEF Saw
<1>3. CASE d = c /\ Close(c)
  <2>1. link[d]'.got = link[d].got /\ link[d]'.down = <<>>
    BY <1>3 DEF Close, TypeOK, Links
  <2> QED
    BY <2>1, InSeen DEF Saw
<1>4. CASE d = c /\ Receive(c)
  <2>1. link[c].down # <<>> /\ link[c] \in Links
    BY <1>4, LinkTyped DEF Receive
  <2>2. PICK e : link[c]' = [link[c] EXCEPT !.down = Tail(@),
                               !.got = Append(@, Head(link[c].down).out), !.exit = e]
    BY <1>4 DEF Receive, TypeOK
  <2> QED
    BY <1>4, <2>1, <2>2, SeenReceive DEF Saw
<1> QED
  <2>1. Connect(c, "attach") \/ Connect(c, "probe")
          => link[d]' = link[d] \/ (d = c /\ link[d]'.got = link[d].got /\ link[d]'.down = link[d].down)
    BY SMTT(30) DEF Connect, TypeOK, Links
  <2>2. ASSUME NEW kind \in Kinds, SayHead(c, kind)
        PROVE  link[d]' = link[d] \/ (d = c /\ link[d]'.got = link[d].got /\ link[d]'.down = link[d].down)
    BY <2>2 DEF SayHead, TypeOK, Links
  <2>3. SayRest(c) \/ EndOfStream(c)
          => link[d]' = link[d] \/ (d = c /\ link[d]'.got = link[d].got /\ link[d]'.down = link[d].down)
    BY SMTT(30) DEF SayRest, EndOfStream, TypeOK, Links
  <2>4. (Close(c) \/ Receive(c)) /\ d # c => link[d]' = link[d]
    BY DEF Close, Receive, TypeOK
  <2> QED
    BY <1>1, <1>2, <1>3, <1>4, <2>1, <2>2, <2>3, <2>4 DEF Client, Hellos
-----------------------------------------------------------------------------
(* Asks: a step that shows nobody anything new keeps them answered once.   *)
LEMMA AskQuiet ==
  ASSUME AskInv, UNCHANGED <<taken, ring, stripped, answered>>,
         \A c \in Conns : Saw(c)' \subseteq Saw(c)
  PROVE  AskInv'
BY DEF AskInv, Fresh, NoAskKept, AskedOnce

LEMMA AskDrain ==
  ASSUME TypeOK, TypeOK', AskInv, Drain PROVE AskInv'
<1> DEFINE out == taken + 1 .. taken + Takeable
<1>0. taken \in Nat /\ Takeable \in Nat /\ taken' = taken + Takeable
  BY TakeableBound, Bounds DEF Drain, TypeOK
<1>1. out \cap (1 .. taken) = {} /\ out \subseteq 1 .. taken' /\ 1 .. taken \subseteq 1 .. taken'
  BY <1>0
<1> DEFINE asked == Matched(out)
<1>2. NoAskKept' /\ asked \subseteq out /\ stripped' = stripped \cup asked
  <2>1. /\ asked \subseteq out /\ Stripped(out) \subseteq out /\ Stripped(out) \cap asked = {}
    BY StrippedSubset
  <2>2. /\ ring' \subseteq ring \cup Stripped(out) /\ stripped' = stripped \cup asked
        /\ answered' \subseteq answered \cup asked
    BY RetainSubset DEF Drain
  <2>3. ring \cap out = {} /\ stripped \cap out = {}
    BY <1>1 DEF TypeOK
  <2> HIDE DEF out, asked
  <2> QED BY <2>1, <2>2, <2>3 DEF AskInv, NoAskKept
<1>3. /\ answered \cap out = {} /\ \A c \in Conns : Saw(c) \cap out = {}
      /\ stripped \cap out = {} /\ answered \subseteq stripped
  BY <1>1 DEF TypeOK, AskInv, Fresh, NoAskKept
<1>4. CASE link' = link /\ answered' = answered
  <2> HIDE DEF out, asked
  <2> QED BY <1>1, <1>2, <1>3, <1>4 DEF AskInv, Fresh, AskedOnce, Saw
<1>5. CASE link' = link /\ answered' = answered \cup asked
  <2> HIDE DEF out, asked
  <2> QED BY <1>1, <1>2, <1>3, <1>5 DEF AskInv, Fresh, AskedOnce, Saw
<1>6. CASE client \in Conns /\ link' = Hangup(client) /\ answered' = answered
  <2>1. \A c \in Conns : link[c]'.got = link[c].got /\ link[c]'.down = link[c].down
    <3>1. \A l \in Links : LET m == [l EXCEPT !.held = FALSE]
                            IN  m.got = l.got /\ m.down = l.down
      BY DEF Links
    <3>2. \A c \in Conns : link[c]' = link[c] \/ link[c]' = [link[c] EXCEPT !.held = FALSE]
      BY <1>6 DEF Hangup, TypeOK
    <3> QED BY <3>1, <3>2, LinkTyped
  <2>2. \A c \in Conns : Saw(c)' = Saw(c)
    BY <2>1, SeenEdited
  <2> HIDE DEF out, asked
  <2> QED BY <1>1, <1>2, <1>3, <1>6, <2>2 DEF AskInv, Fresh, AskedOnce
<1>7. CASE /\ client \in Conns /\ answered' = answered
           /\ link' = Sent(client, [tag |-> "o", out |-> out])
  <2> DEFINE f == [tag |-> "o", out |-> out]
  <2>1. f \in Frames
    <3>1. out \subseteq Outputs
      BY <1>1, Bounds DEF TypeOK, Outputs
    <3> QED BY <3>1 DEF Frames
  <2>2. \A d \in Conns : Saw(d)' \subseteq Saw(d) \cup (IF d = client THEN out ELSE {})
    <3>1. f.out = out
      OBVIOUS
    <3> HIDE DEF f
    <3> QED BY <1>7, <2>1, <3>1, SeenSent DEF f
  <2> QED
    <3> HIDE DEF out, asked
    <3> QED BY <1>1, <1>2, <1>3, <1>7, <2>2 DEF AskInv, Fresh, AskedOnce
<1> QED
  BY <1>4, <1>5, <1>6, <1>7 DEF Drain, TypeOK

LEMMA AskAttach ==
  ASSUME TypeOK, AskInv, NEW c \in Conns, Attach(c) PROVE AskInv'
<1>1. UNCHANGED <<taken, ring, stripped, answered>>
  BY DEF Attach, Welcome
<1>2. \A d \in Conns \ {c} : link[d]'.got = link[d].got /\ link[d]'.down = link[d].down
  BY DEF Attach, Welcome, Displaced, TypeOK, Links
<1>3. \A d \in Conns \ {c} : Saw(d)' = Saw(d)
  BY <1>2, SeenSame DEF Saw
<1>4. Saw(c)' \subseteq Saw(c) \cup ring
  <2>1. link[c]' = Greeted(c) /\ link[c] \in Links
    BY LinkTyped DEF Attach, Welcome
  <2>2. CASE link[c].phase = "closed"
    <3>1. link[c]'.got = link[c].got /\ link[c]'.down = link[c].down
      BY <2>1, <2>2 DEF Greeted, Links
    <3> QED BY <3>1, SeenSame DEF Saw
  <2>3. CASE link[c].phase # "closed"
    <3>1. link[c]'.got = link[c].got /\ link[c]'.down = <<[tag |-> "h", out |-> ring]>>
      BY <2>1, <2>3 DEF Greeted, Links
    <3>2. \A i \in DOMAIN link[c]'.down : link[c]'.down[i].out = ring
      BY <3>1
    <3> SUFFICES ASSUME NEW x \in Seen(link[c]'), x \notin ring PROVE x \in Seen(link[c])
      BY DEF Saw
    <3> QED BY <3>1, <3>2, InSeen
  <2> QED BY <2>2, <2>3
<1> QED
  <2>1. \A d \in Conns : Saw(d)' \subseteq Saw(d) \cup ring
    BY <1>3, <1>4
  <2>2. ring \subseteq 1 .. taken /\ ring \cap stripped = {} /\ answered \subseteq stripped
    BY DEF TypeOK, AskInv, NoAskKept
  <2>3. Fresh' /\ NoAskKept'
    BY <1>1, <2>1, <2>2 DEF AskInv, Fresh, NoAskKept
  <2>4. \A d \in Conns : Saw(d)' \cap stripped \subseteq Saw(d)
    BY <2>1, <2>2
  <2>5. AskedOnce'
    BY <1>1, <2>2, <2>4 DEF AskInv, AskedOnce
  <2> QED BY <2>3, <2>5 DEF AskInv

LEMMA AskStep ==
  ASSUME TypeOK, TypeOK', AskInv, [Next]_vars PROVE AskInv'
<1> USE DEF ptyVars, holderVars
<1>1. CASE UNCHANGED <<taken, ring, stripped, answered, link>>
  BY <1>1, AskQuiet DEF Saw
<1>2. CASE /\ UNCHANGED <<taken, ring, stripped, answered>>
           /\ \A c \in Conns : link[c]'.got = link[c].got /\ link[c]'.down = link[c].down
  BY <1>2, AskQuiet, SeenEdited
<1>3. CASE PollExit
  <2>1. CASE link' = link
    BY <1>1, <1>3, <2>1 DEF PollExit
  <2>2. CASE client \in Conns /\ link' = Sent(client, ExitFrame)
    <3>1. ExitFrame \in Frames /\ ExitFrame.out = {}
      BY DEF ExitFrame, Frames
    <3> QED BY <1>3, <2>2, <3>1, SeenSent, AskQuiet DEF PollExit
  <2> QED BY <1>3, <2>1, <2>2 DEF PollExit, TypeOK
<1>4. ASSUME NEW c \in Conns, Client(c) PROVE AskInv'
  <2>1. UNCHANGED <<taken, ring, stripped, answered>>
    BY <1>4 DEF Client, Connect, SayHead, SayRest, Close, Receive, EndOfStream
  <2> QED BY <1>4, <2>1, SeenClient, AskQuiet
<1>5. CASE Leave \/ Crash
  <2>1. \A c \in Conns : link[c]'.got = link[c].got /\ link[c]'.down = link[c].down
    <3>1. \A c \in Conns : link[c]' = Ended(c)
      BY <1>5 DEF Leave, Crash
    <3>2. \A c \in Conns : Ended(c).got = link[c].got /\ Ended(c).down = link[c].down
      BY LinkTyped DEF Ended, Links
    <3> QED BY <3>1, <3>2
  <2>2. UNCHANGED <<taken, ring, stripped, answered>>
    BY <1>5 DEF Leave, Crash
  <2> QED BY <1>2, <2>1, <2>2
<1>6. ASSUME NEW c \in Conns, TurnAway(c) PROVE AskInv'
  <2>1. \A d \in Conns : link[d]'.got = link[d].got /\ link[d]'.down = link[d].down
    BY <1>6, TurnAwayFields
  <2> QED BY <1>2, <1>6, <2>1 DEF TurnAway
<1>7. CASE ReadClient
  BY <1>2, <1>7 DEF ReadClient, TypeOK, Links
<1>8. CASE Emit \/ ShellExits \/ PtyReader \/ PollLinger \/ AcceptNone \/ ReadNobody \/ Linger
  BY <1>1, <1>8 DEF Emit, ShellExits, PtyReader, PollLinger, AcceptNone, ReadNobody, Linger
<1>9. CASE UNCHANGED vars
  BY <1>1, <1>9 DEF vars
<1> QED
  BY <1>3, <1>4, <1>5, <1>6, <1>7, <1>8, <1>9, AskDrain, AskAttach DEF Next, Holder
-----------------------------------------------------------------------------
(* One socket open, and it is the attached one's.                          *)
LEMMA LinkStep ==
  ASSUME TypeOK, LinkInv, [Next]_vars PROVE LinkInv'
<1> USE DEF ptyVars, holderVars
<1>1. CASE UNCHANGED <<client, link>>
  BY <1>1 DEF LinkInv, OneAttached, Started
<1>2. ASSUME client' = client,
             \A c \in Conns : /\ link[c]'.held = link[c].held /\ link[c]'.hello = link[c].hello
                              /\ link[c].held => link[c]'.phase \in {"live", "closed"}
      PROVE  LinkInv'
  BY <1>2 DEF LinkInv, OneAttached, Started
<1>3. ASSUME client' = NoConn, \A c \in Conns : ~link[c]'.held
      PROVE  LinkInv'
  BY <1>3 DEF LinkInv, OneAttached, Started
<1>4. ASSUME client' = client, NEW f, link' = Sent(client, f), client \in Conns PROVE LinkInv'
  <2>1. \A c \in Conns : /\ link[c]'.held = link[c].held /\ link[c]'.hello = link[c].hello
                         /\ link[c]'.phase = link[c].phase
    BY <1>4, LinkTyped DEF Sent, TypeOK, Links
  <2> QED BY <1>2, <1>4, <2>1 DEF LinkInv, Started
<1>5. CASE client \in Conns /\ client' = NoConn /\ link' = Hangup(client)
  <2>1. \A c \in Conns : ~link[c]'.held
    BY <1>5, LinkTyped DEF Hangup, LinkInv, OneAttached, TypeOK, Links
  <2> QED BY <1>3, <1>5, <2>1
<1>6. CASE Drain
  BY <1>1, <1>4, <1>5, <1>6 DEF Drain, TypeOK
<1>7. CASE PollExit
  BY <1>1, <1>4, <1>7 DEF PollExit, TypeOK
<1>8. CASE Leave \/ Crash
  <2>1. client' = NoConn /\ \A c \in Conns : link[c]' = Ended(c)
    BY <1>8 DEF Leave, Crash
  <2>2. \A c \in Conns : ~link[c]'.held
    BY <2>1, EndedFields
  <2> QED BY <1>3, <2>1, <2>2
<1>9. ASSUME NEW c \in Conns, Attach(c) PROVE LinkInv'
  <2>1. /\ client' = c /\ link[c].hello = "attach" /\ link[c]' = Greeted(c)
        /\ \A d \in Conns \ {c} : link[d]' = IF d = client THEN Displaced(d) ELSE link[d]
    BY <1>9 DEF Attach, Welcome
  <2>2. link[c]'.held /\ link[c]'.hello = "attach" /\ link[c]'.phase \in {"live", "closed"}
    BY <2>1, LinkTyped DEF Greeted, Links
  <2>3. \A d \in Conns \ {c} : ~link[d]'.held
    <3>1. \A d \in Conns : ~Displaced(d).held
      BY LinkTyped DEF Displaced, Links
    <3>2. \A d \in Conns \ {c} : d # client => ~link[d].held
      BY DEF LinkInv, OneAttached
    <3> QED BY <2>1, <3>1, <3>2
  <2> QED BY <2>1, <2>2, <2>3 DEF LinkInv, OneAttached, Started
<1>10. ASSUME NEW c \in Conns, TurnAway(c) PROVE LinkInv'
  <2>1. \A d \in Conns : /\ link[d]'.held = link[d].held /\ link[d]'.hello = link[d].hello
                         /\ link[d]'.phase \in {link[d].phase, "closed", "live"}
    BY <1>10, TurnAwayFields
  <2> QED BY <1>2, <1>10, <2>1 DEF TurnAway, LinkInv, Started
<1>11. CASE ReadClient
  <2> DEFINE gone == link[client].phase = "closed"
  <2>1. /\ client \in Conns /\ client' = IF gone THEN NoConn ELSE client
        /\ link' = [link EXCEPT ![client].up = <<>>, ![client].held = ~gone]
    BY <1>11 DEF ReadClient, TypeOK
  <2>2. \A c \in Conns : /\ link[c]'.held = IF c = client THEN ~gone ELSE link[c].held
                         /\ link[c]'.hello = link[c].hello /\ link[c]'.phase = link[c].phase
    BY <2>1, LinkTyped, SMTT(30) DEF TypeOK, Links
  <2> QED BY <2>1, <2>2 DEF LinkInv, OneAttached, Started
<1>12. ASSUME NEW c \in Conns, Client(c) PROVE LinkInv'
  <2>1. client' = client
    BY <1>12 DEF Client, Connect, SayHead, SayRest, Close, Receive, EndOfStream
  <2>2. ASSUME NEW h \in Hellos, Connect(c, h) PROVE LinkInv'
    <3>1. ~link[c].held
      BY <2>2 DEF Connect, LinkInv, Started
    <3>2. \A d \in Conns : /\ link[d]'.held = link[d].held
                           /\ d # c => link[d]' = link[d]
      <4>1. \A d \in Conns \ {c} : link[d]' = link[d]
        BY <2>2 DEF Connect, TypeOK
      <4> DEFINE b == pc # "left"
                 p == IF pc = "left" THEN "closed" ELSE "hello"
      <4>2. link[c]' = [link[c] EXCEPT !.hello = h, !.backlog = b, !.phase = p]
        BY <2>2 DEF Connect, TypeOK
      <4>3. link[c] \in Links
        BY LinkTyped
      <4> HIDE DEF b, p
      <4>4. /\ link[c]'.held = link[c].held
            /\ link[c]'.exit = link[c].exit /\ link[c]'.down = link[c].down
        BY <4>2, <4>3, ConnectFields
      <4> QED BY <4>1, <4>4
    <3> QED BY <2>1, <3>1, <3>2 DEF LinkInv, OneAttached, Started
  <2>3. ASSUME NEW kind \in Kinds, SayHead(c, kind) PROVE LinkInv'
    <3>1. \A d \in Conns : /\ link[d]'.held = link[d].held /\ link[d]'.hello = link[d].hello
                           /\ link[d]'.phase = link[d].phase
      BY <2>3, LinkTyped DEF SayHead, TypeOK, Links
    <3> QED BY <1>2, <2>1, <3>1 DEF LinkInv, Started
  <2>4. CASE SayRest(c) \/ Close(c) \/ Receive(c) \/ EndOfStream(c)
    <3>1. \A d \in Conns : /\ link[d]'.held = link[d].held /\ link[d]'.hello = link[d].hello
                           /\ link[d]'.phase \in {link[d].phase, "closed"}
      <4>1. CASE SayRest(c)
        <5>1. \A d \in Conns \ {c} : link[d]' = link[d]
          BY <4>1 DEF SayRest, TypeOK
        <5> DEFINE f == [by |-> c, n |-> link[c].said, kind |-> link[c].saying]
                   s == IF link[c].held THEN Append(link[c].up, f) ELSE link[c].up
        <5>2. link[c]' = [link[c] EXCEPT !.saying = "nothing", !.up = s]
          BY <4>1 DEF SayRest, TypeOK
        <5>3. link[c] \in Links
          BY LinkTyped
        <5> HIDE DEF s
        <5>4. /\ link[c]'.held = link[c].held /\ link[c]'.hello = link[c].hello
              /\ link[c]'.phase = link[c].phase
          BY <5>2, <5>3, SayRestFields
        <5> QED BY <5>1, <5>4
      <4>2. CASE Close(c)
        <5>1. \A d \in Conns \ {c} : link[d]' = link[d]
          BY <4>2 DEF Close, TypeOK
        <5>2. link[c]' = [link[c] EXCEPT !.phase = "closed", !.down = <<>>]
          BY <4>2 DEF Close, TypeOK
        <5>3. link[c] \in Links
          BY LinkTyped
        <5>4. /\ link[c]'.held = link[c].held /\ link[c]'.hello = link[c].hello
              /\ link[c]'.phase = "closed"
          BY <5>2, <5>3, CloseFields
        <5> QED BY <5>1, <5>4
      <4>3. CASE Receive(c)
        <5>1. \A d \in Conns \ {c} : link[d]' = link[d]
          BY <4>3 DEF Receive, TypeOK
        <5>2. PICK e : link[c]' = [link[c] EXCEPT !.down = Tail(@),
                                     !.got = Append(@, Head(link[c].down).out), !.exit = e]
          BY <4>3 DEF Receive, TypeOK
        <5>3. link[c] \in Links
          BY LinkTyped
        <5>4. /\ link[c]'.held = link[c].held /\ link[c]'.hello = link[c].hello
              /\ link[c]'.phase = link[c].phase
          BY <5>2, <5>3, ReadFields
        <5> QED BY <5>1, <5>4
      <4>4. CASE EndOfStream(c)
        <5>1. \A d \in Conns \ {c} : link[d]' = link[d]
          BY <4>4 DEF EndOfStream, TypeOK
        <5>2. link[c]' = [link[c] EXCEPT !.exit = "gone"]
          BY <4>4 DEF EndOfStream, TypeOK
        <5>3. link[c] \in Links
          BY LinkTyped
        <5>4. /\ link[c]'.held = link[c].held /\ link[c]'.hello = link[c].hello
              /\ link[c]'.phase = link[c].phase
          BY <5>2, <5>3, EndOfStreamFields
        <5> QED BY <5>1, <5>4
      <4> QED BY <2>4, <4>1, <4>2, <4>3, <4>4
    <3> QED BY <1>2, <2>1, <3>1 DEF LinkInv, Started
  <2> QED BY <1>12, <2>2, <2>3, <2>4 DEF Client
<1>13. CASE Emit \/ ShellExits \/ PtyReader \/ PollLinger \/ AcceptNone \/ ReadNobody \/ Linger
  BY <1>1, <1>13 DEF Emit, ShellExits, PtyReader, PollLinger, AcceptNone, ReadNobody, Linger
<1>14. CASE UNCHANGED vars
  BY <1>1, <1>14 DEF vars
<1> QED
  BY <1>6, <1>7, <1>8, <1>9, <1>10, <1>11, <1>12, <1>13, <1>14 DEF Next, Holder
-----------------------------------------------------------------------------
(* An exit code is heard only of a shell that has ended.                   *)
LEMMA ExitSent ==
  ASSUME TypeOK, ExitInv, NEW c \in Conns, NEW f \in Frames, f.tag = "x" => exited',
         link' = Sent(c, f), exited => exited', exited' => shell' # "running"
  PROVE  ExitInv'
<1>1. \A d \in Conns : link[d]'.exit = link[d].exit
  BY LinkTyped DEF Sent, TypeOK, Links
<1>2. \A d \in Conns : \/ link[d]'.down = link[d].down
                       \/ link[d]'.down = Append(link[d].down, f)
  BY LinkTyped DEF Sent, TypeOK, Links
<1>3. \A d \in Conns : \A i \in DOMAIN link[d]'.down :
        link[d]'.down[i] = f \/ (i \in DOMAIN link[d].down /\ link[d]'.down[i] = link[d].down[i])
  <2>1. SUFFICES ASSUME NEW d \in Conns, link[d]'.down = Append(link[d].down, f),
                        NEW i \in DOMAIN link[d]'.down
                 PROVE  link[d]'.down[i] = f \/ (i \in DOMAIN link[d].down
                                                    /\ link[d]'.down[i] = link[d].down[i])
    BY <1>2
  <2> DEFINE s == link[d].down
  <2>2. s \in Seq(Frames)
    BY LinkTyped
  <2>3. \A j \in DOMAIN Append(s, f) :
          Append(s, f)[j] = f \/ (j \in DOMAIN s /\ Append(s, f)[j] = s[j])
    <3> HIDE DEF s
    <3> QED BY <2>2
  <2> QED BY <2>1, <2>3
<1> QED
  BY <1>1, <1>3 DEF ExitInv, ExitSeen, ExitTold

LEMMA ExitStep ==
  ASSUME TypeOK, ExitInv, [Next]_vars PROVE ExitInv'
<1> USE DEF ptyVars, holderVars
<1>1. ASSUME exited' = exited, shell = "running" \/ shell' # "running",
             \A c \in Conns : link[c]'.exit = link[c].exit /\ link[c]'.down = link[c].down
      PROVE  ExitInv'
  BY <1>1 DEF ExitInv, ExitSeen, ExitTold
<1>2. CASE Emit \/ ShellExits \/ PtyReader \/ PollLinger \/ AcceptNone \/ ReadNobody \/ Linger
  BY <1>1, <1>2 DEF Emit, ShellExits, PtyReader, PollLinger, AcceptNone, ReadNobody, Linger
<1>3. CASE UNCHANGED vars
  BY <1>1, <1>3 DEF vars
<1>4. CASE Drain
  <2>1. UNCHANGED <<exited, shell>>
    BY <1>4 DEF Drain
  <2>2. CASE link' = link
    BY <1>1, <2>1, <2>2
  <2>3. CASE client \in Conns /\ link' = Hangup(client)
    <3>1. \A c \in Conns : link[c]'.exit = link[c].exit /\ link[c]'.down = link[c].down
      BY <2>3, LinkTyped DEF Hangup, TypeOK, Links
    <3> QED BY <1>1, <2>1, <3>1
  <2>4. ASSUME client \in Conns, NEW out \in SUBSET Outputs,
               link' = Sent(client, [tag |-> "o", out |-> out])
        PROVE  ExitInv'
    <3> DEFINE f == [tag |-> "o", out |-> out]
    <3>1. f \in Frames /\ f.tag # "x"
      BY DEF Frames
    <3> HIDE DEF f
    <3> QED BY <2>1, <2>4, <3>1, ExitSent DEF f, ExitInv, ExitSeen
  <2>5. taken + 1 .. taken + Takeable \in SUBSET Outputs
    BY TakeableBound, Bounds DEF TypeOK, Outputs
  <2> QED BY <1>4, <2>2, <2>3, <2>4, <2>5 DEF Drain, TypeOK
<1>5. CASE PollExit
  <2>1. exited' = (shell # "running") /\ ~exited /\ shell' = shell
    BY <1>5 DEF PollExit
  <2>2. CASE link' = link
    BY <2>1, <2>2 DEF ExitInv, ExitSeen, ExitTold
  <2>3. CASE client \in Conns /\ shell # "running" /\ link' = Sent(client, ExitFrame)
    <3>1. ExitFrame \in Frames
      BY DEF ExitFrame, Frames
    <3> QED BY <2>1, <2>3, <3>1, ExitSent
  <2> QED BY <1>5, <2>2, <2>3 DEF PollExit, TypeOK
<1>6. CASE Leave \/ Crash
  <2>1. /\ exited' = exited /\ (shell = "running" \/ shell' = shell)
        /\ \A c \in Conns : link[c]' = Ended(c)
    BY <1>6 DEF Leave, Crash
  <2>2. \A c \in Conns : link[c]'.exit = link[c].exit /\ link[c]'.down = link[c].down
    BY <2>1, EndedFields
  <2>3. exited => shell' # "running"
    BY <2>1 DEF ExitInv, ExitSeen
  <2> QED BY <2>1, <2>2, <2>3 DEF ExitInv, ExitSeen, ExitTold
<1>7. ASSUME NEW c \in Conns, Attach(c) PROVE ExitInv'
  <2>1. /\ UNCHANGED <<exited, shell>> /\ link[c]' = Greeted(c)
        /\ \A d \in Conns \ {c} : link[d]' = Displaced(d) \/ link[d]' = link[d]
    BY <1>7 DEF Attach, Welcome
  <2>2. \A d \in Conns \ {c} : link[d]'.exit = link[d].exit /\ link[d]'.down = link[d].down
    BY <2>1, LinkTyped DEF Displaced, Links
  <2>3. /\ link[c]'.exit = link[c].exit
        /\ link[c]'.down = link[c].down \/ link[c]'.down = <<[tag |-> "h", out |-> ring]>>
    BY <2>1, LinkTyped DEF Greeted, Links
  <2>4. \A i \in DOMAIN link[c]'.down : link[c]'.down[i].tag = "x" => exited
    BY <2>3 DEF ExitInv, ExitSeen
  <2> QED BY <2>1, <2>2, <2>3, <2>4 DEF ExitInv, ExitSeen, ExitTold
<1>8. ASSUME NEW c \in Conns, TurnAway(c) PROVE ExitInv'
  <2>1. \A d \in Conns : link[d]'.exit = link[d].exit /\ link[d]'.down = link[d].down
    BY <1>8, TurnAwayFields
  <2> QED BY <1>1, <1>8, <2>1 DEF TurnAway
<1>9. CASE ReadClient
  <2>1. /\ exited' = exited /\ (shell = "running" \/ shell' = shell) /\ client \in Conns
        /\ link' = [link EXCEPT ![client].up = <<>>, ![client].held = ~(link[client].phase = "closed")]
    BY <1>9 DEF ReadClient, TypeOK
  <2>2. \A d \in Conns : link[d]'.exit = link[d].exit /\ link[d]'.down = link[d].down
    BY <2>1, LinkTyped DEF TypeOK, Links
  <2>3. exited => shell' # "running"
    BY <2>1 DEF ExitInv, ExitSeen
  <2> QED BY <2>1, <2>2, <2>3 DEF ExitInv, ExitSeen, ExitTold
<1>10. ASSUME NEW c \in Conns, Client(c) PROVE ExitInv'
  <2>1. UNCHANGED <<exited, shell>>
    BY <1>10 DEF Client, Connect, SayHead, SayRest, Close, Receive, EndOfStream
  <2>2. ASSUME NEW h \in Hellos, Connect(c, h) PROVE ExitInv'
    <3>1. \A d \in Conns : link[d]'.exit = link[d].exit /\ link[d]'.down = link[d].down
      <4>1. \A d \in Conns \ {c} : link[d]' = link[d]
        BY <2>2 DEF Connect, TypeOK
      <4> DEFINE b == pc # "left"
                 p == IF pc = "left" THEN "closed" ELSE "hello"
      <4>2. link[c]' = [link[c] EXCEPT !.hello = h, !.backlog = b, !.phase = p]
        BY <2>2 DEF Connect, TypeOK
      <4>3. link[c] \in Links
        BY LinkTyped
      <4> HIDE DEF b, p
      <4>4. /\ link[c]'.held = link[c].held
            /\ link[c]'.exit = link[c].exit /\ link[c]'.down = link[c].down
        BY <4>2, <4>3, ConnectFields
      <4> QED BY <4>1, <4>4
    <3> QED BY <1>1, <2>1, <3>1
  <2>3. ASSUME NEW kind \in Kinds, SayHead(c, kind) PROVE ExitInv'
    <3>1. \A d \in Conns : link[d]'.exit = link[d].exit /\ link[d]'.down = link[d].down
      BY <2>3, LinkTyped DEF SayHead, TypeOK, Links
    <3> QED BY <1>1, <2>1, <3>1
  <2>4. CASE SayRest(c)
    <3>1. \A d \in Conns : link[d]'.exit = link[d].exit /\ link[d]'.down = link[d].down
      <4>1. \A d \in Conns \ {c} : link[d]' = link[d]
        BY <2>4 DEF SayRest, TypeOK
      <4> DEFINE f == [by |-> c, n |-> link[c].said, kind |-> link[c].saying]
                 s == IF link[c].held THEN Append(link[c].up, f) ELSE link[c].up
      <4>2. link[c]' = [link[c] EXCEPT !.saying = "nothing", !.up = s]
        BY <2>4 DEF SayRest, TypeOK
      <4>3. link[c] \in Links
        BY LinkTyped
      <4> HIDE DEF s
      <4>4. link[c]'.exit = link[c].exit /\ link[c]'.down = link[c].down
        BY <4>2, <4>3, SayRestFields
      <4> QED BY <4>1, <4>4
    <3> QED BY <1>1, <2>1, <3>1
  <2>5. CASE Close(c)
    <3>1. \A d \in Conns : /\ link[d]'.exit = link[d].exit
                           /\ link[d]'.down = link[d].down \/ link[d]'.down = <<>>
      BY <2>5, LinkTyped DEF Close, TypeOK, Links
    <3> QED BY <2>1, <3>1 DEF ExitInv, ExitSeen, ExitTold
  <2>6. CASE EndOfStream(c)
    <3>1. \A d \in Conns : /\ link[d]'.exit \in {link[d].exit, "gone"}
                           /\ link[d]'.down = link[d].down
      BY <2>6, LinkTyped DEF EndOfStream, TypeOK, Links
    <3> QED BY <2>1, <3>1 DEF ExitInv, ExitSeen, ExitTold
  <2>7. CASE Receive(c)
    <3>1. /\ link[c].down # <<>> /\ link[c].down \in Seq(Frames)
          /\ link[c]'.down = Tail(link[c].down)
          /\ link[c]'.exit = IF Head(link[c].down).tag = "x" THEN "code" ELSE link[c].exit
          /\ \A d \in Conns \ {c} : link[d]' = link[d]
      BY <2>7, LinkTyped DEF Receive, TypeOK, Links
    <3>2. /\ 1 \in DOMAIN link[c].down /\ Head(link[c].down) = link[c].down[1]
          /\ \A i \in DOMAIN link[c]'.down :
               i + 1 \in DOMAIN link[c].down /\ link[c]'.down[i] = link[c].down[i + 1]
      BY <3>1
    <3>3. /\ link[c]'.exit = "code" => exited
          /\ \A i \in DOMAIN link[c]'.down : link[c]'.down[i].tag = "x" => exited
      BY <3>1, <3>2 DEF ExitInv, ExitSeen, ExitTold
    <3> QED BY <2>1, <3>1, <3>3 DEF ExitInv, ExitSeen, ExitTold
  <2> QED BY <1>10, <2>2, <2>3, <2>4, <2>5, <2>6, <2>7 DEF Client
<1> QED
  BY <1>2, <1>3, <1>4, <1>5, <1>6, <1>7, <1>8, <1>9, <1>10 DEF Next, Holder

(* The file is removed by the holder as it leaves, or by a probe that was  *)
(* refused, which takes a holder that has left.                            *)
LEMMA FileStep ==
  ASSUME FileKept, [Next]_vars PROVE FileKept'
<1> USE DEF ptyVars, holderVars, FileKept
<1>1. CASE Leave \/ Crash
  BY <1>1 DEF Leave, Crash
<1>2. ASSUME NEW c \in Conns, Client(c) PROVE FileKept'
  BY <1>2 DEF Client, Connect, Stale, SayHead, SayRest, Close, Receive, EndOfStream
<1>3. CASE Drain \/ PollExit \/ PollLinger \/ AcceptNone \/ ReadNobody \/ ReadClient
  BY <1>3 DEF Drain, PollExit, PollLinger, AcceptNone, ReadNobody, ReadClient
<1>4. ASSUME NEW c \in Conns, Attach(c) \/ TurnAway(c) PROVE FileKept'
  BY <1>4 DEF Attach, Welcome, TurnAway
<1>5. CASE Emit \/ ShellExits \/ PtyReader \/ Linger \/ UNCHANGED vars
  BY <1>5 DEF Emit, ShellExits, PtyReader, Linger, vars
<1> QED
  BY <1>1, <1>2, <1>3, <1>4, <1>5 DEF Next, Holder
-----------------------------------------------------------------------------
LEMMA Initial == Init => IInv
<1> SUFFICES ASSUME Init PROVE AskInv /\ LinkInv /\ ExitInv /\ FileKept
  BY InitTyped DEF IInv
<1>1. \A c \in Conns : link[c] = Idle
  BY DEF Init
<1>2. \A x : x \notin Seen(Idle)
  <2>1. DOMAIN Idle.got = {} /\ DOMAIN Idle.down = {}
    BY DEF Idle
  <2> QED BY <2>1, InSeen
<1>3. AskInv
  BY <1>1, <1>2 DEF Init, AskInv, Fresh, NoAskKept, AskedOnce, Saw
<1>4. LinkInv
  BY <1>1 DEF Init, Idle, LinkInv, OneAttached, Started
<1>5. ExitInv
  BY <1>1 DEF Init, Idle, ExitInv, ExitSeen, ExitTold
<1> QED
  BY <1>3, <1>4, <1>5 DEF Init, FileKept

(* The strengthened invariant, for every step.                             *)
THEOREM Inductive == Spec => []IInv
<1>1. IInv /\ [Next]_vars => IInv'
  BY TypeStep, AskStep, LinkStep, ExitStep, FileStep DEF IInv
<1> QED
  BY <1>1, Initial, PTL DEF Spec

(* At most one connection is open at the holder's end, and a probe never   *)
(* displaces it.                                                           *)
THEOREM OneAttachedAlways == Spec => []OneAttached
<1>1. IInv => OneAttached
  BY DEF IInv, LinkInv
<1> QED BY <1>1, Inductive, PTL

(* No cursor-position ask is answered twice, whoever attaches when.        *)
THEOREM AskedOnceAlways == Spec => []AskedOnce
<1>1. IInv => AskedOnce
  BY DEF IInv, AskInv
<1> QED BY <1>1, Inductive, PTL

(* A window is told an exit code only of a shell that has ended.           *)
THEOREM ExitToldAlways == Spec => []ExitTold
<1>1. IInv => ExitTold
  BY DEF IInv, ExitInv
<1> QED BY <1>1, Inductive, PTL

(* A living holder's file is in the directory.                             *)
THEOREM FileKeptAlways == Spec => []FileKept
<1>1. IInv => FileKept
  BY DEF IInv
<1> QED BY <1>1, Inductive, PTL
-----------------------------------------------------------------------------
(* What each step does to a connection, field by field: what it shows, and *)
(* what it has said.                                                       *)
ShowsSame(l, m) == m.got = l.got /\ m.down = l.down
SaysSame(l, m)  == m.up = l.up /\ m.said = l.said /\ m.saying = l.saying
Still(l, m)     == ShowsSame(l, m) /\ SaysSame(l, m)

LEMMA HangupIs ==
  ASSUME TypeOK, NEW c \in Conns, link' = Hangup(c)
  PROVE  \A d \in Conns : /\ Still(link[d], link'[d]) /\ link'[d].phase = link[d].phase
                          /\ link'[d].backlog = link[d].backlog
                          /\ (link'[d].held => link[d].held)
<1> SUFFICES ASSUME NEW d \in Conns
             PROVE  /\ Still(link[d], link'[d]) /\ link'[d].phase = link[d].phase
                    /\ link'[d].backlog = link[d].backlog
                    /\ (link'[d].held => link[d].held)
  OBVIOUS
<1>1. link'[d] = IF d = c THEN [link[d] EXCEPT !.held = FALSE] ELSE link[d]
  BY DEF Hangup, TypeOK
<1>2. link[d] \in Links
  BY LinkTyped
<1> QED BY <1>1, <1>2 DEF Links, Still, ShowsSame, SaysSame

LEMMA SentIs ==
  ASSUME TypeOK, NEW c \in Conns, NEW f \in Frames, link' = Sent(c, f)
  PROVE  \A d \in Conns :
           /\ SaysSame(link[d], link'[d]) /\ link'[d].phase = link[d].phase
           /\ link'[d].backlog = link[d].backlog /\ link'[d].held = link[d].held
           /\ link'[d].got = link[d].got
           /\ link'[d].down = IF d = c /\ link[c].phase # "closed"
                              THEN Append(link[d].down, f) ELSE link[d].down
<1>1. CASE link[c].phase = "closed"
  BY <1>1 DEF Sent, SaysSame
<1>2. CASE link[c].phase # "closed"
  <2> SUFFICES ASSUME NEW d \in Conns
               PROVE  /\ SaysSame(link[d], link'[d]) /\ link'[d].phase = link[d].phase
                      /\ link'[d].backlog = link[d].backlog /\ link'[d].held = link[d].held
                      /\ link'[d].got = link[d].got
                      /\ link'[d].down = IF d = c THEN Append(link[d].down, f)
                                         ELSE link[d].down
    BY <1>2
  <2> DEFINE w == Append(link[d].down, f)
  <2>1. link'[d] = IF d = c THEN [link[d] EXCEPT !.down = w] ELSE link[d]
    BY <1>2 DEF Sent, TypeOK
  <2>2. link[d] \in Links
    BY LinkTyped
  <2> HIDE DEF w
  <2>3. /\ SaysSame(link[d], link'[d]) /\ link'[d].phase = link[d].phase
        /\ link'[d].backlog = link[d].backlog /\ link'[d].held = link[d].held
        /\ link'[d].got = link[d].got
        /\ link'[d].down = IF d = c THEN w ELSE link[d].down
    BY <2>1, <2>2 DEF Links, SaysSame
  <2> QED BY <2>3 DEF w
<1> QED BY <1>1, <1>2

LEMMA EndedIs ==
  ASSUME TypeOK, NEW c \in Conns
  PROVE  /\ Still(link[c], Ended(c)) /\ ~Ended(c).held /\ ~Ended(c).backlog
         /\ Ended(c).phase = IF link[c].phase = "hello" THEN "closed" ELSE link[c].phase
<1> DEFINE p == IF link[c].phase = "hello" THEN "closed" ELSE link[c].phase
           m == [link[c] EXCEPT !.held = FALSE, !.backlog = FALSE, !.phase = p]
<1>1. Still(link[c], m) /\ ~m.held /\ ~m.backlog /\ m.phase = p
  <2> HIDE DEF p
  <2> QED BY LinkTyped DEF Links, Still, ShowsSame, SaysSame
<1> QED
  BY <1>1 DEF Ended

LEMMA GreetedIs ==
  ASSUME TypeOK, NEW c \in Conns
  PROVE  LET l == link[c]
             m == Greeted(c)
         IN  /\ SaysSame(l, m) /\ m.held /\ ~m.backlog /\ m.got = l.got
             /\ l.phase = "closed" => m.phase = "closed" /\ m.down = l.down
             /\ l.phase # "closed" =>
                  m.phase = "live" /\ m.down = <<[tag |-> "h", out |-> ring]>>
<1>1. link[c] \in Links
  BY LinkTyped
<1>2. CASE link[c].phase = "closed"
  BY <1>1, <1>2 DEF Greeted, Links, SaysSame
<1>3. CASE link[c].phase # "closed"
  BY <1>1, <1>3 DEF Greeted, Links, SaysSame
<1> QED BY <1>2, <1>3

LEMMA DisplacedIs ==
  ASSUME TypeOK, NEW d \in Conns
  PROVE  LET m == Displaced(d)
         IN  Still(link[d], m) /\ m.phase = link[d].phase /\ m.backlog = link[d].backlog /\ ~m.held
BY LinkTyped DEF Displaced, Links, Still, ShowsSame, SaysSame

LEMMA TurnAwayIs ==
  ASSUME TypeOK, NEW c \in Conns, TurnAway(c)
  PROVE  /\ Still(link[c], link'[c]) /\ ~link'[c].backlog
         /\ link'[c].phase = "closed" \/ (link'[c].phase = "live" /\ link[c].phase = "hello")
         /\ link'[c].held = link[c].held
         /\ \A d \in Conns \ {c} : link'[d] = link[d]
BY TurnAwayFields DEF Still, ShowsSame, SaysSame

LEMMA ReadIs ==
  ASSUME TypeOK, ReadClient
  PROVE  /\ client \in Conns /\ ShowsSame(link[client], link'[client])
         /\ link'[client].up = <<>> /\ link'[client].said = link[client].said
         /\ link'[client].saying = link[client].saying
         /\ link'[client].phase = link[client].phase
         /\ link'[client].backlog = link[client].backlog
         /\ \A d \in Conns \ {client} : link'[d] = link[d]
<1> DEFINE h == ~(link[client].phase = "closed")
<1>1. client \in Conns /\ link' = [link EXCEPT ![client].up = <<>>, ![client].held = h]
  BY DEF ReadClient, TypeOK
<1> HIDE DEF h
<1> QED BY <1>1, LinkTyped DEF TypeOK, Links, ShowsSame

LEMMA ConnectIs ==
  ASSUME TypeOK, NEW c \in Conns, NEW h \in Hellos, Connect(c, h)
  PROVE  /\ Still(link[c], link'[c]) /\ link[c].phase = "idle"
         /\ link'[c].phase \in {"closed", "hello"} /\ link'[c].held = link[c].held
         /\ \A d \in Conns \ {c} : link'[d] = link[d]
<1> DEFINE b == pc # "left"
           p == IF pc = "left" THEN "closed" ELSE "hello"
           m == [link[c] EXCEPT !.hello = h, !.backlog = b, !.phase = p]
<1>1. Still(link[c], m) /\ m.phase = p /\ m.held = link[c].held
  <2> HIDE DEF b, p
  <2> QED BY LinkTyped DEF Links, Still, ShowsSame, SaysSame
<1>2. link'[c] = m /\ (\A d \in Conns \ {c} : link'[d] = link[d]) /\ link[c].phase = "idle"
  BY DEF Connect, TypeOK
<1> HIDE DEF m
<1> QED BY <1>1, <1>2

LEMMA SayHeadIs ==
  ASSUME TypeOK, NEW c \in Conns, NEW kind \in Kinds, SayHead(c, kind)
  PROVE  /\ ShowsSame(link[c], link'[c]) /\ link[c].phase = "live" /\ link[c].saying = "nothing"
         /\ link'[c].phase = "live" /\ link'[c].backlog = link[c].backlog
         /\ link'[c].held = link[c].held /\ link'[c].up = link[c].up
         /\ link'[c].said = link[c].said + 1 /\ link'[c].saying = kind
         /\ \A d \in Conns \ {c} : link'[d] = link[d]
BY LinkTyped DEF SayHead, TypeOK, Links, ShowsSame

LEMMA SayRestIs ==
  ASSUME TypeOK, NEW c \in Conns, SayRest(c)
  PROVE  /\ ShowsSame(link[c], link'[c]) /\ link[c].phase = "live" /\ link[c].saying # "nothing"
         /\ link'[c].phase = "live" /\ link'[c].backlog = link[c].backlog
         /\ link'[c].held = link[c].held
         /\ link'[c].said = link[c].said /\ link'[c].saying = "nothing"
         /\ link'[c].up = IF link[c].held
                          THEN Append(link[c].up, [by |-> c, n |-> link[c].said,
                                                   kind |-> link[c].saying])
                          ELSE link[c].up
         /\ \A d \in Conns \ {c} : link'[d] = link[d]
<1> DEFINE f == [by |-> c, n |-> link[c].said, kind |-> link[c].saying]
           s == IF link[c].held THEN Append(link[c].up, f) ELSE link[c].up
           m == [link[c] EXCEPT !.saying = "nothing", !.up = s]
<1>1. /\ ShowsSame(link[c], m) /\ m.phase = link[c].phase /\ m.backlog = link[c].backlog
      /\ m.held = link[c].held /\ m.said = link[c].said /\ m.saying = "nothing" /\ m.up = s
  <2> HIDE DEF s
  <2> QED BY LinkTyped DEF Links, ShowsSame
<1>2. /\ link'[c] = m /\ \A d \in Conns \ {c} : link'[d] = link[d]
      /\ link[c].phase = "live" /\ link[c].saying # "nothing"
  BY DEF SayRest, TypeOK
<1> HIDE DEF m
<1> QED BY <1>1, <1>2

LEMMA CloseIs ==
  ASSUME TypeOK, NEW c \in Conns, Close(c)
  PROVE  /\ SaysSame(link[c], link'[c]) /\ link'[c].got = link[c].got /\ link'[c].down = <<>>
         /\ link'[c].phase = "closed" /\ link'[c].held = link[c].held
         /\ \A d \in Conns \ {c} : link'[d] = link[d]
BY LinkTyped DEF Close, TypeOK, Links, SaysSame

LEMMA ReceiveIs ==
  ASSUME TypeOK, NEW c \in Conns, Receive(c)
  PROVE  /\ SaysSame(link[c], link'[c]) /\ link[c].phase = "live" /\ link'[c].phase = "live"
         /\ link'[c].backlog = link[c].backlog /\ link'[c].held = link[c].held
         /\ link[c].down # <<>> /\ link'[c].down = Tail(link[c].down)
         /\ link'[c].got = Append(link[c].got, Head(link[c].down).out)
         /\ \A d \in Conns \ {c} : link'[d] = link[d]
<1>1. PICK e : link'[c] = [link[c] EXCEPT !.down = Tail(@),
                             !.got = Append(@, Head(link[c].down).out), !.exit = e]
  BY DEF Receive, TypeOK
<1>2. /\ link[c].phase = "live" /\ link[c].down # <<>>
      /\ \A d \in Conns \ {c} : link'[d] = link[d]
  BY DEF Receive, Reading, TypeOK
<1> QED BY <1>1, <1>2, LinkTyped DEF Links, SaysSame

LEMMA EndOfStreamIs ==
  ASSUME TypeOK, NEW c \in Conns, EndOfStream(c)
  PROVE  /\ Still(link[c], link'[c]) /\ link'[c].phase = link[c].phase
         /\ link'[c].backlog = link[c].backlog /\ link'[c].held = link[c].held
         /\ \A d \in Conns \ {c} : link'[d] = link[d]
BY LinkTyped DEF EndOfStream, TypeOK, Links, Still, ShowsSame, SaysSame
-----------------------------------------------------------------------------
(* The ring holds the newest of the outputs not stripped, exactly.  Below, *)
(* s is what has been stripped.                                            *)
Since(n, t, s) == (n + 1 .. t) \ s
Newest(t, s)   == {n \in (1 .. t) \ s : Cardinality(Since(n, t, s)) < RingCap}
RingIs      == ring = Newest(taken, stripped)

LEMMA SinceLess ==
  ASSUME NEW s, NEW m \in Nat, NEW n \in Nat, NEW t \in Nat, NEW u \in Nat, n <= m, t <= u
  PROVE  /\ IsFiniteSet(Since(n, u, s)) /\ Cardinality(Since(m, t, s)) \in Nat
         /\ Cardinality(Since(n, u, s)) \in Nat
         /\ Cardinality(Since(m, t, s)) <= Cardinality(Since(n, u, s))
<1>1. IsFiniteSet(Since(n, u, s))
  <2>1. IsFiniteSet(n + 1 .. u)
    BY FS_Interval
  <2> QED BY <2>1, FS_Difference DEF Since
<1>2. Since(m, t, s) \in SUBSET Since(n, u, s)
  BY DEF Since
<1> QED
  BY <1>1, <1>2, FS_Subset, FS_CardinalityType

LEMMA RetainNewest ==
  ASSUME NEW t \in Nat, NEW u \in Nat, t <= u, NEW s
  PROVE  Retain(Newest(t, s) \cup ((t + 1 .. u) \ s)) = Newest(u, s)
<1> DEFINE out == Newest(t, s) \cup ((t + 1 .. u) \ s)
           above(n) == {m \in out : m > n}
<1>1. \A n \in out : n \in (1 .. u) \ s /\ n \in Nat
  BY DEF Newest
<1>2. ASSUME NEW n \in out PROVE above(n) = Since(n, u, s)
  <2>1. ASSUME NEW m \in Since(n, u, s) PROVE m \in out
    <3>1. m \in Nat /\ m \notin s /\ n < m /\ m <= u /\ n \in Nat
      BY <1>1, <2>1 DEF Since
    <3>2. CASE m > t
      BY <3>1, <3>2
    <3>3. CASE m <= t
      <4>1. n \in Newest(t, s)
        BY <3>1, <3>3
      <4>2. Cardinality(Since(n, t, s)) < RingCap
        BY <4>1 DEF Newest
      <4>3. /\ Cardinality(Since(m, t, s)) <= Cardinality(Since(n, t, s))
            /\ Cardinality(Since(m, t, s)) \in Nat /\ Cardinality(Since(n, t, s)) \in Nat
        <5>1. m \in Nat /\ n \in Nat /\ n <= m /\ t <= t
          BY <3>1
        <5> QED BY <5>1, SinceLess
      <4>4. Cardinality(Since(m, t, s)) < RingCap
        BY <4>2, <4>3, Bounds
      <4> QED BY <3>1, <3>3, <4>1, <4>4 DEF Newest
    <3> QED BY <3>1, <3>2, <3>3
  <2>2. ASSUME NEW m \in out, m > n PROVE m \in Since(n, u, s)
    BY <1>1, <2>2 DEF Since
  <2>3. \A m \in Since(n, u, s) : m > n
    BY <1>1 DEF Since
  <2> HIDE DEF out
  <2> QED BY <2>1, <2>2, <2>3
<1>3. ASSUME NEW n \in Newest(u, s) PROVE n \in out
  <2>1. n \in Nat /\ n >= 1 /\ n <= u /\ n \notin s /\ Cardinality(Since(n, u, s)) < RingCap
    BY DEF Newest
  <2>2. CASE n > t
    BY <2>1, <2>2
  <2>3. CASE n <= t
    <3>1. /\ Cardinality(Since(n, t, s)) <= Cardinality(Since(n, u, s))
          /\ Cardinality(Since(n, t, s)) \in Nat /\ Cardinality(Since(n, u, s)) \in Nat
      <4>1. n \in Nat /\ n <= n /\ t <= u
        BY <2>1
      <4> QED BY <4>1, SinceLess
    <3>2. Cardinality(Since(n, t, s)) < RingCap
      BY <2>1, <3>1, Bounds
    <3> QED BY <2>1, <2>3, <3>2 DEF Newest
  <2> QED BY <2>1, <2>2, <2>3
<1>4. Retain(out) = {n \in out : Cardinality(above(n)) < RingCap}
  BY DEF Retain
<1>5. \A n : n \in Retain(out) <=> n \in Newest(u, s)
  <2> SUFFICES ASSUME NEW n PROVE n \in Retain(out) <=> n \in Newest(u, s)
    OBVIOUS
  <2>1. CASE n \in out
    <3>1. n \in (1 .. u) \ s /\ above(n) = Since(n, u, s)
      BY <1>1, <1>2, <2>1
    <3>2. n \in Retain(out) <=> Cardinality(above(n)) < RingCap
      BY <1>4, <2>1
    <3>3. n \in Newest(u, s) <=> Cardinality(Since(n, u, s)) < RingCap
      BY <3>1 DEF Newest
    <3> QED BY <3>1, <3>2, <3>3
  <2>2. CASE n \notin out
    BY <1>3, <1>4, <2>2
  <2> QED BY <2>1, <2>2
<1> QED
  BY <1>5

LEMMA RetainTaken ==
  ASSUME NEW t \in Nat, NEW u \in Nat, t <= u, NEW q \in SUBSET (1 .. t)
  PROVE  Retain(Newest(t, q) \cup Stripped(t + 1 .. u))
           = Newest(u, q \cup Matched(t + 1 .. u))
<1> DEFINE asked == Matched(t + 1 .. u)
           s == q \cup asked
<1>1. asked \subseteq t + 1 .. u /\ Stripped(t + 1 .. u) = (t + 1 .. u) \ asked
  BY StrippedSubset DEF Stripped
<1> HIDE DEF asked
<1>2. \A n \in 1 .. t : Since(n, t, s) = Since(n, t, q)
  <2> SUFFICES ASSUME NEW n \in 1 .. t PROVE Since(n, t, s) = Since(n, t, q)
    OBVIOUS
  <2>1. \A y \in asked : y \notin n + 1 .. t
    BY <1>1
  <2> QED BY <2>1 DEF Since
<1>3. (1 .. t) \ s = (1 .. t) \ q /\ (t + 1 .. u) \ s = (t + 1 .. u) \ asked
  BY <1>1
<1> HIDE DEF s
<1>4. Newest(t, q) = Newest(t, s)
  BY <1>2, <1>3 DEF Newest
<1>5. Retain(Newest(t, s) \cup ((t + 1 .. u) \ s)) = Newest(u, s)
  BY RetainNewest
<1>6. Newest(t, q) \cup Stripped(t + 1 .. u) = Newest(t, s) \cup ((t + 1 .. u) \ s)
  BY <1>1, <1>3, <1>4
<1>7. Retain(Newest(t, q) \cup Stripped(t + 1 .. u)) = Newest(u, s)
  BY <1>5, <1>6
<1> QED BY <1>7 DEF s, asked

LEMMA RingStep == ASSUME TypeOK, RingIs, [Next]_vars PROVE RingIs'
<1> USE DEF ptyVars, holderVars
<1>1. CASE UNCHANGED <<taken, ring, stripped>>
  BY <1>1 DEF RingIs
<1>2. CASE Drain
  <2>1. /\ taken \in Nat /\ taken' \in Nat /\ taken <= taken'
        /\ ring' = Retain(ring \cup Stripped(taken + 1 .. taken'))
        /\ stripped' = stripped \cup Matched(taken + 1 .. taken')
        /\ stripped \in SUBSET (1 .. taken)
    BY <1>2, TakeableBound, Bounds DEF Drain, TypeOK
  <2> QED BY <2>1, RetainTaken DEF RingIs
<1>3. ASSUME NEW c \in Conns, Client(c) \/ Attach(c) \/ TurnAway(c)
      PROVE  UNCHANGED <<taken, ring, stripped>>
  BY <1>3 DEF Client, Connect, SayHead, SayRest, Close, Receive, EndOfStream, Attach, Welcome,
              TurnAway
<1>4. CASE Emit \/ ShellExits \/ PtyReader \/ PollExit \/ PollLinger \/ Leave \/ AcceptNone
           \/ ReadNobody \/ ReadClient \/ Linger \/ Crash \/ UNCHANGED vars
  BY <1>1, <1>4 DEF Emit, ShellExits, PtyReader, PollExit, PollLinger, Leave, AcceptNone,
                    ReadNobody, ReadClient, Linger, Crash, vars
<1> QED
  BY <1>1, <1>2, <1>3, <1>4 DEF Next, Holder
-----------------------------------------------------------------------------
(* What a connection has been shown, piece by piece: what it has read, and *)
(* what is on its way.                                                     *)
Pieces(l)   == 1 .. Len(l.got) + Len(l.down)
Piece(l, i) == IF i <= Len(l.got) THEN l.got[i] ELSE l.down[i - Len(l.got)].out

InTurn(l) == \A i, j \in Pieces(l) : i < j =>
               \A m \in Piece(l, i), n \in Piece(l, j) : m < n
Whole(l, s)  == InTurn(l) /\ \A m, n \in Seen(l) : m .. n \subseteq Seen(l) \cup s

LEMMA Lengths ==
  ASSUME NEW l \in Links
  PROVE  /\ Len(l.got) \in Nat /\ DOMAIN l.got = 1 .. Len(l.got)
         /\ Len(l.down) \in Nat /\ DOMAIN l.down = 1 .. Len(l.down)
         /\ l.got \in Seq(SUBSET Outputs) /\ l.down \in Seq(Frames)
BY DEF Links

LEMMA PieceNumber ==
  ASSUME NEW l \in Links
  PROVE  /\ \A i \in Pieces(l) : /\ i \in Nat /\ 1 <= i
                                 /\ i <= Len(l.got) => i \in DOMAIN l.got
                                 /\ ~(i <= Len(l.got)) => i - Len(l.got) \in DOMAIN l.down
         /\ \A i \in DOMAIN l.got : i \in Pieces(l) /\ i <= Len(l.got)
         /\ \A i \in DOMAIN l.down : /\ i + Len(l.got) \in Pieces(l)
                                     /\ ~(i + Len(l.got) <= Len(l.got))
                                     /\ (i + Len(l.got)) - Len(l.got) = i
<1> DEFINE a == Len(l.got)
           b == Len(l.down)
<1>1. /\ a \in Nat /\ DOMAIN l.got = 1 .. a /\ b \in Nat /\ DOMAIN l.down = 1 .. b
      /\ Pieces(l) = 1 .. a + b
  BY Lengths DEF Pieces
<1> HIDE DEF a, b
<1>2. \A i \in Pieces(l) : /\ i \in Nat /\ 1 <= i
                           /\ i <= a => i \in DOMAIN l.got
                           /\ ~(i <= a) => i - a \in DOMAIN l.down
  BY <1>1
<1>3. /\ \A i \in DOMAIN l.got : i \in Pieces(l) /\ i <= a
      /\ \A i \in DOMAIN l.down : i + a \in Pieces(l) /\ ~(i + a <= a) /\ (i + a) - a = i
  BY <1>1
<1> QED BY <1>2, <1>3 DEF a

LEMMA PieceTyped ==
  ASSUME NEW l \in Links, NEW i \in Pieces(l)
  PROVE  Piece(l, i) \subseteq Outputs /\ i \in Nat
<1>1. CASE i <= Len(l.got)
  <2>1. i \in DOMAIN l.got /\ i \in Nat /\ l.got \in Seq(SUBSET Outputs)
    BY <1>1, PieceNumber, Lengths
  <2>2. l.got[i] \in SUBSET Outputs
    BY <2>1
  <2> QED BY <1>1, <2>1, <2>2 DEF Piece
<1>2. CASE ~(i <= Len(l.got))
  <2> DEFINE k == i - Len(l.got)
  <2>1. k \in DOMAIN l.down /\ i \in Nat /\ l.down \in Seq(Frames)
    BY <1>2, PieceNumber, Lengths
  <2> HIDE DEF k
  <2>2. l.down[k] \in Frames
    BY <2>1
  <2>3. l.down[k].out \subseteq Outputs
    BY <2>2 DEF Frames
  <2> QED BY <1>2, <2>1, <2>3 DEF Piece, k
<1> QED BY <1>1, <1>2

LEMMA StreamPieces ==
  ASSUME TypeOK, NEW c \in Conns
  PROVE  /\ DOMAIN Stream(c) = Pieces(link[c])
         /\ \A i \in Pieces(link[c]) : Stream(c)[i] = Piece(link[c], i)
<1> DEFINE g == link[c].got
           d == link[c].down
           o == [i \in DOMAIN d |-> d[i].out]
<1>1. g \in Seq(SUBSET Outputs) /\ d \in Seq(Frames) /\ link[c] \in Links
  BY LinkTyped
<1>2. o \in Seq(SUBSET Outputs) /\ Len(o) = Len(d) /\ \A i \in DOMAIN d : o[i] = d[i].out
  <2>1. \A i \in 1 .. Len(d) : d[i] \in Frames /\ d[i].out \in SUBSET Outputs
    <3>1. \A f \in Frames : f.out \in SUBSET Outputs
      BY DEF Frames
    <3>2. \A i \in 1 .. Len(d) : d[i] \in Frames
      BY <1>1
    <3> QED BY <3>1, <3>2
  <2>2. DOMAIN d = 1 .. Len(d) /\ Len(d) \in Nat
    BY <1>1
  <2>3. o \in [1 .. Len(d) -> SUBSET Outputs]
    BY <2>1, <2>2
  <2> HIDE DEF d
  <2>4. o \in Seq(SUBSET Outputs) /\ Len(o) = Len(d)
    <3> HIDE DEF o
    <3> QED BY <2>2, <2>3
  <2> QED BY <2>4
<1> HIDE DEF o, g, d
<1>3. DOMAIN (g \o o) = 1 .. Len(g) + Len(d)
  <2>1. g \in Seq(SUBSET Outputs) /\ o \in Seq(SUBSET Outputs) /\ Len(o) = Len(d)
    BY <1>1, <1>2
  <2>2. Len(g \o o) = Len(g) + Len(o) /\ DOMAIN (g \o o) = 1 .. Len(g \o o)
    BY <2>1
  <2> QED BY <2>1, <2>2
<1>4. \A i \in 1 .. Len(g) + Len(d) :
        (g \o o)[i] = IF i <= Len(g) THEN g[i] ELSE o[i - Len(g)]
  BY <1>1, <1>2
<1>5. Stream(c) = g \o o
  BY DEF Stream, o, g, d
<1>6. \A i \in Pieces(link[c]) : ~(i <= Len(g)) => i - Len(g) \in DOMAIN d
  BY <1>1, PieceNumber DEF g, d
<1> QED BY <1>2, <1>3, <1>4, <1>5, <1>6 DEF Pieces, Piece, g, d

LEMMA SeenPieces ==
  ASSUME NEW l \in Links, NEW x
  PROVE  x \in Seen(l) <=> \E i \in Pieces(l) : x \in Piece(l, i)
<1>1. ASSUME NEW i \in Pieces(l), x \in Piece(l, i) PROVE x \in Seen(l)
  BY <1>1, PieceNumber, InSeen DEF Piece
<1>2. ASSUME NEW i \in DOMAIN l.got, x \in l.got[i] PROVE \E j \in Pieces(l) : x \in Piece(l, j)
  BY <1>2, PieceNumber DEF Piece
<1>3. ASSUME NEW i \in DOMAIN l.down, x \in l.down[i].out
      PROVE  \E j \in Pieces(l) : x \in Piece(l, j)
  BY <1>3, PieceNumber DEF Piece
<1> QED BY <1>1, <1>2, <1>3, InSeen

LEMMA NoGapIs ==
  TypeOK => (NoGap <=> \A c \in Conns : Whole(link[c], stripped))
<1> SUFFICES ASSUME TypeOK, NEW c \in Conns
             PROVE  /\ (\A i, j \in DOMAIN Stream(c) : i < j =>
                          \A m \in Stream(c)[i], n \in Stream(c)[j] : m < n)
                       <=> InTurn(link[c])
                    /\ (\A m, n \in Saw(c) : m .. n \subseteq Saw(c) \cup stripped)
                       <=> \A m, n \in Seen(link[c]) : m .. n \subseteq Seen(link[c]) \cup stripped
  BY DEF NoGap, Whole
<1>1. (\A i, j \in DOMAIN Stream(c) : i < j =>
         \A m \in Stream(c)[i], n \in Stream(c)[j] : m < n) <=> InTurn(link[c])
  BY StreamPieces DEF InTurn
<1> QED BY <1>1 DEF Saw

LEMMA WholeMore ==
  ASSUME NEW l, NEW s, NEW q, q \subseteq s, NEW t
  PROVE  Whole(l, q) => Whole(l, s)
BY DEF Whole

LEMMA WholeSame ==
  ASSUME NEW s, NEW l, NEW m, ShowsSame(l, m), Whole(l, s)
  PROVE  Whole(m, s) /\ Seen(m) = Seen(l)
BY SeenSame DEF ShowsSame, Whole, InTurn, Pieces, Piece

(* What is read moves from one side to the other, and is the same piece.   *)
LEMMA WholeReceive ==
  ASSUME NEW s, NEW l \in Links, NEW m \in Links, l.down # <<>>, m.down = Tail(l.down),
         m.got = Append(l.got, Head(l.down).out), Whole(l, s)
  PROVE  Whole(m, s) /\ Seen(m) = Seen(l)
<1> DEFINE a == Len(l.got)
           b == Len(l.down)
<1>1. /\ a \in Nat /\ b \in Nat /\ b >= 1 /\ Len(m.got) = a + 1 /\ Len(m.down) = b - 1
      /\ (\A i \in 1 .. a : m.got[i] = l.got[i]) /\ m.got[a + 1] = l.down[1].out
      /\ (\A i \in 1 .. b - 1 : m.down[i] = l.down[i + 1])
  BY Lengths
<1> HIDE DEF a, b
<1>2. Pieces(m) = Pieces(l) /\ Pieces(l) = 1 .. a + b
  <2>1. Pieces(l) = 1 .. a + b /\ Pieces(m) = 1 .. (a + 1) + (b - 1)
    BY <1>1 DEF Pieces, a, b
  <2>2. (a + 1) + (b - 1) = a + b
    BY <1>1
  <2> QED BY <2>1, <2>2
<1>3. ASSUME NEW i \in Pieces(l) PROVE Piece(m, i) = Piece(l, i)
  <2>1. i \in Nat /\ 1 <= i /\ i <= a + b
    BY <1>1, <1>2
  <2>2. CASE i <= a
    <3>1. i <= Len(m.got) /\ i <= Len(l.got) /\ m.got[i] = l.got[i]
      BY <1>1, <2>1, <2>2 DEF a
    <3> QED BY <3>1 DEF Piece
  <2>3. CASE i = a + 1
    <3>1. i <= Len(m.got) /\ ~(i <= Len(l.got)) /\ i - Len(l.got) = 1
      BY <1>1, <2>1, <2>3 DEF a
    <3> QED BY <1>1, <2>3, <3>1 DEF Piece
  <2>4. CASE i > a + 1
    <3>1. /\ ~(i <= Len(m.got)) /\ ~(i <= Len(l.got)) /\ i - Len(m.got) \in 1 .. b - 1
          /\ (i - Len(m.got)) + 1 = i - Len(l.got)
      <4>1. /\ ~(i <= a + 1) /\ ~(i <= a) /\ i - (a + 1) \in 1 .. b - 1
            /\ (i - (a + 1)) + 1 = i - a
        BY <1>1, <2>1, <2>4
      <4>2. Len(m.got) = a + 1 /\ Len(l.got) = a
        BY <1>1 DEF a
      <4> QED BY <4>1, <4>2
    <3> QED BY <1>1, <3>1 DEF Piece
  <2> QED BY <1>1, <2>1, <2>2, <2>3, <2>4
<1>4. \A x : x \in Seen(m) <=> x \in Seen(l)
  BY <1>2, <1>3, SeenPieces
<1>5. Seen(m) = Seen(l)
  BY <1>4
<1>6. InTurn(m)
  BY <1>2, <1>3 DEF Whole, InTurn
<1> QED BY <1>5, <1>6 DEF Whole

(* What is on its way to a client that closes is lost, from the end.       *)
LEMMA WholeClose ==
  ASSUME NEW s, NEW l \in Links, NEW m \in Links, m.down = <<>>, m.got = l.got, Whole(l, s)
  PROVE  Whole(m, s) /\ Seen(m) \subseteq Seen(l)
<1>1. /\ Pieces(m) \subseteq Pieces(l) /\ Pieces(m) = 1 .. Len(l.got) /\ Len(l.got) \in Nat
      /\ Len(l.down) \in Nat /\ Pieces(l) = 1 .. Len(l.got) + Len(l.down)
  <2>1. Len(m.down) = 0 /\ Len(l.got) \in Nat /\ Len(l.down) \in Nat
    BY Lengths
  <2> DEFINE a == Len(l.got)
             b == Len(l.down)
  <2>2. Pieces(m) = 1 .. a + 0 /\ Pieces(l) = 1 .. a + b
    BY <2>1 DEF Pieces
  <2>3. a \in Nat /\ b \in Nat
    BY <2>1
  <2>4. Pieces(m) \subseteq Pieces(l) /\ Pieces(m) = 1 .. a
    <3> HIDE DEF a, b
    <3>1. a + 0 = a
      BY <2>3
    <3> QED BY <2>2, <2>3, <3>1
  <2> QED BY <2>2, <2>3, <2>4
<1>2. \A i \in Pieces(m) : Piece(m, i) = Piece(l, i)
  <2>1. \A i \in Pieces(m) : i <= Len(l.got)
    BY <1>1
  <2> QED BY <2>1 DEF Piece
<1>3. InTurn(m)
  BY <1>1, <1>2 DEF Whole, InTurn
<1>4. \A x : x \in Seen(m) <=> \E i \in Pieces(m) : x \in Piece(l, i)
  BY <1>2, SeenPieces
<1>5. Seen(m) \subseteq Seen(l)
  BY <1>1, <1>4, SeenPieces
<1>6. ASSUME NEW x \in Seen(m), NEW y \in Seen(m), NEW z \in x .. y, z \notin s
      PROVE  z \in Seen(m)
  <2>1. z \in Seen(l)
    BY <1>5, <1>6 DEF Whole
  <2>2. PICK i \in Pieces(m) : y \in Piece(l, i)
    BY <1>4
  <2>3. PICK j \in Pieces(l) : z \in Piece(l, j)
    BY <2>1, SeenPieces
  <2>4. y \in Nat /\ z \in Nat /\ z <= y
    <3>1. y \in Nat
      <4>1. Piece(l, i) \subseteq Outputs
        BY <1>1, <2>2, PieceTyped
      <4> QED BY <2>2, <4>1 DEF Outputs
    <3>2. z \in Nat
      <4>1. Piece(l, j) \subseteq Outputs
        BY <2>3, PieceTyped
      <4> QED BY <2>3, <4>1 DEF Outputs
    <3>3. x \in Nat
      <4>1. \A k \in Pieces(m) : Piece(l, k) \subseteq Outputs
        BY <1>1, PieceTyped
      <4> QED BY <1>4, <4>1 DEF Outputs
    <3> QED BY <3>1, <3>2, <3>3
  <2>5. ~(i < j)
    <3>1. i < j => y < z
      BY <1>1, <2>2, <2>3 DEF Whole, InTurn
    <3> QED BY <2>4, <3>1
  <2>6. j \in Pieces(m)
    BY <1>1, <2>2, <2>3, <2>5
  <2> QED BY <1>4, <2>3, <2>6
<1> QED BY <1>3, <1>5, <1>6 DEF Whole

(* New output goes on where the stretch so far ends.                       *)
UpTo(l, t, s) == \A x \in Seen(l) : x .. t \subseteq Seen(l) \cup s

LEMMA WholeSend ==
  ASSUME NEW s, NEW l \in Links, NEW m \in Links, NEW f \in Frames, NEW t \in Nat, NEW u \in Nat,
         t <= u, f.out = t + 1 .. u, m.got = l.got, m.down = Append(l.down, f),
         Whole(l, s), Seen(l) \subseteq 1 .. t, UpTo(l, t, s)
  PROVE  Whole(m, s) /\ Seen(m) = Seen(l) \cup f.out /\ UpTo(m, u, s)
<1> DEFINE a == Len(l.got)
           b == Len(l.down)
           N == a + b + 1
<1>1. /\ a \in Nat /\ b \in Nat /\ Len(m.got) = a /\ Len(m.down) = b + 1
      /\ (\A i \in 1 .. b : m.down[i] = l.down[i]) /\ m.down[b + 1] = f
  BY Lengths
<1> HIDE DEF a, b
<1>2. Pieces(l) = 1 .. a + b /\ Pieces(m) = 1 .. N
  <2>1. Pieces(l) = 1 .. a + b /\ Pieces(m) = 1 .. a + (b + 1)
    BY <1>1 DEF Pieces, a, b
  <2>2. a + (b + 1) = N
    BY <1>1
  <2> QED BY <2>1, <2>2
<1>3. \A i \in Pieces(l) : Piece(m, i) = Piece(l, i)
  <2> SUFFICES ASSUME NEW i \in Pieces(l) PROVE Piece(m, i) = Piece(l, i)
    OBVIOUS
  <2>1. CASE i <= a
    BY <1>1, <2>1 DEF Piece, a
  <2>2. CASE ~(i <= a)
    <3>1. i - a \in 1 .. b
      <4>1. a \in Nat /\ b \in Nat /\ i \in 1 .. a + b
        BY <1>1, <1>2
      <4> QED BY <2>2, <4>1
    <3> QED BY <1>1, <2>2, <3>1 DEF Piece, a
  <2> QED BY <2>1, <2>2
<1>4. Piece(m, N) = f.out
  <2>1. \A x, y \in Nat : ~(x + y + 1 <= x) /\ (x + y + 1) - x = y + 1
    OBVIOUS
  <2>2. ~(N <= a) /\ N - a = b + 1
    BY <1>1, <2>1
  <2>3. Len(m.got) = a
    BY <1>1
  <2> HIDE DEF N
  <2>4. ~(N <= Len(m.got)) /\ N - Len(m.got) = b + 1
    BY <2>2, <2>3
  <2>5. m.down[N - Len(m.got)].out = f.out
    BY <1>1, <2>4
  <2> QED BY <2>4, <2>5 DEF Piece
<1>5. \A i \in Pieces(m) : i \in Pieces(l) \/ i = N
  <2>1. \A x, y \in Nat : \A i \in 1 .. x + y + 1 : i \in 1 .. x + y \/ i = x + y + 1
    OBVIOUS
  <2> QED BY <1>1, <1>2, <2>1
<1>6. Pieces(l) \subseteq Pieces(m) /\ N \in Pieces(m) /\ \A i \in Pieces(l) : i < N /\ i \in Nat
  <2>1. \A x, y \in Nat :
          /\ x + y + 1 \in 1 .. x + y + 1
          /\ \A i \in 1 .. x + y : i \in 1 .. x + y + 1 /\ i < x + y + 1 /\ i \in Nat
    OBVIOUS
  <2> QED BY <1>1, <1>2, <2>1
<1> HIDE DEF N
<1>7. Seen(m) = Seen(l) \cup f.out
  <2>1. \A x : x \in Seen(m) <=> x \in Seen(l) \/ x \in f.out
    BY <1>3, <1>4, <1>5, <1>6, SeenPieces
  <2> QED BY <2>1
<1>8. InTurn(m)
  <2> SUFFICES ASSUME NEW i \in Pieces(m), NEW j \in Pieces(m), i < j,
                      NEW x \in Piece(m, i), NEW y \in Piece(m, j)
               PROVE  x < y
    BY DEF InTurn
  <2>1. i \in Pieces(l)
    <3>1. N \in Nat /\ j <= N
      BY <1>1, <1>2 DEF N
    <3> QED BY <1>1, <1>2, <1>5, <3>1
  <2>2. x \in Seen(l) /\ x \in Piece(l, i)
    BY <1>3, <2>1, SeenPieces
  <2>3. CASE j \in Pieces(l)
    BY <1>3, <2>1, <2>2, <2>3 DEF Whole, InTurn
  <2>4. CASE j = N
    <3>1. y \in t + 1 .. u
      BY <1>4, <2>4
    <3> QED BY <2>2, <3>1
  <2> QED BY <1>5, <2>3, <2>4
<1>9. UpTo(m, u, s)
  <2> SUFFICES ASSUME NEW x \in Seen(m), NEW z \in x .. u, z \notin s PROVE z \in Seen(m)
    BY DEF UpTo
  <2>1. CASE x \in Seen(l)
    <3>1. x \in Nat /\ z \in Nat /\ z <= u
      BY <2>1
    <3>2. CASE z <= t
      <4>1. z \in x .. t
        BY <3>1, <3>2
      <4> QED BY <1>7, <2>1, <4>1 DEF UpTo
    <3>3. CASE z > t
      BY <1>7, <3>1, <3>3
    <3> QED BY <3>1, <3>2, <3>3
  <2>2. CASE x \in f.out
    BY <1>7, <2>2
  <2> QED BY <1>7, <2>1, <2>2
<1>10. ASSUME NEW x \in Seen(m), NEW y \in Seen(m)
       PROVE  x .. y \subseteq Seen(m) \cup s
  <2>1. x \in Nat /\ y \in Nat /\ y <= u
    BY <1>7
  <2>2. x .. y \subseteq x .. u
    BY <2>1
  <2> QED BY <1>9, <2>2 DEF UpTo
<1> QED BY <1>7, <1>8, <1>9, <1>10 DEF Whole

LEMMA WholeGreeted ==
  ASSUME NEW s, NEW m \in Links, NEW f \in Frames, NEW t \in Nat, f.out = Newest(t, s),
         m.got = <<>>, m.down = <<f>>
  PROVE  Whole(m, s) /\ Seen(m) = f.out /\ UpTo(m, t, s)
<1>1. Len(m.got) = 0 /\ Len(m.down) = 1 /\ m.down[1] = f
  OBVIOUS
<1>2. Pieces(m) = {1}
  BY <1>1 DEF Pieces
<1>3. Piece(m, 1) = f.out
  BY <1>1 DEF Piece
<1>4. Seen(m) = f.out
  <2>1. \A x : x \in Seen(m) <=> x \in f.out
    BY <1>2, <1>3, SeenPieces
  <2> QED BY <2>1
<1>5. InTurn(m)
  BY <1>2 DEF InTurn
<1>6. ASSUME NEW x \in Newest(t, s), NEW z \in x .. t, z \notin s PROVE z \in Newest(t, s)
  <2>1. x \in Nat /\ 1 <= x /\ z \in Nat /\ x <= z /\ z <= t /\ Cardinality(Since(x, t, s)) < RingCap
    BY DEF Newest
  <2>2. /\ Cardinality(Since(z, t, s)) <= Cardinality(Since(x, t, s))
        /\ Cardinality(Since(z, t, s)) \in Nat /\ Cardinality(Since(x, t, s)) \in Nat
    <3>1. x \in Nat /\ z \in Nat /\ x <= z /\ t <= t
      BY <2>1
    <3> QED BY <3>1, SinceLess
  <2>3. Cardinality(Since(z, t, s)) < RingCap
    BY <2>1, <2>2, Bounds
  <2> QED BY <1>6, <2>1, <2>3 DEF Newest
<1>7. UpTo(m, t, s)
  BY <1>4, <1>6 DEF UpTo
<1>8. ASSUME NEW x \in Seen(m), NEW y \in Seen(m)
      PROVE  x .. y \subseteq Seen(m) \cup s
  <2>1. x .. y \subseteq x .. t
    BY <1>4 DEF Newest
  <2> QED BY <1>7, <2>1 DEF UpTo
<1> QED BY <1>4, <1>5, <1>7, <1>8 DEF Whole
-----------------------------------------------------------------------------
(* A connection that has not been accepted has been shown nothing; and the *)
(* attached one, if it is still there, has been shown a stretch that ends  *)
(* where the holder has got to and leaves out only what the ring let go.   *)
Quiet(l) == /\ l.backlog => l.phase \in {"hello", "closed"}
            /\ l.phase \in {"idle", "hello"} => l.got = <<>> /\ l.down = <<>>
Recent(l, t, s) == \A n \in 1 .. t : \/ n \in Seen(l) \cup s
                                  \/ Cardinality(Since(n, t, s)) >= RingCap
Served(l, t, s) == UpTo(l, t, s) /\ Recent(l, t, s)
Good(l, attached, t, s) == Quiet(l) /\ Whole(l, s) /\ (attached /\ l.phase = "live" => Served(l, t, s))
StreamInv == RingIs /\ \A c \in Conns : Good(link[c], c = client, taken, stripped)

LEMMA GoodKept ==
  ASSUME NEW s, NEW q, q \subseteq s,
         NEW l, NEW m, NEW a \in BOOLEAN, NEW b \in BOOLEAN, NEW t, NEW u,
         ShowsSame(l, m), b /\ m.phase = "live" => a /\ l.phase = "live" /\ t = u /\ q = s,
         Quiet(m), Good(l, a, t, q)
  PROVE  Good(m, b, u, s)
<1>1. Whole(m, s) /\ Seen(m) = Seen(l)
  BY WholeSame, WholeMore DEF Good
<1>2. ASSUME b, m.phase = "live" PROVE Served(m, u, s)
  BY <1>1, <1>2 DEF Good, Served, UpTo, Recent
<1> QED BY <1>1, <1>2 DEF Good

LEMMA RecentSend ==
  ASSUME NEW l \in Links, NEW m \in Links, NEW t \in Nat, NEW u \in Nat, t <= u,
         NEW s, NEW q, NEW r, r \subseteq t + 1 .. u, s = q \cup r,
         Recent(l, t, q), Seen(m) = Seen(l) \cup (t + 1 .. u)
  PROVE  Recent(m, u, s)
<1> SUFFICES ASSUME NEW n \in 1 .. u, n \notin Seen(m), n \notin s
             PROVE  Cardinality(Since(n, u, s)) >= RingCap
  BY DEF Recent
<1>1. n \in Nat /\ n \in 1 .. t
  OBVIOUS
<1>2. Cardinality(Since(n, t, s)) >= RingCap
  <2>1. Cardinality(Since(n, t, q)) >= RingCap
    BY <1>1 DEF Recent
  <2>2. Since(n, t, s) = Since(n, t, q)
    <3>1. \A y \in t + 1 .. u : y \notin n + 1 .. t
      OBVIOUS
    <3> QED BY <3>1 DEF Since
  <2> QED BY <2>1, <2>2
<1>3. n \in Nat /\ n <= n /\ t <= u
  BY <1>1
<1>4. /\ Cardinality(Since(n, t, s)) <= Cardinality(Since(n, u, s))
      /\ Cardinality(Since(n, t, s)) \in Nat /\ Cardinality(Since(n, u, s)) \in Nat
  BY <1>3, SinceLess
<1> QED BY <1>2, <1>4, Bounds

LEMMA RecentGreeted ==
  ASSUME NEW s, NEW m \in Links, NEW t \in Nat, Seen(m) = Newest(t, s)
  PROVE  Recent(m, t, s)
<1> SUFFICES ASSUME NEW n \in 1 .. t, n \notin Newest(t, s), n \notin s
             PROVE  Cardinality(Since(n, t, s)) >= RingCap
  BY DEF Recent
<1>1. n \in Nat /\ n <= n /\ t <= t
  OBVIOUS
<1>2. Cardinality(Since(n, t, s)) \in Nat
  BY <1>1, SinceLess
<1>3. ~(Cardinality(Since(n, t, s)) < RingCap)
  BY DEF Newest
<1> QED BY <1>2, <1>3, Bounds

(* What is stripped only grows, and only as output is taken.               *)
LEMMA StrippedGrows ==
  ASSUME TypeOK, [Next]_vars
  PROVE  stripped \subseteq stripped' /\ (taken' = taken => stripped' = stripped)
<1> USE DEF ptyVars, holderVars
<1>1. CASE Drain
  <2>1. stripped' = stripped \cup Matched(taken + 1 .. taken') /\ taken \in Nat
    BY <1>1, Bounds DEF Drain, TypeOK
  <2>2. Matched(taken + 1 .. taken') \subseteq taken + 1 .. taken'
    BY StrippedSubset
  <2> QED BY <2>1, <2>2
<1>2. ASSUME NEW c \in Conns, Client(c) \/ Attach(c) \/ TurnAway(c) PROVE UNCHANGED stripped
  BY <1>2 DEF Client, Connect, SayHead, SayRest, Close, Receive, EndOfStream, Attach, Welcome,
              TurnAway
<1>3. CASE Emit \/ ShellExits \/ PtyReader \/ PollExit \/ PollLinger \/ Leave \/ AcceptNone
           \/ ReadNobody \/ ReadClient \/ Linger \/ Crash \/ UNCHANGED vars
  BY <1>3 DEF Emit, ShellExits, PtyReader, PollExit, PollLinger, Leave, AcceptNone,
              ReadNobody, ReadClient, Linger, Crash, vars
<1> QED
  BY <1>1, <1>2, <1>3 DEF Next, Holder

(* The attached connection is sent something.                              *)
LEMMA GoodSent ==
  ASSUME TypeOK, TypeOK', StreamInv, IInv, client # NoConn, NEW f \in Frames,
         taken <= taken', f.out = taken + 1 .. taken', link' = Sent(client, f),
         NEW r, r \subseteq f.out, stripped' = stripped \cup r,
         client' = client, NEW c \in Conns
  PROVE  Good(link'[c], c = client', taken', stripped')
<1> DEFINE l == link[c]
           m == link'[c]
<1>1. client \in Conns /\ l \in Links /\ m \in Links /\ taken \in Nat /\ taken' \in Nat
  BY LinkTyped, Bounds DEF TypeOK
<1>2. /\ m.phase = l.phase /\ m.backlog = l.backlog /\ m.held = l.held /\ m.got = l.got
      /\ m.down = IF c = client /\ l.phase # "closed" THEN Append(l.down, f) ELSE l.down
  BY <1>1, SentIs
<1>3. Good(l, c = client, taken, stripped)
  BY DEF StreamInv
<1>4. l.held <=> c = client
  BY DEF IInv, LinkInv, OneAttached
<1>5. Seen(l) \subseteq 1 .. taken
  BY DEF IInv, AskInv, Fresh, Saw
<1>6. l.held => l.phase \in {"live", "closed"}
  BY DEF IInv, LinkInv, Started
<1> HIDE DEF l, m
<1>7. CASE c = client /\ l.phase # "closed"
  <2>1. l.phase = "live" /\ m.phase = "live" /\ m.down = Append(l.down, f)
    BY <1>2, <1>4, <1>6, <1>7
  <2>2. Whole(l, stripped) /\ UpTo(l, taken, stripped) /\ Recent(l, taken, stripped) /\ ~l.backlog
    BY <1>3, <1>7, <2>1 DEF Good, Served, Quiet
  <2>3. Whole(m, stripped') /\ Seen(m) = Seen(l) \cup f.out /\ UpTo(m, taken', stripped')
    <3>1. Whole(l, stripped') /\ UpTo(l, taken, stripped')
      BY <2>2, WholeMore DEF UpTo
    <3> QED BY <1>1, <1>2, <1>5, <2>1, <3>1, WholeSend
  <2>4. Recent(m, taken', stripped')
    BY <1>1, <2>2, <2>3, RecentSend
  <2>5. Quiet(m)
    BY <1>2, <2>1, <2>2 DEF Quiet
  <2> QED BY <2>3, <2>4, <2>5 DEF Good, Served, m
<1>8. CASE ~(c = client /\ l.phase # "closed")
  <2>1. ShowsSame(l, m)
    BY <1>2, <1>8 DEF ShowsSame
  <2>2. Quiet(m)
    BY <1>2, <1>3, <2>1 DEF Quiet, Good, ShowsSame
  <2>3. stripped \subseteq stripped' /\ ~(c = client' /\ m.phase = "live")
    BY <1>2, <1>8
  <2> QED BY <1>3, <2>1, <2>2, <2>3, GoodKept DEF m
<1> QED BY <1>7, <1>8

(* Nobody is sent anything.                                                *)
LEMMA GoodStill ==
  ASSUME StreamInv, NEW c \in Conns, ShowsSame(link[c], link'[c]),
         c = client' /\ link'[c].phase = "live" =>
           c = client /\ link[c].phase = "live" /\ taken = taken',
         stripped \subseteq stripped', taken' = taken => stripped' = stripped,
         \/ link'[c].phase = link[c].phase
         \/ link'[c].phase = "closed"
         \/ link[c].phase = "idle" /\ link'[c].phase = "hello"
         \/ link[c].phase = "hello" /\ link'[c].phase = "live",
         link'[c].backlog => link'[c].phase \in {"hello", "closed"}
  PROVE  Good(link'[c], c = client', taken', stripped')
<1>1. Good(link[c], c = client, taken, stripped)
  BY DEF StreamInv
<1>2. Quiet(link'[c])
  BY <1>1 DEF Quiet, Good, ShowsSame
<1> QED BY <1>1, <1>2, GoodKept

LEMMA GoodDrain ==
  ASSUME TypeOK, TypeOK', IInv, StreamInv, Drain,
         stripped \subseteq stripped', taken' = taken => stripped' = stripped,
         NEW c \in Conns
  PROVE  Good(link'[c], c = client', taken', stripped')
<1> DEFINE out == taken + 1 .. taken + Takeable
<1>1. taken \in Nat /\ taken' \in Nat /\ taken <= taken' /\ out = taken + 1 .. taken'
  BY TakeableBound, Bounds DEF Drain, TypeOK
<1>2. out \subseteq Outputs
  <2>1. taken' <= MaxOut
    BY Bounds DEF TypeOK
  <2> HIDE DEF out
  <2> QED BY <1>1, <2>1, Bounds DEF Outputs
<1>3. link[c].backlog => link[c].phase \in {"hello", "closed"}
  BY DEF StreamInv, Good, Quiet
<1>4. \/ out = {} /\ UNCHANGED <<client, link>>
      \/ client = NoConn /\ UNCHANGED <<client, link>>
      \/ client # NoConn /\ link' = Sent(client, [tag |-> "o", out |-> out]) /\ client' = client
      \/ client # NoConn /\ link' = Hangup(client) /\ client' = NoConn
  BY DEF Drain
<1> HIDE DEF out
<1>5. CASE out = {} /\ UNCHANGED <<client, link>>
  <2>1. taken' = taken
    BY <1>1, <1>5
  <2> QED BY <1>5, <2>1 DEF StreamInv
<1>6. CASE client = NoConn /\ UNCHANGED <<client, link>>
  <2>1. c # client /\ c # client'
    BY <1>6
  <2> QED BY <1>6, <2>1, WholeMore DEF StreamInv, Good
<1>7. CASE client # NoConn /\ link' = Sent(client, [tag |-> "o", out |-> out]) /\ client' = client
  <2> DEFINE f == [tag |-> "o", out |-> out]
  <2>1. f \in Frames /\ f.out = taken + 1 .. taken'
    BY <1>1, <1>2 DEF Frames
  <2>2. link' = Sent(client, f) /\ client' = client /\ client # NoConn
    BY <1>7
  <2> HIDE DEF f
  <2>3. /\ Matched(out) \subseteq f.out /\ stripped' = stripped \cup Matched(out)
    <3>1. stripped' = stripped \cup Matched(taken + 1 .. taken + Takeable)
      BY DEF Drain
    <3> QED BY <1>1, <2>1, <3>1, StrippedSubset DEF out
  <2> QED BY <1>1, <2>1, <2>2, <2>3, GoodSent
<1>8. CASE client # NoConn /\ link' = Hangup(client) /\ client' = NoConn
  <2>1. client \in Conns /\ c # client'
    BY <1>8 DEF TypeOK
  <2>2. /\ ShowsSame(link[c], link'[c]) /\ link'[c].phase = link[c].phase
        /\ link'[c].backlog = link[c].backlog
    BY <1>8, <2>1, HangupIs DEF Still
  <2> QED BY <1>3, <2>1, <2>2, GoodStill
<1> QED BY <1>4, <1>5, <1>6, <1>7, <1>8

LEMMA GoodAttach ==
  ASSUME TypeOK, TypeOK', StreamInv, NEW c \in Conns, Attach(c),
         stripped \subseteq stripped', taken' = taken => stripped' = stripped,
         NEW d \in Conns
  PROVE  Good(link'[d], d = client', taken', stripped')
<1>1. /\ client' = c /\ taken' = taken /\ link[c].backlog /\ taken \in Nat
      /\ link'[d] = IF d = c THEN Greeted(c)
                    ELSE IF d = client THEN Displaced(d) ELSE link[d]
  BY Bounds DEF Attach, Welcome, TypeOK
<1>2. Good(link[d], d = client, taken, stripped)
  BY DEF StreamInv
<1>3. CASE d # c
  <2>1. /\ ShowsSame(link[d], link'[d]) /\ link'[d].phase = link[d].phase
        /\ link'[d].backlog = link[d].backlog
    <3>1. CASE d = client
      BY <1>1, <1>3, <3>1, DisplacedIs DEF Still
    <3>2. CASE d # client
      BY <1>1, <1>3, <3>2 DEF ShowsSame
    <3> QED BY <3>1, <3>2
  <2>2. link'[d].backlog => link'[d].phase \in {"hello", "closed"}
    BY <1>2, <2>1 DEF Good, Quiet
  <2>3. d # client'
    BY <1>1, <1>3
  <2> QED BY <2>1, <2>2, <2>3, GoodStill
<1>4. CASE d = c
  <2> DEFINE l == link[c]
             m == link'[c]
  <2>1. m = Greeted(c) /\ l \in Links /\ m \in Links
    BY <1>1, <1>4, LinkTyped DEF TypeOK
  <2>2. /\ m.got = l.got /\ ~m.backlog
        /\ l.phase = "closed" => m.phase = "closed" /\ m.down = l.down
        /\ l.phase # "closed" => m.phase = "live" /\ m.down = <<[tag |-> "h", out |-> ring]>>
    BY <2>1, GreetedIs
  <2>3. l.phase \in {"hello", "closed"}
    BY <1>1, <1>2, <1>4 DEF Good, Quiet
  <2>4. Good(l, c = client, taken, stripped)
    BY <1>2, <1>4
  <2> HIDE DEF l, m
  <2>5. CASE l.phase = "closed"
    <3>1. ShowsSame(l, m) /\ m.phase = "closed"
      BY <2>2, <2>5 DEF ShowsSame
    <3>2. Quiet(m)
      BY <2>2, <3>1 DEF Quiet
    <3>3. Good(m, c = client', taken', stripped')
      BY <2>4, <3>1, <3>2, GoodKept
    <3> QED BY <1>4, <3>3 DEF m
  <2>6. CASE l.phase = "hello"
    <3> DEFINE f == [tag |-> "h", out |-> ring]
    <3>1. m.phase = "live" /\ m.down = <<f>> /\ m.got = <<>> /\ ~m.backlog
      BY <2>2, <2>4, <2>6 DEF Good, Quiet
    <3>2. f \in Frames /\ f.out = Newest(taken, stripped)
      <4>1. ring \subseteq Outputs
        BY Bounds DEF TypeOK, Outputs
      <4>2. ring = Newest(taken, stripped)
        BY DEF StreamInv, RingIs
      <4> QED BY <4>1, <4>2 DEF Frames
    <3> HIDE DEF f
    <3>3. Whole(m, stripped) /\ Seen(m) = Newest(taken, stripped) /\ UpTo(m, taken, stripped)
      BY <1>1, <2>1, <3>1, <3>2, WholeGreeted
    <3>4. Recent(m, taken, stripped)
      BY <1>1, <2>1, <3>3, RecentGreeted
    <3> QED BY <1>1, <1>4, <3>1, <3>3, <3>4 DEF Good, Served, Quiet, m
  <2> QED BY <2>3, <2>5, <2>6
<1> QED BY <1>3, <1>4

LEMMA ClientAlone ==
  ASSUME TypeOK, NEW c \in Conns, Client(c), NEW d \in Conns, d # c
  PROVE  link'[d] = link[d]
<1>1. d \in Conns \ {c}
  OBVIOUS
<1>2. SayRest(c) \/ Close(c) \/ Receive(c) \/ EndOfStream(c) => link'[d] = link[d]
  BY <1>1, SayRestIs, CloseIs, ReceiveIs, EndOfStreamIs
<1>3. ASSUME NEW h \in Hellos, Connect(c, h) PROVE link'[d] = link[d]
  BY <1>1, <1>3, ConnectIs
<1>4. ASSUME NEW kind \in Kinds, SayHead(c, kind) PROVE link'[d] = link[d]
  BY <1>1, <1>4, SayHeadIs
<1> QED BY <1>2, <1>3, <1>4 DEF Client

LEMMA GoodClient ==
  ASSUME TypeOK, TypeOK', StreamInv, NEW c \in Conns, Client(c),
         stripped \subseteq stripped', taken' = taken => stripped' = stripped,
         NEW d \in Conns
  PROVE  Good(link'[d], d = client', taken', stripped')
<1>1. client' = client /\ taken' = taken
  BY DEF Client, Connect, SayHead, SayRest, Close, Receive, EndOfStream, holderVars
<1>2. Good(link[d], d = client, taken, stripped)
  BY DEF StreamInv
<1>3. CASE link'[d] = link[d]
  BY <1>1, <1>2, <1>3
<1>4. ASSUME d = c, ShowsSame(link[c], link'[c]), link'[c].phase = link[c].phase,
             link'[c].backlog = link[c].backlog
      PROVE  Good(link'[d], d = client', taken', stripped')
  <2>1. link'[c].backlog => link'[c].phase \in {"hello", "closed"}
    BY <1>2, <1>4 DEF Good, Quiet
  <2> QED BY <1>1, <1>4, <2>1, GoodStill
<1>5. ASSUME NEW h \in Hellos, Connect(c, h), d = c PROVE Good(link'[d], d = client', taken', stripped')
  <2>1. /\ ShowsSame(link[c], link'[c]) /\ link[c].phase = "idle"
        /\ link'[c].phase \in {"closed", "hello"}
    BY <1>5, ConnectIs DEF Still
  <2>2. link'[c].phase # "live"
    BY <2>1
  <2> QED BY <1>5, <2>1, <2>2, GoodStill
<1>6. ASSUME NEW kind \in Kinds, SayHead(c, kind), d = c
      PROVE  Good(link'[d], d = client', taken', stripped')
  <2>1. /\ ShowsSame(link[c], link'[c]) /\ link'[c].phase = link[c].phase
        /\ link'[c].backlog = link[c].backlog
    BY <1>6, SayHeadIs
  <2> QED BY <1>4, <1>6, <2>1
<1>7. CASE SayRest(c) /\ d = c
  <2>1. /\ ShowsSame(link[c], link'[c]) /\ link'[c].phase = link[c].phase
        /\ link'[c].backlog = link[c].backlog
    BY <1>7, SayRestIs
  <2> QED BY <1>4, <1>7, <2>1
<1>8. CASE EndOfStream(c) /\ d = c
  <2>1. /\ ShowsSame(link[c], link'[c]) /\ link'[c].phase = link[c].phase
        /\ link'[c].backlog = link[c].backlog
    BY <1>8, EndOfStreamIs DEF Still
  <2> QED BY <1>4, <1>8, <2>1
<1>9. CASE Close(c) /\ d = c
  <2>1. /\ link'[c].got = link[c].got /\ link'[c].down = <<>> /\ link'[c].phase = "closed"
        /\ link[c] \in Links /\ link'[c] \in Links
    BY <1>9, CloseIs, LinkTyped DEF TypeOK
  <2>2. Whole(link'[c], stripped')
    <3>1. Whole(link[c], stripped')
      BY <1>2, <1>9, WholeMore DEF Good
    <3> QED BY <2>1, <3>1, WholeClose
  <2> QED BY <1>9, <2>1, <2>2 DEF Good, Quiet
<1>10. CASE Receive(c) /\ d = c
  <2> DEFINE l == link[c]
             m == link'[c]
  <2>1. /\ l \in Links /\ m \in Links /\ l.phase = "live" /\ m.phase = "live"
        /\ m.backlog = l.backlog /\ l.down # <<>> /\ m.down = Tail(l.down)
        /\ m.got = Append(l.got, Head(l.down).out)
    BY <1>10, ReceiveIs, LinkTyped DEF TypeOK
  <2>2. Good(l, d = client, taken, stripped)
    BY <1>2, <1>10
  <2> HIDE DEF l, m
  <2>3. Whole(m, stripped) /\ Seen(m) = Seen(l)
    BY <2>1, <2>2, WholeReceive DEF Good
  <2>4. Quiet(m)
    BY <2>1, <2>2 DEF Good, Quiet
  <2>5. Good(m, d = client, taken, stripped)
    BY <2>1, <2>2, <2>3, <2>4 DEF Good, Served, UpTo, Recent
  <2> QED BY <1>1, <1>10, <2>5 DEF m
<1>11. d # c => link'[d] = link[d]
  BY ClientAlone
<1> QED
  BY <1>3, <1>5, <1>6, <1>7, <1>8, <1>9, <1>10, <1>11 DEF Client

LEMMA StreamStep ==
  ASSUME IInv, IInv', StreamInv, [Next]_vars PROVE StreamInv'
<1>1. TypeOK /\ TypeOK'
  BY DEF IInv
<1>2. RingIs'
  BY <1>1, RingStep DEF StreamInv
<1>3. SUFFICES ASSUME NEW d \in Conns PROVE Good(link'[d], d = client', taken', stripped')
  BY <1>2 DEF StreamInv
<1>4. link[d].backlog => link[d].phase \in {"hello", "closed"}
  BY DEF StreamInv, Good, Quiet
<1> USE DEF ptyVars, holderVars
<1>0. stripped \subseteq stripped' /\ (taken' = taken => stripped' = stripped)
  BY <1>1, StrippedGrows
<1>5. CASE UNCHANGED <<taken, client, link>>
  BY <1>0, <1>5 DEF StreamInv
<1>6. CASE Drain
  BY <1>1, <1>6, <1>0, GoodDrain
<1>7. CASE PollExit
  <2>1. taken' = taken /\ client' = client /\ (client # NoConn => client \in Conns)
    BY <1>1, <1>7 DEF PollExit, TypeOK
  <2>2. CASE UNCHANGED link
    BY <1>5, <2>1, <2>2
  <2>3. CASE client # NoConn /\ link' = Sent(client, ExitFrame)
    <3>1. taken \in Nat /\ taken' \in Nat
      BY <1>1, Bounds DEF TypeOK
    <3>2. ExitFrame \in Frames /\ ExitFrame.out = taken + 1 .. taken'
      <4>1. taken + 1 .. taken = {}
        BY <3>1
      <4> QED BY <2>1, <4>1 DEF ExitFrame, Frames
    <3>3. taken <= taken'
      BY <2>1, <3>1
    <3>4. {} \subseteq ExitFrame.out /\ stripped' = stripped \cup {}
      BY <1>0, <2>1
    <3> QED BY <1>1, <2>1, <2>3, <3>2, <3>3, <3>4, GoodSent
  <2> QED BY <1>7, <2>2, <2>3 DEF PollExit
<1>8. CASE Leave \/ Crash
  <2>1. client' = NoConn /\ link'[d] = Ended(d) /\ taken' = taken
    BY <1>8 DEF Leave, Crash
  <2>2. /\ ShowsSame(link[d], link'[d]) /\ ~link'[d].backlog
        /\ link'[d].phase \in {link[d].phase, "closed"}
    BY <1>1, <2>1, EndedIs DEF Still
  <2>3. d # client'
    BY <2>1
  <2> QED BY <2>2, <2>3, <1>0, GoodStill
<1>9. ASSUME NEW c \in Conns, Attach(c) PROVE Good(link'[d], d = client', taken', stripped')
  BY <1>1, <1>9, <1>0, GoodAttach
<1>10. ASSUME NEW c \in Conns, TurnAway(c) PROVE Good(link'[d], d = client', taken', stripped')
  <2>1. client' = client /\ taken' = taken
    BY <1>10 DEF TurnAway
  <2>2. CASE d = c
    <3>1. /\ ShowsSame(link[d], link'[d]) /\ ~link'[d].backlog
          /\ link'[d].phase = "closed" \/ (link'[d].phase = "live" /\ link[d].phase = "hello")
      BY <1>1, <1>10, <2>2, TurnAwayIs DEF Still
    <3>2. d # client \/ link'[d].phase = "closed"
      BY <3>1 DEF IInv, LinkInv, OneAttached, Started
    <3> QED BY <1>0, <2>1, <3>1, <3>2, GoodStill
  <2>3. CASE d # c
    <3>1. link'[d] = link[d]
      BY <1>1, <1>10, <2>3, TurnAwayIs
    <3> QED BY <1>0, <2>1, <3>1 DEF StreamInv
  <2> QED BY <2>2, <2>3
<1>11. CASE ReadClient
  <2>1. client' \in {client, NoConn} /\ taken' = taken
    BY <1>11 DEF ReadClient
  <2>2. /\ ShowsSame(link[d], link'[d]) /\ link'[d].phase = link[d].phase
        /\ link'[d].backlog = link[d].backlog
    <3>1. CASE d = client
      BY <1>1, <1>11, <3>1, ReadIs
    <3>2. CASE d # client
      <4>1. link'[d] = link[d]
        BY <1>1, <1>11, <3>2, ReadIs
      <4> QED BY <4>1 DEF ShowsSame
    <3> QED BY <3>1, <3>2
  <2>3. d = client' => d = client
    BY <2>1
  <2> QED BY <1>4, <2>1, <2>2, <2>3, <1>0, GoodStill
<1>12. ASSUME NEW c \in Conns, Client(c) PROVE Good(link'[d], d = client', taken', stripped')
  BY <1>1, <1>12, <1>0, GoodClient
<1>13. CASE Emit \/ ShellExits \/ PtyReader \/ PollLinger \/ AcceptNone \/ ReadNobody \/ Linger
            \/ UNCHANGED vars
  BY <1>5, <1>13 DEF Emit, ShellExits, PtyReader, PollLinger, AcceptNone, ReadNobody, Linger, vars
<1> QED
  BY <1>6, <1>7, <1>8, <1>9, <1>10, <1>11, <1>12, <1>13 DEF Next, Holder

LEMMA StreamInitial == Init => StreamInv
<1> SUFFICES ASSUME Init PROVE StreamInv
  OBVIOUS
<1>1. \A c \in Conns : link[c] = Idle
  BY DEF Init
<1>2. RingIs
  <2>1. \A n : n \notin Newest(0, {})
    BY DEF Newest
  <2> QED BY <2>1 DEF Init, RingIs
<1>3. Quiet(Idle)
  BY DEF Quiet, Idle
<1>4. Whole(Idle, {})
  <2>1. Pieces(Idle) = {}
    BY DEF Pieces, Idle
  <2>2. \A x : x \notin Seen(Idle)
    <3>1. DOMAIN Idle.got = {} /\ DOMAIN Idle.down = {}
      BY DEF Idle
    <3> QED BY <3>1, InSeen
  <2> QED BY <2>1, <2>2 DEF Whole, InTurn
<1> QED
  <2>1. stripped = {} /\ client = NoConn /\ \A c \in Conns : c # NoConn
    BY NoConnAssumption DEF Init
  <2>2. Idle.phase # "live"
    BY DEF Idle
  <2> QED BY <1>1, <1>2, <1>3, <1>4, <2>1, <2>2 DEF StreamInv, Good

THEOREM StreamAlways == Spec => [](IInv /\ StreamInv)
<1>1. IInv /\ IInv' /\ StreamInv /\ [Next]_vars => StreamInv'
  BY StreamStep
<1> QED
  BY <1>1, Inductive, StreamInitial, PTL DEF Spec

(* What a connection is shown is one stretch of the shell's output, in     *)
(* order, nothing twice and nothing missing, however the holder is shared. *)
THEOREM NoGapAlways == Spec => []NoGap
<1>1. IInv /\ StreamInv => NoGap
  BY NoGapIs DEF IInv, StreamInv, Good
<1> QED BY <1>1, StreamAlways, PTL

(* The attached window misses only what the ring had let go before it came.*)
THEOREM UpToDateAlways == Spec => []UpToDate
<1>1. ASSUME IInv, StreamInv, client # NoConn, link[client].phase = "live" PROVE UpToDate
  <2>1. Recent(link[client], taken, stripped)
    BY <1>1 DEF IInv, TypeOK, StreamInv, Good, Served
  <2> QED BY <2>1 DEF UpToDate, Recent, Saw, Since
<1>2. IInv /\ StreamInv => UpToDate
  BY <1>1 DEF UpToDate
<1> QED BY <1>2, StreamAlways, PTL
-----------------------------------------------------------------------------
(* Who said what.  Of the frames of c in a sequence, those up to i.        *)
Count(s, c, i) == Cardinality({j \in 1 .. i : s[j].by = c})
Acted(c)       == Count(did, c, Len(did))

LEMMA CountFinite ==
  ASSUME NEW s, NEW c, NEW i \in Nat
  PROVE  IsFiniteSet({j \in 1 .. i : s[j].by = c}) /\ Count(s, c, i) \in Nat
<1>1. IsFiniteSet(1 .. i)
  BY FS_Interval
<1>2. {j \in 1 .. i : s[j].by = c} \in SUBSET (1 .. i)
  OBVIOUS
<1>3. IsFiniteSet({j \in 1 .. i : s[j].by = c})
  BY <1>1, <1>2, FS_Subset
<1> QED BY <1>3, FS_CardinalityType DEF Count

LEMMA CountPrefix ==
  ASSUME NEW s \in Seq(Said), NEW t \in Seq(Said), NEW c, NEW i \in 0 .. Len(s)
  PROVE  Count(s \o t, c, i) = Count(s, c, i)
<1>1. \A j \in 1 .. i : (s \o t)[j] = s[j]
  OBVIOUS
<1>2. {j \in 1 .. i : (s \o t)[j].by = c} = {j \in 1 .. i : s[j].by = c}
  BY <1>1
<1> QED BY <1>2 DEF Count

AllBy(t, d) == \A k \in DOMAIN t : t[k].by = d

LEMMA CountAppend ==
  ASSUME NEW s \in Seq(Said), NEW t \in Seq(Said), NEW d \in Conns, AllBy(t, d),
         NEW c \in Conns, NEW k \in 0 .. Len(t)
  PROVE  Count(s \o t, c, Len(s) + k) = Count(s, c, Len(s)) + IF c = d THEN k ELSE 0
<1> DEFINE a == Len(s)
           A == {j \in 1 .. a : s[j].by = c}
           B == {j \in 1 .. a + k : (s \o t)[j].by = c}
           T == a + 1 .. a + k
<1>1. /\ a \in Nat /\ k \in Nat /\ k <= Len(t) /\ DOMAIN t = 1 .. Len(t) /\ Len(t) \in Nat
      /\ \A j \in 1 .. a : (s \o t)[j] = s[j]
      /\ \A j \in a + 1 .. a + Len(t) : (s \o t)[j] = t[j - a]
  OBVIOUS
<1>2. IsFiniteSet(A) /\ Cardinality(A) \in Nat /\ Count(s, c, a) = Cardinality(A)
  <2>1. a \in Nat
    BY <1>1
  <2> HIDE DEF a
  <2>2. IsFiniteSet({j \in 1 .. a : s[j].by = c}) /\ Count(s, c, a) \in Nat
    BY <2>1, CountFinite
  <2> QED BY <2>2 DEF Count
<1>3. IsFiniteSet(T) /\ Cardinality(T) = k
  <2>1. a + 1 \in Int /\ a + k \in Int
    BY <1>1
  <2>2. IsFiniteSet(T) /\ Cardinality(T) = IF a + 1 > a + k THEN 0 ELSE (a + k) - (a + 1) + 1
    <3> HIDE DEF a
    <3> QED BY <2>1, FS_Interval
  <2>3. (IF a + 1 > a + k THEN 0 ELSE (a + k) - (a + 1) + 1) = k
    <3> HIDE DEF a
    <3> QED BY <1>1
  <2> QED BY <2>2, <2>3
<1>4. \A j \in T : (s \o t)[j].by = d
  <2> SUFFICES ASSUME NEW j \in T PROVE (s \o t)[j].by = d
    OBVIOUS
  <2> HIDE DEF a
  <2>1. j \in a + 1 .. a + Len(t) /\ j - a \in 1 .. Len(t)
    BY <1>1
  <2>2. (s \o t)[j] = t[j - a] /\ j - a \in DOMAIN t
    BY <1>1, <2>1
  <2>3. \A i \in DOMAIN t : t[i].by = d
    BY DEF AllBy
  <2> QED BY <2>2, <2>3
<1>5. Count(s \o t, c, a + k) = Cardinality(B)
  BY DEF Count
<1> HIDE DEF a
<1>6. /\ \A j : j \in A <=> j \in 1 .. a /\ s[j].by = c
      /\ \A j : j \in B <=> j \in 1 .. a + k /\ (s \o t)[j].by = c
  <2> DEFINE u == s \o t
  <2>1. A = {j \in 1 .. a : s[j].by = c}
    OBVIOUS
  <2>3. B = {j \in 1 .. a + k : u[j].by = c}
    OBVIOUS
  <2> HIDE DEF A, B, u
  <2>2. /\ \A j : j \in A <=> j \in 1 .. a /\ s[j].by = c
        /\ \A j : j \in B <=> j \in 1 .. a + k /\ u[j].by = c
    BY <2>1, <2>3
  <2> QED BY <2>2 DEF u
<1>7. \A j : (j \in 1 .. a + k <=> j \in 1 .. a \/ j \in T) /\ ~(j \in 1 .. a /\ j \in T)
  <2>1. \A x, y \in Nat : \A j :
          /\ j \in 1 .. x + y <=> j \in 1 .. x \/ j \in x + 1 .. x + y
          /\ ~(j \in 1 .. x /\ j \in x + 1 .. x + y)
    OBVIOUS
  <2>2. a \in Nat /\ k \in Nat
    BY <1>1
  <2> QED BY <2>1, <2>2
<1> HIDE DEF A, B, T
<1>8. \A j : j \in B <=> j \in A \/ (j \in T /\ c = d)
  <2>1. \A j \in 1 .. a : (s \o t)[j].by = s[j].by
    BY <1>1
  <2> DEFINE u == s \o t
  <2> HIDE DEF u
  <2>2. \A j \in 1 .. a : u[j].by = s[j].by
    BY <2>1 DEF u
  <2>3. \A j \in T : u[j].by = d
    BY <1>4 DEF u
  <2>4. \A j : j \in B <=> j \in 1 .. a + k /\ u[j].by = c
    BY <1>6 DEF u
  <2> QED BY <1>6, <1>7, <2>2, <2>3, <2>4
<1>9. \A j \in T : j \notin A
  BY <1>6, <1>7
<1>10. CASE c = d
  <2>1. B = A \cup T
    BY <1>8, <1>10
  <2>2. A \cap T = {}
    BY <1>9
  <2>3. Cardinality(A \cup T) = Cardinality(A) + Cardinality(T) - Cardinality({})
    BY <1>2, <1>3, <2>2, FS_Union
  <2>4. Cardinality(B) = Cardinality(A) + k
    BY <1>1, <1>2, <1>3, <2>1, <2>3, FS_EmptySet
  <2> QED BY <1>2, <1>5, <1>10, <2>4 DEF a
<1>11. CASE c # d
  <2>1. B = A
    BY <1>8, <1>11
  <2> QED BY <1>2, <1>5, <1>11, <2>1 DEF a
<1> QED BY <1>10, <1>11

(* The frames of a connection are numbered as it begins them, and while    *)
(* the holder has it open not one of them is lost: those acted on, those   *)
(* written and the half of one in the making are all that it has begun.    *)
Half(l) == IF l.saying = "nothing" THEN 0 ELSE 1

Counted(l, c, n) ==
  /\ \A k \in DOMAIN l.up : l.up[k].by = c /\ l.up[k].n = n + k
  /\ l.held /\ l.phase = "live" => l.said = n + Len(l.up) + Half(l)
  /\ l.phase \in {"idle", "hello"} => l.said = 0 /\ l.up = <<>> /\ l.saying = "nothing" /\ n = 0

OwnBuffer == client # NoConn => inbuf \in {client, NoConn}
TalkInv   == /\ \A c \in Conns : Counted(link[c], c, Acted(c)) /\ InOrder(c)
             /\ OwnBuffer

LEMMA CountedSame ==
  ASSUME NEW l, NEW m, NEW c, NEW n, SaysSame(l, m), Counted(l, c, n),
         m.phase \in {"idle", "hello"} => l.phase \in {"idle", "hello"},
         m.held /\ m.phase = "live" => l.held /\ l.phase = "live"
  PROVE  Counted(m, c, n)
BY DEF SaysSame, Counted, Half

LEMMA BufferStep ==
  ASSUME TypeOK, OwnBuffer, [Next]_vars PROVE OwnBuffer'
<1> USE DEF ptyVars, holderVars
<1>1. CASE \/ UNCHANGED <<client, inbuf>>
           \/ client' = NoConn
           \/ inbuf' = NoConn
  BY <1>1 DEF OwnBuffer
<1>2. ASSUME NEW c \in Conns, Client(c) PROVE UNCHANGED <<client, inbuf>>
  BY <1>2 DEF Client, Connect, SayHead, SayRest, Close, Receive, EndOfStream
<1>3. ASSUME NEW c \in Conns, Attach(c) \/ TurnAway(c) PROVE OwnBuffer'
  BY <1>1, <1>3 DEF Attach, Welcome, TurnAway
<1>4. CASE Drain
  BY <1>1, <1>4 DEF Drain
<1>5. CASE ReadClient
  BY <1>5 DEF ReadClient, OwnBuffer
<1>6. CASE Emit \/ ShellExits \/ PtyReader \/ PollExit \/ PollLinger \/ Leave \/ AcceptNone
           \/ ReadNobody \/ Linger \/ Crash \/ UNCHANGED vars
  BY <1>1, <1>6 DEF Emit, ShellExits, PtyReader, PollExit, PollLinger, Leave, AcceptNone,
                    ReadNobody, Linger, Crash, vars
<1> QED
  BY <1>1, <1>2, <1>3, <1>4, <1>5, <1>6 DEF Next, Holder

(* Everything that has arrived is acted on, in the order it was written.   *)
LEMMA TalkRead ==
  ASSUME IInv, TalkInv, ReadClient, NEW c \in Conns
  PROVE  Counted(link'[c], c, Acted(c)') /\ InOrder(c)'
<1> DEFINE s == did
           t == link[client].up
           n == Acted(client)
<1>1. /\ client \in Conns /\ s \in Seq(Said) /\ t \in Seq(Said) /\ did' = s \o t
      /\ link[client].held /\ link[client].phase \in {"live", "closed"}
      /\ link[client] \in Links /\ TypeOK
  <2>1. TypeOK /\ client \in Conns
    BY DEF IInv, TypeOK, ReadClient
  <2>2. link[client].held
    BY <2>1 DEF IInv, LinkInv, OneAttached
  <2>3. link[client].phase \in {"live", "closed"}
    BY <2>1, <2>2 DEF IInv, LinkInv, Started
  <2>4. did' = s \o t
    BY DEF ReadClient, Arrived
  <2>5. did \in Seq(Said)
    BY <2>1 DEF TypeOK
  <2>6. link[client] \in Links /\ t \in Seq(Said)
    BY <2>1, LinkTyped
  <2> QED BY <2>1, <2>2, <2>3, <2>4, <2>5, <2>6
<1>2. \A k \in DOMAIN t : t[k].by = client /\ t[k].n = n + k
  BY <1>1 DEF TalkInv, Counted
<1>3. /\ Len(s) \in Nat /\ Len(t) \in Nat /\ DOMAIN t = 1 .. Len(t)
      /\ DOMAIN did' = 1 .. Len(s) + Len(t) /\ Len(did') = Len(s) + Len(t)
      /\ \A i \in 1 .. Len(s) : did'[i] = s[i]
      /\ \A i \in Len(s) + 1 .. Len(s) + Len(t) : did'[i] = t[i - Len(s)]
  BY <1>1
<1>4. \A k \in 0 .. Len(t) :
        Count(did', c, Len(s) + k) = Acted(c) + IF c = client THEN k ELSE 0
  <2>1. AllBy(t, client) /\ s \in Seq(Said) /\ t \in Seq(Said) /\ client \in Conns
    BY <1>1, <1>2 DEF AllBy
  <2> HIDE DEF s, t
  <2>2. \A k \in 0 .. Len(t) :
          Count(s \o t, c, Len(s) + k) = Count(s, c, Len(s)) + IF c = client THEN k ELSE 0
    BY <2>1, CountAppend
  <2> QED BY <1>1, <2>2 DEF Acted, s
<1>5. \A i \in 0 .. Len(s) : Count(did', c, i) = Count(s, c, i)
  BY <1>1, CountPrefix
<1>6. Acted(c) \in Nat
  <2>1. Len(did) \in Nat
    BY <1>3
  <2> QED BY <2>1, CountFinite DEF Acted
<1>7. Acted(c)' = Acted(c) + IF c = client THEN Len(t) ELSE 0
  <2>1. Len(t) \in 0 .. Len(t)
    BY <1>3
  <2>2. Acted(c)' = Count(did', c, Len(s) + Len(t))
    BY <1>3 DEF Acted
  <2> QED BY <1>4, <2>1, <2>2
<1> DEFINE a == Len(s)
           b == Len(t)
<1>8. ASSUME NEW i \in DOMAIN did', did'[i].by = c
      PROVE  did'[i].n = Count(did', c, i)
  <2>1. a \in Nat /\ b \in Nat /\ i \in 1 .. a + b
    BY <1>3
  <2> HIDE DEF a, b
  <2>2. CASE i <= a
    <3>1. i \in 1 .. a /\ i \in 0 .. a
      BY <2>1, <2>2
    <3>2. did'[i] = s[i] /\ Count(did', c, i) = Count(s, c, i) /\ i \in DOMAIN s
      BY <1>1, <1>3, <1>5, <3>1 DEF a
    <3>3. s[i].by = c => s[i].n = Count(s, c, i)
      BY <3>2 DEF TalkInv, InOrder, Count
    <3> QED BY <1>8, <3>2, <3>3
  <2>3. CASE ~(i <= a)
    <3> DEFINE k == i - a
    <3>1. k \in 1 .. b /\ k \in 0 .. b /\ i = a + k /\ i \in a + 1 .. a + b
      BY <2>1, <2>3
    <3> HIDE DEF k
    <3>2. did'[i] = t[k] /\ k \in DOMAIN t
      BY <1>3, <3>1 DEF a, b, k
    <3>3. t[k].by = client /\ t[k].n = n + k
      BY <1>2, <3>2
    <3>4. c = client
      BY <1>8, <3>2, <3>3
    <3>5. Count(did', c, a + k) = Acted(c) + k
      BY <1>4, <3>1, <3>4 DEF a, b
    <3> QED BY <3>1, <3>2, <3>3, <3>4, <3>5
  <2> QED BY <2>2, <2>3
<1>9. InOrder(c)'
  BY <1>8 DEF InOrder, Count
<1>10. CASE c = client
  <2> DEFINE l == link[c]
             m == link'[c]
  <2>1. m.up = <<>> /\ m.said = l.said /\ m.saying = l.saying /\ m.phase = l.phase
    BY <1>1, <1>10, ReadIs
  <2>2. Counted(l, c, Acted(c)) /\ l.held /\ l.phase \in {"live", "closed"}
    BY <1>1, <1>10 DEF TalkInv
  <2>3. Acted(c)' = Acted(c) + Len(l.up)
    BY <1>7, <1>10
  <2>4. /\ DOMAIN m.up = {} /\ Len(m.up) = 0 /\ Half(m) = Half(l) /\ Half(l) \in {0, 1}
        /\ Len(l.up) \in Nat
    BY <1>3, <1>10, <2>1 DEF Half
  <2> HIDE DEF l, m
  <2>5. m.held /\ m.phase = "live" => m.said = Acted(c)' + Len(m.up) + Half(m)
    <3> SUFFICES ASSUME m.phase = "live" PROVE m.said = Acted(c)' + Len(m.up) + Half(m)
      OBVIOUS
    <3>1. l.said = Acted(c) + Len(l.up) + Half(l)
      BY <2>1, <2>2 DEF Counted
    <3> QED BY <1>6, <2>1, <2>3, <2>4, <3>1
  <2>6. Counted(m, c, Acted(c)')
    BY <2>1, <2>2, <2>4, <2>5 DEF Counted
  <2> QED BY <1>9, <2>6 DEF m
<1>11. CASE c # client
  <2>1. link'[c] = link[c] /\ Acted(c)' = Acted(c)
    BY <1>1, <1>6, <1>7, <1>11, ReadIs
  <2> QED BY <1>9, <2>1 DEF TalkInv
<1> QED BY <1>10, <1>11

LEMMA TalkHead ==
  ASSUME TypeOK, TalkInv, NEW c \in Conns, NEW kind \in Kinds, SayHead(c, kind)
  PROVE  Counted(link'[c], c, Acted(c))
<1> DEFINE l == link[c]
           m == link'[c]
           n == Acted(c)
<1>1. /\ l.phase = "live" /\ l.saying = "nothing" /\ m.phase = "live" /\ m.held = l.held
      /\ m.up = l.up /\ m.said = l.said + 1 /\ m.saying = kind /\ kind # "nothing"
  BY SayHeadIs DEF Kinds
<1>2. Counted(l, c, n) /\ l \in Links
  BY LinkTyped DEF TalkInv
<1>3. n \in Nat /\ Len(l.up) \in Nat /\ l.said \in Int
  <2>1. Len(did) \in Nat
    BY DEF TypeOK
  <2>2. n \in Nat
    BY <2>1, CountFinite DEF Acted
  <2>3. Len(l.up) \in Nat /\ l.said \in Int
    BY <1>2, Bounds DEF Links
  <2> QED BY <2>2, <2>3
<1> HIDE DEF l, m, n
<1>4. ASSUME m.held PROVE m.said = n + Len(m.up) + Half(m)
  <2>1. l.said = n + Len(l.up) + Half(l) /\ Half(l) = 0 /\ Half(m) = 1
    BY <1>1, <1>2, <1>4 DEF Counted, Half
  <2> QED BY <1>1, <1>3, <2>1
<1>5. Counted(m, c, n)
  BY <1>1, <1>2, <1>4 DEF Counted
<1> QED BY <1>5 DEF m, n

LEMMA TalkRest ==
  ASSUME TypeOK, TalkInv, NEW c \in Conns, SayRest(c)
  PROVE  Counted(link'[c], c, Acted(c))
<1> DEFINE l == link[c]
           m == link'[c]
           n == Acted(c)
           f == [by |-> c, n |-> l.said, kind |-> l.saying]
<1>1. /\ l.phase = "live" /\ l.saying # "nothing" /\ m.phase = "live" /\ m.held = l.held
      /\ m.said = l.said /\ m.saying = "nothing"
      /\ m.up = IF l.held THEN Append(l.up, f) ELSE l.up
  BY SayRestIs
<1>2. Counted(l, c, n) /\ l \in Links
  BY LinkTyped DEF TalkInv
<1>3. n \in Nat /\ l.up \in Seq(Said) /\ f.by = c /\ f.n = l.said
  <2>1. Len(did) \in Nat
    BY DEF TypeOK
  <2>2. n \in Nat
    BY <2>1, CountFinite DEF Acted
  <2>3. l.up \in Seq(Said)
    BY <1>2 DEF Links
  <2> QED BY <2>2, <2>3
<1> HIDE DEF l, m, n, f
<1>4. CASE l.held
  <2> DEFINE a == Len(l.up)
  <2>1. /\ a \in Nat /\ DOMAIN l.up = 1 .. a /\ Len(m.up) = a + 1 /\ DOMAIN m.up = 1 .. a + 1
        /\ (\A k \in 1 .. a : m.up[k] = l.up[k]) /\ m.up[a + 1] = f
    BY <1>1, <1>3, <1>4
  <2>2. l.said = n + a + 1 /\ Half(m) = 0
    <3>1. Half(l) = 1 /\ Half(m) = 0
      BY <1>1 DEF Half
    <3> QED BY <1>1, <1>2, <1>4, <3>1 DEF Counted
  <2>3. \A k \in DOMAIN l.up : l.up[k].by = c /\ l.up[k].n = n + k
    BY <1>2 DEF Counted
  <2> HIDE DEF a
  <2>4. \A k \in DOMAIN m.up : m.up[k].by = c /\ m.up[k].n = n + k
    <3> SUFFICES ASSUME NEW k \in 1 .. a + 1 PROVE m.up[k].by = c /\ m.up[k].n = n + k
      BY <2>1
    <3>1. CASE k \in 1 .. a
      BY <2>1, <2>3, <3>1
    <3>2. CASE k = a + 1
      <4>1. n + (a + 1) = n + a + 1
        BY <1>3, <2>1
      <4> QED BY <1>3, <2>1, <2>2, <3>2, <4>1
    <3> QED BY <2>1, <3>1, <3>2
  <2>5. m.said = n + Len(m.up) + Half(m)
    <3>1. n + a + 1 = n + (a + 1) + 0
      BY <1>3, <2>1
    <3> QED BY <1>1, <2>1, <2>2, <3>1
  <2>6. Counted(m, c, n)
    BY <1>1, <2>4, <2>5 DEF Counted
  <2> QED BY <2>6 DEF m, n
<1>5. CASE ~l.held
  <2>1. Counted(m, c, n)
    BY <1>1, <1>2, <1>5 DEF Counted
  <2> QED BY <2>1 DEF m, n
<1> QED BY <1>4, <1>5

LEMMA TalkStep ==
  ASSUME IInv, IInv', StreamInv, TalkInv, [Next]_vars PROVE TalkInv'
<1>1. TypeOK /\ TypeOK' /\ OwnBuffer
  BY DEF IInv, TalkInv
<1>2. OwnBuffer'
  BY <1>1, BufferStep
<1>3. SUFFICES ASSUME NEW c \in Conns PROVE Counted(link'[c], c, Acted(c)') /\ InOrder(c)'
  BY <1>2 DEF TalkInv
<1>4. Counted(link[c], c, Acted(c)) /\ InOrder(c)
  BY DEF TalkInv
<1> USE DEF ptyVars, holderVars
<1>5. ASSUME UNCHANGED did, Counted(link'[c], c, Acted(c))
      PROVE  Counted(link'[c], c, Acted(c)') /\ InOrder(c)'
  BY <1>4, <1>5 DEF Acted, InOrder
<1>6. CASE UNCHANGED <<did, link>>
  BY <1>4, <1>5, <1>6
<1>7. ASSUME UNCHANGED did, SaysSame(link[c], link'[c]),
             link'[c].phase \in {"idle", "hello"} => link[c].phase \in {"idle", "hello"},
             link'[c].held /\ link'[c].phase = "live" => link[c].held /\ link[c].phase = "live"
      PROVE  Counted(link'[c], c, Acted(c)') /\ InOrder(c)'
  <2>1. Counted(link'[c], c, Acted(c))
    BY <1>4, <1>7, CountedSame
  <2> QED BY <1>5, <1>7, <2>1
<1>8. CASE Drain \/ PollExit
  <2>1. /\ UNCHANGED did
        /\ client # NoConn => client \in Conns
    BY <1>1, <1>8 DEF Drain, PollExit, TypeOK
  <2>2. ASSUME NEW f \in Frames, client # NoConn, link' = Sent(client, f)
        PROVE  Counted(link'[c], c, Acted(c)') /\ InOrder(c)'
    <3>1. /\ SaysSame(link[c], link'[c]) /\ link'[c].phase = link[c].phase
          /\ link'[c].held = link[c].held
      BY <1>1, <2>1, <2>2, SentIs
    <3> QED BY <1>7, <2>1, <3>1
  <2>3. ASSUME client # NoConn, link' = Hangup(client)
        PROVE  Counted(link'[c], c, Acted(c)') /\ InOrder(c)'
    <3>1. /\ SaysSame(link[c], link'[c]) /\ link'[c].phase = link[c].phase
          /\ link'[c].held => link[c].held
      BY <1>1, <2>1, <2>3, HangupIs DEF Still
    <3> QED BY <1>7, <2>1, <3>1
  <2>4. CASE Drain
    <3> DEFINE out == taken + 1 .. taken + Takeable
               f == [tag |-> "o", out |-> out]
    <3>1. f \in Frames
      <4>1. /\ taken \in Nat /\ Takeable \in Nat /\ taken + Takeable <= MaxOut /\ MaxOut \in Nat
        BY <1>1, TakeableBound, Bounds DEF TypeOK
      <4>2. out \subseteq Outputs
        BY <4>1 DEF Outputs
      <4> QED BY <4>2 DEF Frames
    <3>2. \/ UNCHANGED link
          \/ client # NoConn /\ link' = Sent(client, f)
          \/ client # NoConn /\ link' = Hangup(client)
      BY <2>4 DEF Drain
    <3> HIDE DEF f
    <3> QED BY <1>6, <2>1, <2>2, <2>3, <3>1, <3>2
  <2>5. CASE PollExit
    <3>1. ExitFrame \in Frames
      BY DEF ExitFrame, Frames
    <3> QED BY <1>6, <2>1, <2>2, <2>5, <3>1 DEF PollExit
  <2> QED BY <1>8, <2>4, <2>5
<1>9. CASE Leave \/ Crash
  <2>1. link'[c] = Ended(c) /\ UNCHANGED did
    BY <1>9 DEF Leave, Crash
  <2>2. /\ SaysSame(link[c], link'[c]) /\ ~link'[c].held
        /\ link'[c].phase \in {link[c].phase, "closed"}
    BY <1>1, <2>1, EndedIs DEF Still
  <2>3. link'[c].phase \in {"idle", "hello"} => link[c].phase \in {"idle", "hello"}
    BY <2>2
  <2> QED BY <1>7, <2>1, <2>2, <2>3
<1>10. ASSUME NEW d \in Conns, Attach(d)
       PROVE  Counted(link'[c], c, Acted(c)') /\ InOrder(c)'
  <2>1. /\ UNCHANGED did /\ link[d].backlog
        /\ link'[c] = IF c = d THEN Greeted(c)
                      ELSE IF c = client THEN Displaced(c) ELSE link[c]
    BY <1>10 DEF Attach, Welcome
  <2>2. CASE c # d
    <3>1. /\ SaysSame(link[c], link'[c]) /\ link'[c].phase = link[c].phase
          /\ link'[c].held => link[c].held
      <4>1. CASE c = client
        BY <1>1, <2>1, <2>2, <4>1, DisplacedIs DEF Still
      <4>2. CASE c # client
        BY <2>1, <2>2, <4>2 DEF SaysSame
      <4> QED BY <4>1, <4>2
    <3> QED BY <1>7, <2>1, <3>1
  <2>3. CASE c = d
    <3> DEFINE l == link[c]
               m == link'[c]
               n == Acted(c)
    <3>1. /\ SaysSame(l, m)
          /\ l.phase = "closed" => m.phase = "closed"
          /\ l.phase # "closed" => m.phase = "live"
      BY <1>1, <2>1, <2>3, GreetedIs
    <3>2. l.phase \in {"hello", "closed"}
      BY <2>1, <2>3 DEF StreamInv, Good, Quiet
    <3>3. Counted(l, c, n)
      BY <1>4
    <3> HIDE DEF l, m, n
    <3>4. CASE l.phase = "closed"
      <4>1. Counted(m, c, n)
        BY <3>1, <3>3, <3>4, CountedSame
      <4> QED BY <1>5, <2>1, <4>1 DEF m, n
    <3>5. CASE l.phase = "hello"
      <4>1. m.said = 0 /\ m.up = <<>> /\ m.saying = "nothing" /\ n = 0 /\ m.phase = "live"
        BY <3>1, <3>3, <3>5 DEF Counted, SaysSame
      <4>2. DOMAIN m.up = {} /\ m.said = n + Len(m.up) + Half(m)
        BY <4>1 DEF Half
      <4>3. Counted(m, c, n)
        BY <4>1, <4>2 DEF Counted
      <4> QED BY <1>5, <2>1, <4>3 DEF m, n
    <3> QED BY <3>2, <3>4, <3>5
  <2> QED BY <2>2, <2>3
<1>11. ASSUME NEW d \in Conns, TurnAway(d)
       PROVE  Counted(link'[c], c, Acted(c)') /\ InOrder(c)'
  <2>1. UNCHANGED did
    BY <1>11 DEF TurnAway
  <2>2. CASE c = d
    <3>1. /\ SaysSame(link[c], link'[c]) /\ link'[c].held = link[c].held
          /\ link'[c].phase = "closed" \/ (link'[c].phase = "live" /\ link[c].phase = "hello")
      BY <1>1, <1>11, <2>2, TurnAwayIs DEF Still
    <3>2. link[c].phase = "hello" => ~link[c].held
      BY DEF IInv, LinkInv, Started
    <3> QED BY <1>7, <2>1, <3>1, <3>2
  <2>3. CASE c # d
    <3>1. link'[c] = link[c]
      BY <1>1, <1>11, <2>3, TurnAwayIs
    <3> QED BY <1>4, <1>5, <2>1, <3>1
  <2> QED BY <2>2, <2>3
<1>12. CASE ReadClient
  BY <1>12, TalkRead
<1>13. ASSUME NEW d \in Conns, Client(d)
       PROVE  Counted(link'[c], c, Acted(c)') /\ InOrder(c)'
  <2>1. UNCHANGED did
    BY <1>13 DEF Client, Connect, SayHead, SayRest, Close, Receive, EndOfStream
  <2>2. CASE link'[c] = link[c]
    BY <1>4, <1>5, <2>1, <2>2
  <2>3. CASE c = d
    <3>1. ASSUME NEW h \in Hellos, Connect(c, h)
          PROVE  Counted(link'[c], c, Acted(c)') /\ InOrder(c)'
      <4>1. /\ SaysSame(link[c], link'[c]) /\ link[c].phase = "idle"
            /\ link'[c].phase \in {"closed", "hello"}
        BY <1>1, <3>1, ConnectIs DEF Still
      <4> QED BY <1>7, <2>1, <4>1
    <3>2. ASSUME NEW kind \in Kinds, SayHead(c, kind)
          PROVE  Counted(link'[c], c, Acted(c)') /\ InOrder(c)'
      <4>1. Counted(link'[c], c, Acted(c))
        BY <1>1, <3>2, TalkHead
      <4> QED BY <1>5, <2>1, <4>1
    <3>3. CASE SayRest(c)
      <4>1. Counted(link'[c], c, Acted(c))
        BY <1>1, <3>3, TalkRest
      <4> QED BY <1>5, <2>1, <4>1
    <3>4. CASE Close(c)
      <4>1. SaysSame(link[c], link'[c]) /\ link'[c].phase = "closed"
        BY <1>1, <3>4, CloseIs
      <4> QED BY <1>7, <2>1, <4>1
    <3>5. CASE Receive(c)
      <4>1. /\ SaysSame(link[c], link'[c]) /\ link[c].phase = "live" /\ link'[c].phase = "live"
            /\ link'[c].held = link[c].held
        BY <1>1, <3>5, ReceiveIs
      <4> QED BY <1>7, <2>1, <4>1
    <3>6. CASE EndOfStream(c)
      <4>1. /\ SaysSame(link[c], link'[c]) /\ link'[c].phase = link[c].phase
            /\ link'[c].held = link[c].held
        BY <1>1, <3>6, EndOfStreamIs DEF Still
      <4> QED BY <1>7, <2>1, <4>1
    <3> QED BY <1>13, <2>3, <3>1, <3>2, <3>3, <3>4, <3>5, <3>6 DEF Client
  <2>4. c # d => link'[c] = link[c]
    BY <1>1, <1>13, ClientAlone
  <2> QED BY <2>2, <2>3, <2>4
<1>14. CASE Emit \/ ShellExits \/ PtyReader \/ PollLinger \/ AcceptNone \/ ReadNobody \/ Linger
            \/ UNCHANGED vars
  BY <1>6, <1>14 DEF Emit, ShellExits, PtyReader, PollLinger, AcceptNone, ReadNobody, Linger, vars
<1> QED
  BY <1>8, <1>9, <1>10, <1>11, <1>12, <1>13, <1>14 DEF Next, Holder

LEMMA TalkInitial == Init => TalkInv
<1> SUFFICES ASSUME Init PROVE TalkInv
  OBVIOUS
<1>1. did = <<>> /\ Len(did) = 0 /\ DOMAIN did = {}
  BY DEF Init
<1>2. \A c \in Conns : link[c] = Idle /\ Acted(c) = 0
  <2> SUFFICES ASSUME NEW c \in Conns PROVE Acted(c) = 0 /\ link[c] = Idle
    OBVIOUS
  <2>1. {j \in 1 .. 0 : did[j].by = c} = {}
    OBVIOUS
  <2> QED BY <1>1, <2>1, FS_EmptySet DEF Acted, Count, Init
<1>3. DOMAIN Idle.up = {}
  BY DEF Idle
<1> QED
  BY <1>1, <1>2, <1>3 DEF Init, Idle, TalkInv, Counted, InOrder, OwnBuffer

THEOREM TalkAlways == Spec => []TalkInv
<1>1. (IInv /\ StreamInv) /\ (IInv /\ StreamInv)' /\ TalkInv /\ [Next]_vars => TalkInv'
  BY TalkStep
<1> QED
  BY <1>1, StreamAlways, TalkInitial, PTL DEF Spec

(* No frame is made up of two connections' bytes, and each connection's    *)
(* frames are acted on in the order sent, with none left out before one    *)
(* that is.                                                                *)
THEOREM FramesWholeAlways == Spec => []FramesWhole
<1>1. TalkInv => FramesWhole
  BY DEF TalkInv, OwnBuffer, FramesWhole
<1> QED BY <1>1, TalkAlways, PTL
-----------------------------------------------------------------------------
LEMMA KeptStep ==
  ASSUME TypeOK, [Next]_vars, shell = "running", shell' = "killed"
  PROVE  pc' = "left" \/ \E i \in DOMAIN did' \ DOMAIN did : did'[i].kind = "k"
<1> USE DEF ptyVars, holderVars
<1>1. CASE Crash
  BY <1>1 DEF Crash
<1>2. CASE ReadClient
  <2> DEFINE t == link[client].up
  <2>1. client \in Conns /\ did' = did \o t /\ \E k \in DOMAIN t : t[k].kind = "k"
    BY <1>2 DEF ReadClient, Arrived, Kills, TypeOK
  <2>2. did \in Seq(Said) /\ t \in Seq(Said)
    BY <2>1, LinkTyped DEF TypeOK
  <2> HIDE DEF t
  <2>3. PICK k \in DOMAIN t : t[k].kind = "k"
    BY <2>1
  <2> DEFINE a == Len(did)
             b == Len(t)
             u == did \o t
  <2>4. /\ a \in Nat /\ b \in Nat /\ DOMAIN did = 1 .. a /\ DOMAIN u = 1 .. a + b
        /\ DOMAIN t = 1 .. b /\ \A i \in a + 1 .. a + b : u[i] = t[i - a]
    BY <2>2
  <2> HIDE DEF a, b, u
  <2>5. /\ k + a \in DOMAIN u /\ k + a \notin DOMAIN did /\ k + a \in a + 1 .. a + b
        /\ (k + a) - a = k
    BY <2>4
  <2>6. u[k + a].kind = "k"
    BY <2>3, <2>4, <2>5
  <2>7. did' = u
    BY <2>1 DEF u
  <2> QED BY <2>5, <2>6, <2>7
<1>3. ASSUME NEW c \in Conns, Client(c) \/ Attach(c) \/ TurnAway(c) PROVE shell' = shell
  BY <1>3 DEF Client, Connect, SayHead, SayRest, Close, Receive, EndOfStream, Attach, Welcome,
              TurnAway
<1>4. CASE Emit \/ ShellExits \/ PtyReader \/ Drain \/ PollExit \/ PollLinger \/ Leave
           \/ AcceptNone \/ ReadNobody \/ Linger \/ UNCHANGED vars
  BY <1>4 DEF Emit, ShellExits, PtyReader, Drain, PollExit, PollLinger, Leave, AcceptNone,
              ReadNobody, Linger, vars
<1> QED
  BY <1>1, <1>2, <1>3, <1>4 DEF Next, Holder

(* Nothing kills the shell but its holder's death and a frame that says    *)
(* so: not a window that leaves, nor one that is displaced or turned away. *)
THEOREM ShellKeptAlways == Spec => ShellKept
<1>1. TypeOK /\ [Next]_vars =>
        [shell = "running" /\ shell' = "killed" =>
           pc' = "left" \/ \E i \in DOMAIN did' \ DOMAIN did : did'[i].kind = "k"]_vars
  BY KeptStep
<1> QED
  BY <1>1, TypeCorrect, PTL DEF Spec, ShellKept
=============================================================================

-------------------------------- MODULE Hold --------------------------------
(***************************************************************************)
(* A held shell: the nus-hold process that owns a pty (crates/hold), and   *)
(* the connections that attach to it, probe it and leave it again          *)
(* (crates/pty/src/hold.rs).  The holder is one loop on one thread:        *)
(*                                                                         *)
(*     drain the pty -> poll the exit -> accept -> read the client -> ...  *)
(*                                                                         *)
(* and pc names the stage it is at.  Every connection is one attempt by    *)
(* one process (a window of the app, a start screen's probe); the shell,   *)
(* the pty's reader thread and the clients run between any two stages.     *)
(*                                                                         *)
(* What the shell writes is numbered 1, 2, 3, ...  For each n in Asks the  *)
(* outputs n and n + 1 are the two halves of a cursor-position ask         *)
(* (ESC [ 6 n), which somebody must answer: the holder looks for it in     *)
(* what it takes at once, and a take may end between the halves.           *)
(***************************************************************************)
EXTENDS Naturals, FiniteSets, Sequences

CONSTANTS
  Conns,      (* connection attempts                                       *)
  NoConn,     (* "nobody attached"                                         *)
  Asks,       (* the outputs that begin a cursor-position ask              *)
  RingCap,    (* outputs the ring retains                                  *)
  TakeMax,    (* outputs one take_output returns at most (1 MiB)           *)
  QueueCap,   (* outputs the pty's reader thread may queue (sync_channel)  *)
  WireCap,    (* frames a socket holds before a send would block           *)
  MaxOut,     (* bound: outputs of the shell                               *)
  MaxSay      (* bound: frames a connection sends                          *)

ASSUME NoConnAssumption == NoConn \notin Conns
ASSUME BoundsAssumption ==
  /\ Asks \subseteq Nat /\ \A n \in Asks : n + 1 \notin Asks
  /\ {RingCap, MaxOut, MaxSay} \subseteq Nat
  /\ {TakeMax, QueueCap, WireCap} \subseteq Nat \ {0}

VARIABLES
  shell,      (* "running", "exited" by itself, or "killed"                *)
  emitted,    (* outputs the shell has written to its pty                  *)
  queued,     (* of those, the ones the reader thread has passed on        *)
  parked,     (* pty.kill() has given the output away to a drain thread    *)
  taken,      (* of the queued ones, those the holder has taken            *)
  pc,         (* the stage of the holder's loop, or "left"                 *)
  ring,       (* the retained output                                       *)
  stripped,   (* history: the outputs kept out of it, whole asks           *)
  client,     (* the attached connection                                   *)
  inbuf,      (* whose half-read frame the read buffer holds, or NoConn    *)
  exited,     (* the holder has seen the exit                              *)
  late,       (* 300 ms have passed since then                             *)
  file,       (* the holder's file is in the directory                     *)
  answered,   (* history: of those, the asks the holder answered itself    *)
  did,        (* history: the frames acted on                              *)
  link        (* per connection, both ends of it                           *)

ptyVars    == <<shell, emitted, queued, parked>>
holderVars == <<taken, pc, ring, stripped, client, inbuf, exited, late, file, answered, did>>
vars       == <<ptyVars, holderVars, link>>

Hellos  == {"attach", "probe"}              \* a bad hello fares as a probe
Kinds   == {"w", "k"}                       \* bytes for the shell; a kill
Outputs == 1 .. MaxOut

(* A stretch of output is the set of its numbers; what keeps stretches in  *)
(* order is the sequence they are sent in.                                 *)
Said   == [by : Conns, n : 0 .. MaxSay, kind : Kinds]
Frames == [tag : {"h", "o", "x"}, out : SUBSET Outputs]
ExitFrame == [tag |-> "x", out |-> {}]

Links == [phase   : {"idle", "hello", "live", "closed"},
          hello   : Hellos,
          backlog : BOOLEAN,                 \* connected, not accepted yet
          held    : BOOLEAN,                 \* the holder's end is open
          said    : 0 .. MaxSay,             \* frames begun
          saying  : Kinds \cup {"nothing"},  \* the one only half written
          up      : Seq(Said),               \* written and not yet read
          down    : Seq(Frames),             \* the same, holder to client
          got     : Seq(SUBSET Outputs),     \* output read by the client
          exit    : {"none", "code", "gone"}]

Idle == [phase |-> "idle", hello |-> "probe", backlog |-> FALSE, held |-> FALSE,
         said |-> 0, saying |-> "nothing", up |-> <<>>, down |-> <<>>, got |-> <<>>,
         exit |-> "none"]

TypeOK ==
  /\ shell \in {"running", "exited", "killed"} /\ parked \in BOOLEAN
  /\ emitted \in 0 .. MaxOut /\ queued \in 0 .. emitted /\ taken \in 0 .. queued
  /\ pc \in {"drain", "poll", "accept", "read", "left"}
  /\ ring \in SUBSET (1 .. taken) /\ stripped \in SUBSET (1 .. taken)
  /\ client \in Conns \cup {NoConn} /\ inbuf \in Conns \cup {NoConn}
  /\ exited \in BOOLEAN /\ late \in BOOLEAN /\ file \in BOOLEAN
  /\ answered \in SUBSET (1 .. taken)
  /\ did \in Seq(Said)
  /\ link \in [Conns -> Links]

Init ==
  /\ shell = "running" /\ parked = FALSE
  /\ emitted = 0 /\ queued = 0 /\ taken = 0
  /\ pc = "drain" /\ ring = {} /\ stripped = {} /\ client = NoConn /\ inbuf = NoConn
  /\ exited = FALSE /\ late = FALSE /\ file = TRUE
  /\ answered = {} /\ did = <<>>
  /\ link = [c \in Conns |-> Idle]
-----------------------------------------------------------------------------
(* The shell and the pty's reader thread.                                  *)

Emit ==
  /\ shell = "running" /\ emitted < MaxOut
  /\ emitted' = emitted + 1
  /\ UNCHANGED <<shell, queued, parked, holderVars, link>>

ShellExits ==
  /\ shell = "running"
  /\ shell' = "exited"
  /\ UNCHANGED <<emitted, queued, parked, holderVars, link>>

(* The reader thread parks on a full channel.                              *)
PtyReader ==
  /\ queued < emitted /\ queued - taken < QueueCap /\ ~parked
  /\ queued' = queued + 1
  /\ UNCHANGED <<shell, emitted, parked, holderVars, link>>
-----------------------------------------------------------------------------
(* The holder's loop.                                                      *)

(* The asks both halves of which are in what was taken are matched: they   *)
(* are kept out of the ring, and counted for the holder's answer.  An ask  *)
(* cut by the end of a take is neither.                                    *)
Matched(out) == {m \in out : \E n \in Asks : m \in {n, n + 1} /\ {n, n + 1} \subseteq out}

Stripped_none(out) == out
Stripped(out) == out \ Matched(out)

Retain_oldest(out) == {n \in out : Cardinality({m \in out : m < n}) < RingCap}
Retain_short(out) == {n \in out : Cardinality({m \in out : m > n}) + 1 < RingCap}
Retain(out) == {n \in out : Cardinality({m \in out : m > n}) < RingCap}

(* A send to a non-blocking socket goes through while the socket has room; *)
(* a full one refuses it.  One whose far end has closed does either: the   *)
(* bytes vanish, or the reset has arrived and the write fails.             *)
CanSend(c) == link[c].phase = "closed" \/ Len(link[c].down) < WireCap
CanFail(c) == link[c].phase = "closed" \/ Len(link[c].down) >= WireCap

Sent(c, frame) ==
  IF link[c].phase = "closed" THEN link
  ELSE [link EXCEPT ![c].down = Append(@, frame)]

(* Dropping a socket closes the holder's end.                              *)
Hangup(c) == [link EXCEPT ![c].held = FALSE]

Takeable == IF parked THEN 0
            ELSE IF queued - taken <= TakeMax THEN queued - taken ELSE TakeMax

Drain ==
  /\ pc = "drain" /\ pc' = "poll"
  /\ taken' = taken + Takeable
  /\ LET out == taken + 1 .. taken + Takeable
     IN  /\ ring' = Retain(ring \cup Stripped(out))
         /\ stripped' = stripped \cup Matched(out)
         /\ \/ /\ out = {}
               /\ UNCHANGED <<client, answered, link>>
            \/ /\ out # {} /\ client = NoConn
               /\ answered' = answered \cup Matched(out)
               /\ UNCHANGED <<client, link>>
            \/ /\ out # {} /\ client # NoConn /\ CanSend(client)
               /\ link' = Sent(client, [tag |-> "o", out |-> out])
               /\ UNCHANGED <<client, answered>>
            \/ /\ out # {} /\ client # NoConn /\ CanFail(client)
               /\ link' = Hangup(client)
               /\ client' = NoConn
               /\ UNCHANGED answered
  /\ UNCHANGED <<ptyVars, inbuf, exited, late, file, did>>

(* The exit is told to the client once; whether the send worked is not     *)
(* asked.  The loop goes on until the 300 ms have passed.                  *)
PollExit ==
  /\ pc = "poll" /\ ~exited
  /\ pc' = "accept"
  /\ exited' = (shell # "running")
  /\ IF shell # "running" /\ client # NoConn
     THEN \/ CanSend(client) /\ link' = Sent(client, ExitFrame)
          \/ CanFail(client) /\ UNCHANGED link
     ELSE UNCHANGED link
  /\ UNCHANGED <<ptyVars, taken, ring, stripped, client, inbuf, late, file, answered, did>>

PollLinger ==
  /\ pc = "poll" /\ exited /\ ~late
  /\ pc' = "accept"
  /\ UNCHANGED <<ptyVars, taken, ring, stripped, client, inbuf, exited, late, file, answered, did, link>>

LingerAlone ==
  /\ exited /\ ~late /\ pc # "left" /\ client = NoConn
  /\ late' = TRUE
  /\ UNCHANGED <<ptyVars, taken, pc, ring, stripped, client, inbuf, exited, file, answered, did, link>>

Linger ==
  /\ exited /\ ~late /\ pc # "left"
  /\ late' = TRUE
  /\ UNCHANGED <<ptyVars, taken, pc, ring, stripped, client, inbuf, exited, file, answered, did, link>>

(* The process ends: its file goes, its sockets close, and a connection    *)
(* still waiting to be accepted is refused.  (That nobody is served any    *)
(* more from the file's removal on makes the two one step.)                *)
Ended(c) == [link[c] EXCEPT !.held = FALSE, !.backlog = FALSE,
                            !.phase = IF @ = "hello" THEN "closed" ELSE @]

Leave ==
  /\ pc = "poll" /\ exited /\ late
  /\ pc' = "left" /\ file' = FALSE /\ client' = NoConn
  /\ link' = [c \in Conns |-> Ended(c)]
  /\ UNCHANGED <<ptyVars, taken, ring, stripped, inbuf, exited, late, answered, did>>

AcceptNone ==
  /\ pc = "accept" /\ \A c \in Conns : ~link[c].backlog
  /\ pc' = "read"
  /\ UNCHANGED <<ptyVars, taken, ring, stripped, client, inbuf, exited, late, file, answered, did, link>>

(* A good hello: the greeting and the ring go out, and the newcomer        *)
(* replaces whoever was attached, whose socket is dropped.  The hello of a *)
(* process that has since given up is still in the socket and still good.  *)
Displaced(d) == [link[d] EXCEPT !.held = FALSE]

Greeted(c) ==
  IF link[c].phase = "closed"
  THEN [link[c] EXCEPT !.backlog = FALSE, !.held = TRUE]
  ELSE [link[c] EXCEPT !.backlog = FALSE, !.held = TRUE, !.phase = "live",
                       !.down = <<[tag |-> "h", out |-> ring]>>]

Welcome(c, left) ==
  /\ pc = "accept" /\ link[c].backlog /\ link[c].hello = "attach"
  /\ pc' = "read"
  /\ client' = c /\ inbuf' = left
  /\ link' = [d \in Conns |-> IF d = c THEN Greeted(c)
                              ELSE IF d = client THEN Displaced(d) ELSE link[d]]
  /\ UNCHANGED <<ptyVars, taken, ring, stripped, exited, late, file, answered, did>>

Attach_dirty(c) == Welcome(c, inbuf)
Attach(c) == Welcome(c, NoConn)

(* It was a probe, or the greeting or the ring did not go out in 500 ms;   *)
(* one that has had its greeting and not the ring is a window all the      *)
(* same, until its reader sees the stream end.  Whoever was attached stays.*)
TurnedTo(l) == IF l.phase = "hello" /\ l.hello = "attach" THEN {"closed", "live"} ELSE {"closed"}

TurnAway(c) ==
  /\ pc = "accept" /\ link[c].backlog
  /\ pc' = "read"
  /\ \E to \in TurnedTo(link[c]) :
       link' = [link EXCEPT ![c].backlog = FALSE, ![c].phase = to]
  /\ UNCHANGED <<ptyVars, taken, ring, stripped, client, inbuf, exited, late, file, answered, did>>

(* The complete frames among what has arrived; half a frame stays in the   *)
(* buffer (parse_frames).                                                  *)
Arrived(c) == link[c].up

Kills_gone(todo, gone) == gone \/ \E i \in DOMAIN todo : todo[i].kind = "k"
Kills(todo, gone) == \E i \in DOMAIN todo : todo[i].kind = "k"

(* Everything that has arrived is read, the complete frames acted on; a    *)
(* client that has closed is dropped.                                      *)
ReadNobody ==
  /\ pc = "read" /\ client = NoConn
  /\ pc' = "drain"
  /\ UNCHANGED <<ptyVars, taken, ring, stripped, client, inbuf, exited, late, file, answered, did, link>>

ReadClient ==
  /\ pc = "read" /\ client # NoConn
  /\ pc' = "drain"
  /\ LET todo == Arrived(client)
         gone == link[client].phase = "closed"
         kill == Kills(todo, gone)
     IN  /\ did' = did \o todo
         /\ shell' = IF kill /\ shell = "running" THEN "killed" ELSE shell
         /\ parked' = (parked \/ kill)
         /\ inbuf' = IF gone \/ link[client].saying = "nothing" THEN NoConn ELSE client
         /\ client' = IF gone THEN NoConn ELSE client
         /\ link' = [link EXCEPT ![client].up = <<>>, ![client].held = ~gone]
  /\ UNCHANGED <<emitted, queued, taken, ring, stripped, exited, late, file, answered>>

Holder ==
  \/ Drain \/ PollExit \/ PollLinger \/ Leave \/ AcceptNone \/ ReadNobody \/ ReadClient
  \/ \E c \in Conns : Attach(c) \/ TurnAway(c)

(* The holder is killed: its sockets close and its pty hangs up on the     *)
(* shell, but its file stays behind.                                       *)
Crash ==
  /\ pc # "left"
  /\ pc' = "left" /\ client' = NoConn
  /\ shell' = IF shell = "running" THEN "killed" ELSE shell
  /\ link' = [c \in Conns |-> Ended(c)]
  /\ UNCHANGED <<emitted, queued, parked, taken, ring, stripped, inbuf, exited, late, file, answered, did>>
-----------------------------------------------------------------------------
(* A connection's own end.                                                 *)

Stale(h) == pc = "left" /\ h = "probe"

(* The directory's file says where the holder listens.  Nobody listening   *)
(* there is what proves the file stale, and a probe then removes it.       *)
Connect(c, h) ==
  /\ link[c].phase = "idle" /\ file
  /\ link' = [link EXCEPT ![c].hello = h, ![c].backlog = (pc # "left"),
                          ![c].phase = IF pc = "left" THEN "closed" ELSE "hello"]
  /\ file' = (file /\ ~Stale(h))
  /\ UNCHANGED <<ptyVars, taken, pc, ring, stripped, client, inbuf, exited, late, answered, did>>

(* A frame leaves in more than one write, and the holder may read between. *)
(* What is written after the holder has let go reaches nobody.             *)
SayHead(c, kind) ==
  /\ link[c].phase = "live" /\ link[c].saying = "nothing" /\ link[c].said < MaxSay
  /\ link' = [link EXCEPT ![c].said = @ + 1, ![c].saying = kind]
  /\ UNCHANGED <<ptyVars, holderVars>>

SayRest(c) ==
  /\ link[c].phase = "live" /\ link[c].saying # "nothing"
  /\ LET frame == [by |-> c, n |-> link[c].said, kind |-> link[c].saying]
     IN  link' = [link EXCEPT ![c].saying = "nothing",
                              ![c].up = IF link[c].held THEN Append(@, frame) ELSE @]
  /\ UNCHANGED <<ptyVars, holderVars>>

(* Dropping the Client, giving up on the greeting, or the app dying.       *)
Close(c) ==
  /\ link[c].phase \in {"hello", "live"}
  /\ link' = [link EXCEPT ![c].phase = "closed", ![c].down = <<>>]
  /\ UNCHANGED <<ptyVars, holderVars>>

(* The hold-reader thread: output to the app, until the exit code; or the  *)
(* end of a stream that never gave one.                                    *)
Reading(c) == link[c].phase = "live" /\ link[c].exit = "none"

Receive(c) ==
  /\ Reading(c) /\ link[c].down # <<>>
  /\ LET frame == Head(link[c].down)
     IN  link' = [link EXCEPT ![c].down = Tail(@),
                    ![c].got  = Append(@, frame.out),
                    ![c].exit = IF frame.tag = "x" THEN "code" ELSE @]
  /\ UNCHANGED <<ptyVars, holderVars>>

EndOfStream_unheard(c) ==
  /\ Reading(c) /\ link[c].down = <<>> /\ ~link[c].held
  /\ UNCHANGED vars

EndOfStream(c) ==
  /\ Reading(c) /\ link[c].down = <<>> /\ ~link[c].held
  /\ link' = [link EXCEPT ![c].exit = "gone"]
  /\ UNCHANGED <<ptyVars, holderVars>>
-----------------------------------------------------------------------------
Client(c) ==
  \/ \E h \in Hellos : Connect(c, h)
  \/ \E kind \in Kinds : SayHead(c, kind)
  \/ SayRest(c) \/ Close(c) \/ Receive(c) \/ EndOfStream(c)

Next == \/ Emit \/ ShellExits \/ PtyReader
        \/ Holder \/ Linger \/ Crash
        \/ \E c \in Conns : Client(c)

(* Threads run and clocks advance; the shell, the user and crashes owe     *)
(* nothing.                                                                *)
Fairness ==
  /\ WF_vars(Holder) /\ WF_vars(PtyReader) /\ WF_vars(Linger)
  /\ \A c \in Conns : WF_vars(Receive(c)) /\ WF_vars(EndOfStream(c)) /\ WF_vars(SayRest(c))

Spec == Init /\ [][Next]_vars
FairSpec == Spec /\ Fairness
-----------------------------------------------------------------------------
(* What a connection has received and what is on its way to it, in order;  *)
(* and all of it together.                                                 *)
Stream(c) == link[c].got \o [i \in DOMAIN link[c].down |-> link[c].down[i].out]
Seen(l) == (UNION {l.got[i] : i \in DOMAIN l.got}) \cup
           (UNION {l.down[i].out : i \in DOMAIN l.down})
Saw(c) == Seen(link[c])

(* One at a time: the holder keeps exactly one socket open, the attached   *)
(* one, and that is one that said a good hello: a probe never displaces a  *)
(* window.                                                                 *)
OneAttached ==
  \A c \in Conns : /\ link[c].held <=> c = client
                   /\ c = client => link[c].hello = "attach"

(* What a connection sees is a stretch of the shell's output with nothing  *)
(* missing and nothing twice: the ring, then every output since, although  *)
(* the ring is cut and handed over between two drains.  (Whole asks are    *)
(* left out of the ring, so only they may be missing.)                     *)
NoGap ==
  \A c \in Conns : LET s == Stream(c) IN
    /\ \A i, j \in DOMAIN s : i < j => \A m \in s[i], n \in s[j] : m < n
    /\ \A m, n \in Saw(c) : m .. n \subseteq Saw(c) \cup stripped

(* And the attached one is up to date with what the holder has taken.      *)
UpToDate ==
  client # NoConn /\ link[client].phase = "live" =>
    \A n \in 1 .. taken : \/ n \in Saw(client) \cup stripped
                          \/ Cardinality(n + 1 .. taken \ stripped) >= RingCap

(* A cursor-position ask the holder takes whole is answered once: by the   *)
(* holder, and then nobody is shown any of it, or by the one client it was *)
(* sent to, and never again by a later attach.                             *)
AskedOnce ==
  \A c \in Conns :
    /\ Saw(c) \cap answered = {}
    /\ \A d \in Conns \ {c} : Saw(c) \cap Saw(d) \cap stripped = {}

(* Bytes of two connections never make up one frame: half a frame of a     *)
(* connection that is gone is not the start of its successor's.  And a     *)
(* connection's frames are acted on in the order they were sent, none      *)
(* skipped until the holder lets go of it: its n-th frame is its n-th to   *)
(* be acted on.                                                            *)
InOrder(c) ==
  \A i \in DOMAIN did :
    did[i].by = c => did[i].n = Cardinality({j \in 1 .. i : did[j].by = c})

FramesWhole ==
  /\ client # NoConn => inbuf \in {client, NoConn}
  /\ \A c \in Conns : InOrder(c)

(* A window is told of an exit code only when the shell has ended, and a   *)
(* stream is never read past it.                                           *)
ExitTold ==
  \A c \in Conns : link[c].exit = "code" => exited /\ shell # "running"

(* The file outlives its holder, never the other way round: a probe that   *)
(* is answered late or not at all removes nothing.                         *)
FileKept == pc # "left" => file

(* The invariant behind these four.  What a connection may have seen was   *)
(* taken before, so output just taken is nobody's yet; the ring holds none *)
(* of the asks taken whole; a connection the holder has open is one that has been accepted;    *)
(* and an exit frame is on its way only once the exit has been seen.       *)
Fresh     == \A c \in Conns : Saw(c) \subseteq 1 .. taken
NoAskKept == ring \cap stripped = {} /\ answered \subseteq stripped
Started   == \A c \in Conns : link[c].held => link[c].phase \in {"live", "closed"}
ExitSeen  == /\ exited => shell # "running"
             /\ \A c \in Conns : \A i \in DOMAIN link[c].down :
                  link[c].down[i].tag = "x" => exited

AskInv  == Fresh /\ NoAskKept /\ AskedOnce
LinkInv == OneAttached /\ Started
ExitInv == ExitSeen /\ ExitTold
IInv    == TypeOK /\ AskInv /\ LinkInv /\ ExitInv /\ FileKept

(* A window leaving, a probe or a new window never ends the shell: it ends *)
(* by itself, with its holder, or because somebody said so.                *)
ShellKept ==
  [][shell = "running" /\ shell' = "killed" =>
       pc' = "left" \/ \E i \in DOMAIN did' \ DOMAIN did : did'[i].kind = "k"]_vars

(* Once the shell has ended the holder leaves and its file goes.           *)
HolderLeaves == shell # "running" ~> pc = "left"

(* A window still open when the shell ends hears of it, one way or another *)
(* (a pane is removed only then).                                          *)
EveryoneHears ==
  \A c \in Conns :
    (link[c].phase = "live" /\ shell # "running")
       ~> (link[c].phase = "closed" \/ link[c].exit # "none")

(* main.rs: the ask stays out of the ring, so a later attach does not      *)
(* answer it twice.                                                        *)
NeverAskedAgain ==
  \A n \in Asks : \A c \in Conns : {n, n + 1} \subseteq Saw(c) =>
    \A d \in Conns \ {c} : ~({n, n + 1} \subseteq Saw(d))

Killing(c) == client = c /\ \E i \in DOMAIN link[c].up : link[c].up[i].kind = "k"

(* hold_close.rs: closing a tab says kill and drops its end in the same    *)
(* breath, and everything the shell started goes with it.                  *)
KillTakes == \A c \in Conns : Killing(c) ~> shell # "running"

(* main.rs: after the exit, a moment for the last bytes to reach a client. *)
LastBytesFirst ==
  \A c \in Conns : link[c].exit = "code" /\ shell = "exited" =>
    1 .. emitted \subseteq Saw(c)
=============================================================================

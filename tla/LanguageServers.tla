-------------------------- MODULE LanguageServers --------------------------
(***************************************************************************)
(* Buffers of the editor and the language servers that follow them: what   *)
(* the app starts, opens, sends and asks (spikes/composite/src/lsp_host.rs)*)
(* and the client that carries it to a process which may stop reading,     *)
(* answer late or die (crates/lsp/src/lib.rs).                             *)
(*                                                                         *)
(* A text is a number that no other edit gives.  The client's writer and   *)
(* the pipe are one queue: the writer's snapshots follow what it has sent, *)
(* so that a difference is always one to the text the server has.          *)
(***************************************************************************)
EXTENDS Integers, Sequences, FiniteSets, SequencesExt

CONSTANTS
  Buffers, Servers,
  ServerOf,     (* buffer -> the server of its language and root           *)
  NoBuffer,     (* in a message that is about none                         *)
  QueueCap,     (* the client's queue, 32 in the code                      *)
  MaxText,      (* bound: edits of a buffer                                *)
  MaxSpawn,     (* bound: processes started for a server                   *)
  MaxRequest    (* bound: requests to one process, initialize included    *)

ASSUME LanguageServersAssumption ==
  /\ IsFiniteSet(Buffers) /\ ServerOf \in [Buffers -> Servers]
  /\ NoBuffer \notin Buffers
  /\ {QueueCap, MaxText, MaxSpawn, MaxRequest} \subseteq Nat \ {0}

VARIABLES
  open,       (* the buffers that are open                                 *)
  text, disk, (* buffer -> its text, and its file's                        *)
  pushed,     (* the buffers whose text is what was sent (synced_revision) *)
  in_lsp,     (* those the app takes for open in their server              *)
  saving,     (* those whose save waits for the formatter                  *)
  focus,      (* the active buffer of the focused editor                   *)
  pending,    (* what was asked: server, id, buffer, [history:] process    *)
  failed,     (* servers that are not started again                        *)
  installed,  (* servers there is a program for                            *)
  sv          (* server -> its client and process                          *)

editor  == <<open, text, disk, pushed, in_lsp, saving, focus>>
lspVars == <<editor, pending, failed, installed, sv>>
-----------------------------------------------------------------------------
Texts  == 0 .. MaxText
Gone   == -1
Ids    == 0 .. MaxRequest + 1
Msgs   == [kind : {"initialize", "open", "change", "close", "ask"},
           buffer : Buffers \cup {NoBuffer}, text : Texts, id : Ids]
Events == [kind : {"initialized", "answer", "exited"}, id : Ids]
Server == [state : {"none", "starting", "ready"}, gen : 0 .. MaxSpawn, next : Ids,
           known : SUBSET Buffers, out : Seq(Msgs), reads : BOOLEAN,
           docs : [Buffers -> Texts \cup {Gone}], todo : SUBSET Ids, told : BOOLEAN,
           inbox : Seq(Events)]

LspTypeOK ==
  /\ open \subseteq Buffers /\ text \in [Buffers -> Texts] /\ disk \in [Buffers -> Texts]
  /\ {pushed, in_lsp, saving} \subseteq SUBSET Buffers /\ in_lsp \cup saving \subseteq open
  /\ focus \in Buffers
  /\ pending \subseteq [server : Servers, id : Ids, buffer : Buffers, gen : 0 .. MaxSpawn,
                        save : BOOLEAN]
  /\ failed \subseteq Servers /\ installed \subseteq Servers
  /\ sv \in [Servers -> Server] /\ \A s \in Servers : Len(sv[s].out) <= QueueCap

NoServer(gen) ==
  [state |-> "none", gen |-> gen, next |-> 1, known |-> {}, out |-> <<>>, reads |-> FALSE,
   docs |-> [b \in Buffers |-> Gone], todo |-> {}, told |-> FALSE, inbox |-> <<>>]

LspInit ==
  /\ open = {} /\ text = [b \in Buffers |-> 0] /\ disk = text
  /\ pushed = {} /\ in_lsp = {} /\ saving = {} /\ focus \in Buffers
  /\ pending = {} /\ failed = {} /\ installed \in SUBSET Servers
  /\ sv = [s \in Servers |-> NoServer(0)]
-----------------------------------------------------------------------------
(* The client                                                              *)

Msg(k, b, t, i) == [kind |-> k, buffer |-> b, text |-> t, id |-> i]
Event(k, i) == [kind |-> k, id |-> i]

(* A server that leaves its queue full is ended, and the message is lost.  *)
Enqueue(v, m) ==
  IF Len(v.out) < QueueCap THEN [v EXCEPT !.out = Append(@, m)]
  ELSE [v EXCEPT !.reads = FALSE]

(* Several, one after the other: those for which there is room.            *)
EnqueueAll(v, ms) ==
  LET room == QueueCap - Len(v.out) IN
  IF Len(ms) <= room THEN [v EXCEPT !.out = @ \o ms]
  ELSE [v EXCEPT !.out = @ \o SubSeq(ms, 1, room), !.reads = FALSE]

Spawn(v) ==
  Enqueue([NoServer(v.gen + 1) EXCEPT !.state = "starting", !.reads = TRUE, !.next = 2],
          Msg("initialize", NoBuffer, 0, 1))

(* Each buffer of B is opened with its text, or closed, in some order.     *)
EachOf(B, k, t) == LET q == SetToSeq(B) IN [i \in 1 .. Cardinality(B) |-> Msg(k, q[i], t[q[i]], 0)]
DidOpen(v, B, t) == EnqueueAll([v EXCEPT !.known = @ \cup B], EachOf(B, "open", t))
DidClose(v, B) ==
  EnqueueAll([v EXCEPT !.known = @ \ B], EachOf(B, "close", [b \in B |-> 0]))

Requested(v, b) == Enqueue([v EXCEPT !.next = @ + 1], Msg("ask", b, 0, v.next))
-----------------------------------------------------------------------------
(* The host                                                                *)

Mine(B, s) == {b \in B : ServerOf[b] = s}

(* The client of a server: the one there is, or a new one if its program is*)
(* found and it has not failed.                                            *)
Reached(s, f) ==
  IF sv[s].state = "none" /\ s \in installed' \ f THEN Spawn(sv[s]) ELSE sv[s]
Fails(s, f) == sv[s].state = "none" /\ s \notin installed' \cup f

(* lsp_open_buffer, of each of the buffers.                                *)
OpenBuffers(B, f) ==
  LET S     == {ServerOf[b] : b \in B}
      ready == {b \in B : sv[ServerOf[b]].state = "ready"}
  IN  /\ \A s \in S : Reached(s, f).gen <= MaxSpawn
      /\ sv' = [s \in Servers |->
                  IF s \in S THEN DidOpen(Reached(s, f), Mine(ready, s), text) ELSE sv[s]]
      /\ failed' = f \cup {s \in S : Fails(s, f)}
      /\ in_lsp' = in_lsp \cup ready /\ pushed' = pushed \cup ready

OpenBuffer(b) ==
  /\ b \notin open /\ open' = open \cup {b} /\ focus' = b
  /\ installed' = installed /\ OpenBuffers({b}, failed)
  /\ UNCHANGED <<text, disk, saving, pending>>

(* A tool has been fetched: whatever had failed is tried again.            *)
Install(s) ==
  /\ installed' = installed \cup {s} /\ OpenBuffers(open \ in_lsp, {})
  /\ UNCHANGED <<open, text, disk, saving, focus, pending>>

(* editor_synced, after every key and answer: the text of the active buffer*)
(* goes to its server if it is not what was sent.                          *)
Synced(w, t, P) ==
  LET s == ServerOf[focus] IN
  /\ sv' = IF focus \in in_lsp \ P /\ w[s].state # "none"
           THEN [w EXCEPT ![s] = Enqueue(@, Msg("change", focus, t[focus], 0))] ELSE w
  /\ pushed' = P \cup ({focus} \cap in_lsp)

Edit ==
  /\ focus \in open /\ text[focus] < MaxText
  /\ text' = [text EXCEPT ![focus] = @ + 1] /\ Synced(sv, text', pushed \ {focus})
  /\ UNCHANGED <<open, disk, in_lsp, saving, focus, pending, failed, installed>>

Focus(b) ==
  /\ b \in open /\ focus' = b
  /\ UNCHANGED <<open, text, disk, pushed, in_lsp, saving, pending, failed, installed, sv>>

Asked_first(p) ==
  IF \E q \in pending : q.server = p.server /\ q.id = p.id THEN pending ELSE pending \cup {p}
Asked(p) == {q \in pending : q.server # p.server \/ q.id # p.id} \cup {p}

CanAsk(b) ==
  /\ b \in open \cap in_lsp /\ sv[ServerOf[b]].state = "ready"
  /\ sv[ServerOf[b]].next <= MaxRequest

Request(save) ==
  LET s == ServerOf[focus] IN
  /\ Synced([sv EXCEPT ![s] = Requested(@, focus)], text, pushed)
  /\ pending' = Asked([server |-> s, id |-> sv[s].next, buffer |-> focus,
                       gen |-> sv[s].gen, save |-> save])

(* Hover, completion, definition.                                          *)
EditorRequest ==
  /\ CanAsk(focus) /\ Request(FALSE)
  /\ UNCHANGED <<open, text, disk, in_lsp, saving, focus, failed, installed>>

(* editor_write: the active buffer, and its server, which may have to be   *)
(* started for it, hears of it; then what has changed is sent.             *)
Write(w, t, P) ==
  LET s == ServerOf[focus]
      v == IF w[s].state = "none" /\ s \in installed \ failed THEN Spawn(w[s]) ELSE w[s]
  IN  /\ v.gen <= MaxSpawn /\ disk' = [disk EXCEPT ![focus] = t[focus]]
      /\ failed' = IF v.state = "none" /\ s \notin installed THEN failed \cup {s} ELSE failed
      /\ Synced([w EXCEPT ![s] = v], t, P)

(* Save: through the formatter if there is one.                            *)
EditorSave ==
  /\ focus \in open
  /\ \/ CanAsk(focus) /\ Request(TRUE) /\ saving' = saving \cup {focus} /\ UNCHANGED <<disk, failed>>
     \/ Write(sv, text, pushed) /\ saving' = saving \ {focus} /\ UNCHANGED pending
  /\ UNCHANGED <<open, text, in_lsp, focus, installed>>

(* The answer is three seconds late.                                       *)
GiveUp(b) ==
  /\ b \in saving /\ saving' = saving \ {b}
  /\ UNCHANGED <<open, text, disk, pushed, in_lsp, focus, pending, failed, installed, sv>>

CloseBuffer(b) ==
  /\ b \in open /\ open' = open \ {b}
  /\ in_lsp' = in_lsp \ {b} /\ saving' = saving \ {b} /\ pushed' = pushed \ {b}
  /\ text' = [text EXCEPT ![b] = disk[b]]
  /\ UNCHANGED <<disk, focus, pending, failed, installed, sv>>

(* trim_language_servers: closed documents leave, and servers with none.   *)
Trimmed_quietly(s) ==
  IF Mine(open, s) = {} THEN NoServer(sv[s].gen)
  ELSE [sv[s] EXCEPT !.known = @ \cap Mine(open, s)]
Trimmed(s) ==
  IF Mine(open, s) = {} THEN NoServer(sv[s].gen)
  ELSE DidClose(sv[s], sv[s].known \ Mine(open, s))

Trim ==
  /\ sv' = [s \in Servers |-> IF sv[s].state = "none" THEN sv[s] ELSE Trimmed(s)]
  /\ pending' = {p \in pending : sv'[p.server].state # "none"}
  /\ UNCHANGED <<editor, failed, installed>>
-----------------------------------------------------------------------------
(* poll_lsp: one event                                                     *)

(* Every buffer of the server's that is not open there is opened.          *)
Initialized(s, v) ==
  LET B == Mine(open \ in_lsp, s) IN
  /\ sv' = [sv EXCEPT ![s] = DidOpen([v EXCEPT !.state = "ready"], B, text)]
  /\ in_lsp' = in_lsp \cup B /\ pushed' = pushed \cup B
  /\ UNCHANGED <<open, text, disk, saving, focus, pending, failed>>

Left_mine(s) == in_lsp
Left(s) == {}

(* The process has gone.  No buffer, of any server, is open in one any more*)
Exited(s) ==
  /\ sv' = [sv EXCEPT ![s] = NoServer(sv[s].gen)]
  /\ failed' = failed \cup {s} /\ in_lsp' = Left(s)
  /\ UNCHANGED <<open, text, disk, pushed, saving, focus, pending>>

(* The formatter's edits, if it has any, go into its buffer, if that is to *)
(* be found in the tab in front; then the active buffer is written, if the *)
(* focus is in an editor.                                                  *)
Formatted(p, w) ==
  \E found \in SUBSET ({p.buffer} \cap open) :
  \E t \in {text} \cup {[text EXCEPT ![b] = @ + 1] : b \in {c \in found : text[c] < MaxText}} :
    LET P == IF t = text THEN pushed ELSE pushed \ found IN
    /\ text' = t
    /\ \/ focus \in open /\ Write(w, t, P) /\ saving' = saving \ (found \cup {focus})
       \/ /\ focus \notin open /\ sv' = w /\ pushed' = P /\ saving' = saving \ found
          /\ UNCHANGED <<disk, failed>>

Answer(s, w, id) ==
  LET P == {p \in pending : p.server = s /\ p.id = id} IN
  /\ pending' = pending \ P
  /\ \/ \E p \in P : p.save /\ Formatted(p, w)
     \/ /\ \A p \in P : ~p.save
        /\ sv' = w /\ UNCHANGED <<text, disk, saving, pushed, failed>>
  /\ UNCHANGED <<open, in_lsp, focus>>

PollLsp(s) ==
  /\ sv[s].state # "none" /\ sv[s].inbox # <<>>
  /\ LET e == Head(sv[s].inbox)
         v == [sv[s] EXCEPT !.inbox = Tail(@)]
     IN  \/ e.kind = "initialized" /\ Initialized(s, v)
         \/ e.kind = "answer" /\ Answer(s, [sv EXCEPT ![s] = v], e.id)
         \/ e.kind = "exited" /\ Exited(s)
  /\ UNCHANGED installed
-----------------------------------------------------------------------------
(* The process, and the client's reader                                    *)

(* It reads one message.                                                   *)
Served(v, m) ==
  CASE m.kind = "initialize" -> [v EXCEPT !.inbox = Append(@, Event("initialized", 1))]
    [] m.kind \in {"open", "change"} -> [v EXCEPT !.docs[m.buffer] = m.text]
    [] m.kind = "close" -> [v EXCEPT !.docs[m.buffer] = Gone]
    [] m.kind = "ask" -> [v EXCEPT !.todo = @ \cup {m.id}]
    [] OTHER -> v

Serve(s) ==
  /\ sv[s].reads /\ sv[s].out # <<>>
  /\ sv' = [sv EXCEPT ![s] = [Served(sv[s], Head(sv[s].out)) EXCEPT !.out = Tail(@)]]
  /\ UNCHANGED <<editor, pending, failed, installed>>

(* It answers, in any order, until the end of its stream.                  *)
Reply(s, id) ==
  /\ ~sv[s].told /\ id \in sv[s].todo
  /\ sv' = [sv EXCEPT ![s].todo = @ \ {id}, ![s].inbox = Append(@, Event("answer", id))]
  /\ UNCHANGED <<editor, pending, failed, installed>>

(* It ends, or closes its input and lives on: then what is sent to it is   *)
(* lost, and nobody asks (enqueue ends it over a full queue only).         *)
Die(s) ==
  /\ sv[s].reads /\ sv' = [sv EXCEPT ![s].reads = FALSE]
  /\ UNCHANGED <<editor, pending, failed, installed>>

(* The reader comes to the end of the stream, after all that was answered. *)
Tell(s) ==
  /\ sv[s].state # "none" /\ ~sv[s].reads /\ ~sv[s].told
  /\ sv' = [sv EXCEPT ![s].told = TRUE, ![s].inbox = Append(@, Event("exited", 0))]
  /\ UNCHANGED <<editor, pending, failed, installed>>

LspNext ==
  \/ \E b \in Buffers : OpenBuffer(b) \/ Focus(b) \/ GiveUp(b) \/ CloseBuffer(b)
  \/ Edit \/ EditorRequest \/ EditorSave \/ Trim
  \/ \E s \in Servers :
       \/ Install(s) \/ PollLsp(s) \/ Serve(s) \/ Die(s) \/ Tell(s)
       \/ \E id \in sv[s].todo : Reply(s, id)

LspSpec == LspInit /\ [][LspNext]_lspVars

(* The app trims every ten seconds; a process that has not ended or closed *)
(* its input reads.                                                        *)
FairLspSpec == LspSpec /\ WF_lspVars(Trim) /\ \A s \in Servers : WF_lspVars(Serve(s))
-----------------------------------------------------------------------------
(* What a server has of a buffer, and is about to read: what is under way  *)
(* to it last, or, with nothing under way, the document it has, is x.      *)
About(m, b) == m.buffer = b /\ m.kind \in {"open", "change", "close"}
Says(m) == IF m.kind = "close" THEN Gone ELSE m.text
HeardOf(v, b) == {i \in DOMAIN v.out : About(v.out[i], b)}
Heads(v, b, x) ==
  \/ HeardOf(v, b) = {} /\ v.docs[b] = x
  \/ \E i \in HeardOf(v, b) : (\A j \in HeardOf(v, b) : j <= i) /\ Says(v.out[i]) = x

(* A buffer that is taken for open and sent is, in a server that reads, the*)
(* very text that is edited, however often servers died, were started again*)
(* and trimmed and buffers closed and opened again.                        *)
ServerSees ==
  \A b \in in_lsp \cap pushed :
    sv[ServerOf[b]].reads => Heads(sv[ServerOf[b]], b, text[b])

(* An answer is only ever taken for the request it answers, though the ids *)
(* of a process that is started again start again, too, and what was asked *)
(* of the old one may still be waiting.                                    *)
Answerable(s) ==
  sv[s].todo \cup {sv[s].inbox[i].id : i \in {j \in DOMAIN sv[s].inbox : sv[s].inbox[j].kind = "answer"}}
AnswersOwn ==
  \A p \in pending : p.id \in Answerable(p.server) => p.gen = sv[p.server].gen

(* That, and every variable has its type: no queue holds more than its     *)
(* slots.                                                                  *)
ServerInv == LspTypeOK /\ AnswersOwn

(* "Closed editor/prompt documents are released in their language servers" *)
(* (RESOURCE_BUDGETS.md): a document does not stay with a server after its *)
(* buffer is closed.                                                       *)
Leaves(b) ==
  b \notin open /\ sv[ServerOf[b]].docs[b] # Gone
    ~> b \in open \/ sv[ServerOf[b]].docs[b] = Gone \/ ~sv[ServerOf[b]].reads

Released == \A b \in Buffers : Leaves(b)

(* "Format through the server when it can, then write" (editor_save): a    *)
(* save that waits ends with the buffer written.                           *)
SaveWrites ==
  [][\A b \in saving : b \in open' \ saving' => disk'[b] = text'[b]]_lspVars
=============================================================================

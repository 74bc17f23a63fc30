# nus: a verification development

nus is a terminal, a browser and a notes editor in one program. This directory
holds TLA+ models of the parts of it where several processes, threads or runs
of the program meet over shared state, the configurations under which TLC
checks them, and proofs, checked by TLAPS, of the properties that matter most.
Every definition is a reading of the repository's source; `PROJECT.json` maps
each one to the lines it stands for, each property to a run and to a mutation
of the code that breaks it, and each hazard to the properties that cover it.

Paths below are relative to the repository: `crates/...` and
`spikes/composite/src/...` (the application, called *app* here).

## 1. Inventory

| Component | State | Operations | Meets others through | What is hard | Correct means |
|---|---|---|---|---|---|
| **held shells** `crates/hold`, `crates/pty/src/{hold,ring}.rs` | the pty, a ring of recent output, one attached client, a directory file | output, exit, attach, probe, kill, detach | a socket; the directory file; the pty's reader thread | a window attaches while output flows; a window dies mid-frame; the shell ends while both talk; the holder is killed | no output lost or doubled on attach; one client; an ask answered once; everyone hears of the exit; no holder outlives its shell |
| **notes store** app `notes_store.rs` | one file a note, intents, checkpoints, a writer lock | commit, recover, retire, keep_version, trash, restore, adopt_legacy | the file system, shared with other nus processes and plain editors | a crash between any two writes; two processes | a text set out to be saved becomes the file or is found again; nothing is overwritten that was not compared |
| **notes session** app `notes_session.rs` | text, generation, base, conflict, in-flight flag, views | open, edit, capture, tend, drain, flush, keep mine, take theirs, discard | a writer thread (two channels); the store; views | answers that arrive late, or after the session went; a conflict that changes while it is shown | saved means on disk; no unseen text overwritten; what is typed gets saved |
| **sync exchange** `crates/sync/src/lib.rs`, app `syncui.rs` | files with a clock, a manifest a device, sealed blobs | exchange, rotate, history | folder or git carriers; app writes; the library's lock | the app writes during the exchange; replicas arrive in pieces; equal clocks | the loser is kept; devices agree in the end |
| **profile generations** `crates/compat/src/profile.rs` | live profile, generations, journal, lock | acquire, open, healthy, recover | two versions of nus; the installer | a crash at each rename | never an upgrade without a copy; recovery completes; newer work is preserved |
| **Finish Work** app `finish_work.rs` | lease, held work, power state | engage, disengage, sync | app windows, downloads, the platform | stale power state, clicks between turns | a lease exactly while user-started work lives and it is safe |
| **reading library** app `library_store.rs` | records with a revision, tombstone and capture ticket; immutable objects | save, capture, commit, remove, update | several windows; sync, under one lock | a capture finishing after a removal | a removed item stays removed; a record never names a missing object |
| **sync key and jobs** `crates/sync/src/pair.rs`, app `synccli.rs`, `crates/cli/src/account.rs` | a key a device, one job, a flag to stop it, a timed exchange | offer, receive, rotate, collect, interrupt | TCP and broadcast; terminals; the exchange | a lost acknowledgement; a terminal that goes; the timer during a rotation | one try a code; a rotated key is in its place; every job ends |
| **language servers** `crates/lsp`, app `lsp_host.rs` | bounded queues, pending requests, document versions | request, notify, open, change, close | a server process, two threads | full queues in a circle; a dead server | the app never blocks; versions grow |
| **vault** `crates/vault`, app `protected_state.rs`, `crates/cli/src/lifecycle.rs` | a key in the OS store, its marker, sealed files, an uninstall | key, read, write, migrate, erase | threads of one profile; the uninstall of a channel | a crash between credential and marker; migration against a write; keys shared by copied profiles | nothing sealed becomes unreadable; a finished uninstall leaves no key |
| **updates** app `updates.rs`, `update_install.rs` | release state, staged package, recovery record | check, stage, swap, return | a helper script; profile generations | a crash between the two moves | an installation always exists, or is found |
| **hands and remote** app `hands.rs`, `remote.rs` | an ask a page, deferred replies | request, answer, take over | an assistant over a socket; the user | the page changes while a hand waits | nothing happens without leave |
| **downloads** app `downloads.rs` | the list of downloads | track, cancel, retry, save | CEF callbacks | callbacks for rows already dropped | history matches files |

Not state machines worth checking here: the terminal engine (`crates/vt`), the
renderer and sky (`crates/render`, `crates/astro`), the browser host, the
editor's text handling, settings, source-control panes, command line and the
placeholder crates. `PROJECT.json` gives the reason for each.

How they interact: the app is one UI thread that calls a *tend* of each
component once a turn; slow work is on worker threads that answer through
channels; holders are separate processes reached over sockets; all persistent
state is files, some of it shared with other nus processes (project notes), with
plain editors, or with other devices (sync).

## 2. What is modelled

| Module | About | Proofs |
|---|---|---|
| `Hold` | a holder, its pty, its clients | `HoldProofs` |
| `NoteDrafts` | abstract: the promise of the notes store | |
| `NoteStore` | one note's file, `Home::commit` / `recover` / `retire`; implements `NoteDrafts` | `NoteProofs` |
| `NoteSession` | EXTENDS `NoteStore`: the session, its writer thread, a peer process, a plain editor | `NoteProofs` |
| `Sync` | the exchange of one file between devices | `SyncProofs` |
| `SyncJobs` | the key of each device, pairing, rotation, the one job and the timer | `SyncJobsProofs` |
| `Archive` | abstract: the promise of the profile generations | |
| `Upgrade` | the start of the app over a profile, recovery, and the package helpers; implements `Archive` | `UpgradeProofs` |
| `Library` | records, captures, forms, one window's view and positions | `LibraryProofs` |
| `FinishWork` | shells and downloads, what counts as the user's, the wake lease | `HostProofs` |
| `LanguageServers` | buffers, the host, the client's queue, a server process | `HostProofs` |
| `Vault` | making a key, reading and writing a record, migration, uninstall | `VaultProofs` |

`MC...` modules give the constants their values for TLC. A definition named
`X_something` just above `X` is a mutated `X`: it is used by no action, and
`PROJECT.json` names the property that fails if it takes `X`'s place.

### Hold

The holder is one loop, `run` in `crates/hold/src/main.rs`, and `pc` is its
stage: `Drain` (take output, ring, send), `PollExit`/`PollLinger`/`Leave`,
`AcceptNone`/`Attach`/`TurnAway`, `ReadNobody`/`ReadClient`. A stage is one
action, because nothing else touches the holder's own variables; the shell
(`Emit`, `ShellExits`), the pty's reader thread (`PtyReader`), the clock
(`Linger`), a kill of the process (`Crash`) and the clients (`Connect`,
`SayHead`, `SayRest`, `Close`, `Receive`, `EndOfStream`) run between any two.

- Output is numbered and a stretch of it is the set of its numbers; what keeps the
  stretches in order is the sequence they are sent in. `RingCap`, `TakeMax`,
  `QueueCap` and `WireCap` stand for the ring's 4 MiB, take_output's 1 MiB, the
  reader's channel of 32 chunks and the socket buffer. `Asks` are the outputs that
  begin a cursor-position ask; the next one is its other half. `strip_dsr` and the
  count work on one take at a time, so `Matched` are the asks both halves of which
  are in what was taken: they stay out of the ring (`stripped`) and are answered
  here when nobody is attached. An ask that the end of a take cuts is output like
  any other.
- A connection is one attempt by one process. `link[c]` has both ends of it: the
  client's phase and hello, whether the holder holds it open, the frames under
  way in each direction and what the client has read.
- A client's frame takes two writes and the holder may read between them:
  `saying` is the half-written frame, `inbuf` whose half frame is in the read
  buffer. The holder's own sends go out whole or fail: its sockets are
  non-blocking, and a short write is a failure that ends the connection. A
  newcomer that has its greeting and not the ring is a window whose stream ends
  (`TurnedTo`).
- Leaving is one step: between the removal of the file and the end of the process
  the holder serves nobody.
- Terminal sizes, and the resize frame that carries them, are left out: no
  property tells sizes apart. The vaulted content of the directory file is left
  out, its presence kept.

### NoteStore and NoteDrafts

`Home::commit` is a sequence of steps under the writer lock: compare with the base
(`Begin`), `WriteIntent`, `Checkpoint`, `WriteHead`, `Verify`, `RetireOwn`; each can
fail (`StepFails`) or be the last thing its process does (`Dies`), and `Locked` is
that somebody is between the first and the last. `Recover` takes no lock, as in the
code, and may fail half-way (`RecoverFails`); `Retire` does. A file's bytes are a
text and a stamp: `stamp_commit` writes the next revision and the time into the
header, so no two commits write the same bytes, and a legacy note (`Legacy`) has no
header. `Absent` and `Emptied` are told apart, because the code does in one place
and does not in another. A checkpoint may or may not be written: it is due every
five minutes and a failing one is done without. `EditOutside` is a plain editor, a
checkout or a sync client; it takes no lock and is not part of `StoreSpec`.

`NoteDrafts` says what the protocol is for, without steps, locks or crashes: a
*draft* exists from before the file changes until it is the file; it goes only
when it is, or when it has been offered to somebody who let it go; the file
changes only from the version a draft was written over. `PromiseKept` is that
`StoreSpec` implements it with `drafts <- intents`.

### NoteSession

The UI thread's handlers are one action each (`Attach`, `Capture`, `Edit`, `Detach`,
`UndoWindowEnds`, `Dispatch`, `SettleThread`, `KeepMine`, `TakeTheirs`, `Discard`,
...), enabled when the thread is not inside a commit of its own (`UiFree`). A commit
on the UI thread (`Flush` to `SettleUi`) and one on the writer thread
(`ThreadBegins` to `ThreadAnswers`) are the store's steps, one at a time, so that
everything may happen between them. `Look` is the first opening of the home, which
calls `recover`, and drops a failure of it; `found` are the drafts it found and
nobody has taken. `Peer` is another nus process that saves the same note.

- Views are a count. Any edit, undo, redo or retitling is a change to another
  text; merging two views' edits and undo depth do not bear on saving.
- `Detach` may come at any time: an editor's buffer detaches when it is dropped.
  Closing normally saves first, and then nothing is lost; the model does not
  rely on it.
- `Discard` is reached from the palette of a note in view that has failed or
  conflicts, and from *Save Copy* in the "Note Not Saved" notice (`toast`), which
  a failed flush raises, and a flush that has waited ten seconds for a save that
  is out (`StillSaving`).
- Which of several drafts a session takes is left open: the code takes them in
  the order of their random names.
- `seen` and `crossed` are history: the versions of the file that nus has shown,
  or that a save it was told of left there, and whether text was let go while a
  save of it was out.

### Sync

`exchange` for one file, in its steps: `Look` (survey, manifests, which copy is
wanted), `Keep` (the copy put aside), `Write`, `SetModified`, `Resurvey`,
`PushBlob`, `PushManifest`, `After` (the git push), and between any two of them
the app's `Edit`, a replica (`Replicate`), another device's steps, a failure or
a `Crash`. The kind of the file decides what is merged, kept and dated; a
library record is exchanged under the library's lock, so no edit comes between
its steps. A folder moves blobs and manifests one at a time, a git remote whole
clones (`Pull`, `After`).

- A text is the set of edits it holds, so that what is lost is a set difference;
  a union's merge is set union, which leaves out the order of its lines. A file that
  a failing or killed `std::fs::write` has emptied or written in part is `Torn`,
  and dated now.
- What can fail does: reading the local file, of any kind, at either survey (it then
  counts as none: `Reads`); keeping it; writing it (`WriteFails`, `CutOff`);
  `set_modified`, whose failure is ignored (`NotDated`); the blob, the manifest, the
  git commands, which may leave the clone with uncommitted work.
- Clocks are seconds, and the code's `now` is `DatedNow`: the second that was
  used last, or a later one. Two edits in the same second are therefore possible.
- `mishaps` is history: what has gone wrong so far (a failed rename, an edit in
  between, a file cut off or not dated, one that could not be read, a blob that did
  not go out, equal clocks). Properties say which mishaps they exclude, so that the
  exceptions are in the open.
- An exchange put off because the
  library is busy is one that does nothing.

### SyncJobs

The app has one `job` slot; a terminal starts a job and polls for its answer
(`Collect`), or is interrupted. `PairOffer`, `Accept`, `OfferAgrees`,
`Confirmed` are the offering side, `PairReceive`, `Connect`, `ReceiveAgrees`,
`Open` the receiving one; `Lapse` is the timeout every wait has. `Rotate` runs
`FirstRound`, `Clear`, `SecondRound`, `Write`. `Timer` and `Exchanged` are the
timed exchange beside it, which holds the key it began with. `Join` and `Forget`
are the key typed in or forgotten by hand. SPAKE2 and sealing are perfect: two
ends agree exactly when they were given the same code. Of a carrier only whose
folders lie there, under which key, is kept.

### Upgrade and Archive

Directories that may be missing are sets of at most one profile; a profile is its
version, format and the work in it. `Launch`, `Recover`, `Restage`, `PutAside`,
`Place`, `Clear`, `Open`, `Checkpoint`, `RememberLast`, `WriteContract`,
`RecordGeneration` are the start of the app in the order of `profile.rs` and
`compatibility.rs`, under the profile's lock; any may fail or be the last thing the
app does. `Update` and `Return` arm a helper, which waits for the app to go and does
`MoveAside`, `MoveIn`, `Relaunch`; two helpers may wait at once. If the second move
fails the helper moves the old package back (`Restore`), and that can fail as well
(`LeftAside`); `cut` is the package left aside then, or by a helper that was killed
between its moves. `Archive` says what it is all for, without steps: work is only
added, generations are immutable, a recovery is at a stroke and preserves what it
replaces. In `Kept` the abstract profile is the live directory, or the staged one
between the two renames of a recovery.

### Library

A record is its source, revision, tombstone, capture ticket and copy. Every
operation of `library_store.rs` that writes a record is an action under the
writer's lock: `Save`, `Keep`, `Seed`, `Change`, `Refresh`, `Commit`,
`CaptureFailed`, `SaveForm`, `AddForm`, `Remove`, `UndoRemove`, `Flush`. A
capture is issued with a ticket and finishes any time later, or never. `held`
are the forms, confirmations and undos that some window shows of a record it
read earlier. One window is modelled whole: its scan (`Reload`, `List`,
`ScanReady`), the copy it has open and the positions it has yet to save.
`Exchange` puts another device's record in place as it is: its
source, revision, tombstone, copy and ticket. That device runs the same code over
records that have been here, so its copy is one made here or there of its own
source (`CopiedThere`), and its ticket may be one that was issued here and is
still to be answered here (`Incoming`); a ticket of its own captures is none here,
as is one that nobody will answer any more. `synced` remembers the record, because
revisions then no longer count writes, and `returned` the cancelled tickets that
came back so.

- What `Save` writes (the link, then the record with a ticket) is one step; cut
  short, or with another window's write between, it is a link without a capture,
  a `Keep` or a `Change`, and a `Refresh`, each an action too.
- Adding or keeping a link leaves it on the reading list, where saving it again
  begins no capture (`reading`).

### FinishWork

What the user does leaves a trace that expires: a submission arms a pane for
`Fresh`, a gesture counts for `Fresh`; the next start mark of that pane, or the
next download, then counts as the user's. `typed` and `waiting` are the lines
the shell has yet to read and whose they are. A start mark may come while a command
runs: a shell in the shell. `Turn` is the host's whole turn,
`Sync` and `Engage` of `finish_work.rs` with what the platform answers, over a
power state that is asked for at most every `Poll`. `Tick` is time passing, for
everything at once.

### LanguageServers

A server is one record: its client's state and queue, its process, the documents it
has, what it has been asked and what it has said. The writer thread and the pipe are
one queue, because a difference is always to what was sent last. `PollLsp` is the
app taking one event; `OpenBuffer`, `Edit`, `EditorRequest`, `EditorSave`, `GiveUp`,
`CloseBuffer`, `Trim` are the host's entries; `Serve`, `Reply`, `Die`, `Tell` the
process's, external. A process that `reads` no more has ended, or has closed its
input and lives on: what is sent to it is lost in silence (`enqueue` minds a full
queue only), and it may still answer what it was asked. `Synced` is `editor_synced`,
which ends every key and every formatter's answer: the focused buffer goes to its
server if it is not what was sent. A full queue ends the server (`Enqueue`),
wherever it happens, also in the middle of the buffers that are opened or closed
together (`EnqueueAll`). `Heads(v, b, x)` says that the server v has the text x of
b, or will have it when it has read what is under way. `gen` counts the processes
started, so that an id of an old one can be told from the same id of a new one.

### Vault

One record a profile, its identifier in `.vault-id` and the keys in the
credential store. Reading and writing go through the steps of `key`, `read` and
`write`: `HasKey`, `FetchKey`, `NewKey`, `NameKey` (the identifier is written
after the store has given the key back), `Open`, `Judge`, `Reseal`, `Put`. Only
the main thread migrates and writes; a worker reads beside it, as the survey of
an exchange does. The uninstall of a channel is `Survey` (which keys other profiles
use), `Lock`, `EraseKey` and `Remove`, may be killed, and is run again on what is
left; a profile may be copied by hand before it begins. `Reseal` may fail with the record
already replaced, when its old time cannot be put back. Sealing is perfect.

## 3. What is checked

A bound is a constant commented *bound* in its module. Distinct states are
those of the configuration as it stands.

| Run | Bounds | Shows |
|---|---|---|
| `hold_output` | 2 connections, 3 outputs, the last two an ask's halves; ring 1, take 2, queue 2, socket 2 | `IInv` (one client attached, an ask taken whole answered once, an exit code only of an ended shell, the file kept), `NoGap`, `UpToDate`, `HolderLeaves`, `EveryoneHears` |
| `hold_talk` | 2 connections, 2 frames each, no output | `FramesWhole`, `ShellKept` (only a kill, a crash or the shell itself ends the shell) |
| `notes_session` | 1 session with its thread, 1 peer, 2 commits, 2 changes, 1 crash, 1 snapshot out | `NoteInv` (saved is on disk), `StoreInv`, `SeenButByDrafts`, `PromiseKept` |
| `notes_live` | a legacy note, 2 commits, 1 failure, 1 outside edit | `TypedIsSaved` |
| `notes_stale_draft` | as `notes_session`, 3 commits, 2 snapshots out | **violated** `NothingUnseen` (section 5) |
| `sync` | 2 devices, 2 edits, 4 seconds, 1 fault; every kind, both carriers | `NothingLost`, `NeverOlder`, `NewestStands` |
| `sync_jobs` | 2 devices (one offers and rotates, one receives), 3 keys, 3 jobs, 1 fault | `PairInv` (a key goes to its own code only), `OneTry`, `NoKeyStranded`, `JobsEnd`, `Republished` |
| `upgrade` | 2 versions of different formats, 2 helpers, 2 generations, 3 packages aside, 1 piece of work, 2 faults | `UpgradeInv` (the running app understands the profile, a generation is readable), `Resumable`, `Installed`, `Kept` |
| `library` | 2 sources, 1 record, 3 revisions, 2 captures, 1 form, 1 fault | `LibraryInv` (a copy is its source's), `NeverResurrected`, `OverwritesAsShown`, `ViewNeverBack`, `PositionSettles` |
| `finish_work` | 1 shell, 2 pieces of work, 2 submissions, 1 line ahead; a submission and the power count for 1 | `Honest`, `OneEach`, `OnlyByClick`, `SafetyWins`, `LetsGo` |
| `language_servers` | 2 buffers on 1 server, queue 2, 1 edit each, 2 processes, 2 requests each (the first is `initialize`) | `ServerInv` (an answer is its own request's), `ServerSees` (a server that reads has the text), `ReleasedA` (`Released` for one of two like buffers) |
| `vault` | 2 profiles (one of the channel that goes), 2 threads, 2 keys, 2 texts, 1 fault | `VaultInv` (what is saved has its key), `NoKeyLeft`, `LastWriteStands` |

Each component has one invariant that joins its variables' types with its main
state invariant, unless its types are proved (section 4).

Why the bounds are enough. *Hold*: a ring of one under three outputs overflows with
a client attached, with none, and between two attaches; two connections are needed
for one to displace, probe or outlive the other, and nothing in the loop speaks of a
third (the proofs hold for any number); the queue of two lets a take hold an ask
whole or cut it; a socket of two frames is full with one unread; two frames a client
make "in order" mean something while half of one is in the buffer. *Notes*: two
commits are one that fails or dies and one that comes after it; one snapshot out is
the program's own limit except after a session was let go; two texts besides the
empty one tell mine from theirs. *Sync*: two edits are one on each device or two on
one, four seconds leave room for both to be dated equal, apart, and dated again by
what carries them; the proofs of the first two properties hold for any number.
*SyncJobs*: three jobs are an offer, its partner and a second try or a rotation;
three keys are a rotation's old and new one and one made anew where a device has
lost its own. *Upgrade*: two generations are one to return to and one saved on the
way; three packages are there, back and there again; two faults are one in a
recovery and one in its retry. *Library*: one record removed, restored and captured
twice is the case that ticketing is for; two sources let an edit change the page
under a capture; what two records may share (an address, a ticket) is left to the
proofs, which hold for any number. *FinishWork*: two pieces of work, one the user's and one not, at the same time or one after the other.
*LanguageServers*: a queue of two fills while a server that came up is sent its
buffers; two processes are one that died and the next. *Vault*: two keys are a
shared and an own one, two texts an old and a new one; the proofs hold for any
number of each, and of profiles in the channel that goes.

`CHECK_DEADLOCK` is off where a run has a legitimate end: the holder has left,
or the bounds are spent. `finish_work` never ends and checks it.

Fairness, and why the code justifies it:

- `Hold`: the loop, the pty's reader and each client's reader thread always run
  again, and 300 ms pass: `WF` of `Holder`, `PtyReader`, `Linger`, `Receive`,
  `EndOfStream`, and `SayRest` (the second half of a write that has begun).
- `NoteSession`: `tend` runs each turn of the loop and the writer thread takes
  what it is sent; a step of a commit is eventually taken; a peer that holds the
  lock goes on. `TypedIsSaved` gives up when `Spent`, the model's bound on commits.
- `Sync`: an exchange that has begun goes on and another is begun, by the timer of
  `sync_tick`; a carrier replicates in the end.
- `SyncJobs`: a worker's next step is taken, every wait has a timeout (`Lapse`),
  the timer comes round, an exchange ends.
- `Library`: `Flush`, because the window's poll tries each position again.
- `FinishWork`: `Turn`, because the host is tended every turn of the loop.
- `LanguageServers`: `Trim`, every ten seconds, and `Serve`, a server that lives
  and reads; what is `Released` is let go of if the server dies instead.
- `Upgrade` and `Vault` state no liveness: nothing makes anybody launch a version again.

Users, shells, editors, servers' replies and crashes owe nothing anywhere.

## 4. What is proved

`HoldProofs`, for any set of connections, any number of outputs and frames, any
capacities that satisfy `BoundsAssumption`:

- `TypeCorrect`: `Spec => []TypeOK`.
- `Inductive`: `Spec => []IInv`; then `OneAttachedAlways`, `AskedOnceAlways`,
  `ExitToldAlways`, `FileKeptAlways`.
- `StreamAlways`: `Spec => [](IInv /\ StreamInv)`; then `NoGapAlways` and
  `UpToDateAlways`.
- `TalkAlways`: `Spec => []TalkInv`; then `FramesWholeAlways`.
- `ShellKeptAlways`, the action property `ShellKept`, step by step from the types:
  only the holder's own death and a frame it reads can end a shell that runs, and
  the frame must be one that says kill.

None of those four invariants is inductive alone, and `IInv` adds what each step needs:
`AskedOnce` needs that output just taken has been seen by nobody (`Fresh`) and
that the ring, which every newcomer is shown, holds none of the asks that were taken
whole (`NoAskKept`); of an ask that a take has cut neither is claimed, and
section 5 says what becomes of it;
`OneAttached` needs that a connection the holder holds open was accepted
(`Started`); `ExitTold` that an exit frame is under way only once the exit was
seen (`ExitSeen`). The proof has a lemma for each part and in it a step for each
action that can disturb the part.

`StreamInv` is about what is shown. The ring is exactly the newest outputs that
are no whole asks (`RingIs`: what the loop puts in and what it drops for it never leaves
a hole, by `RetainNewest`, and the capacity is a bound on what was retained, not
on what was taken). What a connection has got and has under way is in turn and without a
gap (`Whole`); nothing is shown before it was accepted (`Quiet`); and the one
attached is served (`Served`): from the first output it saw on it has all but whole asks,
and what it lacks from before has a full ring of newer ones. The backlog shown
on attaching restores `Served` from `RingIs`, an output while attached extends it.

`TalkInv` is about what is said. The frames under way from a connection are
numbered from one past those the shell has had of it, and as long as the holder
holds it what its client said is those, these and the half-sent one (`Counted`),
so that nothing is between them that could be skipped or had twice; the buffer
of a half frame is the attached client's (`OwnBuffer`). `InOrder` counts: the i-th of a
client's frames in what the shell was given is its frame number so many. (It was
stated with `SelectSeq`, about which nothing can be proved by this prover, and now
says the same with a cardinality.)

`NoteProofs`, for any set of writers and any bounds:

Of the store by itself, among writers that take the lock,

- `ProtocolHolds`: `StoreSpec => []StoreInv`, which is inductive as it stands:
  one commit works at a time (`Exclusive`); from the intent on, the head is the
  new text or the intent is there (`Recoverable`); no two commits share a name
  (`OpsFresh`), so that retiring one retires no other.
- `KeepsPromise`: `StoreSpec => PromiseKept`: every step of the protocol is a
  step of `NoteDrafts` or a stutter. `WriteIntent` is `SetOut` (it needs
  `Exclusive`: the head is still the one compared; and `OpsFresh`: the name is
  new), `WriteHead` is `Publish` (it needs `Recoverable`), `RetireOwn` and
  `Recover` and `RecoverFails` are `Settle`, `Retire` is `LetGo`; the rest stutter.

Of a session over it, with `IInv` (`SessionInductive`):

- `NoteInvAlways`: `Spec => []NoteInv`, with any other processes and plain editors
  about. With nothing unsaved the session shows its base (`ShowsBase`), which
  needs that the one save that is out is of what the session holds, or of what
  it held before it was changed again, and over the base it still has
  (`Pending`): then an answer for an older snapshot leaves the session unsaved. `Pending` in
  turn needs that the writer thread works on the first snapshot of its queue, the UI
  thread on a session with none out, each writing the text it was given (`WorkInv`), and
  that a session in conflict has no save out, so that neither choice can replace
  the base under one (`Sound`). Letting text go does replace it: after that
  (`crossed`) `Pending` is not claimed, and not even that what is saved is no newer
  than what is typed, as the answer is then taken by a session opened since.
- `StoreInvAlways`, `PromiseKeptAlways`, `SeenButByDraftsAlways`, when no plain editor
  writes the file (`NoEditor`: `MaxEdit = 0`; what one writes between the
  comparison and the rename is overwritten, section 5). The first two carry the
  store's theorems over to everything a session does, where settling an answer
  also takes an intent away: the one of a draft that was offered (`Handed`). In
  the third, a commit replaces the session's base (`FromBase`, and `Exclusive` for
  the file), and the base is a version seen or kept (`BaseSeen`).

`SyncProofs`, for any devices, kinds, carriers and bounds (`SyncAssumption`):

- `TypeCorrect`, and `Inductive`: `Spec => []IInv`.
- `NothingLostAlways` and `NeverOlderAlways`, action properties, from it.
  `NothingLost` needs `Kept`: what is about to be replaced is beside the file
  already, or in what replaces it, or one of the two mishaps has been noted.
  `NeverOlder` needs `Ahead`: what replaces a library record is no older than the
  record is by now, which holds because of the lock (`Edit` of a locked record is
  not enabled) and because such a record is never dated afterwards (`KindOfStep`).
  An exchange that could not read the record at its survey (`unread`) is excepted in
  both: the code takes it for none, and whatever there is for newer (`lib.rs:451`).
  `Past`, that no clock is ahead of the last second used, keeps the types.

`HostProofs`, of `FinishWork`, for any shells, times and bounds (`FinishWorkAssumption`):

- `TypesHold`, `HonestHolds`, `OneEachHolds`, `OnlyByClickHolds`,
  `SafetyWinsHolds`. `IInv` is the types, `Honest`, `Counted` (a submission that
  is still armed has not been counted, so that `granted <= asked` survives the
  step that counts it) and `Watched` (while the lease is held the last that was heard
  of the power was good, and was heard no later than it became unsafe, so that a
  situation as old as a poll has been asked about).

`HostProofs`, of `LanguageServers`, for any finite set of buffers, any servers, any
length of the queue and any bounds (`LanguageServersAssumption`):

- `ServersAlways`: `LspSpec => []ServersInv`, and from it `ServerInvAlways` and
  `ServerSeesAlways`. `ServersInv` is the types and `ServerSees`, with three
  parts more. `Idle`: without a client no process lives, so that a server with none
  has nothing to answer for. `Ready`: a buffer counts as open only in a server that is
  up, so that a process that is being started owes nobody a text (`Exited` takes
  every buffer for closed, so that none counts as open in one that has gone).
  `OwnAsked`: what waits for an id that is anywhere between the client's queue and
  its inbox was asked of this very process; `AnswersOwn` looks only at what has been
  read, and a request is queued before that.
- A step makes of each server one of two things (`Moves`): the same process, asked
  no more than it was, or one that is asked nothing. That keeps `OwnAsked`
  whatever the step (`AllMove`), but for a request, which asks for one id more
  and replaces what waited for that id (`RequestIs`).
- `ServerSees` is kept by lemmas about `Heads`: what is sent about other buffers
  changes nothing, what is sent about this one becomes what it heads for
  (`HeadsSent`), and reading moves it from the queue to the documents (`HeadsRead`).
  Buffers opened together need that each is sent exactly once: `SetToSeq` lists a
  finite set without repetition (`OrderIs`). If the queue fills, nothing is claimed
  of the server, which is ended. (`Heads` was a fold over the queue, about which
  nothing can be proved by this prover; it now points at the last message.)
- With more than one server the proof failed at first, and rightly: the model put
  the record of the server that had answered in the place of the focused buffer's,
  and a formatter's answer spawned a server with no editor focused. `Formatted` and
  `Write` now follow `lsp_answer` and `editor_write`.

`VaultProofs`, for any profiles, channel, threads and bounds (`VaultAssumption`):

- `VaultInvHolds`, `NoKeyLeftHolds`, `LastWriteStandsHolds`, from `SpecInv`:
  `Spec => []IInv`. To `VaultInv` it adds `Naming` (an identifier between the store
  and the file is in the store, is nobody's and is one thread's, so that no
  uninstall takes it away and no thread names a profile twice); `Sealing` (a sealed
  record has an identifier); `Going` (who has a record in hand has its key, what
  it saw is there or has been sealed since, and the migration has the profile to
  itself), which is what `LastWriteStands` rests on; and `Erasing` (what is being
  removed is closed; what is retained is exactly what others share; what the
  uninstall went through has no key but a retained one; every key that ever had a
  profile has one still), which gives `NoKeyLeft` and keeps the keys of the others.

`UpgradeProofs`, for any versions and formats, any helpers and bounds
(`UpgradeAssumption`: versions are positive and formats are numbers; no order
between the two is assumed):

- `UpgradeInvHolds`, `ResumableHolds`, `InstalledHolds`, from `Inductive`:
  `Spec => []IInv`. `Profile` is the part about the directories: a profile with a
  version's mark holds nothing that version cannot read (`LiveReadable`, which
  makes what is checkpointed readable); the generation about to be completed is
  empty, and without a profile there is none (`Begun`, so that a recovery that
  begins has a live profile to put aside); while the live one is out, the staged one
  is the whole generation (`Resuming`); and what each step of the start may count on
  (`Stage`). `Installation` is the part about the packages: a helper between its two
  moves can put either package in (`Moving`), and where nothing is installed and no
  helper is there, the package is the one left aside (`cut`, in `Installed`).
- `KeptHolds`: `Spec => Kept`, every step is a step of `Archive` or a stutter. `Open`
  of an empty profile, `WriteContract` and `Save` are `Change`; `Checkpoint` is
  `Complete`; a recovery is `Recover` at `PutAside` (which needs `Resuming`: what is
  staged is the generation), and before and after it nothing is seen of it.

`SyncJobsProofs`, for any devices, jobs, keys and bounds (`SyncJobsAssumption`):

- `PairInvAlways`, `OneTryAlways`, `NoKeyStrandedAlways`. `IInv` is the types,
  `OneTry`, that no two jobs share an id (`OwnIds`), and for each device what its
  job's step may rely on: a job is at a step of its kind (`JobRight`); a connection
  carries a key only to the code it was offered under (`LinkRight`); the
  connection an offer has accepted is to that offer, what it gave there is the key
  it holds, and an offer that ended well was acknowledged (`Met`); and the key of
  the last rotation is in its place, or on its way there (`Turned`).
- `Turned` was not inductive at first, and TLC with a third key showed that the
  model was wrong: an offer by a device that has no key makes one anew
  (`synccli.rs:231`), with nothing to do with the rotation before. `PairOffer` now
  begins that history again, and the run has the third key.

`LibraryProofs`, for any sources, records, windows and bounds
(`LibraryAssumption`, with at least one source and one record, which the first
links need):

- `LibraryInvAlways`, and the action properties `NeverResurrectedAlways`,
  `OverwritesAsShownAlways`, `ViewNeverBackAlways`, from `Inductive`: `Spec => []IInv`.
- Every step does one of five things to the records and captures (`Effect`): nothing,
  a write of one that keeps or drops its copy and its capture (`Plain`), a write that
  begins a capture (`Begins`), the text of a capture in a record (`Commits`), or
  another device's record in its place (`Foreign`). `IInv` is the types (`TypeInv`),
  then three parts. `TicketInv`: a record's ticket is no other record's, is not void
  and has given no copy yet, and a copy is of its record's source (`Owned`); a capture
  under way is the only one with its ticket, and of the source of the record that
  still waits for it (`Own`); what is yet to be issued, or void, is no copy's
  (`Unissued`, `VoidIssued`). So a late capture finds its own record or none. Another
  device's record may bring a ticket back, but only of a capture that is under way
  here, of that record and that source, so that `Own` is kept; the ticket is then
  not void any more, which is the exception that `NeverBroughtBack` is refuted by.
  `HeldInv`: what a form or an undo
  holds is no newer than the record, and as old only if it is the record, unless
  another device's was put there (`synced`); so a write that compares revisions
  compares records. `ViewInv`: what the window shows, and what a scan not gone stale has
  read, is not ahead of the record, and what is shown not ahead of that scan; so
  publishing it never goes back.

Only model-checked: liveness (`HolderLeaves`, `EveryoneHears`, `TypedIsSaved`,
`NewestStands`, `JobsEnd`, `Republished`, `PositionSettles`, `LetsGo`, `Released`), which
is out of the prover's reach under fairness.

Every other property that a passing run checks is stated by a theorem.

## 5. Where the code and its words differ

With a run, `notes_stale_draft`: **a draft is laid over a later head.** Drafts are
compared with the head when the home is first looked at, and based on the head
of a later opening: what was saved between is overwritten without a conflict.
`SeenButByDrafts` holds: drafts, and letting text go during its save, are the
only ways.

Stated in the modules, refuted by TLC, and not among the runs; each line says how
to see it (constants not named are those of the component's cfg):

- `Hold!NeverAskedAgain`. `strip_dsr` and the count look at one take
  (`crates/hold/src/main.rs:169`); an ask of which half comes with the next stays in
  the ring, is answered by nobody while nobody is attached, and by each window that
  attaches, though "a later attach does not answer it twice" (167). `AskedOnce` holds
  of those taken whole. `HoldOutput.cfg` with `Asks = {1}`, `RingCap` 2, `MaxOut` 2,
  `Spec`.
- `Hold!KillTakes`. The loop sends output before it reads frames and drops the
  client when the send fails; a client that says kill and closes in one breath
  may be dropped unread, and the shell lives. `crates/pty/tests/hold_close.rs`
  says it must not. One connection, no asks, all capacities 1, `MaxOut` 1,
  `MaxSay` 1, `FairSpec`.
- `Hold!LastBytesFirst`. The exit frame is sent as soon as the child is gone,
  before what the pty's reader has not passed on yet; the client stops reading
  at the exit, so the 300 ms that follow, "a moment for the last bytes to reach a
  client", cannot deliver it. The same with `WireCap` 2, `MaxSay` 0, `Spec`.
- `NoteSession!SavedMeansSaved`. Text that is let go while a save of it is out:
  the text on disk is taken as saved, then the save lands over it.
  `Who <- Alone`, `MaxFail` 1, `MaxEdit` 0, `MaxViews` 1, `MaxQueue` 2.
- `NoteSession!OwnAnswers`, with the same. Sessions are found by the note's key; a
  note let go and opened again takes the old one's answer as its own.
- `NoteSession!ChoiceTakes`, with `MaxFail` 0, `MaxEdit` 1, `MaxQueue` 1. A
  conflict cannot tell an empty file from none, and *Keep Mine* then bases mine
  on none: it conflicts again each time.
- `Sync!SentAgain`. A blob that does not go out is advertised by the manifest as
  if it had (lib.rs:865), and no later exchange sends it: the newest edit does not
  stand. `Kinds = {"plain"}`, `Carriers = {"folder"}`, `MaxEdit` 1.
- `Sync!OneStands`. Newer is strict (`crates/sync/src/lib.rs:757`) and clocks are
  seconds: of two edits in one second neither travels, the devices stay apart until
  the next edit, and no loser is kept, though "the newest edit stands" (18).
  `NewestStands` excepts equal clocks. `Kinds = {"plain"}`, `Carriers = {"folder"}`,
  `MaxClock` 2, `MaxFault` 0.
- `SyncJobs!CanBeStopped`. A second `nus sync pair`, which is refused because one
  runs, has already replaced the flag that stops the one that runs
  (`synccli.rs:250`, 272): Ctrl+C then stops nothing.
- `SyncJobs!OldReadsNothing`. `sync_tick` looks only at its own exchange, not at
  the job, so the timer may begin one with the old key during a rotation and
  publish under it after its folders were removed (`crates/sync/src/lib.rs:911`).
- `Library!NeverBroughtBack`. A removal drops the ticket; the other device's newer
  record, synced from here before, brings it back, and the capture then finds its
  ticket (`library_store.rs:333`) and commits, though "never resurrect a capture that
  was in flight before removal" (247). `NeverResurrected` holds of every ticket that
  has not come back so. `MaxSource` 1, `Watched` {}, `MaxTicket` 1, `Spec`.
- `Library!OneItem`. The first links are put in by their own id: after a first attempt
  that failed and an edit, of a page that is already another record's. `MaxKey` 2,
  `Watched` {}, `MaxTicket` 0, `Spec`.
- `FinishWork!OnlyTheUsers`. A line the user sends stays armed until the next start
  mark of its pane; if an empty line, or a program that ran, took it, the next command
  counts, though a rule or an assistant wrote it.
- `LanguageServers!SaveWrites`. Three seconds after Ctrl+S the wait for the
  formatter is given up (`editor.rs:2081`) and the buffer stays unwritten.
- `Vault!NoWriteUndone`. If the credential store is locked at the start the
  migration is skipped; a reader that found the old plaintext then reseals it
  (`lib.rs:351`) over what was written meanwhile. "Callers serialize updates"
  (`lib.rs:364`) is asked of writers, and readers write too.

Seen while modelling, with no definition of their own:

- *Notes*. The head is compared at `notes_store.rs:601` and replaced at 640, and
  what a plain editor writes in between is overwritten, as no program that
  renames over a file can help. `discard` and `take_theirs` leave the intent of
  the draft they let go of, which the next run offers again; a head write that
  failed leaves its intent, and after a later save the next run calls it diverged.
- *Sync*. A file that cannot be read at the survey is taken for none, and another
  device's replaces it, older or not (what was there is kept beside it, but for a plain
  one that cannot be renamed); the bytes read are not compared with the hash
  advertised; a plain file that was cut off, and one whose time could not be set
  back, is dated now and goes out as the newest; the exchange of quitting is not begun when
  one is already running. Removals on a git carrier reach the remote with the
  next round.
- *SyncJobs*. The answer of a job goes to whichever terminal asks first;
  `make_key` takes an unreadable key for none; `write_key` ignores errors, so
  "paired" may be said with no key written; an offer's receiver acknowledges before
  its key is on disk; the `sync_now` of `finish_job` is dropped when an exchange runs.
- *Upgrade*. A crash or failure while a recovery copies leaves
  `recovery-profile` without its journal, and every later recovery is refused
  (`profile.rs:249`); if the second move fails, so may the one that restores
  (`update_install.rs:518`, 533), and the package is left aside with nobody told;
  the same generation cannot be recovered twice; a failed or
  cancelled update has overwritten `update-recovery.json`.
- *Library*. A position's conflict over a record without a copy is retried for
  ever (`library.rs:177`).
- *FinishWork*. Enter at an empty prompt stays armed with no expiry for *Run
  again* (`blocks.rs:682`); one click makes the downloads of timers count for five
  seconds; an inner shell's end mark ends the outer command's protection.
- *Language servers*. A server that closes its input and lives on hears nothing more
  and is not ended (`enqueue` minds a full queue only). "Drop servers that have
  gone, so a later open restarts them" (`lsp_host.rs:495`) meets a map of failures
  that refuses it (77); one server's exit closes the buffers of all; a format is
  applied to text changed since (697); opening more than 32 buffers over a new
  server fills its queue and ends it.
- *Vault*. A record a holder writes after the uninstall took its profile comes back as
  an orphan; a torn frame makes a whole replay stream unreadable, and
  `Cast::write` removes the previous segment when creating the next one failed
  (`replay.rs:62`).

## 6. Not modelled

Of the components that are modelled:

- *Hold*: terminal sizes and the resize frame; what the directory file says; an ask
  cut into more than two.
- *Notes*: creating a note, trash and restore, the migration of legacy notes,
  pruning, notes of a newer format, path containment, the encryption of the personal
  home, a recovery record that cannot be read (it is passed by, and kept).
- *Sync*: resolving and restoring by command, two carriers at once, deletions (no
  manifest records one), the order of a union's lines.
- *SyncJobs*: jobs that only read, signing in to a forge, the paper key, the
  network below a frame.
- *Upgrade*: release discovery, download and signatures, channels and the
  Chromium part of a contract, the healthy mark. A backup's name, which is the
  second it was made in, is taken as its own.
- *Library*: containers, roles, articles of an earlier nus, a note's own
  snapshot, what a position says, a lock that stays busy.
- *FinishWork*: the platform's side of a lease, the header and its notices.
- *Language servers*: what a server says unasked, `didSave`, `shutdown`, the cap
  of 512 requests, two buffers of one file, the prompt's documents.
- *Vault*: streams, the contexts that bind a record to its path, an uninstall that
  removes half a profile, copies made while one runs, the other lifecycle commands.

Not state machines worth checking here, or without a meeting of two actors that
tests do not reach: the terminal engine, rendering and astronomy, the browser
host, the editor's text, settings, source control, the command line, the
assistant's hands (requests are answered on the app's thread, each to its end), the
list of downloads (what of it counts as work is in `FinishWork`), the journal (one
process-wide lock, under the profile's). `PROJECT.json` has the reason for each.
Most of the repository's lines are these.

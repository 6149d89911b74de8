# A formal model of PingPongz

PingPongz is a chat program for a local network: machines discover each other by mDNS
and UDP beacons, open TCP connections secured by a Noise handshake, and exchange
messages kept in a local SQLite database. This directory models the parts of it that are
concurrent or stateful, checks them with TLC on small instances and proves the central
invariants with TLAPS for all instances.

Requirements (`FR-...`) are those of `docs/FRD.md`.

## The system

| Component | State | Operations | Interacts with | Hard parts |
|---|---|---|---|---|
| Connection manager (`network/connection_manager.rs`) | table `connections` behind a tokio mutex; one task per session with a bounded channel; heartbeat task | listen, connect on demand, handshakes, session loop, heartbeat and inactivity pass, LRU eviction, `send_message` | peer tracker (addresses), UI (event channel, 64 places) | the lock is held across awaits; stale looks at the table; tasks that outlive their entry; event order |
| Framed stream, wire protocol (`network/framed.rs`, `protocol.rs`) | a half-read frame | read, write a frame | session loop | `read_frame` is dropped by `select!` |
| Peer tracker (`discovery/peer_tracker.rs`, `models/peer.rs`) | map fingerprint to peer, at most 200 | register, set state, resolve identity change, load | database, UI | memory and table diverge after evictions, failures and restarts |
| UI state (`app.rs`) | selected peer, messages on the screen, open warning | one frame: drain discoveries, drain events, draw, apply clicks | everything | state between two frames; screen against table; restarts |
| Database (`database/`) | tables identity, peers, messages, settings; the main file, its journal, a backup | single statements, no transactions; integrity check and recovery at start | tracker, identity, UI | a crash between two statements; a recovery that fails half way or removes the journal |
| Identity (`identity/identity_manager.rs`) | keys, nickname | load or create, reset, nickname | database, discovery, handshakes | three writes per reset; a reset that discovery does not see |
| Discovery (`discovery/mdns.rs`, `udp.rs`, `beacon.rs`) | the fingerprint it was started with | advertise, browse, receive beacons | UI (discovery channel, 64 places) | the advertised identity is a copy; announcements are lost, repeated, late |
| Notifier (`notifications/notifier.rs`) | per peer: time of the last notification, count | `on_message_received` | UI | last burst of a conversation |
| Cryptography (`crypto/`) | Noise session | handshake, encrypt, sign | connection manager | wraps `snow` and `dalek` |
| Widgets, configuration, logging | - | - | - | - |

What makes them correct, in short: the table of connections stays within its limit and
its entries name tasks that serve them; a critical section is entered twice; a message
goes to its recipient at most once and gets one verdict at most; peers that fall silent
are dropped; a pending identity change is decided by the user alone; the conversation on
the screen is the one in the table, but for what could not be read or written; a stream
gives frames in order or stops; the identity of one run is that of the next, and one
that was given up does not come back; messages outlive resets and recoveries; peers are
warned of every change of identity and of nothing else; a burst of messages is one
notification and at most a single message of it is passed over, once the next burst has
come. `PROJECT.json` lists the hazards at their lines.

## Modules

| Module | Models | State | 
|---|---|---|
| `ConnectionManager` | connection manager, with the UI as the reader of its events | `lock`, `connections`; per session `pc`, `peer`, `out`, `cur`, `by`; per message `spc`, `to`; heartbeat `tick`, `todo`, `doomed`, `due`; `events`; what the UI shows |
| `MessageLifecycle` | abstract: what sending promises for one message | `fate`, `shown` |
| `PeerTracker` | peer tracker, peers table, identity-change warning | `peers`, `rows`, `dialog`, `shown` |
| `Conversation` | open chat, messages table, sends and resends, failing reads and writes | `known`, `rows`, `selected`, `view`, `twice`, `flight`, `events` |
| `Pipe` | abstract: what a stream of frames promises the session loop | `written`, `taken`, `stopped` |
| `FramedStream` | `read_frame` in `select!`, one direction of a TCP stream | `frames`, `arrived`, `limit`; `start`, `at`, `need`, `counter`, `delivered`, `end`; `read` |
| `Startup` | startup, recovery, identity, over the database file | `file`, `main`, `backup`; `phase`, `mem`, `fresh`, `advertised` |
| `Discovery` | `Startup` on one machine, `PeerTracker` on another, the network between | `air`, `found` and theirs |
| `Notifier` | desktop notifications | `status`, `focused`, `limits`, `told`, `quiet` |
| `Maps` | maps with `With` and `Drop` | - |
| `MC...` | instances for TLC (symmetry) | - |
| `...Proofs` | theorems about the module named; `MessageProofs`: about sending in `ConnectionManager` | - |

Definitions marked *Mutant* stand before the one they distort and are used by no
specification; each breaks one property when it takes that definition's place.

### ConnectionManager

The tokio mutex is `lock`. A critical section that awaits nothing is one action guarded
by `lock = Nobody` (`Refresh`, `Cleanup`, the look of `NoDial`, `Dial`, `OpenChat`); one
that awaits takes the lock, goes through its steps and gives it back: the heartbeat pass
(`TickStart`, `TickCondemn`, `TickPing`, `TickDrop`, `TickEnd`), a setup (`Register`,
`Evict`, `Insert`), a send (`SendAcquire`, `Queue` and `ReportSent`, or `ReportFailed`).
Channels are bounded sequences; a send to a full one is a disabled step. The position of
a task is its `pc` (`spc` for sends), one value per await:

    free - handshake - [evict] - insert - announce - select - write
                                                     select - refresh - reply / deliver - select
                                                     select, write - cleanup - offline - free
    none - check - [setup] - acquire - queue - accept - sent
                                       reject - failed

The three ways to a session (a chat opened, a message to an unconnected peer, a stream
accepted) share the handshake, which succeeds (`Register`) or fails (`HandshakeFails`);
`by` names the send that waits for it. Ages are counted in heartbeat intervals, so
entries of equal age are a tie for the eviction. A session that has ended may be used
again: behaviours are infinite, only the number of streams that exist at one time is
bounded. Both ends of a connection are not modelled together; the other machine is the
freedom of `Accept`, `ReadPacket`, `ReadFails`, `WriteFails`.

What the user is shown is decided by `ReportSent` and `ReportFailed`, where the code
does it: Sent when the message is in the channel of a session. `MessageLifecycle` is
therefore what the code promises, not what the FRD asks: a message is tried once, gets
one verdict, is never written after Failed, and Sent says that a session has it. That it
was written is more (FR-MSG-05, FR-MSG-06); `SentIsNotLost` says the least of it, and
`ConnSent` refutes that.

A packet that cannot be serialised would be skipped by the loop; the packets of this
program always can (`bincode` without a limit, `String` and integers), so there is no
action for it.

Liveness is stated without assumptions on the network, as the code has no timeout of its
own: `EverySendResolves` and `SilentPeerDropped` name the two ways in which the program
can come to wait for ever, a handshake that is not answered (`Unanswered`) and a full
channel whose sender holds the lock, while its reader waits for that lock, for room in
its own channel or in a write that does not return (`Jammed`), and say that there is no
third. That the two do happen is `ConnHang` and `ConnFreeze`.

### PeerTracker

Everything in it runs on the UI thread with the database locked, so every call is one
action. Each has one SQL statement at most; the argument `ok` says whether it succeeds,
and memory changes as far as the code gets. `Restart`, at any moment, is the end of the
program and `load_from_db`. `Draw` separates what the user saw from what a click acts
on. Times are left out: the eviction of the Offline peer seen longest ago may take any
Offline peer. The text forms of the statuses in the tables are read back as written, so
rows hold the values themselves.

### Conversation

`rows` is the messages table, `view` what is on the screen, `flight` the number of send
tasks under way per message and recipient, each of which ends in one verdict at most:
that much of `ConnectionManager` is used here, and it is what `ImplementsLifecycle`
checks there. That a task ever ends is not assumed.

Every access to the database may fail, as its caller sees it. `Select` then keeps the
old messages on the screen under the new peer (`stale`); `Insert` and `UpdateStatus`
leave the row as it was, which `Send` and `StatusUpdated` ignore and `Received` logs
(`unsaved`). The primary key and the foreign key of the table make an insert fail too.
An arriving message that is already on the screen is pushed once more (`twice`). So the
screen and the table differ in the code, and the properties say exactly where:
`ViewIsConversation` (what may be on the screen and not in the table, or missing from
it), `StatusesAgree` (differing statuses), `PendingIsUnderWay` (a status nobody will
change any more). `stale`, `unsaved` and `cut` are history: no action depends on them
but `Send`, for which they tell which ids are new.

`Restart` keeps `rows` and `known` and forgets the rest. Messages have no times and the
screen no order.

### FramedStream

Bytes are positions in the stream: a frame is where it starts and how long its body is,
and the reader is the position it began its frame at (`start`), the next byte it gets
(`at`) and the length it has read (`need`). `Arrive` and `Chunk` let bytes come in any
portions. `Cancel` is the other branch of `select!`: the future of `read_frame` is
dropped with the bytes it had, so the next one begins in the middle of a frame. What a
header read there says is arbitrary; if the position happens to be that of a later
frame, it is that frame's length. The Noise session is a counter at either end
(`counter` at this one): a body decrypts if it is one whole frame and its number comes
next (`Authentic`). `delivered` is what is decrypted and handled. After a failed write,
or when handling a packet waits for a channel that never drains, the loop reads no more
(`GiveUp`).

`Pipe` is what `ConnectionManager` assumes of a stream: frames in order, none twice and
none skipped, until it stops. The refinement is about `read`, the frames that
`read_frame` has returned, recorded before the cipher is asked: their order is the doing
of `read_frame`, not of the counter. It holds until the first read that is dropped half
way, at which the pipe stops; `TornIsDeaf` is about what follows.

### Startup

`phase` is the position of the program: the check, the recovery, the opening, the load,
one position per statement of a save, running, one per statement of a reset. `file` is
the database as SQLite shows it, `main` the main file without its journal; statements
change `file`, and `Flush` brings `main` up to date: when SQLite sees fit
(`Checkpoint`), and when a connection closes, which the integrity check and an orderly
end do. `Recover` renames the main file alone and removes the journal; if renaming
fails, the main file is used again without it (`LoseJournal`). Keys are numbered in the
order `generate_new` makes them, so a number is also a fingerprint and "older" is
"smaller". `Fault` counts crashes, damage and failures; on a damaged file statements may
fail without being counted.

### Discovery

Extends `Startup` with the network and instantiates `PeerTracker` for the machine that
listens. Announcements under way are a set: any may be heard at any time, again and
again, and those of the fingerprint announced at present cannot get lost for good
because they are repeated. mDNS and UDP differ in their formats alone and feed the same
channel, so one `Announce` and one `Hear` stand for both. The listener is all of
`PeerTracker` but the user's decisions: its list fills up, evicts Offline peers, ignores
newcomers when it has none, and a write may fail after the eviction (`Process`);
sessions change who is Online (`Meet`). There is one announcing machine. With several,
an eviction may take the peer an identity change would be compared with:
`TrackerHostname` shows that.

### Notifier

An `Instant` is kept as its age, up to the window. `told` remembers, for every message
sent into the background, whether it was previewed and how often it was counted in a
summary; `quiet` is the time since the last notification about a peer, kept apart from
the notifier's own record.

## Runs

Each finishes within three minutes with two workers. Deadlock is checked except in the
runs of `ConnectionManager`, where a full channel really can stop the program
(`ConnFreeze`), and of `FramedStream`, where the session loop ends.

| Run | Instance | Shows |
|---|---|---|
| `ConnSafety` | 2 peers, 2 sessions, 1 entry, channels of 1, 1 message, incoming pings and messages | the table keeps its limit and its entries are served, through eviction, replacement and cleanup; the heartbeat pass acts on a table nobody changes; entries over the limit are about to go; lock discipline; one setup per waiting send; a message is in one place, of the right peer; sending implements `MessageLifecycle` |
| `ConnLiveness` | 1 peer, 2 sessions, 1 entry, channels of 1, 1 message | a send waits for ever only behind an unanswered handshake or a jam; so does the dropping of a silent peer behind a jam |
| `Tracker` | 2 fingerprints, 2 hostnames, list of 1, writes that may fail | every listed peer has its row; warnings name an old peer that is stored and persist until the user decides; discovery does not overfill the list |
| `ConvSafety` | 2 peers, 1 own message, 1 of each peer, any read or write failing, restarts | where the screen and the table differ, and nowhere else; messages go to their recipient unless the conversation could not be loaded; what is Pending is being sent, unless a write failed or the program ended; verdicts reach screen and table |
| `Frames` | 3 frames of 1 or 2 bytes behind headers of 2, reads dropped at any byte | what `read_frame` returns is a `Pipe` until a read is dropped; it fails only after a dropped read, and nothing comes out of it then; otherwise every frame comes out |
| `Startup` | 2 resets, 3 faults, 1 nickname, 1 message | identity and messages survive what they should; keys are made once but for resets and faults; a reset is never undone by a crash; the program comes up once faults end |
| `Discovery` | 1 reset, 1 fault, a peer that restarts, evicts and fails to write, a list of 2, a channel of 1 place | peers record a new fingerprint for resets and recoveries only, and flag every one; what is announced is found, unless the list is full of Online peers |
| `Notifier` | 2 peers, window of 3 ticks, 7 messages of each | one notification per window, exactly; no message counted twice; of the messages no longer counted, only one that brought a summary about is missed |

Runs that refute what the requirements or a comment say, each with a finding in
`PROJECT.json`:

| Run | What happens |
|---|---|
| `ConnZombie` | a dropped, evicted or replaced entry leaves its stream open: the task holds its own sender, so its channel never closes |
| `ConnSent` | a message whose write failed is shown Sent: the status is that of queueing it, and the `Err` branch of `send_message` cannot be reached at all (`EntryIsLive`) |
| `ConnPresence` | the `Offline` of an eviction is handled before the `Online` of the entry it removed |
| `ResetUnnoticed` | after a reset the running program goes on announcing the old fingerprint, so no peer is told |

### Further configurations

These are kept for the reader and run by hand (`tlc -config X.cfg MC...`). Each checks
one property, which TLC refutes:

| Configuration | Property | Against | What happens |
|---|---|---|---|
| `ConnHang` | `NeverPendingForEver` under `CodeSpec` | FRD:126 | an unanswered handshake keeps a message pending for ever |
| `ConnFreeze` | `NeverPendingForEver` under `FairSpec` | FRD:125 | a full channel, the lock held by its sender, its reader waiting for the lock: everything stops, though the network makes progress |
| `ConnIdle` | `IdleConnectionCloses` | FRD:107 | pings and pongs are activity, so connections without messages stay open |
| `TrackerBlock` | `BlockedStaysBlocked` | FRD:78 | a blocked peer that is evicted comes back unblocked |
| `TrackerLimit` | `TrackedWithinLimit` | FRD:94 | a restart loads evicted peers too |
| `TrackerHostname` | `KnownHostnameFlagged` | FRD:77 | an identity change against an evicted peer goes unnoticed |
| `TrackerDecision` | `DecisionAsShown` | FRD:78 | the click decides about a warning that replaced the one on the screen |
| `ConvRestart` | `PendingIsBeingSent` | FRD:122 | a message pending when the program ends stays pending |
| `ConvResend` | `PendingWhileSending` | FRD:122 | a message being resent is shown as failed, and can be resent again |
| `ConvUnknown` | `ReceivedIsStored` | FRD:153, 240 | a message from an unregistered peer is not stored |
| `ConvReadFails` | `AlwaysRightRecipient` | FRD:119 | the conversation of the last peer stays on the screen under the new one, and a resend goes to the new one |
| `ConvTwice` | `ShownOnce` | - | a message that arrives a second time is refused by the table and shown again |
| `FrameTorn` | `DecryptsEverything` | FRD, acceptance | a read dropped half way puts the stream out of step for good |
| `StartupMixed` | `KeysOfOneIdentity` | FRD:79 | a reset cut short leaves the new signing key with the old key for handshakes, and the program runs with both |
| `StartupAdvert` | `AdvertisedIsOwn` | FRD:79 | the fingerprint announced is not that of the running program |
| `StartupBackup` | `BackupKept` | FRD:156 | a second recovery overwrites the first backup |
| `StartupJournal` | `RecoveryKeepsAll` | FRD:156 | a recovery removes the journal: what a crash has left there alone is in neither file |
| `NotifierMissed` | `NoneMissed` | FRD:166 | what was counted in the last burst is never told of, unless the peer writes again; nor is the message that brings a summary about and stays alone in its window |
| `NotifierPanics` | `NeverPanics` | FRD:166 | a text longer than 60 bytes is cut inside a character, and the UI thread panics |

One configuration refutes nothing: `ConnPings` checks the two properties of
`ConnLiveness` with one session, two sends and a peer that sends packets.

### Bounds

The interesting cases of the table need one peer more than entries (eviction) and two
sessions of one peer (replacement, cleanup of a newer entry); both occur with one entry
and two sessions, which follow one another without end because a session that has ended
is used again. One entry leaves the eviction a single victim: that any entry may be
chosen is covered by the proof of `Capacity`, which holds for every limit. Channels of
one or two places are full often, which is what blocks senders; larger ones only delay
it. `ConnLiveness` has two sessions of one peer, so that a send has its setup overtaken
and its entry replaced, and the heartbeat waits for a lock others want; two peers make
it too large for a liveness check. Limits of one or two heartbeats (the code: 3 and 30)
leave the order of the two tests as it is. `MaxDue` bounds how many heartbeat ticks may
be overdue, `MaxFlight` how many sends of one message may be under way. In `PeerTracker`
two fingerprints and a list of one suffice for a new peer that evicts, or warns about,
the old one, and for the return of either; longer chains are covered by the proofs.
`ConvSafety` has one own message, sent and resent by two tasks at most: no action
touches two messages. Symmetry is used for safety only. In `FramedStream` three frames
are one that is torn, one the reader may then find by chance and one after it; headers
of two bytes can be torn in the middle. In `Startup` three faults are what it takes to
lose a journal: a crash that leaves one, a check that fails, a file that cannot be
renamed; two resets let one be cut short after another. In `Discovery` one of each
suffices to have the old announcement arrive after the new; the third fingerprint finds
the list of two full. `MaxTracked` (the code: 200) is assumed to be two at least: with
one place, an eviction followed by a failed write would leave nothing to compare with.
Seven messages fill two windows and the beginning of a third in `Notifier`, for any way
of spreading them; longer bursts only count higher.

### Fairness

`CodeFairness`: every task that can go on does so. The tokio mutex and the permits of an
mpsc channel are handed out in FIFO order and `select!` polls its branches in random
order, so a step that is enabled again and again is taken (strong fairness). `CodeSpec`
is this and time, and nothing else; what holds of `ConnectionManager` is checked under
it. `NetFairness`: handshakes end and writes return; nothing in the code sees to that,
so it is used in refutations alone (`FairSpec`), where it makes them stronger:
`ConnFreeze` stops although the network makes progress. In `Conversation` events are
handled because the UI asks for a repaint every 100 ms (weak); sends are not assumed to
end, and `PendingEnds` excuses a message one of whose sends does not. In `FramedStream`
bytes that were sent arrive and the runtime polls a read that can go on (weak fairness:
nothing disables them but the end of the loop or a dropped read). In `Startup` the
program is started again and its steps go on; crashes are bounded, so this is what
happens once they stop. In `Discovery` the services announce every 3 s (weak); one of
the announcements repeated for ever is received, and finds the listening program running
until its next frame (strong, as restarts may come in between).

## Proofs

`ConnectionManagerProofs` proves, for any sets of peers, sessions and messages, any
capacities and limits, and from `LimitsAssumption` and `NamesAssumption` alone (positive
limits; names that differ): `TypeInvariant`, `MutualExclusion`, `Capacity`,
`EntriesLive`, `OverdueDropped`, `OneSetup`.

None of these is inductive alone. `IInv` is their conjunction with `TickSeesTable` and
`InsertHasRoom`. The argument:

- `LockDiscipline` ties the lock to positions, and every action that changes the table
  outside a pass or a setup is guarded by the free lock; so whoever holds the lock sees
  a table nobody else changes (`TickSeesTable`, `InsertHasRoom`);
- hence the size tested by `Register`, or made by `Evict`, still holds at `Insert`:
  `CapacityBound`;
- an entry is made by a session at `insert`, which is set up for that peer; the session
  leaves its loop only through `Cleanup`, which removes the entry of its peer, own or
  not: `EntryIsLive`;
- a count over the limit arises only in `TickCondemn`, and until the drop the pass keeps
  the lock, so no refresh comes between: `OverdueIsDoomed`.

`TypeOK` is proved first, one lemma per part; then one lemma per invariant shows that
the steps which can disturb it do not, `SetupStep` and `LockStep` summarise what steps
do to positions and lock, and `StepIInv` puts them together.

`MessageProofs` proves on top of it `CarriedOnce` and `SendingIsLifecycle`. A place is
an index into a session: 0 for the hand of its task, the rest for its channel, so that
taking a packet moves all of them by one. `CarryInv` says that a message is in one
place, of a session whose peer is the recipient, put there by a send that has been
accepted, and not yet written. It needs two more parts: the send that is about to queue
still has its entry (`QueueSeesTable`, as it holds the lock), and a session that ends
leaves nothing in its channel or its hand (`Tidy`); without the second, a session that
is used again for another peer would carry on with the messages of the first.
`CarriedOnceToRecipient` counts places, of which there is then one at most.

`SendingIsLifecycle` is the refinement. `ShownInv` says that a message has one verdict
at most under way, that it is the outcome of its send, and that what is shown follows.
Most steps leave every fate as it is (`AllSame`); one step of a send changes that of its
own message (`SendSubmits`, `AcquireRejects`, `TransportMoves`), and a session that
closes loses all it carries at once (`LostTogether`), which is one step of the lifecycle
too. What the UI handles is `EventShows`.

`PeerTrackerProofs` proves, from `TrackerAssumption` alone and with writes that may
fail: `TypeInvariant`, `RowsKept`, `OldPeerKnown`, `ChangesStayPending` and `LimitKept`.
`IInv` is `TypeOK`, `TrackedHasRow` and `WarningNamesOldPeer` together: the warning a
new peer gets names a *tracked* peer, and only because tracked peers have rows is the
old peer still known after it has been evicted. `RegisterIInv` is the step that matters,
with one case per outcome of the lookup and of the write. `ChangesStayPending` follows
from `UpsertRow` (the conflict clause keeps `trust_status`). `LimitKept` counts, which
needs the table to be finite (`RowsFinite`).

`ConversationProofs` proves, from `ConversationAssumption` alone and whatever reads and
writes fail: `TypeInvariant`, `ScreenIsConversation`, `Recipients`, `ScreenAgrees`,
`PendingMeansUnderWay`. A resend goes to the selected peer, so it is right only because
the screen holds that peer's messages, or `stale` says that it does not; and the screen
stays complete because what `Insert` adds to the table of the selected peer's is pushed
too. For the statuses the invariant is `Told`: a settled message whose last write did
not fail is the same on the screen and in the table and waits in neither, unless it was
cut off. It rests on one observation, `SettledBefore`: a step that settles a message is
the one that handles its last event.

`FramedStreamProofs` proves all its safety properties from `StreamAssumption`, for any
header and frame sizes: `TypeInvariant`, `FailureIsTorn`, `Deafness`, `StreamIsPipe`. As
long as no read was dropped the reader stands where the next frame begins (`InStep`), so
what it reads there is a length and decrypts; once one was, it stands past the beginning
of the frame it waits for, and as `start` only grows it never gets back (`OutOfStep`):
no frame it finds has the number expected. For the refinement, `ReturnedIs` says of a
`Handle` in step that the frame between `start` and `at` is the next one in the stream,
from the lengths alone; the counter follows (`Delivery`), not the other way round.

`StartupProofs` proves, from `StartupAssumption` and `FileAssumption`, for any number of
faults and resets: `TypeInvariant`, `MessagesKept`, `IdentityKept`, `NoReturn`,
`MadeOnce`. The invariant says what the statements of a save have written at each phase
(`Progress`), that what the last run left saved is in the file unless `excused`
(`Kept`), that no key in the file is older than those in use and none newer than the
last made (`Numbers`), and that the journal only adds to the main file (`Journal`).
`NoReturn` needs `Numbers` because after a reset that was cut short the file may hold
the old or the new key, but never one before them. `MadeOnce` is an argument by what is
left to spend: `Due` is how many keys may be made before the next reset or fault, and
each fault raises it by one at most. It is one where the file lacks a key or is going to
fail its check, and two only for a damaged file that the program has taken back into use
although it lacks a key; that takes two faults.

`DiscoveryProofs` proves, from `DiscoveryAssumption` and those of `Startup`, for any
limit of two or more, any number of resets and faults, failing writes, and whatever
happens to announcements: `PrintsSuffice`, `ChangesCaused` and `ChangesFlagged`. Both
machines are those of their own modules, so the theorems above are used as lemmas.

- `PrintsSuffice`: `Hear` takes announcements from the finite set `Prints` alone. By
  `MadeOnce` that leaves none out.
- `ChangesCaused` counts all fingerprints in the world (`Known`): announced, on their
  way, recorded. With the one the machine may yet launch under (`Owed`) they are no more
  than one and one for each cause. A launch under a new one takes what is owed; and one
  is owed again only when there is a new cause, or when the latest one has been
  forgotten everywhere, which makes `Known` smaller (`TallyKept`).
- `ChangesFlagged`: a new fingerprint goes without a history only if the listener tracks
  no peer. An eviction takes one of two at least, so that one is left even if the write
  of the newcomer fails (`NotTheLast`, `NotWritten`), and a restart loads every row: it
  tracks none only while it has recorded none (`OneMachine`).

`NotifierProofs` proves, from `NotifierAssumption`, for any number of peers, any window
and any number of messages: `TypeInvariant`, `Counted`, `OnlyOneMissed`,
`OneNotification`. `Good` is about the messages of one peer and its count: it adds to
the two properties that the message which opened the present window was previewed, or
brought a summary about that has the one before it. `AgeIsQuiet` ties the notifier's
record to what the user has seen.

Every safety property and action property of the passing runs is proved, and both
refinements. Model-checked only: `EverySendResolves`, `SilentPeerDropped`,
`PendingEnds`, `FramesDelivered`, `ComesUp` and `AnnouncedIsFound`, which are liveness
(ENABLED and fairness are beyond the prover).

## Not modelled

Cryptography beyond counters and key numbers (library wrappers; a handshake succeeds or
fails), several announcing machines with one listener, the encoding of packets and
beacons, layout and sorting of the UI, logging and configuration. Message times and
order on the screen, addresses. The migration of a legacy identity table. Power
failures, after which SQLite may have lost the last statements. Sockets that cannot be
bound: discovery then goes on without them. Two clicks in one frame of the UI. Two
connection managers joined by streams.

## Plan

1. `TwoNodes`: two connection managers joined by streams, simultaneous dials.
2. The handshake step by step, with a reset of the identity in between.
3. Proofs: that `Conversation` may rely on `MessageLifecycle` for its sends; the safety
   half of `AnnouncedIsFound`, that an announcement heard is recorded unless the list is
   full.

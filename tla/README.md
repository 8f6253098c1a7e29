# onemessagebus: a TLA+ development

onemessagebus is a message bus library in Rust (`src/crates/onemessagebus`): queues
kept as logs behind a transport, an ask protocol over two queues, an inbox that hands
messages to whoever takes them and carries the answer back, the same inbox between
processes over a directory, a command line, a resident process and SDKs in front of
them.  These modules model the parts in which several processes or threads meet, check
them with TLC on small instances, and prove the most important facts about them with
TLAPS for every instance.

Paths below are relative to `src/crates/onemessagebus/src/` unless they say otherwise.

## 1. Inventory

| component | code | state it keeps | hard behaviour | where |
|---|---|---|---|---|
| event queue | `queue.rs` | a log of events, a stamped projection of it | readers that write back outside the section, a crash between the log and the projection, marks and claims decided from older reads | `QueueFold`, `EventQueue`, `QueueLifecycle`, `QueuePromise` |
| plain queue in a directory | `transport.rs`, `queue.rs` | a records file, a cursor per consumer, two checkpoints | torn and failed writes, stale checkpoints, reads without the lock | `LocalTransport` |
| memory transport | `transport.rs` | records, documents and cursors behind a mutex and one condition | nested sections, waits, one condition for all | `MemoryTransport` |
| plugin transport | `plugin.rs` | a child process, a pipe to and from it, who may use it | threads on one pipe, a section of several exchanges, a peer that dies in it | `Plugin` |
| inbox | `inbox.rs` | a queue of messages, those taken, a ticket per sender | deadline against take, answer and release; closes; selective receivers asleep | `Inbox`, `Handover` |
| spool | `spool.rs` | files named for messages, two file locks | crash of either side between any two file operations, refused operations, rebinding | `Spool` |
| carry | `carry.rs`, `inbox.rs` | one file | its creation, a torn record, a cut that is not synced, adoption by a session that closes | `Carry` |
| ask | `ask.rs` | nothing but the two queues | reply against claim, abandonment and other replies | `Ask` |
| served member protocol | `codec.rs` | a session, the questions it asked | frames read ahead, a bound, an end, answers that come meanwhile | `Serve` |
| resident process | `resident.rs`, CLI `cli/resident.rs` | a socket and its pid file; the requests running | several that claim one socket, calls that are refused, cancel against finish, close | `ResidentSocket`, `ResidentConnection` |
| emitter, reader and merge | `emit.rs`, `read.rs` | the next `seq`, a sink or a file | two processes on one file, torn tails, resuming while it is written | `Stream` |
| schema links | `link.rs` | a cache of bundles, each two files | processes that fill, revalidate and clear it, with no lock | `LinkCache` |
| validators and offers | `validate.rs`, `config.rs` | passes kept under a fingerprint | a bar that moves and comes back while it is judged by, passes shared between queues, a push refused half way | `Offer` |
| filters | `filter.rs` | none | a glob that comes back to its last `*` alone | `Glob` |
| configuration and layouts | `config.rs`, `layout.rs`, `schema.rs`, `kinds.rs`, `capability.rs`, `author.rs` | none | | not modelled: pure |
| envelopes | `envelope.rs`, `bounds.rs`, `redact.rs`, `vocabulary.rs`, clocks | none | | not modelled: pure, and their text |
| SDK schema, conformance | `sdk_schema.rs`, `conformance.rs` | none | | not modelled: tables |
| command line | `src/crates/onemessagebus-cli/src` | none | | not modelled: argument parsing around the library's calls |
| SDKs | `src/npm`, `src/python` | requests waiting for the resident process | late and lost answers | not modelled, but for what they send (`ResidentConnection`) |
| repository tooling | `src/crates/onemessagebus-repo`, `src/scripts`, ... | none | | not modelled |

How they interact.  A queue calls its transport: `exclusive` for a section, `append`,
`read`, `document`, `replace_document`, `commit`; the transport is a directory, memory,
or a plugin process that serves one of those.  Ask calls two queues and
keeps nothing of its own; it never holds one queue while it looks at the other.  A spool
binds an inbox to a directory: it hands what arrives to the inbox (`offer_to`) and is
called back under the inbox's lock (its gates) when a message is taken, answered,
released or expires.  A carried store is adopted under the inbox's lock (`offer_all`).
A served session asks, and offers through the validators (`Bus::send`).  The command line, the resident process and the SDKs call all of
these.  What must be right:

- **event queue**: what is pushed is never lost, handed out once (again only when its
  asker gave it up and it was pushed out of the slot), in the policy's order; the
  projection is never trusted for more than it was computed from.
- **plain queue**: a cursor and a checkpoint never change the answer, only its cost; a
  record never runs into a torn one; a claim moves a cursor on.
- **inbox**: a message is in one pair of hands, its sender is told exactly what became of
  it, exactly once; nobody sleeps through what it waits for.
- **spool**: what was withdrawn is never had; a sender is told, in bounded time or when
  its receiver dies; nothing taken drops out of sight.
- **ask**: one reply settles a question for everybody; a reply that is there is heard; a
  question leaves the slot only for a reply.
- **memory transport**: nobody sleeps through what it waits for; nothing enters a section
  from outside it.
- **plugin transport**: each reply reaches the call it answers; a section is as atomic as
  that of the transport behind it; every call returns, whoever dies.
- **stream**: a shared file is one gapless series of whole lines, and what was acknowledged
  is in it; a reader that resumes skips and repeats nothing.
- **carry**: a message is in the store or was taken out of it, once, in order, and into an inbox
  unless something failed.
- **resident**: a request can be stopped as long as it runs; processes that start on one path
  at once remove each other's sockets, and one of them is left serving.
- **served session**: a question is given up only when nobody can be waiting for it, and
  then always.
- **link cache**: a store never takes an entry away; what is confirmed is what was asked about.
- **offers**: a record is in a queue only when every validator of that queue passed it, or a
  pass it may take was kept for that bar.

`PROJECT.json` lists, under `hazards`, the places in the code where each of these can go
wrong, with the properties that would show it.

## 2. The modules

| module | what it is |
|---|---|
| `QueueFold` | the meaning of an event log: `RawQueue::apply` and what operations derive from it, as functions; no state |
| `EventQueue` | processes that share a log and a projection: one step per read, append and replacement |
| `QueueLifecycle` | what an event queue promises of each record: unused, waiting, held, gone |
| `QueuePromise` | `EventQueue` beside the promise its log keeps: the refinement mapping |
| `LocalTransport` | a numbered plain queue in a directory, at the size of file operations |
| `MemoryTransport` | threads over one mutex and one condition |
| `Plugin` | client threads, a pipe and a plugin process for each client, at the size of lines |
| `Handover` | what an inbox promises: a message is offered, had or not, told |
| `Inbox` | the in-memory inbox: one step per critical section |
| `Spool` | the inbox over a directory: one step per file operation |
| `Carry` | senders, a store and the sessions of its receiver: one step per file operation or section |
| `Ask` | asking and answering: one step per look and per append |
| `Serve` | a served session, its member and the thread that reads ahead |
| `ResidentSocket`, `ResidentConnection` | the processes started on one path; one connection to one of them |
| `Stream` | emitters, a file and readers: one step per write and per read |
| `LinkCache` | processes that resolve one pinned URL, its cache and its origin |
| `Offer` | offers judged by validators that keep passes, while the bar moves |
| `Glob` | one step per pass of `glob`'s loop, and what a pattern means |
| `MCQueuePromise`, `MCProgress`, `MCServices`, other `MC*` | instances for TLC; `MCEventQueue` is what the two queue instances share |
| `LibraryProofs` | lemmas about sequences and numbers the others cite |
| `QueueFoldProofs`, `EventQueueProofs`, `AskProofs`, `InboxProofs`, `SpoolProofs` | theorems about the module each is named for |
| `TransportProofs` | theorems about `MemoryTransport`, `Plugin` and `LocalTransport` |
| `ServicesProofs` | theorems about `ResidentSocket`, `ResidentConnection`, `Serve`, `Carry`, `LinkCache`, `Offer`, `Glob` and `Stream` |

`EventQueue` and `Ask` extend `QueueFold`, so both speak of the same log and the same
transitions.  `Ask` takes each queue call as one step: that is what `KeepsLifecycle`
shows of `EventQueue`, whose lines take effect one at a time whatever interleaves.
`Spool` has the inbox's queue as a set, because the order of takes is `Inbox`'s subject;
`Inbox` has no files.

### How the state corresponds

**QueueFold / EventQueue.**  A record is `[id, abandoned, body]`: the four fields the
queue owns (`blocking`, `asker` in the body) and the one a superseding policy reads.  A
line is an event and a record; `"none"` is an older writer's line with no event, and
`"unreadable"` one that does not parse.  `doc` is the projection document with the
position it accounts for; `"unsealed"` one whose seal does not match.  A position is a
number of lines.  A mutation is `Enter` (the section), the fold being brought up to date
(`current`), the lines derived, `AppendLine` for each, `Project`; a read is `Snapshot`,
`ReadLog`, `Repair`, with no section.  `Crash` and `Fail` can end any of it.  `MaxId`
stands for `u64::MAX`.

**LocalTransport.**  A file is a sequence of cells: a record's text takes as many as its
kind is wide, and a newline one.  A position is a number of cells, as the code's is a
number of bytes, so an offset can fall inside a record.  `disk` holds each file that ever
had the queue's name, so that a deleted log and one created in its place are told apart,
as device and inode tell them apart (`measure`).

**Handover / Inbox.**  `queue`, `taken` and `closed` are the fields behind the inbox's
mutex; `slot` and `due` those behind a ticket's.  A reply leaves the first lock before it
reaches the second: until then it is in `replying`.  A wait on a condition variable is
the state `asleep`.

**Spool.**  `files[m]` is the set of suffixes message `m` has a file under, `answer[m]`
what `answers/m.json` says.  A step is one `create_new`, `rename`, `remove` or read, so
that everything can happen between two.  The two file locks are the receiver's `phase`.

**Ask.**  A question's correlation is its id.  `answers` is the answer queue: which
question each reply echoes.  `at` and `doing` say where each listener and replier is
between its looks and its appends.

**MemoryTransport.**  An operation is one step under the mutex; one that finds the queue
held by another section (`state_for`, `exclusive_as`) or nothing moved (`wait_for_change`)
lets the mutex go and is `asleep` in the same step, and `NotifiesAll` is `notify_all`.  A
record is the place its writer read, inside its section, that it would land at.

**Plugin.**  `request` and `replies` are the two pipes of each client's child, `held_by`
whose section has them (`exchange_line`), `sections` and `taking` the recursion of
`serve_until`.  A begin is answered before the section is taken, as the code does.

**Stream.**  The file is a sequence of pieces, two halves of an envelope's text and a
newline, so that a write can stop in the middle; `sinkLock` is the mutex or the file's
lock.  A reader takes the file in the two reads of `open_at`.

**Carry.**  `storeIs` is whether the file is there and ends in a whole record; `entries`
its records.  Linking a staged file into place is one step (`create_store`), and so is
`offer_all`, which cuts the store under the inbox's lock and hands its messages over, or, where
syncing the cut fails, does not (`CutIsNotSynced`).  `appended`, `drained` and `lost` are kept for
the properties: what was ever carried, what was cut, and what of that no inbox took.

**ResidentSocket, ResidentConnection.**  `standing` is whose socket is at the path,
`recorded` the pid in the file beside it.  Every call on the path, on the socket and on that file
may be refused (`RefusedStep`): what the code gives up for ends the process, what it ignores (a
pid file that cannot be read or removed) leaves the pid where it is.  `running` is the map of the same name, `wire`
the lines written to the client; a run leaves the map and writes its answer in two steps.

**Serve.**  `pipe` is what the member wrote, `channel` what the reader thread handed over;
`stage` where the loop of `serve` is; `questions` what became of each ask on the bus.

**LinkCache.**  `body` and `meta` are an entry's two files; a document is the number it was
published under, which is also its validator where it is served with one.

**Offer.**  `passes` is the directory of passes; `bar` what the fingerprint's command would
print.  What a command says depends on the content, the bar, and the queue and question it is
told (`Context`); what its pass is kept under (`PassKey`) leaves the last two out.  `ran` and
`inForce` are kept for the properties: the runs that passed, each with the bar it read and the one
it found, and the bars since an offer's judging began.  A validator
whose `when` does not admit the record passes it unasked (`NotAsked`).

**Glob.**  The variables are the loop's; `Means` is the reference.

## 3. Runs

| run | instance | what it shows |
|---|---|---|
| `queue` | two processes, a blocking question and a superseding heartbeat, two logs to open on, two more lines | projections are sound, writers up to date, the log's history is in order (`LogInOrder`), and every line appended is a step of `QueueLifecycle` (`KeepsLifecycle`) |
| `progress` | an event queue with one more line, and beside it an inbox of one sender and three receivers, under fairness | calls end and sections are left; nobody sleeps through what it waits for |
| `local` | two processes, two file identities, a narrow and a wide record, one deletion or truncation | numbers match places (`PlacesHold`), checkpoints change no answer, what is claimed or written stays so (`DoneStaysDone`) |
| `inbox` | two senders, a plain and a selective receiver, two reasons to close | five invariants and the refinement of `Handover` |
| `spool` | one message, two receivers in turn, one refused operation, three meanings of an advertisement | nothing is had after it was given up, answers arrive, what is taken is accounted for |
| `spool_waits` | the same with one receiver, under fairness | offers return, deadlines end waits, a dead receiver is noticed |
| `spool_answer` (violation) | the answer's file refused once | a message taken and answered is reported withdrawn |
| `ask` | two questions, one listener, two repliers, claims and marks | one reply settles, none is missed, releases follow replies, one answer per claim |
| `ask_race` (violation) | the same | a reply that listeners hear is reported to answer nothing |
| `plugin` | three threads of two clients, two queues, a nested section, one death, under fairness | replies reach their calls, sections are atomic, calls return |
| `plugin_refused` (violation) | a plugin that once fails to take a section | it answers twice, and every later call reads the reply before its own |
| `services` | nine components that share no state, one of them running in each behaviour | what each promises, below |

The properties of `services`, and the instance each is checked on:

| property | instance |
|---|---|
| `WaitsAndSectionsHold` | three threads, two queues, a section inside another, a wait |
| `StreamIntact`, `ResumedReadsTile` | two writers, three envelopes, each kind of sink, one fault, a reader that reads on twice |
| `CarriedInOrder` | two senders of two messages each, two sessions, one mishap |
| `RaceLeavesOne` | three processes on one path, two removals, kills or refused calls |
| `RunsCanBeStopped` | two ids, one of a subscription, three lines of a client that need not keep to the protocol |
| `GlobMeansIt` | every pattern of four characters over two letters and `*`, every text of four |
| `ConfirmedIsServed`, `EntriesStay` | two processes, two documents of one version, three verbs, one trouble |
| `EndingDecides` | three frames of every kind, bounded and not |
| `AppendedWasPassed` | two offers, about a question or none, a queue routed to two, three validators of which two are one command and share its passes, a bar that moves and comes back |

### Bounds, and why they are enough

Every bound is a constant: `MaxGrowth`, `MaxPushed`, `MaxMeddling`, `Lives`, `Faults`,
`MaxLines`, `MaxId` for the queues, and in `services` and `plugin` one `Max...` for each
kind of call, fault or message.

- *Queue*: an interference needs two processes, one between two steps of the other.  The
  logs it opens on hold the cases that take many calls to reach (a pending question
  abandoned by its asker with another waiting; an older writer's line, an unreadable line
  and a question behind it), so that two more lines displace, supersede, answer and mark.
  `MaxId = 3` leaves ids for what is pushed; the code's behaviour at the last id
  (`ApplyQueued`'s refusal to wrap) is in the model.
- *Plain queue*: two records of different widths suffice for an offset to fall inside a
  record; one deletion or truncation, with a second file identity, suffices for a
  checkpoint to be stale in each way.
- *Inbox*: the races are between one message's sender and whoever has the message; the
  second message gives order between them, and a close its list.
- *Spool*: every file is named for its message and no step reads two messages' files.
  Two receivers in turn and one refused operation meet each of the protocol's recoveries.
- *Ask*: the two repliers and the two questions are what a displaced slot needs; there is
  no bound on waits, and claims and marks stop at four lines (five in `ask_race`).
- *Plugin*: a second thread of one client meets the pipe, a thread of another client the
  lock; one nested section is `serve_until`'s recursion.
- *Services*: two writers, senders, processes or offerers are what an interference needs,
  and one fault what a recovery does; three residents let a third start on what two left, and
  `RaceLeavesOne` was also checked with four.  A bar needs two moves to come back.
  A glob that came back to the wrong place fails on patterns with two `*`, which four
  characters hold with a letter after each.

`CHECK_DEADLOCK FALSE` stands where everybody can be done: in the inbox, the spool and
the asks, whose messages, lives and repliers are finite, and in `plugin` and `services`,
whose calls are.

### Fairness

Safety runs assume none.  `progress` assumes that a process inside a call of the queue
goes on (`WF` of `GoesOn`); it need begin none, and may crash or fail.  Of the inbox it
assumes that a thread that can run does, that time passes and that whoever has replies to
deliver delivers them: threads scheduled by the system, condition variables with the
standard library's promise, deadlines computed from a monotonic clock.  Nobody need take,
answer, release or close.  `spool_waits` assumes that a waiting sender looks again
(`Exchange::wait` polls), that time passes, and that a bound receiver's courier and closing
thread run; a receiver need not take or answer and may die.  `plugin` assumes that a thread
in a call goes on and that a plugin that runs serves what it reads: both sides block on
their pipes and locks alone, and a body that began ends.

## 4. Proofs

Everything below holds for any values of the constants under the modules' assumptions,
which TLC evaluates in the runs that extend them.  Most are typing: bounds are numbers,
sets of actors do not hold the value that stands for nobody (`FoldAssumption`,
`QueueAssumption`, `AskAssumption`, `InboxAssumption`, `SpoolAssumption`,
`LocalAssumption`, `MemoryAssumption`, `PluginAssumption`, `ConnectionAssumption`,
`ResidentAssumption`, `ServeAssumption`, `StreamAssumption`, `CarryAssumption`,
`LinkAssumption`, `OfferAssumption`, `GlobAssumption`).  Two say more, of what is there when
a store is opened: `OldLogsAssumption`, that the logs of an event queue are in order, and
`OldCellsAssumption`, that the records of a plain queue's log are numbered by their places.
Both are what an earlier run of the same code leaves.  The bounds (`MaxGrowth`, `Faults`,
...) are any numbers, so the theorems do not depend on them.

Each theorem is a step invariant and one lemma for each action that says the action keeps it.

**Event queue** (`QueueFoldProofs`, `EventQueueProofs`).  The fold is typed, appending a
line applies it, and **`FoldResumes`**: folding on from what any prefix left is folding
the whole log.  This is what lets a stamped projection be used at all.

- `IInv` is typing, the shape of a call in progress, no unstamped projection (an older
  writer's is excluded; section 5 says why), `ProjectionSound` and `WriterUpToDate`.
  Neither of the last two is inductive alone: a projection is sound because the writer that
  stamps it was up to date, and a writer is up to date because the document it resumed from
  was sound and nobody else appends while it is in the section.
  **`TypeCorrect`**, **`ProjectionsAreSound`**, **`WritersAreUpToDate`**.
- **`LogStaysInOrder`** needs to know what a writer is about to append: `TodoDecided` says
  that it is marks, which a log in order bears at any time, or the one line its call decided
  from the log as it still is.  That such a line keeps the log in order follows from what a
  log in order tells (`Knows`, by induction on its prefixes): the fold's ids were queued, its
  records have their bodies still, what holds the slot was claimed since it was queued, and
  what waits though it was claimed was abandoned.
- **`LifecycleKept`** is the refinement of `QueueLifecycle`, from the same: a line that is
  decided takes one record through one step of its life, a mark none or the one that sets it
  aside, and every step but an append maps to a stutter.

**Ask** (`AskProofs`).  The two queues only grow (`QueuesGrow`), so what was asked, claimed
and replied stays where it was.  `IInv` is typing, `Bindings` (what a replier knows of the
question it answers: above all that its reply is on the queue before it may release the
slot), `Hearing` (a listener about to give up has looked since its wait began),
`ReleasedByAReply` and `ClaimInv`.  The last is for claims: an answered question is out of
the fold and its id is not used again, a replier bound through a claim names the claim of the
question it is bound to, and so no two are told they released the same one.
**`TypeCorrect`**, **`FirstReplySettlesHolds`**, **`NoReplyMissedHolds`**,
**`ReleasedByAReplyHolds`**, **`OneAnswerPerClaimHolds`**.

**Inbox** (`InboxProofs`).  `IInv` adds `HeldWasSent` (what a hand holds was sent) to typing,
`OneReply` and `TakenOnce`: a step that moves a reply takes it from exactly one of queue,
taken, on-its-way and ticket and puts it in exactly one other.  Over it,

- `OverdueInv`: a sender is only overdue once its deadline passed;
- `HappenedInv`: every outcome on its way, in a ticket or told is one that happened, and a
  message that was answered is nowhere it could still be withdrawn from;
- `OrderInv`: each message arrived once and before it was queued or taken, so that its place
  among the arrivals is its id;
- each critical section is one step of `Handover` or none, given `IInv` before and after.

**`TypeCorrect`**, **`RepliesAreInOnePlace`**, **`MessagesAreTakenOnce`**,
**`OverdueStaysWithdrawn`**, **`SendersAreToldTheTruth`**, **`QueueKeepsOrder`**,
**`PromiseKept`**.

**Spool** (`SpoolProofs`).  No step touches the files of two messages, so the invariant is one
of a message at a time, `Core(m)`: it is carried in, queued, owed a reply, being let go or
being settled, in one of them only (`InOnePlace`); a claim the receiver counts on is on disk
and no sender's, and a sender that withdrew left its claim there for the receiver to find
(`HeldIsClaimed`, `WithdrawnIsClaimed`); a taken file stays while the receiver has the message
(`StillTaken`) and is of a message that is somewhere (`TakenIsSomewhere`).  A step of one
message leaves the others alone (`Untouched`), which is a lemma once and not a case of each
action; a crash is the one step that moves all of them, and excuses what it exposes.
**`TypeCorrect`** and **`TakenIsAccounted`** follow.  **`NeverBoth`** needs `HadIsKept(m)`, that
the claim of a message that was taken stays until its answer is there to be found; that is
false where an answer may be refused, which the run `spool_answer` shows, so the theorem
assumes `"answer" \notin Refusable` and nothing else of the file system.  The runs have one
message; the theorems have any number.

**`AnswersAlwaysArrive`** assumes nothing of the file system.  `ArrivesInv` adds two things to
typing and `Core`.  `Lifetimes` is of the receiver's process: a courier at work serves, a close is
of a bound inbox and leaves nothing queued or owed, and a spool closed for good says so on disk or
excuses everybody.  `Arrives(m)` is of a message, and follows the order of both sides' file
operations: an answer on disk was given by who had the message, once (`AnswerIsGiven`,
`SettledOnce`, `AdmittedOnce`); a sender that returned has been told (`ToldIsDone`); a receiver that
removed the taken file left an answer first, or the sender has the claim (`ClaimIsSenders`,
`RemovedIsAnswered`); until then the receiver that has it is the one that is bound, or the one that
closed the spool (`StaysInSight`), so that a sender that finds nobody bound and no answer is one
whose message ended with its receiver (`EndsUnbound`).  Hence an answer that was given is on its way, there to be
found, or told (`GivenArrives`).

**Transports** (`TransportProofs`).  Those of memory and of the plugin rest on who holds a queue
being who appends to it.

- **`MemorySectionsHold`**, by `MemoryInv`: a queue is held by the thread whose sections it is
  among, once, and an outermost body knows how long its queue is.
- **`RepliesMatchRequests`**, by `PipeInv`: a section has its client's pipe, one thread reads on
  a pipe, and what is in it is the line of that thread or the reply to it.
- **`SectionsStayAtomic`**, by `SectionInv` over it: the two ends of a pipe agree on the sections
  that are open, counting the reply on its way (`Agree`), the plugin has the lock of each, and
  a body knows how long its queue is but for an append it was not told of yet (`Knows`).

The plain queue's (`LocalTypes` and the three below) rest on `LocalIInv`, which is typing and two
things.  `Recorded` is of what is kept: every file is numbered by places, and a checkpoint
`Counts`.  That is, its digest is the line of a record that carries the number before its count, so
that a log in which the line is found at that place, as `Holds` demands, has just so many
records up to there, *whichever* log it is.  This is why a checkpoint may outlive its log, and
it holds of a log that others delete or cut short, but not of one whose records they
renumber.  `Proceeds(p)` is of a process: who
writes or claims has the lock (`InTheLock`); a push appends to whole lines a record with the number
of those there (`PushesOn`); what a reader is about to use, it computed from a log with the
same lines (`ReadsOn`, `ClaimsPast`, `PositionStays`).  Below it are lemmas about cells: how the
records of a file are counted when a line is added, a tail is cut or the file is read from a
boundary on.

- **`PlacesAlwaysHold`**, of the state that invariant describes.
- **`CheckpointsAreACache`**: an answer computed from a checkpoint that holds is the one a read of
  the whole log gives.
- **`DoneAlwaysStaysDone`**: a write only adds to the whole lines, and cursors move on.

**Services** (`ServicesProofs`).

- **`RacesLeaveOne`**, by `SocketInv`, of a race in which nothing is refused, killed or unlinked from
  outside: an earlier resident's socket stands only until one of them removes it, nothing stands
  at the path only while one that will bind goes on, and whose socket stands goes on to watch that
  very socket.
- **`RunsStayStoppable`**, by `ConnectionInv`: a run that has not left `running` is what stands
  under its id there, and a connection that closed has cancelled those that run.
- **`EndingsDecide`**, by `ServeInv`: the reader thread ends at the end of the stream or once
  nobody is there to read for; a session that marks has seen the end and all it asked.
- **`CarriedStaysInOrder`**, by `CarryInv`: who changes the store has its lock, the receiver from its
  parse on, and a sender appends the message it carries once.
- **`StoredStays`**, by `LinkInv`: the files of an entry are of the version they are named for,
  however many processes store, so that what replaces one of them leaves an entry that can be
  read.  **`ConfirmedAreServed`**, by `AloneInv` over it: the body is stored before the
  metadata, so that metadata are never of a later document than the body beside them, and an
  origin that confirms them confirms what that verb read (`Knows`).  It is about verbs that run
  one at a time: two that store at once can mix the files of two documents, for each file
  is renamed whole and the pair is not (`link.rs:1542`).
- **`JudgedIsPassed`**, by `OfferInv`: a pass that is kept is one of a run of its command on that
  content, begun by reading that fingerprint (`KeptFor`); a fingerprint an offer is judged under
  was in force since its judging began; and those who judged so far have passed the offer
  (`PassedIn`).  Nothing is assumed of the bar, which may come back as often as it likes.
- **`GlobMeans`**, by `GlobInv`: before a `*` is passed a match goes on where the loop is; after
  one, there is a match exactly when what follows that `*` matches from `resume` on or later, and
  the attempt from `resume` has come as far as the loop is.  What a pattern means is read off
  `MatchesFrom`, a recursive function whose values the proof constructs (`MatchesFromIsSo`).
- **`StreamStaysIntact`**, by `IntactInv`: the whole lines are envelopes, those of a shared file
  numbered by their places; whoever writes holds the sink, has the next number, and what is torn
  is the beginning of its own line (`Writes`); and a single emitter's file is torn by nobody else
  (`BetweenWrites`).  Like the property, it says nothing of what a sink that one emitter has to
  itself holds once a write failed half way.
- **`ResumedAlwaysTile`**, by `Tiles(r)` of each reader: its position is a boundary, the newlines of
  its first read are the file's, and what it has is the whole lines up to its position, unless
  two of its reads were spliced.  Both rest on lemmas about files: healing a tail leaves the
  whole lines (`HealedLines`), those of joined files are the one's and the other's when the
  first ends in a newline (`LinesOfJoined`), and so whatever a writer does, a whole line stays
  where it was (`LinesStay`).

The `TypeCorrect` theorems, `LocalTypes`, `SocketTypeCorrect` and `StreamTypeCorrect` are the type
invariants of `EventQueue`, `Ask`, `Inbox`, `Spool`, `LocalTransport`, `ResidentSocket` and `Stream`;
no run repeats them.  The type invariants of
the other modules named here are parts of their invariants.

Every invariant and every action property that a passing run checks is stated by one of these
theorems.  Checked by TLC only is liveness, which the prover cannot express: `CallsEnd`,
`ReceiversWake`, `NoSenderLeftWaiting`, `OfferReturns`, `DeadlineEndsTheWait`, `GoneIsNoticed` and
`CallsReturn`.

## 5. Where the code and its documentation disagree

Three of these are runs that TLC must find violated; `PROJECT.json` quotes the lines.

- `spool_answer`: `Hold::settle` ignores that the answer could not be written and lets go
  of the claim, so a sender may withdraw a message that was taken and answered.
- `ask_race`: `reply_at` appends first and asks whether the slot still holds the record
  afterwards; when the slot moved on in between it says that the reply answers nothing,
  though it is the one listeners hear.
- `plugin_refused`: `serve_until` answers a begin before it takes the section, and answers
  again when it cannot; the client reads every later reply one request late.

The others are stated in their modules as what a document or a comment says, and refuted
by TLC on the instances of section 3 when they are checked there:

- On a store whose projection an older writer left unstamped, a claim whose projection
  write is lost is handed out again (`EventQueue`, started on such a projection).
- `OrphansAreTold` (`Spool`): a sender asks whether *some* receiver holds the lock, and
  waits forever when another bound the spool right after the one with its message died.
- `SeqIsTheOrder` (`Stream`; `src/docs/wire.md:48`): time and number are taken in two steps.
- `ReadingsAreLines` (`Stream`): a tail healed away between the two reads of one resume is
  spliced to what was written in its place.
- `AnsweredByOne` (`ResidentConnection`, with `Polite = TRUE`; `resident.rs:7-9`): a cancel
  read after its request left `running` and before the answer is written is refused under
  the id whose answer follows.
- `StopsOnceReplaced` (`ResidentSocket`, under `SocketFairSpec`; the comment on `watch`): a
  process that binds between another's bind and its watch is what that other watches.
- `NoFrameLeftBehind` (`Serve`; `codec.rs:931-933`): the reader thread holds frames that a
  session past its bound answers to nobody.
- `InOneOfTheTwo` (`Carry`; `carry.rs:14-16`): `adopt_carried` cuts the store and then syncs it;
  where the sync fails the inbox takes nothing, and the messages are in neither place.  What does
  hold, whatever fails, is `CarriedInOrder`: each was cut once, in order, and is lost to the inbox
  only by a failure.
- `ServingIsRecorded` (`ResidentSocket`; `src/docs/cli.md:434`): a socket that is bound and not yet
  listened on is taken for a stale one; who removes it serves, and who lost it may record its pid
  last.  A refused `remove_file`, or a pid file that could not be read, also leaves the pid of a
  process that stopped (the code promises no more: both results are ignored).
- `ChangedBarReruns` (`Offer`; `src/docs/contract.md:555-556`): the fingerprint is read before the
  command runs.  When the bar moves in between and comes back, the first bar has a pass of the
  other one under its name, and every later offer of the content takes it without a run.  That a
  pass given for one queue or question serves another is documented
  (`src/docs/validators.md:63-67` names all of the key) and so is no disagreement;
  `AppendedWasPassed` says which passes are taken.

The last three are invariants of `services`' instance: in its cfg, `ChangedBarReruns`,
`InOneOfTheTwo` and `ServingIsRecorded` are each violated within seconds.

## 6. Not modelled, and why

- *Event queue*: replacing a whole log, running out of ids, a document that cannot be
  read; `status`, a report that promises no agreement between its two reads; a
  subscription, which keeps the ids it touched and calls `push`, `claim`, `abandon` and
  `attend`.
- *Plain queue*: the report of a torn tail; staging files (a rename is one step); a read
  measures and reads in one step where nothing else is read between; unnumbered pushes
  are a subset of numbered ones; a section over a second queue inside the first's.  The
  code's documented limit stands: a log rewritten around an unchanged record is not
  noticed.
- *Plugin*: a body that panics leaves `held_by` set; two sections nested in opposite
  orders wait for each other; a thread that waits for a change has the pipe meanwhile.
  None is documented as handled; the instances do not start from them.
- *Inbox*: `offer_all` is several offers (it is one step in `Carry`), `on_close` hooks run
  after the replies; spurious wakes rescan and sleep again.
- *Spool*: the locks, declaration and advertisement of a bind are one step; after a close
  has taken a message the rest of its files go in one step; two live processes bound to
  one directory at once, unreadable acknowledgements, answers or closed records,
  `deliver`, the codec and older builds' receivers.
- *Carry*: `Carry::read`, a parse that changes nothing.
- *Ask*: a schema's, layout's or validator's refusal is one nondeterministic refusal; a
  layout that routes a reply elsewhere alone is one step.  Two correlations never collide
  (`Correlation::mint`).
- *Stream*: redaction, bounds, filters; a merge's ties between streams.
- *Resident*: what a verb does, the arguments of a request and the shape of its output; an inode
  that is used again while only another process watches it; a pid file that is read half written.
- *Links*: file links and unpinned ones keep nothing; the metadata of a directory are read
  in one step and its bodies in another; redirects and requests are one answer.
- *Offers*: a command's protocol is its verdict; a pass is kept in one step.
- *Configuration, layouts, envelopes, SDK schema, command line, SDKs, tooling*: functions
  of their text, tables and clients, with no interleaving of their own to check.
- Formatting, parsing and wording throughout.

## 7. Plan

The order the modules were written in was: what several processes do to one store first (the
event queue, its promise, the plain queue, the spool), then what threads do in one process
(inbox, memory transport, plugin), then what is built on these; proofs followed the same order.
No safety property of the runs is left to prove.  What could be added, the most useful first:

1. A promise for the spool of the kind `Handover` is for the inbox, so that a sender's outcome
   in both is one specification.
2. Two live processes bound to one spool directory at once, and a receiver of an older build.
3. The projection an older writer left unstamped (section 5), with what it does guarantee.
4. Replacing a whole log, and subscriptions, of the event queue.

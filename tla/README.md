# Greenline in TLA+

Greenline is a WhatsApp client for Ubuntu Touch. This directory holds TLA+
models of the parts of it that are hard to test, the TLC configurations that
check them on small instances, and TLAPS proofs of what holds for every value
of the constants. Every definition is translated from the code;
`PROJECT.json` names its lines.

## 1. The system

Three processes share two SQLite databases:

- the **daemon** (`daemon/`, Go) holds the WhatsApp connection and stores what
  it receives in `events.db`;
- the **application** (`src/`, Python under QML) runs an event loop thread and a
  worker thread for the calls QML makes, and keeps its state in `kv.db`;
- the **push helper** (`push_helper.py`) is started for each notification and
  handles one batch of events in a process of its own.

They talk over a Unix socket (`rpc.py`, `daemon/rpc.go`). `kv.db` is used
without transactions that span calls: every `put` or `delete` commits by itself,
and reading a record, changing it and putting it back are separate steps.

| Component | State | Operations | Interacts with | What is hard | What makes it correct |
|---|---|---|---|---|---|
| Event pipeline (`eventstore.go`, `chat_sync.py`, `handlers.py`, `push/notifications.py`) | rows of `events.db`, `LAST_EVENT_ID`, a poll's local variables | Insert, List, Delete; poll: list, dispatch, emit, delete, save | daemon, both consumers | two consumers; a crash or a lost reply between the delete and the cursor; an event that fails validation | no event lost or hidden; first effects in order |
| Pending outbox (`pending_outbox.py`, `repository.py`) | message, index and outbox records, the in-flight tokens | queue, send, retry, fail, complete | worker thread, event loop, daemon | each operation is three to five commits; lost replies; two loops | nothing forgotten, nothing shown twice, resent only after a fault |
| Event dispatcher (`ut_components/event.py`) | the heap, its counter, `_running`, `next_execution_date` | schedule, start, stop, a loop's round | worker thread, every event | no lock anywhere; wall-clock times; an exception in the middle of a round | order kept, nothing starved, no pile-up |
| Chat record and unread total (`store/messages.py`, `receipt_store.py`, `api/messages.py`, `unread_counter.py`) | `unread_count`, `first_unread_message_id`, `unread_total` | store a message, receipt, mark as read, toggles, contact sync | event loop, worker thread | whole records written back after others changed them | count and divider agree, nothing counted twice, total right |
| Message store (`store/messages.py`, `reactions.py`, `media.py`, `api/messages.py`) | message records, index, reactions, preview in the chat record | store, edit, delete, react, download, receipt | event loop, worker thread, daemon | a record read before an RPC is put after it; four commits per event; batches dispatched twice | every message found; shows its last change; flag and preview right |
| History sync (`history_sync.py`) | messages, chats, a buffer of puts | merge a batch, commit it, reconcile the total | message store, unread total | reads that do not see the buffer; records under old keys; calls in the middle | one record per message; edits kept; counts agree |
| Storage migrations (`storage_migrations.py`) | schema version, records | run | start-up, push helper | a death between any two transactions; changes between the read and the write of a page | stored version says what the rows are like; no change undone |
| Service and application (`daemon.py`, `api/daemon.py`, `Main.qml`, `DaemonSetupPage.qml`, `SettingsPage.qml`) | unit file, autostart, running daemon, setting, event loop, page | start-up's chain of calls, install, set, clear, quit | systemd, daemon, pages | every command can fail; the daemon dies; releases are mixed; a call that raises is never answered | a start comes to a page; answers are true |
| Contracts and calls (`contracts/qml.py`, `contracts/daemon.py`, `codecs.py`, `rpc.go`, `models.py`) | none | decode a request, ask the daemon, check an answer or event | pages, daemon | four descriptions of the same objects, in Python, Go and QML | every call is answered |
| Composing (`store/mentions.py`, `pending_outbox.py`, `ChatPage.qml`, `MentionHelpers.js`) | none | compose, store, make the daemon's parameters | page, outbox, daemon | UTF-16 offsets; contexts resolved again at a retry | what is sent is what was composed |
| Contents (`store/media.py`, `store/messages.py`, `history_sync.py`) | none | type, fields, preview of a content | message store, history | derived three times | shown the same whichever way it came |
| Message list model (`qml_events.py`, `messagelistmodel.cpp`) | sorted rows and their aliases | coalesce, reset, upsert | event loop, chat page | ids and places that change within a batch | each message once, in its last state, in order |
| Identity (`store/identity.py`) | names of chats | update, choose | chat records | priorities and dates | the best known name is shown |
| Avatar sync (`avatarsync.go`) | job queue, revisions, files | enqueue, prioritise, picture changed, download | daemon's goroutines | a download that ends after the picture changed | the newest picture wins |
| WhatsApp connection (`waconn.go`, `msgsecret.go`, `main.go`) | health, stop and disconnect channels | connect, reconnect, log out | whatsmeow callbacks | signals dropped by full channels | always connected, connecting or stopped |
| Voice recorder (`audiocapturerecorder.cpp`) | recorder state | start, stop, cancel | GStreamer bus | callbacks after a cancel | no file left behind |

Notification text, HTML rendering, MIME types and the layout of the QML pages
are formatting or presentation and keep no state of their own. `PROJECT.json`
lists all components with what is modelled of each, and 40 hazards with the
properties aimed at them.

## 2. Plan

Done, in this order:

1. `EventPipeline`, shown to implement the abstract `EventLog`;
   `EventPipelineProofs`. Two runs: the application alone, and with the helper.
2. `PendingOutbox`, `PendingOutboxProofs`. Runs with two loops (safety, order,
   liveness) and a crash (the finding).
3. `EventDispatcher`, `EventDispatcherProofs`. One loop (liveness, pile-up), two
   loops (order), stop (the finding).
4. `ChatUnread`, `ChatUnreadProofs`. Races, and the finding.
5. `MessageStore`, `MessageStoreProofs`, `Contents`: changes of messages.
6. `HistorySync`, over `Contents`; `HistorySyncProofs`.
7. `StorageMigrations`; `Service`; `Contracts`, `DaemonContracts`, `Calls`;
   `Composing`, `MessageList`, `ChatPageProofs`. `App` composes all of these
   into the application from its start to its end, and `AppProofs` proves the
   migrations' properties, that the application implements `StorageMigrations`,
   that its calls' answers are true, that it shows messages alike, that it sends
   what was composed and that its chat pages list what is kept.
8. Every safety invariant and action property of the runs as a theorem, but for
   the one named at the end of section 5.

Left:

9. `AvatarSync`: queue, revisions and files, with an abstract register "newest
   picture" it is to implement; two JIDs, two picture changes. To prove: once the
   queue is empty and no download failed, the files are those of the newest
   revision.
10. `WaConnection`: the reconnect loop with its two channels of one slot, under an
   assumption on when whatsmeow calls back; liveness "a stop is obeyed".
11. `patchMessage` and pages loaded while changes are emitted, in `MessageList`.

## 3. Modules and their correspondence to the code

**EventLog** is what the event store promises: events numbered in order of
arrival, delivered at least once and for the first time in order, forgotten only
once delivered.

**EventPipeline** models the event store and the polls. `store` and `nextId` are
the table and its AUTOINCREMENT key; `cursor` is `LAST_EVENT_ID`; `handled` and
`parked` stand for what a handler did and for the `unknown_event` record of one
that raised. Each consumer has a program counter with one value per commit or
RPC of the poll: `BeginPoll` (reads the cursor), `ListEvents`, `Dispatch` for
each event, `EmitUpdates`, `DeleteEvents`, `SaveCursor`. `Interrupted` ends a poll
between any two of them: a failed RPC, an exception or the death of the process,
which the code cannot tell apart afterwards. `DeleteReplyLost` and
`DispatchFailsLate` are the failures that happen after an effect. `Poison` holds
the events whose dispatch raises `BoundaryValidationError`, which
`dispatch_event` re-raises. `updates` is what one pass over a batch has collected
for the pages (`chat_updates` and the lists beside it), and `EmitUpdates` shows
that and nothing else: it is gone when the poll ends before it. A message is
collected at every dispatch; the events in `OnChange` (a receipt, a contact's or
business's name, a picture, a history batch) only when a record changes, so a
second dispatch may collect nothing, and the history variable `unsaid` keeps what
was lost that way. `EmitFails` ends a poll among its emits, and `Dies` is the
application's end: its pages are read from the records when it starts again.

**PendingOutbox** follows `pending_outbox.py` commit by commit. `entry`,
`indexed`, `outbox`, `waiting` (in its backoff) and `sent` are the records of a
message; `wire` counts its transmissions; `inFlight` is
`_PENDING_SEND_IN_FLIGHT`. The worker runs `PutMessage`, `PutIndex`,
`PutOutbox`, `ScheduleSend`; a loop runs `TakeEvent`, `Begin`, `Lookup`, `Send`,
and then the five commits of `_complete_pending_send` (`DropEntry` ...
`PutSentIndex`), or `ScheduleRetry`, or the two of
`_mark_pending_message_failed`. `SendFails`, `ReplyLost`, `AttemptRaises`,
`WorkerRaises` and `Crash` are the faults. The length of a backoff is
abstracted: it ends at some time.

**EventDispatcher** models `_run`, `_enqueue`, `_process`, `schedule`, `start`
and `stop` for several loop threads, the worker and a wall clock. An entry is
its key, counter value and event. The heap is the set of entries; `IsHead` says
which one `heappop` returns. `schedule` is two steps, the push with the counter
it read and the increment, which is what lets two threads give two entries the
same rank; heapq then compares the `QueuedEvent`s and raises TypeError, and
`PushMayFail`, `PopMayFail` and `Caught` are what CPython does next (a failed
push keeps its entry, a failed pop loses the one it was to return). The test and
the update of `next_execution_date` are one step (between them only another loop
could come, and would queue a second entry, as two loops do anyway), and so are a
pop and the test whether the entry is due. `counter += 1` is one step: CPython
3.12 does not switch threads within it. `Start` follows `Stop` only, as the
pages call them.

**ChatUnread** models the records behind the unread badge. `chat` maps a chat
to its unread count, divider (`first`) and last timestamp; `mine` is what a
thread holds of a chat record between reading and putting it. Storing a message
is `BeginMessage` (tests `already_stored`), `PutMessage`, `UpsertChat` (reads the
chat and computes the new record), `ReadTotal`, `PutTotal`, `PutChat`. A receipt
and `mark_messages_as_read` share `MarkMessages` and `ClearChat`, and differ in
the order of the last steps as the code does. A toggle, an edit, an identity
update and `ChatListUpdateEvent` appear as `BeginTouch`: they write back whole
records in which the three fields are as they were read. `Restart` is
`start_event_loop`, which reconciles the total. Messages have distinct
timestamps here, outgoing messages and history batches are left out, and the
messages of a receipt become READ in one step.

**MessageStore** has the records of one chat's messages: `record`, `index` (the
message_index records), `reacted` and `chat` (whose preview counts). `op` is what
the event loop and the worker thread each have in hand: the record as they will
put it, computed from what they read. `Dispatch` takes the next event of `batch`;
then `PutRecord`, `PutIndex`, `ReadChat`, `PutChat`, `FetchSticker` or
`PutReaction`, `ReadMessage`, `ListReactions` are the commits. A call of the user
begins at one of `EditTextMessage` ... `MarkAsRead`, which read, waits for
`Answer` or `Fail`, and goes on with the same commits. `Crash` has the whole batch
dispatched again, because it is deleted only at the end (`DeleteBatch`). `due`
is a history variable: what the message would show if all changes had come one
after the other and once; `disturbed` and `overlap` say where they did not.

**Contents** are pure operators: what the code derives of a message's content for
a live message, for history and for a quote.

**HistorySync** models `handle_history_sync` for one chat. `row` has a record per
message and kind of key: older versions stored messages under others, and
crashes left them without index records, so `Init` allows both. `Begin` takes an
event, `ProcessMessage` each of its messages in any order, `ProcessConversation`,
`ProcessPushName`; all of them read `kv.db` and write `buffer`, which
`CommitCached` writes at once; then `SumUnread`, `PutTotal`. The user's calls are
one step each and come between any two. The chat has the time it is listed at
(`last`) and the message its preview is of (`shown`). A conversation without a
message to keep makes no chat, or, if it has a time of its own, a chat with that
time and no preview (`NewChat`, `history_sync.py:630-669`); messages of older
chunks then never become the preview. `NewestShown` says both, and leaves out
events that mention the chat twice: the second mention is then merged with what
was committed before the first, and one of the two is lost. `LiveMessage` leaves
out that a message stored under an old key is delivered live once more, which
takes a redelivery across an upgrade of the application.

**StorageMigrations** has a row per message: the number of changes made to it and
the obsolete fields it still has. `ReadPage`, `CommitPage` and `PutVersion` are
the transactions of a migration, and any of them may fail (`Raise`); `Store` is
the push helper, which can change only rows it can decode; `Die` and `Erase` end
a run.

**Service** models the daemon's unit and the calls about it. A call is a `job`
at a `step`; steps are systemctl commands (`Systemctl`, with where they go on if
done and if failed), file operations and puts, each of which may fail where the
code lets it: the put that undoes a setting too (`Undo`, noted as `stuck`), and
the removal of the configuration directory half way (`EraseConfig`), before that
of the cache (`EraseCache`). `smooth` says that no command failed and no file of
this release was missing. `reply` is the answer until the page takes it, and
`AnswerHolds` what it claims. `DaemonDies`, `DaemonReturns` and `LoopEnds` happen
in between.

**Contracts**, **DaemonContracts** and **Calls** have the classes, JSON objects
and contracts as functions from fields to types. `Calls!Outcome` follows a call:
decode the arguments the page passes, let the handler run, decode the daemon's
reply, build the answer and the events, check them. **Composing** follows a text
with mentions, a reply and a file from the composer over the stored record to
what the daemon reads. **MessageList** follows changes from
`_coalesce_message_upserts` into the rows of the list model: `Merge` is one step
of Python's and C++'s coalescing, `Take` one of `upsertMessages`, `Inserted` is
`insertNewMessages` and `UpdateAt` `updateMessageAt`; `RowOf`, `Renamed` and
`Indexed` keep the aliases. Its constants are the messages' `Lives`, the states
each goes through, and the `Pages` that may have been loaded. They are assumed to
be what the stores hold: a message stays in its chat and changes its id once at
most, when WhatsApp's takes the place of the page's and the record names the old
one as its temporary id (`pending_outbox.py:301-309`); and no two messages of a
chat have an id in common, which are WhatsApp's or made for one message by the
page.

**App** composes StorageMigrations and Service with the pages: `Launch`,
`Migrating`, `Found`, `Versioned`, `Enters` are the callbacks of `Main.qml`,
`Installed` the one of the set-up page, `Tap` what the user starts, `Lost` a call
that raised and is never answered. On the chat page of a settled application a
`task` picks one call, text, reply, file, content or history of changes, about
which the invariants say what comes of it.

`MC*` modules give the constants of these modules their values for TLC;
`*Proofs` modules hold the theorems. Operators headed "Mutation" are the faulty
variants used to show that each property can fail; no specification uses them.

## 4. What is checked

Counts are distinct states.

| Run | Bounds | Shows |
|---|---|---|
| `pipeline_app` (57 thousand) | 4 events, batch 2, daemon cap 2, 2 faults | with one consumer: no stale dispatch, the cursor never goes back, nothing is acknowledged before it was shown, the store is drained |
| `pipeline_helper` (129 thousand) | 4 events, the third fails validation, 1 fault, application and helper | with two: no loss, nothing hidden below the cursor, first deliveries in order, everything before the bad event is delivered and all from it on is stuck, `EventLog` is implemented |
| `outbox_two_loops` (124 thousand) | 2 messages, 1 fault, 2 loops | nothing forgotten, no second copy, no more transmissions too many than faults; order is kept but for messages a fault hit; every accepted message settles |
| `outbox_crash` | 1 message, 1 crash | finding 1 |
| `dispatcher_one_loop` (175 thousand) | 2 messages, a periodic event due twice, 1 fault | at most one waiting entry per loop, one more per loop for each time the clock was set back, and one per aborted round; every message is taken up |
| `dispatcher_two_loops` (156 thousand) | a second loop started beside the first | messages are taken up in order |
| `dispatcher_stop` | 1 stop | finding 2 |
| `unread_races` (220 thousand) | 2 threads, 2 chats, 3 messages, 5 operations, 1 crash | divider and count agree, nothing is counted twice, the total is right when operations did not overlap and after every restart |
| `unread_phantom` | 4 operations | finding 3 |
| `message_changes` (4.6 million) | 2 messages, 3 events, 1 call, 1 crash | every message is found; it shows its last change, its reactions and its preview, but where a call and an event overlapped |
| `history_chunks` (2.8 million) | 3 messages, 2 of 8 history events, 1 live event, 1 call, 1 crash | one record per message, edits kept, newest shown unless a conversation without messages dated the chat, counts and divider agree |
| `app` (405 thousand) | 2 rows, pages of one row, 1 death; every failure of a command, a transaction and a file operation; texts of up to four words; 649 histories of message changes with every cut | a start comes to a page; answers are true; migrations are complete and undo nothing; every call is answered; what is sent is what was composed; messages are shown alike and listed once |

**Why the bounds are enough.** Four events need two full batches with a cap of
two, so a drain that continues, one that ends short and one that restarts from an
older cursor all occur. Two messages and two loops are what a collision on the
in-flight token, a reordering and a retry of an already completed send need. Two
messages of one chat allow a late message and a second one on top of a count; the
third, in another chat, makes the contact sync hold two records and the total a
sum; five operations let a redelivery overlap an opening, a toggle and a receipt.
Three events let a message come in, change and
change again, two of them in a batch that a crash repeats, with a call beside any
of them. Two history events are an older chunk after a newer one, a chunk
repeated, and one after a conversation that carried no message; the third message is the user's own. Two rows and pages of one row are
a full page, one that ends the table, and a row that appears behind the cursor;
one death lets every migration run over its own result. Four words put a mention
at either end of a text, beside another, and after an emoji. Seven changes are
the whole lives of two messages of the chat and of one of another chat in every
order. Fault bounds are shared by all kinds of fault. The properties proved in section 5
hold without any of these bounds.

**Deadlock** is checked for the pipeline and the outbox: an idle application can
always poll again, and its retry event always falls due again. The others
are exempt: the dispatcher may be stopped; the unread, message and history models
sit idle when their bounded events and calls are done; and a splash whose call
raised really waits for ever, which `StartupEnds` names.

**Fairness.** Weak fairness of each poll's and loop's own steps: a thread that can
go on does. `DaemonEventHandler` has an interval of 2 s and the retry event one
of 1 s, hence weak fairness of `BeginPoll` (of the application, never of the push
helper) and of `RetryDue`; a backoff is finite, and the clock ticks. In `App`, weak fairness of `Startup`: the worker
thread goes on with a call, and a page's callback runs once it is answered; that a transaction of a
migration fails (`MigrationFails`) is not part of it. No fairness
makes the user act, an event arrive, or a fault occur. It is assumed that an RPC
returns or fails; the socket has no timeout, so a daemon that hangs is outside
the liveness claims (listed as a hazard).

### Findings

1. `PendingIsQueued` (`outbox_crash`): a crash after the message's record and
   before its outbox record leaves a message shown as pending that nothing will
   ever send.
2. `StopWaits` (`dispatcher_stop`): `stop` is documented to wait for the thread;
   it joins with a timeout of zero and forgets it.
3. `NoPhantomUnread` (`unread_phantom`): a record held by the event loop while
   the user opens the chat brings the unread count of read messages back.

## 5. What is proved

All constants are arbitrary, subject to the ASSUMEs of the modules: loops,
consumers, messages, limits and bounds of any size (the messages of `ChatUnread`
are finitely many).

**EventPipelineProofs.** `NoLoss`, `NothingHidden`, `FirstDeliveryInOrder`,
`BlockedBehindPoison` and the refinement of `EventLog` for any number of
consumers; `NoStaleDispatch` and `CursorMonotone` for a single one. The
inductive invariant `IInv` adds `CursorCovered` (the cursor covers delivered
events only), `PollCovered` (so do the `last_id` and `max_id` of every poll),
`NoGapBefore` (what precedes an event still to be dispatched is in the reply or
delivered) and `DeletedBeforeSaved` (what a poll is about to store as cursor is
already deleted). Without the last one a slower poll's write could hide events.
`ShownBeforeForgotten` needs a single consumer too (the push helper shows
nothing): `Told` says that what a poll is about to delete is all that is stored
up to its `max_id`, that each event it is past is shown, parked, in its
`updates`, or is one that tells only changes and lost its own with an earlier
pass, and that a handled event with nothing to tell again was told or lost.

**PendingOutboxProofs.** `NothingForgotten`, `OneCopy`, `ResentOnlyAfterFault`
and, as `OneAttemptAtATime`, that two loops never attempt the same message. `IInv`
adds that the token is held during an attempt, that what an attempt looked up
stays true while it acts on it, that only accepted messages reach the loops, and
that every transmission of a message still pending has cost a fault. `InOrder` is
an action property and needs to look ahead: `Upcoming` says of a message of which
nothing has come yet that no loop has taken up a later one, and that before any
event for a later one an event that will take this one up is queued, or is about
to be (`Ahead`).

**EventDispatcherProofs.** `SendsInOrder` and that no scheduled message vanishes,
while the clock was not set back and heapq raised nothing, for any number of
loops. The argument: a message's counter value is below the counter except
between the worker's push and its increment, because loops only raise the
counter; so queued messages rank as they were scheduled although other entries
may share their rank. `Coalesced`: `Accounted` divides the waiting entries of a
periodic event into old ones, which are not due or were left by a round cut
short, and at most one for each loop whose round has dealt with the event and
goes on; when that round ends its entry joins the old ones, but then the head
is not due, and neither is any old entry that is not counted as a fault's.

**ChatUnreadProofs.** `DividerMatchesCount` for any number of threads:
`RecordInv` states it of every record, in the store or in a thread's hands, so
writing back a stale one cannot break it. `CountedOnce` with one dispatcher:
`CountInv` bounds every record by the messages stored and not between their put
and their upsert, and says that a message found absent stays absent until its
thread puts it, which needs `OneDispatcher`. With two it is false: the helper and
the application may both find the message absent. `TotalExact`: `Balance` says at
each step of the one operation under way by how much the total is ahead of the
sum of the chats or behind it; a message and a receipt put the total first, an
opening the chat first. It rests on lemmas about `SumFunctionOnSet`, proved by
taking a smallest set that lacks the property.

**MessageStoreProofs.** `Findable`, for any messages, events, calls and crashes.
`FindInv` adds that a stored message without an index record is the one of an
event still to be dispatched (`Awaited`), which a crash can only make more true,
and that an operation on a message that did not just come in has found it
(`Held`); `TypeInv` that the loop works on the event it is at. `ShowsLastChange`,
`ReactionsShown` and `PreviewIsNewest` follow from `ShownInv`: the record an
operation has in hand is the stored one with its own change, unless something
else touched the message meanwhile (`Fresh`); of the events of a batch that
change a message the last one is what is due, however often the batch is
dispatched from its start (`LastIsDue`); and the body, the flag and the preview
are right, or an event still to be dispatched, again or for the first time, or
an operation under way puts them right (`ShowsDue`, `FlagsRight`, `PreviewInv`).

**HistorySyncProofs.** `OneRecord` and `EditsKept`, for any messages, contents,
history events, live events, calls and crashes. The handler reads what was
committed and not what it has buffered, so `HInv` speaks of both: `Single` says
that what is to be put for a message is under the key its record has, if it has
one, and under one key; `Links` that what the index is to lead to is stored or
to be put; `Progress` that the messages gone through are found or will be; and
`Edits` that what is to be put for an edited record is edited, as long as no edit
came between the read and the commit. `CommitInv` shows that the commit makes
of what will be what is. `ChatInv` does the same for the chat: `Divided` says
that the divider, and the one the commit will put, stands above a message that
is unread then; `Totalled` that the total, and the sum read before it is put, is
the chat's count; `Shown` that the chat shows the newest message, or none and was
dated by a conversation without messages, and so it will.
`NewestShown` is proved for messages that all have a preview, and the lemma
`WordsArePreviewed` derives that for every kind of content from an extended text
having words.

**ChatPageProofs.** `SentAsComposed` for texts of any length. The offsets of the
page count units of JavaScript, those of Python units of UTF-16: `JsAt` says, by
a joined prefix of pieces, which unit of the page each character begins at, and
`PageMentions` that a span the page can have is a mention at one index of the
text (`OneIndex`: units grow with every character). Two mentions do not overlap
(`Apart`), so validation keeps all of them, in the one order there is
(`ValidatedIs`, `OneOrder`), and validating what it kept changes nothing.
`ReplacedIs` says of a text with words in certain places what is at each index.
The tokens of the text that is sent are those places: each is a token, which a
"." right after it would make longer (`Unambiguous`), and any other would be one
of the text that was written (`PlaceIsToken`, `TokenIsPlace`). So the names take
the places of the numbers again (`RenderedIs`). Replies and the fields of each
kind are cases over the participants and the tables.

`KeptIsShown` is what `ListShowsKept` rests on, for any pages, lives, histories and
batches. By the assumption every alias of a chat is some message's own
(`OwnersExist`); `Proper` rows belong to different messages, and the aliases of a
list are `Exact` when they lead to the rows that have them and to no others. So a
message finds its row if it has an id in common with it, and none otherwise
(`RowFound`, `RowAbsent`), and every step of the code keeps this up
(`ChangedExact`, `AddedExact`, `IndexedExact`). A batch holds of each message that
changed the states from one to another as one (`Merged`, `BatchIs`): its last,
with the temporary id if any of them had one. That is why the page finds the row:
the state it has and the first of the batch follow each other, so the merged ones
have an id in common (`Follows`, `Meet`); were the temporary id lost on the way, as
in the mutation, they might not. The list is then `Shown`: it holds one state of
each message, newest first (`UpsertedShown`, over `UpdateShown` and
`InsertedRanked`), and two lists that hold states that look alike show the same
(`LookAlike`), since there is one way to put them in order (`OneRank`). Which
states have kept their temporary id depends on the batches, so the invariant
`ShowsAt` says that there is a first state of each, not which. The folds of the
code are recursive functions; what they compute is proved from their equations by
an induction over the numbers up to a length (`UpTo`).

**AppProofs.** `Migrated` and `NothingUndone` for any number of rows, any page
size and any removed fields. `IInv` adds that the migration under way is the one
after the stored version, that a row about to be written is as it was read
(because no one else can decode it), and that every row passed is either among
those or clean. `DoneMeansClean`: after the last migration no row has a field of
any of them. Every step of the application is one of `StorageMigrations` or
leaves its variables alone, which carries its properties over. `AnswersTrue`: for
each command of a call `CallsSound` says what the ones before it have made of
unit, daemon, setting and data, whether they failed or not; what the daemon, the
phone and the session do meanwhile cannot undo it. A setting that could not be put
into effect is the old one; it is the new one only where putting the old one back
failed too, and then the page shows the wrong one until it is opened again. `PagesReadAll`: the splash is
left only after the migrations (`AfterMigrations`), so no chat page meets a
record it cannot decode. `ShownAlike`: `FirstChain` turns the tables of tests in
`Contents` into the chains of ifs that the code has; of a content with one part
`KindOf` says what every test comes to, and the chains agree. That a message
shown as media has a file (`MediaHasFile`) holds of any mixture of parts.
`SendsAsComposed` and `ListsWhatIsKept` apply the results of `ChatPageProofs` to
each task.

**What proving corrected.** Four statements or definitions that the runs had
accepted were wrong beyond their bounds, and were changed:

- the bound of `Coalesced` counted one set-back of the clock once; with two loops
  each of them may leave an entry behind, so it is per loop;
- `InOrder` excused the one message whose attempt raises. With two faults the
  retry event that raises at one message drops the others it had read, and a later
  message overtakes them: `AttemptRaises` now counts all of these as hit: the
  loop of `PendingMessageRetryEvent.trigger` ends with the exception;
- `CountsAgree` asked for the divider also after an event that carries both a
  conversation and the push name of its contact. `_process_pushnames`
  (`history_sync.py:676-717`) reads the chat without the buffered update and puts
  its older count and divider back, so the divider is asked for only while no
  event has mentioned the chat twice;
- two tables in `Contents` were CASE expressions whose guards overlap. TLC takes
  the first guard that holds, TLA+ does not say which; they are `FirstOf` now,
  the order being the code's.

**Only model-checked.** Liveness (`EventuallyDelivered`, `EventuallyForgotten`,
`Settles`, `EventuallyRuns`, `StartupEnds`) is out of the prover's reach. So is
one invariant: `AnswersFit` is about tables merged with `@@`, an operator the
provers know nothing of. What it says does not depend on a constant except through
the records being readable, which `PagesReadAll` proves; TLC goes through all the
rest, every call with every kind of argument, daemon and fault.

Induction over finite sets and over numbers is within reach, although the
library's theorems for it are not: `MinimalSubset`, from `WFMin` and the
well-foundedness of the strict subsets of a finite set, gives a smallest
counterexample, and `UpTo` carries a fact from one length to the next.

## 6. What is not modelled

- **Avatar sync**: a cache of pictures on which no other component relies; a
  picture lost to a stale download is fetched again by the periodic pass. It is
  the next step of the plan.
- **WhatsApp connection**: what it does rests on when whatsmeow calls back and on
  the times of keep-alives, which are not in this repository; to the other
  components it is a daemon that answers or does not.
- **Voice recorder**: the states of a GStreamer pipeline.
- Of the **daemon**: marshalling whatsmeow's events, thumbnails, desktop
  notifications. An event that cannot be stored is lost, and nothing promises
  otherwise.
- Of the **message store**: thumbnails, link previews, and the paging by
  timestamp in `message_store.py`.
- Of **history sync**: the map from LIDs to phone numbers.
- Of **start-up**: that `start_event_loop` is not answered matters to no page; if
  it raises, the loop does not start (`Enters`).
- Of the **service**: `uninstall_daemon` and `ping_daemon`, which no page calls,
  and the dialogue of the pairing.
- Of the **message list**: `patchMessage`, `clear`, the page's refresh, which
  loads the newest messages again, merges them into the rows
  (`ChatHelpers.js:131-155`) and replaces these by `resetMessages`, and a page read before a change and delivered after
  it.
- Of the **text**: HTML (`qml_text.py`), and `mimetypes.py` and `enum.py`, which
  are copies of the standard library's. `whatsmeow_types.py` declares types and
  has no code of its own.
- **whatsmeow**, whose deliveries are nondeterministic; **SQLite**'s atomicity,
  which is assumed for a transaction; systemd, of which only the effect of each
  command is kept; the loop's poll while `clear_data` deletes the databases.

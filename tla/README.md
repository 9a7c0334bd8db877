# rusty_lsp: formal models

`rusty_lsp` is a Rust crate for writing language servers: `Server::serve` runs one LSP
connection over a byte stream on the tokio runtime, and a `LanguageServer` implementation (the
*backend*) supplies the handlers. These TLA+ modules model the crate in two halves:

* **the concurrent runtime**: what is promised to the editor about requests, notifications and shutdown,
  what is promised to the backend about its `Client`, and the queue and the cancellation token
  underneath; and the document store that a backend may keep;
* **the library of functions** beside it: positions, edits and semantic tokens, document URIs,
  capability views, the wire form of every protocol type, the routes from methods to handlers, the
  classification of messages, and the framed stream with the test client that reads it.

The first half is checked as state machines and proved about. The second is checked by evaluating its
operators on every input of a small domain, against definitions that say the same in other terms; the conversions of
positions are also proved, for texts of every length, and so is the test client, which is a state machine beside them.

Paths are relative to the repository; `server.rs` is `src/src/server.rs`, and so on.

## 1. Inventory

| Component | State it keeps | Operations | Talks to |
|---|---|---|---|
| **Message loop** (`server.rs` `run_loop`) | `initialized`, `shutdown_requested`, the `in_flight` map (behind a mutex), notification counter, the stream buffer | one arm per message: parse error, response, `exit`, `$/cancelRequest`, notification, `initialize`, `shutdown`, feature request; leave on EOF, framing error, external signal, writer death; teardown | spawns request tasks; channel to the worker; `Client::resolve`; outbound queue |
| **Request task** (`spawn_request`) | its future: waiting for the watermark, for a permit, in the handler, claiming, sending | run the handler, claim the map entry, send the response | `in_flight`, semaphore, watermark (`watch`), outbound queue |
| **Notification worker** | receiving end of the note channel, the published watermark | take one note, run its handler (panic caught), publish its sequence number | loop, request tasks |
| **Outbound queue and writer** (`client.rs` `Outbound`, writer task in `serve`) | an unbounded channel, an atomic depth counter, the batch being written | `send`, `send_limited` (refuses `Client` traffic at the limit), batch, flush, fail | every task that holds a `Client` |
| **Client** (`client.rs`) | the `pending` map id → oneshot sender, next id | `start_request`, `send_request`, `send_request_with_timeout`, `resolve`, `ProgressGuard` | handlers; the loop, which reads the responses |
| **Cancel token** (`cancel.rs`) | a flag and a tokio `Notify` | `cancel`, `cancelled`, `is_cancelled` | `$/cancelRequest` and teardown trip it, handlers watch it |
| **Documents** (`documents.rs`) | per URI: text, version, line index | open, change (batched edits, version check), close | backend |
| **Text** (`text.rs`) | none (pure), `LineIndex` a cache | position ↔ offset in three encodings, `apply_edits` | documents |
| **Transport** (`transport.rs`) | the future of one read: header block so far, body left | read one frame, encode one frame | loop, writer, test client |
| **JSON-RPC, errors** (`jsonrpc.rs`, `error.rs`) | none | classify an incoming object, encode a message, turn a failure into an error response | loop, client |
| **Service** (`service.rs`, `dispatch_*` of `server.rs`) | none | from a method to its handler, the type of its parameters, what a handler left out returns | request tasks, worker |
| **Protocol types** (`lsp/*`) | none | serde (de)serialization | all |
| **Capabilities** (`lsp/lifecycle.rs`, `lsp/client_capabilities.rs`) | none | paths into what the client announced, typed views of it, choice of the position encoding | backend |
| **Base types** (`lsp/base.rs`) | none | URI normalization, file paths, parent and join; range predicates | documents, backend |
| **Semantic tokens** (`lsp/semantic_tokens.rs`) | the builder's token list | push, push range, build | backend |
| **Test client** (`testing.rs`) | the stash of messages read while waiting for another, the next id | send a request, wait for a response, a notification or a request | the server under test |

Not components of the library: `examples/`, `benches/`, `fuzz/`, `tests/`, the changelog and the build files.

### How the parts interact

* The loop never runs a feature handler. It spawns a task per request, and sends each
  notification to one worker that runs them in order. A request's task first waits until the
  worker has *published* the notification count that was current when the request was read.
  `initialize` and `shutdown` are the exceptions: their handlers run on the loop.
* Who answers a request is settled through `in_flight`: whoever removes its entry answers it. The
  request's task, `$/cancelRequest` and the teardown drain compete for it.
* Everything sent goes through one channel to one writer task. `serve` ends when the loop has
  returned and every clone of the channel's sender is gone, so it waits for the tasks that it
  spawned and for any that the backend spawned with a `Client` in hand.
* A handler that calls the client waits for a response that only the loop can read, so each place
  where the loop waits for a handler is a possible cycle.

### Hard behaviour, and what makes each component correct

* *Loop, tasks, cancellation, teardown*: at most one answer per request and none lost outside
  teardown; a request sees the notifications before it; permits survive aborts at any point of a
  task's life; the token is tripped before the abort; shutdown comes after all earlier notes;
  `Ok` from `serve` means everything answered was written; teardown ends whatever the framework's own handlers do,
  if the tasks that the backend spawned with a `Client` end.
* *Outbound*: the depth counter is exact though three parties move it without a lock; the limit
  is overshot by a bounded amount; batching keeps order and loses nothing; responses are never
  refused.
* *Client*: an answer gets to the call that asked for it; no finished call leaves an entry; a
  timed call returns although nobody reads responses.
* *Cancel token*: no wake-up lost between check and registration.
* *Documents*: the text is the editor's, whatever the encoding, the batches and the replays; the cached
  index is its text's, even after a change that panics half way.
* *Text*: cached and scanned positions agree; edits applied in any given order agree with the
  edits applied at once.
* *Transport, test client*: until a read is given up in the middle of a frame, what a test has read is what the
  server sent first, and messages alike come in the order sent; after that, no message comes twice.
* *JSON-RPC, service*: a request gets one reply under its id and the right code, nothing else gets one, and
  parameters that do not parse reach no handler; a client understands every call made to it, and its answer comes back.
* *Protocol types*: what one side writes the other reads back, through flattened members and untagged unions.
* *Capabilities*: a server never acts on what the client did not announce.
* *Base types*: one document has one key, however its URI is spelled; paths and URIs stand for each other.
* *Semantic tokens*: the built list colours what was pushed, whatever the order, overlaps and encoding.

`PROJECT.json` lists each hazard at its line, with the properties that cover it and, where they cover it
only in part, what is left out.

## 2. Modules

| Module | Models | EXTENDS / used by |
|---|---|---|
| `RequestReply` | abstract: what an editor may rely on about each request | implemented by `LspServer` |
| `LspServer` | loop, request tasks, permits, worker, lifecycle, teardown, writer | `MCLspServer` |
| `LspServer_proofs` | proofs: types, one answer, permits, the order of notes, tokens and the last flush, the refinement | `LspServer` |
| `Outbound`, `Outbound_proofs` | `send`/`send_limited` step by step, batching writer, progress guard | `MCOutbound` |
| `ClientCalls`, `ClientCalls_proofs` | server-to-client requests and the loop that delivers their responses | `MCClientCalls` |
| `CancelSignal` | abstract: a one-way signal and the waits on it | implemented by `CancelToken` |
| `CancelToken`, `CancelToken_proofs` | the token over tokio's `Notify` | run as it is |
| `TextIndex` | the pure functions of `text.rs` over short texts | `Documents`, `SemanticTokens`, `TextInputs` |
| `Text_proofs` | proofs: the conversions, scanned and by index, edits, and semantic tokens | `TextInputs`, `TokenInputs`; used by `Documents_proofs`, `Uri_proofs` |
| `Documents`, `Documents_proofs` | an editor with its buffers, its notifications in order, the store with its versions and cached index | `MCDocuments` |
| `SemanticTokens` | `SemanticTokensBuilder` | `TokenInputs` |
| `Uri` | `lsp/base.rs`: normalization, paths, parent, join | `UriInputs` |
| `Uri_proofs` | proofs: keys, paths and their URIs, parent and join | `UriInputs`, `Text_proofs` |
| `Serde` | how serde reads and writes a type, given its schema | `ProtocolTypes` |
| `ProtocolTypes`, `CapabilityTypes` | the schemas of the types of `lsp/*` | `Capabilities`, `Dispatch` |
| `Capabilities` | `ClientCapabilities::get`, `supports`, the views, the position encoding | `CapabilityInputs` |
| `JsonRpc` | messages, their classification and their errors | `Dispatch` |
| `Dispatch` | routes, default bodies, replies; the typed calls of `Client` | `WireInputs` |
| `Transport` | one frame, and the future that reads one | `TestClient` |
| `TestClient`, `TestClient_proofs` | the client, its stash and its reads; the server as its environment | `MCLibrary` |
| `Inputs` and `TextInputs`, `TokenInputs`, `UriInputs`, `CapabilityInputs`, `WireInputs` | the inputs of the functions, the reference definitions, and the properties | `MCLibrary` |
| `MCLibrary` | an initial state for each input; the test client runs from the one without | run |

The other MC modules only give symmetry sets, the assignment of callers to calls and the texts to use. Operators named
`X_Something` with a comment that starts with "Mutant" are deliberately wrong versions of the
definition `X`. No specification uses them; they exist to show that the properties can fail.

### `LspServer` and `server.rs`

A step is what one thread does between two points at which another thread can matter. Only
tasks that rest at an `.await` can be aborted (`AtRest`); a task on a thread goes on until its
next one (`OnThread`).

| Model | Code |
|---|---|
| `loop`, `cur` | where `run_loop` is: its `select!`, inside `spawn_request` or `cancel_request` with the lock held, in an inline handler, in teardown |
| `inFlight[id]` | `in_flight`, the request instance whose entry is stored under `id` |
| `phase[r]`, `watermark[r]`, `token[r]`, `aborted[r]` | the spawned task, the count it waits for, its `CancelToken`, a delivered `abort()` |
| `free`, `waiters` | the tokio semaphore: free permits and its FIFO queue; permits go to the first waiter when released |
| `notesEnqueued`, `notesTaken`, `notesDone` | notes sent, received, and the published watermark |
| `outQ`, `batch`, `writer`, `delivered` | channel, the batch being written, the writer task, what reached the wire |
| `kept`, `LastClientDropped` | the backend, or a task it spawned, still has a `Client`, and with it a clone of the channel's sender; the last such clone goes at any time after those of the framework (`HandlersGone`), or never |
| `replies[r]`, `dropped` | history: answers produced for `r`, entries thrown away by teardown |
| `SpawnRequest`, `InsertEntry` | `spawn_request` up to `tokio::spawn`, and from there; both under the lock, and the new task may run in between |
| `CancelRequest`, `AbortCancelled` | `cancel_request`, split at the token's trip, for the handler can see it |
| `PollTask` … `SendResponse`, `ReapTask` | the spawned future, poll by poll |
| `StartShutdown`, `CallShutdown`, `FinishShutdown` | the shutdown arm |
| `LeaveLoop`, `DrainEntry`, `EndDrain`, `GraceExpires`, `ReturnFromLoop`, `JoinWriter` | the exits of the loop, teardown, `serve`'s epilogue |

Payloads are left out. A handler that returns `Ok`, `Err` or panics is answered alike, so
`HandlerReturns` stands for all three. What a `Client` sends is `Outbound`'s; here it matters only that it holds the channel open: `SendersGone` is
`HandlersGone` and no `Client` kept. `ClientMayUse` is the editor's behaviour towards ids:
with `PromptReuse = FALSE` it uses an id again only when the earlier task is gone; with `TRUE`
as soon as it has the response, which JSON-RPC allows.

### `Outbound`, `ClientCalls`, `CancelToken`

`Outbound` splits `send_limited` at its atomic operations: load the depth, add to it, push on
the channel. `depth` is the `AtomicUsize`; the writer subtracts after it takes messages. Message kinds
tell responses (never limited) from `Client` traffic (limited), and the begin and end of a progress
sequence, whose guard is finished or dropped.

`ClientCalls` gives each call a caller: a request task (`task`), a notification handler on the worker
(`note`), the `shutdown` handler on the loop, or a task that the backend spawned (`background`).
`pending` holds the entries; `start_request` is allocate – serialize – register – send, with the
roll-back of a refused send; the timeout path is expire – forget – send `$/cancelRequest`. The loop
reads one response at a time and reads none while it waits for the worker or for shutdown.

`CancelToken` splits `cancel` into the store and `notify_waiters`, and `cancelled` into check,
registration (`notified().enable()`), second check and wait; `GiveUp` is the `select!` that drops the wait.

### `TextIndex` and `Documents`

A text is a sequence of characters of four classes, told apart by their sizes: one byte, two bytes (`é`),
four bytes and two UTF-16 units (an astral character), and the newline. Offsets count bytes, and `Slice` is only defined between
characters, as slicing a Rust string is. `ColumnToByte` and `ByteToColumn` take the encoding, as the
code's pair of dispatching functions does; `PositionToOffset` and `OffsetToPosition` are the scanning
conversions, those with `Index` the ones of `LineIndex`; `ApplyEdits` is `apply_edits_with`, its sort and its check for overlaps
operators of their own. A carriage return is an ordinary character to this code, so it has no class. Line and column
numbers are unbounded; the code's are `u32`.

In `Documents` the editor opens, changes and closes a document and sends what it did; each change is built
from the places of its buffer, at any of the positions the protocol lets it give (a column past the end of
its line, a line past the end of the text), alone or as a batch of two. `DidOpen`, `DidChange` and
`DidClose` are the store's methods, one step each because each holds the write lock throughout; a
panic of `replace_range` leaves the text of the changes before it (`ApplyBatch` stops there) and neither version nor index is
touched. `ReadIndex` is the first `with_index`, `offset_at` or `position_at` after an edit. `Replay` delivers a handled change again,
if it is older than the document; a replay of the *current* version is applied twice by the code, whose
documentation promises only to ignore older ones, and is left out. `shadow` is history: the editor's text as of the last
notification handled.

### The library of functions

**`Serde`, `ProtocolTypes`, `CapabilityTypes`.** A type is a *schema*: what its derive attributes say, i.e. the name of each
member on the wire, whether it is optional, defaulted, nullable or flattened, and for an enum its words, numbers, tag or
its alternatives in order. `Encode` is `to_value`, `Decode` is `from_value` (a set of at most one value), and both follow
serde's rules, which are the library's: unknown members are ignored, a missing member is read as `None` only for an
`Option`, an untagged enum takes the first alternative that reads, a flattened member reads from the object around it. serde also
reads a struct from an array, its members in the order of their declaration: `Struct` is a sequence of members for that reason, and `DecodeRow` reads such a row
(too short only where the members missing have defaults, never too long). It does not where a struct flattens another or is the inline alternative of an untagged
enum (`ByName`). A tagged enum reads its tag from the first item. A schema has one line for a
struct of the source; numbers and strings are members of small sets.

**`JsonRpc`, `Dispatch`.** `Classify` is the `Deserialize` of `Message` with its tests of absent and null members in the
order of the code; `RawMessage` is a struct like others, so that `[7, "m"]` is a request and `[]` a response without an id, which nothing answers; `Reply` is what a frame's body leads to, from `handle` of the loop down to the error that
`into_response_error` makes. `Requests` and `NotificationRoutes` are the tables of `dispatch_request` and
`dispatch_notification`, `ResultOf` the handler's result type with the default body of `service.rs`, `Calls` the typed
calls of `Client`. `Dispatch` takes one message at a time: the order of several is `LspServer`'s.

**`Capabilities`.** A path is a sequence of members; a view is the decoded group or its default.

**`Uri`.** Strings are sequences of code points, for normalization is about characters; `Normalize`, `FromFilePath`,
`ToFilePath`, `Parent` and `Join` follow the code on a build that is not for Windows.

**`SemanticTokens`.** Names are resolved in the order of the code; a modifier set is a set of bits, and a modifier past the 32nd has
both outcomes that the build may produce: a panic where overflow is checked, the wrapped bit where not. `SortedTokens` puts each token where
the number of those before it says; equal tokens are the same to a reader, so it does not matter that the code's sort is unstable.

**`Transport`, `TestClient`.** A frame is cut into the pieces at which a reader that starts there behaves
differently: in the header's name, after its colon, after the number, after the blank line, in the body. `ReadPiece` is the read future's
state after one more piece. A call waits for a response, a notification or a request of a method; it looks into the stash first, then reads,
stashing what it does not want. `ReadTimesOut` drops the future with what it has read, so that the next read starts in the middle of
a frame; `CloseServer` cuts the stream.

## 3. Runs

| Run | Asks | Bounds |
|---|---|---|
| `server_safety` | every safety property of `LspServer`, and the refinement of `RequestReply` | 3 requests, 2 ids, 1 permit, queue limit 1, 1 notification |
| `server_live` | requests settle, answers reach the wire, a dead writer ends the connection, teardown completes if the backend's own tasks end | 2 requests, 2 ids, 1 permit, 1 notification; from two points after `initialize` |
| `server_id_reuse` (violation) | at most one answer, if the editor reuses an id on seeing its response | 3 requests, 1 id |
| `outbound_queue` | counter, overshoot, order; responses get written, the writer ends | 2 threads of 2 sends, limit 1 |
| `outbound_progress` (violation) | a progress sequence that began has its end | 2 threads |
| `calls_handlers` | right answer, no leaked entry, cancel after forget; answered and timed calls return | a task's call, and timed calls of a note handler and of the shutdown handler; 2 responses |
| `calls_blocked` (violation) | responses stay readable during `didChange` | a note call and a task's |
| `calls_dropped` (violation) | a closed connection ends the calls | a background call and a task's |
| `cancel_signal` | no lost wake-up, refinement of `CancelSignal` with its liveness | 2 waits, 2 cancels |
| `documents_sync` | the store is the editor's text and version, the index its text's | 1 document opened twice, 3 versions, 2 changes (one batch or two), buffers of 3 characters, 3 encodings |
| `documents_panic` (violation) | a cached index is its text's | the same, with inverted ranges, opened once |
| `library_inputs` | the twelve properties below | below |

`library_inputs` takes each input as an initial state of its own; the test client runs from the one without an input.

| Property | About | Inputs |
|---|---|---|
| `IndexAgreesWithScan`, `ConversionsAreInverse` | the conversions of `text.rs` against each other and the protocol's definition; ranges are never inverted by them | texts of up to 3 characters of 4 classes, every position and offset past the end included, 3 encodings |
| `EditsApplyAtOnce` | `apply_edits` against editing all characters at once; what is refused; any order that keeps ties | texts of up to 3 characters (wide, newline), every none, one and two edits, inverted and overlapping ones too, in every order |
| `TokensDecodeBack` | the cells coloured, types, modifiers to the last bit | texts of up to 3 (`MaxPainted`) wide characters and newlines (`PaintedChars`), the whole text or its first cell and then any range with ends up to line and column 2 (`MaxPlace`), inverted and empty ones too; a legend of 32 modifiers, none, two and an unknown one given; 3 encodings |
| `UrisCanonical`, `PathsSurvive` | keys and spellings; paths there and back, parent and join | schemes, authorities and tails of up to 3 characters of `/ % a F 2 g`; paths of a slash and up to 4 of `/ % a é` and a space (`MaxTail`, `MaxName`), every segment of up to 2 of those that are no slash (`MaxSegment`) |
| `ViewsNeverOverclaim` | views, flags, the negotiated encoding | each group well-formed to depth 2, each with one member of a wrong type; 2 announced encodings, known or not, 2 preferred |
| `RoundTrip` | write and read back | every type: each member and alternative, to depth 2 |
| `RepliesMatchRequests` | the reply to every frame | all 50 request and 17 notification routes with parameters of their type, by name and by place, and of others (members missing or null, rows too long or too short), all outcomes of a handler, ids and methods of all JSON kinds, by name and by place |
| `CallsUnderstood` | what the client reads, and what comes back | all 19 typed calls, each answer, errors and null |
| `NothingLost`, `OldestFirst` | the test client | 2 requests, 3 messages of the server, 1 method, cut anywhere, timeouts and the end anywhere |

**Why these bounds are enough.** One of the three requests of `server_safety` is `initialize`; the other two are alive together under two ids, or
one after the other under one. The conflicts over one in-flight entry involve two requests: the one that is
cancelled and the one that takes its id. With one permit, one task holds it and the other queues, is granted it, or is aborted
at either point; queues of any length are settled by a proof (`PermitsAreConserved`).
The watermark only compares two counters, so one notification separates "before" and "after"; the
order within the worker is that of one channel. Two threads are the least at which the limit's
check-then-add interleaves, and the theorems of section 5 settle the other numbers. Two waits and two
cancels cover a wait before, between and after each step of a cancel. One call per kind of handler that the loop
may wait for, beside one that it does not wait for, gives every cycle of waits.
Documents do not interact, so one is enough; opening it twice lets a new session follow an old one, three versions let
the editor skip one and a replay come after it, and two changes give a batch whose second change refers to what the first left.
Texts of three characters have a line between two others, a line that ends in a wide character and positions inside it; two edits are what
the sort and the overlap check compare, since both look at neighbours; the theorem `EditsAtOnce` settles every number of them. Three characters of a tail are an escape, or one that straddles the end;
four of a path hold two segments and what looks like an escape.
A value of depth 2 has every member of a type present and absent, with the members of its members in their least form: a name
that two flattened structs claim, an alternative that takes another's values and a member written under a name it is not read by all show at that depth.
Three messages are one returned, one stashed and one torn, or two alike around another.
`MaxNotes`, `MaxSends`, `MaxResponses`, `MaxVersion`, `MaxSessions`, `MaxLen`, `MaxChanges`, `MaxRequests` and `MaxSent`
bound counters in guards; each is a bound of the editor, the handlers or the environment, never of the
component itself (`MaxChars`, `MaxEditedChars` and `MaxEdits` bound inputs). `ReadMalformed` is bounded to a short queue, since it would else fill it without limit.

**Symmetry** is used only where no liveness is checked. The liveness run of `LspServer` starts at two states
after `initialize` (`InitAfterInitialize`), because the handshake is sequential and the full graph is too large: one with the
notification still to come and one request used up, so that requests, shutdown and teardown wait for the
worker, and one with the notification run and two requests left to compete for the permit (a state of a connection whose
`initialize` is one more request than these two). Both at once is covered by
`server_safety` alone, whose `PermitsConserved` says that no permit idles while a task waits for one.

### What the violations show

1. **`AtMostOneAnswer`** (`server.rs:682`): a handler claims by id alone. Cancelled while it runs
   past its last await, it is answered, the editor uses the id again, and the old handler takes the new
   request's entry: it answers under the new request's id, and the new handler stays silent.
2. **`EndGuaranteed`** (`client.rs:645–660`): the end of a progress sequence may be refused at the
   limit, after the guard has been marked as finished.
3. **`DeliveryStaysResponsive`** (`server.rs:506–508`): the loop waits for the worker when it reads
   `shutdown`; a `didChange` handler that awaits a client request then waits for the loop.
4. **`DroppedConnectionEndsCall`** (`client.rs:128`): a call's sender lives in a map that the caller's
   own `Client` keeps alive, so closing the connection does not drop it.
5. **`IndexMatchesText`** (`documents.rs:157`): a batch whose second range is inverted panics with its first change
   already in the text. The worker catches the panic and no lock is poisoned, so `offset_at` goes on with the
   index of the text before. Without inverted ranges the property holds (`documents_sync`).

The queue limit is no exact cap, for its check and its addition are separate (`client.rs:70`, `:60`): what the code does keep is
`CapSlack`, an overshoot of less than the number of sending threads, checked and proved.

### Smaller disagreements

Met while the functions were modelled; the modules follow the code, and the properties say what it does keep.

* `error.rs:155` says that serialization failures "collapse to `INTERNAL_ERROR`"; `Error::Serde` becomes `INVALID_PARAMS` (`RepliesMatchRequests`
  lets a handler's failure of serialization reach the client under either; `IntoResponseError` has the code's value).
* `jsonrpc.rs:76` says of a response that "exactly one of result/error is set"; a response with a null result is read with neither, and
  `decode_response` takes that for null (`CallsUnderstood`).
* `testing.rs:37` says that messages that arrive in between "are buffered, not lost"; a read that times out in the middle of a frame
  loses it, and the messages whose frames are read as its continuation (`NothingLost`, up to a torn frame).
* `lsp/base.rs:11` gives `file:///A%2Fb` and `file:///a%2fb` as spellings of one document; they also differ in the case of the path, which is
  kept, so they are two keys (`UrisCanonical`).
* `lsp/lifecycle.rs:420` says that `position_encodings()` already applies the default for a client that announces none; it
  returns an empty list, and the default is applied where the encoding is negotiated (`ViewsNeverOverclaim`).
* `WorkspaceSymbolResponse`: the newer form with full locations reads as the older one, and loses `data`. `DocumentSymbolResponse` and
  `GotoDefinitionResponse`: an empty list reads as the first alternative whatever it was (`RoundTrip` excepts the three).
* `lsp/base.rs:489`: an empty range inside another `overlaps` it, though their `intersection` is nothing. Not modelled.

## 4. Fairness

* `LspServer!SchedulerFairness` (used by `FairAfterInitialize`): weak fairness of the loop's own steps, each task, the
  worker, the writer and the
  grace timer. This is what tokio gives: a runnable task is polled, a timer fires. It needs the editor's end
  of the pipe to accept or refuse a write, for else `flush` stays pending. Nothing the editor decides
  is fair, and a handler may suspend and resume for ever.
* `LspServer!BackgroundTasksEnd` is the premise of `TeardownCompletes`: the tasks that the backend spawned with a `Client` end once the framework's own
  are gone. Neither the abort nor the grace period reaches them, so nothing in the code sees to it, and without it `serve` may wait for ever, as violation 4 shows.
* `LspServer!HandlersReturn` is a premise of the three properties about answers and the writer, not of `TeardownCompletes`: strong fairness of a
  handler's return, strong because a handler leaves and re-enters the thread at each await. It is an assumption on the backend.
* `Outbound!FairSpec`: the writer, and each thread once inside `send`, which never awaits.
* `ClientCalls!FairSpec`: each call's own steps (its timer included), aborts once the connection closed,
  the loop and the worker, whose handler returns unless it awaits a call. The editor owes no answer.
* `CancelToken!FairSpec`: each wait's steps, and `notify_waiters` once the flag is stored.

## 5. Proofs

| Theorem | Statement | Argument |
|---|---|---|
| `LspServer_proofs!TypeCorrect` | `Spec => []TypeOK` | one case per action |
| `LspServer_proofs!AnsweredExactlyOnce` | with `PromptReuse = FALSE`, `Spec => []DutyInOnePlace` | inductive invariant `TypeOK /\ AnswerInv` |
| `LspServer_proofs!PromiseKept` | with `PromptReuse = FALSE`, `Spec => ImplementsRequestReply` | under `AnswerInv`, each step is an `Open`, `Answer`, `Abandon` or `Close` of the promise, or a stutter |
| `LspServer_proofs!PermitsAreConserved` | `Spec => []PermitsConserved` | inductive invariant `PermitInv`; each step takes a free permit, joins the queue, hands a permit on, leaves, or does none of these |
| `LspServer_proofs!ShutdownComesLast` | `Spec => []ShutdownSeesNotes` | `NotesInv`: published, taken and accepted notes only run after each other, and the worker is gone only when the loop serves no more |
| `LspServer_proofs!TokenBeforeAbort` | with `PromptReuse = FALSE`, `Spec => []AbortedAfterToken` | `AbortInv`: who aborts has tripped the token; `AnswerInv`: an entry's task is not aborted |
| `LspServer_proofs!NotesComeFirst` | with `PromptReuse = FALSE`, `Spec => []ObservesEarlierNotes` | `WatermarkInv`: a handler below its watermark got past its wait because the worker was aborted, which is after the drain, so `AbortInv` says it has been aborted too |
| `LspServer_proofs!OkMeansWritten` | `Spec => []FlushedOnSuccess` | `FlushInv`: unless the writer failed, a request's answers are those delivered, in the batch and in the channel; an ended writer has left nothing and no sender |
| `Outbound_proofs!DepthIsExact` | `Spec => [](TypeOK /\ DepthExact)` | `depth` = channel length + adds not pushed + takes not subtracted, kept by each atomic step |
| `Outbound_proofs!OvershootBounded` | `Spec => []CapSlack` | counts the threads past the check against those that can still add |
| `Outbound_proofs!OrderIsKept` | `Spec => []NothingLostOrReordered` | wire, batch and channel in a row are what was accepted; taking, pushing, flushing and a failed write keep that, by lemmas on concatenation |
| `ClientCalls_proofs!AnswersReachTheirCall`, `CallsAnsweredByEntry`, `NoEntryIsLeft` | `Spec => []RightAnswer`, `[]WaitingIsReachable`, `[]NoEntryAfterReturn` | ids are fresh, each entry names the call that made it |
| `ClientCalls_proofs!CallsWellTyped`, `CancelsAreForgotten` | `Spec => []TypeOK`, `[]CancelAfterForget` | from the same invariant |
| `CancelToken_proofs!WakeupsNotLost` | `Spec => []NoLostWakeup` | a registered wait that missed the notify has its second check ahead of it |
| `CancelToken_proofs!TokenIsSignal` | the safety part of `CancelSignal` is implemented | each step maps to a step of the signal or a stutter |
| `Text_proofs!ConversionsInverse` | `InitText => ConversionsAreInverse` | what `Line`, `Column` and the sizes are, by a least-element argument; a position is the newlines before it and the units since |
| `Text_proofs!IndexAgrees` | `InitText => IndexAgreesWithScan` | the cached line starts are the starts the scan finds |
| `Text_proofs!EditsAtOnce` | `InitText => EditsApplyAtOnce` | after `k` sorted edits the output, with the text from the cursor on, is what those `k` make at once, up to any later place |
| `Text_proofs!TokensRead` | `InitTokens => TokensDecodeBack` | a line's part is the columns the range has of it; sorting keeps the tokens and puts them in order of their starts, so no difference is negative and the sums of the differences are the tokens again |
| `Documents_proofs!OnlyPanicsOutdate` | `Spec /\ []NoPanicAhead => []IndexMatchesText` | every way the text changes stores an entry without an index, except a batch that panics |
| `Documents_proofs!StoreFollowsEditor` | with `InvertedRanges = FALSE`, `Spec => []StoreMatchesBuffer` | `SyncInv`: what is on its way takes what the store has to what the editor has |
| `Documents_proofs!CacheStaysTrue` | with `InvertedRanges = FALSE`, `Spec => [](NoPanicAhead /\ IndexMatchesText)` | by `SyncInv`, the next change was built from the text it meets |
| `Uri_proofs!KeysCanonical` | `InitUri => UrisCanonical` | where the escapes are depends on the percent signs only, and which prefix is the scheme on no letter's case |
| `Uri_proofs!PathsAndUris` | `InitUri => PathsSurvive` | decoding goes part by part over strings whose escapes are complete, and gives each encoded character back |
| `TestClient_proofs!NoneLost`, `AlikeInOrder` | `ClientSpec => []NothingLost`, `[]OldestFirst` | `ClientInv`: the wire goes on where the client has read to |

They hold for every value of the constants under the modules' named assumptions.

**`AnswerInv`** has four parts. `EntriesOwe`: each entry belongs to a live task that has not
been answered. `LoopOwes`: while the loop holds the lock for a request, that request has no other
claim. `IdsNotShared`: two live tasks never have the same id, which is where `PromptReuse = FALSE` is needed, and
whose failure is the first violation above. `PhaseAnswers`: what each phase says about answers given.
`DutyInOnePlace` alone is not inductive: it does not say that the entry a task finds under its id is its own. The same invariant carries the
refinement: it says that whoever answers or drops a request finds it open, so that the mapped step is one the promise allows.

**`PermitInv`** adds to `PermitsConserved` that the set of holders is finite, and that a request whose handler runs on the loop
has no task, so that the loop's own steps touch no permit. Its lemmas say what taking the head off a queue without repetitions, removing from
its middle and appending to it do to the set of those who wait.

**`NotesInv`** is what a chain of counters needs (`notesDone <= notesTaken <= notesEnqueued`, equal while the worker is idle), with the reason why the
worker's death does not let a shutdown through: `notesClosed` and `workerAbort` are only set once the loop has left its `select!`.

**Text.** What a recursive function computes is proved without a rule of induction, which would take a formula as its parameter:
`Induction` is about a *set* of naturals, and follows from the least element of its complement; `Recursion` gives the function
that a definition by recursion means, as the one with values at `0..n` that each step extends. From these come what a prefix's size is,
which line an offset is in, and how far a column gets; a position then is what the protocol says it is, and a conversion keeps the order
of positions, the clamped ones and those inside a character included.

*Edits.* The sorted edits are the edits in the order of their ranks, the number of those before each; the rank is a bijection, and a permutation
that keeps ties keeps every rank. Neighbours that do not overlap put *all* pairs in order, so the check of neighbours refuses just the edits of
which two conflict. One more edit, at or after the end of the others and given last of those at its place, then adds to what they make at once its new
text and the rest of the text after it (`EditedMore`): that is the loop's step, and `SplicedIs` takes it from no edit to all of them.

*Tokens.* `Marks` says of a list that its tokens of one type are in some cells, in every one of them, and one to a line. The tokens of a range mark
its cells (`PartsMark`), for each line gives one part or none and `FlatGathers` says that flattening keeps just those that are there;
tokens of another type around them (`MarksJoined`) and another order (`MarksArranged`) change nothing. `Before` is a strict total order, its
last resort being the highest bit in which two sets differ (`FewerBitsIs`), so ranks give an arrangement (`TokensSorted`). In it each token starts at or after
the one before, which makes every difference a natural, and an editor that adds them up reads the arranged tokens (`ReadsSorted`). What is
assumed is only that characters are of the four classes; texts, ranges and, in the lemmas, modifiers are any.

**URIs.** `CanonicalKey` is proved for every string of characters, `StandsFor` for every absolute path of characters of one or two bytes and `JoinsTo` for
every segment as well. An escape scan is a recursion along the string; `EscapesAlike` says that two strings with their percent signs at the same places
have their escapes at the same places, though escapes may overlap hex digits or the end. So the spellings of a URI agree on what is scheme, what is
escape and what is neither, and `Normalize` makes each character's case a function of that. An encoded path is `Escaped`: no escape is cut off. Joining
keeps that (`EscapedJoin`), and then decoding a joined string is decoding both (`DecodeJoin`); without it, the end of one part could take the start of
the next for its digits. Reading UTF-8 has a state between two bytes, so `ReadBack` goes along the path and says that each character's bytes lead from a
state where nothing waits to another. A parent is what precedes the last slash, which `LastCharacter` and `FirstAt` find in the encoding: no
escape has a slash in it.

**`SyncInv`** says that there is a *chain of views*, one more than there are notifications on their way: the first is the store's
documents (version and text), the last the editor's buffers, and each notification takes one to the next
as the protocol means it (`Follows`). It needs no bound on the queue, and handling a notification takes the first view off the chain.
That `ApplyBatch` then does in the store what the editor did to its buffer is `Text_proofs`' part: each range names the two places it
was built from, whatever of the permitted positions the editor chose, so the slices do not panic, and the text is replaced where the
editor replaced it. `StoreMatchesBuffer` is not inductive: it says nothing of the notifications in between.
`InvertedRanges = FALSE` is the premise because the conclusion is false without it, which is the fifth violation;
`OnlyPanicsOutdate` is what is left for editors that invert ranges: `NoPanicAhead` says that the
change the store handles next does not panic, if it is not one it ignores, and `CacheStaysTrue` that other editors never break it.

**`ClientInv`** says how far the client has read: for some number `c` of whole frames and `q < 6` pieces of the next, what is in the pipe or not yet
sent is what follows the first `6c + q` pieces of the server's stream, and everything returned or stashed is a message up to `c`. While no
frame is torn the read's state is that of a reader at piece `q`, and *every* message up to `c` is returned or stashed. After a torn
frame the first is weakened to `ReadOk`: a reader out of step can know a length only where it met a whole header block, so it
delivers only whole messages, and each at its own end; that is why what comes later is still neither repeated nor out of order. `Ordered`
relates the returned and the stashed, and `Awaited` says that the stash holds nothing that the running call would have taken.

**Only model-checked**: liveness (beyond the prover) and the liveness part of `CancelSignal`; of `library_inputs`, `ViewsNeverOverclaim`, `RoundTrip`,
`RepliesMatchRequests` and `CallsUnderstood`. These four read and write values through `Serde`,
whose operators are recursive, which takes the prover's arithmetic away; and what they say is a matter of
the schemas, which are finite, more than of numbers that grow.

## 6. Not modelled

* `serve_stdio`, `serve_tcp`, `lib.rs`: they hand a stream to `Server::serve`.
* *Transport*: the limit on Content-Length, I/O errors, and line endings and headers that `encode_message` does not write.
  `LspServer` takes a message, an end or a framing error as given.
* *Errors*: the named constructors. *Test client*: `shutdown_and_exit`'s wait for the server task, and the helpers that build one message.
* *Documents*: the read-only accessors, and the second look-up of a URI under its normalized spelling.
* *Base types*: range predicates; Windows paths. *Lifecycle*: `workspace_roots`, constructors of provider types.
* *Serde*: the syntax of JSON; numbers past the small sets, and so the bounds of `u32` on the wire; a tag given as a number, which serde reads as the
  variant's index inside an untagged enum. A group of capabilities announced as a non-empty array is in no run: its view reads it by place, where `supports` finds nothing.
* The memory order of atomics: `Relaxed` on the depth counter is treated as a single total order, which holds for one
  location. Handlers that never yield: tokio cannot abort them and neither can anyone else.
* `send_progress`, `telemetry_event` and the `log_*` shorthands, which pass a value on; wording, logging and tracing throughout.

## 7. Plan

Modelled and checked: all components of section 1 but for what section 6 lists; proved: the safety of the runtime, and the library but for what goes through `Serde`. What could come next:

1. `Transport` with the length limit and foreign headers, and `TestClient` over a pipe of bounded capacity.
2. Several documents whose URIs differ in spelling: `Documents` over `Uri`'s `Normalize`, with the fallback look-up.

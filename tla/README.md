# A formal model of cc-redis

cc-redis is a small Redis clone: one tokio process that accepts TCP connections,
reads RESP arrays, executes twelve commands on one keyspace and removes expired
keys in the background. This directory holds TLA+ modules that model it, TLC
configurations that check them on small instances, and theorems about them that
TLAPS checks for every instance. Paths such as `request.rs:63` are relative to
`src/src/` (the parsers are in `cmd/parser/`, the executors in `cmd/execution/`).

## The system

| component | state | operations | talks to |
|---|---|---|---|
| Keyspace (`db.rs`) | a map from strings to `Object { value, expiration }`, behind one `std::sync::Mutex` | insert, get, `swap_remove`, `is_expired` | everybody, through `Arc<Mutex<..>>` |
| Deserializer (`deserializer.rs`) | a cursor and the last CRLF, per message | `deserialize_msg` | called by the connection task |
| Request parsing (`request.rs:142-250`, `cmd/parser/*`) | none | `Request::try_from`, which reads the clock for `SET .. EX/PX` | called by the connection task |
| Command execution (`request.rs:30-138`, `cmd/execution/*`) | none | PING ECHO SET GET EXISTS DEL INCR DECR INCRBY DECRBY LPUSH RPUSH | locks the mutex, reads the clock |
| Expiry task (`main.rs:30-43`, `db.rs:48-76`) | ratio of the last pass | passes over a random sample while more than a quarter of it had expired, then a second of sleep | locks the mutex, reads the clock once per sampled key |
| Connection task (`main.rs:45-79`) | a socket, a read buffer | accept, read, execute, write, clear the buffer, close | the client; calls the three above |
| Response serialization (`response.rs`) | none | `serialize` | called by the connection task |
| Logging, benchmarks | - | - | change no state |

What is hard here, and what each part has to get right:

- **One mutex, a moving clock.** The mutex makes a command atomic with respect to
  other tasks but not to time. EXISTS and the expiry task read the clock once per
  key with the mutex held; SET computes its deadline before it asks for the mutex;
  the clock is the wall clock and may be set back. *Clients must not see an object
  after its deadline, nor lose one before it, whichever of the lazy removals and
  passes of the expiry task come in between.*
- **Collect, then remove by key.** A pass first collects the expired keys and then
  removes by key. *No object written meanwhile may be removed.*
- **Deadlines across commands.** INCR on an object with a deadline keeps it, on one whose
  deadline has passed it must not inherit it, and the instant of the deadline is not past.
- **A DEL that does not look.** DEL counts what it removes, expired or not. *It must still agree
  with what GET and EXISTS have said of the keys before.*
- **Integers.** 64-bit sums at both edges; `DECRBY k i64::MIN` negates an amount whose
  negative is not an `i64`.
- **A panic with the mutex held** poisons it, and each `lock().unwrap()` after that ends
  one more task. *Nothing may be half done, and no task may wait for ever.*
- **Progress.** The loop over passes has no `await`; expired objects nobody asks for are
  removed by sampling only; EXISTS and the passes hold the mutex for long.
- **Framing.** One `read` is taken for one message, and one read buffer serves them all.
  *No byte may be lost or seen twice, and the replies must answer the messages in order
  whenever each read is one message.*
- **Clients that do not take their replies.** `write_all` then waits, for ever if need be.
  *That must not keep the mutex from anyone, nor hold up any other connection.*
- **Positions.** The expiry task draws positions of the map, and each `swap_remove` moves the last
  entry into a gap. *A position must name the same entry until the pass has looked at it.*
- **Text in replies.** Only a bulk string says how long it is; an error repeats the name of an
  unknown command. *A client must find where each reply ends, whatever bytes were echoed.*
- **Sizes a message announces.** The deserializer slices the buffer by numbers the message
  holds. *No index may be out of range, and what is accepted must be an array of strings
  to the last byte.*

`PROJECT.json` lists these one by one, at the line where each bites ("hazards").

## The modules

| module | what it is |
|---|---|
| `Db` | values, objects, expiration, the map and its two updates |
| `Requests` | `try_from`, the three parsers and the errors, as operators on a sequence of texts |
| `Execution` | what arithmetic and pushes compute; the responses |
| `Server` | the state machine: connections, mutex, commands, expiry task, clock |
| `LogicalStore` | what a client is promised: a store in which expired objects are not there |
| `ServerRefinement` | `Server` implements `LogicalStore` |
| `Positions` | `Server` with the order of the entries and the locals of `remove_expired_entries`; it implements `Server` |
| `ServerLive` | `Server` under a load that never ends, the fairness of its tasks, and what they get done in the end |
| `ServerHistory` | `Server` with two history variables and the properties that survive a clock set back |
| `ServerClaims` | sentences of the repository that the code does not keep |
| `Resp` | the bytes of RESP, the conversions the deserializer uses, the encodings of an array as a reference |
| `Deserializer` | `deserialize_msg`: a cursor over the bytes of one message |
| `Replies` | `serialize`, and as a reference how a client reads replies off a stream |
| `Connection` | one connection's task and its client: the stream cut into reads, the buffer, the replies |
| `Wire` | the same loop byte by byte, with the deserializer and the serializer in it; it implements `Connection` |
| `Sessions` | the whole server: `Server` fed by the streams of its clients; each of its connections implements `Connection` |
| `ParserTests`, `ExecutionTests`, `ExpiryTests`, `DeserializerTests` | the repository's own tests, as data |
| `RepositoryTests` | runs them: those of commands and passes on the steps of `Positions` |
| `SequenceLemmas` | lemmas about sequences and sums that the proofs share |
| `ServerProofs`, `HistoryProofs`, `RefinementProofs`, `PositionsProofs`, `ConnectionProofs`, `DeserializerProofs`, `WireProofs` | the theorems, each module with the lemmas about the operators it is concerned with |
| `MC..` | constants for TLC; `MCTexts` has the texts that several of them share |

How they fit together:

```
   LogicalStore  <-- Server  <-- Positions  <-- (tests of commands and passes)
                       :
                    Sessions --> Connection <-- Wire = loop + Deserializer + Replies
```

An arrow is a refinement that TLC checks (`PROPERTY LogicalSpec`, `KeyedSpec`, `ConnectionSpec`) and
that is proved as well. `Connection` is the abstract specification of the task between its client and
the commands: it does not look into messages. `Wire` shows that the bytes keep that promise: a buffer is answered as a
message exactly when it holds the bytes of one. `Sessions` is made
of the actions of `Server` (the dotted line), so that what is proved of `Server` holds of it by construction. What has to be shown is
the other half, that what one client sees is a `Connection` whatever the others do to the mutex and the map:
its task is held up, scans, panics or finds the mutex poisoned, while its client sends, takes replies or leaves. In `Connection`, `Panicking` are the messages whose execution *may* panic; in
`Sessions` any of them may, since another connection can have poisoned the mutex. Only then, though: a task that
ends with a message in its buffer is taken for a panic only if the mutex is poisoned, so one that gave up its command because its
client has left would not be a `Connection`.

### How the state corresponds to the code

| variable of `Server` | in the code |
|---|---|
| `now` | what the next `SystemTime::now()` returns |
| `db` | the `IndexMap` behind the mutex |
| `lock`, `poisoned` | the `Mutex`: who holds it *between two steps*, and its poison flag |
| `pc[c]` | where the task of connection `c` is: not there (`closed`), at `read_buf` (`reading`), at `db.lock()` (`waiting`), in the loop of EXISTS (`scanning`), at `write_all` (`replying`) |
| `req[c]`, `reply[c]` | the `Request` and the `Response` in its hands |
| `scan` | `keys` still to look at and `count`, the locals of the EXISTS that holds the mutex |
| `expiry` | the expiry task: at the lock (`ready`), in its pass (`sampling`, with the sampled entries left, the keys collected, `sample_size`), in its sleep, or dead |
| `budget` | not in the code: messages still to come, bounded by `MaxMessages` |

A step is what a task does between two points at which another task or the clock
can interfere. A command that reads the clock at most once is one step from
`lock()` to the release, since nobody else reaches the map in between. EXISTS
(`request.rs:59-75`) is `ExistsBegin`, one `ExistsLook` per key, `ExistsEnd`; a pass
(`db.rs:48-76`) is `ExpiryBegin`, one `ExpiryLook` per sampled entry, `ExpiryEnd`,
because the clock runs on between the readings. Parsing is a step before that of the
command: the deadline of `SET a x EX 1` counts from the moment it was parsed
(`set.rs:58`). A command with several outcomes has one action for each
(`GetLive`/`GetMissing`, `ArithmeticNew`/`Update`/`Fails`/`Panics`, `PushNew`/`More`/`Fails`).

The data is abstract. A string is a member of `Texts`; what `to_lowercase` and `parse`
make of it are the constants `Lower`, `I64Of`, `U64Of`. `i64` is the range
`MinI64 .. MaxI64` (with `MinI64 = -MaxI64 - 1`), a second is `TicksPerSecond`
instants, and `SystemTime` ends at `MaxInstant`, so that overflow is in reach.
The map is a function: the order of an `IndexMap` decides only which entry a
random position denotes. `OverflowChecks` tells a debug build, in which plain
arithmetic panics on overflow, from a release build, in which it wraps.

`Deserializer` has the fields `cursor` and `lf_pos`; `cr_pos` is used at once by whoever
calls `update_cr_lf`, so it is a local of `ArraySize` and `BulkStringSize`. `at`, `left`, `size`
and `params` are where `deserialize_msg` is and its locals. `extract_bulk_string` is two actions,
because the string starts where the size ended. A byte is a model string; of the bytes above
0x7F there is one that starts a character and one that ends it, enough to tell UTF-8 from what
is not. `u32` is `0 .. MaxU32`, in the runs 15, so that sizes overflow.

`Connection` has the stream (`wire`), the buffer (`buf`), the task's place in the loop (`pc`), the
client (`peer`: sending, done sending, or gone) and what an observer of both ends sees
(`sent`, `handled`, `replies`). A piece stands for bytes that no read divides, `Capacity` for 1024
bytes. `whole` is a history variable: was each read up to now exactly one message?

`Positions` has, instead of `expiry`, the keys by position (`order`) and the locals of
`remove_expired_entries` (`pass`: the positions of the sample still to be looked at, `keys_to_remove`,
`sample_size`). An insertion goes to the end, `swap_remove` moves the last entry into the gap. The commands
are the actions of `Server`, instantiated (`Clients`), each with what it does to the positions.

In `Replies` a response is its kind and the bytes of its text. `Wire` has the variables of the loop,
those of the deserializer, which each read starts anew, and `stream`, the bytes that were written. What commands
other than ECHO answer is any response of `OtherResponses`: their text is the business of `Server`.

`Sessions` adds to `Server` one variable: `link[c]`, the client of connection `c` and its socket (`peer`,
`sent`, `wire`, and `unread`, the replies the socket holds, at most `Window`), the task's read buffer, and
what was handled and replied. Its actions are those of `Server` conjoined with what happens to the link: `Receive`
is `ReceiveMalformed`, `ReceiveInvalid`, `ReceiveLocal` or `ReceiveRequest` according to what the buffer
holds and to what `TryFrom` makes of it, and `Reply` is `WriteReply` once there is room.

### What LogicalStore promises

`LogicalStore` has no mutex, no expired entries and no expiry task. Each command
happens at one instant between its arrival and its reply, on the objects that have not
expired. What that means it says itself (`Gone`: the instant of the expiration is not yet past it), so
that a comparison in the code that is off by one instant is a difference. It leaves room for two things the
code does: DEL may count keys that are
gone, because it does not look at expirations (`request.rs:76-87`; how many of them it may count is
what `DelAgreesWithReads` in `ServerHistory` says), and EXISTS judges
each key at an instant of its own. `ServerRefinement` maps the server to it by
forgetting the expired entries (`live`) and everyone's hold on the mutex but that of
EXISTS.

## What is checked

| run | specification | shows | states |
|---|---|---|---|
| `server_core` | `Spec` | types, the discipline of the mutex, what is stored is well formed, and the server implements the logical store | 351,325 |
| `server_clock` | `HSpec` | under a clock that may be set back at any time: a key reported missing stays missing until written, what a pass collects had expired and is still the same object, EXISTS never counts short, nothing is lost or changed unless named by a client or expired, DEL counts every live key and none reported missing, deadlines are changed by SET only | 502,596 |
| `server_live` | `LiveSpec`, `OverflowChecks` | every command is answered or its task ends, the loop over passes ends each time unless deadlines are stored for ever, expired objects are removed without being asked for; after a panic with the mutex held the map never changes, no command on it is answered, and every task that asks for the mutex ends | 24,464 |
| `positions` | `Spec` | a sample of positions stands during a pass, and passes over positions implement those of `Server` | 582,582 |
| `deserializer` | `Spec` | no index leaves the message, what is accepted is an array of the strings returned to the last byte, each encoding of an array of one string or more is accepted; the tests of `deserializer.rs` pass | 39,695 |
| `connection` | `FairSpec` | the reads partition the stream, each read gets one reply, replies are in step with the messages as long as each read is one message, and then every message is answered | 201,959 |
| `wire` | `Spec` | replies can be read back, up to the first error with a CRLF in it; ECHO returns its bytes; the loop over bytes implements `Connection`; the tests of `response.rs` pass | 483,929 |
| `sessions` | `SessionSpec` | each connection of the whole implements `Connection`, whatever the others do and whenever its client leaves | 576,945 |
| `sessions_live` | `FairSessions` | a client that leaves its replies unread blocks its own task and nobody else | 36,118 |
| `tests` | `TestSpec` | the tests of the parsers, the executors and `db.rs` pass on the modules | 3,415 |
| `claim_exact`, `claim_arity` | `Spec` | violated: see Findings | |

**Bounds.** In the runs of `Server`: two connections, two keys, at most three messages in all, three or four
instants, `i64` of two bits (-2..1). Two connections and the expiry task are enough for
every pair of tasks that can meet at the mutex, which only one of them passes; three
messages let a key be given a deadline, found by one command, and written again by
another, with any step of the expiry task and of the clock between any two of them.
Two keys with a sample of one (`server_core`, `server_live`) is the case of a sample smaller than the
map; a sample of two (`server_clock`, `positions`) that of a larger one. Two bits
let sums overflow upwards and downwards and hold the one integer that has no negative.
Messages are chosen so that all the commands and all the errors occur, and so that
they collide on key `a`. `server_live` has two instants and five messages: a SET whose deadline is the first
instant, one of the same key and one of another without deadline, the command that holds
the mutex over several steps and the one that panics; its `MaxMessages` bounds the messages received
between two steps of `Replenish`, not those of a behaviour. Sets that are small because the data is abstract
(the texts) are in `MCTexts`. `server_core`, the refinement of `LogicalStore`, has a release build
and a clock that goes forward: the two cases in which the code does not keep that promise are the amount without a negative
(`claim_exact`) and a clock set back (`server_clock`, which says what is kept all the same).

`positions` has three keys and four messages, enough for a map of three entries of which the first or the
second is removed, the third moves, and a pass with a sample of two is under way or begins.

`deserializer` starts from the encodings of seven arrays: no bytes, a character of one and of two
bytes, a string that is CRLF, one that is itself an encoded array, two strings of which one or
both are empty. Its messages are these with any byte inserted, replaced or deleted at any place, the
shortest with two such edits, and everything a read can return of a stream of two. So the
sizes are wrong by one, too large for `u32`, spelled with `+` or leading zeros, and every CRLF and
marker is missing, doubled or cut. `connection` has three messages, of one, two and
four pieces, and a buffer of three: the longest is always cut, as one of more than 1024
bytes is. Three of them can be in the stream at once, and a read may end anywhere.

`wire` has four requests of 11 to 29 bytes: a bare command, an ECHO of a CRLF and a character of two
bytes, an ECHO of a text that is itself a message (too long for the buffer of 22 bytes, and when a read cuts it
in the right place, the rest is answered as a message of its own), and an unknown command whose name has a CRLF and
looks like two replies. Two of them in three reads, cut anywhere.

`sessions` has two clients with two messages between them, of which one holds the mutex over
several steps, one panics, one needs no mutex and one is invalid, and two reads between them, cut anywhere; a socket takes
one reply (`Window`), so that the second blocks until the client takes the first. `sessions_live` has three
messages, three reads and no departures, and what it shows is not empty: there are behaviours in which one client never takes
its first reply, and the other's EXISTS must be answered all the same. The observed connection stands for both: the model treats them alike.

**The repository's tests.** `ParserTests`, `ExecutionTests`, `ExpiryTests` and `DeserializerTests` state each test
as its input and the results it accepts, and TLC runs them: pure functions in one
state, commands and passes on the steps of `Positions`, for every sample a pass may draw and at
every pace of the clock within `Advance` instants. So they tie the model to what the authors know the code to do. `i64` is eight bits there,
enough for the amounts the tests use. Two things came to light. The test `incrby_negative_multiple_times` calls DECRBY
(and is stated that way here); and the tests with an object that expires now rely on the clock having moved
on since, for at the instant of its expiration an object is still there (`db.rs:41`), so `RepositoryTests` lets the
clock move before the first request. What happens at that instant itself is the business of `LogicalSpec`.

**Fairness.** `EndlessSpec` (`ServerLive`) asks for weak fairness of what a task does without
waiting for anyone (`Proceed`: the looks of EXISTS, the end of it, the write of the
reply) and for strong fairness of those that ask for the mutex, the connections
(`Locks`) and the expiry task. tokio's runtime is multi-threaded and gives every
runnable task a thread, hence the weak fairness. A `std::sync::Mutex` promises no
order; strong fairness is the assumption that a task that waits, and for which the mutex is free again
and again, is not passed over for ever. It is free again and again, since the
commands and passes hold it for as many steps as they have keys.
Nothing is assumed of clients or of the clock: they may never send, connect or move.

The messages do not run out: `Replenish` gives the clients more whenever `MaxMessages` are used up. So what holds under
`EndlessSpec` does not hold because the traffic has ended. That makes a difference to two of the properties:

- `PassesEnd`. The loop over passes (`main.rs:37-39`) ends each time *or* objects with a deadline are stored for
  ever. The exception is needed, for without it TLC finds a behaviour in which a
  client repeats a SET with a deadline that has passed and every sample is full of it, so that the task never
  reaches its sleep.
- `ExpiredIsPurged`. A sample is smaller than the map, so a key may be left out of it each time. The code draws at
  random (`db.rs:57`), and of infinitely many samples one has the key with probability one; TLA+ has no
  probabilities, and `Drawn(k)`, strong fairness of the passes that draw `k`, stands for it. `MCLive`
  assumes it of each of the two keys (`LiveSpec`); without it the property is violated. The exception for a poisoned mutex is the
  end of the expiry task that `PoisonEndsTheTasks` speaks of.

`Connection`'s `FairSpec` asks for weak fairness of its task and nothing of the client. It
stands for a client that takes its replies. `FairSessions` is for those that do not: a write goes on once
there is room in the socket, where nobody but the task takes room, so weak fairness is enough; the
rest is as in `Server`, and no client is obliged to send, to leave or to take a reply.

**Deadlock** is checked in every run of `Server` and `Positions`: a connection can always be opened or a message
be answered. The other machines may stop, and their runs do not check it: the deserializer ends with its
message, a test with its last request, and a connection whose client is gone or has sent all it
will, or whose task waits at `write_all` for a client that takes nothing, does nothing more.

**Mutants.** `PROJECT.json` pairs each property with a change to the model that a
plausible bug in the code would make (a dropped check, a mutex not released, a deadline
lost, an inverted comparison) and that violates the property under the same configuration.
These operators stand next to the definition they change, marked "Mutant".

## What is proved

`ServerProofs` proves, for any connections, messages, sample size, width of integers,
clock and length of a second (the assumptions on the constants are named where they are declared):

- `TypeCorrect`, `MutexIsDisciplined`, `StoreIsWellFormed`: `TypeOK`,
  `MutexDiscipline` and `WellFormedStore` are invariants of `Spec`;
- `PoisonIsFinal`: `PoisonedServesNobody` holds of every step.

The argument is one inductive invariant, `IInv == TypeOK /\ MutexDiscipline /\
WellFormedStore`, none of whose parts is inductive alone. That an action leaves `TypeOK`
true depends on the request of the connection that takes it being a request of its
command, which is the part of `MutexDiscipline` that ties `pc` to `req`; that
`ExpiryLook` looks at a key of `db` at all depends on nobody else holding the mutex; that
LPUSH never stores an empty list depends on `WellFormedStore` speaking of the requests
that wait as well as of the map. `PoisonIsFinal` follows from `IInv`: a poisoned mutex
is nobody's, so no EXISTS and no pass is under way, and every other action that
touches the map needs the mutex not to be poisoned.

The proof has a lemma per action or family of actions (`SetStep`, `ArithmeticStep`,
`ExistsLookStep`, ..) under lemmas for the steps of one shape (`RunStep` for a
command within one step, `ReceiveStep` for a message answered without the mutex).
Before them come the lemmas on what the operators return: the two updates keep a map a map
(`InsertMap`, `SwapRemoveMap`), and `TryFromType` says that whatever `try_from` accepts
is a well-formed request and whatever it refuses is one of the errors.

The assumptions are these:
`i64` is a two's complement range, the parse functions are total functions to it or
`None`, a sample has at least one entry, `None` is nothing else.

`DeserializerProofs` proves four properties for any messages, any bytes and any `u32`. The bounds come first:
`TypeOK` (the strings returned are valid UTF-8, the positions are in the message) and
`CursorInMessage` (no slice or index is out of range, and an element takes six bytes or more, so
that the loop over a huge `array_size` ends with the message). They are not inductive: `IInv` adds
`Rounds`, what holds between the elements. On it rest both halves of what the deserializer is for:

- `AcceptedIsSound` (`Sound`): what is accepted is the encoding of the strings that are returned,
  none of its bytes skipped, added or left over. The invariant is `Parsed`: at each point the
  bytes *already passed* are the beginning of an encoding of the strings read so far, with the
  sizes the message gave them.
- `EncodingsAreAccepted` (`Complete`): an encoding of one string or more is accepted, and gives those
  strings. The invariant is `Followed`: if the message encodes some strings, those read are the first of them
  and the cursor is where the next begins. It needs that a numeral has no CR in it, so that the first
  CRLF after a marker ends the size, and that a string is taken by its size and never by its
  bytes, so that a CRLF in it does no harm. The assumption is that the arrays have a string: `*0` is
  refused (see Findings).

`HistoryProofs` proves the history properties for `HSpec`, that is, for any clock, set back whenever it
may be: `MissingIsGone` (`MissingStaysMissing`), `CollectedHaveExpired` (`DoomedHaveExpired`),
`NothingLiveIsLost` (`NoLiveLoss`), `DelCountsWhatReadsFind` (`DelAgreesWithReads`), `DeadlinesAreKept` (`DeadlineDiscipline`) and `ExistsIsNotShort`
(`ScanCountsWhatStays`). What each step may do to the map is said once, in
`ConnectionChanges` and `OtherChanges`: a write puts one object under the key of its request, a DEL removes the keys
it names, a lookup removes a key that is not live, the expiry task removes what it has collected, and nothing
else happens. The action properties are corollaries of that and of the inductive invariant `HInv`, which adds to
`IInv` that what a pass has still to look at is in the map (the mutex it holds keeps everyone else from it)
and that no instant is later than `latest`, so that what expired at some instant has at
`latest` (`ExpiredLater`). The bounds on DEL's count are cardinalities of three sets, each within the next: the live keys it
names, those in the map, and those not reported missing, the last by `MissingStaysMissing`. For EXISTS the invariant (`ScanInv`) adds that the keys still to
look at are the last of the request, in their order: so a look adds one occurrence to those looked at, and to the count if its key stays,
and the one key it may remove takes all its occurrences out of those present at once.

`RefinementProofs` proves that `Server` implements `LogicalStore` (`ImplementsLogicalStore`, that is `Spec =>
LogicalSpec`), under the two conditions there are to it: the clock is not set back, or what is gone would be there
again; and no message subtracts `i64::MIN`, for which the code is not exact (see Findings). TLC evaluates both in
`server_core` (the assumption of `MCServer`). The mapping forgets what has expired, `Fresh(db, now)`, and four
lemmas say how that goes with the two updates and with time (`FreshInsert`, `FreshRemove`, `FreshLater`, `FreshKeys`): a
removal of expired keys is not seen, a write sees no more than what is there. The initial states and the steps are then
mapped one command at a time (`SetSimulates`, .., `ExistsSimulates`, `ExpiryIsUnseen`, `TickAdvances`). The
invariant that this needs, `RInv`, adds to `IInv` three things: a task that neither waits for the mutex nor holds it has no
request (a connection that is lost takes nothing with it), the amounts that wait to be subtracted have negatives,
and what a pass has collected has expired *and stays so*, which is where the clock comes in: the expiry
task removes at the end of a pass what it judged earlier.

The same module proves two things of `Sessions`. `SessionsImplementLogicalStore` carries the refinement over to the whole, under the two conditions
above; every step of `Sessions` has one of `Server` in it or none, so nothing else is to be shown. `SessionsAreConnections` (`ConnectionSpec`) says that the observed connection, which may be any, is a `Connection` whatever the other tasks
do. The invariant `LinksInv` ties the place of the task in `Server` to its link: a task that waits for the mutex or holds it has
a whole message in its buffer, one that writes has there what it handled last. `EndedInPanic` adds that a task that ended with a message in its buffer
has poisoned the mutex or found it so. The connections must be finitely many,
as the bound on messages (`MaxSent`) is a sum over them.

`PositionsProofs` proves that positions do what keys do: `SamplesStand` (`SampleStands`) and `PassesAreOverKeys` (`KeyedSpec`, the refinement of `Server`). The invariant `PInv` is that of `Server`, seen through the
mapping, with two parts: `order` has each key of the map exactly once, through an insertion at the end, a `swap_remove`, and the folds of
these that DEL and the end of a pass are; and between passes nothing is drawn (`Quiet`), while in one the
positions left to look at and the keys collected are of the map and disjoint (`Sampling`). That
the mutex is held in a pass is what keeps a position's entry where it is until it has been looked at.

`ConnectionProofs` proves the four invariants of `Connection` for any messages, pieces and capacity: `TypeOK`, the bound on
the read buffer with it; `RepliesMatchReads` (`OneReplyPerRead`); `NothingLostOrSeenTwice` (`StreamPartitioned`), for which `PartitionInv`
says in addition that the buffer is empty when the task reads; and `RepliesInStep` (`InStep`), by `StepInv`: as
long as each read was one message, the buffers handled are the first messages sent, the one in hand is the next of them,
and the replies are those to the first that were handled.

`WireProofs` puts the parts together down to the bytes, for any requests, any responses to the other command,
any read buffer and any cuts of the stream:

- `ImplementsConnection`: the loop over bytes is the loop over messages, where the messages are *all* encodings of an
  array of one string or more. So what `ConnectionProofs` shows holds byte by byte.
- `ImplementsTask` (`ConnectionSpec`): the same with the client's own messages as the only ones, as the run `wire` has it. This is true
  under one condition, `Unambiguous`: no *other* encoding of an array can be cut out of a stream of them. It is needed, since an ECHO
  of a text that is itself a message, cut at the right place, is answered as that message. Requests whose texts contain no
  message satisfy it, and so do those of `MCWire`, where one text is a message but one that the client sends as well.
- `RepliesAreRead` (`RepliesReadBack`): the client finds each reply in the stream, where it ends and with its text.
- `AnsweredEndToEnd` (`EndToEnd`): as long as each read returns one message, the replies it finds answer its messages one by one, and an
  ECHO comes back byte for byte.

The invariant `IInv` says what each part knows of the bytes: the deserializer is on its way through the buffer (`Midway`, which is
`Parsed` and `Followed` of `DeserializerProofs`, instantiated with every sequence of bytes as input); a buffer that encodes
an array has a response to the strings of that array (`Answered`); and the stream is the serialized responses
written so far (`Streamed`). None of the properties follows from one part alone: which message a buffer
is comes from `Connection` (`StepInv`, by the refinement), which response it has from `Answered`, and what the client reads from
`Streamed`. Two facts about operators carry the rest. A decimal is spelled by digits that `parse` reads back as the number
(`DecimalReads`), so that a request's own encoding is accepted and a bulk string has the length it announces. And a reply that stands anywhere in
a stream is what the reader finds there (`ReplyStands`): a line because no CRLF comes before its end, a bulk string because its length is read
and its text is not. From there an induction over the replies (`RepliesFound`) follows the reader from one to the
next. The assumptions: the lengths in a request fit into a `u32` and their digits are bytes, a response is a kind and a text, and
what stands for a refusal is no message. TLC evaluates them in the run `wire`.

`SequenceLemmas` is what these proofs share: flattening and cutting sequences of sequences, where a part stands in a
concatenation (`PartsStand`, `StandingSlice`), sums over a finite set. The induction theorems of the library take an operator,
which the provers cannot instantiate, so an induction here is on a *set* of naturals: `LeastNatural`, from the library's
well-foundedness of the subset order, gives the least member for which a claim would fail. The folds of the community
modules take operators too; each is wrapped once in facts about its first or last element.

Model-checked only, and why:

- liveness (`Answered`, `PassesEnd`, `ExpiredIsPurged`, `PoisonEndsTheTasks`, `Served`, `StalledHarmsNobody`), which is out of
  the prover's reach: fairness here is of actions, so that each proof would be one about ENABLED;
- the repository's tests (`DeserializerTestsPass`, `SerializeTestsPass`, `ParserTestsPass`, `ExpiryTestsPass`,
  `ExecutionTestsPass`), which are data: TLC computes them, and there is nothing to generalise.

## Findings

- `claim_exact`: on a missing key, `DECRBY k -9223372036854775808` stores and replies
  -9223372036854775808 in a release build, where an existing 0 is refused with "increment or
  decrement would overflow" (`arithmetic.rs:56`). With overflow checks the negation panics with
  the mutex held, whatever the key holds, and `server_live` shows what follows.
- `claim_arity`: `RPUSH k` is refused with an error that names LPUSH, `DECRBY k` with one that
  names INCRBY (`parser/list.rs:12`, `parser/arithmetic.rs:12`); the journal lists it as a TODO.

Four things no document contradicts, and that the modules make plain: an array of no elements,
`*0\r\n`, is refused (the cursor is still on the count, `deserializer.rs:54`); a message longer
than the read buffer is never accepted, however it arrives (`main.rs:52`); a string with leading zeros or a `+`
that `parse::<i64>` takes is stored as the integer and comes back without them; and an error that repeats
a name with a CRLF (`error.rs:5`) reads as several replies, which is where `RepliesReadBack` stops.

## Not modelled

- **The end of the process** when `bind` or `accept` fails (`main.rs:28`, `main.rs:46`): nothing is persisted, so
  there is nothing to recover.
- **Which** positions a pass draws, with what probability: a sample is any set of the right size.
- **The standard library**: `parse`, `to_lowercase` and `SystemTime` are constants or a small function each,
  `IndexMap`, `Mutex` and the sockets are modelled by what the code relies on.
- **Memory.** Lists and maps grow without limit in the code, and there is no action for running out of it.
- **Logging and benchmarks** change no state of the program.

## Plan

Done: every component that changes state, alone (`Server`, `Positions`, `Deserializer`, `Connection`), and together
(`Wire`, `Sessions`), down to the bytes of replies; the repository's tests as a check of the model. Proved: every safety property of
`Server`, `ServerHistory`, `Positions`, `Deserializer`, `Connection` and `Wire` that a run checks, the tests apart, and the refinements of
`LogicalStore` by `Server`, of `Server` by `Positions`, of `Connection` by `Sessions` and `Wire`.

Left:

1. Larger instances of `sessions`, with deadlines: its maps have no object that expires.
2. `Sessions` over the bytes of `Wire` instead of the messages of `Connection`: both sides of it are proved of `Connection`, so it would be
   one instance more.

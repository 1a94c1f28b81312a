# haclog in TLA+

haclog is an asynchronous logging library in C. A log call copies its arguments
into a ring of bytes owned by the calling thread and returns; one backend thread
formats the messages of all threads and gives them to the handlers. This
directory models that path from the format string at a call site to the lines in
the files, model-checks it with TLC and proves the safety properties of every
part with TLAPS.

## 1. The system

| Part | State | Operations | Talks to |
|---|---|---|---|
| bytes buffer (`haclog_bytes_buffer.c`) | `buffer`, `capacity`, `w` (stored by the thread), `r` (stored by the backend) | `new`, `free`, `w_fc`, `w_move`, `r_move`, `join` | shared by one thread and the backend, without a lock |
| serialize (`haclog_vsprintf.c:944-1147`) | a thread-local copy of `r`, the positions of the parts claimed so far | `HACLOG_FETCH_W` for header, constant arguments, strings and a gap; fill the header; publish with one store of `w` | bytes buffer |
| format (`haclog_vsprintf.c:1240-1424`) | the backend's message buffer | wrap `r`, read the header and the arguments, `r_move` | bytes buffer |
| thread context (`haclog_thread_context.c`) | thread-local pointer, `status` | `init`, `cleanup`, `get` with auto-init | context lists, backend |
| context (`haclog_context.c`) | spinlock, add list, list, handlers, minimum level, sizes | insert, remove, add handler, setters | threads, backend |
| backend (`haclog_log.c`) | message buffer, position in the list | take over new contexts, consume, answer removals | everything above, handlers |
| call site (`haclog_log.h`) | static pointer to the parsed format | double-checked creation, level filter | serialize |
| format parser (`haclog_vsprintf.c:1-940`) | the specs of a format | `haclog_printf_primitive_gen` | call site |
| handlers (`handler/`) | level, file, offset, last time | before/write_meta/write/after_write, rotation by size or by time | backend |
| paths and files (`haclog_path.c`, `haclog_os.c`) | the file system | join, normpath, abspath, dirname, basename; create directories, open, rename | handlers, the operating system |
| wrappers (`_thread.c`, `_sleep.c`, `_err.c`, ...) | thread-local error number | system calls | all |

What is hard in it:

* a lock-free ring in which the writer works with a reader position that may be
  arbitrarily old, with messages made of parts that wrap one by one;
* three tests on positions that mean something else at the ends of the buffer
  (exact fit, wrap of the header, `r == w` for "empty");
* a hand-shake with polling on both sides (`join`, `WAIT_REMOVE`, `DONE`) around
  memory that one side frees;
* error paths that reuse the normal cleanup;
* a double-checked lock around a plain pointer;
* a rotation of several renames whose results are ignored, and which the end of
  the process can cut at any point;
* the order of "release the bytes" and "write the line";
* a message described three times: by two loops over its format, by the loop that
  takes its arguments and by the loop that prints them, which share no cursor;
* a filter of levels in two places, one of which knows one level for all handlers;
* a rotation by time that sees the times of several threads out of order;
* directories that several processes create at once.

`PROJECT.json` lists these as hazards, each at its line, with the properties
that cover it.

## 2. Modules

`BytesBuffer` holds the position arithmetic (`w_fc`, `w_move`, `r_move`, the
check of `new`) as operators.

`RingLog` is one thread, the backend and the buffer between them. A byte of the
buffer is abstracted to the call and the part that wrote it; the bytes of a
header hold the header. Each access that the other side can observe is an
action: `SerializeBegin` (reads `w`), `FetchRetry` (reloads `r`), `FetchRefuse`
(the limit of `w_fc`), `FetchHdr`, `FetchConst`, `FetchStr`, `FetchGap` (claim a
part, and copy it), `FillHdr`, `WMove`; `ConsumeBegin` (snapshot of `w`),
`FormatNone`, `FormatBegin` (may store `r = 0`), `FormatRead`, `RMove`,
`HandlersWrite`. `Recreate` is a cleanup followed by a new init of the same
thread: a new buffer, and the old thread-local `r`. The variables `f_r`, `f_w`
are the `r` and `w` of `haclog_printf_primitive_serialize`, `b_w` the `w` of
`haclog_consume`; `calls`, `sent` and `handled` are history.

`LogChannel` is the promise of that path to a thread: calls return, a message is
published or dropped, published messages reach the handlers once and in order.
`RingLog!Channel` maps the ring to it.

`RingLogInv` states the inductive invariant, `RingLogProofs` the theorems.

`Backend` is the life of the thread contexts with any number of threads:
`ContextInit`, `ContextInitFails`, `InsertLock`/`Link`/`Store`/`Unlock`, `Log`,
`Exit`, `Join`, `RemoveMark`, `RemoveWait`, `ContextFree`, and the backend loop
`DrainLock`/`Move`/`Unlock`, `ConsumeBegin`, `Format`, `HandlersWrite`,
`ConsumeEnd`, `ConsumedAll`, `RemoveAnswer`/`Unlink`/`Skip`, `RemovedAll`. A
buffer is reduced to counters of messages published, released and written: what
RingLog establishes for it. A context is a pair of thread and generation, so a
pointer to a freed context is seen as such. `BackendProofs` has the theorems.

`CallSite` is `HACLOG_SERIALIZE` at one place of the program: `Check` (the test
outside the lock), `Lock`, `Recheck`, `Gen`/`GenFails`, `Unlock`, `Use` (the
argument of serialize, read again). The pointer is a plain variable, so the model
keeps for each thread which of the two stores, fields and pointer, it can see.
`See` delivers a store at any time, the two in any order, as nothing orders them
for a reader outside the lock; taking the lock delivers all of them. A use of `NULL` ends the process. Threads call without a
bound. `CallSiteProofs` has the theorems.

`FileRotate` is the file and its numbered backups on disk with the handler that
writes and rotates them. A file is the set of messages in it and its length. A
message is written in one step (`Write`: meta data, text, newline, flush and the
test of the size); rotation takes one step for each system call: `RemoveOldest`,
`RenameNext`/`RenameFails` once per name, `Reopen`/`ReopenFails`. `Crash` ends
the process between any two of them, `CrashInWrite` inside a write with a part of
the line in the file; `HandlerInit` is the next start. `Failing` says which calls
may fail, and `broken` records that a rename did. The size is looked at after the
write, so `max_bytes` is passed by the line that reaches it, and with
`backup_count` 0 there still is one backup, `filepath.1`. Messages logged while no file is open are dropped by the code and are
not counted. `rename` is that of POSIX, which replaces its target.
`FileRotateProofs` has the theorems.

`PrintfSpec` reads one conversion of a format. `haclog_printf_primitive_gen` has two
loops over it, and each is written down on its own: `CountNext` and `CountSpec` are
a round of `haclog_printf_num_params`, `FillNext` and `FillSpec` one of
`haclog_printf_spec_fillup`; they share what the C functions share, the number
(`GetNum`) and the classes of characters. `TypeTable` is the tables of types,
`ParamSize` the bytes of an argument. A format is a sequence of characters;
`InField` keeps of a width what its signed bit-field keeps, `InPos` of a position
what the unsigned one does, so an entry has both where its conversion is (`begin`,
`next`) and what its fields say (`pos_begin`, `pos_end`).

`LogLine` is one call from its format to the text: `CountConv`, `Allocate`,
`FillConv`, `FillEnd`, `SetParamSize` (gen), `SerializeConv`, `CopyStrings`
(serialize), `FormatConv`, `FormatFails`, `FormatWrapped`, `FormatTail` (format),
one conversion or one entry a step, and `NextCall`. `FormatFails` is a conversion for
which `snprintf` returns a negative number, which the code adds to its count;
`FormatWrapped` one whose `pos_end` came round in its field, so that `memcpy` gets a
negative length. Both may lead to `outside`: the code goes on in front of its
buffer, where anything may follow and the model says nothing more of the line.
`counted` keeps where the first loop found the conversions. An
argument is its number in the call, a slot says which conversion and role wrote
it and from which argument, and a byte of the line is a position of the format or
a character of a conversion. The ring between serialize and format is `RingLog`'s
subject; here the slots simply arrive. `LogLineProofs` has the theorems.

`Handlers` is the context and the handlers: `AddHandler`/`AddRefused`, the
setters, `Log` with the filter of the caller, and the backend's loop over the
handlers, in which `BeforeWrite`, `WriteMeta`, `Write` and `AfterWrite` are the
four calls of `haclog_handler_write`. `out` holds the pieces each stream received,
`unflushed` the streams with output in their stdio buffer. Handlers are added and
sizes set before the backend runs, as in the examples and the tests: nothing in
the code protects these fields afterwards. `HandlersProofs` has the theorems.

`TimeRotate` is the files of the handler that rotates by time. Seconds and the
calendar are numbers; `Differ` is the comparison of
`haclog_file_time_rot_handler_detect`, `Handle` a message with its write and its
rotation, `Tick` the clock, `Exit` and `HandlerInit` a restart on the files that
are there. A message is up to `MaxLag` seconds old when it is handled.
`TimeRotateProofs` has the theorems.

`Path` has the functions of `haclog_path.c` as operators that also say how far
they wrote into the caller's buffer, and the meaning of a path to the operating
system (`Place`) to compare them with. `FileOpen` is
`haclog_file_handler_init` in several processes on one file system: `FindDir`,
`Mkdir` once per name, `Fopen`. `FileOpenProofs` has the theorems.

Definitions called `X_Something` are variants of `X` with one mistake in it.
They are not used by any specification; the list `mutants` of `PROJECT.json`
names the property that finds each of them.

## 3. Runs

| Run | Instance | Shows |
|---|---|---|
| `ring` | capacity 16, interval 2, header 2, arguments 0-1, strings 0/2/5/7 (7 is over the limit), 4 calls, fairness | `UnreadIntact`, `DeliveredInOrder`, `EmptyMeansRead`, `ClaimsInBounds`, `WaitIsForReader`, `OnlyOversizedDropped`, and `ImplementsChannel` with its fairness |
| `ring_stuck` | capacities 13 and 14, strings up to 5 | violation: the writer waits on a reader that has nothing to read |
| `backend_safety` | 3 threads, 2 contexts each, a buffer of 2 messages, 2 messages each, all allocations may fail | `NoUseAfterFree`, `Registered`, `ExitDelivers`, `ReleasedThenWritten` |
| `backend_live` | 2 threads, 2 contexts each, a buffer of 1 message, 2 messages each, fairness | `EventuallyWritten`, `CleanupReturns` |
| `backend_init_fails` | the list node cannot be allocated, fairness | violation: `init` never returns |
| `file_rotate` | 3 backups, limit 3, lines of 1 or 2, 10 messages, 2 crashes, every call may fail | `OldestLast`, `NoHole`, `BackupsKept`, `OneLineOver` |
| `call_site` | 3 threads, stores seen in any order, gen may fail, fairness | `GeneratedOnce`, `NullOnlyAfterFailure`, `CallReturns` |
| `site_stale` | the same | violation: a primitive is used whose fields are not seen (`UsesComplete`) |
| `log_line` | all formats of up to 3 of 15 pieces, buffers of 1 and 5 bytes, dynamic values -1/0/2, results of `snprintf` -1/0/2, strings of 0 and 3 characters, one place in the string cache, fields of 4 bits (`FieldHalf` = 8) | `PassesAgree`, `ConstArgsFit`, `SlotsInStep`, `OwnArguments`, `StringsWhole`, `LineIsCutText` |
| `handlers` | 3 handlers for 2 places (colored console, plain console, file), 3 levels, 2 log calls, 2 changes of a level | `DeliveredToEach` for the handlers whose own level is left alone, `LinesWhole` |
| `time_rotate` | all units, `rotate_mod` 1 and 2, every digit of the calendar of radix 2, times 9 to 17, messages up to 3 seconds late, 3 messages, 2 starts, opens may fail | `OneLineAhead`, `FilesInOrder`, `LeftForGood` |
| `file_open` | 2 processes; one opens any of the 364 paths of up to 5 characters of `a`, `.`, `/`, the other one of 6 paths; current directory `/a`; `HACLOG_MAX_PATH` 9 | `OpensWhatIsMeant`, `NoRaceInMkdir`, `OnlyParentsMade`, `PathLaws` |

Bounds. Four calls are enough for a writer to go around the buffer and meet the
reader at every position: messages take 4 to 10 of 16 bytes, so the second
or third call wraps and the fourth finds the reader anywhere. The theorems are
about every capacity and interval.
In `Backend` a buffer of fewer messages than a thread logs makes log calls wait (`backend_live`); three threads
are needed for two inserts to race while the backend takes over a third; two
contexts per thread are needed for a pointer to outlive its context.
`backend_safety` does not check for deadlock: with a dead backend the threads
really stop. Threads are interchangeable in `Backend`, so the safety run uses
symmetry; the runs with liveness do not.
In `FileRotate` a file takes 2 or 3 lines, so 10 messages allow up to five
rotations, two more than there are backups: the oldest is dropped with all names
in use. Two crashes allow one inside the rotation that repairs the other. The
run may stop when the messages are used up. `CallSite` has no bound; its run
stops where a use of `NULL` ends the process.
In `LogLine` three pieces allow a conversion before and after any other, so every
shift of a cursor shows in the next one; the pieces include `%%`, a long double (16
bytes instead of 8), a width whose low four bits are the mark of a dynamic one, a
precision its field holds as a smaller one,
`%lf` (no type), three length characters and a conversion that does not end. A
buffer of 5 bytes cuts a line in a text, in a
conversion or exactly between the two; one of 1 byte has no room at all. A failing
`snprintf` takes one byte off a line that has some, or off an empty one. Fields of
4 bits stand for the 16 of the code: the longest formats have 18 characters, so their
last positions do not fit. `Handlers` has more handlers than places, so
one is refused; two calls are enough for a line of one handler to follow that of
another on the same stream. In `TimeRotate` a minute has
two seconds and so on up to a month of 16; from 9 to 17 several minutes and hours,
a day and the month end, so every field changes and comes round. In `FileOpen` the
longest path that can be opened has 8 characters, which `a/a/b` below `/a` has: two
directories are missing that both processes need. The process may end for good in `time_rotate` and
`file_open`, which do not check for deadlock.

Fairness. A thread inside a call, and the backend inside its loop, keep running
(weak fairness of their steps: both poll, none blocks on anything but the other).
The lock is a test-and-set in a loop with a yield: a thread that finds it free
again and again gets it at some time, hence strong fairness of `InsertLock` and
`DrainLock`, and of `Lock` in `CallSite`. Nothing forces the application to log, to clean up or to make
buffers. `haclog_backend_run` is called.

### Findings

1. `w_fc` limits each part of a message to half of the buffer, not their sum. A
   message that is accepted part by part may need a place that never gets free,
   and the log call spins forever although the reader is idle (`ring_stuck`).
2. An init that cannot allocate its buffer or its list node waits for the backend
   to remove a context the backend has never seen (`backend_init_fails`).
3. The double-checked lock of the call site reads a plain pointer outside the lock.
   The comment calls this safe from C11 on, which orders nothing here: a thread can
   see the pointer and not yet the fields behind it (`site_stale`). Hardware that
   keeps the order of stores, such as x86, hides it.

Deviations without a run of their own. In the first nine the code contradicts a
comment of its headers; a formula states what the comment says, and TLC finds it
violated as soon as it is put into the named configuration. Where a passing property
holds up to the deviation, the property says exactly how far.

| What the code does | What the comment says | Violated | What holds instead |
|---|---|---|---|
| The thread-local `r` of serialize survives its buffer. If the next buffer of the thread is smaller it can lie outside, and the writer then claims bytes outside too. | "contiguous memory for write" (`haclog_bytes_buffer.h:48`) | `ClaimsInBounds` in `Ring.cfg`, with `MayShrink = TRUE`, `WR_MIN_INTERVAL = 1`, `Capacities = {8, 16}`, `ParamSizes = {1}`, `StrSizes = {0, 2, 6}`, 5 calls | `ClaimsInBounds`, while buffers do not shrink: the old value is then harmless |
| `format` adds the result of `snprintf` to its count without a look at it (`FormatFails`). If `snprintf` fails (a width argument near `INT_MAX` is enough) the count may fall below zero, what follows is written in front of the buffer, and the backend takes the negative result for "nothing to format" (`haclog_log.c:67`): the message was released and no handler gets it. | "on failed, return -1 and set haclog last error" (`haclog_vsprintf.h:203-205`) | `CountNotNegative` in `LogLine.cfg` | `TypeOK`: the end of the buffer is not passed all the same |
| A line cut inside a conversion counts the NUL of `snprintf` as its last character, which the file then holds. | "the number of characters printed (exclude '\0')" (`haclog_vsprintf.h:203`) | `NoNulCounted` in `LogLine.cfg` | `LineIsCutText`: the last byte is a NUL exactly when a conversion reaches it, no other byte is |
| `pos_begin` and `pos_end` have 16 bits. From 65536 characters of a format on an entry points elsewhere, or the length of its conversion is negative (`FormatWrapped`). | "range of specifier: [pos_begin, pos_end)" (`haclog_vsprintf.h:28`) | `EntryIsRange` in `LogLine.cfg` | `LineIsCutText`, for formats that are `Short` |
| A constant width or precision whose field has all bits set (65535) is the mark of a dynamic one, and takes an argument. | "otherwise: number width" (`haclog_vsprintf.h:33-36`) | `NumbersAreNumbers` in `LogLine.cfg` | `OwnArguments`, for formats that are `Followed` |
| A conversion without an entry in the tables (`%lf`, `%ls`, `%n`) and a string behind the 128 of the cache leave their argument on the `va_list`; all later conversions get the argument of another one. | `format(printf, 3, 4)` (`haclog_vsprintf.h:175`) | `PrintfArguments` in `LogLine.cfg` | `OwnArguments`, for formats that are `Followed`; `SlotsInStep` for all |
| A string with a precision need not end in a NUL; `serialize` reads the character behind the precision all the same. | `format(printf, 3, 4)` (`haclog_vsprintf.h:175`) | `ReadsInside` in `LogLine.cfg` | `StringsWhole`: one character and no more |
| `haclog_handler_set_level` does not lower `ctx->level`, and a handler whose level is lowered after it was added does not get what it wants. | "min level of handler" (`haclog_context.h:36`) | `WantedPasses` in `Handlers.cfg` | `DeliveredToEach`, for the handlers whose own level is left alone |
| `normpath` of a relative path that ends in `..` writes its NUL one byte behind a buffer of the size it accepts. `abspath` leaves an absolute path of `size - 1` characters without its NUL, and `basename` does so with a path that is one name. `abspath` does not normalize an absolute path. | "the max size of returned path (include '\0')" (`haclog_path.h:29,41,98`), "a normalized absolutized version" (`:25`) | `NormpathFits`, `AbspathEnds`, `AbspathNormal` in `FileOpen.cfg` | `PathLaws`, which has these exceptions and no others |

And further:

* `haclog_bytes_buffer_join` returns before the last message is written, although
  its comment says "wait all cache has been handle";
  `haclog_thread_context_cleanup` is nevertheless right, because the backend
  answers only after it has finished with the context (`ExitDelivers`).
* README.md:94 tells a thread to call `haclog_thread_context_init` at exit, which
  returns at once; with `ExitCall = "init"` in `BackendSafety.cfg` TLC finds
  `ExitDelivers` violated.
* The field of a precision has 16 bits: of a constant precision of 65536 and more
  the low bits are kept, and a string is cut short where C would print it whole
  (TLC finds it when the hypothesis `spec.precision <= 0 \/ ...` of `StringsWhole` is
  taken away).
* A dynamic width or precision that is zero or negative is not passed to
  `snprintf` although the conversion asks for it.
* A pair `%%` is printed as a pair, as `test/log/test_log.c:594` expects.
* In `haclog_path.c`: `..` behind `//` or `/./` takes away only the empty name or the
  dot (`Tidy`); `\` separates on POSIX too, and `/` alone is not absolute. `join`
  reads behind a first path that fills the buffer, and then fails whatever it found.

## 4. Proofs

### The ring

`RingLogProofs` proves, for every set of capacities accepted by `new`, every
positive interval and header size, all argument and string sizes and any number
of calls:

* `TypeCorrect`: `TypeOK`, without further assumption;
* `Invariance`: `IInv`, and from it `PublishedStaysIntact`, `DeliveryInOrder`,
  `EmptyRingIsRead`, `ClaimsStayInBounds`, all for buffers that never shrink
  (the table of section 3 says why);
* `DroppedOnlyWhenOversized`, if in addition the interval itself is under the
  limit of `w_fc` (the smallest buffer the context asks for is a megabyte);
* `WaitingIsForReader`, under `SizesFit`: twice a message with its interval, and
  one interval more, fit into the buffer (finding 1 is why);
* `ImplementsChannelSafety`: each step of `RingLog` is a step of `LogChannel` or
  a stutter.

The argument. Unread messages fill the arc of the ring from the reader to `w`,
each ending where the next one starts (`EndsMeetStarts`, `UnreadInArc`), except
that a header that did not fit before the end is at position 0 (`HdrPlace`). The
call in progress fills an arc that starts at `w`. The writer knows only `f_r`,
so the invariant says what an old value is worth: the reader has since moved
forward and not past `w` (`CachedReader`), and everything claimed lies in the
region that is free for *any* reader between `f_r` and `w` (`Free`, `ClaimEnd`,
`ClaimedHdr`, `ClaimedConst`, `ClaimedStr`). `UnreadIntact` alone is not
inductive: it says nothing of where the claims are, nor of how `w` is related to
the reader. The exact fit at the end of the buffer is the delicate case: there
`ClaimEnd` needs `f_r # 0`, which is the test of `haclog_bytes_buffer.c:94`.

### The call site

`CallSiteProofs` proves for any set of threads `OnePrimitive` and
`NullIsOwnFailure`, with stores that are seen in any order (`UsesComplete` fails
then, see finding 3). The
invariant `SiteInv` adds that the lock is held by exactly the thread between lock
and unlock, that this thread sees everything stored so far, and that `gen` runs
only when there is no primitive.

### The rotation

`FileRotateProofs` proves for any number of backups, messages and crashes:

* `BackupsInOrder`: `OldestLast`, whatever fails. It is inductive once every
  stored message is known to have been written: renaming `i` to `i + 1` never
  jumps over a file;
* `KeptWithoutHole`: `NoHole`, until a rename fails. A rename replaces its target,
  so the invariant must say that the target is free or is the highest number
  (`TargetFree`); what the highest number loses is the oldest, by the order. A
  rename that fails leaves its source in the way of the next one, which may then
  overwrite a backup in the middle;
* `SizeBounded`: `OneLineOver`, until a rename fails. It needs that `offset` is the
  length of the open file and that the file is gone before it is opened again
  (`OffsetIsSize`): `haclog_file_rotate_handler.c:51` sets `offset` to 0 without
  looking.

* `DroppedOnlyWhenFull`: `BackupsKept`, until a rename fails. Counting the files
  at a drop is too late, so the invariant counts at every number: below a number
  in use, and below the highest one once anything was dropped, all are in use but
  one per crash (`FewHoles`) and one more for the gap that a running rotation
  moves down (`Rotating`).

### The thread contexts

`BackendProofs` proves for any number of threads, contexts and messages and
whatever allocations fail, assuming of the threads only that they are finitely
many and that the lock's two other values are none of them: `TypeCorrect`, `BackendUsesLiveContexts`
(`NoUseAfterFree`), `ListedExactlyOnce` (`Registered`), `WrittenAfterRelease`
(`ReleasedThenWritten`), and `CleanupDelivers` (`ExitDelivers`) with
`ExitCall = "cleanup"` as its hypothesis: a thread that exits as `README.md:94`
of the repository says is not waited for.

None of these is inductive. `NoUseAfterFree` needs every entry of the two lists,
not only the current one, to be the living context of its thread (`EntryInv`),
with one exception that the code really has: between its answer and its
unlinking the backend holds an entry whose context may already be freed, and
whose thread may already have the next one (`StaleEntry`). An entry stays alive
only because the thread leaves `wait` on the backend's answer alone
(`LocalInv`), and entries are distinct only if the store of an insert still finds
the list it read (`LockInv`, `OnceInv`). `ExitDelivers` needs two more facts: what
is released is written before the backend looks at a removal (`CountInv`), and a
thread past `join` has nothing unread (`ExitInv`).

### One call

`LogLineProofs` proves for every set of formats (sequences of characters), every
result of `snprintf`, every width of the fields, every size of the message buffer and
of the string cache:

* `TypeCorrect`: among others, that the line and its NUL never pass the end of the
  message buffer, also when `snprintf` fails (it may pass the beginning then, see section 3);
* `ReadersAgree` (`PassesAgree`): the two loops of `gen` find the same conversions;
* `ArgumentsFit` (`ConstArgsFit`) and `SlotsTaken` (`SlotsInStep`);
* `LineCut` (`LineIsCutText`), for formats that are `Short` and calls in which
  `snprintf` neither lacked an argument nor failed;
* `OwnArgumentsTaken` (`OwnArguments`) and `StringsCopiedWhole` (`StringsWhole`).

The invariant `IInv` has four parts. `ReadInv`: the loops of `gen` stay inside the
format and the entries follow one another; for this the search
for the next conversion, a recursive function in the model, is shown to exist and
to lead forward. `Traced`: what `num_params` went over are the positions the entries
were filled from; that the searches of the two loops find the same position
(`SameSearch`), and their rounds the same end and the same errors (`CountParts`,
`FillParts`, `SpecFacts`), are lemmas of their own. `Cut`: while `Short` holds and
nothing was misread, the line is the text of an unbounded buffer cut at the end
of the message buffer, kept by every piece of text and every conversion; and in any
case it does not pass that end.
`Layout`: serialize and format advance by the same offsets, which are sums over
the same entries, and these never pass the sum `param_size` was set to.

The last two theorems compare serialize with the rules of C, and need a second
invariant on top, `CallInv` (`ArgumentsInvariance`): while `Followed` holds, each
entry has what the characters of its conversion say, so it takes as many
arguments as the conversion has stars and one more, and the cursor in the
`va_list` is the sum of these over the entries before. `OwnArguments` alone says
where the slots got their arguments, not where the cursor is when the next entry
is reached; nor does it relate an entry to its conversion, which only the step
that fills it can.

### The handlers

`HandlersProofs` proves for any handlers, places, levels, log calls and changes of
levels `EachGetsItsMessages` (`DeliveredToEach`), which is about the handlers whose own
level is left alone once they are added, whatever is done to the others (section 3 has
the rest), and `StreamsShowWholeLines` (`LinesWhole`).

`DeliveredToEach` compares the calls with what was written; between the two are
the queue and the place in the loop over the handlers. `DeliveryInv` says that the
queue has the calls in order, that the message at its head was written only to
handlers before `hi` (`Past`), and that the common level is not above the level of
a handler that was left alone (`Loop`): this is the conjunct that lowering a level
later breaks. For the streams, `Streamed` says what is on each of them in the
middle of a line: the whole lines and, on the stream the current handler chose,
the parts its calls have written so far, in that one unflushed. The whole lines
are a recursive function of the journal, so the proof goes through `Joins`.

### The rotation by time

`TimeRotateProofs` proves for every radix of the calendar, every `rotate_mod` and
any lag: `AtMostOneLineAhead` (`OneLineAhead`), `FilesLeftForGood` (`LeftForGood`)
and `ReadInOrder` (`FilesInOrder`).

`OneLineAhead` does not say which file is open. The invariant adds that the open
file has the latest name and stands for the period of `last_sec`, with no line
ahead of it (`OpenIsLatest`), and that no name and no line is later than
`last_sec` (`NoneLater`): so a late message cannot open an older file and a
restart cannot go back. The rest is arithmetic on nested divisions: periods are
compared field by field in the code (`Differ`) and grow with the time. For
`FilesInOrder`, a line is added to the file that is read last, and opening a file
adds nothing to what is read (`ReadWritten`, `ReadOpened`).

### Opening a file

`FileOpenProofs` proves for any number of handlers, any paths and any size of the
buffers `MeantFileOpened` (`OpensWhatIsMeant`), `NoRaces` (`NoRaceInMkdir`),
`ParentsOnly` (`OnlyParentsMade`) and `PathsLawful` (`PathLaws`). The assumption `OpenAssumption` is that paths
have no NUL inside, no `\` and no `:`, which `haclog_path.c` reads as a separator or
a drive on POSIX too, and that the current directory is absolute and as `getcwd`
returns it (no empty name, no `.`; it may be `/`).

The first part is about characters and names. `Names` and `Walk` are recursive
functions, shown to exist and then related to the text: texts that agree up to a
position have the same names there (`SameStart`), the names of a text continued
behind a `/` are those before it followed by the new ones (`NamesBehind`), and so
are the places (`WalkFollows`). From these, `AbsPath` leads where the path means
(`AbsFacts`), every cut `mkdir` makes is a place on the way (`PartFacts`), and the
directory `dirname` returns is the last of them but one, or the way itself when
the path ends in a `/` (`DirFacts`).

The second part is the invariant `IInv`. `Stage` says of each handler how far it
has come: in the loop of `mkdir` the part before `k` has been made or was there, if
only as a file of another handler; at `open` that holds of the whole directory. It
is needed because `NoRaceInMkdir` looks at a handler only when it has failed: what
makes it fail is a place on its way that is a file, which must then have been
opened by another handler (`Opened`), or a file name that is a directory, which
`OnlyParentsMade` traces to another's path. A step of one handler leaves the stage
of the others alone, since places are only ever added (`StageGrows`, `Frame`).

The third part is the path functions with the exceptions they really have: `PathLaws`
says that `normpath` stays in its buffer but for one byte when a relative path ends in
`..`, that `abspath` and `basename` leave out the NUL exactly when they copy a path that
fills the buffer, and that `abspath` gives an absolute path back as it is.
The loop of `normpath` has rounds of three kinds
(`RoundCases`): a character is copied, a `..` is kept, or a `..` takes a name away.
Three invariants of its state are carried through it (`RunKeeps`). On any path what
is written gets ahead of what is read only by the NUL of a `..` at the end (`Near`).
On an absolute
path no `..` is ever kept, so what is written never gets ahead of what is read
(`Inside`), the result ends in the buffer and has no `..`. On a tidy path what is kept and what
has been read are equal behind their last `/` and lead to the same place before it
(`TidyAt`); a name that is taken away is then no `.` and no `..`, and the path goes
back by just that step (`PopTidy`). That is where tidiness is needed: of `a/./..`
the code takes away the `.`. `join`, `dirname`, `basename` and `abspath` follow from
these and from the places of a path that grows by a name (`NameOn`).

### Only model-checked

* Liveness under fairness (`ImplementsChannel` with its fairness,
  `EventuallyWritten`, `CleanupReturns`, `CallReturns`), which the prover does not
  handle. Every invariant and every action property of the passing runs is stated
  by a theorem.

The library's induction theorems take an operator as a parameter, which the
provers cannot instantiate. The lemmas `LeastNat` and `NatInSet`, with which four of
the proof modules begin, derive from the well-foundedness of the naturals an
induction on membership in a set, which they can: that is how the recursive
functions of `LogLine`, `Handlers`, `TimeRotate` and `Path` are reasoned about.

## 5. Not modelled

* Weak memory, except in `CallSite`. The steps of the other models are
  sequentially consistent. `w` is stored
  with release and loaded with acquire, which is what publishing needs; `r` and
  `status` are relaxed, which is not covered.
* What `snprintf` prints: a conversion is a number of characters or a failure.
  `RingLog` and `Backend` take the result of `format` as not negative, so the message
  that a failing `snprintf` loses is seen in `LogLine` alone. What follows a write in front of
  the buffer. The text of a conversion longer than `HACLOG_MAX_FMT_ITEM` (128), which
  is cut before it is passed to `snprintf`. A constant width so large that the `int` of
  `haclog_printf_get_num` overflows (`InField` takes the low bits, as two's
  complement does). Strings that do not end in a NUL, except that `CharsRead` says how far
  `serialize` reads. The values of arguments other than widths, precisions and lengths.
* Local time in the rotation by time, where an hour may come twice, and a clock
  that is set back.
* A program that adds handlers or sets sizes while the backend runs.
* `haclog_printf_primitive_show`, which prints a primitive.
* Failing writes (a full disk): `fwrite` is taken to write all it is given.
* `rename` on Windows, which does not replace its target.
* The Windows branches, and wrappers without state: threads, sleep, the
  thread-local error number, stack traces, `gmtime` for Windows, `chdir`, `rmdir`.

## 6. Plan

Done: all modules of section 2, and the theorems of section 4. Left: a variant of
`RingLog` in which relaxed stores of `r` may overtake the reads of the backend; a
composition of `RingLog` and `Backend` that replaces the counters by the ring.

# sweet.hpp in TLA+

sweet.hpp is a collection of C++ headers. Most are small sequential data
structures; a few start threads, fork processes or run an event loop, and the
largest, recde, generates parsers. This directory models the parts that keep state
or calculate, checks them with TLC on small
instances and proves with TLAPS, for every size, what most of them promise.
`PROJECT.json` lists components, runs, mutants, the lines each definition stands
for, findings, hazards and theorems; file names in modules and below are
relative to the repository's root.

## The system's parts

| part | state | operations | what is hard | what makes it correct |
|---|---|---|---|---|
| `semaphore.hpp` | mutex, condition variable, count | notify, wait | lost and spurious wake-ups, a third thread that takes the permit | a thread sleeps only while there is no permit for it |
| `log.hpp` | deque and its mutex, a Semaphore, terminate, output, level; a writer thread | log, setOutput, endLogger, destructor | shutdown beside producers and writer; level and stream changed while in use | every line leaves once, in order; the destructor returns |
| `death.hpp` | the process and a forked child, stopped or running; the options | SignalHandler, safe_abort | signals between two processes, several crashing threads, fork failing | a trace before the end; a frozen process goes on |
| `marble` server | per connection: socket, the operation in progress, timers, request; the io_service's queue and threads | the asynchronous handlers | completion against timeout, several threads, objects captured by handlers | a stalled client loses its connection, an active one is timed for its own request only |
| `marble` client | one kept socket, socket_error | connect, request | the server closes between requests; framing | the reply belongs to the request |
| `parallelalgo.hpp` | slices, shared result, flag, mutex | for_each, transform, find_if, find, mapReduce | division remainders, racing writes of the result | all elements, each once; a match if there is one |
| `cache.hpp` | LRU list, map of iterators, count of bytes | insert, erase, find | keys inserted again, eviction, saveFunc throwing | list and map agree, LRU order |
| `fector.hpp`, `fap.hpp` | array of fixed capacity and index | vector and sorted map operations | the last position, erase past the end | a bounded sequence, a map |
| `bllocator.hpp`, `allocator.hpp` | array and index, free lists, tables | allocate, deallocate | blocks back in another order, full array | no byte handed out twice |
| `combinations.hpp` | the current combination | next | bounds of each place | all, once, in order |
| `sweetqlimpl/sqliteimpl.hpp`, `sweetql.hpp` | connection, statements, transaction | insert of a row and of a range, remove, select iterators, createTable, dropTable, transactions | a row that fails in a range, statements left behind, results nobody looks at, a restart | a table holds what the returned calls have put there |
| `int128.hpp`, `fixed.hpp`, `decimal.hpp` | one number | arithmetic, comparison, conversion, text | carries between halves, borrows, the highest numbers | the result is that of the integers, where it fits |
| `bitset.hpp`, `bitvector.hpp` | a store | set, reset, flip, shift, test, count | a bit shifted as an int; an index one too large | the bits that were asked for |
| `sjson.hpp` | a line and an index; a tree | parse, print, access by path | the end of line and file, comments, goto loops | what was written is read |
| `recde` generator | tables of rules, tries, text written | first sets, parser, classes, visitors | the order of a hash table, prefixes, constructors shared | the parser accepts the sentences of its grammar, and its output compiles |
| `recde/stuff` lexer | line, index, characters pushed back | nextToken | what has been read ahead belongs to the next token | tokens are the words of the text |
| `unit.hpp`, `benchmark.hpp`, `dbc.hpp` | registries and counters | run tests, count time | exceptions in rounds, reports beside counting threads | no count lost |
| `options.hpp`, `getopts.hpp`, `nanoxml.hpp`, `base64.hpp`, `conv.hpp`, `format.hpp` | a position in a text | parse, convert | the end of the input | no read past the end |
| `amber`, scripts | none | translate text to C++ text | | |

Who uses whom: `log.hpp` counts payloads with `semaphore.hpp` and calls the
system's threads; `fap.hpp` stores its pairs in `fector.hpp`; the allocators of
`bllocator.hpp` nest; marble's handlers meet in the io_service's queue; the
generator of recde keeps the alternatives of a rule in a `trie.hpp`, and what it
writes is a parser that takes tokens from a lexer like the one in `recde/stuff`;
`benchmark.hpp` holds its ticks in `int128.hpp`. The others stand alone.

## Modules

| module | models | built from |
|---|---|---|
| AbstractSemaphore | a counting semaphore as its callers see it | |
| Semaphore | `semaphore.hpp`: every lock, test, update, wake-up and unlock | implements AbstractSemaphore |
| AbstractLogger | one queue between callers and the stream | |
| LoggerDrain | `log.hpp`: producers, writer, owner | takes the semaphore as AbstractSemaphore promises it; implements AbstractLogger |
| DeathHandler | `death.hpp`: handlers, children, stop and continue | |
| HttpSession | one connection of `server_http.hpp` / `server_https.hpp` | |
| HttpClient | `client_http.hpp`: one client and its connection, any server | |
| ParallelForEach, ParallelFind, MapReduce | `parallelalgo.hpp` | |
| AbstractCache, Cache | `cache.hpp` | Cache implements AbstractCache while no key is inserted twice |
| AbstractVector, Fector | `fector.hpp` | Fector implements AbstractVector |
| AbstractMap, Fap | `fap.hpp` | uses Fector as `Store`; implements AbstractMap |
| AbstractAllocator, Bllocator | `bllocator.hpp`, three allocators nested | implements AbstractAllocator |
| Combinations | `combinations.hpp` | |
| FirstSets | computeFirstSet() of `recde/recdec.cpp`, entry by entry | |
| RecurDec | what is generated from a grammar: tries, parse functions, classes, visitors, as sets of what is declared and defined | reads FirstSets' result |
| GeneratedParser | the generated parser at work, one token at a time | runs what RecurDec has written |
| Lexer | `recde/stuff/lexer.cpp`, `numberconv.cpp` | |
| JsonReader | `sjson.hpp` | |
| Int128, Fixed, Decimal | `int128.hpp`, `fixed.hpp`, `decimal.hpp` | |
| Bits | `bitset.hpp`, `bitvector.hpp` | |
| Sqlite | `sweetqlimpl/sqliteimpl.hpp`, and SQLite itself as far as it is met there | |

`MC<module>.tla` instantiates a module for TLC. MCParallelalgo joins the three
modules of `parallelalgo.hpp`; MCSequential the containers, the allocators, the
bit containers, the SQLite binding and marble's client, with the refinement
mappings to AbstractVector, AbstractMap, AbstractCache and AbstractAllocator;
MCLibrary extends it by the JSON reader and the numbers, whose modules have
RECURSIVE operators; MCRecurDec joins the generator, its parser and the lexer.
Each behaviour is one of a single part, chosen in the initial state, and a
property says of which it speaks. The runs fector_full and cache_asserts take
Fector and Cache as they are.

`<module>Proofs.tla` holds the theorems about a module: SemaphoreProofs,
LoggerDrainProofs, DeathHandlerProofs, HttpSessionProofs,
GeneratorProofs about FirstSets, RecurDec and GeneratedParser, and
ParallelalgoProofs about MCParallelalgo. Those about MCSequential are in
SequentialProofs (cache, allocators, bits, SQLite, Combinations, and the lemmas on
numbers and sequences) and ContainerProofs, which extends it (Fector, Fap, client). Operators
named `Mut...` are plausible mistakes in a definition; each property has one or
more it is violated by, listed under "mutants".

How state and actions correspond to code:

* **Semaphore**: `mtx`, `cv` (the blocked threads) and `count` are the members,
  `pc` is where each thread is. `WaitBlock` gives up the mutex and blocks in one
  step, as a condition variable does. notify_one wakes any blocked thread;
  `SpuriousWake` wakes one without a notification.
* **LoggerDrain**: one action per statement that shares something. A message is
  a record of its author, its number, level and whether its text was formatted
  (LoggerSource reads the level once, when built). `permits` is consumerSem.
  The first test of `terminate` leaves the loop with the mutex held, as in the
  code. The owner may call endLogger() while producers log; `late` are the
  messages pushed when terminate was set already. `logLevel` is a public member
  and takes any value at any time (`SetLogLevel`); `lowered` are the messages
  that were under way when it was lowered to them or past them.
* **DeathHandler**: `proc` is running, stopped or gone; `hpc[t]` the handler of
  thread t in the parent, `child[t]` the process it forked. SIGCONT to a
  running process is lost. The four ways to exit are one. The variables
  `thread_safe` and `faults` are chosen at the start: with faults fork() may
  fail and a child may be killed while it prints. `own` are children the
  program has forked itself, which end at any time: when a fork of the handler
  has failed, waitpid(-1) reaps one of those or waits for it.
* **HttpSession**: `op` is the one asynchronous operation in progress, `pending`
  whether it has not completed, `queue` the handlers ready to run; with k
  threads any of the first k may run next. A timer that expired before it was
  cancelled has its handler in the queue, and may close the socket under the
  next operation. Exceptions leave run(): `server` becomes "threw". `config`
  is how the server was made: HTTP or HTTPS, and which timeouts are 0. With a
  timeout_request of 0 and a timeout_content the code cancels a timer that was
  never made: `server` becomes "crashed". A user's callback may throw, which
  leaves run() too.
* **HttpClient**: `wire` is what the server sent and nobody has read, `buffer` the
  response's content_buffer; a read takes any part of what has arrived, and
  waits when there is too little. `Connect` is the beginning of request() up to
  connect(), which is where a request that failed before gets a new connection.
  The server closes its end between any two steps, with any part of a reply
  sent. After a reply that sends more than it says the stream cannot be read
  any more, and the model stops behind the first request that shows it.
* **ParallelForEach/ParallelFind/MapReduce**: `StartThread` is one turn of the
  caller's loop; threads run between turns. In ParallelFind two threads that
  write the result at once leave either value.
* **Cache**: a list entry has an id that stands for the iterator the map keeps.
  `aborted` means an assertion failed. `reinserts` says whether the caller
  inserts keys that are there already.
* **Fector**: the array has one position more than its capacity, so that a write
  behind the end is seen; idx counts modulo `IdxRange`, as 16 bits do. A call that
  writes or reads outside of the array (insert() when full, insert(end())) sets
  `outside` and ends the behaviour. AbstractVector has one action per operation
  with its position and count, and the refinement holds name by name
  (`VectorOperations`), beside that of the whole. Its Erase says what the code
  does with more elements than follow the position: the last ones go, those in
  front of it included.
* **Fap** runs on Fector's own actions. Its find() is the code's, whose second
  test never fails behind lower_bound: of a key that is not there it gives the next
  larger pair. AbstractMap's Erase says so too. erase(key) of the code does
  not compile, because its iterator has a constant key, and is modelled as its lines
  read.
* **Bllocator**: addresses are offsets; malloc() returns a region of its own.
  `freeDeque` says whether a FreeDequeAllocator is around the array. The sum of
  index and request is one of size_t, modulo `SizeRange`.
* **Combinations**: `curr` has the position R that the loop also writes.
* **FirstSets/RecurDec/GeneratedParser**: `entries` is the order in which the
  hash table hands out the rules, `first` the sets found so far; `VisitEntry` is
  one turn of the inner loop and `EndPass` the end of the outer one's. `code` is
  what has been written: for each rule a trie with its branches and errors, for
  each class its members, constructors and enumeration, for each visitor what is
  declared and defined. `stack` holds the parse functions that run, each with
  its place in the trie and the values it has stored. Text is left out; whether
  it compiles is whether what is defined is declared, once, and what is called
  exists.
  A rule whose first set is empty gets a look ahead test without a value
  (`Compiles`).
* **Lexer**: `lexer` has the members: the lines, the rest of the buffer, the
  characters pushed back, curInput and readNext. `NextToken` is one call; the
  branches are operators in the order of the code. A text whose last line ends
  with a newline has one more empty line, which getLine() reads before it sees eof.
* **JsonReader**: the recursion of the code is the stack `open`; each step is
  one turn of the loops of parseObject() and parseArray(). A goto that repeats
  for ever ends the behaviour as "endless". What a file means is known from how
  it was put together; `plain` are the files without what the reader gets wrong,
  and `commented` those with comments and nothing else of that.
* **Int128**: one step takes an operand and applies one operator. A half has W
  bits, so that all carries, borrows and boundaries of 2 * W bits appear.
* **Fixed/Decimal**: `exact` is what the number stands for, {} where the code
  gives up exactness (products, borrows). A whole number taken off a Decimal
  leaves the fraction alone, also one below zero.
* **Bits**: a number is a set of bits. An int has `IntBits`, the stores have less
  and more; `bits` is what has been asked for, bit by bit, and `spoilt` the bits
  that a call for another one may have changed: all above the sign of a shorter int,
  those that an index beyond the int reaches, the whole set when a Reference is
  assigned, what unset() hits behind threeTwo. A bit is spoilt until it is
  written again, and the others are still promised.
* **Sqlite**: `rows` is what the connection sees, `durable` what the file holds,
  `others` what connections hold that sqlite3_close() could not close because a
  statement was left behind (`leaks`). `batch` is an insert of a range in
  progress. `now` and `told` are what the program knows of the table by the
  calls that returned, with and without its own transaction; `plain` becomes
  FALSE at each of the errors the binding cannot cope with, and the behaviour
  ends there. `Restart` ends the process at any step. CreateTable fails where
  another connection's lock refuses the write, and throws.

## Runs

| run | instance | shows |
|---|---|---|
| semaphore | 4 threads, counts from -1 to 1 at first, at most 3 | no wake-up is lost (NoLostWakeup), no permit is taken that is not there, and the class implements the counting semaphore, progress included (ImplementsSemaphore) |
| logger | 2 producers with 2 messages and 1, levels 1 and 2 raised and lowered at any time, one stream, endLogger() perhaps called before the destructor and while they log | no front of an empty deque (NoEmptyFront); no line without text but of messages that the level was lowered to while they were under way (NoBlankLines); when the destructor returns nothing is left but what came after endLogger() (NothingLostAtJoin), and it returns (DestructorReturns); what was queued before is written or discarded (QueuedAtEndIsEmitted); one queue (ImplementsLogger) |
| death | 3 threads, with and without thread_safe and faults, and with two children of the program's own | a trace (or a failed fork) precedes the exit; a stopped process whose child prints goes on; without thread_safe a crash ends the process |
| death_frozen | 2 threads, **violated** | SIGCONT before SIGSTOP freezes the process for ever |
| http | HTTP and HTTPS, either timeout 0 or not, 2 threads, 3 requests | one handler per operation; a client that stalls in the handshake, the header or the response loses its connection; the chain ends once a timer has closed the socket (ConnectionEnds) |
| http_content | **violated** | the read of the content has no timer |
| parallel | for_each and transform: 0 to 7 elements, 1 to 4 threads; find_if: every set of matches in 0 to 5 elements, 1 to 3 threads; mapReduce: 0 to 5 elements, 1 to 3 threads and one for the rest | no element is shared, and the range is covered exactly when the division says so (EachElementOnce); a match before the last elements is reported and is the first of its slice (HitIsReported); each result once, slices together (SlicesTogether); every call returns |
| library: containers | Fector of 4 places; Fap of 4 keys in 3 places; Cache of 3 keys, sizes 1 and 2, 4 bytes, 4 insertions; Combinations to N = 6, R = 5; 5 bytes with and without FreeDeque, requests of 1 to 3, 2 regions of malloc() | each operation does to the sequence of elements what the one of its name does (ImplementsVector); to the map too, and find() gives the first key that is not less (ImplementsMap); no dangling iterator, every entry once, bytes never undercounted (CacheIsCoherent), LRU order (ImplementsCache); every combination once and in order (HandsOutAll); no byte handed out twice, blocks go back to where they are from (ImplementsAllocator) |
| library: JSON | some 4,000 files of objects with one or two members, nested and with arrays, seven kinds of values, six kinds of gaps, comments among them, with and without an end of the last line | a plain file is read to its tree, and so is what the tree is printed as if it has no null; a file that is not plain is read to its tree only if the reader had looked behind its end by then (ReadIffPlain) |
| library: numbers | every 8 bit number with 27 operands for Int128; 6 bits for Fixed; quarters for Decimal | the integers' results, where they fit (NumbersAreExact) |
| library: bits | stores of 3, 4 and 5 bits with an int of 4; BitVector with 2 bits in front; indices to 5 | every bit that no call for another one has spoilt is as it was asked for (BitsAreAskedFor) |
| library: SQLite | 2 keys, 2 values of which one is longer than an int, ranges of 2 rows | after any calls, failures and restarts the table is what the calls that returned made of it (RowsAreKept); a loop is handed every row once (EveryRowIsHandedOut) |
| library: HTTP client | 2 requests; contents and chunks of up to 2 bytes; lengths that are right, too long, too short or no number, chunks, or neither header | what request() returns is the whole reply to that request, whatever went wrong with the one before, unless a reply sends more than it says (ReplyIsToItsRequest) |
| generator: parser | grammars of two rules with up to two alternatives, in both orders of the hash table; alternatives with store names that agree or not; inputs of up to 3 tokens; depth 8 | the first sets are the least fixed point (FirstSetsAreLeast); what is generated fits together (GeneratedCodeFits); what is accepted is a sentence, and its tree keeps its values (AcceptedIsDerived); sentences of LL(1) grammars are accepted (SentencesAreAccepted); no sentence of that length needs a deeper derivation (TypeOK) |
| generator: lexer | texts of up to 3 of 23 lexemes that begin like each other, with and without a gap, in one or two lines, the last one ended or not | tokens are the words that were written (ReadAsWritten) |
| cache_asserts | **violated** | a key inserted twice breaks the assertions of the code |
| fector_full | **violated** | insert() into a full array writes behind it |
| json_comments | **violated** | a comment that is closed in its line is not read over |

### Bounds

The numbers of threads are the least at which the third-party cases arise: a
waiter, a notifier and a thief of the permit (semaphore; the fourth lets two
waiters be blocked at once), two producers and the writer,
two crashing threads and a third that arrives when the process has been resumed.
`MaxCount`, `MaxLog`, `MaxEnd`, `MaxRequests`, `MaxCalls`, `MaxContent`, `MaxInserts`, `MaxFixed`,
`MaxKey`, `MaxBatch`, `MaxItems` and `MaxDepth` cap counters that
have no bound in the code; each is in the guard of one action. Two requests let
a timer outlive its request, three leave one after that; two of the
client's are one that fails and the one that must not read what it left. Lengths of ranges and
numbers of threads in `parallelalgo.hpp` cover even, odd, too short and not
divisible. Four insertions over three keys of sizes 1 and 2 in a cache of 4
bytes reach both eviction and a key inserted twice. Fector's capacity of 4 has a
position before, at and behind the one inserted at; `IdxRange` 8 lies above it,
as 2^16 does above the capacities taken. `SizeRange` 9 is above the 5 bytes and
the largest request together. An array of 5 bytes and
requests to 3 leave both a hole and a rest.

Halves of 4 bits keep the two words of 2 bits that the multiplication splits
them into; the 27 operands are those at the ends of words and halves with some
between. An int of 4 bits beside stores of 3, 4 and 5 bits shows the shift that
is too narrow, fits, and is too wide. Two rows are enough for a key that is taken,
one SQLite chooses, and a range that fails behind its first row. The grammars
are those in which alternatives are prefixes of one another, begin with the same
rule, or recur; two rules are enough for a rule that begins with another which
comes later in the table.

`CHECK_DEADLOCK FALSE` stands where the system may stop: callers that never
call again, a process that has ended, a call that has returned.

### Fairness

* Semaphore: a running thread goes on (WF), and a thread that competes for the
  mutex for ever gets it (SF on the lock): the system's mutexes hand over to
  waiting threads in the long run. No thread must make a call, and no spurious
  wake-up must come.
* LoggerDrain: WF of each thread. Each behaviour has finitely many calls, so the
  mutex is free in the end for whoever waits.
* DeathHandler: WF of each handler and each child; the kernel runs what is not
  stopped. Nothing must crash.
* HttpSession: WF of running queued handlers (io_service threads are in run())
  and of the clock. Neither the network nor the client must do anything.
* Parallel algorithms: the caller and every thread run on. The sequential parts
  have no liveness property.

## Findings

1. `death.hpp:404`: the child's SIGCONT may precede the parent's SIGSTOP; the
   parent then stays frozen, against the comment at line 403 (death_frozen).
2. `marble/src/server_http.hpp:153`: the read of the content is not timed. The
   timer made for it at line 144 dies with the handler, against the comment at
   line 142 (http_content).
3. `cache.hpp:147`: a key inserted twice breaks the assertions at 141 and 175
   (cache_asserts).
4. `fector.hpp:230`: insert() accepts a full array and writes behind it
   (fector_full).
5. `sjson.hpp:532`: a comment closed in its line is not read over: the reader
   stays on the '%' that closes it. `src/README.md:166` promises comments
   (json_comments). Those from '#' to the end of the line are read over,
   except behind a word without quotes or as a last line without a newline.

More facts follow from the models without contradicting a document, and
are no findings; a comment at each property names the cases it leaves out for
them. `for_each` and `transform` cover the range only for lengths and
numbers of threads that fit, and `find_if` starts no thread for the remainder:
EachElementOnce and HitIsReported state exactly when. A timer of the server that
has expired just before it is cancelled still runs, and shuts the connection
down while the next request is read. After an early endLogger() the writer may
leave with `dequeMutex` locked, and log() blocks from then on. The generator
writes two alternatives with the same types as one constructor, which stores
under the names of the first, and a rule that is not stored as one token to pass
over; of an empty first set it writes `return}`, which does not compile.
A Fap's find() of a key that is not there gives the next larger pair, and erase(key)
would take that away, if it compiled. A Fector's erase() of more elements than
follow the position takes elements in front of it, its insert(end()) runs off the array
unless it is empty, and its idx has 16 bits. A line is written without text when
the level is lowered while a message is under way. The lexer takes the stop and the next word into an identifier that ends
where a keyword could go on. A JSON word is read as a later "false" or "true" of
its line, null is printed as nothing, and a last line that is a comment is read for ever. The division of
the lowest 128 bit number, negative doubles, products of Fixed numbers and
borrows of Decimal ones are wrong. A bulk insert that fails, or is made in a
transaction, leaves a transaction the program does not know of; COMMIT's and
DROP's failures go unseen; createTable()'s statement keeps the connection open.

## Proofs

TLC evaluates each module's ASSUME in the passing runs; the proofs use these
assumptions and nothing else. Each theorem speaks of the specification TLC runs,
or of its safety part.

* **SemaphoreProofs**, from `SemaphoreAssumption` (a finite set of threads, a
  value that is none, initial counts that are integers), for any number of
  threads and any count: `TypeCorrect`, `NoWakeupIsLost`, `PermitIsInHand`,
  `Refinement`. The type invariant says which program points hold the mutex and
  which threads are in the wait set. NoLostWakeup is not inductive without it:
  the count of permits is compared with the threads awake and the notifications
  counted but not announced, and an action moves at most one thread between
  these sets. The proof bounds the cardinalities by that step. PermitInHand is
  inductive with the type invariant: whoever changes the count holds the mutex.
  Refinement maps the initial state and each step to AbstractSemaphore.
* **LoggerDrainProofs**, for any set of producers: `TypeCorrect`,
  `NoFrontOfEmpty`, `NothingIsLost`, `WrittenHasText`, `Refinement`. The
  invariant of the second adds PermitsMatch: payloads in the deque and permits
  differ by what the writer has taken and the producer that holds the mutex owes,
  and by the owner's one once terminate is set. NothingIsLost adds that
  what is in the deque once the writer has left, or is about to, came after terminate was set. WrittenHasText allows any change of the level at
  any time; its invariant says that every message on its way, at a producer, in the
  deque or with the writer, has its text, or a level that the filter stops now, or is
  one that the level was lowered to meanwhile. Refinement shows each step of
  producers, writer and owner to be a step of AbstractLogger or none.
* **DeathHandlerProofs**, from no assumption, for any set of threads, with
  faults and without: `TypeCorrect` and `TracePrecedesExit`, with an
  invariant that relates where handlers are to whether a child is done.
* **HttpSessionProofs**, for any number of requests and of threads:
  `TypeCorrect`. Its TypeOK says more than types: the queue holds exactly one
  handler of the operation in progress once that has completed, and none but
  timers' otherwise. Any of the first handlers may be the next to run, so the
  lemmas say what taking one out of the middle and adding one at the end does to
  "exactly one". The invariant adds that a header that has
  arrived is in the queue only while a request of that number may be answered.
* **ParallelalgoProofs**, for ranges of any length and any number of threads:
  `TypeCorrect`, `EachOnce`, `HitReported`, `ResultsTogether`. The division into
  slices is linear arithmetic with one product; it is done once, in lemmas. For
  for_each the invariant gives each thread its slice as a function of its number
  and says that an element has been visited by the threads whose slice it is in
  and that have passed it. For find_if every thread has passed no match, or its
  result is the first match of some slice; `die` implies a result. For mapReduce
  the output is cut at the boundaries of slices, and whoever copies holds the
  mutex.
* **GeneratorProofs**, from `NamesAssumption` and `NumbersAssumption` (names are
  positive numbers, in the order of the strings, and no rule is a token) and
  `InputsAssumption` (inputs are sequences of tokens): for every grammar, left
  recursive or not, every order of the hash table, start rule and input.
  *First sets*, `LeastSets`: that a set has no token too many is kept by
  every turn (Sound). That none is missing is due to the last pass, in which no
  turn has reported a change. A turn that adds to a set that exists reports
  none, so a second fact is needed: from the first pass on, which does report a
  change when it makes its first set, each alternative's own token is in. The
  least family is the intersection of all closed ones; no induction over
  derivations is used.
  *Code*, `CodeFits`: the invariant (GeneratorInv) says that what has been written
  of each rule is what its alternatives call for and that what is declared and
  defined has no second copy, rule after rule. A node of a trie begins an
  alternative; where names agree, what is stored on the way to the node is what
  that alternative stores, so the call the parser makes has a constructor though
  the generator drops alternatives that look the same. What it keeps of them
  (Minimized) is a fold, shown to leave one of each kind. That the look ahead test has a
  token is said of rules that some token can begin in every closed family.
  *What is accepted*, `SentencesOnly`: the invariant (ParserInv) says that each
  function that runs has taken a piece of the input, that the pieces join to
  what has been consumed, and that each is derived from the names on the way to
  the function's node, without the last one where it waits for a callee; its
  arguments are those of the stored parts on that way.
  *What is not refused*, `SentencesTaken`: the invariant adds (SentenceInv) that
  for a sentence there is a place where each function will end, and up to there
  what is left of one of its alternatives. A piece of a rule begins with a token
  of its first set, which is closed by LeastSets' invariant; the token behind it
  is in Follow. With LL1 only one branch can have that token, and it is the one
  the alternative takes. A refusal lists names none of which begins with the token.
  Both say `DepthSuffices => ...`: Language collects derivations up to a depth of
  MaxDepth, and they compare with the language only where no sentence as long as
  an input needs a deeper one. That depends on the grammar and the constants, not
  on what the program does; TypeOK of the run checks it for each of its grammars.
* **SequentialProofs**: `CacheCoherent`, `CacheRefines`, `BlocksNeverOverlap`,
  `BitsKept`, `CommittedIsKept`, `LoopsAreComplete`, `EveryCombination`.
  *Cache*, for any keys, sizes and bound: the bytes are counted no lower than
  the sum over the list, ids are given once, and while no assertion has failed
  the map keeps, for each key, an entry of the list with that key. When no key
  is inserted twice each entry has its own. The refinement maps list and map to
  the sequence of AbstractCache and needs both.
  *Allocators*, for any size of the array and any requests, none of them 0: what
  the client holds and what is kept for it is apart pairwise and lies in front of
  the index or comes from malloc().
  *Bits*, for every width of int and store: the store has the bits asked for but
  for the spoilt ones, whatever indices the calls take. Each operation is
  shown to change no bit outside of what it is asked for and what it spoils.
  *SQLite*, for any keys and values: the connection's rows and the file's hold
  what the returned calls have told, within a range what its rows so far have;
  an iterator over an unchanged table is at a row that has exactly the rows
  handed out in front of it. The theorem holds while `plain` does, as the property
  says: an error the binding does not see ends it.
  *Combinations*, for all N and R: what has been handed out is exactly what
  comes before the current combination in the order, and nothing is between a
  combination and the next.
* **ContainerProofs**: `FectorIsSequence`, `FapIsMap`, `RepliesMatch`.
  *Fector*, for every capacity that idx can count: the invariant is that the
  index is in the array until a call has gone outside; the work is that each
  operation on the array is the one of its name on the sequence of its first places,
  with the same position and count.
  *Fap*, for every size: the pairs are sorted, so that what lower_bound finds is
  where the key is or belongs, and the array is a map; each operation is the
  one of its name on that map, erase() of a key that is not there included.
  *Client*, for any number of requests, any length of contents and any replies:
  while no reply has sent more than it says, what has arrived and is not used
  yet (buffer, then wire) is the beginning of what the reply has left to be used,
  and nothing is on the wire when a request begins on a connection that is kept.
  The chunks of a reply are at most two, as in the model, so the content that
  they are to make is written out for each case.

Where an induction over data would be needed the proofs take the least
counterexample: the lemma `Least`, from the library's WFMin, says that a set of
naturals that is not empty has a least member. So the sum over a Cache's list,
a recursive function, is shown to exist, to be a number and to lose what an
entry taken out had; and so are found Fap's lower_bound, the first place in which
two combinations differ, and the next row of a table. GeneratorProofs
treats the same way the folds over a rule's alternatives, the lists of stored
parts, and the derivations of a sequence of names.

The assumptions MCSequential states of its constants are sizes that are natural
numbers (`VectorAssumption`, `CombinationsAssumption`, `CacheAssumption`,
`BitsAssumption`, `SqlAssumption`, `ClientAssumption`); keys of a Fap are
numbers (`MapAssumption`), which stands for a key type with a total order, as
the `<` of the code asks for; Fector's and Fap's capacity is below the range of
idx; nobody asks for no bytes, or for so many that a size_t cannot hold them and the
array, and the region of malloc() is not the array (`BlockAssumption`). `BoundsAssumption`, `SessionAssumption`
and `LoggerAssumption` are of the same kind.

### Only model-checked

* Liveness under fairness, and what needs ENABLED: the progress part of
  ImplementsSemaphore, ImplementsLogger and QueuedAtEndIsEmitted,
  DestructorReturns, PrintingResumes and WaitingEnds, ConnectionEnds, Returns.
  Their safety parts are theorems where they are refinements.
* What a RECURSIVE operator computes, which needs induction over data, and the
  modules that declare or reach one: Int128, JsonReader and Lexer, and with them
  TypeOK, ReadIffPlain and NumbersAreExact of MCLibrary, TypeOK and ReadAsWritten
  of MCRecurDec. Of the latter the generator's part is in the invariants of
  GeneratorProofs, but for the bound on the stack, which is the run's. Fixed and Decimal are checked in the same property as Int128.

EveryRowIsHandedOut and BitsAreAskedFor are stated with sets and quantifiers
where a sorted sequence or a recursion would say the same, so that they can be
proved as they are checked.


## Plan

1. Done: the concurrent parts, the containers, numbers, bits, the readers of
   text, the generator and its parser, the SQLite binding and marble's client, and
   the theorems above.
2. Proofs to come: Fixed's sums, once they are a property apart from Int128's;
   that the lexer's tokens are its words, once it is written without RECURSIVE.
3. Left to model: marble's client joined with HttpSession, `allocator.hpp` beside
   Bllocator, the counters of `benchmark.hpp`, rounds of unit tests, options.


## Not modelled

Formatting and templates of text, regular expressions, floating point kernels,
texts and blobs in SQLite (texts are bound from strings that are gone when the
row is written), where clauses and joins, copies of iterators, the graph and the
unit test header the generator can write, thin wrappers of system calls, the MySQL binding (the
SQLite one's shape), the acceptor of the web server (connections share nothing
but the queue), the client over TLS (it specializes a ClientBase its namespace lacks), contracts that print and exit. `PROJECT.json` gives the reason
for each. Memory that dies too early (death.hpp:245, fector.hpp:160) and data
races inside a library's object are outside these models unless stated above.

# BlackSky: specifications, model checking, proofs

BlackSky is a Java toolkit whose work is done by C++ natives: mutable and
read-only JSON over yyjson, an HTTP client over libhv, a logger over spdlog,
digests over OpenSSL. What can go wrong is rarely in one function. It is in the
pointers the natives edit and hand to Java as `long`, in the monitors the Java
classes take around them, in locals a callback on another thread writes to, in
static initialisers that lock each other's classes, in a log file that must
hold what was flushed. This directory models those parts in TLA+, checks them
with TLC and proves what matters most with TLAPS.

Paths below are relative to `src/`; `jni/` is
`java/Blacksky-Java/src/main/java/cn/smilex/blacksky/jni/`.

## Inventory

| Component | State | Operations | Interacts with | Hard part | What makes it correct |
|---|---|---|---|---|---|
| Mutable arrays: `JsonMut.JsonMutArr`, `_arrAction`, `_arrAdd`, `_add`, `_bind` (`c/Json.cpp`), `yyjson_mut_arr_*` | nodes linked in a cycle, pointer to the last, length in the tag | add, create, bind, insert, append, prepend, replace, remove (one, first, last, range), clean | the pool and root of the document | pointer surgery at the ends and at length 1; `jint` to `size_t` | cycles closed and disjoint; every call edits a sequence or refuses |
| Mutable objects: `JsonMut.JsonMutObject`, `_objAction`, `_objAdd`, `yyjson_mut_obj_*` | key and value nodes in one cycle, pointer to the last key, key bytes owned elsewhere | add, create, bind, getPointer, remove by key, replace, clean | the same; the strings of the JVM | removal while iterating; replace exchanges contents under existing handles; released keys | as arrays; no content lost; no released key |
| Life of a document: `JsonMut` | `_address`, pool cursor, three monitors | build, close, getJsonStr, all of the above | Java threads | three monitors for one document, `getJsonStr` with none, close racing with anything | freed once, nothing touched afterwards, no node twice, no edit lost |
| HTTP: `Requests.java`, `c/Requests.cpp`, `jobjectToRequest` (`c/Tools.h`) | the request object, two captured locals, the event loop | send, asyncSend | libhv's loop thread | a callback that writes to the caller's frame; polling | frame alive at each callback, own answer, every call ends |
| Class initialisation: `jni/Info.java` and the static blocks of eight classes | initialisation state and monitor of each class, `isInit` | first use of a class | the JVM | initialisers that hold a class and lock another; failed loads | no deadlock, one load, no native without library |
| Logger: `log/Logger.java`, `c/Logger.cpp`, spdlog | two loggers with level and flush level, `isEnableFileLogger`, file and stdio buffer | build, log, set_level, flush_on, flush, set_pattern | threads, the file system | half-built file logger; levels set while calls run; crash with a full buffer | order per thread, a file logger when one is enabled, what was to be flushed is in the file |
| JSON reader: `json/Json.java` | document, root, one shared pointer cursor | parse, getPointer, asPointer*, get*, close | threads | cursor read outside the monitor; close keeps the address | a chained read reads its own pointer; freed once |
| Object mapping: `util/BlackSkyUtil.java` | a mutable document for each call, the fields still to write | `objToJsonStr`, `jsonDataInsert`, `getFieldType` | `JsonMut`, the natives `_objAdd` and `_arrAdd`, the reader | casts by reflection that throw half way; longs through an unsigned adder; doubles as text | the document is freed on every way out; the text gives the fields back |
| Conversions: `c/Tools.h` | none | Java strings, maps, numbers | natives | width and sign | value preserved |
| Digests, Base64: `c/Sha.cpp`, `c/Md5.cpp`, `c/Base64.cpp` | a block of the native heap for each call | one call each | OpenSSL, libhv, the allocator | a pointer kept beyond the life of what it points to; buffer lengths | the digest of what was passed |

## Modules

| Module | What it is | Checked by | Proved in |
|---|---|---|---|
| `JsonArrays` | abstract: arrays are sequences | through `MutArr` | |
| `MutArr` | the nodes of arrays, one action per method | `arr` | `MutArr_proofs` |
| `JsonObjects` | abstract: objects are sequences of entries | through `MutObj` | |
| `MutObj` | the nodes of objects, contents apart from nodes | `obj`, `obj_remove`, `obj_replace` | `MutObj_proofs` |
| `MutDoc` | monitors, address, pool cursor, chains, in interleaved steps | `doc` | `MutDoc_proofs` |
| `Mapping` | Java objects to JSON text and back, by several threads | `mapping` | `Mapping_proofs` |
| `JsonReader` | the objects and cursors of the reader, the two monitors | `reader` | `JsonReader_proofs` |
| `Requests` | callers, event loop, callback | `requests` | `Natives_proofs` |
| `ClassInit` | static initialisers over the JVM's rules | `classinit` | `ClassInit_proofs` |
| `Logger` | two loggers, file, buffer, crash | `logger`, `logger_flush_on` | `Logger_proofs` |
| `Digests` | where a digest is between native and Java string | `digests_sha` | `Natives_proofs` |

`MCx` gives `x` its constants for TLC. Operators named `Def_Change` are wrong
variants of `Def`; they belong to no specification and are there to be put in
the place of `Def`, so that one can see which property notices.

### MutArr, JsonArrays

`next`, `last` and `len` are `yyjson_mut_val.next`, `uni.ptr` and the length in
the tag. A whole native is one action, because all edits of arrays are made
inside the monitor of `JsonMutArr` (what happens without it is `MutDoc`'s
subject). `held` are the nodes Java has an address of. The conversion of `jint`
to `size_t` is `% SizeMod`, with 16 for 2^64: what matters is that a negative
number becomes a number above every length.

The client links only values it holds and that are nowhere: the code has no
check for the contrary, so no property could hold without it. The ranges it
passes to `removeArrRange` are not negative (`RangesAssumption`): the native
checks `index + len`, which wraps. `createJsonMutObject` and `createJsonMutArr`
of an array return a value that is linked to nothing, as `_add` ignores that
`yyjson_mut_obj_add` refused an array as parent (`c/Json.cpp:382`); the
comments at `JsonMut.java:632` call it bound. `CreateJsonMut` says what the code
does.

Run `arr` (arrays A0, A1, two other values, positions -1..3, ranges 0..2 x
0..2): every list of up to three elements can be built, so first, middle, last
and only elements, full, partial and empty ranges, refused positions, and an
array inside an array all occur. `RingClosed` is yyjson's own comment on the
structure, `OneOwner` says no value is in two arrays, `ImplementsArrays` is the
refinement: `seqs` of `JsonArrays` is the sequence the serialiser would print.
A refinement only asks that each step be *some* edit; `EditsAsCalled` asks that it
be the one the method was called for, so that a negative position taken as 0, which
refines `JsonArrays`, does not pass. All of them are also proved for every pool.

### MutObj, JsonObjects

Key nodes and value nodes are separate sets, as a key node's only link is its
value and a value node's is the next key. `replaceObj` exchanges tag and `uni`
of two nodes and leaves `next`; so what a value node contains is the variable
`what`, and `last` and `len` go with it. `IterStep` is one turn of the removal
loop, with the iterator's fields. Key bytes: the only ones ever released are
those of `replaceObj`; `Matches` lets a released key read as anything.
`JsonToMut` is `jsonToMutJson` for an object of one entry: the copy is in no
container, and its nodes are its own.

Run `obj`: two objects, two other values, three key nodes, three keys. Each
object has a key at most once (`DistinctKeys`) and no released key is compared
(`ReadsFreed = FALSE`); then the entries are cycles, contents are never
duplicated, and the nodes implement `JsonObjects`, whose `RemoveAll` and
`Replace` are what the documentation promises. Three keys in one object are
needed for a middle entry; two objects for nested values and for exchanging an
object with a scalar. (That a step is the edit of its own method is not stated apart
here, as it is for arrays: objects have no positions to convert.) All five properties are proved for every pool and all keys:
`TypeOK` and `ContentKept` of any client, the others under the two assumptions.

The other two runs drop those assumptions. `obj_remove`: with a key twice in a
row, `removeObj` leaves one (and the object's last pointer may end on an unlinked
key, `yyjson.h:3704`). `obj_replace`: after `replaceObj` the entry's
key is released memory.

### MutDoc, MutDoc_proofs

Each method is cut where another thread can get in: monitor and read of
`_address`, read and advance of the pool cursor, read and write of the
container's chain, free, zeroing of `_address`, leaving. `made` and `meant` are
history: which call got which node, and the chains as if calls were atomic.
`cleanObj` and `cleanArr` stand for the methods that unlink: for what is said
here it matters only that they read the receiver and write it.

`JsonMut.java` has three monitors for one document and `getJsonStr` has none,
so nothing holds for arbitrary overlap. The client discipline in `Begin` is that
calls which overlap are calls of the same monitor (or several `getJsonStr`), and
that methods which read a node before anything else are not called on a closed
document. The invariants are what remains to be true, in particular when `close`
overlaps `close` or a creation.

Run `doc`: two threads, two calls each, every method; the second call of a
thread meets the leftovers of its first and of the other thread. Fairness: a
thread that can take a step takes one (weak fairness of each thread's steps).
Java does not promise that a monitor is granted in order; with finitely many
calls (`Budget`) a waiting thread is alone at the end, so weak fairness is
enough for `Returns`.

### Mapping

`objToJsonStr` asks for the declared fields, builds a document, writes one field
after the other, in an order Java leaves open, takes the text and closes the
document in a `finally`. Each field, each element of a list or a set, the text
and the close are steps; between them other threads map objects of their own and
the allocator hands freed addresses out again. What may throw is `Throws`: a
null that is unboxed, a `Short` cast to `int` by way of `Object`, a null element;
`Changed` is a collection another thread changes meanwhile.

The conversions are operators: `Node` is what `_objAdd` and `_arrAdd` make (a
`jlong` goes through the *unsigned* adder), `Parsed` what the parser makes of the
text, `GetInt` and the others what the natives of the reader make of that.
`FieldsReadBack` and `ElementsReadBack` say that the whole way and back gives
every scalar field, and every element once and in the order of the list, or in
one order of the set: -1 as a long is printed as 2^64 - 1, and
comes back as -1 only because the reader takes it through `int64_t`.

Run `mapping`: two threads, two addresses, objects with one field of any type
(scalars at both ends of their range, null, `Short`, lists and sets with elements
that are skipped, throw or cannot be printed) or two fields. Ints have 2 bits,
longs 3, so that every wrap occurs; `Grain` is 3, so that rounding goes both ways.
The natives that make, fill and free a document take monitors of `JsonMut.java`
that belong to classes; they are left out, as each native works on the document of
its own call and what the monitors order cannot be told apart here. A call may
wait for them, so nothing is said about its end.

### JsonReader

A parsed document is constant; `Child` and `Elems` are its shape. `objs[1]` is the
`Json`, the others are the `JsonObject`s made so far, in the order they were
made, each with `address` (`at`) and `pointerAddress` (`cursor`). The methods
differ in where they start (`Base`), which monitors they enter first
(`Monitors`) and what they do with the value found (`Aim`, `Read`, `Wrap`); the
variants of one method for each scalar type are one method here. A call is cut
at the monitors, the read of the field, the native and each construction of a
`JsonObject`, which enters a monitor of its own. `path` and `asked` are history:
the place in the text the client means, computed when a call begins and never
from an address.

The client discipline is `Confined`: the cursor of one object is used by one
thread. Chained calls on a cursor that two threads share do return each other's
values, as the monitor is left in between. Everything else is called by any
thread on any object.

Run `reader`: two threads, three calls in all, on `{"x": {"x": 1}, "y": [2, {"x":
3, "y": [4]}]}`: enough to make an object, move its cursor and read it while the
other thread does one of these, to reach an array in an object in an array, to
miss, and to hold both monitors. Fairness: weak fairness of each thread's steps,
enough because calls are finitely many, as in `MutDoc`.

### Requests

`finished` and `response` are the locals `asyncRequest` captures by reference;
`frame` says whether they still exist. libhv is the environment: one callback at
a time on the loop thread, one answer to each request, `NULL` on failure or
timeout. The callback's two stores are two steps in program order. The polling
loop re-reads `finished`: `hv_sleep` is a call the compiler cannot look into.
Sending a request object again appends its parameters again (`copies`).

Run `requests`: two threads, each sending its object twice, with or without
url and parameters. Fairness: Java threads run and libhv answers (its client
has its own timeout). The null check of the native comes after `urlDealWith`: a
GET with parameters and no url is sent to `null?k=v`, which is what the model
does; nothing in the repository says what it should do.

### ClassInit

A thread's `stack` is the initialisers it is in. `Initialise`, `Proceed` and
`Unusable` are the JVM's rules: once, in the first thread, others wait, the
same thread passes, a failed class stays unusable. `MonitorOf` is what the
static blocks really lock: `JsonMut` locks `Json`, `MD5` locks `Requests`, `Sha`
locks `Base64`. Run `classinit`: two threads, two uses each of any of the nine
classes, loading may fail. Two threads are enough for every wait cycle between
one holder and one waiter of each class or monitor. Fairness as in `MutDoc`;
a monitor here is taken at most once by each initialiser.

### Logger

A log call writes to the console, writes to the file, loads the flush level,
flushes and returns (`ToConsole`, `ToFile`, `TestFlush`, `FlushFile`, `Return`), as
in `log`, `sink_it_`, `should_flush_` and `flush_`; between any two of these another
thread may log or set a level. `file` is what the sink was given, `onDisk` the part
that left the stdio buffer. A crash keeps the written part only.

History says what the client may rely on. `asked` is the level flushOn was last
called with, `must` the highest such level since the log call of a thread began,
`due` how much of the file the returned calls have promised. A `flushOn` that
overlaps a log call may take effect before or after that call loads the level, so
its message is due only if its level reaches every flush level asked for from
beginning to return: with `asked` of the moment of the return in the place of `must`
TLC finds a message at the new level unflushed, when the `flushOn` falls between
the load and the return. The levels are relaxed atomics; that one was set before a
log call means that the client orders the two.

Creation may fail, and the native still enables the file logger; the next message
goes through a null pointer and the process dies (`NullFile`). `FileIsThere` says
that this happens only after `build()` threw, and not to a thread that logs while
another one builds.

Run `logger`: two threads, two messages each in each process, levels 1 and 3 around
the default 2, flush levels 3 and 5, so that a `flushOn` may also raise the level
while a message of 3 is on its way; two settings, one crash.
`logger_flush_on` runs `flushOn` with ERROR: it sets the log level.

### Digests

Each native makes its result in a block of the heap and a Java string of the
block: Base64 between `malloc` and `free`, MD5 of a `std::string` that lives until
the native returns, Sha of `c_str()` of a temporary that ends with the statement
(`c/Sha.cpp:113`). A freed block reads as what was there, as what the allocator
wrote, or as what its next user did. Run `digests_sha`: two threads on a heap of
two blocks; TLC finds the digest of Sha to be none. MD5 and Base64 return theirs
whatever Sha does to the heap (`OwnDigestButSha`, proved).

## Runs

| Run | Result | Shows |
|---|---|---|
| `arr` | holds | arrays: types, cycles, disjointness, refinement of `JsonArrays`, each method its own edit |
| `obj` | holds | objects with distinct keys: the same, and contents kept |
| `doc` | holds | no double free, no use after free, no shared node, no lost edit, every call returns |
| `reader` | holds | each read returns what its path says, each object stands for its path, every call returns |
| `mapping` | holds | a document for each call, freed on every way out; fields and elements read back |
| `requests` | holds | locals alive, own answer, every call returns |
| `classinit` | holds | one load, no native without library, no deadlock |
| `logger` | holds | order per thread, no missing file logger unless `build()` threw, flushed messages survive a crash |
| `obj_remove` | `RemovesAll` violated | `yyjson.h:3709` |
| `obj_replace` | `NoFreedKey` violated | `c/Json.cpp:700` |
| `digests_sha` | `OwnDigest` violated | `c/Sha.cpp:113` |
| `logger_flush_on` | `FlushOnSets` violated | `c/Logger.cpp:270` |

Of the passing runs, `mapping`, whose calls have no bound, checks deadlock: the
other models stop when their bounds are used up. That nothing waits for ever at a monitor or a
class is `Returns` and `UseEnds`.

Bounds: `Budget`, `Uses`, `Messages`, `Settings`, `Crashes`, `PoolKeys` and the
finite sets of nodes are limits of the models, not of the code.

## Proofs

Each theorem holds for every value of the constants: any number of threads,
calls, nodes, messages.

| Module | Theorems | What they say |
|---|---|---|
| `MutDoc_proofs` | `TypeCorrect`, `ClosedOnce`, `MemorySafe`, `NodesDistinct`, `EditsKept` | `TypeOK`, `FreedOnce`, `NoUseAfterFree`, `NoSharedNode`, `NothingLost` |
| `MutArr_proofs` | `TypeCorrect`, `RingsClosed`, `OwnersUnique`, `ArraysImplemented`, `EachItsEdit` | `TypeOK`, `RingClosed`, `OneOwner`, `ImplementsArrays`, `EditsAsCalled` |
| `MutObj_proofs` | `TypeCorrect`, `ContentsKept` | `TypeOK`, `ContentKept` |
| `MutObj_proofs`, if `Disciplined` | `RingsClosed`, `OwnersUnique`, `KeysRemoved`, `ObjectsImplemented` | `RingClosed`, `OneOwner`, `RemovesAll`, `ImplementsObjects` |
| `Mapping_proofs` | `TypeCorrect`, `DocumentsOwned`, `RoundTrip`, `CollectionsRoundTrip` | `TypeOK`, `OwnDocument`, `FieldsReadBack`, `ElementsReadBack` |
| `JsonReader_proofs` | `TypeCorrect`, `ReadsRight`, `ObjectsRight` | `TypeOK`, `ReadsItsPath`, `ObjectsStandForPaths` |
| `Natives_proofs` | `TypeCorrect`, `LocalsLive`, `AnswersMatch` | `TypeOK`, `NoDanglingLocals`, `OwnAnswer` |
| `Logger_proofs` | `TypeCorrect`, `Ordered`, `FileCreated`, `FlushesKept` | `TypeOK`, `ThreadOrder`, `FileIsThere`, `FlushedAsAsked` |
| `ClassInit_proofs` | `TypeCorrect`, `OneLoad`, `Linked` | `TypeOK`, `LoadedOnce`, `NativesLinked` |
| `Natives_proofs` | `DigestsRight` | `OwnDigestButSha` of `Digests` |

Every module first proves `Invariance == Spec => []IInv`, with one lemma or one
step per action. `Natives_proofs` does it twice, for `Requests` and, as
`HeapInvariance`, for `Digests`, which it instantiates over variables of its own.

- `MutDoc`: none of the four safety properties is inductive. `NoUseAfterFree`
  needs that what a thread read of `_address` still agrees with it, that a thread
  inside a monitor is the only one inside any monitor, and that the document is
  freed exactly between `free` and `zero`; `NoSharedNode` that the cursor a thread
  has read is still the pool's and above every node handed out; `NothingLost`
  that the chain a thread has read is still the chain. `IInv` is their
  conjunction with the client discipline as a state formula: active threads are
  in calls of one monitor.
- `MutArr`: `IInv` says that *some* function from arrays to sequences of nodes is
  what the pointers represent: sequences without repetition, apart from each
  other, each cycle closed at its last. The ring lemmas (`InsertRing`,
  `ReplaceRing`, `CutRing`) are about one function `next` and one sequence; what
  a walk computes (`WalkRing`) is shown by unfolding the recursive function at a
  smallest counterexample, as induction over data is out of reach. `Elems`, the
  refinement mapping, is that witness (`SeqsAre`), so each step of `MutArr` is a
  step of `JsonArrays` with the same answer.
- `MutObj`: two invariants. `Typed` needs no client: besides the types, that
  every value of an object's cycle was handed out (`Owned`), and that `what` is a
  permutation that moves only such values (`Contents`), from which `ContentKept`
  follows. `IInv` adds that some function `s` from values to sequences of key nodes
  is what `next`, `valOf`, `last` and `len` represent (`Rep`): each a closed cycle
  (`Lists`), without a key twice, apart from the others, its values not the root.
  The function is indexed by the *value node*, as `replaceObj` moves `last` and
  `len` with the content: `SwapStep` exchanges two sequences and touches no link.
  `removeObj` is a loop over the cycle it changes. `LoopMisses` and `LoopDrops` say
  what each turn leaves: before the match the iterator is one entry further, at
  the match one entry is unlinked, after it the iterator skips the next entry
  uncompared and goes on to the end. That is right when there is one match, and
  is why `Disciplined` is a hypothesis: with a key twice, `a b a`, `removeObj(a)`
  leaves `uni.ptr` on an unlinked node, and `RingClosed` itself is false (TLC
  finds it as soon as `DistinctKeys` is dropped), so no invariant could do without.
  The two recursive definitions, the walk and the loop, and `WithoutKey` of
  `JsonObjects`, are unfolded along a `Trace` of their turns, which exists and is
  unique (`TraceExists`, `TraceUnique`, by a smallest counterexample). The
  refinement mapping is `EntriesOf`: what the serialiser prints for an object,
  wherever its content is. `ObjectsImplemented` maps each action to its abstract one,
  with the same answer; `KeysRemoved` is what `removeObj` promises.
- `Mapping`: `IInv` adds to `OwnDocument` the progress of each call: the fields no
  longer to do have been written and read back. `ToIntOfInt`, `PrintedNear` and
  `NodeReadsBack` are the arithmetic of the conversions, for any widths. For the
  elements `AllGathered` is a second invariant on top of `IInv`: there is an order in
  which the iterator gives the collection, n of its elements are behind it, the
  others are `rest` (`Left`), and the array holds the forms of those n that have one,
  the i-th at the place that counts the ones up to i (`Filled`, `KeptCount`).
- `JsonReader`: `IInv` ties each address in an object or a register to the path it
  stands for (`FollowAppend`: following p and then q is following both), and keeps
  cursors with their owners.
- `Requests`: what each thread, its locals, libhv and the callback agree on, for
  each place the call can be at; a frame is left only after the second store.
- `Logger`: the message a thread is logging is newer than all of its own in the
  file. `FlushesKept` needs more (`AskedOK`): that the flush level in force is never
  above `must` of a running call, so that a call which found its message below the
  level has nothing to promise, and that one which flushed has its message on disk
  until it returns. It also needs that the flush level is the one asked for, which
  is why it assumes `LevelError \notin FlushLevels`: with ERROR the code sets
  another field (run `logger_flush_on`).
- `ClassInit`: a thread's stack descends from `Ssl` over the natives to `Info`, so
  `Info` is initialised before any class comes out usable.
- `Digests`: a native of MD5 or Base64 owns its block until it has made the
  string; a block with an owner is written by no other.

Assumptions on the constants are the named `ASSUME`s of the modules, which TLC
evaluates in each run, and in `Digests` `NoneApart`, a hypothesis of its
theorems. Those with content: `RangesAssumption` (above), `IndexesAssumption`
(`size_t` is wider than `jint` by more than the nodes in the pool, so that a
negative position is refused), `PoolAssumption`, `WidthAssumption` (long is at
least as wide as int), `DocumentAssumption` (the shape of a parsed document),
`ObjectsAssumption` (Java's types: a field holds a value of its declared type, a
list is a sequence, a set is finite). `Disciplined` of `MutObj_proofs`, `DistinctKeys`
and not `ReadsFreed`, is what run `obj` assumes; the violations of `obj_remove` and
`obj_replace` are what happens without it.

Every invariant and the two refinements that the passing runs check are proved.
Only model-checked: the liveness properties (`Returns`, `UseEnds`), out of the
prover's reach. Nothing is said by a theorem about `removeObj` of a client that
adds a key twice: what it does then is what `obj_remove` shows.

## Not modelled

- `Json.close` (it keeps the address and nothing looks at it afterwards) and
  empty arrays (`_getArray` returns an unset variable).
- The parser and the serialiser: compiled code of yyjson that is not in the
  repository. So is what `buildByJsonStr` does with text that is not JSON: the
  `NULL` of `yyjson_read` goes into the copy unlooked at.
- Growth of the value pool: only its cursor matters to the properties.
- Negative ranges of `removeArrRange`, values that are linked twice, calls under
  different monitors at once, edits of a closed document, two threads in
  `Logger.build`: the code is not safe there and checks nothing, so there is no
  property to state; the hazards in `PROJECT.json` say where.
- `set_pattern`, headers, cookies and bodies: data that no property tells apart.
- The digests themselves, and `base64_decode`, which takes the encoded size for
  the length of its input: OpenSSL and libhv, in binary form only.

## Plan

Done: every module above. Left, in this order:

1. Composition of `MutDoc` with the node level: edits of `MutArr` inside the
   monitors of `MutDoc`, so that atomicity of an edit is shown, not assumed.
2. `Logger` with several threads in `build`.
3. What remains true of objects with a key twice: whether following the links from
   `uni.ptr` still ends up in one cycle, whatever `removeObj` unlinked.

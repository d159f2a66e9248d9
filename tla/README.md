# Perfect::Hash in TLA+

Perfect::Hash is a Perl distribution with an XS half. It takes a dictionary,
searches for a perfect hash of its keys by one of several methods, answers
lookups (`perfecthash`), and writes the lookup as C code (`save_c`). It carries
the C library cmph with nine more algorithms, and the C++ maps of cxxmph. The
modules here model the search of each method and algorithm, the lookups, what
goes through files and packed memory, and the programs that use the objects, as
the code in `src/` does them.

## The system

| Part | State it keeps | Operations | What makes it correct |
|---|---|---|---|
| front end, `lib/Perfect/Hash.pm` | none besides the object it returns | `new`, `find_best_method`, `_handle_opts`, `_dict_init` | keys and values of a dictionary stay together through padding |
| `HanovPP.pm` (default), `Hanov.pm` | `@buckets`, `@G`, `@V`, `@freelist` while `new` runs; `G`, `V`, keys afterwards | `new`, `perfecthash`, `save_c` | every key returns its value, other keys undef; no slot is used twice; the seed search finds a seed when there is one |
| `Urban.pm` with `Hash.xs` | the packed bit vector | packing in `new`, `iv_perfecthash`, `save_c` | the vector answers what `G` and `V` answer |
| `Pearson.pm`, `PearsonNP.pm`, `Pearson8/16/32.pm` | the shuffled table `H`, the recorded costs, the collision lists `C` | `new` (`shuffle`, `cost`, `collisions`), `perfecthash`, `save_c` | lists and table fit each other whatever ends the search |
| `PerfectHashInt.pm` | hash parameters, graph `@E`/`@V`, `@output_order`, `@hashtab` | `generate_hash_function`, `_construct_hash_table` | the generated function maps key i to i; a cyclic graph is never taken for an acyclic one; the parameters tried are complete |
| `Gperf.pm`, `Bob.pm` | the key file, the output file, the forked process | `new`, `save_c` | the output is the table of the object saved; nothing of a call outlives it; signals go to the own child |
| `C.pm` | none | types, string pool, comparisons of the generated code | the number types hold what is stored in them |
| `cmph-2.0/src` | a config (`cmph_config_t`), the working data of an algorithm, a function (`cmph_t`), its file and its packed block | key adapters, `cmph_config_set_*`, `cmph_new` (chm, bmz, bmz8, brz, fch, bdz, bdz_ph, chd_ph, chd), `cmph_dump`, `cmph_load`, `cmph_pack`, `cmph_search`, `cmph_search_packed` | built, loaded and packed functions are the same perfect hash of the keys; hopeless keys make `cmph_new` fail and return |
| `cmph-2.0/cxxmph` | vectors of elements with holes, `slack_`, the index | `insert`, `[]`, `find`, `erase`, `clear`, `rehash`, iteration | a map answers as a plain map does |
| `CMPH.pm`, `CMPH.xs` | a packed function | `new`, `perfecthash` | that of cmph |
| `Switch.pm` | none | `new`, `save_c` (`_do_cand`, `_do_switch`) | the nested switches find every key, and no block runs into the next |
| `XS.pm`, `Cuckoo.pm`, `script/pperf.PL` | none | placeholders, option parsing | - |

How they interact: `Perfect::Hash->new` calls the `new` of a method class, and
that calls `_dict_init`, which may append a dummy key to the caller's list.
`Hanov` and `Urban` inherit the construction of `HanovPP` and change the hash
function or the form of the table. `save_c` of the table methods writes what
`new` left in the object. Gperf and Bob hand the keys to another program through
a file in the current directory, which all objects share, and talk to it through
fork, setpgrp, waitpid, kill and system. In cmph an algorithm reads the keys by
an adapter of the caller, as often as it retries; chd is built on the function
of chd_ph, brz calls `cmph_new` for each of its buckets, and all write to files
and memory that are read without a length. In cxxmph a map calls the index when
it packs, and trusts its function until the next time.

What is hard here: the table builders are sequential, but each is a search with
state that must be reset on each retry, and whose answer is used under an
encoding (signs, offsets, C types, cells, packed layouts) chosen elsewhere. cmph retries
at two levels, with counts and marks of each. cxxmph has histories: what an
erased element or an old index leaves behind meets a later insert. Concurrency
and time exist in Gperf and Bob only. `PROJECT.json` lists each
hazard at its line.

## Modules

| Module | Models | Composition |
|---|---|---|
| `PerfectHashInt` | the parameter loops, the graph, the peeling, the assignment, the element type, the generated lookup; `_calc_hash` for integers and for strings with case_fold and without | the search takes the hash as a parameter |
| `DictInit` | padding in `_dict_init` | used by `HanovPP` and `Pearson` |
| `HanovPP` | `new` and `perfecthash`, the hash function a parameter | EXTENDS `DictInit` |
| `CTypes` | numbers of w bits with and without sign, reads outside of arrays, `u_csize` and `s_csize` | used by `HanovLookups`, `PearsonC` and cmph |
| `HanovLookups` | the C lookup that `save_c` of HanovPP writes; Urban's width of the cells, `nvecset`, `vec`, `iv_perfecthash` | EXTENDS `HanovPP`, `CTypes` |
| `Pearson` | search and lookup of Pearson and PearsonNP | EXTENDS `DictInit` |
| `PearsonC` | the C lookup that `save_c` of Pearson writes, with memcmp's lengths and the type of the lengths of its lists | EXTENDS `Pearson`, `CTypes` |
| `Switch` | the C function that `save_c` of Switch writes, statement by statement, and `memcmp_const_str` | - |
| `Gperf` | a program that makes and saves Gperf objects, the forked perl, gperf | - |
| `CmphStructs` | the adapters of `cmph.c`; config, function, hash states, files and packed memory; `graph.c` with its 2-core | EXTENDS `CTypes`; under all of cmph |
| `Chm`, `Bmz`, `Bmz8` | the algorithms on graphs | EXTEND `CmphStructs`; `Bmz8` is an INSTANCE of `Bmz` with bytes |
| `Fch` | `fch.c`, `fch_buckets.c` | EXTENDS `CmphStructs` |
| `BitTables` | `bitbool.h`; the bit strings of chd, `select.c`, `compressed_seq.c`, `compressed_rank.c` | EXTENDS `CmphStructs` |
| `Bdz` | `bdz.c` and `bdz_ph.c`, which share the queue and the steps of assigning | EXTENDS `BitTables` |
| `ChdPh` | `chd_ph.c`, and `chd.c` on top of it; the test of primes in `miller_rabin.c` | EXTENDS `BitTables` |
| `Brz` | `brz.c`, `buffer_manager.c`, `buffer_entry.c` | EXTENDS `Fch` |
| `Cmph` | `cmph.c`: the life of a config and its function | EXTENDS all the algorithms |
| `MPHF` | abstract: what a function and its copies promise | implemented by `Cmph` |
| `MphIndex` | `mph_index`, `trigraph.cc`, `mph_bits.h` | - |
| `MphMap` | `mph_map.h`, `hollow_iterator.h`, with any index | composed with `MphIndex` by `MCMphMap` |
| `StdMap` | abstract: a plain map | implemented by `MphMap` |
| `Induction` | facts about numbers, loops and powers of two, with their proofs | used by the proofs |
| `PerfectHashInt_proofs`, `Gperf_proofs` | the proofs of a component | EXTEND `PerfectHashInt`, `Gperf` |
| `HanovPP_proofs`, `Pearson_proofs` | the proofs of a method and of the code made from its table | EXTEND `HanovLookups`; `PearsonC` |
| `MphIndex_proofs` | the proofs of the index, and of the maps over it | EXTENDS `MphIndex`, `MphMap` |
| `Chm_proofs` | what chm makes of an acyclic graph, in memory, in a file and packed | EXTENDS `Chm` |
| `Cmph_proofs` | the proofs of the life of a function of cmph: the order of chm, the packed sizes of all | EXTENDS `Cmph`, `Chm_proofs` |
| `MC*` | the values of the constants for TLC | |

### Correspondence with the code

**PerfectHashInt.** `seed1`, `seed2` and `m` are the loop variables of
`generate_hash_function` (`Mult2s[m]` is `$hash_mult2`). `BumpSize` is one round
of the loop that moves the table size away from multiples of the multipliers.
`BuildGraph` fills `@E` and `@V`; `SelfLoop` is the return in the middle of it.
`RemoveEdge` is one round of the inner peeling loop, `NextStart` of the outer.
`Cyclic` and `SelfLoop` return to the next parameters (`Retry`) or to the final
die. `Assign` handles one edge of `@output_order`, with the die "oops" as a
state. `ChooseWidth` picks the element type and fills unused entries with the
flag. `Lookup` is the generated function.

**HanovPP.** `PlaceKey` is a round of the loop that fills the buckets,
`SortBuckets` the sort (equally large buckets in any order, which the sort of
the code does not fix), `PickBucket` the outer loop, `TryItem` one round of the
`while ($item < @bucket)` loop, `StoreBucket` the code after it, `MakeFreelist`
and `StoreSingle` step 3, `Finish` the return. `value` is `%dict`. A seed is
used modulo 2^32 by the hash; `MaxSeed` stands for the last one, after which
the values repeat. Hash functions are a set `HashFamily`, so a property
holds for the FNV hash and for every other.

**HanovLookups.** The C code and Urban both read the finished `G` and `V`. `CG` and `CV` are the
initialisers after conversion to their C types, `SlotInC` and `CLookup` the C
function with its casts. `bits` is the loop over (2, 4, 8, 16, 32), `ToStore` and
`HalfBytes` what `nvecset` leaves in the vector, `Vec` what `vec` reads,
`IvPerfectHash` the XS lookup. A read outside of an array gives `Wild`, which
equals nothing.

**Pearson.** `ShuffleEntry` is one round of the loop in `shuffle`, with the
targets that `rand` can give; `Judge` the rest of the do loop, with `cost`, the
record of the best and the three ways the loop ends (the time may be over at any
round, `late`); `Collide` calls `collisions` (`Collisions`, whose loop is a recursive
function over the keys pushed). `dict.np` selects PearsonNP's number
of tries, its test for a better table and its lookup. The code keeps only the
value of a slot with one key and undef for an empty one; the model keeps a list
in both cases.

**PearsonC.** `CLookup` is the C function over the finished object: the hash is
that of the object, `CompareLength` and `CheckKey` are the numbers of bytes given
to memcmp for a key of a collision list and for the stored key, with `-nul` and
without. `Byte` is the 0 behind a C string. `Cs` is the stored length of a list, after
conversion to the type that `u_csize` chooses for the longest one (`ctype`).

**Switch.** `DoSwitch` and `DoCand` return the statements that `_do_switch` and
`_do_cand` print; `last` and `indent` are their parameters. `Exec` runs them as C
does: a switch is entered at a label and left by a break, a return or its end;
`Fell` is the end of a block that did not return. `Words` is the loop of
`memcmp_const_str`. The order of keys with the same byte is that of `Listed`,
one of those that the sort of the code may leave.

**Gperf.** `New` writes the key file (or gets one from the user, `tmp` FALSE);
`SaveC` is `save_c` up to fork or system; `Poll` a round of the loop with sleep
and waitpid, `Reap` the waitpid after it, `Kill` the kill of the group, `Return`
the end with the removal of the key file. The child is `SetGroup`, `StartGperf`
(the shell opens the output), `ChildExits`; `LoadKeys`, `WriteTable` and
`RejectKeys` are the external gperf. `groups` keeps one record per call of
`save_c`, so that a process left behind stays visible. `use`
tells programs apart from their beginning on: whether each object is saved before the
next is made (`SaveFresh`), whether a forked perl is prompt (`PromptChild`), and, for
TLC only, how many objects and calls there are. It never changes.

**CmphStructs.** An adapter is a sequence of keys and a position;
`Keys` is one pass of an algorithm. A file or a packed block is a sequence of
tokens, each a value and its number of bytes; `Read` and `At` take one by
place and width, and give `Wild` when what lies there was written otherwise, so
that a dump read in another order than it was written, or a packed offset that
is one field off, is seen. `Wild` stands for any number: nothing is
promised by a function that answers it. `hash(seed, k)` is the third word of
`hash_vector(seed, k)`, as in `jenkins_hash.c`.

**The algorithms.** Each has actions `<Alg>New`, `<Alg>Map` and the steps after
it, told apart by `pc`: "new" (parameters and allocation), "map" (one try with
new seeds, which are arbitrary as `rand` makes them), "order", "assign",
"search". A try that fails counts down and stays in "map" or goes back to it;
the last one gives up ("failed"). What is deterministic within a step (peeling,
labelling, placing of buckets) is a function. A failed assertion is
`pc = "abort"`, a read of memory nobody wrote or a read out of bounds
"undefined". bmz and bmz8 keep the flag that asks for a restart in
`data.restart_mapping`, which is set once and not for each graph (`RestartMapping`).
`outer` is the call stack above: while `cmph_new` runs for a bucket, it
holds the call of `brz_new`, and fch or bmz8 works in the same variables as it does by
itself; its `keys` are then those of the bucket. No module of cmph takes a copy
of `SequencesExt` (`Concat` stands in `CmphStructs`): its definitions would be part of each
proof obligation.

**Cmph.** A request says what a caller wants. The caller makes the calls of
`cmph_config_set_*` that it needs in any order (`data.calls`), then `CmphNew`;
afterwards it dumps, loads, packs and searches in any order. `answers` keeps
what each copy of the function told.

**MPHF.** `Answer(c)` makes one copy tell its numbers: below `size`, at most
`load` keys for each, as all other copies, `size` the number of keys when minimal.
`KeepsPromise` is `MPHF!Spec` under the mapping in `MCCmph`, where `Answered`
are the keys of which something is promised (see the disagreements).

**MphIndex.** `Function` is one `Reset` with a seed whose graph can be peeled:
`GenerateQueue`, `Assigning`, `Ranking`; `Rank` and `perfect_hash` the lookups.
`ResetIndex` is the set of functions that the seeds make, and the map takes any.

**MphMap.** `values`, `present`, `slack`, `index`, `size`, `cap` are the members;
positions begin with 1, and 0 is "none". `Place` is `index(k)`, `Find` is
`find`. `Push` is `push_back` with the entry in `slack_` and `pack`; `PackOutcomes`
what `pack` may leave, none when it exits. `Undefined(k)` is a lookup that reads
beyond `present_`. `result` is what the last call returned, the elements of an
iteration included.

**StdMap.** The same calls on a function from keys to data. `ImplementsMap` is
`StdMap!Spec` under `Content`, the elements that are present.

## Runs

| Run | Question | Bounds |
|---|---|---|
| `phint` | Is peeling exact and the assignment right on any graph? Are tables made with the code's own hash, multipliers and seeds perfect, made with the first parameters that work, case-insensitive with case_fold? Does every call end? | all lists of up to 3 edges between numbers below 3 (loops, parallel edges and cycles among them) and a graph of two stars; all lists of up to 3 of 5 integers and of up to 2 of 9 words and of 3 words without case_fold, longer lists (one that bumps the size, one too wide); modulus 2^17, 4 seeds, element types of limit 3, 6 and 12 |
| `phint_twins` (violated) | Does any set of different integers get a table? | lists of up to 3 of 5 integers; 10 seeds, the code's element types |
| `hanov_tables` | Is the construction right, also for large buckets, with no slot stored twice, no seed skipped and every search ended that can end? Do C code and bit vector agree with `perfecthash`? | 1 to 9 slots, arrays, files and hashrefs; five arithmetic hash functions with 61 seeds and one under which some keys cannot be told apart; types of 2, 4, 8 bits, bytes of 4 bits, padding at 4 |
| `hanovpp_empty_key` (violated) | Does `new` always return? | one dictionary with the empty key |
| `pearson` | Do table and lists fit whatever ends the search? Does the C function find the keys whose list has a length that its type holds, and refuse what it can tell from them? Does `new` return? | tables of 4 entries, types of 2 and 3 bits, every shuffle; all sets of 2 to 4 of 6 keys, hashrefs, duplicates, one key; both classes; with -nul and without |
| `switch` | Do the nested switches find every key and nothing else, and does each block return? | all sets of the 8 words of 3 bytes over 2 letters, some 400 further sets of up to 27 words (splits in splits), words of several lengths; keys of 4 to 37 bytes and strings that differ from them in one byte |
| `gperf_calls` | Does `save_c` return, are signals sent to the own child only, and is a child that was reaped or killed quiet? Do calls leave nothing behind and generate the right table? | 2 dictionaries, 2 seconds; any order of calls of 2 objects with 2 calls and a child that is late; and 3 objects with 3 calls, each saved once before the next is made, with no late child |
| `gperf_two_objects` (violated) | Is the table always that of the object saved? | 2 objects, 1 call |
| `cmph` | Is what a function tells, as built, as loaded and as packed, a perfect hash of the keys (or does `cmph_new` fail)? Does `cmph_new` return, without a failed assertion? Does the packed function fit? Are the bit tables exact? | nine algorithms; 57 requests: 1, 3 and 6 keys, a key that comes twice, two triangles with a common vertex, 15 and 17 keys (at the bounds of bmz8), default and other parameters, brz with memory for two keys; all adapters; all seeds of a given hash; words of 8 bits and bytes of 4; 2 tries at every level; bmz8 with n of 0; tables of up to 18 numbers |
| `cmph_prime` (violated) | Does `cmph_new` return for every number of keys in a bin? | chd_ph, 3 keys, 4 of them in a bin |
| `mph_map` | Does a C++ map answer as a plain map? Is every function of the index perfect? | 3 classes, 3 keys, 2 data, every order of calls; 2 seeds; vectors above 2 are packed (the code: 256), rank steps of 4 |
| `mph_map_exits` (violated) | Does the process go on whatever the map holds? | the same |

Why the bounds are enough: a wrong slot, a lost seed or a wrong order of peeling
shows with three keys, since it takes two keys that collide and one that gets in
their way; what two buckets do to each other needs the larger tables. The runs
take those sizes at which the code changes its behaviour (padding, next C type,
next cell, bumped size, end of a word, end of a window). The scaled types keep
the relation between sizes, types and padding: types of 2, 4 and 8 bits with
padding at multiples of 4 are to 9 slots what types of 8, 16 and 32 bits with
padding at multiples of 8 are to 257; words of 8 bits put the ends of words
between the keys. In Gperf two dictionaries tell whose table was written; of
three calls one is past, one running, one new. In a map of three keys one
element may be packed, one in the slack and one erased and inserted again. Two
tries are one that fails and is followed by another, and one that is the last.

**Fairness.** The builders are one sequential Perl process, so `WF_vars(Next)` says that
it goes on. Gperf has weak fairness of the parent's steps (`sleep` and `waitpid` with
WNOHANG return) and of `setpgrp` of a forked perl; nothing is assumed of gperf, and
nothing of the program's wish to call. `PromptChild` (a forked perl runs setpgrp before
the parent's first sleep of a second is over) is not a fairness: it is true of some
programs (`use`) and false of others, and the properties that need it name it. cmph is
one sequential C function: `Cmph!Fairness` says that it takes another step while
`cmph_new` has not returned, and nothing of what its caller does.
This is the weak fairness of `Algorithm` written without ENABLED, which would cost TLC
too much; `cmph_prime` has the weak fairness itself (`FairSpec`). The maps have no
liveness: each call is one action. `SaveFresh` (each object is saved once, before the
next is made) is the use that `script/pperf` and the tests make of the class.

## Proofs

All constants are arbitrary within the assumptions in the modules that declare
them; further assumptions are named with each theorem. The properties in
parentheses or after `Spec =>` are those that the runs check on small instances;
the other names are invariants and lemmas of the proof modules.

**Loops.** The library's induction theorems take an operator as a parameter,
which the provers cannot instantiate. `Induction` states induction for sets
(`SetInduction`, from the well-foundedness of `<`) and for loops: `Rounds`
says that the recursive function of a loop exists and has a type, `RoundsKeep`
that its last value has what its rounds keep. What a loop of the code leaves,
written as a recursive function over its rounds, can thus be proved: the lists
of Pearson, and queue, assigning and ranking of the index in cxxmph.

`HanovPP_proofs`:

- `TypeCorrect`: `Spec => []TypeOK`, through `Typed` (types, and that the
  buckets hold keys that hash to them).
- `TableIsDictionary`: `Spec => []PerfectLookup`. `PerfectLookup` speaks of
  finished tables only; the invariant that carries it through the loops is
  `TableInv`: the values are right (`ValuesOK`), keys of stored buckets lead
  to a slot with their value (`StoredOK`), different keys to different slots
  (`SlotsOK`), a slot with a value belongs to a stored key (`OccupiedOK`).
- `SlotsNeverOverwritten`: `Spec => NoOverwrite`.
- `FreelistNeverEmpty`: `Spec => []FreelistSuffices`, by counting: `SlotLeft`
  maps each slot in use to the position of the key that uses it, and the key
  that is left has a position too.
- `SeedIsSmallest`: `Spec => []SmallestSeed`, from `SearchInv`: `TableInv`, and
  all seeds before the one being tried fail. An item that meets a slot in use, or one
  that an item before it has chosen with the same seed, shows that this seed fails
  (`TakenSlotFails`); with slots left over from another seed it would not.
- `CAgreesIfItFits`: `Spec => []CAgreesWhenFitting` if `CTypesFit`: the numbers of
  values of all types are multiples of the padding unit, and the widest type
  with a sign holds the size of every table. This is so for 8, 16, 32 and 64 bits and
  padding at 8. It rests on `SizeNotPadded`: a size is no multiple of the unit,
  hence never the number of values of a type, and -slot-1 fits the type chosen.
- `PackedTableAgrees`: `Spec => [](InWord => PackedAgrees)`: `DigitsSuffice`
  (the bits counted by the loop of Urban hold every seed and every -slot-1),
  `WidthSuffices`, `CellsSuffice`, and `CellOf` (`vec` reads what `nvecset` wrote, and no
  neighbour disturbs it). `InWord` says that size and seeds are below the
  largest number of a 32-bit cell with a sign: that number itself the lookup reads as
  the smallest one (Hash.xs:204, `>=` and 2^32-1).

`PerfectHashInt_proofs`:

- `TypeCorrect`: `Spec => []TypeOK`, through `Typed`.
- `PeelingDecides`: `Spec => []PeelExact`. `Peeled` adds to the types that the edges
  left have exactly the entries of `@V` (`OrderOK`), and that no vertex behind the scan,
  but the one being followed, has one edge (`ScanOK`). An order in which each edge had a
  free end excludes a cycle (`GoneAcyclic`); what is left when the scan ends has no edge
  with an end of its own (`LeftCyclic`).
- `OopsUnreachable` (`NeverOops`), `TablesArePerfect` (`Perfect`),
  `FlagRejects` (`UnusedRejected`), from `Tabled`: each edge that was assigned
  sums to its number, and the visited vertices are those of such edges.
- `SearchIsComplete`: `Spec => []FirstWorking`, from `Searched`: the parameters
  before those in force do not work by the reference definitions, and the loop
  of the size ends at `GoodSize`.
- `CaseIsFolded` (`CaseInsensitive`) and `TwinsGetNoTable` (the keys of a table differ
  in more than case and modulo its size, `TwinsRefused`: why `phint_twins` fails), if
  `CodeHash`: keys are integers and strings with the hash of `_calc_hash`. Keys with one edge
  are looked up alike, and a perfect table has a number for each. Integers
  must be so small that `_calc_hash` does not wrap around (`NoWrap`): beyond 2^32
  congruent keys may well get different edges.

`Pearson_proofs`, under `Trusted` (`^` of numbers is a number, undef is neither
a number nor a list):

- `ListsUnlessPerfect`: `Spec => []NoListsOnlyIfPerfect`, from `Searched`: there
  are lists exactly if the last table, and not the best recorded, has two keys in a slot.
- `LookupIsRight`: `Spec => []Lookup`, and `CLookupIsRight`:
  `Spec => []CFindsKeys`. Both rest on what `Collisions` leaves: the list of a slot
  is the keys of the slot in their order, with their values. Of the stored length of a
  list `CLookupIsRight` uses only that it is 1 or more than 1 when it fits.
- `SmallDictionariesAreFound`: `Spec => []CLookupExists` (the C function finds every key
  that `perfecthash` finds, which `CFindsKeys` says of the lists whose length fits) if
  `Small`: no dictionary has as many keys as the narrowest type has values (in the
  code 256). Then every length fits its type.

`Gperf_proofs`, for any number of objects and calls and any limit:

- `TypeCorrect`; `SignalIsOwn`: `Spec => []KillIsOwn`; `ReapedOrKilledStaysQuiet`:
  `Spec => []ReapedOrKilledIsQuiet`. All from `GroupInv`, which
  relates the parent's place in `save_c` to the state of the child of the call.
- `NobodyLeftWriting`: `Spec => []NoStrayWriter`, which is about programs with
  `PromptChild`, from `QuietInv`: what a past call has started is finished or killed.
  Without that condition it is false: see below.
- `OutputIsOwn` (`GeneratesFreshTable`) and `ErrcodeIsTrue` (`TrustErrcode`), which are about
  programs with `PromptChild` and `SaveFresh`, from `OwnKeysOK`: while a call runs, the key
  file, if there, has the keys of the last object, which is the one saved, and
  what gperf of this call has loaded and written is from it. Without `SaveFresh`
  `GeneratesTable` is false: `gperf_two_objects`.

`MphIndex_proofs`, first of the maps alone, with any index, for any keys, data, hash of
the slack and threshold of packing:

- `MapInvHolds`: `Trusted => (Spec => []MapInv)`. `MapInv` is inductive: `Sound`
  says that each element is where `slack_` or, only if `slack_` says nothing of its
  hash, the index tells, and that a hole keeps no key; that is why a key found
  in a stale place is not there (`FindCorrect`) and no key is stored twice
  (`SameElements`). `PackKeeps` and `PushKeeps` carry it through `pack` and
  `insert`.
- `MapImplements`: `Trusted => (Spec => ImplementsMap)`: initial states are initial
  states of `StdMap`, and each action is the step of the same name or, when it
  exits or reads out of bounds, a stutter.

`Trusted` is `PerfectFunctions` (`Reset` makes functions that are perfect on their
keys), a finite set of keys, and `DefaultKey \notin UserKey` (without it `ImplementsMap`
is false: see below). `HashAssumption` in `MphMap`: keys have different 128-bit hashes.

Then it proves `PerfectFunctions` of the functions of `mph_index.h`:

- `IndexIsPerfect`: `Spec => []ResetPerfect`. An edge is queued
  with a vertex that only edges before it in the queue touch (`GoodQueue`,
  `QueueIsGood`); assigning goes backwards, so that each edge keeps the vertex it got, and
  the rank of a vertex is the number of assigned ones before it, by whole steps,
  bytes and the rest.
- `MapOverIndexImplements`: `Spec => ImplementsMap` for the maps composed with
  this index; of the `Trusted` only `DefaultKey \notin UserKey` is left.
- `TwoKeysNeverMapped`: no seed works for two keys, whose parts have one
  vertex each. `RehashOfTwoExits`: in the composition, rehash of two elements
  always exits, an action property that no run states (`mph_map_exits` shows one such
  exit).

These assume `ResetMakesIndexes`: `Reset` returns functions that `Function` makes of a
seed whose graph can be peeled, for at most 2^30 keys (where
`nextpoweroftwo` is defined), and in a graph where no vertex has more than 256
edges (`DegreesFit`). The last is needed: a degree is a byte in `trigraph.h`, and 257
edges count as one.

`Chm_proofs` and `Cmph_proofs`, under the assumptions of the modules of cmph
(`StructsAssumption`, `ChmAssumption`, `ChdPhAssumption`, `BrzAssumption`): each key
has hashes for each seed, and log2 of a number is a number; a request has numbers that
the types of the code can hold; `Null` and `Wild` are no numbers, names or states; the
search of chd_ph for a prime finds one (by Bertrand's postulate it does, but for the
number of bins named below).

The loops of cmph are one operator, `Fold` of `CmphStructs`, which is a recursive function
over the rounds of the loop: `Rounds` and `RoundsKeep` then serve all of them.

- `OrderIsPreserved`: `Spec => []OrderPreserved`, in four parts. (1) When the peeling of
  `graph.c` leaves no edge, the graph is a forest (`CoreIs`, `AcyclicIsForest`): among
  any set of vertices there are fewer edges than vertices (`ForestCount`). (2) The
  recursive search of chm then numbers trees: a neighbor that has a number already is
  the one that the search came from, since another edge to it would close a cycle
  (`AddChild`), and so the two numbers of each edge add up to the number of its key
  (`NumbersRight`), modulo the width of the cells and the number of keys. (3) File and
  packed block are sequences of tokens: `chm_load` reads each where `chm_dump` has
  written it (`ChmDumpIs`, `ChmLoadIs`), and `chm_search_packed` each at its number of
  bytes (`SeekIs`, `ChmPackIs`, `ChmPackedFinds`). (4) `IInv`, which is `CallerInv`,
  `BucketsInv` and `ChmInv`, is inductive over the steps of all nine algorithms: the
  caller's settings add up to the request, in any order; only brz has a config inside of
  another; and from the search on the graph is that of the keys, the function that of
  the graph, the file its dump, the block its pack. TLC found `IInv` true in all states
  of the run `cmph` before the proof.
- `PacksFit`: `Spec => []PackedFits`, for all nine algorithms, by showing that
  `Size(packed)` is equal to `cmph_packed_size`. A block may outlive its function
  (`cmph_load` puts another one in place), so the size must be that of the loaded
  function too, and a size is made of counts that other steps have made: the vertices,
  the widths of cells and remainders, the bits of the Select, the tables of the buckets
  of brz. `PackedInv` follows them: from the config (`NewInv`) over the work of each
  algorithm (`WorkCounts`, and `OuterInv` while brz has called `cmph_new` for a bucket,
  whose function goes to the file at once) to the function (`FunctionInv`), its file
  (`FileInv`) and the block (`PackInv`). A brz function cannot be packed before it is
  loaded. `PackedInv` says that there are tables with certain counts, without a bound,
  which TLC cannot enumerate; TLC checks `PackedFits` itself.

**Model-checked only.** All liveness (`Termination`, `Returns`, `SaveReturns`), which is
outside of the prover's reach. `FindsKeys` and `BlocksReturn`: `Switch` generates and
runs nested code by RECURSIVE operators, which the prover does not take. `NoAbort`,
`TablesExact` and the refinement of `MPHF` by `Cmph` (`KeepsPromise`): of cmph it is
proved that chm is right and that all sizes are. The others speak of what the peeling of
bdz, the matching of bmz, the search of fch and the displacements of chd leave in their
tables, of exact bit tables (set bits, selected bits and ranks, by table lookups in
bytes), and of every assertion on the way; each is a proof as long as that of chm.

## Disagreements with docs, comments and tests

With a run that shows them:

1. `_dict_init` adds `""` without looking whether it is a key already; with the
   duplicate the seed search never ends (`hanovpp_empty_key`).
2. Gperf objects share `pperf_keys.tmp` (`gperf_two_objects`).
3. PerfectHashInt: integer keys that are congruent modulo the table size can have
   no table, although the doc says "any set of Perl integers or strings"
   (`phint_twins`).
4. cmph, chd_ph and chd: with one bin the test whether 1 is a prime never ends, although
   any number of keys in a bin from 1 to 128 is allowed (`cmph_prime`).
5. cxxmph: a map of two elements can never be packed, and its rehash ends the process
   of a caller that has a "drop-in replacement for the popular classes with the same
   names" (`mph_map_exits`).

Met while modelling; the conditions in the properties name them:

- The C type of `G` is chosen by the number of keys, not by the seeds in it; a
  seed that is too large turns into a direct slot, and its keys are not found
  (`FitsTypes`).
- A perfect Pearson table has no collision lists, and the lookup then returns
  undef for every key (`C # Undef` in `Lookup`).
- Pearson's C code: the type of the lengths of the lists is `u_csize` of the longest
  one, which is unsigned char for exactly 256. Such a list has the length 0, and its
  keys are not found (`Fits`).
- HanovPP without -false-positives returns undef for the keys of a hashref whose
  values are not the indices of the sorted keys (`IndexValues`).
- In the C code of HanovPP `v` has the signed variant of the type chosen for
  unsigned values: with 129 to 256 keys the upper half is not found
  (`FitsTypes`).
- The padding is at multiples of 8, not at powers of two as the comment says.
- Urban: tables of two to seven keys get cells of half a byte, which `nvecset`
  writes as whole bytes; one key gives an empty vector and a division by zero;
  a table with no one-key bucket gets no bit for the sign, although the lookup
  takes the highest bit for it (`SignFits`).
- Pearson: the best table is not kept, the one used is the last (Pearson.pm:87);
  the shuffle never exchanges the last entry (Pearson.pm:128).
- Pearson's C code checks a stored key without its final 0: a string that is no
  key is found if it begins a key in its slot or (without -nul) is begun by it,
  although the doc of -false-positives says that keys are checked without it
  (`CFindsKeys` states what it does find). The dummy key of a padded hashref has
  the value -1: where it is alone in its slot, a string that comes there makes the C
  code read `keys[-1]` (`DummyValue`). This came up in the proof of `CLookupIsRight`.
- Switch: the label of a backslash is written `'\'`, which is no C; keys of wide
  characters may get two labels for one length.
- PerfectHashInt: the text generated for integer keys has an unmatched brace.
- Gperf: a child that runs setpgrp after the timeout is missed by the kill and
  writes later (`PromptChild`); a second `save_c` of an object finds no key file
  and leaves an empty output; with a time limit `$errcode` is that of a second
  waitpid, -1 shifted, and never 0 after a success, so that the key file stays;
  the child's `exit(0)` hides gperf's failure; a killed child stays a zombie.
- The hashes of Perl, XS and generated C: the FNV hash in Hash.xs:39 skips the first
  character and reads one past the last; Hash.xs:293 takes the last index for
  the size.
- cmph, bmz and bmz8: a key whose hashes both give the last vertex reads `g[n]` (`++h2 >
  n` in the lookups, `>= n` in `gen_edges`; `LastVertexTwice`); the heuristic's queue is
  too small for some graphs and its assertion fails (`NoAbort` names it, and the
  assertion at brz.c:417 about the sizes that go on after a failed try); bmz8's n
  overflows from 222 keys on, and with exactly 222 it is 0, by which the hash divides
  (jenkins_hash.c:92; `Divides`). `restart_mapping` is set to 0 once and assigned for
  critical vertices only (bmz.c:65, 141-149): after a restart, graphs without critical
  vertices are thrown away until one has some or the 20 restarts are used up.
- cmph, bdz: the degree of a vertex is a byte, so that 257 edges count as one.
- cmph, chd_ph and chd: the search for a prime (`Loops`, above); a
  single key has no probes and always fails; a success at the last probe counts as a
  failure; displacements of a failed attempt stay; a Select of nothing is read
  (select.c:128), which chd makes when no bin above 1 is empty; chd with several keys in
  a bin overflows its table of empty bins.
- cmph, fch: a success in the last iteration returns NULL.
- cmph, brz (`BrzStraight`): sizes are not reset between tries, a failed try's part of
  the file stays, an empty bucket misaligns the load; a packed function keeps only the
  whole part of c; a length split by the window goes to a wrong address, and a file that
  ends with a window gives one key more; memory_availability wraps at 4096 MB; temporary
  files have the same names in every process; without `mphf_fd`, also when that was set
  before the algorithm, brz crashes.
- cmph, adapters: the last line of a file without a newline is not a key; with
  a count by the caller a NULL key is read for it; a file of no keys divides by 0.
  "Returns the position of the found key in the file" holds for chm only
  (`OrderPreserved`).
- CMPH.pm: `save_c` takes the number modulo the size, which merges keys of
  functions that are not minimal (bdz_ph, chd_ph); the keys of a hashref are
  written together with their values.
- cxxmph: `clear` leaves the size of the index, so that the next `find` of a map that
  was packed reads out of bounds (`Undefined`); an erased default key (0 or "") that is
  in the slack is found again, since `erase` leaves its place in the slack with a
  default key in it and `find` asks for nothing else; hence `DefaultKey \notin UserKey`,
  in the run and in the proof; `==` compares the order of the elements too.

## Not modelled

The front end's options, `CMPH.pm` and `CMPH.xs` (a fixed sequence of calls of
`Cmph`), Pearson8/16/32 (Pearson with other widths), Bob (Gperf's protocol with
another command, and a growing header), `save_c` of Urban, the string pool of `C.pm`,
the layout of generated text, `Cuckoo` and `XS` (no table, no output), cmph's
program, benchmark and unused lists, tests, examples, build files and
the generated `ppport.h`; `nbperf` and `bob` are empty directories. The hash
functions of cmph and cxxmph are given functions: nothing here says how
well they spread. Allocation and writing of files succeed. In
cxxmph a seed that works is found within the 1000 tries, and the order of
elements is not told apart.

## Plan

Done, in this order: PerfectHashInt; HanovPP with its proofs and its C code;
Pearson; Gperf with its proofs; Urban; the C lookup of Pearson; Switch with
`memcmp_const_str`; cmph from chm to brz, with the refinement of MPHF; the maps
of cxxmph over their index, with the refinement of StdMap and its proofs.

Done since: the proofs of PerfectHashInt, of the rest of Gperf and of HanovPP
with its C code and bit vector, of Pearson with its C code, and of the index
of cxxmph with the maps over it; in cmph, of chm from the graph to the packed copy, and of
the packed sizes of all algorithms.

Left:

1. Proofs: bdz, whose peeling and ranking are those of `MphIndex`; `TablesExact` of the
   bit tables, and with it chd; the counts of tries in `Cmph`.
2. An abstract dictionary that HanovPP, Pearson and PerfectHashInt implement.
3. The three versions of the FNV hash and where they agree; `save_c` of Urban;
   the string pool of `C.pm`.
4. The maps with operator== and keys that share a 128-bit hash.

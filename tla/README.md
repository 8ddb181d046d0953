# Verification of acorn-dfs

acorn-dfs reads Acorn ADFS disc images in the "new map" formats E and F. This
directory holds TLA+ models of the library and its command line tool, TLC
configurations that check them on small instances, and proofs that TLAPS checks for
every instance. Paths below are relative to the repository (`lib/src/...`,
`cli/src/...`).

## 1. The system

A disc image is a byte array that never changes. Parsing it builds a map, and the
map locates directories and files:

    image bytes -> disc record, zones (MapBlock) -> AllocationMap per zone
                -> fragments -> DiscObject (byte ranges)
                -> Directory -> file tree (lazily) -> get_file, entries -> CLI

The library has one thread and holds no lock, and what can go wrong is elsewhere:
the only mutable state is a cache behind a `RefCell` that is borrowed while
caller-supplied code runs; calls fail half-way and leave the cache partly filled;
everything that is read from the disc may be inconsistent; and the arithmetic of
bits, sectors and zones is full of boundaries.

| Component | Source | State | Operations | What makes it correct |
|---|---|---|---|---|
| File tree and disc access | `new_map/new_map_disk.rs`, `filesystem/mod.rs` | `tree` (path -> SparseDir, LoadedDir or File), `faults`; the image and map are fixed | `parse`, `create_initial_file_tree`, `populate_path`, `insert_dir_entry`, `retrieve_directory`, `get_file`, `entries` | the tree says what the disc says; it is closed under its own structure, so indexing it is safe; answers do not depend on earlier calls; calls return; errors are the documented ones |
| Path and name order | `filesystem/path.rs`, `fixed_len_string.rs` | none | order, equality, prefix test, parsing from text | the order agrees with equality and keeps a directory's descendants together; a prefix test is a prefix test |
| Allocation map and free chain | `new_map/allocation_map.rs`, `fragment_block.rs` | fragments by position, free flags | `parse`, `walk_free_chain`, `get_fragments` | blocks tile the map and lose nothing; the flagged blocks are the free chain; the walk ends |
| Disc objects and regions | `new_map/disc_object.rs`, `new_map.rs`, `disc_record.rs` | none (two scans with counters) | `get_disc_object`, `sort_blocks`, `get_disc_regions`, `get_zone_offset` | the regions are exactly the asked bytes, in order; objects are disjoint |
| Map parsing, formats E and F | `new_map/new_map.rs`, `map_block.rs`, `disc_header.rs`, `disc_record.rs` | zones parsed so far, warnings | boot block, zone loop, cross check, zone check, automatic format | zones all belong to one map; damage is reported; every image ends in a disk, an error or a documented panic |
| Directory records | `directory.rs` | none | the slots up to the first empty name, sequence numbers, attributes, check byte | no entry lost or invented; damage and half-written directories are reported |
| Addresses, bit stream | `util.rs` | position of a stream | `take_ls_bit`, `DiscPosition` | least significant bit first; a short stream is an error |
| Command line tool | `cli/src/main.rs` | files on the host | list, extract, extract all, `.inf` files | what is on the host is what is on the disc; a failure leaves no half-written file unnoticed |
| Old map | `old_map.rs` | none | a straight-line parse | unused by the rest |
| Errors and warnings | `error.rs` | none | contexts and wording | which error a step ends with |

How they interact: `parse` builds the map once, then loads the root directory into
the tree. `get_file` and `entries` call `populate_path`, which walks a path from the
root, looks each prefix up in the tree and, for a sparse directory, calls
`retrieve_directory`: map -> disc object -> regions -> `Directory::parse`. `get_file`
hands the regions of a file, one by one, to a caller's `Write` while it still borrows
the tree. The command line tool calls `entries` and then `get_file` for each path it
listed.

Hard behaviours, with their lines, are the `hazards` of `PROJECT.json`. The main ones:
calls nested through `Write`, calls that fail half-way, answers that depend on what
earlier calls loaded, the mutation of a borrowed tree, loops whose end depends on
data from the disc (`entries`, the free chain), and off-by-one arithmetic at the ends
of maps, zones and objects.

## 2. Modules

| Module | Models | Extends |
|---|---|---|
| `PathOrder` | order, prefix test and valid range of names and paths | |
| `PathText` | paths as text: parsing what a user typed, printing what is listed | `PathOrder` |
| `Directory` | `Directory::parse`: the bytes of a directory, its entries, warnings and check byte | `PathText` |
| `Listing` | from the bytes of the root directory through `list` to a typed path | `Directory` |
| `ListingProofs` | proofs: what the check byte and the sequence numbers notice, stale slots, which path a text denotes, which names read back | `Listing` |
| `DiscImage` | what a disc holds as seen from the file tree, and what a path means on it | |
| `FileTree` | `NewMapDisk`: the cache and the calls, step by step | `DiscImage`, `PathOrder`; instantiates `DiscService` |
| `DiscService` | the abstract disc: answers are functions of the image, no cache | `DiscImage`, `PathOrder` |
| `FileTreeProofs` | proofs: types, shape of the tree, calls in progress, the cache only grows | `FileTree` |
| `DiscAgreementProofs` | proofs: the tree and the calls agree with the disc | `FileTreeProofs` |
| `TransparencyProofs` | proof: `FileTree` implements `DiscService` | `DiscAgreementProofs` |
| `AllocationMap` | one zone's bit stream and free chain | |
| `AllocationMapProofs` | proofs about it | `AllocationMap` |
| `DiscObject` | from an address to byte ranges of the image | |
| `DiscObjectProofs` | proofs about it | `DiscObject` |
| `NewMapParse` | formats E and F and the automatic choice between them | |
| `NewMapParseProofs` | proofs about it | `NewMapParse` |
| `Extract` | runs of the command line tool and the host's files they leave | `FileTree` |
| `ExtractProofs` | proofs about it | `Extract`, `DiscAgreementProofs` |
| `MCFileTree`, `MCAllocationMap`, `MCDiscObject`, `MCNewMapParse`, `MCListing`, `MCExtract` | small instances for TLC | the module they are named after |

### FileTree

Variables: `image`, `tree`, `faults` are the fields of `NewMapDisk` (the image is
fixed, with the map that locates things in it); `phase` is whether `parse` has run,
failed or the program has panicked; `stack` holds the calls in progress; `reply` is
the last answer. A frame of the stack has the operation and its argument, the place
in the code (`populate`, `write` or `scan`), and the locals: `target` and `level` of
`populate_path` (`path` and `components`), `todo`, the rest of `sparse_entries` of a
round, and `left`, the regions still to be written.

| Action | Code |
|---|---|
| `ParseDisk`, `ParseDiskFails` | `create_initial_file_tree` (106-132) as called by `parse` |
| `CallGetFile`, `CallEntries` | a client calls, or a `Write` called by `get_file` does |
| `PopulateCached` | the `LoadedDir` arm of `populate_path`: `continue` (158) |
| `PopulateFile`, `PopulateThroughFile` | the `File` arm (162-170) |
| `PopulateMissing` | the `None` arm (173-201) |
| `PopulateDirectory`, `PopulateUnreadable` | the `SparseDir` arm: `retrieve_directory` and the insertions (216-231) |
| `OpenNotAFile`, `OpenFile` | `get_file` after `populate_path` (283-289) |
| `WriteRegion`, `WriteCutRegion`, `FinishFile` | the loop over the regions and the return (291-295) |
| `ScanTree`, `NextSparse` | one round of `entries`, and the loop over its sparse entries (301-318) |

Each iteration of the loop of `populate_path` is one step, because a nested call can
only run inside `write_all`; an iteration is atomic for every other call. Within an
iteration the order matters only for borrows: the match on `self.tree.borrow()` keeps
its guard through all arms, so the `borrow_mut` of the `None` arm always panics when
it is reached, while the insertions after the match panic only if an outer `get_file`
is writing (`Borrowed`).

What is abstracted: bytes. An image gives every address a listing, how
`retrieve_directory` ends on it (`readable`), its warnings, and the number of regions
of a file (`extent`); `DiscObject` models how these come about. A listing is a
sequence of entries, so two entries may have one name, as on a damaged disc. `cut` has the
regions that lie beyond the end of the image, on which slicing it panics. Names
are the valid range of a `FixedLenString`, compared as the code does.

### DiscService

The abstract specification: a stack of requests and the last answer. `FileOutcome`
and `EntriesOutcome` say which answers an uncached disc can give. Two of its promises
are deliberately what the code keeps rather than what its documentation says: a
missing path may end the program, and `entries` is complete only for prefixes of at
most one segment. The violated runs below show the differences.

### AllocationMap

`bits` is the stream behind the zone's header, `params` the `AllocationParsingParams`,
`pos` the position of the stream, `remaining` the loop's `bits_remaining`, `fragments` the
block map, `cursor` the position of the walk. `DigestBlock` is one round of the loop of
`parse` with `FragmentBlock::parse` in it; `FollowFreeLink` and `FollowChain` are the steps
of `walk_free_chain`. The two `*Fails` actions and `ChainBreaks` are the error returns.

Nothing in the record is validated, so `idlen` may be 0 or more bits than a `FragmentId`
has, and `trailing_bytes` more than the stream has, or (of a `zone_spare` that wrapped)
fewer than none. `overflow_checks` is the build: with it, a subtraction below zero in the
length of the map (`LengthUnderflows`, 88) or in the free link (`LinkOverflows`, 136) and a
shift beyond the width of an id (`DigestPanics`, `fragment_block.rs` 50) panic; without it
they wrap (`MapBits`, `LinkDifference`, `IdBit`).

### DiscObject

`LookUp` is `get_disc_object` (collect the blocks with an id, sort them, turn them
into byte ranges); `StreamRegion` takes one range through both `scan` closures and the
filter of `get_disc_regions`; `EndStream` is the final length check and, for a
directory, the assertion in `retrieve_directory`. `DirLength` is the length asked for and
asserted, 2038, and `DirExtent` what `Directory::parse` then reads, 2048. The wrapping difference of zones in
`sort_blocks` is kept, with a smaller modulus. The map has the zones that were parsed,
whose number is the boot block's, and `NumZones` is the record's. A request has an indirect disc address,
which `Fragment` and `SectorIdx` take apart as `DiscPosition` does.

### NewMapParse

The stream is a sequence of pages, and a page says what parsing a map block there
finds: the disc record, whether the zone check holds, the cross check byte, how
`AllocationMap::parse` ends. `overflow_checks` is the build: with it, computing the
sizes of a disc record may panic, without it they wrap. Three things of a record tell where:
`fits` is the last zone whose offset `get_zone_offset` computes without an overflow, whether
in `zone_spare` (below 32 or as large as the sector), in the power of
`log2_bytes_per_mapbit` or in the products and the sum of the zones; a *narrow* record has a
`zone_spare` below 32, which is also used to read a block; of a *huge* one no `usize` holds
the sector size. `format` is the format asked for, `attempt` the one being parsed, `pos` the
position of the stream, `blocks` the pages the blocks were read from.

| Action | Code |
|---|---|
| `BootPanics`, `BootFails`, `ReadBoot` | `parse_format_f` up to the first block, `get_boot_block` (`new_map.rs` 70-77, 99-103) |
| `FirstBlock`, `FirstBlockFails`, `FirstBlockPanics` | `MapBlock::parse_with_disc_record` (79-129), the cross check of `parse_format_e` |
| `Zone`, `ZoneFails`, `ZonePanics` | a round of the loop of `parse_format_f`, `MapBlock::parse` (28-63) |
| `MapComplete` | the map is returned |
| `FallBack`, `GiveUp` | the match on the format in `NewMapDisk::parse` (61-85) |

Slices of the stream are unchecked, so a short stream panics where the code slices and
fails where it takes. The panic of the automatic mode has an outcome of its own,
`BothFail`.

### Directory, PathText and Listing

`Directory` and `PathText` are operators on sequences of bytes, at the real sizes except
for the number of entries a directory has room for. `ParseDirectory` is
`Directory::parse`: magic strings, the slots up to the first empty name, and the
warnings: attributes, sequence numbers and the check byte. `Accumulator` is the loop of
`compute_checksum`, with a word as a set of bits that are rotated and xored, over the
words and bytes that `CheckedChunks` lists; `FoldBytes` folds the four bytes of the result.
`TryFromStr` is `Path::try_from_str`: `Stops` is where the parser stands behind each
segment and `CountSegments` how many it finds. `PrintPath` is `Display`, with the
library's UTF-8 decoding and escaping as external operators. Names with characters of
three or four UTF-8 bytes are left out.

`Listing` composes them in one session with the tool:

| Action | Code |
|---|---|
| `ReadDirectory` | `create_initial_file_tree` of a disc whose root holds files only |
| `Explode` | `main` panics on any warning of `parse` (114-116) |
| `List` | the loop of `Verb::List` (122-126) |
| `Type` | the `value_parser` of a path argument: a listed line or any other text |

What is read need not be what was written: one byte may differ, or only the front of a
newer directory, which has another sequence number, may have reached the disc.
What was written has no warning but for attributes (`SessionsAssumption`).

### Extract

Extends `FileTree`, whose `Step` runs inside `Listing` and `ReadFile`. `host` maps
the paths that exist on the host to a folder, a data file (the entry each of its
regions came from) or an `.inf` file; `job` is what the run is doing, `exit` how the
last one ended. `StartRun` begins a run with a new disc cache and the files of the
earlier runs. The host's file system is external and modelled from the calls made of it:
creating a file truncates, folders are made one by one, the outermost first, a path with a
trailing slash cannot be created as a file. Any of these calls may fail, and a run may be
killed between any two steps.

| Action | Code (`cli/src/main.rs`) |
|---|---|
| `Load` | parsing the disc and the test for warnings (97-116) |
| `AskKeys`, `Listing` | `entries` for `List` and `ExtractAll` (123, 201) |
| `NextPath`, `Finish` | the loop of `extract_disk` (203-209); `ExtractFile` is one round |
| `MakeFolder`, `FolderMade`, `FolderFails`, `CreateFile`, `CreateFails` | 157-165 |
| `ReadFile` | `get_file` with the file as its `Write` (167) |
| `WriteInf`, `InfFails` | 169-172 |

## 3. What the runs check

Names in parentheses are the properties of the run.

- **FileTree_calls** (`TypeOK`, `TreeShape`, `TreeMatchesDisc`, `CallsAreGrounded`,
  `CallsAreSound`, `PopulatedHasKey`, `CacheOnlyGrows`, `CacheIsTransparent`,
  `CallsReturn`). Images with five root directories (empty, ordinary, names where one
  begins with the other, one name twice in both orders) and two listings each for two
  further directories, and the ordinary ones with each kind of directory that cannot be
  retrieved, with files of no, one or two regions, without a location or beyond the end
  of the image. Any sequence of calls with eight paths and three prefixes, and from
  within a `Write` any call again. The number of calls is not bounded. Whatever was
  asked before, the cache says what the disc says, no call, waiting or running, has more
  to write than its file has or populates what its prefix does not ask for, every answer
  is one `DiscService` allows, indexing the tree finds its key, and every call returns.
- **FileTree_missing** (`MissingPathIsReported`), violated: a path that does not exist
  ends the program. `populate_path` documents `IoError::MissingTarget`.
- **FileTree_list** (`ListsTheMatches`), violated: a prefix below an unloaded directory
  lists nothing.
- **AllocationMap_parse** (`TypeOK`, `BlocksTile`, `BlocksBeginInMap`, `LossIsBounded`,
  `FreeBlocksAreTheChain`, `ChainGoesForward`, `ParseEnds`). A stream of three bytes, every
  content of its first nine bits followed by one of three endings, in both builds. With one
  byte trailing and ids of two bits, six free links: to nowhere, before the map, to block
  starts and to other places, past the end. With ids of none, three, five and 25 bits where a
  `FragmentId` has three. With no, all three, four and minus one bytes trailing.
- **AllocationMap_gaps** (`EveryBitIsAssigned`), violated on well-formed one-byte maps: the loop
  counts each block's terminating bit twice, so the last blocks of a full map of small
  blocks are never read.
- **DiscObject_regions** (`TypeOK`, `RegionsAreTheSlice`, `DirectoryIsContiguous`,
  `ObjectsAreDisjoint`, `BeginsInOwnZone`). Three zones, the first shorter, or two of them
  where the record counts three; every assignment of ids to their blocks; files and directories at and behind the start of
  their object, lengths that end inside a region, at its end and beyond the object.
- **DiscObject_odd_zones** (`MapBlocksComeFirst`), violated: `sort_blocks` rounds the
  halfway zone up where `parse_format_f` rounds it down.
- **DiscObject_free_space** (`FreeSpaceIsNoObject`), violated: `get_fragments` ignores
  the free flag.
- **NewMapParse_formats** (`TypeOK`, `MapIsWhereTheFormatSays`, `AutomaticFindsTheMap`,
  `DamagedZonesAreWarned`, `PanicsAreExplained`, `ParseEnds`). 3245 images of up to seven
  pages in the three formats and both builds: without a boot block, with one that agrees
  with the map's record or differs from it in the number of zones or the size of sectors,
  is narrow or huge, has a unit that wraps to nothing, a `zone_spare` beyond its sector, or
  zones whose sum wraps, where the map is in the last zone that fits or one further; one page of the map damaged in each way a page can be; ending
  before, in and behind the map; and with a first page that is nothing, a sound map of
  format E, a damaged, narrow or huge one, or one whose allocation map fails or panics.
- **Listing_session** (`TypeOK`, `DamageIsNoticed`, `TornWritesAreNoticed`,
  `StaleSlotsPlayNoPart`, `TextDenotesItsPath`, `PlainNamesReadBack`). Directories with
  room for three entries. Damage: every byte of a full directory and of one with a
  deleted entry behind its end, changed to seven values. Torn writes: eight newer versions
  over an older one, torn behind every byte; among eight check bytes a torn directory
  also meets one that agrees. Texts: all of up to three of seven pieces (`$`, `.`, a
  letter, ten letters, a control character, two letters of two bytes each) and all paths
  of up to five of four pieces, against a definition of the path a text spells that is
  not recursive; of a segment with a terminator in it only that it is counted, as
  `Listing_typed` is about what becomes of it. Listings: twelve names with Latin-1 and UTF-8 letters, quotes,
  backslashes and bytes no text has in a name.
- **Listing_typed** (`TerminatorsAreRefused`), violated on the same instance: a letter of
  two bytes of which the second is a terminator is accepted in a typed path.
- **Extract_runs** (`HostTypeOK`, `SuccessIsComplete`, `MetadataFollowsData`,
  `OnlyTheDestinationChanges`, `RunEnds`). Two runs of any command on one of five discs
  (sound, a file cut off, a warned root, an unreadable directory, an unreadable root),
  with four destinations of which two share an `.inf` file, one is that file and one
  lies in a folder in a folder of the first one's name; any operation may fail, any step may be the
  last. One run leaves what the second can meet: nothing, a part, or the whole.

Bounds and why they are enough. A path has at most three segments and the discs are
three levels deep: populate_path treats every level alike, so one level that is cached,
one that is loaded now and one below it cover its transitions. Nesting depth 2 is
enough for the borrow: a deeper call meets the same shared borrow. Three entries are the
fewest with a first, an inner and a last one, and the check byte of such a directory folds
over whole words, odd bytes before and odd bytes behind them, as that of a full one does. A map
of two bytes holds several minimal blocks, so it has a first, an inner and a last one, a chain
with a predecessor and a successor, and blocks that end before, at and behind the end
of the map. `UsizeRange` and `UsizePages`, 65536, are far above every size in the instances, so
that what wraps is apart from what does not, as with a `usize` of 64 bits. Three zones are the fewest that are odd in number and have a zone before
and after the halfway one.

Up to four zones put the map at the beginning of the image and at the first and the
second zone that follows it.

Deadlock checking is off in all runs: clients may stop calling, a failed or panicked
program has ended, `AllocationMap`, `DiscObject` and `NewMapParse` model one call that
finishes, `Listing` ends with the typed path, and `Extract` stops after `MaxRuns` runs.

Fairness. `FileTree`: `WF_vars(Step)`, a call that has begun keeps running. The program
has one thread and waits for nobody, and `Write` returns; no fairness is assumed of
clients. `AllocationMap`, `NewMapParse`: `WF_vars(Next)`, `Extract`: `WF_allVars(RunStep)`, for
the same reason; nothing makes a user start a run or a run be killed. `CallsReturn` holds on
discs whose directories do not contain themselves: on one that does, `entries` loads
ever longer paths and never ends. The instances have no such disc, and the proofs do
not depend on it.

## 4. What is proved

The theorems hold for every value of the constants that the named assumptions allow:
discs of any size and shape, cyclic ones included, and any number of calls, nested to any
depth. Most assumptions only give types, or say what the types and loops of the code
guarantee. Those that are more are preconditions, and the table says who meets them:

| Module | Assumptions |
|---|---|
| `FileTree`, `DiscService` | `NameAssumption`, `ImagesAssumption`, `PathsAssumption`: names are sequences of numbers (bytes); images and paths are of their types. `MaxDepthAssumption`: at least one call can be made |
| `AllocationMap` | `SizesAssumption`: a sector has at most 4096 bytes (`REASONABLE_SECTOR_SIZES`), an id 1 to 16 bits. `BitsAssumption`, `ParamsAssumption`, `BuildsAssumption`: types; a free link has 15 bits, the length of an id and the trailing bytes are any |
| `NewMapParse` | `BuildsAssumption`, `UsizeAssumption`, `BootPageAssumption`, `FormatsAssumption`, `ImagesAssumption`: every page of an image has a type; zone offsets up to `fits` are below the range of a `usize`, which is what `fits` means |
| `DiscObject` | `GeometryAssumption`: zones are counted in a byte; of the bytes of a map bit and those of a sector, both powers of two, one is a multiple of the other. `IdsPerZone` is not zero, although `idlen` and `zone_spare` are not validated: the map of the first zone has been parsed with the same record, so that `zone_spare` leaves at least 473 bits of the sector and an id has at most 255. The sizes are numbers, not `usize`s: that zones times their size fit one, as on every disc whose image fits one, is a precondition. `MapsAssumption`: a block begins inside the map bits of its zone, which is `BlocksBeginInMap` of `AllocationMap`; at most 255 zones were read, since the boot block counts them in a byte. `RequestsAssumption`: types |
| `Directory`, `Listing` | `CapacityAssumption`: a directory has room for an entry. `SessionsAssumption`: what was written is undamaged, and of what is read one byte differs or only a front is new. What the user types is a `str`: a continuation byte has a byte of its character before it |
| `Extract` | `ExtractAssumption`: paths on the host have a component, names have a host path, and the tool's `Write` calls nothing (`MaxDepth = 1`) |

Each proof module has an inductive invariant, one lemma per action that it is kept, one
lemma that combines them, and the theorems.

### FileTreeProofs

| Theorem | Statement |
|---|---|
| `Inductive` | `Spec => []IInv` |
| `Typing` | `Spec => []TypeOK` |
| `Shape` | `Spec => []TreeShape` |
| `Groundedness` | `Spec => []CallsAreGrounded` |
| `IndexingIsSafe` | `Spec => []PopulatedHasKey` |
| `CacheGrowth` | `Spec => CacheOnlyGrows` |

That the tree can be indexed with the parent of a path is not inductive
by itself. It needs the shape of the tree (parents of cached paths are loaded, children
of loaded directories cached) and, for every call in progress, that all levels above
the one it is looking up are loaded: a nested call may have changed the tree since the
outer one looked. `IInv` is the conjunction of these with the types and the empty tree
before `parse`. The key lemmas:

- `InsertKeepsShape`: inserting a directory that is not yet loaded, under a loaded
  parent, keeps the shape and takes nothing away. None of its children can have been
  cached before, since their parent was not loaded. This is where a reload of a loaded
  directory would break the cache.
- `GroundedGrows`: a frame that agrees with a tree agrees with every tree it grows into,
  so the frames below a nested call stay right.
- `LastNamedIsEntry`: the entry left under a name exists; the last of several entries
  is found by well-foundedness of the naturals.

### DiscAgreementProofs

| Theorem | Statement |
|---|---|
| `DiscAgreement` | `Spec => []TreeMatchesDisc` |
| `CallSoundness` | `Spec => []CallsAreSound` |

`MInv` is `IInv` with the two properties. What the cache holds of a path and what walking
the path on the image gives are both functions of the directory one level up (`OneEntry`,
`OneDirectory`), so agreement travels down with each directory inserted (`InsertMatches`).
`CallsAreSound` is needed for the frames that wait: the regions a `get_file` has yet to
write and the directories `entries` has yet to populate were chosen in an earlier tree.

### TransparencyProofs

| Theorem | Statement |
|---|---|
| `Transparency` | `Spec => CacheIsTransparent`, that is `FileTree` implements `DiscService` |

The mapping forgets the tree and keeps of every frame the request. A step of `FileTree`
is then a step of `DiscService` when a call begins or ends, and a stutter
otherwise; `PopulateRefines`, `GetFileRefines` and `EntriesRefines` go through the
disjuncts. An answer has to be one that the disc allows. `EntryDecides`, `MissingDecides`,
`DirectoryDecides` and `FileDecides` say that the outcome of one level of `populate_path`
is decided by the image, by agreement of tree and disc. `Completeness` says that when `entries` has no directory left
to populate, the cached paths that begin with a prefix of at most one segment are all
there are on the disc: the root is loaded from the start, and what it returns is closed under
going down.

### AllocationMapProofs

| Theorem | Statement |
|---|---|
| `Inductive` | `Spec => []IInv` |
| `Typing` | `Spec => []TypeOK` |
| `Tiling` | `Spec => []BlocksTile` |
| `Beginnings` | `Spec => []BlocksBeginInMap` |
| `BoundedLoss` | `Spec => []LossIsBounded` |
| `ExactChain` | `Spec => []FreeBlocksAreTheChain` |
| `ForwardWalk` | `Spec => ChainGoesForward` |

`IInv` is the types with `BlocksTile`, `BlocksBeginInMap` and `FreeBlocksAreTheChain`, how
position and counter of the loop follow from each other (`Digested`) and what the walk has
flagged so far (`Walked`). `WordExists` shows that a stream has an id at every place, so that
the one the model chooses exists. `LossIsBounded` follows from the counter: what the loop
does not count is one bit per block. The walk goes forward because the link of a block is
its id, and a block whose id is zero ends the walk (`NextIsAhead`).

### NewMapParseProofs

| Theorem | Statement |
|---|---|
| `Inductive` | `Spec => []IInv` |
| `Typing` | `Spec => []TypeOK` |
| `RightMap` | `Spec => []MapIsWhereTheFormatSays` |
| `AutomaticMode` | `Spec => []AutomaticFindsTheMap` |
| `ExactWarnings` | `Spec => []DamagedZonesAreWarned` |
| `ExplainedPanics` | `Spec => []PanicsAreExplained` |

`IInv` says how far the attempt has come and what it has found there (`Progress`), and what
an attempt that failed has shown of the image (`Failures`): the second attempt begins
without a trace of the first, so that the reason for a panic in automatic mode has to
be remembered by the invariant.

### ExtractProofs

| Theorem | Statement |
|---|---|
| `HostInductive` | `HostSpec => []HInv` |
| `HostTyping` | `HostSpec => []HostTypeOK` |
| `CompleteExtraction` | `HostSpec => []SuccessIsComplete` |
| `MetadataLast` | `HostSpec => MetadataFollowsData` |
| `OnlyDestination` | `HostSpec => OnlyTheDestinationChanges` |

`HInv` takes `MInv` over from the disc: a step of the tool that calls the disc is a step of
`FileTree` (`DiscStep`), a killed run drops the tree, which keeps it (`DroppedMInv`). To
this come that the call in progress is the one the run is waiting for (`JobMatchesCalls`),
that what the file holds so far and what the call has left to write are
together the file's data (`DataIsWritten`), and that a run which is past the data has
written them all (`DoneIsExtracted`). `SuccessIsComplete` has to hold whatever earlier
runs, killed ones included, have left at the destination.

### DiscObjectProofs

| Theorem | Statement |
|---|---|
| `Inductive` | `Spec => []IInv` |
| `Typing` | `Spec => []TypeOK` |
| `ExactSlice` | `Spec => []RegionsAreTheSlice` |
| `WholeDirectory` | `Spec => []DirectoryIsContiguous`, for any length asserted and any length read |
| `NoSharedBytes` | `Spec => []ObjectsAreDisjoint` |
| `HomeZone` | `Spec => []BeginsInOwnZone` |

`Progress` has the two scans of `sector` in closed form: offset, budget and the bytes handed
out are functions of the number of bytes in the regions passed, and the bytes handed out are
the first ones asked for. Every region the scans cut takes the same bytes off both sides
(`RangeCut`, with `SizesAddUp` and `BytesOfAppend` on the recursive sums). That objects share
no byte rests on `BlocksApart`: blocks of one zone are divided and zones follow each other
(`ZonesFollow`). `RanksAreTaken` and `Sorted` show that the sorted fragments are all
fragments, each once and in order.

### ListingProofs

| Theorem | Statement |
|---|---|
| `Inductive` | `Spec => []IInv` |
| `NoticedDamage` | `Spec => []DamageIsNoticed` |
| `NoticedTornWrites` | `Spec => []TornWritesAreNoticed` |
| `StaleSlots` | `Spec => []StaleSlotsPlayNoPart` |
| `Typing` | `Spec => []TypeOK` |
| `TextPaths` | `Spec => []TextDenotesItsPath` |
| `ReadBack` | `Spec => []PlainNamesReadBack` |

`IInv` says that entries and warnings are what `ParseDirectory` makes of the bytes read,
that the lines are those of the paths, and that the path is what `TryFromStr` makes of one
of them or of the user's text. The rest is about bytes, for directories with room for any
number of entries and texts of any length.

A changed byte changes one word of those the check byte covers, and in it at most eight
adjacent bits (`OneByteIsABurst`). The rotations move these bits around the 32 of the
accumulator but keep them adjacent (`RotatedBurst`), and the words behind it are xored to
both accumulators alike (`DifferenceIsRotated`). Folding the four bytes xors bits that are
eight apart; of eight adjacent ones no two are, so that none is cancelled
(`BurstsAreTold`) and the check bytes differ (`ChecksumTells`). This needs that the two
directories have the same number of entries, as `DamageIsNoticed` says: otherwise the check
byte covers another range. Changes of the check byte itself, of the magic strings, of the
sequence numbers and of what it does not cover are the other cases of
`ChangedByteIsNoticed`.

A torn directory with the sequence number of the newer version at both ends has all
entries of the newer one, and with that of the older one it is the older one
(`SequenceNumbersTell`). `StaleSlotsDoNotCount` goes through the parts of
`ParseDirectory`, of which none looks behind the first empty name.

The functions that are defined by recursion over positions (`Accumulator`, `Stops`,
`PrintName`) exist and take one step per position because something that is made step by
step does (`Iteration`, by the least position at which it would fail). For a text,
`StopsAscend` says that the parser goes forward, and `StopsCover` that it passes over
nothing: so an accepted text has its stops at its separators (`StopsAreDots`), and in a path
text the parser can stop nowhere but at the end (`PathTextAccepted`). `TextNames` is where
UTF-8 counts: behind a separator, which is ASCII, no continuation byte follows, so that no
name is cut to nothing.

A line is printable ASCII whatever the name's bytes are (`PathPrints`, `LineOfName`),
since a character beyond it is printed as `\u{..}` (`EscapeIsPrintable`). A plain name is
printed as it is (`PlainIsVerbatim`) and has no byte at which the parser stops early
(`PlainReadsBack`). If a line reads back, its one segment is the name
(`ReadBackIsPrefix`), so that the name is printable and the line is at most a separator
longer; every escape makes it longer, and it ends as the name does (`ReadBackIsPlain`).

### Only model-checked

- Liveness: `CallsReturn` and `ParseEnds`, of both parsers, and `RunEnds`. The prover covers neither fairness
  nor `ENABLED`.
- The six runs with a violation: one counterexample is all there is to show.

## 5. Disagreements between code and documentation

Each is a violated run, listed under `findings` in `PROJECT.json` with the lines.

1. A missing path panics with a `RefCell` borrow error unless its directory is empty.
2. `entries` with a prefix depends on what is already loaded, and lists paths shorter
   than the prefix.
3. The tail of a full allocation map is not read.
4. With an odd number of zones, object 2 does not begin with the map.
5. A free block whose link equals an object's id becomes part of the object.
6. A typed name with a byte between 80 and 9F in its UTF-8 form, as À has, is not refused:
   the parser stops at ASCII control characters, `len` at any, and the name is cut there.

Seen and not given a run:

- Warnings of directories loaded after `parse` never reach `NewMapDisk.faults` (lines 280
  and 316 drop what `populate_path` returns).
- Format F checks no cross check although format E does.
- An `extract` whose destination ends in `.inf` succeeds and leaves the metadata in the
  place of the data; `SuccessIsComplete` says so.
- Extracting all files panics before the first one: the first key is the root directory,
  whose destination ends in a slash and cannot be created (`cli/src/main.rs` 203-208; the
  command is documented as "Extract all files to the given folder", 58).
- `Directory::LENGTH` counts one byte for a header that takes five and 35 for a tail that
  takes 41: 2038 instead of 2048, and `retrieve_directory` asserts that so many lie in one
  region. Blocks and sectors are multiples of a unit, the lesser of the bytes of a map bit
  and those of a sector, so that with a unit of 16 bytes or more the other ten lie there too
  (`DirectoryIsContiguous`). With one of 8 bytes only 2040 are known to be the directory's,
  and the last 8 may be another object's: the assertion does not protect such a disc. No
  comment says that it does.
- In a debug build, a `log2_sec_size` of 64 or more panics although the rejection of such
  sizes is one line further, and in the automatic mode an image of format F that begins
  with one is not found (`PanicsAreExplained`, `AutomaticFindsTheMap`).
- A listed line with an escape typed as a path is refused or names something else
  (`PlainNamesReadBack` says which lines read back).

## 6. Plan

Done: the modules of section 2 and the proofs of section 4, which cover every invariant,
every action property and the refinement that the passing runs check. What is left, in this
order:

1. For `AllocationMap`, `NewMapParse` and `Extract`: a measure in the natural numbers that
   every step lowers. With it `ParseEnds` and `RunEnds` rest on fairness alone.
2. `MapsAssumption` of `DiscObject` from the theorems of `AllocationMap`: a map that was
   parsed is one that the assumption allows.

Not modelled, and why:

- `old_map.rs`: a straight-line parse that nothing calls; it has no state and no
  interaction, and what it returns is not used.
- `error.rs`: the contexts an error gathers and the wording. Which error or warning a step
  ends with is part of the modules.
- `calculate_zone_check`: a page says whether its zone check holds. The sum that the code
  computes is the definition of the check byte, and it is weak by design: adding one to
  one byte and carrying into the next can leave it unchanged, so that no property of the
  kind of `DamageIsNoticed` holds of it.
- `AllocationParsingParams` that wrap are modelled, but a page of `NewMapParse` only says that
  its allocation map panics, fails or parses: the two modules are not composed.
- Zone offsets are counted in pages, also where they wrap; an offset inside a page, as a
  `zone_spare` that no formatter writes gives it, is taken for the page.
- Characters of three or four bytes in names on the disc: their bytes are replaced one by
  one when such a name is printed, where the library decodes them.
- `convert_path_to_os` panics on a name that is not UTF-8, and a name it turns into `..`
  leads out of the folder (`cli/src/main.rs` 190-198). Both are behind the panic on the root
  directory, which is the first of the keys, and no run reaches them.
- JSON output and the layout of `.inf` files. Timestamps and attributes of directory
  entries play no role but the directory bit and the warning.

# A TLA+ model of the NetDrive Samba plugin (ndpsmb)

`ndpsmb` is a plugin of the NetDrive file system for OS/2 and eComStation. The
NDFS control program loads it, mounts *resources* (a Samba workgroup, server or
share) through it and forwards every file system request to it; the plugin
answers from a directory cache or through the Samba client library.

## 1. Inventory

| part | source | state it keeps | operations |
|---|---|---|---|
| directory cache | `src/src/dircache.c` | per resource: a newest-first list of listings with a capacity and an expiration time, a mutex | `dircache_create/delete`, `list_files`, `write_begin/entry/end`, `invalidate`, `find_path` |
| directory listing | `src/src/smbwrp.c` 897-1335 | the listing in progress (`filelist_state`), the cache entry being filled | `smbwrp_filelist`, `list_files`, `list_files_smb2`, `smbwrp_dir_add` |
| plugin mutex | `src/src/ndpsmb.c` 131-169 | one recursive mutex for the whole plugin | `ENTER`/`LEAVE` in every handler |
| connections | `src/src/ndpsmb.c` 923-1245, `smbwrp.c` 255-436, 745-890, 1583-1603 | per connection: the `cli` handle, one open file, its modification time | `NdpCreateConnection`, `NdpFreeConnection`, `NdpQueryPathInfo`, `NdpFindStart`, `smbwrp_connect/disconnect/echo` |
| path parser | `src/src/ndpsmb.c` 575-676 | the resource's current workgroup, server, share and level | `pathparser`, `NdpMove`'s prefix comparison |
| resources | `src/src/ndpsmb.c` 365-867 | properties, credentials, the cache | `initResource`, `NdpMountResource`, `NdpFreeResource`, `NdpRsrcCompare`, `checkMountResource` |
| namespace handlers | `src/src/ndpsmb.c` 1271-1304, 1608-1881 | none of their own: they change the server and invalidate the cache | set path info, delete, create and remove directory, move, open, set attribute |
| file handlers | `src/src/ndpsmb.c` 2122-2319, `smbwrp.c` 430-740 | the open file: `fd`, offset, size, pending attributes and times | info, seek, size, read, write, flush, close |
| extended attributes | `src/src/ndpsmb.c` 171-200, 1306-1568, 2011-2116, `smbwrp.c` 1337-1530 | none | EA query, size, set |
| disk size | `src/src/ndpsmb.c` 867-919, `smbwrp.c` 1534-1578 | none | `NdpRsrcQueryFSAllocate`, `smbwrp_dskattr` |
| password coding, time conversion, error mapping, logging | `ndpsmb.c` 202-360, `smbwrp.c` 100-250, `util.c`, `debug.c` | none | pure functions and a log file |
| NDFS host, Samba client library | not in the repository | the plugin's caller and its server | external |

The control program calls the plugin from several threads. In the shipped
build (`LIBSMB_THREAD_SAFE=0` in `src/src/config.kmk`) every handler enters one
plugin mutex first, so requests are serialised; only the directory cache has a
mutex of its own and would also be safe to call without. The cache belongs to
the resource and is shared by all its connections. The handlers change the
server through `smbwrp_*` and then call `dircache_invalidate` for the parent
directory; queries and listings look into the cache first.

What is hard here: a listing that is filled over several calls while others
invalidate; failure of the server, of a reconnection or of an allocation in the
middle of an operation that already changed shared state; handlers that forget
an invalidation or a mutex release on one path; a connection handle that is
freed, replaced and used again; buffer and capacity arithmetic at its
boundaries.

### What makes each part correct

- *Directory cache*: one owner for every entry; the capacity is respected; an
  incomplete listing is never served; nothing is served after its timeout or
  after an invalidation; a removal removes every listing of the directory.
- *Listing buffer*: no store or read outside the block, whatever `realloc` does.
- *Plugin mutex*: libsmb is entered by one thread at a time; every `ENTER` has its
  `LEAVE` on every path; every request returns.
- *Connections*: no session is used after `cli_shutdown`; a handle is used on the
  session it was opened on; a request reaches the share its path names.
- *Namespace and file handlers*: the user sees his own changes in the next listing.
- *Directory listing*: what is cached is complete; what the host gets is what the
  mask asks for, once; a failure is told as one; every request returns.
- *File handlers*: host and plugin agree on the file pointer; no server handle is
  forgotten; attributes and times that are deferred reach the file they were
  meant for.
- *Extended attributes*: a list is set in order and wholly or the host is told;
  a query returns what was asked for and says when it had to cut.
- *Path query*: every answer has a cause in what the server or the cache said.
- *Resources*: settings stay in their ranges, names and session belong together,
  caches are given back, a move stays on its share, no more disk space is
  told than there is, passwords survive their coding.

`PROJECT.json` lists the hazards at the lines where they bite, each with the
properties that guard it, or the reason why none does.

## 2. Modules

| module | models | uses |
|---|---|---|
| `DirCache` | the cache API of `dircache.c` under threads, expiry and failing allocations | `ListingCache` (as the abstract specification) |
| `ListingCache` | what a directory cache promises, without list, heap, ages and locks | |
| `DirEntry` | the buffer of one listing and its arithmetic | |
| `Session` | plugin mutex, handlers' control flow, connections, reconnection, share switch | |
| `OwnWrites` | the handlers that change the server, the server and the cache | `ListingCache` (extended: its actions are the cache calls) |
| `Listing` | `NdpFindStart` and `smbwrp_filelist`: what a listing answers and what it caches | `ListingCache` (extended) |
| `OpenFile` | the open file of a connection: handle, offset, deferred attributes and times | |
| `ExtAttr` | extended attributes: walks over packed lists, sizes, results | |
| `QueryPath` | `NdpQueryPathInfo`: what it answers | |
| `Resource` | properties, mount, path parser, move, compare, disk size, password coding | |
| `MCFiles` | `OpenFile`, `ExtAttr`, `QueryPath` and `DirEntry` side by side | all four (extended) |
| `MCDirCache`, `MCOwnWrites`, `MCListing`, `MCResource` | constants and symmetry sets for the model checker | |
| `DirCacheProofs`, `DirEntryProofs`, `SessionProofs`, `ListingProofs`, `OwnWritesProofs`, `ResourceProofs` | theorems about the module each is named after | that module (extended) |
| `FilesProofs` | theorems about `OpenFile`, `ExtAttr` and `QueryPath` | the three (extended) |
| `Induction` | lemmas without a model: induction over the naturals, recursive functions, `FlattenSeq`, greatest and least elements | extended by `FilesProofs` and `ResourceProofs` |

`DirCache` is shown to implement `ListingCache`, and `OwnWrites` and `Listing` are
built on `ListingCache`: so what they say about coherence and completeness holds
with the real list behind it, and none of the models carries the others' state.

`MCFiles` composes four modules that share no variable. Only one of them
moves in a behaviour while the others rest in an initial state: each
reaches all the states it reaches alone, and their product, which would show
nothing more, is not built.

Definitions whose comment starts with "Mutant:" are not part of a
specification. They are plausible wrong versions of the definition that follows
them, named in `PROJECT.json` with the property that tells the two apart.

## 3. How the modules correspond to the code

### DirCache

| model | code |
|---|---|
| `list` | `pEntriesHead .. pEntriesTail`, head first; `cEntries` is its length |
| `entry[e]` | a `DirectoryCacheEntry`; `age` is `timesec() - ulLastUpdateTime`, capped at `Horizon`, above which all ages are alike |
| `pdc`, `cMaxEntries` | the resource's cache pointer, the property `cache listings` |
| `pc`, `dir`, `ctx` | a thread's place in its request, its directory, its `dircachectx` |
| `trapped` | an access violation: the process is gone |
| `answer`, `outdated` | ghosts: what was last served, and whether a listing or a fill was invalidated meanwhile |
| `ListHit`, `ListExpired`, `ListMiss` | `dircache_list_files` with `dcFindDirCache` |
| `BeginReuse`, `BeginCreate`, `BeginNoMemory`, `BeginNoCache`, `BeginTrap`, `BeginTrapNoPath` | the outcomes of `dircache_write_begin` (all but `BeginNoCache` and `BeginTrap` evict the tail when the list is full) |
| `WriteEntry`, `WriteEntryNoMemory` | `dircache_write_entry` |
| `WriteEnd`, `WriteEndInvalid`, `WriteEndTrap` | `dircache_write_end` |
| `GiveUp`, `Abandon` | the caller fails before `write_begin`, or between it and `write_end` (`list_files_smb2` on an error) |
| `InvalidateStart/Step/End` | `dircache_invalidate`, turn by turn, with the cache mutex held |
| `QueryHit` | `dircache_find_path` as `NdpQueryPathInfo` uses it |
| `Tick` | a second passes |

An entry point is one step because it holds the cache mutex for its whole body.
`Serialized` chooses between the shipped build, where the plugin mutex surrounds
whole requests, and one where only the cache mutex remains
(`LIBSMB_THREAD_SAFE=1`). The constants
`ulHash` and `folded` give a path's hash and the path without case: `IsFor` is
`dcFindDirCache`'s test of an entry, the hash of the path *as it is spelled* and then
the comparison without case. Two spellings of one directory are two
directories to the cache, unless their hashes collide. `Abandon` returns the cell to the model's heap; in the
code that entry is leaked. `dcWriteBegin` on an entry it finds again is
`BeginReuse`, which only unserialised threads reach.

### DirEntry

Sizes are counted in `smbwrp_fileinfo` structures. `CreateSmb2` starts with
the constant first allocation of the SMB2 listing, `CreateSmb1` with the number
the server announced. `Write`, `GrowAndWrite` and `GrowFails` are
`dceWriteEntry`; `EndAsIs`, `EndAdjusted`, `EndNotAdjusted` and `EndInvalid`
are `dceAdjust` (with its `cFree`) and the choice in `dircache_write_end`; `Reuse` is
`dcWriteBegin` on a listed entry, which the plugin mutex excludes. `block` is the
room that the memory really has, `cInfosAllocated` what the entry believes.

### Session

A handler is a sequence of steps: `enter`, the path parser, the echo, the libsmb
call, `leave`. Each step that calls libsmb is one action, so other threads
act in between. The handlers that do the same to the modelled state share a
name: `query` (`NdpQueryPathInfo`), `find` (`NdpFindStart`), `change`, `mkdir`,
`open`, `file`, `read`, `close`, `eaget`, `easet`, `connect`, `free`, and
`alloc` for the disk size query with its temporary connection.

| model | code |
|---|---|
| `owner`, `depth` | the plugin mutex, recursive as the OS/2 mutex semaphore is |
| `res` | the share in the `Resource`, common to all its connections |
| `sess[c]`, `fd[c]` | `pConn->cli` and `pConn->file.fd` |
| `share[c]` | ghost: the share the session was made for |
| `ParseSame`, `ParseSwitch`, `ParseRefused` | `pathparser` |
| `EchoAnswered`, `EchoFailed`, `Reopen`, `ReopenRefused` | `smbwrp_echo` and the reconnection without disconnect |
| `Drop`, `Redial`, `RedialRefused`, `Retry` | the disconnect, reconnect and second attempt of `NdpQueryPathInfo` and `NdpFindStart` |
| `EnterNested`, `LeaveNested`, `LeaveToSetEa` | the EA calls made inside a handler, and after its `LEAVE` |
| `TempConnect`, `TempUse`, `TempShut` | `NdpRsrcQueryFSAllocate` |
| `SessionDrops` | the server or the network ends a session |

### OwnWrites

A handler is two steps, because the code invalidates first and then asks the
server: `Enter` (mutex, `dircache_invalidate` of the parents) and one action per
change, or `Refuse`. A listing is two steps too, `ListRead` (the server answers)
and `ListInsert` (`dircache_write_end`). `file` remembers that a handle has
changes that the close will apply.

`Dirs` are paths as spelled, which is what the cache goes by (see `DirCache`), and
`folder` is the directory of the server that a path names: an invalidation forgets the
listing under one spelling, a change shows in the listings under all. The ghost
`uncovered` holds the paths whose listing was made stale by a handler that does not
invalidate it, or that was given another spelling (`Spelled`, `Respelled`).

### Listing

| model | code |
|---|---|
| `place`, `want` | the directory, or the workgroup, server or share list, and the names that `fsphWildMatch` and `fsphAttrMatch` accept |
| `plist` | the host's list, as the number of times a name was added |
| `Hit`, `Miss` | `dircache_list_files` |
| `Receive`, `Copy`, `ReceiveFails` | `list_files` over SMB1; its `num_finfo` is not initialised on the failing path, so that path may be a success |
| `LeftInCli` | `os2cli_errno(cli)` after a failure: `smbwrp_filelist` drops the status of the listing and asks the session, after `cli_smb2_close_fnum`, what its last call left there; that may be no error |
| `Begin`, `Open`, `Entry`, `End`, `Smb2Fails` | `list_files_smb2`, entry by entry, with a failure after any of them |
| `FnStatus`, `GoesOn` | the value that `smbwrp_dir_add` does not return and the test it goes into |
| `Specials`, `Enumerate`, `EnumerateFails` | the three enumerations of `smbwrp_filelist` |
| `Again`, `Finish`, `Fail` | the reconnection in `NdpFindStart` and the second attempt with the same list |

`smbwrp_dir_add` is declared to return a status and has no `return`. In the build
(`-O1` or `-O0`, one object file per source) its last act is the call of
`getfindinfoL`, so the register holds 1 or 0, and 1 is `NT_STATUS_WAIT_1`; the
comment at `smbwrp.c` 1135 ("not sure why this is required on OS/2") is about
that. `FnStatus` is this pair of values; another compiler could produce others,
and with one the mutant of `CachedComplete` shows what would follow.

The ghosts `failed` and `lost` hold the attempts in which a call failed, and in which
a cache entry was leaked: a request makes one attempt, or two.

Assumed of libsmb: an enumeration calls back only with a complete answer. Nothing is
assumed of `cli_errno`: it may report no error. Other clients do not change
a directory during its listing (between listings they may, `OwnWrites`).

### OpenFile

A connection has one `smbwrp_file`: `fd`, `fname`, `openattr`, `mtime`, `updatetime`
and `offset` are its members (`btime`, `atime` and `ctime` go the way of `mtime`).
`offset` is an `unsigned long long`; `Word` stands for its 2^64 and `Signed`
reads it back. `open`, `attr`, `time` and `size` are the server's. Each handler is
one or two actions (`Read` and `ReadFails`), `Open` stands for `OpenExisting`
(`truncate` FALSE, attribute 0), `OpenReplace` and `OpenCreate`. Two conditions
of the code differ: `Busy` (`fd > 0` in `smbopen`) and `Closed` (`fd < 0`
everywhere else), so a file with handle 0 is open and may be opened over. The ghosts:
`pos` is the file pointer as the host counts it, `due` what the host has asked for
through the handle and not got, `broken` the handles the server would not close,
`hidden` a call that failed and was told as success.

### ExtAttr

A name is a sequence of characters because `buildFEALIST` compares by the length
of the requested name; a value is its length, 0 deletes. Sizes are in
bytes, as in the code: `FeaSize` is one FEA, `ListSize` the `cbList` of a list.
`Done` and `Turns` are the `while (done < cbList)` loop of `helperEASet` and
`NdpFileEASet`, which steps to the next element before it adds a size: it counts
the sizes of the second to the last element and of whatever lies behind (`Behind`).
`Among` is the walk of `buildFEALIST` and of `unilistea` that puts some EAs of a list
behind one another. `Query` is `buildFEALIST` with a buffer of any size; `by` tells path, handle and
create apart, whose results differ. A list that `unilistea` builds is assumed to fit its buffer
of 64 KB, which is what OS/2 allows a file's EAs. `MaxValue` stands for the 65535 that `cbValue`
can hold.

### QueryPath

The steps of one `NdpQueryPathInfo` with the server changing and the session
breaking between them. Results are the codes behind `maperror`. `saw` remembers
what the calls met, which is what the answer must have come from. `nt` is the
server's `CAP_NT_SMBS`: with it `smbwrp_getattr` turns EINVAL into ENOTDIR, without it
the error of `cli_getatr` is passed on (`Getattr`). A new session may be to another kind
of server. `Session` has
the mutex and the pointers of the same handler.

### Resource

| model | code |
|---|---|
| `res[s]` | a `Resource`: root level, the three names, the settings; `asked` and `parsed` are ghosts |
| `cli[s]` | the names that the session of its connection was made with |
| `Setting`, `InitRefuses` | a property in `initResource`: stored, or left at its default; only the last one read decides about the mount |
| `Mount`, `MountRefused`, `Free` | `NdpMountResource` with `checkMountResource`, `NdpFreeResource`; a refused mount leaves its cache behind |
| `Component`, `Differs`, `NewNames`, `Rest`, `Parsed`, `ParseRefused` | `pathparser`, component by component from the root level on |
| `Prefix`, `Across`, `NewName` | the pointer arithmetic of `NdpMove` |
| `Scale`, `Sector`, `Units` | `smbwrp_dskattr`, with `SectorWord` for 2^16 and `UnitWord` for 2^32 |
| `tohex`, `fromhex`, `encryptPassword`, `decryptPassword` | the same functions; `inOrder` is the compiler's choice between two unsequenced reads |

`fsphQueryUlongProperty` is assumed to return an error for a property that is not
given. Paths have no empty components: the host normalises them. A disk's blocks
hold at least one byte.

## 4. Model checking

| run | instance | distinct states | shows |
|---|---|---|---|
| `dircache_serial` | 2 threads, 3 spellings of one directory with hashes of their own, 2 names, 4 cells, capacity 0..3, timeout 1 and query limit 2 (the defaults are 10 and 15 seconds) | 6511 | `UniquePaths`, `NewestFirst`, `AnswersFresh`, `TrapsExplained`; the cache implements `ListingCache` |
| `dircache_threads` | 2 threads, 2 directories with one hash, 4 cells, capacity 0..2, failing allocations, only the cache mutex | 31208 | `TypeOK`, `EntryOwnership`, `CapacityBound`, `InvalidateRemovesAll`, `ListedImmutable` |
| `session_private` | 2 threads, 2 connections, one share, sessions break, reconnections succeed | 83422 | `LibsmbSerialized`, `MutexMatchesHandlers`, `NoUseAfterDisconnect`, and that every request returns |
| `session_shares` | 2 threads, 1 connection, paths that name a share, refused connections | 45344 | `RightShare` |
| `own_writes` | 2 threads, a root and 2 directories, one of them with 2 spellings, 1 name, 2 attribute values, capacity 2, every handler | 1197974 | `CoherentButUncovered`; the handlers use the cache as it promises |
| `listing` | 2 directories behind a cache for one, 2 names, 3 enumerations, both protocols, any call fails, with or without an error left in the session | 37664 | `CachedComplete`, `DeliversExpected`, `FailuresAccounted`, and that every request returns |
| `files` | 2 files, handles 0 and 1, size and pointer within 1, `Word` 8; 3 EA names, lists of 1 or 2 EAs, 6 buffer sizes; a session lost up to 3 times, servers with `CAP_NT_SMBS` and without; listing buffers that start with room for 4, up to 12 files, both builds | 359142 | `HostAgreesOnOffset`, `NothingLeftBehind`, `DeferredReachTheFile`, `HiddenFailuresNamed`; `SetInOrder`, `QueryAnswered`; `AnswerAsDocumented`; `BufferInBounds`, `CompleteOrInvalid` |
| `resource` | 2 resources at any level with settings in and out of range, 8 paths over shares `a`, `A` and `ab`, 20 disks, 4 passwords | 1628177 | `SettingsInRange`, `ResourceMatchesSession`, `ParsedShare`, `MoveWithinShare`, `CachesAccounted`, `EqualOnlyByParsing`, `DiskSizeTold`, `PasswordKept` |

Why the bounds are enough:

- *Directory cache.* Every action names one thread, one directory and one cell.
  Two threads are enough for every pair of calls to cross; three directories are
  one more than the middle capacity, so that eviction happens with a hit, a
  miss and an expired listing present; capacities start at 0 or 1 because the
  boundary is where eviction meets the empty list. Four cells are the capacity
  plus one fill per thread in the threaded run, so the model never runs out
  of heap where the code would not. Ages are compared with two thresholds only and are
  capped one above the larger. The serial run has
  paths that differ in their hash only, the other one paths that differ in their comparison only:
  neither test alone tells all paths apart.
- *Listing buffer.* From 4, the buffer grows to 7 and to 11 and then once more:
  the growth formula is used three times, from an even and from an odd size;
  directories smaller than half the first allocation exercise `dceAdjust`.
- *Session.* The properties relate one thread to another and one connection to
  another. The nesting bound `MaxDepth` is 3 or 4; `MutexMatchesHandlers` shows
  that a second level is the deepest while nothing is refused, so the bound cuts
  nothing off there. With refusals a thread that kept the mutex can enter again and the bound
  limits how often; the theorem about `LibsmbSerialized` has no bound on threads.
- *OwnWrites.* One handler and one listing can cross with each other and with
  one move between two directories; two attribute values tell old from new. One
  directory with a second spelling is enough for a change under one of them to meet listings under
  both; a third would be a second of the same kind.
- *Listing.* One entry that matches the mask and one that does not, or two of a
  kind, give every sequence of statuses; the directory may be empty; a cache for
  one makes the second directory evict the first.
- *OpenFile.* Handle 0 and a handle above it are the two kinds `smbopen` knows.
  `Word` is more than twice what pointer and size can reach, so that below zero
  and beyond the end stay apart, as 2^64 keeps them.
- *ExtAttr.* One name is a prefix of another, values are empty, short, as long as
  `cbValue` can say and longer; buffers hold nothing, a header, some or all; what
  lies behind the list is smaller than, as large as, or larger than an EA.
- *QueryPath.* The handler calls the server at most four times; three losses are
  one more than its retry can meet.
- *Resource.* Names that are equal but for case and names of which one begins the
  other are what comparisons by prefix confuse; disks lie on both sides of
  every branch and wrap both words. The refused mounts are bounded by `MaxRefused` = 1:
  each leaves one cache or none.

Symmetry: `dircache_serial` and `dircache_threads` permute threads, directories,
names and cells, `own_writes` its threads, its attribute values and the two spellings, `files` the two files, `resource`
the two slots; no definition orders them. Runs with a liveness property use none.

Deadlock checking is off in `dircache_serial` and `dircache_threads`, where the process may trap, in
`session_shares`, where a kept mutex stops the other threads, and in the
runs that show a disagreement.

### Fairness and what is assumed of the host

There are two liveness properties. `FindReturns` (a listing request returns) assumes
weak fairness of the request's own steps together: libsmb calls return. It rests on
the second attempt being the last one, and holds with a connection that is
lost every time. `CallReturns` assumes weak fairness of a
handler's own steps: each is computation or a libsmb call, and libsmb calls
have time-outs, so they return with an error at worst. It assumes strong fairness of
`ENTER`: `lockRequest` asks the host's helper for the mutex with an indefinite
wait, and OS/2 serves the waiters of a mutex semaphore in turn, so a thread
that waits while the mutex is freed again and again gets it. No fairness is
assumed of the host's requests or of sessions that break, and no attempt after a
reconnection is assumed to succeed. `CallReturns` is checked where reconnections
are not refused; where they are, it fails (`session_lock_kept`).

Assumed of the host: it runs one request at a time on a connection, and frees
a connection only when no request is under way on it. It does send requests for a
path over a connection that has a file open: `smbopen` tests for that. A reconnection on
behalf of such a path leaves a stale handle behind (`session_stale_handle`).

### Where code and documentation disagree

Four runs are expected to be violated; the trace is the demonstration.

| run | property | what happens |
|---|---|---|
| `session_lock_kept` | `CallReturns` | a refused reconnection after a failed echo returns without `LEAVE` (`NdpQueryPathInfo`, `NdpFindStart`) |
| `session_freed` | `NoUseAfterDisconnect` | after `smbwrp_disconnect` a refused reconnection is ignored and the freed session is used |
| `session_wrong_share` | `RightShare` | the current share is kept per resource, the session per connection: after one connection switched, another one works on its old share |
| `session_stale_handle` | `HandleOnItsSession` | a request for a path replaces a lost session while a file is open: its handle, of the old session, is then used on the new one |

The other disagreements are the exceptions that passing properties name, so
each of those properties says that nothing else goes wrong:

| property | exception | said otherwise in |
|---|---|---|
| `AnswersFresh` | `NdpQueryPathInfo` trusts a listing for 15 seconds, whatever `cache timeout` says (default 10) | `help/readme.txt` 127 |
| `TrapsExplained` | with `cache listings` = 0 the list is full while empty, and the eviction follows a null tail | `help/readme.txt` 132 |
| `CoherentButUncovered` | `NdpSetFileAttribute`, `OpenReplace`, `NdpFileNewSizeL` and the changes made at close invalidate nothing; a renamed or removed directory keeps its own listing; a listing under another spelling of the directory than the handler was given stays, because `dcFindDirCache` compares a hash of the spelling before it compares without case (`dircache.c` 38-56, 247) | `help/changelog.txt` 525 |
| `AnswerAsDocumented` | a refused reconnection is `ERROR_PATH_NOT_FOUND`, a wildcard is not looked up, an error without a code for the host is `ERROR_PATH_NOT_FOUND`; a path that a server without `CAP_NT_SMBS` calls invalid is `ERROR_INVALID_PARAMETER` and its parent is not asked for; a session whose loss shows as another error than `ENOTCONN` or `ENODEV` is not replaced | `ndpsmb.c` 988-1007 |
| `FailuresAccounted` | an empty directory is an error when SMB2 lists it and a success when the cache does; a failed enumeration is a success (of workgroups and servers always, of shares when no error is left), and so is a listing of a directory whose failure left no error in the session, over SMB1 also by chance (`smbwrp.c` 1268-1270, 1330): over SMB2 the host then takes a part of the directory for all of it. Such a listing is never cached | |
| `DeliversExpected` | a second attempt delivers again what the first one delivered | |
| `NothingLeftBehind`, `DeferredReachTheFile` | a file with handle 0 can be opened over: its handle is lost and its deferred time goes to the new file | |
| `HiddenFailuresNamed` | a failed truncation, attributes refused at close, and a set info without an open file are successes | |
| `SetInOrder` | EAs refused when a file is created are not told; the walk over an EA list may go on behind it, when what lies there looks small | |
| `MoveWithinShare` | a move from share `a` to share `ab` is not refused and gets a cut name | `ndpsmb.c` 1732 |
| `CachesAccounted` | a refused mount leaves its cache and mutex behind | |
| `DiskSizeTold` | above 2^32 units the quotient is not rounded up as `ceil` is meant to, so only totals just above a multiple of 2^32 - 1 are told rightly (17 TB may be told as 1 TB); `cbSector` wraps at 2^16 | |
| `SettingsInRange` | a cache timeout that is refused leaves 0, and the mount succeeds | |
| `PasswordKept` | a compiler that reads the second digit first swaps the halves of every byte | |

Without the plugin mutex, invalidating before changing
lets a listing slip in between that stays stale, and `dceAdjust`
may ask `realloc` for 0 bytes after a reuse; both matter only if the build
switches to `LIBSMB_THREAD_SAFE=1`.

## 5. Proofs

The theorems hold for every value of the constants that satisfies the named
assumptions: threads are a finite non-empty set, null values differ from
everything, numbers are naturals, words are wide enough for what they hold, names and
passwords are sequences, an EA that is set has a name of the server's and a value that
`cbValue` can say, a first allocation is at least 2, paths that differ, differ in hash or in
comparison (`PathsAssumption`), the root has one spelling (`RootAssumption`), and in `Listing` and
`OwnWrites` the constants that `ListingCache` leaves open are the listings these modules
make (`ListingsAssumption`, `OwnWritesListings`) and the three enumerations are no
directories (`PlacesAssumption`). Some theorems have a hypothesis besides. It is
not there for the prover: without it the property is false, and a run
or the text below says how.

| hypothesis | why |
|---|---|
| no step `RefusedWithoutLeave` (a reconnection refused after a failed echo, a path refused in `NdpFindStart`) | these steps return without `LEAVE`: run `session_lock_kept` |
| no step `RedialRefused` (a reconnection refused after a disconnect) | the refusal is ignored and the freed session is used: run `session_freed` |
| `MayRefuse = FALSE` (no connection is refused) | neither of the two can happen |
| `OneConnection` | with two, one connection switches the share of the other: run `session_wrong_share` |
| `Serialized` (the shipped build) | without the plugin mutex two threads can list one directory at once, and both insert it |
| `HasLargest`: `CacheListings` has a largest element | the abstract map has one capacity; `initResource` takes at most 96 |

### DirCacheProofs

| theorem | property |
|---|---|
| `TypeCorrect` | `TypeOK` |
| `OwnershipHolds` | `EntryOwnership` |
| `CapacityKept`, `TrapsAccounted` | `CapacityBound`, `TrapsExplained` |
| `PathsUnique`, `TailIsOldest`, `FreshAnswers` | `UniquePaths`, `NewestFirst`, `AnswersFresh` |
| `InvalidationComplete`, `ListedStays` | the action properties `InvalidateRemovesAll`, `ListedImmutable` |
| `ImplementsMap` | `ImplementsListingCache`, if `Serialized` and `HasLargest` |

`TypeOK` is inductive by itself; the work is in what removal, `Front` and `Cons`
do to a sequence. `EntryOwnership` needs `Requests`: a request in progress has a
directory, and the plugin mutex admits one. Every action is then one of four
kinds: an entry leaves the list, is dropped by its writer, is begun, or nothing
moves.

All other theorems rest on `CacheInv`. Its parts, and why they are needed:

- `Capacity` counts lists *and* writers, because room is made at
  `write_begin` and used at `write_end`; it says where the capacity comes from, so
  that it is one of the `CacheListings` when a cache is open.
- `NullsExplained` says when an entry under way is null and when the cache is:
  only after failed allocations. `TrapsExplained` is not inductive without it.
- `SerialInv` (only if `Serialized`) strengthens three properties from the list to
  all entries that are listed *or being filled*: `OneListing` (paths differ),
  `FilledNewest` (the one being filled was begun after all of the list) and
  `OutdatedGoing` (an entry that was invalidated is about to be removed by the
  thread whose invalidation runs). An insertion turns the first two into
  `UniquePaths` and `NewestFirst`, the third is why nothing served is outdated.

`ListedImmutable` and `InvalidateRemovesAll` are one step of `CacheInv`; the second
needs that `InvalidateEnd` follows a walk that found no match. For the
refinement, `Visible(d)`, which chooses among entries, is first shown to be the listing
of the one listed entry with path `d` (`VisibleIsListed`); then `WriteEnd` is the only
step that makes a directory visible (`InsertStep`: it was invisible, by
`OneListing`, and there was room, by `CapacityBound`), and every other step forgets a
set of directories or stutters (`ForgetStep`).

### DirEntryProofs

`BufferSafe` (`BufferInBounds`): serialised, the invariant is
`Typed /\ InBounds /\ CompleteOrInvalid /\ Sized`. `Sized` relates files stored and
files announced: a listing that started with room for one file has it filled at
its end, so what `dceAdjust` keeps is never 0 (`NeverNothing`). `NothingLost`
(`CompleteOrInvalid`) is inductive with the two counters' types, in both builds.

### SessionProofs

| theorem | property | if |
|---|---|---|
| `Serialized` | `LibsmbSerialized` | |
| `MutexMatchedUntilRefused` | `MutexMatchesHandlers` | no step is `RefusedWithoutLeave` |
| `MutexMatched` | `MutexMatchesHandlers` | `MayRefuse = FALSE` |
| `NotUsedUntilRedialRefused` | `NoUseAfterDisconnect` | no step is `RedialRefused` |
| `NotUsedAfterDisconnect` | `NoUseAfterDisconnect` | `MayRefuse = FALSE` |
| `ShareReached` | `RightShare` | `OneConnection` |

The invariant of the first, `MutexInv`, is weaker than `MutexMatchesHandlers`, which is
false when connections are refused: a thread inside a handler owns the mutex, and
twice in a nested call, but an owner need not be inside. The others share
`RequestInv`: a thread's place in its handler fits its operation, and no two
requests are on one connection. To it they add `MutexExact` (the owner is exactly the thread
inside, the depth is 2 exactly in a nested call), `FreedWhileRedialing` (a
freed session belongs to a request that is about to reconnect) and `ShareInv` (every session was made for the share in the resource, and a
request that has passed `pathparser` wants that share).

`MutexMatchedUntilRefused` and `NotUsedUntilRedialRefused` are about behaviours in which
connections may be refused everywhere else: in `NdpCreateConnection`, in `pathparser` called by
any other handler, in the disk size query. They say that the steps they exclude are
the only ones to blame: two paths without `LEAVE`, and one ignored result. The
theorems under `MayRefuse = FALSE`, which the runs check, are their corollaries, since
no refusal is a step then.

### ListingProofs

`CacheIsComplete` (`CachedComplete`), `RightNames` (`DeliversExpected`) and
`ErrorsAccounted` (`FailuresAccounted`), for the specification without fairness, from
`ListingInv`. `Sent` is its centre: what an attempt has filled and what the server still has to send
are disjoint and together the directory, so the fill that ends is all of it.
`AtMost` bounds the number of times a name was delivered by the attempt, or by the one
before where this attempt has not come to it; `AtLeast` is the converse for the names
already sent. `Attempts` relates the number of the attempt to the failures before it. `NothingYet`
is what the exception `HiddenFailure` rests on: a directory that is asked for at the server is
not cached (`NotCached`), and an SMB1 listing delivers in its last step. Since an answer
stands until the next request, both have to survive the end of the request: the lemmas
`ErrorKeeps` and `FailKeeps` say so of an attempt that ends with a dropped status, and of one that
ends with a failed call.

### OwnWritesProofs

`CoherenceHolds` (`CoherentButUncovered`) and `UsesCacheAsPromised`
(`UsesListingCache`, if `Serialized`) from `HandlersInv`. `CoherentButUncovered` speaks of moments when every
thread is idle; inductive is what holds inside handlers too: what is cached and
not in `uncovered` is up to date (`Coherent`), what the handler under way may
change is not cached (`Dropped`), and what the listing under way has read is still what the
server has, with room for it in the cache (`Reading`). `ServeKeeps` then goes through the
handlers, one by one. All of it is about paths as spelled: a change touches every path of one folder, so
each handler's step has to put all of them, or all but the one it dropped, into `uncovered`. The
last two facts need the mutex around the
whole handler: the theorem shows that this alone makes "invalidate first, then
change" sound.

### FilesProofs

| theorem | property |
|---|---|
| `OffsetAgreed`, `HandlesAccounted`, `FailuresNamed` | `HostAgreesOnOffset`, `NothingLeftBehind`, `HiddenFailuresNamed` |
| `DeferredApplied` | the action property `DeferredReachTheFile` |
| `AnswersAsDocumented` | `AnswerAsDocumented` |
| `QueriesAnswered` | `QueryAnswered` |
| `SetsInOrder` | the action property `SetInOrder` |

The first four rest on `FileInv`. The offset is `Wrapped(pos)` of a position within `Span`,
where wrapping is injective (`SignedWrapped`); `OpenIsNamed` says that an open file has a name
and a handle the server knows; `Remembered` that, while handle 0 is not in use, the attributes
and times that `smbwrp_close` will apply are those the host asked for, and for the
file that is open.

`AnswersAsDocumented` rests on `QueryInv`: `LossesCounted` counts the sessions
lost since the echo (a session found dead at the second look is the second one
lost, so an answer of that kind has two causes), and `MissedFirst` says that the parent is looked at
only for a name that was missed below a directory (`MissedOnce`: a name that was missed is
not asked for again, so ERROR_INVALID_PARAMETER comes from the name itself, never from its parent).

`QueriesAnswered` and `SetsInOrder` hold for lists of any length. What the three recursive
functions of `ExtAttr` do is shown first, by induction: `Bytes` of a
concatenation is the sum (`BytesConcat`), `Among` holds exactly what is in the list and to be
kept and is no longer than the list (`AmongHolds`, `AmongBytes`), and of the EAs of one
name the last wins (`EffectWins`).

- For a query, what fits into the buffer is a beginning of the list, because
  sizes grow along it (`FitsBegins`), so what is copied fits (`CopiedFits`) and
  is everything when the size does (`CopiedAll`). The inductive invariant `EaInv` keeps
  the answer tied to the server's list (`AnswerKept`) until the host has read it;
  `QueryAnswered` alone would not be inductive, because it does not say
  where the answer came from.
- For a set, `TurnsReach` bounds the walk that counts the wrong sizes. After `k` EAs
  in the list it has counted less than the list's size, since the first EA is
  never counted (`DoneInside`); behind the end the count is the size, less the first EA, plus
  what was found there (`DoneBehind`). So the walk reaches the last EA, and goes on
  only if what lies behind is smaller than the first EA. It ends, because every size
  read there is positive.

### ResourceProofs

| theorem | property |
|---|---|
| `SettingsHold`, `ResourceAndSession`, `CachesCounted` | `SettingsInRange`, `ResourceMatchesSession`, `CachesAccounted` |
| `EqualByParsing`, `ShareParsed` | `EqualOnlyByParsing`, `ParsedShare` |
| `MovesWithinShare` | `MoveWithinShare` |
| `DiskSize`, `PasswordReadBack` | `DiskSizeTold`, `PasswordKept` |

The first four rest on `ResInv`. `MountsKept` is its strengthening: a resource keeps the names of
its mount up to its level, whatever is parsed, and all of them until a path has written one; so two
resources of different levels, neither of them written to, differ in a
name. `CachesInv` counts with the cardinality of a finite set of slots. `ShareParsed` goes
through `pathparser` component by component: above the level the names of the mount, below it
the components of the path, and nothing where the path ends. `DiskSize` is
arithmetic: a product of what the three branches tell is at most the product
of what the server said (`NeverMore`), because a wrap and an integer quotient only
lose; where nothing wraps, what is lost is a remainder (`LittleLess`).
`PasswordReadBack` shows that the digits of a byte are read back (`Digit`,
`TwoDigits`) at the two places where they were written.

`MovesWithinShare` is about strings: a path's characters are its components, each behind
a separator, flattened (`CharsConcat`), and `NdpMove` compares as many characters of the two paths as
the source has in front of what `pathparser` leaves of it (`NotAcrossAgrees`). Every component
stands in the string behind a separator, and the next one behind the next (`NamesStand`). No
name contains a separator, so two strings that agree up to case into the n-th component have
all their separators before it at the same places (`NamesAlign`, by induction over the components), and
the same components up to case (`SameBeforeShare`); the last one that is compared is not
shorter in the destination (`NotShorter`). When it is equal up to case, both prefixes are equally
long and the cut leaves the destination's own rest (`NewNameIsRest`); otherwise the
destination's is longer, which is the exception the property names.

### Induction

The library's induction theorems take a predicate as a parameter, which the installed provers cannot
instantiate. Here the predicate is a set of numbers instead: `SetInduction` says that a set that has
0 and with every number its successor has all naturals, and follows from a least element of its
complement (`Least`, from the well-foundedness of `<`). An induction over a sequence is one
over its length. A recursive function on `0 .. n` exists (`RecursionExists`) and is the only one
(`SameByInduction`), so the `CHOOSE` behind its definition is this function, and
its value for a longer sequence follows from its value for the shorter one. The lemmas about
`FlattenSeq`, `Bytes`, `Among` and `Effect` are all of this form.

### Only model-checked

- `CallReturns`, `FindReturns`: liveness needs fairness and `ENABLED`, which are out of
  the prover's reach.
- That the four disagreements of section 4 happen: a proof shows what holds, a trace what
  does not.

Every other property that a passing run checks is the statement of a theorem.

## 6. What is not modelled

- *Time conversion, error texts, logging*: pure functions and output without an
  effect on the modelled state. The table of `maperror` is modelled by the codes
  that some handler tells apart.
- *The contents of files and of directory entries*: a file is an attribute, a time
  and a size, an entry its name.
- *Handlers that change nothing*: `NdpRsrcUpdate`, `NdpRefresh`, `NdpFlush`,
  `NdpFileCommit`, `NdpCopy`, `NdpIOCTL` and the like return a constant;
  `NdpRsrcQueryInfo` and `NdpFileQueryInfo` only format; `NdpSetCurrentDir` is
  a path request like the others in `Session`.
- *Protocol negotiation and authentication in `smbwrp_connect`*: one step that
  succeeds or is refused.
- *The ten-second timeout of the cache mutex*: its holders only touch memory.
- *The session that an echo's failure replaces* is leaked without a trace in the
  plugin's state.
- *The host and the Samba library*: external; the models contain what the plugin
  relies on.

## 7. What could follow

1. `EntryList`: the doubly linked list with its pointers, as a refinement of the sequence in
   `DirCache`.
2. `Session`: `ShareReached` in the form of `MutexMatchedUntilRefused`, which excludes the step to
   blame and not the whole situation, and the same for `HandleOnItsSession`.

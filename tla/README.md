# Elastos Hive native SDK: specifications

TLA+ models of the SDK under `src/src` and of the client `hivecmd` under
`src/apps/cmd`, the TLC runs that check them, and TLAPS proofs of their safety
properties. The SDK gives an application one API over two backends, OneDrive
(through Microsoft Graph, with OAuth) and IPFS (through the HTTP API of a list of
nodes). It is synchronous C: an operation is a sequence of HTTP requests and system
calls on the caller's thread. What is hard in it lies between those calls: other
clients of the same drive, other processes on the same keystore file, nodes that
come and go, browsers that connect when they like, processes that die half way, and
errors that are, or are not, reported.

Module and configuration names below are files of this directory; `X.c:n` is
line n of a file of `src/src`.

## 1. Inventory

| Component | Source | State | Operations | Hard part | Model |
|---|---|---|---|---|---|
| OAuth session and keystore | `oauth/oauth_token.c`, `vendors/onedrive/onedrive.c` 53-149, 1016-1104 | the `oauth_token` of each connection (tokens, `expires_at`), the keystore file, the thread's error code | connect, restore, authorize, redeem, write back, check expiry, refresh, set expired, disconnect | shared file without a lock, crash inside a write, 401 in the middle of an operation, errors not stored | `OAuthToken` |
| Authorization redirect | `oauth/oauth_token.c` 286-474, `sandbird/sandbird.c` | list of streams, `stopped`, code buffer, the callback's thread | listen, poll (select, sweep, accept), receive, emit, send, close, join | several connections in any order, the end of the wait | `AuthWait`, `AuthRedirect` |
| OneDrive key-value store | `onedrive.c` 480-667, 857-1014, `hive_key.c` | one remote file per key | put, set, get, delete | other clients between two requests, lost answers | `KeyValues` (abstract), `OneDriveKV` |
| OneDrive files | `onedrive.c` 151-855 | remote files, the pages of a listing, the token's state | upload (small, large), length, download, list, delete | pages and changes between them, a page's life, where the token goes, 401 in each request | `OneDriveFiles` |
| IPFS connection | `vendors/ipfs/ipfs_rpc.c`, `vendors/ipfs/ipfs.c` | the current node | connect, check reachable, mark unreachable, add, length, cat | nodes failing between requests, wrap-around of the probe loop | `IpfsRpc` |
| File API | `hive_file.c` | the local file, the buffer | put and get by path, get to a buffer, length | both files change during a call, leftovers of failed calls, error codes that pass for lengths | `HiveFile` |
| HTTP client | `http/http_client.c` | a libcurl handle and a response buffer | new, set, reset, request, collect, move, close | what a reset forgets, growth of the buffer, empty body | `HttpClient` |
| Client, dispatch, errors | `hive_client.c`, `hive_key.c`, `hive_error.c`, `http_status.c` | function tables, one error code per thread | new, connect, disconnect, dispatch, get, set and explain an error | stale codes, codes without a text | `HiveCmd` |
| Command line client | `apps/cmd/cmd.c`, `apps/cmd/config.c` | client, connection, table of operations | load, connect, disconnect, the operations, exit | the table and the connection in step, the buffer of `get_file` | `HiveCmd` |
| Directories, prober, tests | `mkdirs.c`, `apps/prober`, `tests` | none | | | not modelled |

Interaction: the API layer (`hive_*.c`) validates arguments, calls the backend's
function through the `HiveConnect` table and stores a negative result with
`hive_set_error`. The OneDrive functions call `oauth_token_check_expire` before
they send and `oauth_token_set_expired` on 401. `oauth_token.c` calls back into
`onedrive.c` to save its tokens, runs the sandbird server inside
`onedrive_client_connect`, and the application's callback in a second thread. The
IPFS functions call `ipfs_rpc_check_reachable` first and
`ipfs_rpc_mark_node_unreachable` on three of the curl errors. Every request of
both backends is assembled on an `http_client_t`. `hivecmd` uses every call of the
library.

What makes each part correct: no refused, foreign or missing token is used and
the next process finds what this one holds (OAuth); a wait for a code ends, and
its outcome is known (redirect); a key is a list that a call changes at most once
(key-value); a listing is sound whatever changes meanwhile, and the token goes to
Graph alone (OneDrive files); requests go to a node that answered last, and a retry
gets through (IPFS); a finished transfer is the file, and nothing else on disk or in
memory changes (File API); every chunk lands in its buffer and no request carries
what belongs to another (HTTP client); the operations offered are those of the
connection and the reason given for a failure is its own (client).

## 2. Modules

`KeyValues` <- refined by - `OneDriveKV`; `AuthWait` <- refined by - `AuthRedirect`.
The other modules are independent: each abstracts its neighbour to the outcomes it may
have (`OAuthToken` sees the wait for a code as its three ends in `AuthWait`: `UserGaveCode`
is `EndWithCode`, `UserGaveNoCode` one of the other two; `OneDriveFiles` sees
`OAuthToken` as `expired` and `refused`; `OneDriveKV` and `HiveFile` see token
handling as `RequestFails`; `HiveCmd` sees a backend as an error or none). An `MC...`
module holds the instance sets, a `...Proofs` module the theorems of the module it
is named after. Definitions called "Variant of X" are mutated forms of X, kept
beside it and used by no specification; substituting one for X must break a
property.

### OAuthToken

One thread per connection; connections share `keystore` and nothing else. `pc` says
where a thread is: `off`, `load` (entering `onedrive_client_connect`), `request`
(`oauth_token_request`), `authorize` (waiting for the browser), `redeem`, `open` and
`write` (the two halves of `oauth_writeback`), `idle`, `check`
(`oauth_token_check_expire`), `refresh`, `send`, and `fault`: the process is about to
die of a NULL pointer. Only `Crash` leaves `fault`.

A *grant* is one answer of the token endpoint, numbered in order of issue; `token` is
the grant an `oauth_token` holds (0: the NULL pointers). `expires_at` is `zeroed` or
belongs to the grant, whose lifetime ends when the clock says so (`Lapse`).
`Revoke` makes the drive answer 401. `refused` is an observer: the grants answered
with 401 in the life of this `oauth_token`. The keystore is absent, torn (anything the
loader rejects) or holds a client id and a grant; `big` marks a file above the 4096
bytes of `load_keystore_in_json`, which `oauth_writeback` may write. `Written`, what a
writeback leaves, keeps `big` when the other connection's file was big, since both write
from offset 0. Each connection waits for the browser on its own (`AskUser`: the port is
that of its redirect URL), and a wait that ends with a code may have stored an error
for another request before (`UserGaveCode`).

`NoCode` is the branch worth reading: `oauth_token_request` returns
`hive_get_error()`, which is 0 in a thread that never failed.

### AuthWait and AuthRedirect

`AuthWait` is what `oauth_token_request` relies on: a wait ends once, with a code only if
a browser brought one, and with neither code nor error (`EndSilently`) only if no browser
asked for anything or one brought an empty code; a request is enough to end it.
`AuthRedirect` is the code, and implements it with `requests` for the requests that
reached the handler.


`phase` follows `get_authorize_code` and `sb_poll_server`: `start`, `select`, `sweep`
(`todo` holds the streams of this round still to visit), `join`, `close`, `returned`.
`ready` keeps the result of `select` because it is read later than it was computed:
a stream accepted or fed meanwhile is not looked at in this round. `Destroy` is
`sb_stream_destroy`: its CLOSE event sets `stopped`, whatever stream it was.
`Handle` is the request event: `empty_code` is `?code=`, which `sb_get_var` returns
as success with an empty string. Memory shortage and a descriptor above
`FD_SETSIZE`, which end a poll early, are left out, and so is the part of sandbird
no caller here reaches (files, cookies, multipart bodies).

### KeyValues and OneDriveKV

`KeyValues` is the promise of `ela_hive.h`: a list of values, a call takes effect at
most once between invocation and return. `OneDriveKV` is the code: `put` is length,
metadata, download, upload; `get` the first three; `set` and `delete` one request.
The drive executes a request atomically; a request may fail before or after it was
carried out (`RequestFails` at `upload` and at `answer`). Values are sequences of
4-byte words, an entry is a length word and the value; `Entries` is the loop of
`get_values`, with its three tests, and `Entries(file).complete` says that the file is
a whole number of entries. The download callback copies without a bound whatever
arrives, the body of an error answer too, before the status is looked at: when that is
more than the buffer holds, the process dies (`Overrun`) or goes on with what fits
(`Read`, `RequestFails`). `history` is an observer: the contents of the file
during the current call.

### OneDriveFiles

One connection, one operation at a time. Graph is external: `files` and `folder` are
the drive, a listing comes in pages of `PageSize` names in the order of the names, and
the link to the next page stands for the last name sent (`cursor`). `Call` is the
entry of an operation, `CheckExpire` its `oauth_token_check_expire` and
`http_client_new`; from there on each action is one request with the code around it,
and `pc` names the request that is next: `page` (the loop of `list_files`), `upload`
(up to 4 MiB), `folder`, `session` and `session_upload` (above), `info` and `download`,
`delete`. `GraphFails` is what all Graph requests share: 401 (`Unauthorized`, which
expires the token and returns `HIVEERR_TRY_AGAIN`) and the other failures.

`list_files` follows `next_url`, which points into the JSON of the page before.
`json` is that page, `next` where `next_url` points, `live` the pages parsed and not yet
deleted; two names for pages suffice, since no pointer outlives the page after its
own. Reading or deleting a page that is not alive sets `memfault`. `array`, `reported`
and `ended` are the names merged, the names handed to the callback and whether it was
told the end. `hdr` are the headers on the handle, `sent` what the last request
carried and to which host. `always` and `ever` are observers: names that were on the
drive all the time, or at some time, since the call began; so is `effect`: the drive
stored or removed a file for this call, whatever became of the answer. `OtherClient` changes the
drive between any two requests; `Lapse` and `Revoke` age the token.

### IpfsRpc

`current` is `current_node_ip`. `select_bootstrap` is a loop over the nodes from an
arbitrary one (`rand()`): `base` and `node` are its `base` and `i`, counted from 1,
`probes` the addresses of that node it has still to test; `NextNode` is
`i = (i + 1) % nodes_cnt` while that is not `base`, `NoNodeReachable` the end of the loop.
`Begin` is `ipfs_rpc_check_reachable`; `get` checks again between `file/ls` and `cat`
(`Answered`). `suspect`, `tried` and `lsnode` are observers.

### HiveFile

Transfers between a backend and a local file, step by step, where the two backends
differ exactly as the code differs. Downloads: `Length`, `Open` (with `O_EXCL`), `Info`
(the length again), `ReadOneDrive` or `ReadIpfs`, `Write` or `WriteFails`. Uploads:
`OpenSource` (which measures with `lseek`), `ReadSource`, `Upload`. A file is a sequence
of blocks marked with the version they belong to, so that a mixture is seen; 0 is the
zero a `calloc`'ed buffer holds. `Replace` and `ReplaceSource` let other parties write
the remote file and the source between any two steps. `namesake` is a local file that
happens to have the remote file's name.

Both backends copy a body into the caller's buffer as it arrives and look at the status
afterwards. So a download that fails leaves there whatever it received (`ReadFails`,
from `PartBodies`; `ErrorText` marks the blocks of an error answer). IPFS stops at the
end of the buffer; OneDrive does not, and runs over it with a file that grew (`Overrun`)
or with an error answer (`ErrorOverruns`).

`Bogus` deserves attention: functions of type `ssize_t` return
`HIVE_GENERAL_ERROR(...)`, an unsigned value with the high bit set, directly. Where
`ssize_t` has 64 bits that is a number above 2^31, so the callers' `rc < 0` does not
hold and the code travels on as a length. The model lets it: it is longer than any
file, reaches the application from `hive_get_file_length` and
`hive_get_file_to_buffer`, and makes `hive_get_file` attempt a write of that size.

### HttpClient

One `http_client_t`: what the setters put on it (`url`, `hdr`, `mime`, `post`,
`writer`), the response buffer (`data`, `sz`, `used`), and the request in progress.
`New`, `Reset` and `Close` are the life of the handle. `Reset` forgets everything but the
URL: `curl_url_set` with `CURLUPART_URL` and NULL (`http_client.c:318`) does nothing in
curl 7.64.0, the version the build pins (`src/deps/curl/CMakeLists.txt:84`). `SetUrl` and `SetHeader` may leave
it as it was, because callers ignore what setters return. `Receive` is
`http_response_body_write_callback` for one chunk: `Grown` is the outcome of its
doubling loop in words of `Word` values, sums taken modulo `Word` where the code can
wrap. `Move` hands the buffer to the caller; `MoveNothing` is the same with an empty
body, where the NULL `len` every caller passes is written through. `given`, `sent`,
`arrived` and `clean` are observers.

### HiveCmd

`hivecmd`, which runs one command at a time, with the layer below it. `Start` is the
configuration file up to the prompt; `ClientConnect` and `Disconnect` set `connect` and
`ops` as `client_connect` and `disconnect` do; `Operate`, `GetLength` and `ShowFile` are
the other commands, `ShowContent` the second half of `get_file` without a path: the
buffer has `size` bytes, `get_file_to_buffer` was told `room`, and the NUL is written at
`end`. `general_ops`, `ipfs_ops` and `Provided` are the function tables of the client
and of the two backends. A `Handle` is an address: `backend` says which connection
lives there, so one that was closed may be used again.

An error is a facility and a code. `HasText` says whether `hive_get_strerror` finds a
text; when it does not it returns NULL and stores an error of its own. A failure takes
two steps: the library's exit stores its error in `hive_error` and returns -1
(`LibraryFails`), and the command looks up what `hive_error` holds (`Report`), which
may replace it. A connect that succeeds may leave an error of the redirect server there
(`RedirectError`). `failure` is an observer: the error of the last library call.

Allocation failures are modelled where they end a call with an error
(`ConnectRefused`, `OtherError`, `RequestFails`, `Open`, `SetHeader`), not where they
leave an object half filled (`oauth_token.c:172`). Request contents, URLs, logging and
wording are abstracted.

### Not modelled

- `mkdirs.c`: one loop over `mkdir` that keeps no state; its failure is an outcome of
  `Start` and `ConnectRefused`.
- `apps/prober`: measures nodes with the public API. `tests`: read for what the API
  promises.
- The texts of errors and of HTTP statuses, the packing of an error into one integer
  beyond its sign, `hive_register_strerror` (nothing calls it), URL parts and escaping
  in `http_client.c`, the splitting of a command line into words.
- Two threads on one connection. No member of a `HiveConnect` is locked, so they would
  free each other's tokens; what then happens is undefined and says nothing further.

## 3. Runs

| Run | Instance | Checks |
|---|---|---|
| `oauth_pair` | 2 connections, 2 client ids, 2 grants | `TypeOK`, `RefusedNeverResent`, `SendsWithTokens`, `TokensOfOwnApp`, `TokenlessOnlyInCleanThread`, `LockedOutStays` |
| `oauth_solo` | 1 connection, 4 grants, the third oversize | `SavedOrLogged`, `RetrySucceeds` (fairness) |
| `redirect` | 2 browser connections | `TypeOK`, `StreamsClosedOnce`, `SilentOnlyWithoutRequest`, `AuthWaitSpec` (refinement of `AuthWait`, with its fairness), `SilentStreamEndsWait` (fairness) |
| `kv` | a writer and a reader | `TypeOK`, `KeyValuesSpec` (refinement of `KeyValues`) |
| `drive_files` | 3 names, pages of 1, 2 changes of the drive | `TypeOK`, `PagesDeletedOnce`, `ListingSound`, `BearerOnlyToGraph`, `EffectKnown`, `CallReturns` (fairness) |
| `ipfs_failover` | 2 nodes, 3 addresses | `TypeOK`, `SuspectNotUsed`, `OneNodePerGet`, `GivesUpAfterAll`, `RetrySucceeds` (fairness) |
| `file` | files of 0 to 2 blocks, 3 versions | `TypeOK`, `DownloadExact`, `ReturnsWhatItWrote`, `FileFitsUnlessReplaced`, `UploadsNotPadded`, `ForeignFileKept` |
| `http_client` | 2 URLs, 4-bit sizes, 2 requests | `TypeOK`, `NoOverrun`, `BodyIsResponse`, `NothingStale` |
| `cli` | 2 addresses for connections, files of up to 2 bytes | `TypeOK`, `OneConnection`, `ReasonIsOwn`, `TerminatorInBounds` |

Three runs check a sentence of a header against the code and find it false:

| Run | Sentence | What happens |
|---|---|---|
| `oauth_silent_failure` | "a specific error code can be retrieved by calling hive_get_error()" (`ela_hive.h:375`) | the code cannot be redeemed; NULL, and no error code |
| `file_namesake` | "Source file name", "Destination file path" (`ela_hive.h:498`, 502) | after a short write `unlink(filename)` (`hive_file.c:218`) removes another local file and keeps the truncated download |
| `bogus_length` | "Otherwise, return -1" (`ela_hive.h:463`) | `onedrive.c:516` (and 494) returns an unsigned error code as `ssize_t`, which `hive_get_file_length` (`hive_file.c:134`) passes on as a length; `onedrive.c:589`, `ipfs.c:260` and 299 do it to `hive_get_file_to_buffer` |

Facts of the code the models state and that are easy to miss:

- When the browser connects and hangs up in a thread whose error code is 0, a connect
  succeeds without tokens (`TokenlessOnlyInCleanThread` says only then); the first
  operation takes `strlen(NULL)` at `oauth_token.c:761`.
- A torn or oversize keystore locks the application out for good (`LockedOutStays`):
  the loader never falls back to asking the user. A failed writeback leaves old or no
  tokens on disk while the call succeeds, and so does a writeback of tokens longer than
  4096 bytes, which is not even logged: those are the exceptions of `SavedOrLogged`.
- A wait ends silently when a connection just closes, or when a request has an empty
  code, even after a good one (`SilentOnlyWithoutRequest`).
- `put_value` is read, append, upload without a precondition (`onedrive.c:903`): of two
  writers one loses its value. `KeyValuesSpec` holds for one writer and any readers.
- A download that fails after `open` leaves its file (`hive_file.c:203`, 388), and
  `O_EXCL` refuses the repetition that `HIVEERR_TRY_AGAIN` asks for.
- `ListingSound` holds because the next page starts after the last name sent; a name
  that another client adds or removes between two pages may or may not be listed.
- The content of a file overflows its buffer only when another client makes the OneDrive
  file longer between the second length and the content (`FileFitsUnlessReplaced`). But
  the body of any error answer of the download URL goes the same way (`onedrive.c:527`,
  551): if it is longer than the buffer it overflows it with nobody changing anything.
- `HIVEERR_TRY_AGAIN` of a OneDrive file operation may be followed by a repetition: no
  file was stored or removed (`EffectKnown`). After another error the drive may have
  carried the call out and the answer been lost.
- A reset keeps the URL (see HttpClient above), and no caller looks at what
  `http_client_set_url` returns: when libcurl refuses a URL, the next request goes to
  the previous one (`NothingStale` says: only then).
- In `hivecmd` a NUL may be written at an error code's offset (`TerminatorInBounds` has
  to exclude it).
- The error code belongs to the thread, although `ela_hive.h:948` speaks of the
  instance. `ipfs_client_connect` sets none on any of its failures (`ipfs.c:351-405`).
  `hive_get_strerror` writes its NUL one byte past a buffer that is exactly as long as
  the facility's prefix (`hive_error.c:220`).

### Bounds

- `MaxGrant`: 2 grants let each of two connections be issued one and overwrite the
  other's; 4 grants let one connection connect, be refused, refresh and restart.
  The interesting facts concern the newest grant and the one before.
- `Oversize`: one of the grants serialises to more than 4096 bytes.
- `Stream`: two connections, enough for one to overwrite the other's code, to be
  swept before and after it, and to be open when the wait ends. The list is treated
  uniformly.
- `MaxLen` 2 and `MaxWords` 5: entries of one or two words, two entries, and an entry
  that does not fit. An off-by-one in the walk or the copy shows on the boundary
  between two entries.
- `MaxName` 3, `PageSize` 1: listings of up to three pages, so that a page in the
  middle has both a predecessor to delete and a successor to follow. Two changes of
  the drive (`MaxVersion`) can add a name and remove one while a listing runs.
- Nodes: a node with one address and one with two; every starting index.
- `HiveFile`: `MaxSize` 2, a limit of 1 block for uploads (so that one size is refused),
  3 versions over both files: a file can shrink, grow, vanish to nothing and change
  twice within a call.
- `HttpClient`: `Word` 16, a first allocation of 2 and chunks of 1 to 5: sizes double,
  are as large as a sum that is no power of two, stop at the wrap of the doubling and
  meet the sum that wraps itself. Two requests: one leaves something behind, the next
  would carry it. No part of the code compares URLs, hence the symmetry.
- `HiveCmd`: two addresses: a connection may take the freed one or another. Addresses
  are only compared for equality, hence the symmetry.

Deadlock is checked everywhere but in `redirect`, where the call ends, in `cli`, where
the program ends, and in `http_client`, whose process may die in `MoveNothing`.

### Fairness

- `OAuthToken`: threads run (weak fairness on the steps between requests); a refresh
  or a request that is repeated is at last answered (strong fairness); the
  application repeats the call. `RetrySucceeds` lets the application disconnect or
  die, and stops at the bound `MaxGrant`.
- `IpfsRpc`: the application repeats the call, a node that stays up answers a probe
  and a request that are repeated, an unreachable one is reported as such at last
  (the OS reports a timeout). Under these the retry reaches the node that is up.
- `AuthRedirect`: the polling thread runs (`while (!stopped)`), and the application's
  callback returns. The second is an assumption on the application: `pthread_join`
  at `oauth_token.c:461` waits for it. Nothing is assumed of browsers.
- `OneDriveFiles`: weak fairness of `Step`: every request is answered or fails, and the
  callback of a listing returns. The code sets no timeout on a transfer, so this is an
  assumption on the network. The drive's changes are bounded; without a bound a
  client that adds a name behind the cursor for ever would keep a listing going.

## 4. Proofs

Eight modules hold theorems, for all values of the constants that satisfy the
assumptions named in the component's module. Each follows the same pattern: an
inductive invariant, one lemma per action or group of actions, and the property from
the invariant. The invariants were checked with TLC before they were proved. Every
safety invariant, every action property and the safety half of every refinement that
section 3 lists for a passing run is a theorem.

The assumptions are those the modules name: the shape of the constants (a node list
that is not empty and has exactly the addresses in `Addr`; sizes and bounds that are
natural numbers, and positive where the code's own limits are), and that the values
that stand for "none" are not among the values they are told apart from. Two theorems
have a hypothesis of their own, `OneWriter` and `OneConnection`: the property is about
that case and false without it.

**`OAuthTokenProofs`** - `TypeCorrect` (`Spec => []TypeOK`), `Invariance` (the inductive
`IInv`), the three safety invariants (`RefusedTokensStayHome`, `EveryRequestHasTokens`,
`NoForeignTokens`) and the two action properties (`TokenlessOnlyThen`,
`LockOutIsPermanent`) of `oauth_pair`, for any set of connections, client ids and
number of grants. That a refused token is not sent rests on `zeroed`: a connection that
reaches `send` came from `check`, which sends a zeroed `expires_at` to the refresh. So
`Sound` says that a connection without tokens and one whose grant was refused is
zeroed, that nobody is at `open`, `write` or `send` with a zeroed expiry, that the grant
held and those refused were issued (so the next one issued is neither), and that a
fresh `oauth_token` was refused nothing. `NoForeignTokens` needs `KeystoreInv` too: what
is in the file was issued to the client id in the file, because the next process
restores it on that word alone. `TokensAreSavedOrLogged` is `SavedOrLogged` for one
connection alone with its keystore (`OneConnection`): outside the writeback, what it
holds is what the loader of the next process restores, unless a failed writeback was
logged or the tokens are too long for the loader. `SavedInv` says what the file holds,
whether or not it can be loaded: the connection's own grant, under its own client id,
and a big file only for a big grant, because `Open` truncates the file before `Write`.
It says too that the wait for the browser begins without tokens, so that a connection
handed out without a code holds none.

**`OneDriveKVProofs`** - `TypeCorrect` and `Refinement` (`Spec => KeyValuesSpec`), for one
writer (`OneWriter`), any number of readers, values and files of any length. The first
half is about data. The walk of `get_values` is a recursive function on the length
words, each value computed from later ones. `LeastElement`, from the well-foundedness
of `<` in the library, gives `DownwardInduction` over sets of indices and `FixedPoint`:
a function computed that way exists, hence `Walk` satisfies its recursion. From these
come the facts the operations rest on: a file with an entry appended reads as its values
and one more (`EntriesAppend`), and is whole at no length in between (`EntriesCut`); a
download that lacks the end of the file yields a beginning of its values
(`EntriesOfBeginning`); and a file that is shorter than the buffer it is read into, which
is what a reader has when the file shrank, yields its values and then empty ones, or
all but its last, and never ends on the last word (`EntriesPadded`). The second half is
`IInv`: the writer's length and the buffer it uploads are those of the file
(`SizeInv`, `UploadInv`: here `OneWriter` is needed); every content the file had during a
call is whole; and a whole beginning of the file was the file during the call, unless
the file was longer all the time (`HistoryInv`), so that a get which returns without an
error returns a list the key had meanwhile. In the refinement `Upload` and `Remove` are
the instant at which a write takes effect, a successful `Answer` its return, `Read` the
delivery of a get, and the other requests are stutters.

**`AuthRedirectProofs`** - `TypeCorrect`, `StreamsAreClosedOnce`, `SilenceIsExplained`,
`PlaceInvariance` and `ImplementsAuthWait`, for any number of browser connections. A stream is freed when its
CLOSE event has been emitted, so closing once means that nobody meets it again:
`ListInv` says that the list and the sweep hold no stream twice and that the sweep visits
only streams that are still in the list, also after a stream it has not come to was
unlinked. It rests on lemmas about unlinking an element of a list without
repetitions. `ClosedInv` counts the CLOSE events of each stream.
`SilentOnlyWithoutRequest` is inductive as it stands. `ImplementsAuthWait` shows that
every step of the server is a step of `AuthWait` or a stutter; `WaitInv` adds that a code
in the buffer was brought by a request, whatever overwrote it in between.

**`OneDriveFilesProofs`** - `TypeCorrect`, `PagesAreDeletedOnce`,
`TokenGoesToGraphOnly`, `EffectIsKnown`, `ListingsAreSound`, `ListingsAdvance`, for any
number of names, pages and changes. `PageInv`: the page in
`json` is the only one alive, `next_url` points to the url array or into it, and outside
the loop there is none. `HeaderInv`: the handle carries no header between two requests,
which is what the resets are for. `ResultInv`: an outcome exists only after the return.
`EffectInv`: while a call runs the drive has done nothing for it, since the request
that stores or removes the file is the last one of its operation, and an operation that
reads never comes to one. `ListInv` is what makes a listing
sound while others change the folder: the array is increasing, its names are at most
the cursor and were on the drive at some time, and of the names that were there all the
time it has every one up to the cursor. That a page holds the next names in order
(`PageIs`) is proved from the definition of `Sorted` by ranks: the rank of a name is the
number of names up to it, ranks run through 1 to the size of the set, and listing by
rank sorts. `ListingsAdvance` is the part of the loop's termination that is no
liveness: the cursor grows with every page, up to `MaxName`.

**`HttpClientProofs`** - `TypeCorrect`, `ResponseInBounds`, `ResponseIsBody`,
`RequestsAreFresh`, for any width of `size_t`, first allocation and chunk length. The
numeric core is the pair of lemmas on `Grown`: whatever it returns leaves room for the
chunk, also where no doubling suffices before the wrap. `BodyInv` follows the bytes:
on a fresh handle `used` is what has arrived, byte by byte. `FreshInv` says that the
handle holds nothing but what was given since the last reset, and the URL of before only
while none was given.

**`HiveFileProofs`** - `TypeCorrect`, `UploadsAreNotPadded`, `FilesFitUnlessReplaced`,
`LengthsOfFilesWritten`, `ForeignFilesAreKept`, `DownloadsAreExact`, for files of any size
and any number of changes. `TypeInv` carries the contents: a remote file, the source once it was opened
and the buffer at `upload` consist of blocks of some version, never of zeros.
`FitsInv`: a read that is about to start fits unless somebody replaced the file since
the length was compared. `LocalInv`: past `open` the local file is the call's own.
`ExactInv` follows a download from the length to the write: unless somebody replaced
the file, the length is that of the file or an error code, and what the buffer holds of
it is the file. It needs `SizeInv` and `BufferInv`: a download sized by an error code
allocates as many blocks as the longest file has, and the file that arrives fits.

**`IpfsRpcProofs`** - `TypeCorrect`, `SuspectsAreNotUsed`, `GetsUseOneNode`,
`GivesUpAfterAllNodes`, for any list of nodes.
`NodeInv`: a connection has no current node exactly when it has to probe. `GetInv`: a
length is remembered only while a request runs, so the second check of a get finds
the current node and never probes. `ProbeInv` follows the loop round the list: the
addresses of the nodes passed since `base` were tested in vain, and so were those taken
from the list of the present node; when the next node is `base` again, the nodes passed
and the present one are all there are (`PassedAll`).

**`HiveCmdProofs`** - `TypeCorrect`, `ConnectionIsTheOnlyOne`, `OpsFitConnection`, `TerminatorFits`,
`ReasonIsOfThisCall`, for any number of commands and addresses and files of any length.
`ConnectionInv`: an instance is alive only while `connect` points to it, and the table
of operations in use is the one of its backend. `ReasonInv`: when a command is about to
look up its reason, `hive_error` is what its own library call stored, so nothing runs
between the two that could replace it.

Only model-checked: liveness (`RetrySucceeds` of `OAuthToken` and of `IpfsRpc`, that of
`AuthWaitSpec`, `SilentStreamEndsWait`, `CallReturns`). Liveness under fairness and
ENABLED are out of the prover's reach. So are the library's induction theorems, which
take an operator as a parameter; `OneDriveKVProofs` does its inductions over sets
instead. No module declares a RECURSIVE operator.

## 5. Plan

1. Several writers on one key: which lists a key may hold when two clients put at the
   same time (`onedrive.c:903`), as a property weaker than `KeyValuesSpec`.
2. `SavedOrLogged` for several connections of one client id, where it needs the
   order in which they write.
3. The bounds on the way to liveness: that the probe loop of `IpfsRpc` and the sweep
   of `AuthRedirect` come closer to their end with every step, as `ListingsAdvance`
   says of a listing.

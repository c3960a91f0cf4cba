# A verification project for erase.to

erase.to hands a piece of text or a few files from one person to another. The
creator's browser (or the CLI) encrypts the package, pays for its storage with
a proof of work, uploads it to a small Rust server that keeps it in a
memory-only Valkey cache, and shares a link whose fragment holds the keys. The
package can be retrieved a fixed number of times, until a fixed deadline, or
until its creator revokes it.

This directory holds TLA+ modules of that system, TLC configurations that check
them on small instances, and proofs that TLAPS checks for all instances.
`PROJECT.json` lists the runs, the source lines behind every definition, the
hazards of the code with the properties that cover them, and the theorems.

## 1. The system: components and their state

| Component | Sources | State it keeps | Operations |
| --- | --- | --- | --- |
| Note ledger | `server/src/lua/*.lua` | `note:<id>` hashes, the `notes` expiry index, `charges`, the `bytes` counter; `challenge:<id>` leases, the `challenges` index, `spent:<id>` markers | issue, inspect, create, meta / check_open / open / delete, reap |
| Rate buckets | `server/src/lua/rate.lua` | one token bucket per request class | rate |
| Cache connection | `server/src/cache.rs` | one shared multiplexed connection with a generation | acquire, command, ping, verify_configuration |
| Store | `server/src/store.rs` | none; a background reaper task | one call per script |
| API server | `server/src/lib.rs`, `error.rs` | five semaphores: public and access controls, uploads, packets, static | challenge, create, meta, open, delete, health; the guard |
| Transport | `server/src/transport.rs`, `main.rs` | a fixed lifetime per connection | accept, read, write, shutdown |
| Packet parser, proof of work | `server/src/protocol.rs`, `shared/index.ts` | none | parse_packet, verify_work, prove |
| Content envelope | `shared/content.ts`, `encoding.ts` | none | pack, unpack |
| Web session | `web/src/lib/session.ts` | generation, deadlines, timers, object URLs | ticket, touch, keep, expire, check, clear, destroy |
| Composer, Reader | `web/src/lib/controllers.ts`, `pages/*.svelte` | the form, the stage, the secrets being shown | edit, submit, copyLink, revoke; load, open, copyText, download |
| Crypto worker | `web/src/lib/worker.ts`, `crypto.worker.ts` | one pending request, a `running` flag | run, fail, dispose |
| Text metrics | `web/src/lib/text-metrics.ts` | the text being counted, the count so far, a timer | update, step, clear |
| Bounded reads | `web/src/lib/api.ts`, `cli/client.ts` | one buffer per response | readBounded, bytes |
| Protocol | `shared/index.ts` | none | create, contentKeys, prepareOpen, decrypt |
| CLI | `cli/client.ts`, `cli/index.ts` | one process per command: its package, its request, the files it writes | send, receive, revoke |

Interactions. Browser and CLI reach the API server over HTTP; each HTTP request
runs as a future that the guard cancels at `request_timeout`. A handler calls
the store, each store call is one Lua script over the shared connection, and a
script is atomic in Valkey. Several API processes may share the cache. The
cache drops keys by their native deadline and loses everything on a restart.

### What is hard in each component, and what makes it correct

* **Note ledger.** Five keys describe one note, and they leave by different
  roads: the record has a native deadline, the index, the charge and the byte
  counter leave only by a script. Lua does not roll back, so a creation
  compensates by hand when a write is refused. Correct means: the counter
  equals the charges, no quota is leaked or lost, limits hold, a note is opened
  at most as often as granted and never at or after its deadline, a challenge
  pays once, a failed creation costs nothing.
* **Rate buckets.** Fractional rates (`request_rate / 2`), idle buckets that
  expire, clocks that step back: never more than the burst plus the accrued
  tokens in any window.
* **Cache connection.** A command that times out may have run; it is never sent
  again, a stale failure must not tear down a newer connection, and a restarted
  cache with persistence on must not be published to handlers.
* **API server.** Handlers hold permits over several awaits and can be cancelled
  at each of them. Correct means: permits are never lost or exceeded, a stalled
  upload cannot take the slot reserved for retrieval, a packet's permit lives as
  long as its handler and its response, and only the consuming script decides
  who gets the packet.
* **Web session and controllers.** Every await may be overtaken by a lock, a
  deadline, a hidden tab or a new hash: late results must not show secrets of a
  cleared session or restore a stage that was left.
* **Crypto worker.** One command at a time; a late answer is not taken for that
  of the next command; a worker that dies loses the secrets it kept.
* **CLI.** Each retrieval is spent by a request whose answer may be lost, late or
  another's, into a directory other programs use. Correct means: a consuming
  request is sent once and only with what opens the package, a printed success
  is true, received files overwrite nothing, every command ends.
* **Sizes.** Length arithmetic at the boundaries of header, padding and file
  sizes; a draft counted in chunks while it changes; a body whose length is
  unknown or misstated. Correct means: what the form lets through arrives, and
  nothing grows past its limit.

## 2. The plan

Order: what the service promises first, then the process in front of it, then
the pages that hold secrets, then the arithmetic they all rely on. Modules are
written to be proved about as well as checked: parameters are CONSTANTS with
named assumptions, one action stands for one operation, invariants are
conjunctions of named parts and no module declares a RECURSIVE operator.

| Step | Module | Composes | State |
| --- | --- | --- | --- |
| 1 | `Handoff`: what a creator, a recipient and the operator may rely on | | done |
| 2 | `NoteLedger`: the scripts and the keys they own | implements `Handoff` | done; every safety property and the refinement proved |
| 3 | `RateBucket` | | done, three theorems |
| 4 | `CacheLink`: the shared connection | | done, five theorems |
| 5 | `ApiServer`: handlers, permits, cancellation | over `Handoff` | done; every safety property proved |
| 6 | `WebSession`, `Composer`, `Reader` | both pages instantiate the session | done; every safety property of both pages proved |
| 7 | `Envelope`: packing, sealing, admission, unpacking | | done; proved as a part of `Delivery` |
| 8 | `TextMetrics`; `BoundedRead` | | done; proved as parts of `Delivery` |
| 9 | `Delivery`: the size of a package, from the keyboard to the recipient | 7 and 8; implements `BoundedRead` | done; every safety property and the refinement proved |
| 10 | `Protocol`: what the client derives, verifies and opens, as operators; `CommandLine`: the three commands | over `Handoff` | done; every safety property proved |
| 11 | Composer and Reader over one `Handoff`: the two pages of a link in one model | 1, 6 | open; each page is checked against its own server now |

Every safety property a run checks is now a theorem. Still worth proving: that
an `ApiServer` over the store of `Handoff` keeps the promise `Handoff` makes,
and whatever step 11 adds.

## 3. The modules and the code

### Handoff and NoteLedger

`Handoff` is the abstract specification: a clock, and for each note what is
left, what was retrieved and a deadline; for each challenge whether it is
unissued, usable or void. Its actions say what may happen to them, and not how.

`NoteLedger` is the cache. `db` is a record of the keys: `note` (the hash
`note:<id>` with its native deadline), `index` (the zset `notes`), `charges`
(the hash), `total` (the counter `bytes`), `lease`, `pending` and `spent` (the
keys of challenges). A script is atomic in Valkey and reads one frozen clock,
so each is one action: `Issue` (issue.lua), `Create` (create.lua), `Access`
(access.lua with its four operations and the capability each needs), `Reap`
(reap.lua); `inspect_proof.lua` only reads and is the predicate `ProofUsable`.
Valkey contributes `NativeExpiry` (a key whose deadline has come may be dropped
at any time, or late), `Tick` and `Restart` (everything is lost).
The writes of create.lua are numbered 1 to 8 in their order; any of them may be
refused, and `RolledBack` is what the script's `rollback` then restores.
`release_note` is `Released`, `reap_notes` is `Batches`: at most 128 due notes,
in an order the zset does not determine for equal scores.
`tally`, `uses` and `issued` are history and are read by no guard.

### RateBucket

One bucket of rate.lua. Rates are half-integers (`request_rate / 2`), so tokens
are counted in two-thousandths: every product of the script is an integer.
`exists` and `at` are the record and its timestamp; the record may be dropped
once its PEXPIRE has passed; the clock advances and may be set back.

### CacheLink

One process' `Cache`. `slot` is the published connection, named by its
generation, `lock` the holder of the mutex over an await, `pc` the await at
which each command is. The actions follow `acquire` (`Reuse`, `TakeLock`,
`LockTimeout`, `Connected`, `Publish`, `GiveUp`) and `command` (`Send`,
`Answer`, `Fail`, `Settle`); `Drop` is the guard dropping the future, `Run` and
`Restart` belong to the cache.

### ApiServer

One process over the store of `Handoff`. A request owns permits (`held`) of the
semaphores of `build_router`; `pc` is the await its handler is at. A mutating
script is sent, run and answered in three steps, so that it may run late or its
answer be lost; `Elsewhere`, `Pass` and `Lose` are other processes, time and a
restarted cache. A response that holds a packet keeps its permit until
`Released`, after the handler has ended.

### WebSession, Composer, Reader

A page of the browser is a record, and `WebSession` is the session of
session.ts as operators on such a record; `Composer` and `Reader` instantiate it
with their `HasData` and `Reset`. JavaScript runs one task at a time: a method
is an action up to its first await and another for each answer. Two
abstractions:

* the code compares a ticket's generation only with the current one, and
  `clear()` replaces the generation and aborts the signal together. A ticket is
  therefore kept as the fact that it is still current (`tickets`), and `Clear`
  empties the set. This loses nothing and keeps the state finite.
* the deadline is the number of ticks `left` until it. The wall clock is
  assumed not to step back (a step back only moves the deadline away).

The clock runs within a task too, so `expire()` may find the page in time and
the `ticket()` right after it may not: `Slipped`.

`Composer` has the draft by what submit() makes of it, the link and the receipt,
the busy flag, the calls under way, the call its worker serves, and what the
server knows of each package. `Reader` has the identifier, the words entered,
the content shown, the object URLs and the secrets the worker keeps (`link`,
`header`, `key`) between commands. `wanted`, `asked` and `abandoned` are
history. A worker command and a request may fail in every way the code
distinguishes, also by the death of the worker; the server acts on what was
sent whether or not anybody still waits.

### Envelope, TextMetrics, BoundedRead and Delivery

`Envelope` is a package as the lengths it has on its way: `PackText`,
`PackFile`, `Padded` (pack), `Seal` (create), `Admit` (parse_packet of the
server), `TakeText`, `TakeFile`, `Ends` (parsePacket and unpack). `Foreign` is an
authentic envelope of another implementation, whose fields may say anything.

`TextMetrics` is the class of that name: a draft is a sequence of UTF-16 units,
`Counted` is the loop of one call of step(), `Fire` the next chunk, and `Type`
the page's effect, which may start another count between two chunks.

`BoundedRead` is how both clients read a body: `Begin` (the headers and the
first buffer), `Piece` (one turn of the loop, with the buffer that grows), `End`,
`Break`. What differs between readBounded of the web application and bytes of
the CLI is in `Announced`: only the former ignores a length that is no number.

`Delivery` composes the three: the form's `Submit` is enabled by what
`TextMetrics` shows and packs what the draft really has, `Respond` starts a
reading of the stored packet under headers that may be wrong (`Lengths`), and `Receive`
unpacks what was read, or finds a packet cut short. Its body is the packet, so
`BoundedRead` is instantiated with `total <- Packet`.

### Protocol and CommandLine

`Protocol` writes create(), contentKeys(), prepareOpen() and decrypt() of
shared/index.ts with symbolic terms: a hash, a key and a token are equal only
when they are made from equal things. `Prepares` is what makes prepareOpen()
throw or not, `Decrypts` likewise.

`CommandLine` runs a few processes of the CLI over `Handoff`. `proc` is where
each of them is: `Send`, `Challenged`, `Created`; `Inspect`, `Receive`,
`Verified`, `Opened`, `OpenFile`, `WriteFile`, `Saved`; `Revoke`, `Revoked`.
`wire` is the request it sent, which the service may handle after the process
has ended (`Ends` leaves it there), or never. `Issue`, `Store`, `Describe`,
`Open` and `Withdraw` are the service, `Deny` any refusal, `Misroute` an answer
that is another package's. `disk` is the one directory all receivers write to,
by folded names; `Occupy` is another program.

## 4. What the runs check

Each property has a mutant of the code in its module (named
`<Definition>_<Bug>`) that violates it; `PROJECT.json` names the pair.
`BufferBounded` has two, one for what is read and one for what is copied.

| Run | Question | Bounds and why they are enough |
| --- | --- | --- |
| `ledger_safety` | Do the keys agree, do limits hold, does a failed creation cost nothing? | 3 notes for 2 slots, 2 sizes for a quota of 6, every write refusable, one note per reaping: the quota and the count are each exhausted by expired charges the reaper has not reached. 3 s cover issue, lease expiry, note expiry and a replay after the marker has gone. Symmetric in notes and challenges. |
| `ledger_promise` | Do the scripts implement `Handoff`; is every charge returned? | 2 notes, 2 challenges, 1 or 2 retrievals, lifetimes 1 and 2, five refusable writes. |
| `rate_bucket` | Is every window bounded? | one and a half tokens a second, seven seconds, one step back: longer than filling an empty bucket. |
| `cache_link` | At most one run, no stale withdrawal, no deadlock? | 3 commands: one fails late on the old connection while another has published its replacement and a third waits for the mutex; 2 restarts. |
| `server_safety`, `server_liveness` | Are permits bounded, retrievals counted once, recipients let in? Does every request end? | 2 packet slots, 1 slot per class, 3 requests (2 for liveness): one upload, one opening and one that must be turned away. |
| `composer` | Can two operations overlap, can a cleared session's package come back, are secrets always under a deadline? | 2 calls and 2 packages: one of the cleared session, one of the next. The deadline is one tick away: the code only asks whether it has passed, so every step may come before and after it. |
| `reader` | Is hidden or cleared content gone, is the right link shown, is a retrieval asked for once? | 2 links, one with a passphrase, 2 retrievals, 2 overlapping calls, 2 ticks (an answer that extended the deadline would be seen). |
| `delivery` | Is the size the page shows that of the draft, does what the form lets through arrive, does a buffer stay bounded, is only what was packed accepted? | chunks of 2 units against drafts that hold a surrogate pair or half of one at either side of a chunk; limits of a few bytes, so that every length up to and beyond each limit occurs; lengths announced right, too small by one byte and by many, too large within and beyond the limit, absent and malformed, so that a body is refused by its headers as well as in the middle (`Piece`); bodies in pieces of 5 and 40 bytes and in one; for foreign envelopes up to two files of hostile headers. The limits of the service satisfy `Headroom`, which TLC evaluates (`ServiceHeadroom`). |
| `command_line` | Is a printed success true, is a retrieval asked for once and only to open, is nothing overwritten, does every command end? | 3 processes in four casts (two receivers of one link, a receiver or two senders against a revocation, two packages that can be mixed up), with and without a passphrase; right, missing and mistyped words, links and receipts of the other package; output names that differ only in case; one file of another program. |

### Deviations found

| Run | What it shows |
| --- | --- |
| `composer_reachable` | If the page is cleared while `init()` waits for the configuration, the answer is dropped and nothing asks again: the form stays disabled, and "Retry connection" is offered only beside an error. |
| `reader_retry` | If the worker dies while it prepares an opening, the page stays ready and the message says "Retry", but the new worker has no link: every retry fails. No retrieval is lost; the link must be opened again. |

`copyLink()` tests the deadline and `ticket()` then tests it again; `Slipped` of
`CopyLink` is the deadline passing in between (an empty link is
copied). It takes part in the runs of the Composer, and no property is about the
clipboard.

### Fairness

* `NoteLedger`: weak fairness of `Reap` (the task of store.rs runs once a second,
  for ever, and ignores errors) and of `Tick`.
* `CacheLink`: each await has a deadline, so waiting for the mutex, connecting,
  sending and settling each end; nothing is assumed of the cache.
* `ApiServer`: the guard's `request_timeout` ends a handler and the lifetime of a
  connection releases a response; nothing is assumed of clients or the cache.
* `Composer`, `Reader`: time passes, the browser runs a due timer, and a pending
  call ends (api.ts aborts after 330 s; a worker command is a finite
  computation or the worker dies). Nothing is assumed of the user, the
  clipboard or the server.

* `CommandLine`: a process goes on when it can, a request is aborted after 330 s,
  and the search for a proof ends when the challenge has expired. Nothing is
  assumed of the service, the network or the user.

Deadlock is checked except in `cache_link`, `delivery` and `command_line`, which
really end: all commands are finished, the package is accepted or not.

## 5. What is proved

All proofs are checked by TLAPS for every value of the constants, under the
assumptions named in the modules (`ParametersAssumption`,
`FiniteKeysAssumption`, `LinkAssumption`, `NoOneAssumption`, `ServerAssumption`,
`ComposerAssumption`, `ReaderAssumption`, `EnvelopeAssumption`, `DeliveryAssumption`,
`CommandLineAssumption`, `ProcsAssumption`, `TextNamesAssumption` and
`RateAssumption`), which TLC evaluates in the runs. They say what the code or its
configuration guarantees: limits are positive, tokens and identifiers are
finitely many and distinct from the placeholders, and the loop of writeContent
that numbers `message.txt` finds a free name. Type correctness is proved
(`TypeCorrect`, `BucketTypeCorrect`, `LinkTypeCorrect`, and as a part of the
other invariants) and not run as well.

* `NoteLedger_proofs`. The invariants are not inductive: that a charge without a
  record is due needs the record's deadline to be its index entry, that
  retrievals add up needs a stored note to have been granted some, and that a
  challenge pays once needs its lease and its marker to exclude each other
  until the lease has expired. `IInv` adds these. One lemma per script
  preserves it; `CompensationExact` shows on its own that the rollback restores
  exactly the cache the writes started from, whichever write was refused, so
  a failed creation is a reaping and nothing else. `Conservation` and
  `WithinBudget` are about a sum over the charged notes and a count of challenges
  and need a second invariant, `Counts`: a challenge that has not lapsed is in
  the index by its own deadline (`Tight`), and one that has paid has no lease
  (`Marked`), so pruning the index never undercounts. What a sum over a set
  becomes when a charge is added or removed is shown by a smallest
  counterexample, since the prover has no induction over an operator. The
  refinement `KeepsPromise` has one lemma per script: a creation is `Admit`, an
  access `Retrieve` or `Revoke`, time and a restart are `Pass` and `Lose`, and
  reaping, a refused creation and a native expiry are stutters, because the
  abstract state counts a note as gone at its deadline and not when its keys go.
  Results: `TypeCorrect`, `LedgerAlwaysAgrees`, `ViewsAlwaysAccountedFor`,
  `ProofAlwaysPaysOnce`, `TotalAlwaysConserved`, `BudgetAlwaysKept`,
  `LossAlwaysForCause`, `PromiseAlwaysKept`.
* `RateBucket_proofs`. The invariant bounds, for every window at once, what was
  admitted plus what the bucket would hold now by the burst plus the accrual;
  a lemma for each step of the clock shows how that level moves. Results:
  `BucketTypeCorrect`, `WindowAlwaysBounded`, `RefusalAlwaysForCause`.
* `CacheLink_proofs`. `IInv` adds that a command is in flight, answered or run at
  most once in all, that what is in flight reached a safe cache, and that a
  command that failed is recorded against its own generation. Results:
  `LinkTypeCorrect`, `CommandsRunAtMostOnce`, `LockAlwaysHeldByConnecting`,
  `UnsafeCacheNeverRuns`, `WithdrawalAlwaysForCause`.

* `Delivery_proofs`, about `Delivery` and the modules it composes, from
  `EnvelopeAssumption`, `DeliveryAssumption` and, for what must arrive,
  `Headroom` (the packet limit has room for the largest padded envelope; TLC
  evaluates it for the service's limits). The sums of an envelope and of a draft
  are recursive functions. The prover has no induction over an operator, but it
  has one over a set: `Inductive` takes the smallest number a set lacks, and
  `Runs`, `Agreement` and `Climbing` give from it what such a function computes
  up to any number.
  - `PackageInv`: a package of pack() keeps the limits of its text, its files and
    their names, adds up (`Sums`), and so fits when padded (`PadIs`); where
    unpack() stands is the sum of the files it has read (`ReadSoFar`), so it
    ends exactly at the end. Result: `OnlyPackedAccepted`.
  - `MeterInv`: a count is that of the draft's first units and never stops inside a
    surrogate pair, which a chunk that ends there must not split (`TakeCounts`
    for one unit or pair, `CountedCounts` for a chunk); `Type` may replace the draft
    between two chunks and starts anew. Result: `ShownAlwaysTheDraft`.
  - `ReadInv`: a growing buffer at least doubles until it has its maximum, so that
    what was copied stays below twice the capacity. The transfer is a reading:
    every step of `Delivery` is a step of `BoundedRead` whose body is the packet,
    or one it does not see (`DeliveryReads`); it needs that the packet keeps its
    length from the first byte read to the last (`Lengthy`). Results:
    `DeliveryBufferBounded`, `DeliveryReadOrForCause`.
  - All of it gives `PackedAlwaysArrives`: what the form lets through is within the
    text's limit because the size shown is the draft's, what pack() accepts
    parses and is admitted, its reader refuses only headers that misstate it, and
    unpack() reads it to its end.
* `ApiServer_proofs`. `IInv` says of each request which permits it holds at which
  await (`Owns`), which script it waits for (`Awaits`) and what its own script
  has taken (`Consumes`), and counts all held permits against their semaphores
  (`PermitsBounded`); a step concerns one request, and one lemma
  (`StepOfOne`) carries the others over. That a proof confirms one creation needs
  that a challenge is paid once across every process (`PaidOnce`). Results:
  `BuffersAlwaysBounded`, `OpeningsAlwaysConsumeOne`, `ProofAlwaysConfirmedOnce`,
  `RecipientsNeverCrowdedOut`.
* `Composer_proofs`. The invariant `Good` is a predicate of the page, of what the
  server knows and of the revocations sent: one operation exactly while the page
  is busy, and a worker that runs only for it (`OneCall`); a link only beside its
  receipt and in place of the form, and nothing of a cleared session among the
  link and the current calls (`OfSession`); every package named anywhere was
  sealed, a link was stored, and a package is not sent before its proof is found
  (`Believes`). The last is what makes the link stay confirmed: only the one live
  call may send its package, and that one is not stored yet. An answer ends its
  call (`DoneGood`), goes on to the next await (`MovesOn`) or is overtaken by a clear
  (`StaleGood`); the server only moves forward (`LaterGood`). TLC checked `Good` on
  the instance of `composer` before it was proved. Results:
  `BusyAlwaysMeansOneOperation`, `LinkAlwaysTheSessions`.
* `Reader_proofs`. The session is a function from page to page, so the invariant
  is a predicate `Good` on pages: one operation at a time, each call with its
  ticket or stale (`OneCall`), secrets and content only while a deadline runs
  (`Keeps`), and what is kept is of the package wanted (`OfWanted`). Lemmas state
  what each function of the session returns; two cover what overtakes an await:
  an answer to a stale call changes nothing that is shown (`StaleGood`), and a
  cleared page is quiet (`QuietGood`). Results: `NothingEverLingers`,
  `ContentAlwaysTheWanted`, `RetrievalAlwaysAskedOnce`, `PhaseAlwaysMeansCall`,
  `OnlyTheUserEverExtends`.
* `CommandLine_proofs`. None of the properties is inductive. `IInv` adds that a
  request to open that is still pending belongs to a receiver of that package
  which is past its checks (`Receiving`), and counts retrievals against the
  receivers that have spent theirs (`Spenders`): handling the request moves its
  process into that set, and nothing moves one out. A second invariant, `JInv`,
  relates processes, requests, packets and files: senders draw different
  identifiers (`Distinct`), so only a sender's own request stores a packet under
  its identifier, once (`Creating`, `Drawn`); a stored packet stays, so what a
  receiver has verified or decrypted is of its package even if the answer was
  another's (`Asking`, `Holding`: the identifier is in the header, which the
  sealed content authenticates); and a receiver's files are the outputs it has
  written, whose names differ however they are folded (`Files`, `Neat`, from the
  check of the sender and the loop of writeContent). Results:
  `RetrievedOncePerCommand`, `FilesNeverOverwritten`, `RetrievalAskedOnlyToOpen`,
  `SuccessAlwaysTrue`, `CollidesAlwaysWithOthers`.

Only model-checked: liveness under fairness, which is outside the prover's reach
(`EveryChargeReturns`, `CallsReturn`, `RequestsEnd`, `InactivePageForgets`,
`CommandsEnd`), and the two deviations, which are counterexamples. The runs also check what the proofs assume of the constants.

## 6. What is not modelled, and why

* Cryptography and hashes are symbolic in `Protocol`; elsewhere a capability, a
  key or words are right or wrong. Encodings (base64url, links, safe integers) and
  the search for a proof of work are pure functions of bytes.
* Parsing of requests and replies, headers and status codes: they change no
  state. Their verdict is a choice of the model wherever it is acted upon.
* `NoteLedger`: keys of a wrong type (nothing writes one), and a refused DEL or
  SET inside the rollback itself: create.lua cannot answer that either. Nor is a
  write refused inside `release_note` (common.lua:19-26), be it of the reaping that
  opens create.lua, of access.lua or of reap.lua: it writes with `redis.call` and
  has no compensation, so a refused SET of the counter would end the script with
  the charge gone and the counter too high until the cache restarts.
  `Conservation` and `EveryChargeReturns` assume that this does not happen. The
  code provides for the one expected refusal, a full cache: access.lua and
  reap.lua run with `allow-oom` (store.rs:15-29), and create.lua, which does not, is
  then refused as a whole, before its first command.
  `tostring` of a fractional bucket rounds in the 14th digit; `RateBucket` counts
  exactly.
* `CacheLink`: `require_safe_cache = false` only skips the verification.
  A command cancelled while its bytes are still buffered counts as sent.
* `ApiServer`: the bytes of a command that the cache connection still has to
  write when its handler is dropped. `BuffersBounded` counts the packets of
  handlers and responses; command buffers are bounded apart from the permits
  (docs/operations.md:89-91). Further, sockets, TLS termination, the drain of a shutdown and the
  configuration, which is read once.
* Web: warnings, progress texts, focus, sizes, themes, the destruction of a page
  (a last `Clear`), and `pow_bits`.
* `CommandLine`: arguments and `serverOrigin`; reading standard input and local
  files, which succeed or end the command (`Fails`). All receivers write into
  one directory, the worst case. No time passes: that a package expires looks
  to a client like a refusal, which `Deny` gives at any time. The answer to a
  revocation names no package, so the client takes it at its word, and
  `Misroute` leaves it out.
* `BoundedRead`: what cancels and releases the stream; every way out does.
* nginx, systemd, Docker: deployment.

# fileee-mcp-server: a verification project in TLA+

fileee-mcp-server is an MCP server in Go that lets an assistant work with
Fileee accounts.  A tool call arrives with a verified identity, passes a rate
limiter, gets an authenticated Fileee client from a pool and reads or changes
documents, contacts, reminders and boxes.  This directory holds models of the
parts whose correctness depends on order, sharing, limits and failure, the
TLC runs that check them on small instances and TLAPS proofs of what matters
most for every instance.

## The system

| component | state it keeps | operations | how it interacts |
|---|---|---|---|
| `internal/config` | none; produces `Config` with the accounts and the subject index | `LoadConfig`: `ladeAuth`, `ladeZahlenwerte`, `ladeKonten` | environment to configuration, or an error |
| `internal/server/server.go` | none of its own | `New`, `buildResolver`, `Run` | builds resolver, store, pool, limiter and MCP server out of the configuration |
| `internal/server/scopes.go` | none | `scopesSatisfied`, `missingScopes` | the selector asks it whether a caller gets the tools |
| `internal/accounts` | fixed map from subject to credentials | `Credentials` | the pool's resolver |
| `internal/server/ratelimit.go` | a global bucket, a bucket per subject, slots | the middleware: `acquire` and release | around every tool call |
| `internal/clientpool` | cached clients, a login mutex per account, two singleflight groups, a closed flag | `For`, `ProbeLogin`, `Close` | every tool handler calls `For`, `self_check` calls `ProbeLogin`, `Run` calls `Close`; both log in at Fileee |
| `internal/issued` | per identity a bucket of (id, time) | `Record`, `Check` | the get tools record; nothing calls `Check` yet |
| `internal/tools`, reading | none | get, list, search, sync, download tools | pool, store, Fileee |
| `internal/tools`, writing | none | update, create, upload and box tools | pool, Fileee |
| `internal/tools/ops.go` | self_check's cache and flight; call statistics | `self_check`, `get_runtime_stats`, `get_tool_manifest` | pool; every handler records into the statistics |
| `internal/diag`, `cmd/` | none | logging; `main`, `version`, `healthcheck` | around the rest |
| Gangway, go-fileee, Fileee | HTTP transport and OIDC; Fileee's API | | outside this repository, modelled from how it is used |

### What is hard about it, and what would make it right

* **Logging in** (clientpool).  Fileee invalidates sessions and locks accounts
  when logins overlap, and go-fileee's logins are not safe against each other.
  Two subjects of one account, a `self_check` and a `Close` meet in two nested
  singleflight groups, a mutex per account and a cache.  Right means: logins
  of an account exclude each other, an account gets one session, nobody gets
  another account's client, every call returns, nothing outlives `Close`, and
  a failure leaves nothing behind.
* **Real logins on demand** (self_check).  Cache, clock, flight and login lock
  are four things read at different moments.  Right means: few enough real
  logins, and every answer is the verdict of one at the asker's own account.
* **Quotas** (ratelimit).  Three gates, one after the other, no lock across
  them.  Right means: no window lets through more than burst and rate allow,
  slots come back, however the calls race, no gate waits.
* **Issued ids** (issued).  A bounded, expiring memory.  Right means: what
  passes was handed to that identity within ttl, limits of zero or less close
  the gate, and refusals have a reason.
* **Reading and changing entities** (tools).  Updates are a read and a write,
  answers get lost, uploads are retried.  Right means: an error of the server
  itself changed nothing, a success changed exactly one thing and names it,
  fields nobody asked for do not change, and only ids the caller named and
  read count as issued.
* **Sync and lists** (tools).  The server keeps nothing; cursors and offsets
  are the caller's, and a list may change between two pages:
  `list_documents` is most recently modified first, so what is uploaded or
  modified moves to the front.  Right means: a copy that is what the account
  held, and a walk that ends, is given no more rows twice than entries arrived
  or moved, and misses no more of the others than there were changes that
  brought them further to the front.
* **Foreign text** (tools).  Titles, names and subjects were written by
  others, and a client may look at either channel of an answer.  Right means:
  each channel tells of every row and every text, no such text stands outside
  its frame, and a descriptor that would leak one is never mounted.
* **Counters** (tools).  Handlers that end together write into one map, and a
  report is put together outside its lock.  Right means: every ended call is
  counted once, and a report is what the counters were at one moment.
* **Numbers** (config, tools).  Limits may be any non-negative int64.  Right
  means: what is within a limit passes, what is above it does not, whatever
  the limit.
* **From the environment to an account** (config, server, accounts).  Two
  account modes, two indexes built from one list in two places, variables of
  three providers.  Right means: a subject gets the account the operator wrote
  down or none, and no provider variable that is set is ignored.  (Others are:
  `MCP_API_TOKEN` in mode oidc, `MCP_ALLOWED_SUBJECTS` in mode multi.)

`PROJECT.json` lists every hazard at its line with the properties for it.

## Modules

| module | models | notes |
|---|---|---|
| `LoginService` | what the pool promises, without saying how | the abstract specification |
| `ClientPool` | `pool.go` | one step per lock, flight and login; refines `LoginService` |
| `ClientPoolInv` | | the inductive invariant of `ClientPool`, in named parts |
| `Issued` | `issued.go` | `Record` and `Check` are atomic under `Store.mu` |
| `RateLimiter` | `ratelimit.go` | one step per gate; buckets in parts of a token |
| `ToolCall` | `RateLimiter` with `logToolEnd`, `recordToolCall`, `runtimeStatsSnapshot` | a call from the gates to its answer; implements `RateLimiter` |
| `SelfCheck` | `ops.go` (self_check) with `ProbeLogin`'s lock | ordinary logins appear as another holder of the lock |
| `EntityTools` | `read*.go`, `write*.go`, `whoami.go` | one step per check and request; two fields per entity |
| `Answers` | `read_generic.go`: registration, frames, the two channels of an answer | operators only, no state |
| `Sync` | `read_sync.go`, the sync part of `read.go` | with a caller that keeps a copy |
| `Listing` | `clampLimit`, `nonNegative`, the list tools | extends `Answers`; with a caller that walks through the pages |
| `Reads` | `Sync` and `Listing` beside each other | no state in common |
| `Limits` | numeric settings, upload gates, `readLimited` | integers wrap at `MaxInt` |
| `Startup` | `config.go`, `server.New`, `accounts`, `scopes.go` | from the environment to a caller's account |
| `MC*` | | the instances for TLC |
| `*Proofs` | | the theorems |

State and actions carry the names of the source where TLA+ allows it.  A
handler that does several things between two locks or requests is one action;
one that gives up a lock or waits for Fileee is one action per stretch, and
`pc` (or `stage`) says which stretch comes next.  `PROJECT.json` maps every
definition to its lines.  Definitions marked "Variant:" are deliberately wrong
forms of the definition that follows them (a missing guard, a wrap instead of
saturation); each property of each passing run is violated once one of them is
put in place of the real definition, so every property depends on the code.

### ClientPool

A caller runs one tool call at a time: `For` (`Start`, `Lookup`,
`JoinAccount`, `Recheck`, `LockAndBuild`, `Login`, `StartKeepAlive`, `Publish`,
`StopLate`, `Unlock`, `FinishAccount`, `FinishSubject`, `Return`) or
`ProbeLogin` (`ProbeResolve`, `ProbeLockAndBuild`, `ProbeAnswered`,
`ProbeUnlock`).  A closer runs `Close`, then stops the clients it found one
by one.  `bySubject` and `byAccount` hold the leader of each flight, and
waiters get the leader's result when it finishes.  A client is its account and
the number of the session it carries, so "the same client" is equality.
`sessions` counts established sessions; `keepalives` are the goroutines still
running.

The refinement maps a call to idle, called or answered, an attempt to the
callers between the start and the end of a login, and the shared session to
the cache.

### Issued, RateLimiter, ToolCall, SelfCheck

`Issued` keeps, beside the store, when an id was last handed out
(`delivered`): the properties compare the two.  Eviction is nondeterministic
among entries of equal age, as Go's sort of equal times is.

`RateLimiter` observes a window that may begin at any time (`Mark`) and counts
in `took` what each call took since.  A lazy token bucket holds at every moment
what its refill would yield when looked at; the model writes that down with
every tick.

`ToolCall` puts the handler between the limiter's last gate and its release:
the SDK may refuse the arguments (`Dispatch`), `get_runtime_stats` copies the
counters (`RuntimeStatsSnapshot`), `logToolEnd` takes the time before
`recordToolCall` gets the lock.  `log` remembers the calls in the order they
were recorded; counters and reports are compared with it.  What a handler of
another tool does in between is its outcome only.

`SelfCheck` keeps the clock, the cache entry each leader read, the time it
took, and the login lock.  The probe's outcome is one of the errors
`classifySelfCheckOutcome` tells apart, or the cancellation of the leader's
own request, which falls into its default case; `made` remembers outcome and
time of every attempt.

### EntityTools, Sync, Listing, Answers

Fileee is a store of entities that may refuse a request, or carry it out and
lose the answer.  `EntityTools` follows a call through its checks, the pool,
its requests, the boundary that frames foreign text, and the write.  Ids may be
aliases: an answer can carry another id than the one asked for, and what is
recorded as issued must be the one the caller named.  The tools that name an
id and return something else (OCR, page images, conversations of a document),
lists, searches, account status and `whoami` record nothing.  A subject
without an account is told apart (`denied`) from every other failure to get a
client, as `clientFor` does; for `whoami` it is an ordinary answer.

`Sync` has one tool per type, a cursor for each and an account that changes at
any moment; answers get lost and cursors get mixed up.  `during` collects what
the account contained since the call began.

`Listing` clamps limit and start, and lets entries arrive (`Arrive`), leave
(`Leave`) and move (`Move`) between pages, from any place to any place.  The
order Fileee keeps is thereby left open; that of `list_documents`, where what
is uploaded or modified comes first (read.go:121), is among the cases.  Three
variables say what the changes since the walk began did: `up` counts those by
which other entries come further to the front (a removal, a move to the back),
`down` those by which entries come further to the back (an arrival, a move to
any place), and `touched` are the entries that arrived or moved.
`WalkMissesFew` measures a walk by them.  It promises nothing of the entries in
`touched`: a document that is modified before the caller has come to it moves
to the front and is missed, with nothing removed.  The server keeps nothing
between two pages that could prevent that.

`Answers` says what a page's answer looks like.  A text is a string of which
only "" and " " are told apart from the rest; a descriptor is the fields its
`UntrustedLine` reads, its `PoisonProbe` marks and its `Summarize` shows.  The
content blocks and the structured output are two values, built as
`attachUntrustedStructured` builds them.  A line that says nothing is left
out, and the others keep the place of their row: the properties ask which row
a line belongs to, so the sequence of lines has gaps where the program's is
numbered anew.  A caller pages with any descriptor
that `Mounts`; what mistaken descriptors would show is thereby part of the
model, and `ForeignTextIsFramed` depends on the check at registration.

`Reads` puts `Sync` and `Listing` beside each other.  They share no state, so
one moves while the other stays in its initial state; that each of them still
behaves as its own specification says is proved (`BothAreThemselves`), and with it that what
is proved about one alone holds of both (`ReadsHold`).

### Limits, Startup

`Limits` computes with integers that wrap at `MaxInt`, so that a formula that
overflows is visible; `MaxInt` is 63 in the runs and 2^63 - 1 in the program.
The request limit derived from the upload limit is a field of `Config` that
nothing reads: Gangway fixes the options of its HTTP handler and offers no way
to set it (config.go:161-171).  `BodyHoldsUpload` is about the value, not about
what the transport accepts: it has room for the upload, and it is the largest
integer only if its own value does not fit.

`Startup` takes an environment in which a variable is what the checks tell
apart (tenant, base URL and slug have a form, the other provider variables are
set or not), runs `LoadConfig` and `New` as they are ordered in the code, and then
serves callers with any scopes.

## Runs

Passing runs, with the distinct states each reaches:

| run | instance | states | what it shows |
|---|---|---|---|
| `client_pool` | 3 callers, 1 closer, 3 subjects of 2 accounts | 240 k | safety of the pool, and that every step is one `LoginService` allows |
| `client_pool_live` | 2 callers, 1 closer, 1 account, one subject without | 7 k | the fair service is implemented, so every call returns; keepalives end; failures do not stick |
| `issued` | 2 identities, 3 ids, cap 2 or -1, ttl 2 or 0, clock to 3 | 51 k | what passes, what is refused and why, the cap, and that limits of zero or less close the gate |
| `tool_calls` | 3 calls of 2 subjects, one of them `get_runtime_stats`; 2 slots, bursts of two tokens (all) and one (a subject), counted in halves of a token, clock to 1 | 796 k | slots, both rates over every window, exact counters, reports of one moment |
| `self_check` | 5 calls: 3 on one account, 1 on another, 1 without; interval 2, clock to 3 | 1.1 M | answers, order of results, number of real logins |
| `entity_tools` | 2 calls at a time, 3 in all; 2 subjects of an account, one contact under two ids, a reminder, a box, a document, room for three more | 226 k | reading, patching, creating and filing, with lost answers |
| `limits` | every limit of a seven-bit integer, contents around it | 337 k | gates, downloads, the derived limit |
| `startup` | some 8,400 environments: all modes, providers and sets of variables; both account modes with up to 2 of 4 keys | 34 k | subjects resolve as written, both indexes agree, no provider variable is ignored, an account needs everything |
| `reads` | `Sync`: 2 types, 2 ids; `Listing`: 3 of 4 entries, limits 0, 1, 9 (default 1, largest 2), 2 changes at any places, 4 sound descriptors and 5 mistaken ones | 2.1 M | the caller's copy is current; walks end, repeat little and miss few; both channels tell everything; foreign text is framed |

Why these bounds are enough: what can go wrong in the pool needs a leader, a
waiter on the same subject or one on the same account, and somebody who logs
in past the flights or closes; three callers and a closer are all of them.
Cap and ttl of two have a boundary on both sides and room for an eviction
among equals; the store's limits are chosen in the initial state, so that one
run has the closed gates too.  Two calls of a subject and one of another meet at every
gate, exceed the slots and the bursts, and let two handlers end around a
snapshot.  Two changes and three entries, one or two to a page, let an entry
that was not seen yet move to the front, one that was seen move to the back,
and both happen to the same walk.  The entries of a list say everything, nothing, or white space in
one field and something in another, which are all the cases the frame tells
apart.  Two overlapping calls suffice for a
read-write pair to enclose another, and the third sees what the two left.
`Limits` enumerates all integers of its width, which includes every rounding
and every wrap.  `Startup` has two keys that read the same variables, one that
is malformed and one that is neither.  The clocks are bounded, as are versions,
changes and calls (`MaxClock`, `MaxVersion`, `MaxChanges`, `MaxCalls`); nothing
else is.

Deadlock is checked in every run but those of `EntityTools`: there the callers
stop after `MaxCalls` calls, and a state in which they have is not an error.

Symmetry is used for callers, calls of one subject, and ids, never in runs
with liveness properties.

Runs that end in a violation, each of a statement the repository makes:

| run | statement | what the code does |
|---|---|---|
| `entity_tools_omitted` | an omitted field keeps its current value (write.go:459-460) | an overlapping update is overwritten; `UndisturbedPatchIsExact` holds |
| `self_check_down` | "down" means that Fileee could not be reached (ops.go:410-411, 619-620) | a login cancelled with its leader's request is "down" for all who joined the flight, and for a window after |
| `limits_ttl` | a positive `IssuedIDTTLSeconds` bounds how long an id stays valid (config.go:243-250) | seconds times `time.Second` wraps |

### Disagreements read in the code, without a run

* A rejected call is said to have acquired nothing in part
  (ratelimit.go:122-126).  A call that the subject's gate or the slots reject
  has used up a global token, so one subject's rejected calls cost the others.
  `RateLimiter` models exactly that.
* No second attempt of a self_check is said to come sooner than
  `selfCheckMinInterval` after the last (ops.go:355-357).  The time is taken
  before the wait for the login lock, so an attempt that begins late can be
  followed too soon.  `AttemptsBounded` and `CacheAdvances` hold all the same.
* `lastErrorKind` and `lastErrorAt` are said to be those of a tool's most
  recent failure (ops.go:588-589).  The time is taken before the lock of the
  counters (read.go:299), so of two failures that end together the older may
  be recorded last.  `CountsMatchCalls` says "recorded last".
* The counters are said to hold how many times each tool has been called
  (ops.go:587).  Calls the limiter rejects or whose arguments the schema
  refuses never reach `logToolEnd` and are not among them.
* The check at registration is said to prove that `Summarize` never reproduces
  what `UntrustedLine` frames (read_generic.go:278-280).  It proves that for
  the fields `PoisonProbe` marks: that of a contact marks the last name only
  (read_people.go:133), and a summary that showed the first name would pass.
  None does.
* A base64 string longer than the encoded limit is said to be guaranteed to
  decode to more than the limit (write_documents.go:204-208).  It is not if it
  contains line breaks, which the decoder skips; `WithinLimitPasses` is about
  contents in one line.
* `ladeKonten` is said to enforce the resolver's rule already
  (server.go:380-387).  In mode single a subject listed twice loads, and
  `accounts` refuses it later, before anything is served.
* The account's key is said to become the name of its session file
  (config.go:67, 735-738, 750).  The user name does (server.go:422), and two
  keys may share it.

## Fairness

Safety runs assume none.  Only `ClientPool` has a fair specification.  It
assumes that a goroutine which can run does (the Go scheduler), that a login
at Fileee answers or fails (it is given the call's context), and, as strong
fairness, that a mutex somebody waits for is got in the end: Go's mutex hands
itself over to a waiter that has waited for a millisecond.  Nobody has to make
a call or to close the pool.  That every call returns is part of the fair
`LoginService`, which `client_pool_live` checks that the pool implements.

## Proofs

TLAPS proves, for every value of the constants that the named assumptions
allow:

* `ClientPoolProofs`: `PoolInvariant`, and from it type correctness, exclusion
  of logins, one session per account, own answers, a stopper for every
  keepalive, clients that stay, and that `ClientPool` implements
  `LoginService` (`PoolImplementsService`).  None of these is inductive by
  itself: that a second session cannot be established needs that the leader of
  an account's flight is alone (`AccountGroups`), that it looked again at the
  cache (`BuildersHold`) and that an established session is in the cache or in
  the hands of that leader (`SessionsAccounted`); exclusion needs
  `LockHolders`; own answers need that results travel within their groups
  (`ResultsHeld`, `SubjectGroups`).  `PoolInv` is their conjunction, and has one
  lemma per part, with one step per action.
* `IssuedProofs`: `IssuedInv` adds that a bucket says when an id was last
  handed out, that nothing was handed out in the future, and that what is gone
  has aged out or had a cap's worth of rivals.  From it: only fresh deliveries
  pass, refusals have a reason and are final, the cap holds, and bad limits
  fail closed.  `Ids` is assumed finite.
* `LimitsProofs`: the two saturating formulas are exact for every width of
  integer (`EncodedLenExact`, `BodyBytesExact`); hence no upload within the
  limit is refused, none above it passes, and the derived limit has room and
  saturates no earlier than it must.
  Downloads are whole and closed.  `MaxInt % 4 = 3` and `Frame >= 3` hold for
  2^63 - 1 and 64 KiB.
* `ToolCallProofs`, first for the gates alone: `LimiterInv` adds that limiters
  are private to their subject, and a budget: what is left of a bucket and what
  was taken never exceed burst plus accrual.  From it: types, slots, both
  rates.  `Calls` is assumed finite.  Then for the calls: `ToolCall`
  implements `RateLimiter` (`CallsObeyLimiter`), so slots and rates carry over
  without a second proof.  `StatsInv` adds to the two properties that only
  recorded calls are in the log, and that a call whose handler has not begun
  has no report (`LogIsPast`), so that no action rewrites what the counts rest
  on; from it: counters are exact and reports are moments, for any number of
  calls and tools.
* `SelfCheckProofs`: `IInv` adds that a flight has one leader who is still on
  the way and whom the others wait for (`FlightsAreLed`), that every result
  and cache entry is the verdict of an attempt at its own account
  (`ResultsAreGenuine`), that what a leader read is still in the cache
  (`ReadsAreCurrent`), and that attempts fit into the time up to the last one
  stored or under way (`AttemptsFit`).  From it: types, genuine answers,
  bounded attempts, a cache that only advances.  None of the properties is
  inductive alone: that two attempts are an interval apart needs that nobody
  else stores between a leader's reading and its own storing.
* `EntityToolsProofs`: `EntityInv` adds that whoever got a client has an
  account and an input that passed its checks (`Identified`), that a request
  still under way has changed nothing (`NothingYet`), that what a get or an
  update looked up is there, although other calls went on since (`Targets`),
  and that entities are stored under their own id, not under its aliases
  (`Canonical`), so that the id a create answers finds what was created.  From
  it: types, answers that say what was changed (`AnswersAreTrue`), created
  entities that are stored with their content under the id answered
  (`CreatedIsNamed`), and issued ids that were read (`IssuedIsWhatWasRead`).
  Created entities stay as they are because nothing stored goes away and no
  document's content changes (`Grows`); the latter needs that an update, which
  sends the whole document back, still holds the stored content however long
  ago it loaded it (`ContentHeld`).  `PatchesAreExact` is an action property:
  an update whose entity nobody changed since it was read leaves every field
  alone that the caller left out.  Assumed: no entity is `Absent`, and a
  request holds what the input of its tool has fields for.
* `StartupProofs`: `StartupInv` follows the accounts through the loop of
  `ladeKonten`: those built are the entries read so far, each with the variables
  of its own prefix (`SingleEntry`, `MultiEntries`), no subject is in two of
  them (`SubjectsApart`), and the index says of each subject the key of the
  account it is in (`Mirrors`).  From it: a subject resolves as it was written,
  the index agrees with the resolver that `New` builds from the accounts a
  second time, no provider variable that is set is ignored, an account needs
  all its variables.
  Mode multi needs the invariant at every round of the loop, for lists of keys
  of any length.  Users are assumed not to be called like an answer the model
  gives for "no tools" or "no account".
* `ReadsProofs`, for `Sync`: `SyncInv` ties a cursor to the copy it came with
  (`CursorsMatch`), also while a call with it is under way (`SentMatches`), and
  an answer to contents the account had during its call (`AnswersLead`).  From
  it: a copy is, after each call, what the account contained at some moment of
  that call (`CopiesAreCurrent`), with answers lost and cursors mixed up.
* `ReadsProofs`, for a walk through a list: neither half of `WalkMissesFew` is
  inductive.  `WalkInv` counts what stands behind the caller, stayed in its
  place and has not been seen (`Skipped`), together with how far the caller
  stands behind the end of a list that shrank (`Short`), against `up`; and what
  stands ahead although it has been seen (`Again`), together with the rows
  given twice, against `down`.  It adds that every page moved forward, which
  bounds the pages.  A change adds a set to each of the two sums, of no more
  elements than it counts for (`CountedChange`): a removal lets at most one
  entry slip behind the caller and brings none before it, an arrival at any place
  pushes at most one before it again, and so does a move, which may also let one
  slip.
* `ReadsProofs`, for the answers of a list: `ToldInv` says that an answer is
  put together by a mounted tool out of rows of the list, and nothing else; the
  rest is about `Answers`, that is, what such an answer holds for any rows and
  any descriptor.  From it: each channel tells of every row and every text
  (`EitherChannelSuffices`), and no foreign text stands outside its frame
  (`FramesHold`).  The latter rests on the check at registration, and on what
  that check is not told (`ProbesAssumption`): what a summary shows of what a
  line reads is marked by the probe.  Without it a descriptor that passes could
  still leak.  `TextsAssumption` (a text tells whose field it is) lets a leaked
  text be recognised; it says nothing about the program.

Proved without a run of their own: `ClientNeverReplaced`, `RefusalIsFinal`,
`PassedIsWithin` and `BodyClosed`.  Each says what a longer behaviour may never
do, or the other half of a property that a run checks, and each comes from
the same invariant.

Every invariant and action property of a passing run is thereby a theorem.
Only model-checked are the three of `client_pool_live` that speak of what
happens in the end, for which the prover lacks `ENABLED`:
`ImplementsFairLoginService`, `KeepalivesEnd` and `FailuresDoNotStick`; and the
violations, of course.  Where a list is filtered, the models restrict a function
(`RestrictValues`) rather than call `SelectSeq`: that takes an operator, and
what it computes could only be found out by induction over the list, which
the prover does not do.

## What is not modelled, and why

* An answer in which go-fileee, against its promise, holds no document after an
  upload: `uploadDocumentResult` makes it an error after the request
  (write_documents.go:156-159).  To the caller it would be like an answer that
  was lost (`Lose`): the upload may have been carried out.
* A resolved account with an empty user name has an error of its own
  (pool.go:463-466); `ClientPool` gives it the refusal of an unknown subject,
  which also comes before any login.  `LoadConfig` lets no such account through.
* `Startup` has one malformed mode, number or list of origins for all the
  checks of `LoadConfig` that only end the start (account mode, header mode, log
  level, length of the description, trusted proxies).
* No run sets `MaxInflight` to 0, as no call would get further than the slots;
  `SlotsNeverLeak` holds for it.
* A pooled client's own re-login when its session expires: inside go-fileee.
* The wording of results and the characters of the frame; a text is what the
  checks tell apart.  The order of keys in JSON, and an output that cannot be
  marshalled (no output struct is such).
* The answers of get, sync and write tools: they are put together by the same
  functions as those of the lists.  That a frame is drawn before a change is
  sent is in `EntityTools`.
* The tool manifest: read off the registered tools, no state of its own.
* `Check` in front of a tool: no tool of this server calls it.
* Floating-point rates and durations: parameters of the models.
* Gangway's token verification, OIDC discovery and address filter: external.
  `Startup` only knows that discovery succeeds or fails.
* Logging, version, healthcheck, deployment and CI.

## Plan

Done first, because it is the heart of the server: `ClientPool` with its
abstract specification and proofs; then `Issued` and `RateLimiter` with proofs,
`SelfCheck`, `EntityTools`, `Limits` with proofs, `Startup`, `Sync`, `Listing`;
then `ToolCall` on top of `RateLimiter` with proofs, `SelfCheckProofs`,
`Answers`, and the tools that record nothing; then `EntityToolsProofs`,
`StartupProofs` and, with `Reads`, `ReadsProofs`.

Next, in this order:

1. `SelfCheck` against `ClientPool` itself instead of an anonymous holder of
   the lock: a module that composes the two, and an abstract specification
   `LoginBudget` (how many logins an account may see) that it implements.
2. Cancelled requests and shutdown in `ToolCall`, with the pool's calls inside
   its handlers.
3. The gate in front of destructive tools, once there is one: `Issued` composed
   with `EntityTools`, so that what `Check` would let through was read.
4. Proofs: abstract specifications to go with the components that have none,
   and that they are implemented: `LoginBudget` by `SelfCheck`; a store that
   remembers every delivery for ever by `Issued`; a list that is one set, seen
   by a walk.  `Sync` against a caller that reads the account at one moment.

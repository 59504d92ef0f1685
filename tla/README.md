# JovePoxy in TLA+

JovePoxy is a single-process Go gateway: clients speak the OpenAI chat, OpenAI Responses or
Anthropic Messages protocol to it, it picks an upstream (free, or paid with one of its own keys),
translates the answer back and keeps everything it must remember in one SQLite file. An
administrator manages it through a React application (`src/web/`) and `/api/admin/*`. Paths of Go
files below are relative to `src/internal/`, paths of TypeScript files to `src/web/src/`, unless
they say otherwise.

This directory models the parts of the gateway in which several actors work on shared state, or in
which a long sequence of inputs decides what a client sees; and the admin application, in which
async handlers, effects and redirects of one browser tab overlap. TLC checks the models on small
instances; TLAPS proves the main theorems for every value of the constants. `PROJECT.json` lists
the components, the runs, the source lines of each definition, the hazards and the theorems.

1. [The system](#the-system) - components, state, interactions, what must hold
2. [The modules](#the-modules) - how each corresponds to the code
3. [The runs](#the-runs) - what is checked, in which bounds, under which fairness
4. [What the models found](#what-the-models-found)
5. [The proofs](#the-proofs)
6. [What is left out](#what-is-left-out)
7. [Plan](#plan)

## The system

A request of the data plane passes these parts:

    client -> local key (keys) -> catalog (models) -+-> free: zen client, egress proxy rotation (proxypool)
                                                    +-> paid: key pool (zenpool) -> optional egress proxy -> dial
           <- stream translation (responses, anthropic, sse) <- upstream body
           -> request log (reqlog)

Goroutines share state in three ways: through mutex-protected maps in one service object, through
SQLite (one writer at a time, WAL), and through the body they read and the response they write.
There are no messages between processes. What makes the code hard is that decisions are read under
one lock and acted on under another, that a verdict exists both in memory and in SQLite, that every
SQLite call may fail or be cancelled with its request, and that the process may stop between any two
writes.

| Component | State it keeps | Operations | What is hard | What makes it correct |
|---|---|---|---|---|
| Paid key pool, `zenpool` | rows `zen_keys`, `zen_key_health`; maps `benched`, `healthDirty`, `healthRuntime`, `probeSequence` | `ProxyPaid`, `AcquireFor`, `RecordPaidOutcome`, create, toggle, edit, delete, bench, status | rows read before memory; rest and verdict are separate writes; failover while admins edit; throttled flushes lost in a crash | accounting never leaks; a failing key rests before it is tried; only success restores a key; a request dials no key twice and ends |
| Health scoring, storm guard, status, `zenpool/scoring.go`, `health_guard.go`, `status.go` | one health row; samples of the last 60 s per provider | scores, decay, derived status, traffic shares | numeric boundaries, stale samples | scores within bounds, monotone; a storm does not condemn keys |
| Local keys, `keys` | rows `local_api_keys`, `local_key_usage` | `Verify`, create, edit, toggle, `Revoke`, session rotation | clock read before the write lock; two windows in one transaction | the count is the number let through; limits hold |
| Admin login, `auth` | rows `settings`, `admin_sessions`; `passwordHash`, limiter in memory | `Login`, `Verify`, `Logout`, `ChangePassword`, start | password kept twice; racing logins and changes | a change ends earlier sessions; memory and settings agree; limiter limits |
| Stream translation, `responses/stream.go`, `anthropic/stream.go`, `sse` | open items and their indexes, last finish reason | one state machine per stream | interleaved reasoning, text and tool calls; failures after the headers | items opened, closed and ended as the client's protocol demands; failure is not success |
| Egress proxies, `proxypool` | rows of proxies with cooldowns | acquire excluding tried ones, cool down, CRUD | rotation while proxies cool down or are deleted | no proxy twice per request; attempts bounded |
| Gateway handlers, `httpserver` | none of their own | authorise, classify, forward, rotate, dial through a proxy or directly | three failovers nested in each other | each failure charged to whom it belongs; 401 never retried elsewhere |
| Model catalog, `models` | one snapshot, one refresh in flight | `List`, `Refresh` | single flight under the leader's context; partial failure of providers | waiters get an answer; a provider's models survive its outage |
| Usage synchronisation, `usage` | `usage_records`, one cursor row per account | `SyncIncremental`, `Backfill` | pages and cursor are separate writes; two synchronisations at once | no record lost or doubled; the cursor never skips |
| OpenCode and Ollama accounts, `quota`, `ollama` | account rows, scraped quotas | CRUD, `FetchAll` | read-modify-write updates | no lost update |
| Database, `db` | schema version, the legacy file | `Migrate` | a crash between recording a migration and its purge | every migration's effects happen once |
| Request log, `reqlog` | ring, counters, table | `Record`, `Recent` | ring at capacity | the ring holds the latest entries in order |
| Process, `app` | - | `Bootstrap`, `Run` | shutdown with requests in flight | - |
| Upstream client, effort and usage parsing, secret box, configuration, analytics, admin API | none, or a view of the above | - | - | - |
| Web: session and routing, `App.tsx`, `pages/AuthGate.tsx`, `LoginPage.tsx`, `ShellLayout.tsx`, `lib/api-error.ts` | the route, the gate, the session hint; cookie and sessions | me, login, logout, language switch, 401 of any call | gate and login page redirect to one another; cookies change under checks in flight | redirects come to an end; no skeleton stays |
| Web: list pages, `LocalKeysPage`, `KeyPoolPage`, `ProxiesPage`, `AccountsPage` (`pages/features/`), `lib/selection.ts` | rows shown, filters, page, selection, one form or dialog, busy flags | load, create, batch, import, edit, toggle, delete, probe, bulk loops, export | a handler goes on after each await with whatever the page has become | what is shown is what the server has; a bulk loop touches what was chosen; no text on another row; no stuck button |
| Web: read-only pages, `LogsPage`, `ModelsPage`, `QuotasPage` | rows shown, filters, page, numbered loads of the usage panel | load, refresh, sync, choose an account | loads that overlap; a sync that ends with a load of its own | the newest load wins; no stuck spinner |
| Web: overview, `OverviewPage`, `DateRangePicker`, `lib/time-buckets.ts`, `lib/overview-ops-window.ts` | range, three data sets, numbered loads; draft of the picker | soft and hard loads, presets, picking days, building the axis | ranges chosen faster than they are answered; bucket edges | all that is shown is of one range; the axis counts each request once |
| Web: settings, `SettingsPage`, `adminapi/ops_handlers.go` | snapshot and draft of the pool policy; the policy in effect | load, save, reset, change of password | fields stored and read one by one with no lock; a PATCH that stops half way; answers that overtake | a PATCH alone takes effect whole; the page shows what is in effect |
| Web: charts, cards, dictionaries, layout | none that outlives a render | - | - | - |

Interactions: `httpserver` calls `keys.Verify`, then `models`, then `zenpool.ProxyPaid` with a dial
callback that may in turn rotate `proxypool` proxies; `app/run.go` gives `models` a source per
provider that itself acquires a key from `zenpool`; `adminapi` calls the same services as the data
plane; `usage` and `quota` use the account rows only. The pages of the web application share nothing
but the route, the session cookie and the server: each keeps its data in its own component, and a
401 of any of them ends at `/login` (`handleUnauthorized`).

The hazards, the places where a test would hardly reach what can go wrong, are listed one by one
with their source lines in `PROJECT.json`; each names the property that watches it or says why none
does yet.

## The modules

Every module is translated from the code, one action per handler, statement or critical section,
whatever is smallest that another goroutine can observe. Names follow the code.

### KeyPool: the paid key pool

`KeyPool.tla` is one pool for one provider, with `Requests` concurrent runs of `ProxyPaid`.

| Variable | Code |
|---|---|
| `row`, `opens`, `cool` | `zen_keys`: exists and enabled, ciphertext readable, `cooldown_until` |
| `health` | `zen_key_health` as far as routing reads it: cooldown reason, consecutive failures |
| `bench`, `dirty` | `Service.benched`, `Service.healthDirty` |
| `inflight`, `busy` | `healthRuntime.inflight`, `.probing` |
| `probeSeq`, `lock` | `Service.probeSequence`, holder of `outcomeMu` |
| `pc`, `view`, `pick`, `probing`, `tried`, `class`, `retry`, `verdict` | locals of `ProxyPaid`, `AcquireFor` and `RecordPaidOutcome` |

A request goes through `List` (rows are read), `Pick` or `NothingToPick` (memory is read, a key
chosen), `NoteAcquire`, `Dial`, then `RecordPaidOutcome` as `RecordBegin` (takes `outcomeMu`, reads
the effective health), `RecordRest` (cooldown row or bench), `RecordPersist` or `RecordDirty`,
`RecordSettle`; `RecordSkipped` and `RecordNothing` are its early returns. `Failover` and `Return`
are the deferred release together with the loop's decision. `Create`, `SetEnabled`, `UpdateSecret`
and `Delete` are the admin surface, `GenericAcquire` the catalog refresh of `app/run.go`, `Tick` a
minute, `Restart` a new process with the same secret or another.

Abstractions, each of which allows more than the code does unless noted:

- The winner of the weighted round robin and of session affinity is any candidate; the 70 % share
  cap (`Spreads`) may set aside any one active key while others remain, once `CapFrom` acquisitions
  have been counted (`recent`). `CapFrom` is 10 in the code and in `KeyPool_ciphertext`; in the
  passing runs it is 0, which only adds behaviours. Which key holds more than its share is left open,
  and so is how many of the counted leave the window each minute.
- The 5xx storm guard may be on or off at any 5xx.
- Deadlines are minutes left (all lengths in the code are whole minutes); the clock does not go
  back, and no minute passes between the statements of one recording.
- The reads of memory within `AcquireFor` are one step. The reading of the rows is another, so that
  stale rows are modelled.
- A score is not modelled: it orders candidates and never adds or removes one.
- `view.proven` is a history variable: what was proven when the rows were read.

### LocalKeys: the gateway's own keys

`LocalKeys.tla` models `keys.Verify` as `Arrive` (the clock is read), `Begin` (`BEGIN IMMEDIATE` and
`loadKey`), `Charge` for the day and for the minute (`consumeWindow`), `Commit` or `Refuse`, and
`Log`, the request log row whose foreign key may keep a revoked key alive. `lock` is SQLite's write
lock; `draft` is what the open transaction sees. `Revoke` is its two statements, `RevokeDetach` and
`RevokeDelete`. `charged` and `late` are history: how many requests each window let through, and
whether a request was charged to a window older than the one stored.

### AdminAuth: password and sessions

`AdminAuth.tla` models `Login` (arrive, limiter, comparison, legacy upgrade in two writes, limiter
cleared, session inserted) and `ChangePassword` (comparison, transaction, memory). `settings` and
`memory` are the two copies of the password, `session` the table `admin_sessions`, `attempts` the
limiter with its prune that drops only leading entries. A hash is the password it was made from and
whether it is of the legacy form, so bcrypt and SHA-256 are equality; `normalizedSource` is a member
of `Sources`. `failed`, `newest`, `clash` and `crossed` are history: refusals of the current streak,
the latest clock the limiter saw, whether two password writes overlapped, and which logins and
tokens overlapped a change.

### UpstreamStream, AnthropicStream, ResponsesStream, ItemStream: translated streams

`UpstreamStream.tla` is what both `WriteStream` functions share: the verdict on the first event,
chunks, finish reasons, error objects, the end of the body, failing or silent reads (`IdleReader`)
and a client that is gone. A chunk is modelled by its parts (a reasoning text, a content text, one
tool call delta), because the code handles them one after another; two or three events with which
the Responses API opens or closes one item are one event. `AnthropicStream.tla` and
`ResponsesStream.tla` add the state each translator keeps and one step per event it sends, so that
the client may leave between any two. `view` and `event` are the client: what it knows of each index
and the event it got last. `failure` is history: how upstream failed.

`ItemStream.tla` is the abstract specification: items are opened in index order, get deltas only
while open, are closed once, and the stream ends once with nothing open. `ResponsesStream`
implements it. `AnthropicStream` does not: `emitText` stops the open tool blocks, and when upstream
goes on with one of those calls the code sends deltas, or a second start, of a stopped block. The
Anthropic properties except exactly those blocks (`Revived`).

### ListView, AdminList and its four pages: the list pages of the admin UI

`ListView.tla` is the pure part: filter, sort, `slicePage`, the pager's numbers and targets, and the
operators of `useRowSelection`. `AdminList.tla` is the state the four pages have in common and the
building blocks of their handlers: a handler takes a slot of `task` in the click that starts it, the
server serves its call in one step at any time (`ServeList`, `ServeChange`, refusals, 401, lost
answers), and the handler goes on when the answer arrives, later still. `LocalKeysPage`,
`KeyPoolPage`, `ProxiesPage` and `AccountsPage` say which handlers a page has and where it differs:
which loads are soft, which forms share the composer, whether the selection is pruned, whether a
bulk loop goes on after a failed row (three pages) or aborts (accounts), and the accounts' two tabs
with an endpoint each.

| Variable | Code |
|---|---|
| `db`, `born`, `live` | the server's rows, its last id, whether the session is valid |
| `rows`, `loading`, `listError` | `useState` of the list, its skeleton and its error |
| `tab`, `view`, `page`, `pageSize`, `selected` | tab, filters and sort, pager, `useRowSelection` |
| `composer`, `editing`, `form`, `saving`, `editSaving`, `bulkBusy` | forms, edit dialog, busy flags |
| `task` | the async handlers in flight: locals that live across awaits, the call and its answer |
| `served`, `applied`, `missed`, `chosen` | history: list answers given, the one shown, the last one before an unseen change; what was selected and on screen when a bulk loop began |

A row is its state, its tab and its label; a label records for which row it was typed, which is all
that a mix-up of two dialogs can be seen by. The search text and the filters are one choice.

### AdminPage, UsagePanel, ReadPanels, OverviewPage, SettingsPage, AdminSession: single pages

`AdminPage.tla` holds the route and the bounds. `UsagePanel.tla` is the OpenCode panel of
`LogsPage.tsx` with `loadSeqRef`, its two awaits and the sync that ends with a load. `ReadPanels.tla`
is the four views that only read; they differ in when the refresh is offered and in the flags a
load raises. `OverviewPage.tla` is `load()` of the overview with its soft and hard variants,
`allSettled` and the banner. What an answer to `ReadPanels` brings is any set of rows: the log is its
newest 100 lines, or the ring's when the store fails, and an Ollama account that could not be asked
has none, so that a filtered list can become shorter at a refresh.

`SettingsPage.tla` is the page together with `getSettings` and `patchSettings`. The four fields of the
policy are atomics of their own, so a PATCH is four steps that check and store one field each
(`StoreField`), and a GET, or the answer to a PATCH, four that read one each (`ReadField`); handlers
of this page and of another admin (`PatchElsewhere`) take turns between any two. A handler whose
answer is lost goes on to store what is left, and a restart takes the policy back to its default
with a PATCH half way. `asked` and `overlapped` are history variables. The paid requests that read
the policy meanwhile are in `KeyPool`, which is not composed with this module.

`AdminSession.tla` is the gate, the login page, logout, which does not wait for its answer and whose
route is behind `requireAuth`, so that with a dead session it gets a 401 and the cookie stays
(`LogoutRefused`), the language switch that asks `me` again, sessions that end, and cookies that
change when an answer arrives, not when it was sent.

`TimeBuckets.tla` is the arithmetic of `time-buckets.ts` on minutes since a Monday: the estimate of
points, the choice of the bucket kind, aligned starts, the walk with its guard of 56.
`DateRangePicker.tla` is the picker on top of it, so that every range TLC tries is one a user can
pick. `LastMonth` bounds the calendar. What the axis of each range counts is worked out once
(`AxisTable`), at sixty moments spread over the range and at its end.

### MC modules

`MCKeyPool`, `MCLocalKeys`, `MCAdminAuth` hold model values, policies and symmetry. `MCStreams` runs
either translator: it extends `ResponsesStream` and instantiates `AnthropicStream` over variables of
its own, and `api` chooses which one moves, so the state space is the sum and not the product.
`MCWebLists` and `MCWebPages` do the same with `screen`: a browser tab is on one page, chosen at the
start, and the pages share no data.

## The runs

| Run | Specification, bounds | Checks | Shows |
|---|---|---|---|
| `KeyPool_faults` | 1 key, 2 requests, 2 attempts, all 8 answers, failing store, admin, minutes, restarts | `TypeOK`, `LockHeld`, `InflightExact`, `BusyIsBacked`, `RestBeforeTrial` | outcomes are serialised, in-flight and probing bookkeeping never leaks, a failing key rests before its trial |
| `KeyPool_traffic` | 2 keys, 2 requests, 4 answers, re-sealing, restarts, working store | `NoKeyTwice`, `NormalPickWasProven`, `OnlySuccessRestores`, `RestartKeepsVerdicts` | failover dials no key twice, normal traffic gets proven keys although rows are stale, verdicts survive restarts |
| `KeyPool_liveness` | `FairSpec`, 1 key, 2 requests, 3 answers | `RequestsEnd` | every paid request ends |
| `LocalKeys` | 1 key, 2 requests, 3 policies, 3 minutes, 2-minute days | `TypeOK`, `CountsMatch`, `OvershootNeedsStraggler` | rows count exactly what was let through; only a stale clock breaks a limit |
| `AdminAuth` | 2 calls, 2 passwords, 2 tokens, limit 1, window 1, lifetime 1, 2 ticks | `TypeOK`, `SessionsAreCurrent`, `MemoryMatchesSettings`, `FailuresAreLimited` | a change leaves no earlier session, the two copies agree, the limiter holds under races |
| `Streams` | 2 tool indexes, 5 parts | `TypeOK`, `MessagesTypeOK`, `ViewMatches`, `ProseAlone`, `EndsClosed`, `Exclusive`, `OutputInOrder`, `NeverFakeCompleted`, `Implements` | the two translators' protocols, and that the Responses stream is an `ItemStream` |
| `WebLists` | 4 pages, 3 ids, 2 rows at first, page sizes 1 and 2, 2 handlers at once, 2 clicks that start one and 2 that do not, 1 fault | `ListTypeOK`, `QuietMeansCurrent`, `BulkStaysWithinChoice`, `LabelsStayHome`, `BusyIsBacked` | list pages at rest show the server's rows; bulk loops stay within what was chosen; no text strays; no busy flag is stuck or lowered early |
| `WebPages` | 6 screens, 3 calls at once, 3 clicks, 1 fault, 2 accounts, 2 rows, 4 ranges, 58 months | `PagesTypeOK`, `SpinnersBacked`, `UsageIsCurrent`, `RefreshIsCurrent`, `OverviewShowsRange`, `PickedRangeIsCounted`, `LiveIsServer`, `LonePatchTakesEffect`, `SessionComesToRest` | the newest load wins, the axis counts the first 56 months of a range and no more, a PATCH that no other overlaps takes effect whole, redirects end |
| `KeyPool_ciphertext`, `LocalKeys_window`, `AdminAuth_upgrade`, `Streams_limit` | see below | one property each | a disagreement between the code and what it says of itself |

Why the bounds are enough for the interesting cases:

- Two requests on one key are enough for every race on the key's bookkeeping; two keys and two
  attempts are enough for a failover, and with `MaxAttempts = 2` the cap is reached. `MaxStep`
  (where cooldowns stop growing) is 1 or 2, so the counter reaches its ceiling. `ProbeEvery` 2 or 3
  makes the probe turn come round. A bench of one minute and cooldowns of one or two expire inside
  the run. The faults run has one key because the store's failures multiply every step; what needs
  two keys is in the traffic run, whose store works.
- In `LocalKeys` the clock covers the second day's first minute, either window can be the tighter
  one, an edit can put a limit below what is used, and `0` (unlimited) occurs.
- In `AdminAuth` a limit of one makes every second failure a race at the ceiling, two ticks let a
  window and a session expire, and `Init` starts from no stored, a bcrypt or a legacy hash.
- Five parts let text and thinking return after two interleaved calls. Indexes count the items, so
  no part is needed beyond those that open one of each kind and come back.

- In `WebLists` two handlers overlap at every await, which is what all its races need; a second page
  of rows exists after a change of the page size, a third id leaves room for one created row, and
  one fault strikes any call, before or after its effect.
- In `WebPages` three calls allow two overtakings; three clicks choose an account, start a sync and
  choose another while it runs. The four ranges fall on each of the three ops windows. A user
  clicks presets on 2 March and on 31 August of a leap year, both Saturdays, so that week and month
  buckets are cut at either end, and picks among 11 January of that year and 31 August and 1
  September four years later: 56 months, the last range that is counted whole, and 57, the first that
  is cut. With the days the presets leave in the draft every bucket kind is chosen.
- On the settings screen handlers take turns field by field, which multiplies the interleavings. The
  constraint `SettingsBound` leaves there three clicks without a fault or two with one (another
  admin's PATCH, a restart, a failed call), so that two PATCHes overlap, and mix, either way. Without
  `~overlapped` TLC finds `LonePatchTakesEffect` violated at once.

Symmetry over keys, requests, calls, tokens, tool indexes or slots is used in safety runs only.
`CHECK_DEADLOCK FALSE` appears in the stream and web runs, because a stream that has ended and a
page whose clicks are used up stop; the other models never stop.

Fairness (`KeyPool!FairSpec`): weak fairness of a request's own next step, because goroutines are
scheduled and dials have timeouts, and strong fairness of getting `outcomeMu`, because
`sync.Mutex` hands itself to a waiter that has waited for a millisecond. A cancelled context
(`RecordSkipped`) is not among the fair steps: nothing obliges a client to leave. `RequestsEnd`
starts at the first listing's end; without the strong fairness another request's outcomes could
starve a recording for ever.

`AdminSession!AnswersCome` (`SessionAnswersCome` in `MCWebPages`): weak fairness of the server
serving a call that was sent, and of its answer reaching the page. Clicks, language switches and the
end of sessions are not fair: nothing obliges a user. A failed call (`NoAnswer`) is an answer too,
because `fetch` rejects. (The code sets no timeout of its own: a request that hangs for ever is left
to the browser, and is outside the assumption.)

Each property of a passing run has a mutant in `PROJECT.json`: a changed guard or assignment of a
mapped definition under which TLC finds that property violated. The mutant bodies stand beside the
definitions they replace, marked "Mutant" or named for what they forget.

## What the models found

Each violation run is a place where the code does something other than a comment, doc or name
beside it says. Details and lines are in `PROJECT.json` under `findings`.

- `KeyPool_ciphertext`: on a probe turn the candidates are the probes alone; if none decrypts the
  caller gets `ErrNoHealthyKey` although a healthy key was listed, against "A single bad ciphertext
  never fails the whole pool".
- `LocalKeys_window`: `Verify` reads the clock before it waits for the write lock. A request that
  waited over the end of a window resets the newer row, and more requests than the limit pass.
- `AdminAuth_upgrade`: the upgrade of a legacy hash writes the typed password's bcrypt form
  unconditionally; after a `ChangePassword` that committed in between it puts the old password back.
- `Streams_limit`: a rate limit error that comes after the first event is not taken for an error by
  `consumeLine`, and the stream ends as a complete answer in both APIs.

Seen while modelling and not stated as findings, because the code does not promise otherwise: a
broken read ends an Anthropic message as if it were whole (the comment calls that best effort); the
Responses translator opens a second item for a tool index that returns after text; two concurrent
`ChangePassword` calls may leave memory and settings different, which the properties of `AdminAuth`
except through `clash`.

Seen while modelling, without a run of their own:

- `probing` is read in `AcquireFor` (`zenpool/service.go:455`) and set later in `noteAcquire`, so two
  requests may probe the same recovering key, although `status.go:15` speaks of one controlled
  attempt.
- A catalog refresh advances `probeSequence` (`service.go:470`) and may step over the probe turn of
  the requests, although the comment at `service.go:36-37` says it must not consume a probe slot.
- The list pages do not number their loads: an older list that arrives last stays on the screen.
  `QuietMeansCurrent` excepts it (`applied = served`). The usage panel and the overview do number
  them.
- In the usage panel, choosing all accounts loads nothing, and a sync that ends after another account
  was chosen loads its own: the records then are not those of the selector, although the comment at
  `LogsPage.tsx:779` says the table is re-scoped. `UsageIsCurrent` excepts both.
- A bulk action on accounts stops at the first row that fails and reloads nothing (the other pages go
  on and reload).
- In the read-only panels `page` is not clamped when a reload brings a shorter list: `slicePage` then
  shows an empty table, under a pager that names the last page (`PageLeftByReload` proves that nothing
  but a reload does it). Under a filter the log gets shorter as other requests push matching lines out
  of its newest 100.
- `patchSettings` stores its fields in atomics of their own. While it runs half of a policy is in
  effect, for paid requests too; of two that overlap a mixture can stay that nobody asked for; and
  a GET in between can show one. `LonePatchTakesEffect` and `LiveIsServer` except exactly these.
- A custom range of more than 56 months is cut: `maxGuard` (`MAX_BUCKET_POINTS + 8`,
  `time-buckets.ts:274-276`) ends the axis before the month the range ends in, and the requests of its
  last months are in no bucket, against "Ordered continuous axis covering [from, to]"
  (`time-buckets.ts:246`). From 49 months on the axis has more points than `MAX_BUCKET_POINTS`.
  `PickedRangeIsCounted` and `RangesCountedUpToGuard` state the exact bound.

## The proofs

Eight modules hold theorems; all of them are checked by tlapm to the last leaf, from the named
assumptions on the constants alone: bounds are positive, null values are outside the sets they
extend, the requests of the key pool are finitely many, the rows a list page starts with
are well formed (`ListAssumption`), the calendar's months follow one another
(`CalendarAssumption`). The three theorems about a working store also have `~StoreMayFail` as a
hypothesis. None speaks of fairness or ENABLED. Of the recursive functions of the models
one is proved about, the cursor that walks along the axis. The theorems, each with the property of a
run that it states, are:

| Module | Theorems |
|---|---|
| `KeyPoolProofs` | `TypeCorrect` (`TypeOK`), `LockCorrect` (`LockHeld`), `InflightCorrect` (`InflightExact`), `BusyCorrect` (`BusyIsBacked`), `AttemptsCorrect` (`NoKeyTwice`), `RestsFirst` (`RestBeforeTrial`), `RestoredBySuccess`, `RequestsRunDown`, `StepsAreBounded`; over a working store `RestoresCorrect` (`OnlySuccessRestores`), `VerdictsSurvive` (`RestartKeepsVerdicts`), `PicksCorrect` (`NormalPickWasProven`) |
| `LocalKeysProofs` | `TypeCorrect` (`TypeOK`), `CountsCorrect` (`CountsMatch`), `OvershootCorrect` (`OvershootNeedsStraggler`) |
| `AdminAuthProofs` | `TypeCorrect` (`TypeOK`), `MemoryCorrect` (`MemoryMatchesSettings`), `SessionsCorrect` (`SessionsAreCurrent`), `FailuresCorrect` (`FailuresAreLimited`) |
| `StreamsProofs` | `TypeCorrect` (`TypeOK`), `Refinement` (`Implements`), `OutputCorrect` (`OutputInOrder`), `FailureReported` (`NeverFakeCompleted`), `ExclusiveCorrect` (`Exclusive`) |
| `AnthropicStreamProofs`, `StreamsProofs` | `MessagesTypeCorrect` (`MessagesTypeOK`), `ViewCorrect` (`ViewMatches`), `ProseCorrect` (`ProseAlone`), `EndCorrect` (`EndsClosed`) |
| `WebListsProofs` | `TypeCorrect` (`ListTypeOK`), `QuietCorrect` (`QuietMeansCurrent`), `ChoiceCorrect` (`BulkStaysWithinChoice`), `LabelsCorrect` (`LabelsStayHome`), `SpinnersCorrect` (`BusyIsBacked`) |
| `SinglePagesProofs` | `UsageIsCorrect` (`UsageIsCurrent`), `OverviewIsCorrect` (`OverviewShowsRange`), `SpinnerIsBacked`, `LonePatchIsWhole` (`LonePatchTakesEffect`), `LiveIsCorrect` (`LiveIsServer`) |
| `WebPagesProofs` | `PageTypesCorrect` (`PagesTypeOK`), `PageSpinnersCorrect` (`SpinnersBacked`), `RefreshesAreCurrent` (`RefreshIsCurrent`), `PageLeftByReload`, `PickedRangesCounted` (`PickedRangeIsCounted`), `RangesOrdered`, `CountedInFull`, `RangesCountedUpToGuard`, `RedirectsRunDown` |

**KeyPoolProofs** (any keys, any finite set of requests, any bounds). `TypeOK` is not inductive
alone: a verdict is computed from the health of the picked key, so a recording request must have
picked one. `LockHeld` says so, and that exactly the recording request holds `outcomeMu`; the two
together are inductive (`TypeCorrect`, `LockCorrect`). On them rest `InflightCorrect` (the counter is
the cardinality of the set of requests in flight on the key; the steps are lemmas on adding and
removing one element of a finite set), `BusyCorrect` (whoever clears the flag, nobody can leave it
behind) and `AttemptsCorrect` (the tried keys and the one held never exceed the cap).

`AttemptsHold` also bounds a request's steps. `StepsLeft` is nine steps per key that may still be
dialled, less those already taken of the dial the request is in; it is in `0 .. 9 * MaxAttempts`, and 0
exactly when the request has ended (`StepsAreBounded`). Each step of the request uses some up - a
failover begins nine new ones for one more tried key, any other is one of this dial - and no other
request, admin, minute or store gives one back (`RequestsRunDown`). That is the safety half of
`RequestsEnd`; what fairness adds is that the steps are taken.

What a verdict does to a key is proved from `OutcomeInv`. It adds that memory and requests do not
know a key before it is created (`Born`), and where a recording stands (`Outcomes`): its verdict
clears the reason exactly if the answer was a success; from the second write on a key that failed
rests; from the third on the row holds the verdict until the request lets go of `outcomeMu`.
`RestsFirst` follows: the only way from proven to on trial would be a verdict written before the
rest, or a rest that expired between the two, and no minute passes there. `RestoredBySuccess` needs
the same invariant and holds over any store. It leaves a restart aside, because a store that refuses
writes leaves a failure in `healthDirty` alone, and a restart forgets it.

Over a store that works more is true, and `KeyPool_traffic`, which checks these properties, has
`StoreMayFail = FALSE` as well. `Waiting` says what `healthDirty` may hold then: nothing but
successes of keys whose row has no reason either, unless a recording for the key is at its last
step (`Settling`). So a restart changes no verdict (`VerdictsSurvive`) and is no way to be restored
(`RestoresCorrect`). `CleanWasProven` relates the rows a request has read to what was proven then,
and gives `PicksCorrect`. The hypothesis is needed: given any of the three as a property, the
failing store of `KeyPool_faults` violates it.

**LocalKeysProofs** (any keys, requests, policies and clock). The write lock makes a transaction's
draft a function of the committed rows (`InTransaction`): before the charge it equals the row, after
it `After` of the row, and the new count is within the limit. A row then counts what was charged to
its window, and nothing has been charged to a later one (`AllCounted`); the second half is the
strengthening, without it a later window could be reset to a count that is too small. From these
follow `CountsCorrect` and the action property `OvershootCorrect`.

**AdminAuthProofs** (any number of calls, sources and tokens). `Agreement`: while no two password
writes have overlapped there is one writer at most (`OneWriter`), memory is level with settings
unless that writer is between its two writes (`Level`, `Ahead`), and an upgrade rewrites the
password memory has already (`SameAgain`). `Following`: logins past the comparison and the sessions
they open carry the stored password unless they overlapped a change. `MemoryCorrect` follows from
the first, `SessionsCorrect` from both. The limiter has an invariant of its own, `Remembered`: the
entries it keeps are the end of the streak of refusals, and what was pruned from its front was
older than the window of the newest clock it saw. So a refusal inside the window of a login that
comes in clock order is still counted, which gives `FailuresCorrect`.

**StreamsProofs** (any tool indexes, any number of parts). The inductive invariant says
where the open items are: open calls hold the indexes from the end of the output list to
`outputIdx` without a gap or a repetition, an open reasoning or message item holds `outputIdx` alone
(`Indexes`); the client's view is exactly that (`Seen`); every item was paid for by a part (`Room`);
the output list is `0, 1, 2, ...` (`Ordered`); and an end is announced as upstream's failure demands
(`Ending`). One lemma per way to close, open or continue an item shows both that the invariant is
kept and that the step is a step of `ItemStream`, which gives `Refinement`, `OutputCorrect`,
`FailureReported` and `TypeCorrect`. `ExclusiveCorrect` counts: open calls and open items are in
bijection, because no two calls hold one index (`CallsAreItems`).

**AnthropicStreamProofs** (any tool indexes, any number of parts). The same shape, with what differs:
indexes are handed out upward and whatever is open lies below the next one (`Below`); a stopped tool
block may come back, so the client's view is pinned down outside `Revived` only (`Seen`); thinking is
alone and no call has begun under it, text is alone, and every open tool block belongs to a call
(`Prose`); a part either continues an open block or has an index left to take (`Room`), and an end
leaves nothing open (`Ending`). One lemma per emitter, and one for the steps that send nothing.
The module proves this of `AnthropicStream` by itself; `StreamsProofs` shows, action by action, that
a behaviour of `MCStreams` is such a stream, and carries the four theorems over to the properties the
run checks.

**WebListsProofs** (any rows at first, any number of slots, ids, clicks and faults, all four pages).
Each page's next-state relation is a disjunction of building blocks of `AdminList`, so the proof has
one lemma per block and one per page that says of which blocks it is made. The invariant says four
things.

- What a handler carries (`Sound`): kind and call fit together, the list it brings is no newer than
  what was served, and whatever a loop has left to do was chosen and is of its tab.
- What is on the page (`OnPage`): labels are those of their rows, an open dialog's text was typed for
  the row it edits, and the selection is of the tab and, where it is pruned, on screen. For the last
  part `ListedRows` proves that the operator behind the list is what it is taken for: the number of
  rows sorted before a row is a bijection to the places of the list, so that every place holds a row
  of the tab.
- Flags (`Backed`): each stands for one handler.
- Freshness (`Current`): the newest list that was answered, on screen or in flight, is what the
  server has, or some handler owes the page a load (`Owes`), or a request failed after it and nothing
  will tell (`missed`). Without the handlers in flight, `QuietMeansCurrent` says nothing about the
  step that brings a page to rest.

An id is given out once and a row keeps its tab (`SameTabs`): this makes lists of different ages
agree, which `ChoiceCorrect` needs when the rows change under a loop.

**SinglePagesProofs** has the usage panel, the overview and the settings page, one section each.

- Usage panel (any accounts, clicks and faults). Loads in flight carry different numbers up to `uSeq`
  (`LoadsNumbered`), so that one of them at most is current; the spinner stands for it (`Spinning`);
  and it will bring the records of the account in the selector, or choose that account itself while
  none has been chosen (`UsageKept`, `Unready`). The last part is what `UsageIsCurrent` lacks:
  without it a load could be the newest and still answer for another account. `FirstOfType` needs the
  least element of a set of numbers, from the well-foundedness of `<`.
- Overview (any ranges). The newest load was started for the range in the picker and, once past its
  first await, shows that range's window (`OnTheWay`); with no load, error or banner the two series
  are of that range or emptied (`OverviewAtRest`).
- Settings (any typed values, any policies set elsewhere). Every policy about is within the bounds of
  `patchSettings`, because every way to fill the form clamps, whatever mixture of fields it is made
  of; so a PATCH never stops half way (`PoliciesGood`). A PATCH that no other has joined has its fields
  in effect as far as it has come (`LoneInv`), and at its end, by `AgreeIsEqual`, all of them:
  `LonePatchIsWhole`. What has been read with no store since the first read agrees, field by field,
  with what is in effect (`ReadsCurrent`), from which `LiveIsCorrect`.

**WebPagesProofs** proves what `MCWebPages` says of all six screens of one tab.

- Panels: those of the logs page have one call in flight at most, because the button that would start
  another is not on screen while the skeleton is (`OneAtATime`); the version on screen is then the one
  asked for last, or newer (`RefreshesAreCurrent`). The models and quota panels have no such lock, and
  the theorem does not say so of them. `PageLeftByReload` is about all four: filters go back to page 1
  and the pager clamps, so that only an answer leaves the page beyond the list.
- Flags of the settings page: saving and changing the password each have one call that the page waits
  for (`OnlyCall`); a PATCH it has given up on is nobody's, and goes on.
- Session: one `me` and one login at most are still listened to, and while a login is on its way no
  `me` is, nor is the shell shown (`Turns`). A session that was refused is never honoured again, and
  the check that is waited for carries the cookie the browser has, unless a logout has cleared it
  (`Refusals`). So each check is nearer to rest than the one before it: `StepsToRest` is a table by
  route, answer and whether the session is honoured, from 1 to 6. It falls with every step of the
  check, and only a click, the end of a session, or a login or a 401 of another call raises it
  (`RedirectsRunDown`, the safety half of `SessionComesToRest`).
- Picker: a range is of the calendar and in order, whether it comes from a preset, from two days or
  from one day applied twice (`RangeOK`, `DraftOK`). `RangesOrdered` states it: the first two parts
  of `AxisCountsRange`. `Offered` says which ranges there are. The axis has a paragraph of its own below.
- Tab (`TabInv`): the page on screen keeps its own invariant, the pages that are not keep their
  types.

The axis (`PickedRangesCounted`, `CountedInFull`, `RangesCountedUpToGuard`). `buildBucketAxis` moves a
cursor from the bucket of `from`, by minutes, days or months, until it is past `to` or `maxGuard` ends
the walk. The theorems say, for any calendar, that the buckets it leaves are those of the minutes in
the first 56 months of the range, and of no others.

- The cursor is a recursive function, and induction over an operator is out of reach. Instead a
  candidate is written down (the `i`-th multiple of the width after the first, the first day of the
  `i`-th month after the first), shown to satisfy the recursion, and shown to be the only function that
  does: two would have a least index at which they differ (`HasLeast`, `OneWalk`). `AxisOfWalk` then
  says what the axis is, and `WidthAxis` and `MonthAxis` what it is for each kind.
- A minute's bucket is on the axis because an aligned cursor meets every multiple of its width
  (`AlignsToWidth`, `Multiples`), and the first day of every month (`MonthsApart`, `DaysGrow`).
- How many steps it takes depends on the kind `resolveBucketKind` chose: the base kind, or the next
  coarser one, until the points fit (`BaseFits`, `KindFits`). The one kind that may not fit is the last,
  months. A range of at most 48 months fits in the soft cap (`FewEnoughPoints`); one of 49 to 56 has
  more points than the cap and is still counted in full; a longer one loses its end, and `MonthOnAxis`
  shows that it always does. So `CountedInFull` is an equivalence, and `CountedMinute` says it minute by
  minute.

Only model-checked: `RequestsEnd` and `SessionComesToRest`, because liveness under fairness is out of
the prover's reach; the ranks of `RequestsRunDown` and `RedirectsRunDown` are what can be proved of them.
Every other property of the passing runs is a theorem.

## What is left out

- Within the modelled components: scores and the storm guard's arithmetic, session rotation and
  `Reveal` of local keys, the purge of rows that old versions soft-revoked, token counts and texts,
  how bytes become SSE lines, the goroutine an idle timeout leaves behind, `MarkCooldown` when it is
  called from outside the outcome path, graceful shutdown.
- Components without state transitions: JSON rewriting of whole requests and responses, reasoning
  effort, usage parsing, the secret box (whether a ciphertext opens is a variable of `KeyPool`),
  configuration, version, analytics (SQL aggregation), the admin API's decoding; charts, cards,
  dictionaries, layout and theme of the web UI.
- Within the web pages: credential reveal and the clipboard, the contents of files, the cooldown
  clock on screen, the version card, totals and sums, labels and number formats, daylight saving. A
  list that a page gathers from two providers or two endpoints is one answer, so that one of the two
  failing alone is not modelled.
- Components planned and not yet written: see below.

## Plan

The order is by how much of the gateway's promise rests on the part.

| | Module | Composes or refines | Properties and theorems aimed at |
|---|---|---|---|
| done | `KeyPool` | - | above |
| done | `LocalKeys` | - | above |
| done | `AdminAuth` | - | above |
| done | `UpstreamStream`, `AnthropicStream`, `ResponsesStream` | refines `ItemStream` | above |
| done | `AdminList`, `ListView` and the four list pages | - | above |
| done | `AdminSession`, `UsagePanel`, `ReadPanels`, `OverviewPage`, `DateRangePicker`, `SettingsPage` | - | above |
| next | `EgressPool`, `PaidRoute` | `PaidRoute` composes a proxy pool with the paid route's dial | no proxy twice; a 401 through a proxy is not retried directly; each failure is charged to the proxy or to the key |
| | `ModelCatalog` | refines an abstract single flight | waiters get the leader's answer; a provider's models survive its outage and only that; asymmetry between OpenCode and Ollama |
| | `HealthScoring`, `StormGuard` | pure functions, used by no other module | scores in 0..100, monotone in failures and age; the guard's threshold |
| | `UsageSync` | - | no record lost; the cursor never passes an unwritten page; backfill and incremental at once |
| | `QuotaAccounts` | - | no lost update between `Update` and `FetchAll` |
| | `Migrations` | - | each migration and its purge happen, whatever the crash |
| | `ReqLog` | - | the ring holds the last entries in order |

The small components will share one MC module with a chooser variable, as the two translators do,
so that one run covers several. Theorems to come: those of the new components, the single-flight
refinement of `ModelCatalog` first. `SettingsPage` is to be
composed with `KeyPool`, so that paid requests meet the policy while it changes.

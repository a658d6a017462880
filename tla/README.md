# A TLA+ model of ZaneLLM

ZaneLLM is a self-hosted gateway for large language models: clients speak the
OpenAI API to it, it picks an upstream provider for the model they name, and it
enforces access, rate limits and token budgets on the way. It also keeps personal
data from leaving the house, forwards calls to MCP servers, and runs as several
instances that share a database and a Redis channel. This directory models
the parts of it whose correctness depends on the order in which things happen, checks
them with TLC and proves some of them with TLAPS. `PROJECT.json` maps every definition to
the lines of Go it stands for.

## Inventory

| Component | State | Operations | What is hard |
|---|---|---|---|
| Circuit breaker (`internal/circuitbreaker`) | state, failure counter, probe slots, time of the last trip | `Allow`, `RecordSuccess`, `RecordFailure` | reports arrive late and in any order; a half-open period ends only by a report |
| Router (`internal/router`) | a rotation counter for each model | `Pick`: filter by breakers and health, order, truncate | what the filter read is stale when the candidate is tried; the filter charges probes |
| Request path (`internal/proxy/handler.go`) | one goroutine per request, one more per stream | `Handle`, `tryModel`, the two response handlers | retries times fallbacks times cycles times access; outcomes reported once by many paths |
| Shutdown (`internal/shutdown`, `internal/app`) | draining flag, in-flight counter, phase | `TrackStart`, `TrackDone`, `WaitForShutdown`, `cleanup` | late arrivals, streams that outlive their handler, a drain that times out, a second signal |
| Usage logger (`internal/usage/logger.go`) | a bounded channel, a batch, rows and hourly rollups | `Log`, `run`, `flush`, `Stop` | full channel, failing database, events logged around `Stop`, a killed process |
| Rate limiter (`internal/ratelimit/rate_limiter.go`) | minute and day counters of keys, teams, organisations | `CheckRate`, `EvictStale` | a lock-free path beside a locked rollover, eviction of entries in use |
| Token budget (`internal/ratelimit/token_counter.go`) | day and month totals | `Add`, `CheckTokens`, `Seed`, `EvictStale` | check-then-act over a whole request, totals after a crash |
| Model registry (`internal/proxy/registry.go`) | models, aliases, sorted list | `AddModel`, `RemoveModel`, `Resolve`, `FallbackFor`, `StripAllFallbacks` | aliases that change hands, names against aliases |
| Model synchronisation (`internal/api/admin/models.go`, `internal/app`, `internal/redis/pubsub.go`) | rows, one registry per instance, messages | create, update, delete, activate, deactivate, import, reload | two steps for each change, reloads that only add, lost messages |
| Accounts, keys and sessions (`internal/api/admin`, `internal/auth`, `internal/cache`) | users, memberships, organisation, team, service account, invites, keys; one key cache per instance | CRUD, invite and redeem, login by password and by an identity provider, reload, eviction | a reload that read the database before a revocation; requests of several statements; evictions that reach one instance only |
| Access lists and aliases (`internal/proxy/*_cache.go`) | lists of models and MCP servers, aliases; a copy of each per instance | write, load, announce, reload | copies replaced by handlers, subscriber and ticker in no order |
| Health checker (`internal/health`) | one record per deployment, one status per MCP server | three probe levels, one round of MCP probes | levels that race for one record |
| MCP gateway (`internal/mcp`, `internal/api/admin/mcp_*`) | servers, blocklists, tool cache, sessions, transports | CRUD, start-up synchronisation, fetch, refresh, call | refresh against removal, expired sessions, a cached detection error |
| Code Mode (`internal/mcp/codemode_*`) | a pool of runtimes | `Acquire`, `Release`, `Close` | slots lost when a runtime cannot be made |
| PII pseudonymisation (`internal/pii`) | a filter per request; lanes with a carry per stream | scan of a request, restoring of an answer | values cut at any character, findings that overlap, lines of no protocol |
| Provider adapters (`internal/proxy/*.go`) | per request: open tool calls, finish seen | request, answer and stream line of five providers | lines that arrive one by one, calls that must match over turns |
| Login throttle (`internal/auth/login_throttle.go`) | attempts per address and minute, failures per account | `Allow`, `RecordFailure`, `RecordSuccess`, `EvictStale` | looks and records on the two sides of a password hash |
| Other logs (`internal/usage/mcp_logger.go`, `internal/audit`), license, retention, update check | channel and batch; timers | as the usage logger; periodic goroutines | a channel closed under its senders |
| Persistence, configuration, metrics, tracing, user interface | | | I/O, parsing, presentation |

How they interact: a request is authenticated from the key cache, takes its model
from the alias cache and the registry, its permission from the access cache, its
budget from the limiter and the token counter, its candidates from the router, and
reports to the breakers; its body passes the anonymiser and an adapter, its answer
the adapter and the restorer; its usage goes to the logger, whose `Log` also charges
the token counter. The health checker writes what the router reads. The shutdown
sequence waits for the requests, stops the server, then stops the logger. Admin
handlers write the database, change the caches of their own instance and publish
invalidations for the others; tickers reload what no message announces.

What makes each correct is listed as hazards in `PROJECT.json`, each at its line,
with the properties below that would catch it going wrong.

## Modules

Requests to upstreams and how they are protected:

* **`Breaker`** the data of one breaker and its three methods as operators.
  Each method holds the mutex for its whole body, hence each is a step of its
  caller. Time is one bit, `cooled`: all `Allow` asks of the clock.
* **`CircuitBreaker`** one breaker with callers that keep its contract.
  **`BreakerContract`** is the abstract specification: a gate that is closed, open or
  half-open and the set of admitted callers; `ImplementsContract` maps the gate
  to the breaker's state and the admitted callers to those between `Allow` and
  their report.
* **`Router`** the orderings and the truncation of `Pick`, as operators that
  return the set of orders a random choice may produce.
* **`ProxyRequest`** composes both: requests as records with a program counter
  (`idle`, `try`, `filter`, `send`, `wait`, `decide`, `stream`, `done`), breakers they
  share, and the upstreams, the health checker and the clock as environment.
  One action is one critical section or one wait for an upstream.
  `Arrive` is `resolveModel`, `TryModel` the head of `tryModel`, `FilterNext` and
  `Pick` the router, `Send` to `KeepResponse` the deployment loop, `FallBack` and
  `Respond` the end of the fallback loop, `StreamEnds` the stream goroutine.
* **`HealthChecker`** the levels of `Checker` (load a record, probe, copy, store) and
  the rounds of `MCPHealthChecker`.
* **`RateLimiter`** `CheckRate`, `tryIncrement` and `EvictStale`, one atomic
  operation per action; the maps hold references to a heap of entries, since an
  evicted entry lives on in the goroutine that loaded it. **`TokenCounter`** models the
  budgets in the same way, with the usage table from which `Seed` starts.

Usage and shutdown:

* **`UsageLogger`** handlers between counting and sending an event, the
  background goroutine between its selects, and `flush` between the transaction
  and each upsert. Events have identities so that loss and repetition show;
  `sent`, `flushed`, `discarded` (rolled back with its batch) and `timely` are history variables.
* **`GracefulShutdown`** extends `UsageLogger` with the life of requests and
  streams and the phases of `WaitForShutdown`; the events of the logger are named by
  the requests that log them. The server's own shutdown (fasthttp, external) waits
  for connections and knows nothing of stream goroutines.

State that every instance copies:

* **`ModelSync`** the two maps of one registry and its methods as operators; the tables of models and deployments, the handlers that change
  them in several steps (validate, write, change the own registry, publish), the
  import of a provider's models, the messages, and one registry per instance. A
  reload lists the rows at once but reads and adds each model on its own. A start
  synchronises the models of the YAML file, then loads.
* **`Accounts`** users, memberships, organisation, team, service account and
  invites, with row operators named for the statements of `internal/db`.
  An invite is redeemed and an identity provider's user provisioned in several
  statements, each a step. **`KeyCache`** extends it with keys and sessions, the caches that authenticate,
  reloads that read and swap in two steps, and evictions that may be lost.
* **`CachedTables`** the protocol common to all copies: handlers, subscriber and
  ticker each load query by query and then replace. **`AccessLists`** the handlers of
  model access, MCP access and aliases. **`McpServers`** the handlers of MCP servers
  and blocklists, the YAML server, the tool cache with its lock and its refreshes
  without it. **`McpCalls`** calls, sessions, scripts of Code Mode and the pool.
  **`McpGateway`** composes them with restarts and states the properties.
* **`LoginThrottle`** clients between their looks at the throttle and the record of the outcome.

The text of a conversation:

* **`PiiText`** pseudonyms as sequences of abstract characters and the filter of a request,
  and the JSON values of bodies. **`Anonymizer`** the scan of a JSON body, walked with `RECURSIVE` operators. **`StreamRestorer`** the restorer, one line at a time.
* **`ProviderAdapters`** and **`StreamAdapters`** what an adapter makes of a body, of a whole
  answer and of a line.
* **`StreamRelay`** composes them: a request leaves, the provider says fragments of text
  and arguments of tool calls in its own lines, the client may leave, the conversation goes on with
  what the client was given. The scan is its constant `Anonymize`, for which the run takes
  `Anonymizer`'s: the theorems about streams then hold for any scan, and no recursion is in their way.
  What it assumes of the lines of no protocol (`OddLinesAssumption`) is that they are of a kind that
  `Push` tells apart.

**`ProxyRequest_proofs`** (with those about the circuit breaker), **`RateLimiter_proofs`**,
**`TokenCounter_proofs`** (with those about the usage log and the shutdown), **`ModelSync_proofs`**,
**`KeyCache_proofs`** (with those about the login throttle), **`McpGateway_proofs`** and
**`StreamRelay_proofs`** hold lemmas and theorems, **`FoldFacts`** what the last of them needs of folds.

The `MC...` modules give constants their values. `MCProgress`, `MCUsage` and `MCKeyCache` put
components that know nothing of each other into one run: a behaviour is one of
one component, chosen at the start, so that the state spaces add and
do not multiply. Definitions introduced by "Mutant of" are
deliberately wrong versions of the definition that follows them; replacing the
one by the other must break the property named in `PROJECT.json`.

## Runs

| Run | Question | Bounds |
|---|---|---|
| `Progress` | do reports in any order keep the breaker sound, and does it implement its contract (`BreakerTypeOK`, `Consistent`, `ProbeOutstanding`, `RecoveryNotPostponed`, `HalfOpenEnds`, `ImplementsContract`)? do health checks come to show what is so (`HealthSettles`), does the retry loop of the limiter end (`ChecksEnd`), do shutdown end and `Log` return when the logger blocks on a full buffer (`ShutdownEnds`, `LogReturns`)? | 4 callers, threshold 3, 2 probes: more callers than slots and than failures needed; one deployment on two levels, a remote and a built-in server, one probe at a time, one change; 2 goroutines, 3 requests, a minute counter of limit 1 that turns over, 1 eviction; 1 buffered request and a stream, channel of 1 |
| `Proxy` | is no deployment sent a request twice (`EveryAttemptIsFresh`), and do attempts keep to access, depth, retry limit and fallback rules (`AttemptsFollowPolicy`)? | two requests, a ring of 3 models, one with 3 shuffled deployments and one retry, depth 1, a key that may not use the third model; each slot serves one request, any attempt may fail |
| `ProxyLive` | is every request answered (`EveryRequestEnds`) although fallbacks form a cycle, upstreams fail for ever and health reports arrive at any time? | 1 slot reused without end, 2 models that fall back to each other, depth 5; 1 outage, streams, 501, errors and timeouts |
| `ProxyProbeLeak` | *violated*: does a tripped deployment recover (`Recovers`)? | 2 deployments, 1 outage |
| `ProxyOpenCircuit` | *violated*: is a request for a model rejected while its circuits are open (`RejectedWhileOpen`)? | 2 models, one without deployments, 1 outage |
| `Shutdown` | is what the logger accepted conserved (`Conserved`), do rollups follow the rows (`RollupsFollowTable`), are handlers outlived (`HandlersOutlived`) and is buffered usage stored (`BufferedUsageKept`)? what do budgets forget (`BudgetsKept`)? | 2 buffered requests and a stream, 2 rollup rows, channel of 2, 1 database failure, killed at any step of the drain; budgets: 2 slots, a key with 1 token a day, an organisation with 2 in two days, 4 requests, 1 eviction, 1 crash, 1 midnight |
| `ShutdownStreams` | *violated*: does the drain cover streams (`DrainCoversStreams`)? | 1 buffered request and a stream, channel of 1, dropping |
| `Models` | does no alias outlive its model (`AliasesOwned`), does an instance that has handled every announcement serve what is stored (`QuietMeansCurrent`), do concurrent changes make no cycle of fallbacks (`FallbacksAcyclic`)? | 2 instances, 2 handlers, 4 names, 3 rows, 1 reload at a time, 2 events, updates of one field, one creation, one import |
| `Keys` | does an invite let one request in (`InviteOnce`), and does what a reload found gone stay refused (`RefusedOnceReloaded`)? are guesses of a password bounded (`LoginsThrottled`)? do counts of requests stay within limits and are rejections justified (`LimitExact`), how far may a window be overrun (`OverrunBounded`)? | 2 instances, 2 handlers, 2 users, 2 invites, 3 keys, 2 days, 3 events; throttle: 2 clients, one address and account, 2 attempts a minute, lock after 2, 5 attempts; limiter: 3 goroutines, 3 requests, a minute counter of limit 1 that turns over, a day counter of limit 2 that does not and that two of them share, 1 eviction |
| `RateLimiterReset` | *violated*: is a request turned away only when its limit is used up (`RejectsWhenExceeded`)? | 3 goroutines, 4 requests, a minute counter of limit 2 that turns over, no eviction |
| `Mcp` | do copies follow the tables (`AccessFollows`), do tools of deleted servers stay gone (`PurgedStaysGone`), is an expired session replaced once (`OneInitPerExpiry`), does the pool keep its slots (`SlotsKept`)? | 2 instances, 2 callers, 2 servers of which the file names one, 2 aliases, 1 background refresh, a pool of 1, 3 sessions, 2 events |
| `Stream` | does no personal data leave for a public deployment (`ForwardedClean`), is the restored text what the client gets (`DeliveredRestored`), does an answer end as it is reported (`HonestEnd`), is it withheld only for a reason (`WithheldForCause`), can the conversation go on (`ConversationGoesOn`)? | 5 providers; 17 bodies as whole answers; streams of 2 to 4 events for a few bodies; 3 pseudonyms a request, 2 choices, 2 tools a choice, 3 in all |

The bounds are the smallest at which the cases the properties speak of occur:
one more actor than a resource has room for, a counter that passes its limit by
one, a window that turns over under its users. The three rollover actors of the
limiter are needed for a second reset to show; the three deployments with one retry
for a third attempt to show; the third model of the ring for a second hop to show.
A shuffle may produce every order, so `Proxy` covers the priority order too.
In `Proxy` every upstream may give any answer at any time; an outage that lasts
(`MaxOutages`) matters only to the runs about recovery and to `ProxyLive`.

`MaxEvents` bounds requests, failures, lost messages, restarts, days and changes of licence
together, so a behaviour of `Models`, `Keys` or `Mcp` has any two or three of them, cut
into their steps and interleaved with any number of reloads. Two are what a race needs: the update that
another request overtakes, the revocation that a reload has not yet read. `Keys` has
three because an invite is created, replaced and redeemed.

In `Stream` a pseudonym has four characters but the shape it has in the code, so a
fragment may end after any of them, a carry may hold the beginning of two,
and the type's letter may be one of the marker's. One body has four findings, one more than
a request may have pseudonyms.

The four "violated" runs are findings, each a sentence of a comment or of `docs/` that the code does not keep.

* `ProxyProbeLeak`: a probe slot that the router's filter takes for a candidate that is not tried is
  never given back, so that deployment stays out of rotation until the process restarts.
* `ProxyOpenCircuit`: the breaker of a single deployment is told of outcomes and never asked.
* `ShutdownStreams`: the drain does not wait for streams, which the comment at `handler.go:997` says it must.
* `RateLimiterReset`: between the two stores of a rollover a request is turned away by the count of
  the last window, in one that has let none pass.

Deadlock is checked except where the system ends or a bounded supply is used up: a process that
has exited (`Progress`, `Shutdown`), the requests of `Proxy` and of the limiter, the events of `Models`, `Keys` and
`Mcp`, an answer of `Stream` that is over.

## What the properties leave out, and why

Several properties have an exception that names a state the code really gets into. The
exceptions are exact: without them TLC finds the behaviour.

* `OverrunBounded`, `BudgetsKept` and `LoginsThrottled` do not speak of windows in which an
  entry was evicted while in use or a request ran across the end of the window it had read.
  `raced` counts the tokens that a reset of the token counter overwrites, `lost` what a crashed process
  had lost that way: rows that say so seed the next one, and what was let pass meanwhile stays spent.
* `LimitExact` says that a window in which a request was turned away had let its limit pass. It excepts
  requests that read an entry between the two stores of its reset (`RateLimiterReset` shows one)
  or that were outlived by their minute: the entry may have been reset or evicted under them.
* `BufferedUsageKept` excepts the batches that were rolled back, which the code gives up (`discarded`).
* `QuietMeansCurrent` and `AccessFollows` speak of instances that missed no message and have no
  load or handler under way that read before a change.
* `RefusedOnceReloaded` excepts the key that a handler had in its hands before the reload.
* `PurgedStaysGone` excepts tools that somebody was about to store when they were dropped.
* `SlotsKept` excepts the runtimes that could not be made again.
* `HealthSettles` asks of a deployment's flags only that they are right again and again.
* `WithheldForCause` excepts the Responses adapter, and `ConversationGoesOn` names Gemini's.

## Abstractions

* Data that no property tells apart is one value: all plain fields of a model are `content`,
  credentials and display names are left out, all MCP servers have the same tools, all keys
  belong to one organisation. The permissions of callers, the expiry of invites, team memberships and
  the synchronisation of groups are not modelled; an identity provider knows one
  identity for an address.
* One step: the walk along a chain of fallbacks, the synchronisation of one YAML model, the transaction
  of an access list, the two queries of `accessibleServers` with the blocklists, a look at an entry of the
  throttle with its update. The tickers of one instance take turns.
* Redis is assumed for announcements; without it there is one instance. The loss of a message
  is an event. `Mcp-Session-Id` is sent back by `initialize` only, any 404 is an expired
  session, the restart of an upstream server is the loss of its sessions. The minute a listing of tools
  is reused is part of `"fresh"`.
* Rows of usage are dated when they are flushed, as in the code.
* PII: what the detectors find is given, the keyed hash is injective, JSON that does not parse
  is one case, size caps on carries and lines are one way a stream may stop, white space around a finding is
  not trimmed, maps are visited in one order. `private` stands for every reason not to anonymise.
* Failures that lead where another one leads are left out: a fallback whose name cannot be put into the
  body (`handler.go:413-433`), a blocklist that cannot be read (`code_mode.go:153-161`), a start that
  goes on with a copy it could not load (`app.go:486-511`; `McpGateway` has the failed loads
  of tickers and subscribers), arguments of a Gemini call that are no object (`gemini.go:894-897`; other lines
  abort the stream in the same way), a reader that fails after the last event of a stream (`handler.go:1261-1268`).
  `initialize` is always answered with a session, and a password change evicts the cached sessions of
  an instance in one step.
* `LoginThrottle`: accounts are not idle long enough to be evicted within its bound.

## Disagreements met while modelling

Read from the code. The ones above have runs; of these, those that name a run are its
finding, and the others are left out of the properties or are their exceptions. Paths are under `src/internal/` unless they name `docs/`.

Upstreams and limits

* `circuitbreaker/breaker.go:54-55` calls `HalfOpenMax` the maximum number of concurrent probes. A slot
  of an earlier half-open period is forgotten when the breaker reopens (`:165`, `:107`), so
  more probes than that may be in flight.
* `docs/configuration.md:310-312` says an open circuit rejects requests of a model.
  A model without deployments never passes through the router, and `tryModel` asks its
  breaker only if there is no router (`proxy/handler.go:565`), which there always is; and the router passes
  all deployments on when every breaker rejects (`ProxyOpenCircuit`).
* A 5xx answer of type `text/event-stream` is kept without a report (`proxy/handler.go:668-671`). When the chain
  then goes on, the answer is drained and dropped (`:449`), no stream goroutine reports it, and a probe slot that it held
  is lost as in `ProxyProbeLeak`. That run has no fallback, so it shows the leak of the filter only.
* `proxy/handler.go:1748` counts timeouts among the errors that may fall back;
  `isFallbackEligible` excludes `context.DeadlineExceeded`, which per-model timeouts are.
* `usage/logger.go:73-74` promises that all buffered events are flushed when `Stop` returns.
  `Log` accepts events afterwards, from a stream goroutine whose client has left, and nobody
  reads them, and a batch whose insert fails is given up (`:134`), the last one too. `StopFlushes` states what holds:
  everything accepted before `Stop` was called is stored or was rolled back.
  `usage/mcp_logger.go:91` closes the channel that `Log` sends to.
* `ratelimit/rate_limiter.go:153-154` and `token_counter.go:163-171` call the rollover a single visible
  transition. It is two stores that the lock-free path may come between, so a window may admit more
  than its limit or reject within it (`RateLimiterReset`), and an `Add` may be lost.
* Rows are dated when they are flushed, so a restart after midnight may charge yesterday's tokens to today.
* Each level of `health/checker.go:242-276` stores the flags of the others as it loaded them, so a flag
  that another level has corrected may turn wrong again.

Models

* `SyncYAMLModels` never stores `fallback` (`db/models.go:656-680`), though `config.go:165-168` offers it.
  Names are unique among deleted rows too (migration 0001), so deleting a YAML model makes later
  starts fail; one that was deactivated is served again after a restart.
* `api/admin/models.go:338-339` says the bound of `checkFallbackCycle` catches impossibly deep chains; a chain that
  is longer is let through (`:370`).
* A reload never removes (`app/app.go:293-296`, `:536`), and nothing reloads after a lost message. Changes
  published between a start's load and its subscription are lost as well.
* `UpdateModel` on a load-balanced model drops its deployments from the registry until the next reload, and
  puts a fallback back when there is no licence. The import adds models that are inactive. A rename that
  races a deletion leaves the new name registered. A `CreateModel` that fails after its insert
  publishes nothing. Uniqueness of aliases is checked before it is written.

Accounts and keys

* `UpdateOrg` and `UpdateTeam` publish an invalidation that no cache understands, though `orgs.go:323` and
  `teams.go:339` say changes take effect immediately.
* `auth.go:82` and `:481-483` say sessions are revoked immediately; other instances, and for a
  login its own, serve the cached ones until the next reload. `keys.go:838` says a deleted key is rejected without delay; a
  reload that read before brings it back. Keys of deleted users and service accounts stay valid.
* A rotated key is evicted on every node by the published eviction (`keys.go:802`), though `keys.go:614-615` gives it
  a period of grace. A new key has no limits of its organisation or team until the next reload.
* A service account's role is `team_admin` when its key is created (`keys.go:343-347`) and `org_admin` after a reload
  (`loader.go:80-85`).
* A system administrator without an organisation who logs in by an identity provider loses the sessions there
  are and gets no new one (`oidc.go:305-345`), while a login by password is refused before (`auth.go:224`).
* A membership that fails leaves a deleted user whose address blocks provisioning; group
  synchronisation overlooks deleted teams and fails to create them again.
* `AccessCache.Load` "must not be called concurrently with itself"; handlers, subscriber and ticker do.
  Three queries may make an allowlist that the database never held.

MCP

* MCP access is announced, but peers reload model access only; servers are not announced at all.
* `SyncYAMLMCPServers` looks for active servers only (`db/mcp_servers.go:614`), so a YAML server that was
  deactivated - by an administrator, or by the probe at the start (`app/app.go:239-263`) - is created again, which the unique
  alias refuses, and every later start fails, against the comment at `:592-600`. `EnsureBuiltinMCPServer` reactivates
  deleted rows too (`:580-581`). A server whose second statement fails keeps a row without credentials (`:281-323`).
* Sessions are kept by alias and organisation, so servers of one alias share them. Tools that a refresh stores
  after the removal of their server stay. The transport cache ignores changes of OAuth settings, and a transport keeps
  the error of its detection (`mcp/http_transport.go:221`).
* The pool loses a slot for each runtime it cannot make, and `Close` racing `Release` sends on a closed
  channel (`mcp/codemode_pool.go:139-142`). Code Mode keys its blocklists by alias (`app/code_mode.go:167`), against
  `docs/mcp/servers.md:99`.

Streams

* The Responses adapter drops the blank lines between events (`proxy/openai_responses.go:201`), so the restorer aborts
  each of its streams and the breaker counts a failure.
* Gemini's adapter numbers the calls of every answer from zero (`proxy/gemini.go:166`) and refuses a
  conversation in which one id names two tools (`:351`).
* Anthropic's `error` events and system messages made of parts are dropped (`proxy/anthropic.go:363-371`); the
  anonymiser refuses `"tools": null`; a stream without PII counts as a success when no
  `[DONE]` came.

## Fairness

* A goroutine that can take a step takes one: weak fairness of each request's
  steps, of the logger's goroutine, of each slot of the limiter and of each ticker of the
  health checks, whose probes time out. A mutex and a channel are granted in the end, as
  Go's scheduler does.
* An upstream call ends, because transport, model or stream timeouts bound it.
* The clock runs, and outages end.
* None for clients, except in `BusySpec`, where traffic never dries up: recovery
  of a breaker needs a request to probe it. None for signals, for kills and for the
  clients of streams.
* `ModelSync`, `KeyCache`, `McpGateway`, `LoginThrottle`, `TokenCounter` and `StreamRelay` are checked for safety only
  and state none. Their properties about copies are of the form "when nothing is under way",
  since messages may be lost and the code promises no delivery.

## What is proved

Of the circuit breaker, `ProxyRequest_proofs` proves, for every set of callers, threshold and number of
probes, the type invariant, `Consistent`, `ProbeOutstanding`, `RecoveryNotPostponed`
and the refinement of `BreakerContract`. `Consistent` is inductive together with the
type invariant: the state determines on which side of the threshold the failure
counter is. `ProbeOutstanding` is inductive because the only step that enters the
half-open state admits a probe, and every report leaves it. The refinement needs
`Consistent`, as a failure trips the gate exactly when the counter says so.
Both rest on lemmas that each method maps
a well-typed, consistent breaker to one. The only assumption is that the threshold
and the number of probes are positive, which `config.setDefaults` establishes.

Of requests it proves, for every set of them, of models and of deployments,
everything the `Proxy` run checks.

* No interleaving of reports makes the fields of a breaker disagree
  (`BreakersStayConsistent`): each method leaves a consistent breaker so, whoever calls it and when.
* A request visits only models its key may use, and at most `MaxDepth` after the first
  (`ChainsStayWithinPolicy`). Each hop of the fallback loop adds
  one to its index and at most one model to those visited, and the head of the loop bounds the index.
* No deployment is sent a request twice (`NoAttemptRepeated`), attempts keep to retries
  and fallback rules (`PolicyKept`), no request is refused for an open circuit (`NobodyTurnedAway`, the
  general form of what `ProxyOpenCircuit` shows). The invariant
  (`AttemptInv`) says of the candidates a request has left that they are distinct, belong to its
  model and were not tried; that only deployments of visited models were tried; that attempts
  made and left together keep the retry limit; and what a request knows when it decides.
  It rests on lemmas about the router's operators: every order that a strategy may give
  lists the healthy candidates once each, and truncation keeps some of them.
* The types (`ProxyTyped`), with the assumption that health reports have them.

Of the usage log, `TokenCounter_proofs` has this. For every set of events, capacity and number of
database failures it proves the type invariant, that the channel, the pending batch and what
was flushed make up what was accepted, in order (`Conserved`), and that `Stop`
flushes what came before it: it is in the table, or its insert was rolled back (`StopFlushesAll`). The strengthening for the latter: only a goroutine that saw
`done` drains, so `timely` is fixed by then, and during the last flush everything
timely is stored, rolled back or in the batch, which follows from `Conserved` when the channel is
found empty. `RollupsFollow` says that the hourly rows never count what the table does not hold. Its invariant
adds to each row what the flush under way still owes to it: the two never exceed
the table's count and equal it as long as nothing has failed.

It then shows that every step of the composition is a
step of the usage log or leaves it alone, hence `ShutdownSpec => Spec`, and so
inherits those theorems. On top of them it proves the types, that the tracked requests are
counted right and the WaitGroup is never negative (a request that has not called
`TrackStart` is not tracked), that no handler runs when the logger is stopped (an
unfinished handler is on an open connection), and that a graceful exit keeps
the usage of every buffered answer but for batches that were rolled back (what a handler logged was accepted before
`Stop`, and `Stop` flushed it). The assumptions are that the set of events is
finite and the channel has room for one.

`ModelSync_proofs` proves, for every number of instances, handlers, models, aliases, deployments and rows,
and every file, the three properties of the `Models` run.

* `AliasesKeepOwners`: `AddModel`, `RemoveModel` and `StripAllFallbacks` keep the aliases of a
  registry owned, whatever the order in which handlers, reloads and starts call them.
* `QuietInstancesAreCurrent`: each instance is told (`Told`): it missed something, has a message
  to come, somebody has yet to announce what he changed (`Owing`), or it has yet to list the rows; or else it
  serves what is stored, or its reload listed what is still stored and has added it as far as it got
  (`Faithful`). A step that changes a row or a licence makes one of the former true; the last ends in a
  registry that is current, gated by the licence. That names are unique among the rows is needed, so
  that no two rows write one entry of the registry. Whoever activates a model that is deleted meanwhile announces
  nothing: whoever deletes it does.
* `FallbacksStayAcyclic`, when fallbacks are administered through one process: a handler that found no
  cycle when it walked the chain may still write its edge (`Safe`: it closes no loop with
  the edges there are), because whoever else would write one waits for the lock, and because rows that
  are added, renamed, deleted or stripped meanwhile close none. A loop of fallbacks is a set of rows each of which
  falls back within the set, which needs no recursion. That the walk finds every loop needs its
  hypothesis, that there are no more rows than the 20 steps it takes: a longer chain would meet
  itself (the pigeonhole principle). Past that the code promises nothing: the walk ends and the edge is written.

`KeyCache_proofs` proves, for every number of instances, callers, users, invites and keys, the types and
two properties.

* `InviteOnce`: that an invite was claimed at most once, while pending, is not inductive. A
  claim asks whether the row is pending, so it must be known that a claimed invite is
  redeemed or gone and that no step makes it pending again. Five steps touch invites;
  one lemma shows that every other action leaves them alone, another goes through the five.
* `RefusedOnceReloaded`: a key stays refused because its row is there for good, the cache does
  not have it, and no handler is about to store it (`RefusedInv`). A handler gets to
  the point of storing a key with a new row or with an entry that it found cached, and neither is
  one of a refused key.

The module goes on to the throttle that its run is paired with. For every number of clients, addresses and accounts,
every threshold, limit and lockout, `LoginsThrottled` holds (`GuessesStayBounded`). Two counts meet in the
first half (`GuessesCounted`): an account without a lock has had fewer failures than the
threshold, and each wrong password is a failure already or about to be one; those that are being
compared were let in before that, one for each client at most. An eviction begins the count anew, so this
half would hold even where the property makes an exception. In the second half (`PassesCounted`) what an address has got through
in this minute is in its count, and nothing has got through in a later one; that needs the exceptions,
since an attempt with an old minute or an eviction starts the count again. Assumed are finitely many clients, a
positive threshold, and that an absent entry is no record.

`RateLimiter_proofs` proves, for every number of goroutines and counters, every limit and length of
windows, that a count never passes its limit, and that a window turns a request away only when it has let its limit
pass, but for torn reads (`LimitsKept`). An
entry that was evicted lives on in the goroutines that loaded it, so the invariant
must say which counter an entry belongs to: it states that some assignment of owners
exists (`OwnedBy`), and each step extends or keeps it. As long as no request was outlived by its minute, a
goroutine that counts finds its entry in the window that it read (`InMinute`), and a count is
within what its window has let pass unless somebody is about to reset it (`Settled`): a rejection by a
count that nobody is about to reset is then justified by what passed.
`OverrunsBounded` is about windows in which nothing is evicted
and that no request outlives: then a counter has one entry, the lock admits one rollover at a time, and the
requests that passed in a window exceed the entry's count by at most one limit, by none
between a rollover and its reset.

`TokenCounter_proofs` also proves, for every number of slots, scopes, requests and evictions, every budget and
length of windows, that `BudgetsKept` holds (`BudgetsStayKept`). The invariant (`BudgetInv`), while nothing is
upset, says that a counter has one entry, which all its slots hold, one of them under its lock; that
an entry of an earlier window owes nothing, one under reset owes what raced the reset, and any other shows what
is owed but for that (`Balanced`); that what is in the table, in the buffer and on its
way there has been charged, so that no seed exceeds it (`Written`); and the bound itself (`Spent`). A step of the
check can only break the bound by admitting a request, and then there was room (`Room`); a step of the
addition moves one token from the admitted to the owed. The assumptions are that slots and counters are finite
sets, that a request names each of its scopes once, and that limits and lengths are
numbers, the latter positive. The attempt corrected the bound: an earlier form forgot what a crashed process
had lost, which shows only from the fourth request on, so the run now has four.

`McpGateway_proofs` proves, for every number of instances, callers, servers, aliases, tools, refreshes
and runtimes, the types and the four properties of the `Mcp` run.

* `SlotsStayKept`: one lemma says of each step of a call what it does to the runtimes: it takes
  a slot and starts a script, gives one back as a script ends, or leaves both alone.
* `PurgesLast`: the row of a deleted server stays, so nobody creates the server again; nobody who
  found it before is left; and one finds only live rows (`PurgedInv`).
* `OneInit`: a session that is opened and not stored yet is nobody else's; whoever replaces
  one holds the lock of the instance, and holds a session that was refused (`LockHeld`); and of the
  sessions that an alias was refused, one more than were replaced as long as a replacement may still
  begin (`Balanced`).
* `CopiesFollow`: what a load has read and nobody has changed since is what its queries return; and a copy that
  is not what the table holds was missed, or somebody will bring the instance the
  table - a message, a load of the instance, a handler of it that has yet to load, or one
  elsewhere that has yet to announce (`CopiesInv`). The tables of transports are derived from
  those of servers in the same load, which is why a load of servers brings both.

The assumptions are on the constants only: `None` is no caller, name, row, load or script, and `Keep` is no
row; the rows at
the start, the requests, the file and the reports of health checks have their types, and the first keys belong to the first
user or to none; the set of callers is
finite, and no caller is a ticker or an instance.

`StreamRelay_proofs` proves, for every provider, body, way of anonymising it, fragments, tools and
lines of no protocol, that a stream with restored values ends as it is reported (`StreamEndsHonestly`). That alone
is not inductive: [DONE] must be the last of what the provider says, through five adapters, a blank line between the
lines that one of them makes, and the restorer. The invariant (`EndInv`) says that what is on the wire can be
pushed; that, unless lines of no protocol were put in between, a line that becomes [DONE], or Gemini's memory that it has
to follow, is there only once the provider has finished; and that a stream that goes on
has neither an end nor an outcome.

The loops of that code are folds, over lines, choices, calls and parts. What a fold preserves is an
induction, and the library's theorems for it take an operator as a parameter, which no installed prover can
instantiate. `FoldFacts` has them instead as `CONSTANT` operators: the module proves once, by a least counterexample, that the
recursive function within a fold exists and that what each step preserves holds in the end; `StreamRelay_proofs` takes an
`INSTANCE` of it for each loop, with the loop's step and its invariant.

Only model-checked:

* All liveness: fairness and `ENABLED` are out of the prover's reach.
* `ForwardedClean` and `ConversationGoesOn`: they say of a body what `Anonymizer` computes by walking nested values
  with `RECURSIVE` operators, which the prover does not take.
* `DeliveredRestored` and `WithheldForCause`: they compare a lane with what was restored of all that was said on it.

## Plan

1. Proofs: what the theorems still lack is the abstract side of more components, as `BreakerContract` has it for
   the breaker: a limiter that counts atomically, a copy that is replaced at once.
2. `McpCalls`: the detection of the transport, OAuth tokens and their single flight, the
   built-in server.
3. `AccessLists`: team memberships and the synchronisation of groups.
4. A budget that spans `TokenCounter` and `UsageLogger`, with the same events.

## Not modelled

* Persistence: the text of SQL and its drivers. Transactions and unique keys appear where handlers rely on them.
* Configuration, logging, metrics, tracing: parsing and I/O. The bounds that validation guarantees are
  assumptions on constants.
* The rate limiter in Redis is one script, hence one step there. The MCP and audit logs have the
  shape of the usage logger, with nothing derived from their rows; `Stop` and `Log` of the former are in the list above.
* Retention and the update check change nothing that others read. The signature of a licence is cryptography.
* URLs, headers and token counts of the adapters, what a script of Code Mode computes, lists and
  reports of the admin API, the user interface and the generated documentation are presentation or plain data.

# A TLA+ model of the OpenShift functions console plugin

The plugin lets a developer create, edit, deploy and watch serverless functions
from the OpenShift console. Its backend (Go, `src/backend`) talks to the GitHub
API and to the cluster on the user's behalf; its frontend (TypeScript and React,
`src/src`) runs in the console. This directory holds TLA+ modules translated
from that source, TLC configurations that check them on small instances, and
proofs that TLAPS checks for instances of every size. `PROJECT.json` lists the
components, the runs, the properties' mutants, the source lines of every
definition, the hazards and the theorems.

Check a run with `tlc -config MCListFunctions.cfg MCListFunctions.tla` and a
proof with `tlapm ListFunctions_proofs.tla`.

## 1. The system

### Components

| component (source) | state | operations | what is hard | module |
|---|---|---|---|---|
| create saga (`handler/create.go`, `cluster/rbac.go`, `cluster/client.go`) | RBAC objects of a namespace, a repository with secrets, variables, branch | POST create: provision, mint a token, create and fill the repository, two deferred rollbacks | concurrent requests that adopt each other's objects, a failure or crash at any of a dozen calls, lost answers | `CreateFunction` |
| workflow-run watch (`scm/github/workflow.go`, `handler/workflow.go`) | snapshot, last event, tickers, channel | discover, poll all repositories, deduplicate, emit, stop | two goroutines on an unbuffered channel, GitHub faults, revocation, a browser that leaves | `WorkflowWatch` |
| stream client (`sseEventSource.ts`, `functionsClient.ts`, effect of `FunctionsListPage.tsx`) | one reconnecting event source per run of the effect | open, receive, reconnect, close | callbacks of closed streams, reconnect delays, logins and refreshes in between | `StreamClient` |
| credential store (`scm/credentials`, `identity`, `handler/scm_credentials.go`, `middleware.go`) | a Secret per OpenShift identity | save, get, delete, drop when expired | read-then-delete and create-or-update races, recreated accounts, expiry between two calls | `CredentialStore` |
| edit and kubeconfig refresh (`handler/files.go`, `config/expiry.go`, `PushFiles`) | secret, variable, branch | read expiry, mint, store secret, store expiry, push | two values that belong together written in two calls, concurrent edits, time | `KubeconfigRefresh` |
| certificate reloader (`tlsreload/reloader.go`) | served pair, watcher, poll | reload, watch, restart, poll | two files replaced one after the other, lost notifications | `TLSReload` |
| GitHub ETag cache (`httpcache/etagcache.go`) | entry per URL | look up, conditional GET, replay, store | answers stored out of order, contents that come back | `ETagCache` |
| list functions (`handler/list.go`) | namespace checks shared by goroutines | two sources, a goroutine per repository, merge | partial failure of either source, joined calls, a moving cluster | `ListFunctions` |
| token lifetime (`config/utils.go`) | the lifetime a process is up with | parse the flag at start-up | arithmetic that wraps around, processes started with different flags | `TokenExpiry` |
| create page and form (`FunctionCreatePage.tsx`, `CreateFunctionForm.tsx`) | owner, namespace, rows of variables, the watch of the namespace | type, pick, submit, navigate | a watch that lags behind the typing, sessions that end under the form, an answer after the page was left | `CreateForm` |
| editor page (`FunctionEditPage.tsx`, `EditToolbar.tsx`) | files, baseline, selection | load, edit, delete, save, leave | a save and a load in flight together, pushes of others, a navigation from another page | `FunctionEditor` |
| session and list effect (`AuthProvider.tsx`, `UserAvatar.tsx`, `httpClient.ts`, `FunctionsListPage.tsx`) | the user, the alert, the list and its flags | connect, disconnect, expire, refresh, switch namespace | late answers of an earlier session or namespace | `FunctionsPage` |
| rows of the list page (`FunctionsListPage.tsx`, `types.ts`, `FunctionTable.tsx`) | list, two cluster watches, runs | merge into rows | sources that lag differently, entries that share a key | `FunctionRows` |

Not modelled: the scaffold (templates of the Knative library, no state);
`cluster/kubeconfig.go` (formatting); of the process wiring, everything but the
lifetime flag (routes, health, static files, which keep no state after start-up);
the double of GitHub that the end-to-end tests use (`fakegithub/server.go`), whose
place GitHub itself takes in the models. The calls of `functionsClient` are plain
requests and are modelled where a page makes them.

### How they interact

The frontend calls the backend over REST and one event stream. `AuthProvider`
owns the session: any 401 that `httpClient` sees ends it. The list page asks
for the list on every login, namespace switch and refresh, opens the stream, and
merges list, cluster watches and stream events into rows. In the backend,
`RequireSCMCredential` looks the credential up (`CredentialStore`) before a
handler runs. The create saga sets up the repository and the deployment
credential that the edit handler later renews, and both reach the cluster and
GitHub by calls that fail or lose their answers on their own. The watch loop
reads GitHub through the ETag cache and hands snapshots to the stream handler.

Components share state only through the cluster's Secrets and RBAC objects,
GitHub's repositories, and the session. So each module models one component with
its environment (the other requests of the same kind, GitHub, the cluster,
time) and the modules meet at named seams: `StatusFeed` is what the watch promises
and what `StreamClient` and `FunctionRows` assume of its events; `FreshGet` is
what the ETag cache promises and what `WorkflowWatch` assumes of its GETs;
`ItemsArrive` of `FunctionRows` takes the answers `ListFunctions` gives, when
`FunctionsPage` lets one through, and both speak of the console's active namespace
(`ActiveNamespace`). Two pairs are composed outright: `Pages` runs
the create page and then the editor in one browser, for a call that the first
leaves behind navigates away from the second (`Navigation`); and
`KubeconfigRefresh` extends `TokenExpiry`, for the edits of one repository may be
served by processes that were started with different flags.

### What makes each correct

* Create: a rollback removes only what its own request created; a failed request
  leaves nothing unless its clean-up was itself cut short; pushed code comes with
  every secret and variable its workflow needs, all of one token. For repositories
  this holds of requests that name the account of their own token as the owner; what
  the others do is modelled and excepted by name (section 3).
* Watch: events are what the abstract feed allows (each snapshot mixes states
  that each repository had since the last event, no duplicates, errors reported);
  a stream converges, and the loop dies with it.
* Stream client: only the open stream speaks, what is shown never goes back,
  closed ones end, lost connections are recovered.
* Credential store: a request touches only the Secret of its identity; a saved
  credential is lost only in one named way; a save starts over at most once for
  every request that removes what it found.
* Refresh: the variable never promises more than the secret holds, except after
  refreshes that overlap or a token that ends before the one it replaces; no push
  undoes another. All this with whatever lifetime a process's flag gives: that a flag
  may wrap around is modelled, and no property depends on it.
* Reloader: only whole pairs, never an older one, the newest in the end.
* ETag cache: callers cannot tell it from no cache.
* List: a deployed function is listed by name whatever failed, by the cluster beside
  a repository of it only if its `func.yaml` was not read or not parsed; error marks
  are true of the request's own time.
* Create form: what is sent is what is shown, for the account that is connected.
* Editor: a file shown as clean is on the branch, a save keeps what it did not
  load, Back loses nothing silently. The other ways to leave ask nothing.
* Session and list: rows belong to the user and namespace shown, spinners end,
  a disconnect disconnects.
* Rows: each entry keeps its row, "scaled to zero" is said only of a revision that
  served and was idle (as far as the views are of one life of the service and not
  behind a rollout), and the page converges to the truth.

## 2. Modules

`<M>.tla` holds a component: state, actions, specification, properties. Next to
a definition, definitions named `<definition><Variant>` and commented as mutants
are plausible bugs in it; nothing uses them, and each property has one that
breaks it. `MC<M>.tla` and `MC<M>*.cfg` are the instances for TLC, `<M>_proofs.tla`
the theorems. Five conventions hold throughout:

* An action is the code between two points where others can get in: a remote
  call, a channel operation, an `await`, a callback. Everything the code does
  there, deferred calls included, is in the one action.
* Data the user or the cluster supplies is drawn from constants (`Pats`, `Contents`,
  `Folders`, `Listings`), which the `MC` modules fill.
* A remote call is carried out and answered, refused without effect, or carried
  out with its answer lost.
* Data is a model value as far as a property can tell it apart.
* History variables are marked so; no guard reads them.

| module | state in the code | actions in the code |
|---|---|---|
| `CreateFunction` | `pc` is the place in `createFunction`; `provisioned` is `cluster.Provisioned`; `objects`, `repos` are the cluster and GitHub; `req` has the account of the token (`login`) beside the `owner` that the request names, for `CreateRepo` acts on the first and every later call on the second | one per remote call of `ensureProvisioned`, `RequestToken`, `CreateRepo`, `InitRepo`, ... `PushFiles`; `UndoObject` and `UndoRepo` are the deferred rollbacks, which `Crash` skips |
| `StatusFeed` | the statuses at GitHub and what a subscriber was told | `RunMoves`, `Publish`; the promise of the watch |
| `WorkflowWatch` | `lpc` and `hpc` are the two goroutines, `prevRuns`, `prevErr` the deduplication, `outbox` the blocked `emit` | `PollRepo` is one GitHub call of the errgroup, `PollDone` the comparison, `SendEvent` the rendezvous, `AbandonSend` the `ctx.Done` branch, `Rediscover` the slow ticker |
| `StreamClient` | `phase[s]` is where `run()` of event source `s` stands, `aborted` its controller, `current` what the effect would close | one per callback or awaited result; `RunEffect` is the clean-up and the next run of the effect |
| `CredentialStore` | `secrets`, and `pc`, `op`, `caller` of each request | one per call of the Secrets API and of `SelfSubjectReview` |
| `TokenExpiry` | none: the lifetimes that flags give | `ParseSATokenExpiry` at start-up, in words that wrap around |
| `KubeconfigRefresh` | `secret`, `variable`, `log` (the branch), `pc`, `minted`; `lifetime[e]` is that of the process serving edit `e`, `Grants` what the API server may give whatever was asked | one per call of `HandlePutFiles`, with the three calls of `PushFiles` that matter |
| `TLSReload` | `disk`, `watched`, `events`, `current`; `step` is the place in `Run` | `ReadCert` and `ReadKey` are the two reads of `reload`; `HandleEvent`, `Tick`, `WatcherFails`, `StartWatch`, `AddKey` are `Run` and `watch` |
| `FreshGet`, `ETagCache` | `entry`, and `held`, `reply` of each call | `Lookup`, `Exchange`, `Replay`, `Store` of `RoundTrip` |
| `ListFunctions` | `item`, `excluded`, `nsCache`, `flight` (singleflight) | one per call of each goroutine, `Merge` |
| `Navigation` | `away`: the calls under way that navigate to the list when answered | `SendAway`, `AnswerAway`, parts of the pages' actions |
| `CreateForm` | `fields`, the page's typed and debounced namespace, the watch, `isSubmitting`, `authUser` | one per handler, timer, watch event (the lists of Secrets and ConfigMaps change at any time) and answer; `RefusedEarlier` is a late 401 that ends the session of the moment |
| `FunctionEditor` | `files`, `originalFiles`, selection, one load and one save in flight | one per handler and per awaited result; `CalledAway` is the navigation of an earlier page's call, `WalkAway` a link of the console, the browser's back or a reload |
| `Pages` | create page, then editor | those of both, and `OpenEditor` |
| `ActiveNamespace` | `namespace`, from `useActiveNamespace` | none: the list page's two modules share it |
| `FunctionsPage` | `authUser`, `alert`, `rows`, flags; `call[l]` is a list request | one per click, awaited result and step of the backend |
| `FunctionRows` | `items` is `functionMetadataList`; `knSvcs`, `deps` the watches; `Rows` the chain of `useMemo`s; `born` tells the lives of a service apart, whose revisions have the same names | `ItemsArrive`, `ChangeNamespace`, one per watch and for the stream; the cluster's own steps (`Deleted` and, when the deployments go later, `Collected`) |

## 3. Runs

Eleven runs pass. The bounds are those at which every action fires and each
property's mutant is caught, and then one more request or change wherever TLC still
ends in reasonable time.

| run | instance | shows |
|---|---|---|
| `create_function` | 2 requests, 1 namespace, 2 accounts with 1 repository name each, every combination of token and owner, any mix of earlier objects, outdated roles | `OnlyCreatorDeletes`, `OnlyCreatorTouchesRepo`, `PushedIsComplete`, `CleanFailureLeavesNothing`, `DeployableUnlessRolledBack` |
| `workflow_watch` | 2 repositories, 1 move of GitHub, 1 fault, a revocation, a browser that leaves, fairness | `ImplementsFeed`: loop and handler implement `StatusFeed`; `Converges`, `RevocationReported`, `LoopStops` |
| `stream_client` | 2 event sources in a row, 2 versions, 2 troubles, fairness | `OnlyCurrentSpeaks`, `RunsNeverGoBack`, `ClosedStreamsStop`, `Recovers` |
| `credential_store` | 3 requests, 2 attempts each, of an account, its recreated successor and an administrator of the same name | `OnlyOwnerTouches`, `LostOnlyToStaleDrop`, `SetBackByRemovals` |
| `kubeconfig_refresh` | 2 edits, 9 flags in an arithmetic of one byte, which give lifetimes 6 and 4 (windows 1 and 0), tokens granted for 1, 4 or 6, time 5, past the window and a short token's life | `LateOnlyAfterOverlap`, `PushesOnLiveCredential` |
| `tls_reload` | 2 renewals, 2 watcher failures, fairness | `ServesWholePairs`, `CatchesUp` |
| `etag_cache` | 4 calls, 2 contents, 3 changes (away, back and away again) | `ImplementsFreshGet`: the cache implements `FreshGet` |
| `list_functions` | 2 repositories that may name any function, 2 namespaces, 1 change | `DeployedShown`, `MarksAreOfThisRequest` |
| `function_editor` (instance `MCPages`) | 2 accounts, 2 namespaces, 2 rows, 2 calls that navigate; 2 files of one folder with 2 contents, 1 foreign push, 2 loads, 1 save | `SubmitsWhatIsShown`, `BaselineOnBranch`, `CleanShowsBranch`, `LoadsNeverGoBack`, `SaveKeepsUnloaded`, `BackLosesNothing` |
| `functions_page` | 2 accounts, 2 namespaces, 2 actions, 2 disconnects, fairness | `RowsAreOwn`, `WarnsOnlyExpired`, `ListSettles`, `DisconnectEnds` |
| `function_rows` | 2 repositories, 1 function name in 2 namespaces, a service idle or being deleted at the start, 4 cluster changes (a rollout in full, or a deletion and a new life), 2 answers or switches, 1 run change, fairness | `ItemsKeepRows`, `ZeroMeansIdle`, `RowsConverge` |

One type invariant belongs to each component, and each is proved (section 5). Those of
`WorkflowWatch`, `FunctionRows` and the pages (`WatchTypeOK`, `RowsTypeOK`,
`PagesTypeOK`) are checked with TLC as well, for they say more than types: which statuses
a run can show, which rows a list can hold, which calls are under way.
Deadlock is not checked: requests, pages and the bounded environments come to an
end, and the liveness properties say what must happen before they do.

Two instances restrict the initial states of their specification, to keep it in
reach of a liveness check: in `MCWorkflowWatch` the repositories' runs start in the
same state (`StartAlike`), in `MCFunctionRows` the function of one namespace is
deployed and idle when the page opens, perhaps being deleted (`OneDeployed`). Other
starts are changes of the environment away, and those changes are actions.

Why these bounds are enough in kind: the races are between two actors with a
third to overtake or confuse them; two repositories, namespaces or files are what
it takes for one to be mistaken for the other; the counters (changes, faults,
time, events) bound only the environment, never the code, and are exhausted in
every run together with the actors' own steps. Words of one byte and a day of six
seconds reach every branch of the lifetime's arithmetic: no value, a malformed
one, less than a second, negative, an overflow to either sign. Two rows are what it
takes for one variable to be named twice. A save of a credential,
here allowed two attempts, gives up after two removals with another save between
them, which takes more than three requests, or after Creates that meet NotFound,
which the run reaches; `CredentialStore_proofs` covers both for any number.
Where a property is also proved, the bound no longer matters.

### Where the code and the repository's words part

`create_function_race` checks what the tests of the create handler say of a request
that succeeded, that nothing of it is rolled back: the function it reported created
can be deployed. It ends in a counterexample. A
request succeeds on RBAC objects that another request created; the other fails
later and its rollback deletes them by name. `findings` in `PROJECT.json` quotes
the statement. `DeployableUnlessRolledBack` shows, and `CreatedDeployable` proves,
that on the cluster a rollback that removed an object is the only cause: a neighbour
that failed or crashed without removing anything takes nothing away.

Other weak spots are stated the same way, as the causes that a passing
property names; the property is false without them.

* `OnlyCreatorTouchesRepo`, `PushedIsComplete`, `CleanFailureLeavesNothing`,
  `DeployableUnlessRolledBack`: `Repositories.Create` makes a repository of the
  token's own account and never sees the owner; `InitRepo`'s later calls, the secret,
  the variables, the push and `DeleteRepo` go to the owner that the request names, and
  `validateCreateRequest` looks at its format only. A request in which the two differ
  (`Misaddressed`) may fill, and on failure delete, a repository it did not create
  (`Strayed`), and it leaves the one it made.
* `LostOnlyToStaleDrop`: a get finds an expired credential, the user saves a new
  one, and the drop, by name and without a precondition, deletes the new one.
* `LateOnlyAfterOverlap`: two refreshes interleave, or a token ends before the one
  it replaces, because processes were started with different lifetimes or the API
  server granted less than was asked; the variable then promises the later expiry
  while the secret holds the token that ends earlier.
* `SubmitsWhatIsShown`: a key picked in the 300 ms in which the lists are still
  those of the namespace typed before is one of the other namespace; and a row keeps
  a key whose Secret or ConfigMap is deleted while the form is open.
* `BackLosesNothing`: only the toolbar's Back asks. A link of the console, the
  browser's back, a reload (`WalkAway`), and the answer to a create request or a
  disconnect that was left behind (`CalledAway`) end the page without a question,
  whatever is lost; the property does not judge them.
* `CleanShowsBranch`, `BackLosesNothing`: a namespace switch loads the files
  anew while a save of a deletion is running; the file that comes back has no
  baseline, and its edits are left without a question.
* `LoadsNeverGoBack` orders loads among each other. A load that read before a save's
  push and ends after it takes the editor back, and nothing in the page notices.
* `WarnsOnlyExpired`: a 401 for a request of the previous session, a disconnect's
  included, ends the new one with a warning that it expired.
* `ItemsKeepRows`: repositories whose `func.yaml` name the same function share the
  key that `types.ts` calls unique, and only the last of them has a row.
* `DeployedShown`: a deployed function whose repository's `func.yaml` is unread or
  does not parse is listed twice, which `list.go:188` knows as SRVOCF-1138; two
  repositories that name one function are two entries.
* `ZeroMeansIdle`: a row may say "scaled to zero" of a function that is busy while
  the view of the service is older than a rollout, or while the two views are of
  different lives of the service, whose revisions share their names.

One difference needs no run: `RefreshWindow` renews the credential in the last
sixth of its lifetime, 28 hours of seven days; `docs/ARCHITECTURE.md` says 24.

## 4. Fairness

Five runs check liveness, under the `FairSpec` of their module; it adds only
fairness, so their safety properties are those of `Spec` (`WatchSpec`, `ReloadSpec`,
`RowsSpec`; components whose theorems share a module prefix these names).

* `WorkflowWatch`: a goroutine that can run does, and a call that was made ends
  (the HTTP client's timeout, the request's context): weak fairness for `LoopRuns`
  and for `HandlerRuns`, each one sequential goroutine. The select statements choose
  at random among ready cases, so a branch ready again and again is taken: strong
  fairness for each ticker (`TakeTick`), `SendEvent`, `LoopEnds` and `HandlerEnds`. The
  browser, the user and GitHub are never made to move.
* `StreamClient`: fetches, timers and reads end, and the page's effects run, as
  the event loop has it; the backend goes on sending (`WorkflowWatch` shows it).
  Troubles are bounded: recovery from a network that fails for ever is not claimed.
* `TLSReload`: the poll's ticker comes again and again among the notifications
  (strong fairness), and a reload that has begun goes on. Notifications get none:
  catching up may not depend on them.
* `FunctionsPage`: requests are served and answered; `consoleFetch` has a timeout.
* `FunctionRows`: the console keeps its watches connected and the stream client its
  stream (`Recovers`); lists and cluster are bounded and need no fairness.

## 5. Proofs

Assumptions are the named `ASSUME` of each module, which keep sentinels apart
from values and bounds natural, and which TLC evaluates in each run. Two say more.
`FunctionRowsAssumption` has the backend's listings consist of items in which a
repository's `func.yaml` may lack a name, with or without an error, a deployed
function cannot, and no repository is listed twice.
`NoRunsAssumption`: a nil map is deeply equal to no snapshot, as in `reflect.DeepEqual`.
Each proof has the shape: `Init => IInv`, `IInv /\ [Next]_vars => IInv'` with one
case per action, then the property from `IInv`. Components that share a proof module
share a concern; they keep their own state and specification.

* `CreateFunction_proofs`, for any number of requests, namespaces and repositories.
  `OwnedInv`: what a handler reports provisioned is still its own creation; without
  it `OnlyCreatorDeletes` is not inductive, for a rollback acts on what it remembers
  (`RollbackDeletesOwn`). `RepoInv` ties a handler's place in the saga to the
  ownership and the contents of the repository it names, unless a misaddressed
  request names it too (`ReposOfOthersKept`, `PushedComplete`). `LeakInv` accounts
  for everything a handler has made at each place of the saga and the unwinding, the
  repository a misaddressed one made at home included (`CleanFailure`). `GrantInv`: the
  objects a token depends on are there until a rollback in the namespace has removed
  one (`CreatedDeployable`).
* `KubeconfigRefresh_proofs`, for any number of edits, any lifetime and any length
  of time, and any lifetimes the API server grants. `FreshInv`: as long as
  refreshes have not overlapped and no token ended before the one it replaced, an edit
  about to store its token has the one that ends later, and one about to push knows of
  a credential that outlasts the window or its own token's life
  (`LateOnlyIfOverlapping`, `PushedOnLiveCredential`). `BranchGrows` is GitHub's
  fast-forward rule against the parents `PushFiles` chooses.
* `CredentialStore_proofs`, for any number of requests, users and retries: `OwnInv`
  (a Secret holds its own identity's credential) gives `OwnersOnly`, and `StageInv`
  (what a request has found) `LostOnlyKnownWays`. `BackInv` counts: a save that is
  about to find its Secret gone has been set back fewer times than there were
  removers (`SetBackOnlyByRemovals`).
* `RunStream_proofs`, both ends of the event stream.
  The browser's, for any number of event sources, versions and troubles: a
  source that receives is the current one (`CurrentSpeaks`); `AgeInv` orders the
  snapshots on their way, none newer than the backend's and, from a source that
  still speaks, none older than what the page shows (`NeverBack`).
  The backend's, for any repositories, moves and failures: `FeedImplemented` proves
  that the loop implements `StatusFeed`, each step a step of it or a stutter.
  `PollInv`: a poll in progress is faithful to what was shown last and to what GitHub
  had since. `SendInv`: an event the loop is blocked on stays worth sending until it
  is taken or the watch is stopped, however runs move meanwhile; and as long as
  nobody has stopped it, the loop comes to a rediscovery only after a first event, so
  it never repeats a nil snapshot. `Witnessed`: what a poll may read now is recent.
* `ListPage_proofs`, the list page.
  Session and list, for any accounts, namespaces and bounds: `SessionInv` ties
  alert and listener to the session, `CallInv` a list call that is not cancelled to
  the account and namespace on the page, and `Budget` the calls to the user's actions,
  so that a call is always left (`OwnRows`, `OnlyExpiredWarned`).
  Rows, for any listings and clusters: `RowsKept` is set reasoning about the rows'
  keys, which only entries of one namespace and name share; `ZeroCorrect` rests on
  `VersionInv` (the watches know no revision the cluster has not reached), `ReadyInv`
  (a revision the page saw ready has not failed, only been deleted since) and
  `IdleInv` (the newest revision is at zero after it was idle while it served, or if
  it failed before the page saw it ready). Both stop at a view of the service that is
  behind a rollout or of another life than a deployment's: the exceptions that the
  theorem names.
* `Copies_proofs`, the two copies a process keeps of something that changes under it.
  Reloader, for any number of renewals and failures: `OrderInv` orders
  file system, half-read pair and served pair by version (`WholePairsServed`).
  ETag cache, for any number of calls, contents and changes: `Fresh` proves
  that the cache implements `FreshGet`, each step a step of it or a stutter. The
  invariant: entries are whole (`CacheInv`), and what the server confirms to a call
  is what the resource was while the call was under way (`CallInv`).
* `Pages_proofs`, the create page and then the editor in one browser, for any
  accounts, namespaces, rows, files, contents and bounds. `FormInv`: a key in a row is
  one that the namespace and the resource next to it have or had when it was picked,
  unless it was picked while the lists were late (`SubmitCorrect`). `EditorInv` has four parts: `LogInv` (the branch has
  room for the push that a save still owes), `LoadInv` (a load that may still show its
  tree has not read an older one than is shown: `LoadsCorrect`), `SentInv` (a save the
  branch has taken is there as it was sent: `BaselineCorrect`), and `SyncInv` (without a
  load during a save, nothing is in the editor that neither the baseline nor the save
  about to replace it has, and the baseline is what was last loaded or saved; in any
  case each file of the baseline is). From them follow `CleanCorrect`, `SavesCorrect`
  and, with the question that Back asks, `BackCorrect`.
* `ListFunctions_proofs`, for any number of repositories, namespaces and names:
  `RowInv` (what a row holds at each step of its goroutine), `CheckInv` (verdicts
  in the cache and in joined calls are of this request's time), `MergeInv` (a list
  that came out is complete and the answer is the merge) give `ShownByName` and
  `MarksEarned`.

Each component's type invariant is a theorem too. TLC checked every invariant on the
small instances before it was proved.

So every safety property of the runs, invariant, action property or refinement, is a
theorem. Model-checked only: liveness (the prover has no fairness or `ENABLED`), that is
`Converges`, `RevocationReported`, `LoopStops`, `ClosedStreamsStop`, `Recovers`,
`CatchesUp`, `ListSettles`, `DisconnectEnds` and `RowsConverge`; and, by its nature,
the counterexample of `create_function_race`. `PushesOnlyAppend` and the type invariants
that no run lists are proved and need no run. No module declares a `RECURSIVE` operator.

## 6. What is left out

* Create: scaffold contents and the backend's request validation are success or
  failure. Owner and token's account are any two accounts; that a token may or may not
  write to another's repository is the refusal or success of each call.
* Create form: text fields but the namespace, which any value fills; rows of
  Secrets and of ConfigMaps are handled alike and modelled once.
* Lifetime: the text of the flag is its days and its duration.
* Watch: heartbeats, except as the place where a lost connection is noticed.
* Reloader: cancellation, which ends the process; a half-written file counts as
  one that does not parse.
* ETag cache: methods other than GET, which pass through; hop-by-hop headers.
* List: the limit of ten goroutines, which only removes interleavings; a
  `func.yaml` without a name (`FunctionRows` has it); request validation.
* Editor: alerts and their timer, a file's language, and of the tree view all but
  what it offers to select and delete. What the ways to leave other than Back lose.
* Session: a page left while a connect is under way; the dialog's layout. After
  the editor the browser opens no other page.
* Rows: replica counts, URLs, error texts, errors of the watches themselves.
  `useK8sWatchResource` belongs to the console and is modelled by its use: a new
  configuration starts from nothing.

## 7. Plan

The order was: what a user cannot repair first (create saga, credentials, edits),
then what every page depends on (watch, stream, cache, reloader, list), then the
pages. What comes next:

1. Model: the end-to-end double of GitHub against the GitHub that the other modules
   assume; the composition of `StreamClient` with `StatusFeed` in place of its own
   backend, and of `FunctionRows` with `FunctionsPage`'s list requests; the list
   page as the third page of `Pages`.
2. Prove: the safety halves of liveness, such as what a watch or a stream that has
   ended leaves behind; that `StreamClient`'s backend is a `StatusFeed`. Runs whose
   properties are all proved then give way to runs of the new modules.

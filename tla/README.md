# A TLA+ model of the bitalostored dashboard

The dashboard (`src/dashboard/cmd/fe-vue/src`) is the browser side of the
bitalostored control plane. It is written in Vue 2 with TSX components and a
Vuex store. It reads the cluster's state from the control-plane REST API and
draws it: proxies, groups of storage servers, and the 1024 slots with their
migrations. It also sends the operator's commands back to the API. All of its
code runs on the browser's single thread. A handler runs to its first `await`
without interruption. Between an `await` and the answer, any other handler may
run: a click, a poll refresh, or another request's answer. These interleavings,
and the conversions the views apply to the API's data, are what this project
models.

## Parts of the system and the modules

| Part | Source | Module |
|---|---|---|
| Slot bar: Offline, Migrating and Default rows | `views/home/slots-view.tsx`, `constant/index.ts` | `SlotRanges` (proofs in `SlotRangesProofs`) |
| HTTP adapter, error-log store, error panel | `api/index.ts`, `store/modules/server.ts`, `views/app/log-view.tsx`, `views/app/log-dialog.tsx` | `HttpAdapter` (proofs in `HttpAdapterProofs`) |
| Group table: replica checkboxes, command buttons | `views/home/group-view.tsx` | `GroupView` (extends `HttpAdapter`; proofs in `GroupViewProofs`); `ReplicaSpinner` (abstract; `GroupView` refines it) |
| PC config card: list, update dialog, sync | `views/home/pc-config.tsx`, `components/app-menu.tsx` | `PcConfig` (extends `HttpAdapter`; proofs in `PcConfigProofs`) |
| Router, guards, session and cluster stores, login | `router/*.ts`, `store/modules/user.ts`, `store/modules/bitalosproxy.ts`, `views/Login.tsx`, `app.tsx` | `RouteGuards` |
| Command controls: group controls, slot migration form, migration start/stop, proxy card | `views/home/group-control.tsx`, `slots-control.tsx`, `migrate-table.tsx`, `proxy.tsx` | `Controls` (extends `HttpAdapter`; proofs in `ControlsProofs`) |

The parts interact through the adapter and the stores. Every request a view
sends passes the adapter's two interceptors. The adapter can send the browser
to the login page, and it writes the error log that the panel shows. So
`GroupView`, `PcConfig` and `Controls` EXTEND `HttpAdapter`: they share its variables
(`answer`, `errLog`, `isOpen`, `utoken`, `page`), and each of their actions
that sends a request conjoins the adapter's `Request(c)`. Each action that
handles an answer conjoins `Respond(c, k)`. A view's handler and the adapter's
interceptor for the same answer run in one task, so they are one step.
`adapterVars`, `viewVars` and `allVars` name the variable tuples of the
composition.

Every MC module gives the constants small sets of model values. Requests are
model values `c1, c2, ...` and each is issued at most once, so the number of
calls bounds the run. No definition distinguishes one call from another, so
most runs use SYMMETRY over the calls. The `pcconfig` run uses instead the
constraint `MC_CallsInOrder` (calls are issued in the order `c1, c2, ...`).
Renaming the calls of any behaviour in the order it first issues them gives a
behaviour that satisfies the constraint and every property equally, so the
constraint loses no behaviour up to renaming.

### SlotRanges

The page receives the slot list of the cluster and derives three rows from it:

- `offlineList` holds the slots of group 0.
- `migratingList` holds the online slots whose action is pending. Each is
  re-labelled with its target group and keeps its old group in `fromGroupId`.
- `defaultList` holds all online slots.

The last two go through `formatList`, a `reduce` whose callback either extends
the current run or starts a new one.

| Code | Model |
|---|---|
| The slot list (props) | `slots`: one record per slot id; the action is 0 (none) or the target group |
| The reduce's accumulator of each computed row | `data[v]`: the runs built so far; `pos[v]`: slots consumed |
| One callback call of filter-then-reduce | `Step(v)` |
| The reducer's two branches | `formatStep` (extend with `extendRun` or append a new run) |
| A new slot list from the next poll | `Refresh`, once both rows are evaluated |

A computed property is evaluated synchronously, so no other action interleaves
with one row's steps. The two rows' steps may interleave with each other; this
is harmless because they share only the read-only `slots`.

### HttpAdapter

| Code | Model |
|---|---|
| the request interceptor (`getUToken`, `location.assign('/#/login')`, `return`) | `Request(c)`, with `Sent` and `Navigated` |
| the response error handler, its two dispatches and the TypeErrors at `err.config.url` / `err.response.data` | `Respond(c, k)`, `ReachesDispatch`, `Logged`, `Outcome` |
| `server/list` (unshift), `server/isOpen` | `errLog` (newest first), `isOpen` |
| `toggleDialog`, the v-menu's input, `openDetail`, `closeDetail` | `ToggleDialog`, `MenuInput`, `OpenDetail`, `CloseDetail` (through `SetDetail`) |
| the cookie jar, `new Date()` | `CookieChange`, `Tick` (bounded by `MaxTime`) |

An answer `k` is `ok` or `fail` (a 2xx whose payload is or is not `'OK'`),
`http` (an error status) or `network` (no response). Axios gives an error
without a response when the request interceptor returned undefined. So a
blocked request and a network failure both throw at `err.response.data`
before any dispatch: the caller is rejected and nothing is logged. Only an
HTTP error is logged, and its caller then resolves with `undefined`.

### GroupView

| Code | Model |
|---|---|
| `s.replica_group` of the drawn row object | `model[r]` |
| the v-checkbox's internal `lazyValue` | `lazy[r]`; it follows a change of `input-value` only (`Follow`) |
| `onChangeItemReplica` up to its `await` | `ReplicaClick(r, c)`; with no token the rest runs in the same step |
| the rest of the handler (rollback, `finally`) | `ReplicaAnswer(c, k)` through `ReplicaSettle` and `Rollback` |
| the `list` computed re-copying `i.servers` | `Detach` (every pending handler's captured object is no longer drawn) |
| the page's refetch of the groups | `Refresh` |
| the `@Emit('update')` command handlers | `CommandClick(op, g, c)`, `CommandAnswer(c, k)` |
| the control plane | `backend`, written by `ApplyReplica` (modelled from the spec: the server is not in this repository) |

`req[c].live` records whether the row object that the handler of `c` captured
is still drawn. A refresh recomputes `list` and clears it for every pending
handler. A rollback write does not: `list` is a computed that Vue re-evaluates
only when a dependency it read changes, and the copies it made are not its
dependencies, so writing to a drawn copy only re-renders and every handler
keeps its object (`Rollback` leaves `req` as it is).

`ReplicaSpinner` is the contract of `loading.index`, with the rows' values,
the HTTP calls and the rollback left out. `spin` is the index shown,
`inflight` the pairs `<<c, i>>` of a toggle's call awaiting its answer and the
index of its row, and `issued` the calls toggles have used. `Show(c, i)` is a
toggle sent on a fresh call `c` from a row at index `i`: the spinner moves
there and the pair starts to wait. `Stop(c)` is a toggle on a fresh call whose
request the token check stopped: its `finally` runs in the same task and
clears the spinner. `Clear(p)` is the answer of the waiting pair `p`: its
`finally` clears the spinner even while other toggles still wait. Nothing else
moves the spinner, so when it is shown it is on the row of a toggle that still
waits (`SpinnerOnWaitingRow`). `GroupView` maps onto it with
`spin <- loadingIndex`, `inflight <-` the waiting calls paired with
`req[c].row[2]`, and `issued <-` the calls whose handler is a replica toggle
(`Spinner`, `SpinnerRefined`).

### PcConfig

| Code | Model |
|---|---|
| `list` rows and their `contentStr` | `list` (the text of a row is `Stringify` of its content) |
| `updateItem` | `draft` (`NoDraft` while null) |
| the `$watchAsObservable` + `debounceTime(500)` pipeline | `pending` (a change waits), `Debounce` then `Fire` (the subscriber) |
| `onClickUpdate`, the textarea input, the dialog's cancel | `OpenUpdate(i)`, `Edit(t)`, `Cancel` |
| `onClickUpdatePcConfig` | `Confirm(c)`, then `UpdateAnswer(c, k, c2)` |
| `onClickSyncPcConfig` | `SyncClick(c)`, `SyncAnswer(c, k, c2)` |
| `getList` (from `mounted` and both handlers) | `GetList`, `ListAnswer`; `RespondAndGetList` when one answer issues the next request in the same task |

Texts are abstract: the JSON of one config, the JSON of `null` (JSON.parse
gives a falsy value), or malformed text. `Parse` maps each to what
`JSON.parse` and the `catch` return. `MaxLog` bounds the client-side records
that a refused confirm adds to the log.

### Controls

| Code | Model |
|---|---|
| `created()`: `getCloudType`, `CLOUD_TYPE_LIST`, `addServer.cloudType` | `Created(c)`, `CloudTypeAnswer(c, k)`, `cloudList` |
| `groupIdList`, `canAddGroup`, `canAddServer` (`Number`, `toString`, string equality) | `GroupIdList`, `CanAddGroup`, `CanAddServer`, `Number`, `IdToString` |
| new group, add server, sync/enable/disable all | `AddGroupClick(c, t)`, `AddServerClick(c, s, t)`, `AllClick(op, c)` |
| the Range / Some toggles, Migrate Range / Some | `ToggleRange`, `ToggleSome`, `MigrateClick(op, c)` |
| start/stop migrate (`clickBtn`, the v-dialog, `clickConfirm`) | `MigrateBtn`, `MigrateCancel`, `MigrateConfirm(c)`, `mDialog` |
| allow/forbid read cross cloud (`crossCloud`, the v-dialog, `clickConfirm`) | `CrossBtn`, `CrossCancel`, `CrossConfirm(c)`, `pDialog` |
| a proxy row's sync, DEL, force delete | `ProxyClick(op, c)` |
| the rest of each handler after its `await` | `CommandAnswer(c, k)`; `Resumes` says whether it reaches its emit, `Emit` records it in `emitted` |
| the control plane's groups, migrate and cross-cloud flags | `groups`, `disabled`, `cross`, written by `Applied` (modelled from the spec) |
| the page's fetch on `update` (views/Home, not in the repository) | `PageRefresh` (modelled from the spec) into `pageGroups`, `pageDisabled`, `pageCross` |

The handlers differ in what they do once the promise settles. The `@Emit`
handlers emit `update` only when their `await` resolves, which an HTTP error
also does through the adapter. `onClickAddGroup` catches the rejection, so it
always emits. The proxy's `onSync` and `onConfirmDeleteProxy` emit after the
`await`. The two `clickConfirm`s and `forceDel` emit nothing. The typed texts
are read only by the guards and the requests, so they are chosen when a
button is clicked, from five group-id texts (`""`, `"1"`, `"01"`, `"2"`,
`"x"`). The confirm dialogs are modal: a click outside one closes it as its
cancel does, so every other button is guarded by `NoDialog`. The proxy card's
`onAddProxy`, `clickHotkeys`, `clickSlowkeys` and log dialog are never bound
to anything it renders, so they are not actions.

### RouteGuards

| Code | Model |
|---|---|
| the route table, matched in declaration order | `Match(p)`; `/about` resolves to `Home` because `/:id` comes first, and `/` matches nothing |
| `loginGuard`, `bitalosproxyGuard` | `Admits`, `Navigate(p)` |
| `user/role`, `bitalosproxy/name`, the `utoken` cookie | `role`, `cluster`, `utoken` |
| `Login.login` (`login$`, `setRole`, `push('/')`) | `LoginClick`, `LoginAnswer(accepted)` |

The login POST goes through rxjs `ajax`, not through the axios adapter, so it
is not composed with `HttpAdapter`. Lazy loading of route components only
delays a navigation that the guards have already admitted, so it is left out.

## Runs

| Run | Expect | What it shows |
|---|---|---|
| `slots` (`MC_SlotRanges.cfg`) | pass | `RangesOrdered`: the runs are disjoint, left to right, with length `to - from + 1`, and neighbours differ in group. `RangesCover`: every admitted slot lies in exactly one run, labelled with its group (Default) or its target (Migrating). |
| `slots_fromgroup` | violation | `FromGroupShown` fails. Two slots migrate to group 2, the first from group 1 and the second from group 3. They form one Migrating run, and its tooltip says `FromGroup: 1` for both. |
| `slots_offline` | violation | `OfflineSlotsShown` fails. The Offline row receives raw slot records without `from` and `length`, so nothing is drawn. |

| `http` (`MC_Controls.cfg`) | pass | On the controls composed with the adapter. `TypeOK` and `LogIsHttpErrors`: the log is exactly the HTTP errors, one record each, newest first, never stamped later than now, for any interleaving of two commands' answers, panel clicks, clock ticks and cookie changes. `ControlsTypeOK`: the control plane and the page only ever hold groups whose id `canAddGroup` let through, over every interleaving of the controls' clicks, dialogs and answers. |
| `http_errors` | violation | `ErrorPropagation` (a sent request that fails, with an error status or with no response, is logged once and rejected to its caller) fails in two steps: a request is sent and answered with an HTTP error. The record is logged, but the handler returns `undefined`, so the caller's promise resolves. |
| `group` | pass | `LoadingClearedWhenIdle`: once no replica toggle is in flight, `loading.index` is -1. `SpinnerRefined`: every behaviour is one that `ReplicaSpinner` allows, so each toggle uses a call of its own, the index moves only to the row of a toggle just sent, and back to -1 only on a waiting toggle's answer or a stopped request. The answers of toggles on the two rows may interleave with refreshes and command clicks in any order. |
| `group_rollback` | violation | `RollbackRestores` fails. The rollback writes `!state`, the attempted value. A click without a token then leaves the checkbox on the new value. |
| `group_checkbox` | violation | `CheckboxMatchesData` fails in three steps: click, refresh, a `fail` answer. The rollback goes to a detached copy, and the checkbox stays wrong for good. |
| `group_update` | violation | `UpdateAfterAnswer` fails. The sync/promote handler emits `update` in the click's own step, before any answer. |
| `pcconfig` | pass | `ParsedWhenSettled`: once the debounce has fired for the current text, `content` and `isParseSuccess` are what that text parses to. This holds after any sequence of row switches, edits, cancels, updates and syncs. |
| `pcconfig_validation` | violation | `NoUnparsableSent` fails. An edit to malformed text followed by a confirm within the debounce window PUTs the malformed text. |
| `routes_guard` | violation | `GuardRequiresToken` fails: log in, the cookie expires, navigate to a cluster. The stored role admits the navigation. |

Each violated property states what `spec.md` says of the program, and each is
listed with its finding in `PROJECT.json`. Each property of a passing run has
a mutant in `PROJECT.json`: a plausible bug in the translated code that TLC
catches under the run's own cfg. The mutants are: a colour index past the
palette, an extended run one slot short, a Migrating slot not re-labelled with
its target, the detail index shifted by one, network errors reaching the
dispatches, `loading.index` reset outside `finally`, content kept on a failed
parse, `canAddGroup` without its `Number` check, and a toggle that sets
`loading.index` only after its `await`.

Bounds of the other runs:

- `http` uses two calls shared by every control, so two commands can be in
  flight together, their answers can come in either order, both can be HTTP
  errors (a log of two records), and a command can race the page's refetch.
  `MaxTime = 1` gives records with distinct and equal times. A third call
  takes the space past fifty million states; the adapter's own properties
  are proved for every number of calls. TLC reaches about 3,000,000 distinct
  states in under three minutes.
- `group` uses one group of two servers, so there are two row indexes and
  the spinner can move between them; rows of other groups share an index
  with these, and add nothing to the spinner's behaviour but states. Three
  calls allow two toggles and a command in flight together. `MaxTime = 0`,
  and the panel is left out of `GNext`, because neither affects the group
  view. TLC reaches 401,360 states.
- `pcconfig` uses one row and one config, so the textarea can hold the
  config's JSON, the JSON of `null` or malformed text. Four calls allow the
  mount's GET, an update, the GET that an `OK` triggers, and the sync that it
  makes available. `MaxLog = 1`. TLC reaches 538,958 states. A second config
  or a fifth call multiplies the space by ten without adding a control path
  that the properties distinguish. Two list GETs in flight together need a
  fifth call, so the reordering of list answers is not reached.

Fairness. No run assumes any, and no run checks a liveness property: a
request may stay pending for ever (spec §6: no timeout layer), nothing
obliges a user to click, and the one timer, the 500 ms debounce of
`PcConfig`, fires only if the user pauses typing.

The bounds of `slots` are 4 slots, groups {0,1,2,3} and 2 colours. Four slots are enough
for a run, a gap and a second run. Three online groups let two slots migrate to
one target from different sources. Two colours let groups 1 and 3 share a
colour. TLC reaches 714,025 distinct states.

## Proofs

`SlotRangesProofs` proves `TypeCorrect` (`Spec => []TypeOK`) and
`RangesCorrect` (`Spec => [](RangesOrdered /\ RangesCover)`). Both hold for
every number of slots, every set of groups and every palette size.

The inductive invariant is `IInv == TypeOK /\ RangesOrdered /\ RangesCover`.
Neither property is inductive alone:

- covering slot `p` by extending the last run needs the runs to be ordered, so
  that no earlier run also covers `p`;
- the new run's type needs `from <= to`.

Each step of the reduce is one call of `formatStep`. The lemmas `AppendStep`,
`ExtendStep` and `SkipStep` show that each of its three outcomes preserves the
invariant for the one row that steps. This avoids induction over the list:
the invariant is carried from step to step.

`OrderedCorrect` (`Spec => []RangesOrdered`) is a corollary.

`HttpAdapterProofs` proves `TypeCorrect` (`Spec => []TypeOK`) and
`LogCorrect` (`Spec => []LogIsHttpErrors`) of `HttpAdapter`, for every set of
calls and every `MaxTime` in `Nat`. The only assumption is
`MaxTimeAssumption`. The inductive invariant is `TypeOK /\ LogIsHttpErrors`,
and neither conjunct is inductive alone:

- the uniqueness of urls after an HTTP error needs the first conjunct of
  `LogIsHttpErrors`: the answering call was pending, so it is not an HTTP
  error, so it has no record yet;
- the order of times needs the last conjunct: every older record is stamped
  no later than `now`, which is the new record's time;
- the arithmetic needs the types from `TypeOK`.

`PushFront` states once what `<<x>> \o s` is (from `ConcatProperties`). The
lemmas `RespondHttp`, `RespondOther`, `RequestKeeps` and `LogUntouched` cover
the actions. The unshifted log is reasoned about index by index, so no
induction over sequences is needed.

`PcConfigProofs` proves `ParseCorrect` (`PSpec => []ParsedWhenSettled`) for
every set of items, contents, texts and calls, from `ContentsAssumption`.
`ParsedWhenSettled` is not inductive. `OpenUpdate` opens a row without
touching `pending`, and the initial draft holds the text of `null` with the
flag still `TRUE`, so a state where the flag and the content disagree is
reachable while the editor is closed. The strengthening `PIInv` pairs a type
invariant `PTypeOK` with `Settled`. `PTypeOK` types the list, the draft and
the requests in flight. `Settled` says: when nothing is pending, the content is
the parse of the text, and either the flag agrees with the content or the
editor is closed on the text of `null`. TLC checked `PIInv` as an invariant
before the proof. One lemma per action (`MountStep`, `ListAnswerStep`,
`UpdateAnswerStep`, `SyncClickStep`, `SyncAnswerStep`, `OpenUpdateStep`,
`EditStep`, `DebounceStep`, `CancelStep`, `ConfirmStep`) shows that it keeps
`PIInv`. `ParseStringify` (parsing a stringified content gives it back) is what
`OpenUpdate` and the update answer rest on.

`GroupViewProofs` proves `LoadingCorrect` (`GSpec => []LoadingClearedWhenIdle`)
for every set of groups, every number of servers and every set of calls. The
inductive invariant is `LIInv == GTypeOK /\ LoadingClearedWhenIdle`. Read
backwards, the property says that while `loading.index` is set some replica
toggle still awaits its answer. That is inductive once the handler records are
typed. A refresh detaches every handler's row with an EXCEPT on `.live`, and
that keeps `.op` only for a record that has the field. `GTypeOK` is not
`ViewTypeOK`. With no groups there is no row, so the unused record `NoReq`
names no row and `ViewTypeOK` fails at the start. `GTypeOK` therefore lets a
record's row be `NoReq.row`, and the proof needs no assumption that the table
has groups. There is one lemma per action:

- `ReplicaClickStep`: the click that sets the index leaves its call pending,
  and a click stopped for lack of a token runs the rollback, which clears it.
- `ReplicaAnswerStep`: the answer clears the index in `finally`.
- `CommandClickStep`: a command takes an idle call, so no pending toggle is
  touched.
- `CommandAnswerStep` and `RefreshStep`: they keep every handler's operation.

`SpinnerRefinement` (`GSpec => SpinnerRefined`) shows that the table implements
`ReplicaSpinner`. The table's initial state maps to `SpinnerInit`. Each step
maps to a spinner step or a stutter (`SpinnerStep`). Beside `LIInv` this needs
`IdleUnused`: a call not yet issued has no handler, so a toggle's call is not
in `issued` yet, as `Show` and `Stop` demand. There is one lemma per kind of
action:

- `ReplicaClickSpin`: a sent click is `Show` of its call and its row's index,
  and a stopped click is `Stop`.
- `ReplicaAnswerSpin`: an answer is `Clear` of its call's pair. The rollback
  keeps every handler, so no other pair changes.
- `CommandSpin` and `RefreshSpin`: these stutter, because they keep every
  call's operation and row and every other call's answer.

`PairsSame` says that pairing a set of calls with their rows gives the same
pairs under two handler maps that agree on those rows. `SpinnerOnWaiting`
(`GSpec => []Spinner!SpinnerOnWaitingRow`) follows: `SpinnerOnWaitingRowInv`
shows the abstract invariant is inductive for `ReplicaSpinner`, and
`SpinnerRefinement` carries it to the table. So whenever a spinner is shown,
a toggle of a row at that index still waits.

`ControlsProofs` proves `ControlsTypeCorrect` (`CSpec => []ControlsTypeOK`)
for every set of calls. The property is not inductive alone. The control
plane adds `Number(id)` of a new group's text, and that is a group only
because `canAddGroup` held when the request went out. So every addGroup
request must carry a group's text (`AddGroupIds`). `PositiveNumber` shows that
the texts with `Number(t) > 0` are exactly the groups' texts.

Two theorems show that the views compose the adapter:

- `ControlsAdapter` (`CSpec => Spec`);
- `GroupAdapter` (`GSpec => Spec`).

Every step of theirs is a `Request`, a `Respond`, a panel or environment
event, or leaves the adapter's variables alone. So the adapter's theorems
carry over. `ControlsTypeCorrectAdapter` and `ControlsLogCorrect` state `TypeOK` and
`LogIsHttpErrors` under `CSpec`, which is the spec the `http` run checks them on. `PcConfig` does not
compose this way, and no theorem claims it does. Its update and sync answers
settle one call and issue `getList` on another in the same step, and its
Confirm writes a client-side record with url `null` to the log.

`RouteGuards` has only a violation run. TLAPS does not reason about liveness
under fairness or about ENABLED, and cannot prove what a recursive definition
computes for every input; the project states no liveness property, and what
`formatList`'s reduce computes over a whole list is carried step by step by
an invariant instead.

## Not modelled

The render of the runs into percentages (`genSlot`, `genScaleX`) is left out.
`left`, computed from an object and never drawn, is also left out.

The charts (`line-chart.ts`, `overview-line-chart.ts`) draw what they are
given. `department.tsx` binds a cluster to a department with one awaited PUT
and reloads the window. The proxy card's `mergedList` and `calcProxyNum` and
the migration table's `listGetter` only reshape data for display; the text
fields' values and the slot form's hint rules (which compare strings and
block nothing) are abstracted away. The API facade
(`api/home.ts` and the others) is one-line wrappers, and any call of the model
stands for one of them. The log modal and `app-modal` only show text.

## Plan for later sittings

- A five-call `PcConfig` instance, to reach two list GETs in flight and state
  that the list shows the configs of the latest answered `getList`.

# A verification project for IO Services CMS

TLA+ models of the program in `src/`, what TLC checks of them on small
instances, and what TLAPS proves of them for every instance. The program is the
CMS of the services of the IO app: public bodies create a *service*, submit it
for review, and see it published; the review is done by operators on Jira; the
result is projected into other stores that the app reads.

Paths below are relative to `src/`. `webapp` is
`apps/io-services-cms-webapp/src`, `models` is
`packages/io-services-cms-models/src`.

## 1. Inventory

### 1.1 How the system is put together

Everything happens in one Azure Functions app (`webapp/main.ts`), of which any
number of instances run at the same time. State lives in Cosmos DB containers,
one PostgreSQL table, Jira, APIM and, for the sister system, the *legacy* Cosmos
container. Functions are started by HTTP requests, by the change feed of a
container, by a storage queue, by an event hub or by a timer. They never call one
another: a handler returns the message that is put in the next queue.

```
 HTTP API --> services-lifecycle --change feed--> watcher
                   ^    ^                          |  |  |  \
                   |    |      request-validation <+  |  |   +-> request-historicization
                   |    +-- validator <--+            |  |            |
                   |          | request-review        |  |        services-history
                   |          v                       |  |            |
    checker (timer)+--- reviewer --> Jira, table      |  |       request-sync-legacy
         |                    ^ operators             |  |            |
         +--------------------+                       |  |        legacy container
                                                      |  |            |
 HTTP API --> services-publication <-- publicator <---+  |       request-sync-cms
                        ^----------- deletor <-----------+       (override of both)
```

| Component | State | Operations | Hard behaviour | What makes it correct |
|---|---|---|---|---|
| **Lifecycle FSM** (`models/service-lifecycle`, `models/lib/fsm/store.cosmos.ts`, the controllers create, edit, delete, review, patch) | `services-lifecycle`: one document per service with a state and an etag | create, edit, submit, abort, approve, reject, delete, override, patch of the group | apply = fetch, then an upsert without precondition; any number at once | what is approved was submitted; a deletion is undone only by what overlapped with it; the group changes only by a patch |
| **Publication FSM** (`models/service-publication`, controllers publish, unpublish) | `services-publication` | publish, unpublish, release, override, delete | release bypasses the transition table; upserts without precondition | nothing is published unless somebody asked |
| **Lifecycle watcher** (`webapp/watchers/on-service-lifecycle-change.ts`) | none; the change feed keeps its place | one message for each changed document, by state | latest version only, at least once | see the pipeline |
| **Publicator, deletor** | queues `request-publication`, `request-deletion` | release, delete | unordered, at least once, poison after 5 deliveries | the publication mirrors the lifecycle once everything has settled |
| **Validator** (`webapp/reviewer/service-validation-handler.ts`) | queue `request-validation` | reject, approve, pass on | works on a message that may be stale | decides only on what was submitted |
| **Reviewer** (`webapp/reviewer/request-review-handler.ts`) | queue `request-review`, Jira, table `service_review` | create, update, reopen a ticket; insert a row; approve | three remote systems, each call can fail alone; redelivery | a submitted service is tracked; a ticket has a row |
| **Review checker** (`webapp/reviewer/review-checker-handler.ts`) | the same table | timer: pending rows, decided tickets, verdict, update | verdict by service id; failures ignored; pairs built by a Map | verdicts only on reviewed contents; every review ends |
| **Historicizer** (`webapp/historicizer`) | `services-history`, keyed by `modified_at` | upsert | two changes with one `modified_at`; redelivery | the current documents are in the history, unless their times collide |
| **Legacy synchronisation** (`webapp/synchronizer`, watchers of history and of legacy services) | the legacy container | two directions, `override` | loops, overrides of a submission, half-done overrides | no echo; a legacy change does not destroy a review |
| **Legacy review** (`webapp/reviewer/*legacy*`) | table `service_review_legacy` | override to submitted, verdict by override | no FSM guard but `deleted`; a ticket that cannot be decoded stops the batch | a deleted service stays deleted; a verdict reaches its service |
| **Service detail** (`webapp/detailRequestor`) | `services-details` | publish or draft version shown | check, then a later write; two feeds | a published detail is not replaced by a draft |
| **Self-care groups** (`webapp/utils/selfcare-group-change`) | APIM subscriptions, `group_id` of services | create, sync, unbind; keys made and deleted by administrators | events seen twice or put aside; bulk patch that half fails; services patched and keys made meanwhile | keys have the name and state of their group; a deleted group is bound to nothing |
| **Ingestion** (`webapp/ingestion`, `utils/ingestion`) | event hub, retry queues | produce, retry | duplicates, order | every change is produced at least once |
| **Backoffice API-keys export** (`apps/backoffice/src/lib/be/subscriptions/business.ts`) | blobs with a state | start, finalize, fail | check then start, detached task, stopped instance | the last export asked for is the one downloaded, and complete; it can be tried again |
| **Page of the keys of groups** (`apps/backoffice/src/components/api-keys/api-keys-groups`, `hooks/use-fetch.ts`) | a copy of the list, the secrets and the addresses | load more, open a row, regenerate, edit, delete | calls overlap; an answer is applied to whatever is shown when it arrives | the rows are those of the server, the keys shown work |
| **Clients** (`packages/external-clients`, `packages/fetch-utils`) | none | calls with retries | backoff, timeouts | bounded number of attempts |
| Rest of the backoffice, app-backend, services-app | what their pages show | read, forward | - | - |

### 1.2 Facts about the platform the models rely on

* `store.save` (`models/lib/fsm/store.cosmos.ts:162-195`) drops the version it
  read and calls `upsert` with no `ifMatch`: the last writer wins. `patch` and
  `bulkPatch` are single operations of the database.
* The change feed shows the latest version of a changed document, each at least
  once; versions between two reads are never seen.
* A storage queue is not ordered and delivers at least once. `host.json` sets
  `maxDequeueCount` 5; after that the message is in the poison queue, which
  nobody reads (but for self-care groups).
* The review checkers are timer functions, of which the host runs one at a time.
* The events of self-care groups come from an event hub: one at a time for each
  partition, in order, with the retry policy of `main.ts`; a new instance starts
  again from the last checkpoint.
* The events of the ingestion are produced without a partition key, so nothing
  keeps the events of a service in one partition: the models speak of the order
  in which they arrive.
* An export of keys is a blob with a state in its metadata, and an expiry; the
  task that fills it is not awaited by the request that starts it.
* Any call may fail, and any instance may stop between two calls.

## 2. Plan

Order: the parts that decide what citizens see come first.

1. `ServiceLifecycle` (with `LifecycleDiagram`, the abstract diagram of the
   models' README, and `ServiceLifecycle_proofs`): **done**, proved.
2. `ServicePublication`: **done**, proved (in `ServicePipeline_proofs`).
3. `ServicePipeline`, which composes 1 and 2 with the watcher, the queues and the
   publish/unpublish controllers: **done**, its safety invariants proved.
4. `ServiceReview`, which composes 1 with the validator, the reviewer, Jira, the
   table and the checker: **done**, its safety invariants proved.
5. `LegacySync`: the history and both directions of the synchronisation, with
   `override`. What it promises is stated as an agreement of two replicas when
   everything has settled: **done**, its safety invariants proved.
6. `ServiceDetail` and `Ingestion`, the two projections of the publication
   container, and `ServiceProjections`, which composes them: **done**, its safety
   invariants proved.
7. `GroupSync`: group events, their retries and poison queue, the keys of the
   groups, the services bound to them: **done**, its safety properties proved.
8. `ApiKeysExport`: the exports of the backoffice: **done**, its safety properties
   proved.
9. `LegacyReview`: the review of services that came from the legacy system:
   **done**, its safety invariants proved.
10. `GroupKeysPage`: the page of the keys of the groups and the operations it
    calls: **done**, its invariants proved.
11. Proofs of what 3-10 promise, but for liveness: **done** (section 5).
12. The activations, the topics timer and the retries of `retries.ts` and
    `fetch.ts` as functions, against a reference.

The modules share no state but through instances: `ServicePipeline` and
`ServiceReview` instantiate `ServiceLifecycle`, so that the read and the write of a
request are apart there; `LegacySync` and `LegacyReview` are about `override`,
which has no transition table, and take a request of the state machine as one
step. All modules keep their recursion (if any) in functions, so that they can
be proved about.

## 3. The models

A step of a model is what the code does between two waits: a read of a store
with everything computed from it, or one write. So `apply` of the FSM is two
actions, `apply` (fetch, match, compute) and `Save` (`saveItem`), and anything
may happen between them.

### 3.1 `ServiceLifecycle`

| State | In the code |
|---|---|
| `lifecycle[s]` | the document of `s`: content (`data`, `group_id`, `autoPublish`), `fsm.state`, `_etag` (`version`) |
| `etag` | source of etags; here a counter, so that versions are ordered |
| `calls[c]` | local variables of request `c` between its fetch and its upsert |
| `versions` | history variable: all that was ever stored |

| Action | In the code |
|---|---|
| `Create`, `Edit`, `Submit`, `Delete` | the controllers: owner, groups of the caller (`authorize`), `FSM.transitions`, `exec` |
| `Approve`, `Reject` | `getFsmClient()` without groups, called by the review |
| `Save`, `SaveError` | `saveItem` -> `store.save`; a failure or a stopped instance |
| `Patch` | `store.patch` (patch controller) and every document of `bulkPatch` |

`FSM` is the transition table, without `abort`, which is there but which nothing
calls (it is kept in the table, no action uses it), and without `override`, which only
the legacy system uses (3.5, 3.9). The metadata that a transition adds (`reason`, `approvalDate`,
`lastTransition`) and `modified_at` are left out, as is the trim of the name;
contents are model values.

`LifecycleDiagram` is the abstract specification: one status per service. A request
is taken up along an arrow of the README's diagram that leaves the status of the
moment (`Ask`), and when it is answered the service takes the status at the end of
that arrow, wherever it is by then (`Answer`), or nothing happens (`GiveUp`).
`ServiceLifecycle!FollowsDiagram` is the refinement, with `status <- Status` and
`asked <- Asked`. It holds for requests that overlap in any way. That the status
itself moves along the arrows would hold for one request at a time only: the upsert
has no precondition, so an edit that fetched before a deletion and saves after it
brings the service back. `DeletionSettles` says how far that goes: once a service is
deleted and no request that read it before is still to be saved, it stays deleted,
and no request on it is taken up any more.

### 3.2 `ServicePublication`

`publication` is the container, `pending` the local variables of a call between
its fetch and its upsert. `Publish` and `Unpublish` go through `FSM`; the
transitions of the table that no code can reach are left out (`publish` from
nothing needs a content that no caller passes, `release` has its own function).
`release` reads only the state, for `lastTransition`, which is left out, so its
first step only fixes what it will save. With `publish = false` it saves `unpublished` also over a published service, where the diagram of the
models' README draws `published --> published: release`. The models follow the
function. `released` and `asked`
remember who wanted what.

### 3.3 `ServicePipeline`

Instances of 3.1 and 3.2 plus: `changed` (documents with a change the watcher has
not handled; the feed coalesces, so a set), the two queues with the
`dequeueCount` of each message, `leased` (the message a worker is handling),
`checked` (what a publish/unpublish controller found before it acts),
`abandoned` (services of which a change or a message was given up).

`Watch(s, checkpoint)` is `getSpecificAction` on the latest version of `s`;
without `checkpoint` the same version comes again. `StartRelease`/`EndRelease`/
`FailRelease` are `handleQueueItem` of the publicator: a failure, or an instance
that stops after the save and before the message is deleted, puts the message
back. `HandleDeletion`/`FailDeletion` are the deletor. `Check`, `Act`, `EndAct`
are the publish and unpublish controllers, which look at the lifecycle first.

The history variable `hasty` remembers that somebody started an approval, a
deletion, a publish or an unpublish before all had `Settled`, or patched the group of
an approved or deleted service then. A patch decides nothing for the person who makes
it, but the watcher takes the patched document for one more approval or deletion
(`service-lifecycle` has no other mark of what changed): if a patch and a deletion
overlap, the publication that the patch requests may be handled after the deletion
and bring the deleted service back. `SettledAgrees` is
promised only if nobody did, and `PatientSpec` is the system with such users: an
assumption about people, stated to separate what the code guarantees from what it
leaves to timing.

### 3.4 `ServiceReview`

An instance of 3.1 whose clients are the owners, the validators, the reviewers
and the verdicts of the checker, plus the queues, `tickets` (Jira), `rows` (the
`service_review` table), `checker` (one run of the timer: rows read, then a set
of verdicts being applied in parallel, each a sequence apply, save, update).

| Action | In the code |
|---|---|
| `Watch` | `onSubmitHandler`: the etag is the version of the message |
| `PassOn`, `Validate`, `ValidateTooLate`, `EndValidation` | `createServiceValidationHandler`: what it finds in the content is a choice, but only a service that was approved can be approved again without a review |
| `SearchTicket`, `CreateTicket`, `UpdateTicket`, `ReopenTicket`, `InsertRow` | `sendServiceToReview`, one step for each remote call |
| `AutoApprove`, `AutoApproveTooLate`, `EndAutoApprove` | `approveService`, for users in the inclusion list (`trusted`, any set of services, as it is a setting) |
| `FailReview` | any of these calls fails, or the instance stops |
| `Decide` | an operator; the description the ticket has at that moment is what he saw |
| `ReadPending`, `SearchDecided`, `FailSearch`, `ApplyVerdict`, `SaveVerdict`, `UpdateStatus` | `executeOnPending`, `buildIssueItemPairs` (one row for each ticket: the Map), `updateReview` |

Faults are counted and bounded by `MaxFault` for each service; `lost` holds the services of the
messages given up after `maxDequeueCount` deliveries. A message and a ticket carry
the version of the document they were made from, which stands for its content.

### 3.5 `LegacySync`

| State | In the code |
|---|---|
| `lifecycle`, `publication`, `history` | the three containers; `modified_at` is kept, as it is the key of a history document |
| `legacy[s]` | the versions of a legacy service, newest last (a document for each) |
| `feed`, `queue` | changes not watched yet, messages not handled yet, for each container and queue |
| `overriding` | messages of which the lifecycle item is saved and the publication item is not |
| `clock` | milliseconds; `Tick` says how far apart two changes are. The versions of the legacy system carry seconds (`_ts`, `unixSeconds`), which `calculateModifiedAt` turns into milliseconds again: two legacy changes within a second have the same time |
| `stored`, `hasty` | history variables |

| Action | In the code |
|---|---|
| `ChangeLifecycle`, `ChangePublication`, `ChangeLegacy` | people of both systems, along the arrows of the diagram |
| `WatchLifecycle`, `WatchPublication` | the watchers: `lastTransition` "sync from Legacy" stops everything but a deletion and the history |
| `Release`, `Delete` | publicator and deletor, here one step each |
| `Historicize` | `toServiceHistory` and the output binding, an upsert by `modified_at` |
| `WatchHistory`, `SyncLegacy` | `shouldServiceBeSynced`, `cmsToLegacy`, a new version with `cmsTag` |
| `WatchLegacy` | `getLegacyToCmsStatus`, `serviceWasPublished` (the version before), `calculateModifiedAt` |
| `OverrideLifecycle`, `OverridePublication`, `FailOverride` | the two halves of `request-sync-cms-handler.ts` |

A content is the number of the change that brought it, so that the properties can
tell where each text comes from. Initial states are a service nobody has made yet,
one under review and one that is published and settled.

### 3.6 `ServiceDetail`, `Ingestion`, `ServiceProjections`

`ServiceDetail` has the two containers (documents numbered as they are written),
the changes not watched, the queue, what each handler has read and decided
(`handling`), and `detail`. `StartDetail` is the query of
`shouldUpsertServiceDetails`; `EndDetail` is the output binding, which the platform
runs after the handler has returned, so others may come in between.

`Ingestion` has the documents with an unhandled change, the retry queue and
`topic`. `Ingest(batch)` is a batch sent as a whole; `IngestionError` puts all its
documents in the retry queue; `SkipBatch` is the exception on a document that does
not decode, after which the feed goes on. It is instantiated for the publication
container; the other two containers are ingested by the same functions.

`ServiceProjections` composes both over one publication container, each with its
own lease: `fresh` and `changed` move apart.

### 3.7 `GroupSync`

| State | In the code |
|---|---|
| `group`, `topic` | self-care, and its events |
| `next`, `checkpoint`, `step`, `todo`, `page` | the watcher: event, where it would start again, next call, services not returned yet by the query, page being patched |
| `user`, `subscription` | the APIM user of the institution and the manage subscription of each group |
| `asking` | what an administrator who makes a key has read of its group |
| `binding`, `transition` | `group_id` of each service; the group that a transition in flight has read |
| `behind` | groups whose last event was put aside, or whose key was made when no event was to come |

Each action is one call: `GetOrCreateUser`, `CreateGroupUsers`,
`CreateSubscription` (`create-manage-group-subscription.ts`), `SyncSubscription`
(`sync-subscription.ts`), `FetchPage`, `PatchPage`, `PatchNothing`, `FailPatches`
(`sync-services.ts` and `bulkPatch`). `Retry` starts again from the first task, as
the function does; `PutAside` is the poison queue; `Restart` goes back to the
checkpoint. `Bind`, `BeginTransition`, `EndTransition` are what people do to the
services meanwhile. `GetGroup`, `UpsertKey` and `DeleteKey` are the
administrators in the backoffice, who may make and delete the keys of groups that
are not of an aggregate (`Ordinary`): a key is written as active and with the name
that was read, whatever has become of the group.

### 3.8 `ApiKeysExport`

| State | In the code |
|---|---|
| `delegated`, `groups` | self-care: the institutions the aggregator manages and their groups, in the order of the pages |
| `files` | the blobs: state, seconds since `lastModified`, the groups whose keys are in it |
| `task` | requests in flight and the tasks they leave behind: next step, file, and what was read so far |
| `offered` | the file of the last download link |

| Action | In the code |
|---|---|
| `Request`, `InitializeFile` | `generateApiKeysExports`: `findExportsFiles`, which skips what has expired, and the empty file in progress |
| `RetrieveAggregatorGroups` | one turn of the loop of `retrieveAggregatorGroups`: one page |
| `RetrieveAggregates` | one turn of the loop of `retrieveAggregates`: one page, each delegation looked up in the map as it comes; after the last, the comparison of the two counters |
| `FinalizeFile`, `MarkFileAsFailed`, `FailTask`, `Stop` | the upload, the `catch`, an error of any call, the end of the instance |
| `Download` | `generateApiKeysExportsDownloadLink` |

Groups and delegations come and go between any two steps (`Change`), also between two
pages of one list, anywhere in its order. A page is asked for by its number, so it
starts where the pages before would end in the list as it is now (`PageAfter`, with
`GroupPage` and `DelegationPage` for 2000 and 10000): when an entry of a page that was
read goes, the next page skips one; when one comes before it, the next page repeats
one. `shifted` remembers the files of which the pages moved that way. The clock moves
so that files expire.

### 3.9 `LegacyReview`

`queue` holds the tickets to be reviewed, `handling` what each handler has fetched
and its next step, `rows` the table `service_review_legacy`, `checker` the run of the
timer: rows read, then one pair of row and verdict for each decided ticket, each
with its own next step. `FetchService`, `SetToSubmitted`, `InsertRow` are
`request-review-legacy-handler.ts`; `ReadPending`, `SearchDecided`, `FetchReviewed`,
`OverrideVerdict`, `UpdateStatus` are `review-legacy-checker-handler.ts`. A ticket in
the status `DONE` is found and cannot be decoded (`Decodable`).

### 3.10 `GroupKeysPage`

| State | In the code |
|---|---|
| `subscriptions`, `keys`, `cidrs` | API manager and the list of addresses; a secret and a list are the number of times they were changed |
| `rows`, `offset`, `loaded` | `apiKeys`, `pagination`, `mspData` of `api-keys-groups.tsx` |
| `calls` | the calls in flight, each with its next step and what its answer carries |
| `crashed` | an effect threw while rendering; no part of the app catches it |

`LoadMore`, `Expand`, `RegenerateKey`, `UpdateCidrs`, `Delete` are the handlers of the
page up to their first wait. `ValidateOwnership` and the actions after it are the
functions of `subscriptions/business.ts`, which ask who owns the subscription and
then do one thing more; a regeneration is done first and reads the keys next.
`Fail` is an error before or after the server has done its part (but not one that is
answered while the server is still at work). The actions that end
in *Arrive* or *Arrives* are what follows each wait and the effects of the data
of `useFetch`, which drops the data of the call before when a call starts and
takes the answers in the order they come. `updateApiKey` merges new values into a
row, and makes the row if it is not there; the two effects that call it look at the
row first, and throw without it (`Show`).

The rows of other states than active, dialogs and notifications are left out. One
page of one administrator: what somebody else changes is seen when the rows are
read again.

The definitions marked *Wrong on purpose* in the modules are variants with a
plausible mistake. No specification uses them; put in the place of the definition
they follow, each of them breaks a property, which shows that the property
notices.

## 4. What TLC checks

| Run | Shows |
|---|---|
| `LifecycleOverlap` | with two requests at once: the store refines the diagram (`FollowsDiagram`); action property `DeletionSettles`: a deletion is final once no earlier request is still to be saved |
| `PipelineRequests` | `PublishedWasSubmitted`, end to end, with redelivery, reordering and loss; `SettledAgrees` when nobody was hasty; liveness: deletions and approvals reach the publication |
| `PipelineResurrection` (counterexample) | a release handled after the deletion of its service publishes it for good |
| `PipelineRepublish` (counterexample) | after an unpublish, a patch of the group publishes the service again |
| `ReviewFaults` | `SubmittedIsTracked`, `ApprovedWasSubmitted`, with any two faults; action property `DecidedWasReviewed`: as long as no step about the service failed, verdicts only on the version that somebody saw; liveness: every submission is decided, by operators or automatically |
| `ReviewTicketReference` (counterexample) | a request delivered again after the approval opens a ticket no row refers to |
| `LegacySync` | `NoEcho`: no change goes round the circle; `HistoryHoldsLatest`; `SettledAgrees`: both systems show the same; liveness: a legacy change reaches both containers although an override fails half-way |
| `ServiceProjections` | `PublicationIsShown`: the app never settles on a draft of a published service; `LatestIsIngested`: no document is forgotten; `ProjectionsAgree`: app and data lake settle on the same version; liveness: a publication arrives |
| `GroupSync` | `KeysFollowGroups`, `DeletedGroupHasNoService`, `ChoiceStands`; action property: what is cancelled stays so; liveness: a revocation arrives |
| `ApiKeysExport` | `NoGroupLeftOut`, with changes between two pages; action property: the link is the one of the last request; liveness: a stopped export locks nobody out |
| `LegacyReview` | `SubmittedIsTracked`, `DeletedStaysDeleted` with overlap, redelivery and two faults; liveness: verdicts arrive |
| `GroupKeysPage` | `ListAgrees`: the rows and the page button are those of the server once all is answered, also after a deletion that seemed to fail; `KeysShownAreCurrent`: the secrets and addresses that are shown are those of the server |

**What the properties excuse.** Where the code leaves a window open, a history
variable names the window, the property holds outside of it, and the variable is
false in most behaviours. A service is in it when:

| Variable | Window | Excused in |
|---|---|---|
| `hasty` | somebody decided, or patched the group of a service that was decided on, before everything had settled | `SettledAgrees`, `PublicationIsShown` (latest version), `ProjectionsAgree` |
| `Together` (`LegacySync`, not a history variable) | the CMS wrote a lifecycle and a publication of the service in the same millisecond, as an approval without autoPublish and its release: they have one key in the history, and the approval may take the place of the publication before that is watched. It is not synchronised, and the legacy system goes on showing the service. With `Tick` = {1} it does not happen, so the run excuses nothing by it | `SettledAgrees` of `LegacySync` |
| `overlapped` | two handlers of `request-detail` worked on the service at once: the one that found nothing may write last | `PublicationIsShown`, `ProjectionsAgree` |
| `crossed` | the service was written between the read and the write of somebody else | `DeletedGroupHasNoService`, `ChoiceStands`, `DeletedStaysDeleted` |
| `rebound` | people bound the service to a group that was already deleted: nothing checks it | `DeletedGroupHasNoService` |
| `behind` | the last event of the group was put aside, and nothing reads that queue; or an administrator made the key when no event of the group was to come | `KeysFollowGroups`, `RevocationArrives` |
| no step about the service failed, `Orderly` (not history variables) | after a fault or an overtaken save an old row or ticket may decide a later submission (below) | `DecidedWasReviewed` |
| `shifted` (`ApiKeysExport`) | an entry of a page that was read went, or another came before it, while that list was being read: the pages still to come moved (below) | `NoGroupLeftOut` |
| `together` (`ApiKeysExport`) | two requests looked at the export files together | `LinkIsOfLastRequest` |
| `outlived` | a task was still at work when its file expired | the same |
| `crossed` (`GroupKeysPage`) | other calls were in flight when a deletion reset the rows: their answers bring rows back, or crash the page | `ListAgrees` |
| `raced` | the subscription was changed while an answer with the old value was on its way | `KeysShownAreCurrent` |
| `unanswered` | the subscription was changed by a call whose answer was an error | `KeysShownAreCurrent` |
| `Jammed` (not a history variable) | a ticket in the status `DONE` holds up every batch it is in | `VerdictArrives` |
| `retried`, `skipped`, `lost`, `abandoned` | the message was retried out of order, or given up | everything that must arrive |

**Limits of `DecidedWasReviewed`.** It speaks, for each service, of the steps before
the first fault of a step about that service, and while its versions are `Orderly`:
nothing but a verdict was written over a submitted version, and a verdict over
nothing else. It does not hold otherwise. A row can stay `PENDING` after its ticket
was applied: `updateStatus` fails and nothing tries it again but the next run, by
which time the owner may have submitted something else; the old verdict is then
applied to the new content. A patch of the group of a submitted service makes a second
row for the same ticket, with the same effect, and so does a submission that is
saved over one which is being reviewed. All of that leaves a trace in `faults` or in
`versions`, so the property needs no assumption about owners: it excuses the services
where it happened, and those only. No document of the repository says otherwise in
words that could be checked, so it is noted here and under the hazards, not as a
finding. Without faults it holds too with two reviewers
and eight versions (17 thousand states), with two services and four versions (79
thousand), and with a group, two reviewers and four versions (1.4 million); these are
not runs. The theorem about it (5.4) needs no bound.

**Limits of `NoGroupLeftOut`.** Suppose an aggregator has more groups than one page
holds, one more than delegations, because one institution has two of them, both beyond
the first page or at its edge. After the first page was read, one of its groups goes:
the second page now starts one further on, and a group of that institution is skipped
although it was there all the time. The groups that were read are then as many as the
delegations, every institution has a group in the map, and the export is done without
the skipped one. TLC finds this behaviour in the run when `shifted` is not excused.
Delegations move in the same way, and one that is skipped is missing from the export
unless the counters differ. The code relies on the counters (`business.ts:576`) and on
retrieving "all delegations" (`business.ts:698`), which notices most of these changes,
but not this one.

### 4.1 Bounds

| Bound | Meaning | Why it is enough |
|---|---|---|
| `MaxVersion` | owners start no request once that many versions are stored (the review still writes) | 4 lets a service be created, submitted, decided and then edited, deleted, unbound or, after a rejection, submitted again; 5 and more add a second submission after an approval |
| `Client`, `Request`, `Worker`, `Caller` | requests in flight | two are enough for any read-write-write-read race on one document; a third is used for the publication |
| `ServiceId` | two services where the run asks whether they disturb one another, one elsewhere: no code path reads a service to write another | |
| `Data` | two contents: the one that was reviewed and another | |
| `MaxDequeue` = 2 | deliveries of a message; the code has 5. Two are the first delivery and a retry, and the one after which it is given up | |
| `MaxTicket` | Jira tickets. `ReviewFaults` would fail if a run ever needed one more, since then a reviewer waits for ever | |
| `MaxFault` | lost calls and stops of an instance (in `ServiceReview`, for each service): two reach every combination of one failure and the failure of its retry | |
| `MaxVersion` = 5, two `Client`, one service (`LifecycleOverlap`) | a deletion and one more write over it by the other client, from any state the service can have by then. With two services, two contents and three versions the properties hold as well (307 thousand states) | |
| `Group` = {g1}, one `Client`, `Worker` and `Caller`, `MaxVersion` = 4 (`PipelineRequests`) | the group is there for its patch, which makes a version of its own; the race of a read and a write is between the client, the worker and the caller (327,741 states, about three minutes) | |
| `Second` = 3 (`LegacySync`) | a second of three milliseconds: two changes fall in one second or in two | |
| `MaxChange` = 2, `Tick` = {1} (`LegacySync`) | changes people make, after initial states that already hold a submission or a publication: one change of each system, or two of the same. With `Tick` = {0, 1} (two changes in one millisecond) the safety properties hold as well (6.5 million states, not a run of the project); with three changes, `SettledAgrees` would fail there without `Together` | |
| `MaxWrite` = 2, `MaxFault` = `MaxBreak` = 2 (`ServiceProjections`) | two versions of a service or one of each of two, two faults of each projection. With one service and three versions the properties hold as well | |
| `MaxEvent` = 3, `MaxEdit` = 1, `MaxFault` = 1 (`GroupSync`) | a creation, a change and a deletion, or two groups; without administrators the properties hold with two faults as well (2.0 million states) | |
| `MaxFile` = 2, `Duration` = 2 (`ApiKeysExport`) | two exports and an expiry between them | |
| `GroupPage` = `DelegationPage` = 1, `MaxChange` = 1 (`ApiKeysExport`) | lists of up to three pages, which one change moves or leaves alone; the starts are no institution at all, two with a group each, and two of which one has a second group. With one task and one file, three changes and pages of two hold as well (466 thousand states), and so do two changes and pages of one (128 thousand) | |
| `MaxAct` = 4, `MaxFault` = 1, three `Call`, `Limit` = 2 (`GroupKeysPage`) | three subscriptions are a full page and a last one; four clicks load the second page, open a row, change it and delete, with three of the calls at once. Five clicks hold as well (5.2 million states, too long for a run) | |
| `MaxRow` = 4, `MaxTicket` = 2 (`LegacyReview`) | two tickets, each with the row of its first delivery and of a repeated one | |

Deadlock is not checked where `MaxVersion` stops the owners, since then the
system does stop. Symmetry is used for safety only, on the values the
specifications never tell apart.

### 4.2 Fairness

`ServicePipeline!Fairness`: a change is eventually checkpointed (`Watch(s, TRUE)`:
the change feed trigger runs as long as the app does), a message that waits is
eventually delivered, a worker eventually saves and deletes its message, unless
its message is given up. No fairness on owners and operators of the pipeline.

`ServiceReview!Fairness`: the watcher, the validators, the reviewers and the timer
go on (the platform runs them as long as there is work), and operators decide
every open ticket, which is the one assumption about people. Failures are bounded
by `MaxFault`, as a system in which every call fails for ever makes no progress.
A message that is given up is excused (`lost`, `abandoned`): nothing reads the
poison queues.

`LegacySync`: watchers and handlers go on; a message may be given up (`lost`).

`ServiceDetail`, `Ingestion`: each watcher, each handler and the retry queue go on,
whichever of its steps it takes: `EndDetail` and `FailDetail` are one fairness
condition, and only the bound on faults makes a handler succeed in the end.

`GroupSync`: the platform hands the next event, or the same one again, to the
watcher (`WF_vars(Tasks)`); no fairness on failures, self-care or people.

`ApiKeysExport`: time passes, and a task goes on unless its instance stops. Neither
users nor institutions have to do anything.

`LegacyReview`: messages are delivered and the timer goes off; operators decide if
they like, and `VerdictArrives` speaks of the tickets they decided.

`GroupKeysPage` promises nothing about time: it has no fairness.

## 5. What is proved

Every theorem below holds for any sets of services, handlers, workers, clients and
groups and for any value of the bounds (`MaxVersion`, `MaxFault`, ...), so also
without a practical bound. The assumptions are those the modules state, each
extended by a module that TLC runs, which evaluates them:

| Assumption | Says |
|---|---|
| `BoundAssumption` | the bounds are natural numbers |
| `TickAssumption` (`LegacySync`) | the time between two changes is a natural number of milliseconds, and a second has at least one |
| `MarkerAssumption`, `NoItemAssumption`, `NoKeyAssumption` | `NoItem`, `Idle` and `NoKey` are not documents, messages, calls, states or keys |
| `GroupAssumption` | `NoGroup` is not a group; in `GroupSync`, there is a group and a name |
| `DequeueAssumption` | a message is delivered at least once |
| `ClientAssumption` (`ServiceReview`) | owner, validators, reviewers and tickets are different clients of the store |
| `RequestAssumption` (`ServicePipeline`) | workers and callers are different clients of the publication store |
| `DurationAssumption`, `AggregateAssumption`, `PageAssumption`, `ChangeAssumption` (`ApiKeysExport`) | a file lasts a second at least; the institutions are finitely many; a page holds one entry at least; the bounds are natural numbers |
| `ListedAssumption`, `LimitAssumption`, `CallAssumption` (`GroupKeysPage`) | the ids of the list are distinct; a page holds one at least; the calls in flight are finitely many |

No theorem has a hypothesis of its own: what a property excuses is in the property
(section 4).

An invariant that the runs check is in general not inductive. For each, the
strengthening was checked by TLC on the bounds of section 4 before it was proved,
step by step, with a lemma for each action or for each group of actions that does
not touch what the invariant speaks of.

### 5.1 `ServiceLifecycle_proofs`

* `TypeCorrect`: `Spec => []TypeOK`.
* `ApprovalCorrect`: `Spec => []ApprovedWasSubmitted`. The property says nothing of a
  request that has read a submitted document and not saved yet. `IInv` adds that the
  current document of a service is in the history (`Stored`), that no version is in
  the future (`Dated`), and that every approval in flight already has a submitted
  version with its content and flag (`Backed`). Then `Save` of an approval finds its
  submission in the history whatever was written since the read.
* `FollowsDiagramCorrect`: `Spec` implements `LifecycleDiagram!Spec`, for any number of
  clients. A request that is taken up reads the state from which its transition starts
  (`Ask`), and what it stores is what it asked for (`Answer`); a call that ends leaves the
  states that the others ask for (`AskedSettles`).
* `DeletionSettlesCorrect`: the action property `DeletionSettles`, from the refinement: no
  arrow leaves `deleted`, so `Ask` is impossible there, and with nothing asked there is
  nothing to answer.

### 5.2 `ServicePublication`, in `ServicePipeline_proofs`

* `PublicationCorrect`: `P!Spec => []P!PublishedOnRequest`, for the instance `P` of
  the store in the pipeline. Not inductive either: a
  `publish` makes public a document that was saved as unpublished, and a save
  writes what a call computed earlier. `PublicationInv` says that every stored document
  and every document about to be saved is `Justified` by a release and, if it is
  published, by the flag of that release or by the owner. What is justified stays
  so (`JustifiedStays`), as the histories only grow; each step then has to justify
  only the document it adds.

### 5.3 `ServicePipeline_proofs`

It instantiates the two stores with the variables of the pipeline.

* `ImplementsLifecycle`, `ImplementsPublication`: every step of the pipeline is a
  step of each store's specification or leaves its variables alone, so that what was
  proved there holds here and is not proved again.
* `PublishedCorrect`: `Spec => []PublishedWasSubmitted`. The invariants of both
  instances and one of the pipeline: what a message, a lease or `released` carries
  is the content of an approved version (`Approved`), whatever was delivered
  meanwhile. So a published content was released, what was released was approved,
  and what was approved was submitted before: the chain goes through three
  components and any number of redeliveries.
* `SettledCorrect`: `Spec => []SettledAgrees`. The property says nothing of what is
  under way. `MirrorInv` says of every state, unless somebody was hasty, that there is
  one decision at a time (`OneAtATime`: waiting for everything to settle keeps
  approvals, deletions and the owner's requests apart), that a message is about a
  service that is not deleted and about its approved content (`Messages`), that
  what is about to be saved is the content of the message or the content that is there
  (`Leases`, `Callers`), and that a decision is in the publication container or on its
  way (`Mirrors`). The proof did not go through with an earlier `hasty` that did not
  count patches (3.3): a patch of the group of a service that is being deleted breaks
  `OneAtATime`, and TLC then found the deleted service published again.
* `TypeCorrect`.

### 5.4 `ServiceReview_proofs`

* `ImplementsLifecycle` and, through it, `ApprovalCorrect`
  (`ApprovedWasSubmitted`).
* `TrackedCorrect`: `Spec => []SubmittedIsTracked`. `IInv` is the conjunction of
  `Shape` (types, and that the hands, the rows and the work of the timer refer to
  tickets that exist), `Dated` (nothing is about a version that was not stored yet),
  `Verdicts` (the calls of the validators, reviewers and of the timer are about what
  they hold), `Undecided` (a row is closed only when its version is not under review
  any more) and `Tracked`: the version under review is waiting for the watcher, in a
  queue, with a handler, or in a pending row, or its message was given up. The
  etag is what makes it inductive: a row that is closed is about a version, and a
  later submission has another one.
* `DecidedCorrect`: the action property `DecidedWasReviewed`. `DecidedInv` adds to
  `IInv` that the container holds the last version of each service (`Latest`), what the
  hands and the timer ask for whatever went wrong (`Common`), and, for each service that
  is `Steady` (no fault, orderly versions), `Sound`. Its heart is `Alone`: the version
  under review is in at most one place (`Holders`), which is the watcher, one of the
  queues, a validator, a reviewer or a pending row. A ticket or an approval that a
  reviewer or the timer holds is about that version (`Ticketed`), and so is what the
  timer read (`Checked`). Each step passes the version from one holder to the next
  (`PassedOn`) or decides it, and then nobody has it (`WriteSound`): a second verdict, an
  old one or one on other content would need a second holder. That an owner does not
  interfere is not assumed: a request that is saved over another one, or a patch under
  review, makes the versions disorderly (`WritesOrderly`). Faults are counted for each
  service, so that what fails for one says nothing of the others.
* `TypeCorrect`.

### 5.5 `LegacyReview_proofs`

* `TrackedCorrect`: `Spec => []SubmittedIsTracked`, from `Shape`, `Numbered` (the
  versions of the rows are distinct), `Read` (the timer holds rows of the table, each
  once) and `Tracked`, which counts the rows that the timer is about to close as
  closed: the service that they are about is not submitted any more.
* `DeletedCorrect`: `Spec => []DeletedStaysDeleted`, with `Undisturbed`: an override
  on its way is not one of a service that was deleted, unless it was `crossed`.
* `TypeCorrect`.

### 5.6 `ServiceProjections_proofs`

* `ShownCorrect`: `Spec => []PublicationIsShown`. The property speaks of settled
  states only. `Showing` says of every state that two handlers on one service are
  remembered in `overlapped` (`Alone`), that what a handler decided when it looked is
  still right when it writes, if it is alone (`Decided`), that a publication is in the
  details or on its way to them (`OnItsWay`), and that what is on its way is the
  latest one, if each publication waited for the one before (`Current`). `Decided`
  is the claim about the gap between the look and the output binding.
* `IngestedCorrect`: `Spec => []LatestIsIngested`, with `Ingested`: the last version
  of a document is fresh, in the retry queue, or in the event hub.
* `AgreeCorrect`: `Spec => []ProjectionsAgree`, with `Ordered` (outside of the retry
  queue the last version comes last) and `Showing`.
* `TypeCorrect`.

### 5.7 `GroupSync_proofs`

* `ChoiceCorrect`: `Spec => []ChoiceStands`. `Announced` relates the groups to the
  last of their events (nothing follows a deletion), `Begun` the next call of the
  watcher to the event at hand, `There` the services to groups that exist, and
  `Chosen` says that the page at hand holds services of the deleted group, so that no
  patch takes a service out of another one unless somebody crossed it.
* `UnboundCorrect`: `Spec => []DeletedGroupHasNoService`, with `Unbound`: the deletion
  is still to come, or at hand with every service that is still bound in what the
  watcher has left to do, or it was put aside. This covers failed patches, retries and
  restarts at any point.
* `KeysCorrect`: `Spec => []KeysFollowGroups`, with `Issued` (only groups that exist
  have a key; a cancelled key is that of a deleted group) and `Keyed` (each key is
  right, or an event that makes it right is to come).
* `CancelledCorrect`: the action property `CancelledStaysCancelled`, from `Issued`.
* `TypeCorrect`.

### 5.8 `LegacySync_proofs`

* `EchoCorrect`: `Spec => []NoEcho`. The property speaks of what was stored and of
  the versions; what makes it inductive is what is on its way. `Kept` says that every
  message to the historicizer or to the legacy system is a stored document, and that
  none of those to the legacy system came from it. `Told` says that every item of a
  message of request-sync-cms, also of one whose override is half done, `Originates`
  in a version that a legacy user saved. Versions are only added, so an origin stays
  (`OriginStays`).
* `HistoryCorrect`: `Spec => []HistoryHoldsLatest`, with `Remembered`: the current
  document of a container is in its feed, in a message, in the history, or it
  `Collided`. The step that matters is an upsert that replaces a document
  (`ReplacedCollides`): two stored documents with one `modified_at` either collided or
  are items of versions with the same content; `Distinct` makes it one version, and
  the millisecond that `calculateModifiedAt` adds tells its two items apart
  (`OneOfEach`).
* `SettledCorrect`: `Spec => []SettledAgrees`. The property speaks of a settled system;
  `MirrorInv` says of any state, unless somebody was hasty, that every service is
  `Calm`. Only the last version is unheard of (`LastUnheard`); the documents on their
  way are the current ones and have one origin (`Current`); what the publicator and the
  deletor were told is what the lifecycle holds (`Decided`); a deletion is known to both
  systems or under way (`Ended`); and where the two differ, one of them will hear of the
  other (`Agrees`). Together with nothing under way, the last two are the property
  (`MirrorSettled`). A step leaves a service `Untouched`, or takes documents off
  their way (`CalmLess`), or is argued on its own. The invariant was false at
  first for two changes in one millisecond: the document that an upsert of the history
  replaces is not watched any more, and unless the one that takes its place tells the
  legacy system the same (`ReplacedTells`) nobody does. That is the window `Together`
  names (section 4).
* `TypeCorrect`, from `Shape`: the feeds tell of documents and versions that exist.

### 5.9 `Backoffice_proofs`

The page and the export share no state; the module extends `GroupKeysPage` and
`ApiKeysExport`, which is why the names of the second begin with *Export*
(`ExportSpec`, `ExportTypeOK`).

* `ListCorrect`: `Spec => []ListAgrees`, from `Expected` (until a deletion is answered
  with other calls in flight, the row that a call is about is there when its answer
  comes) and `Listing` (unless something is being deleted, the list is read one page at
  a time: the rows are those before the page that is on its way, or up to the last one
  that arrived).
* `KeysCorrect`: `Spec => []KeysShownAreCurrent`. The property speaks of rows with no
  call in flight. `Fresh` speaks of all of them, but for `raced` and `unanswered` ones:
  an answer on its way carries no version that is not in force any more
  (`FreshAnswers`), and a row shows an old version only while the answer that replaces
  it is on its way (`FreshKeys`, `FreshCidrs`), so the order of the answers does not
  matter. What `raced` and `unanswered` excuse, they excuse by subscription: a lost
  answer about one says nothing of another.
* `TypeCorrect`. That a version is one of finitely many is not inductive: `TypeInv`
  counts the calls that are still to make one, which share the clicks of the
  administrator.
* `ExportKeptCorrect`: `ExportSpec => []NoGroupLeftOut`, for pages of any size, with
  `Kept`: unless its pages were moved, what a task has read is the beginning of the list
  as it is (`Reading`), so that the next page goes on where it ends (`PageGoesOn`) and
  after the last one every group that lasted was read. A step of self-care either leaves
  the beginning alone or moves the pages (`EditedList`). The step that matters is the map
  of one group for each institution: as many groups as institutions, one for each, leave
  no institution two (`OneGroupEach`), which is why the comparison of the two counts in
  the code is needed.
* `ExportLinkCorrect`: the action property `LinkIsOfLastRequest`, with `LastInv`: unless
  requests raced or a task outlived its file, the file that is being made is the last,
  at most one request has none yet, and no file is newer than the last.
* `ExportTypeCorrect`: with `OwnFile`, as a task without it would finish a file that
  does not exist, or the file of another.

### 5.10 Only model-checked

Every invariant and every action property of the passing runs is stated by a theorem.
What is left to TLC is liveness, which TLAPS cannot prove: `DeletionIsPropagated`,
`ApprovalIsPropagated`, `ReviewEnds`, `LegacyChangeArrives`, `PublicationArrives`,
`RevocationArrives`, `VerdictArrives`, `NobodyIsLockedOut`.

## 6. What is not modelled

* The activations (`webapp/watchers/on-activations-change.ts` and the blob trigger of
  their ingestion): a projection of each change into a blob of its own.
* The topics timer, keys and logo: one call each, no state of the program.
* The APIM subscription that `create-service.ts` makes before it saves the document,
  and gives up on if the save fails: the backoffice then lists a service whose data
  are missing.
* Retries inside one call (`retries.ts`, `fetch.ts`): a bounded number of attempts,
  which a caller sees as one call that takes longer or fails.
* The read-only API, app-backend and services-app keep no state. The pages of the
  backoffice other than the keys of groups keep a view of what they have read, with
  the same hook (`useFetch`), and are left out, as are the pages of the login.
* In the legacy synchronisation, the inclusion lists and the lookup of the APIM
  user: constant settings, under which a service is synchronised or not at all.
* On the page of the keys, a server that finishes after the client was answered with
  an error (a gateway that gives up): `Fail` comes before or after the server's part.
  What such a server does is seen when the rows are listed again.
* Formatting of Jira tickets, validation rules, names and topics, telemetry: the
  properties do not tell them apart.
* A message that cannot be parsed: every queue is written by this code.

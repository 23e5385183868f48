# Verification of the associado API

TLA+ models of the protocols in this NestJS backend, TLC configurations that
check them on small instances, and theorems that TLAPS proves about them. The
backend is one Node process with MySQL (Prisma), Redis (BullMQ queues and
counters) and a handful of remote services: Hinova (the SGA), M7, Softruck and
Lógica (tracking), ClubGas (fuel), Expo (push), Alloyal (benefits). Node runs
one continuation at a time, so nothing races on memory; what races are the
awaits of different requests and jobs over rows, remote state and caches. Every
model is therefore cut at the awaits: an action is what runs between two of
them, or one statement, transaction or call whose place among the others
matters. There is hardly a lock or a transaction in the code, so what holds at
all holds by the order of the steps.

Paths below are under `src/src/` unless they start with `prisma/` or `docs/`.

## Inventory

| Part | State it keeps | Operations | What is hard | What makes it correct |
|---|---|---|---|---|
| Reinspection (`reinspection/`) | `Reinspection`, `ReinspectionPhoto`, image files; what Hinova inserted | create, add photos, status, finalize, approve, approve/reprove photo, resend | check-then-write with uploads and a remote POST in between; app and analysts overlap | rows name existing files; approved means no rejected photo; a rejected reinspection has something to resend; "sent" means sent |
| Reactivation boleto (`sga/services`, `sga/processors`, payments admin) | boleto and vehicle situation at Hinova, `ReinspectionPayment`, repeatable job | create after approval, verify every 2 min, reactivate, cancel | three stores without a transaction; lost answers, restarts, a run overtaken by the next | paid is shown only if paid; a suspended vehicle is watched; watching ends exactly after payment |
| Vehicles of the associado (`sga/services/sga.service.ts`) | `UserVehicle.isActive` | list = upsert all, deactivate the rest | overlapping lists, failures halfway | an owned vehicle is not made inactive; the last list decides |
| SGA session (`shared/sga-auth.service.ts`) | token and login promise by base | `executeWithAuth` | concurrent 401s, late 401s | one login at a time; retries with newer tokens; no caller stuck |
| Lógica session (`rastreamento/logica/`) | token and login promise by base; one credential | call, renew, four attempts with pauses | a login ends the session before; two bases share it | the same |
| Fuel card (`cartao/`, `fuel-session/`, `economia/`, `integrations/clubgas`) | `FuelSession`, `User.totalEconomizado`, delayed job | show card, job, consult total | retries, stalls, totals read before an await | one push; a pushed session stays completed; sessions end; the total is real |
| Analytics (`analytics/`) | Redis counters, receipts, unique-row and daily tables | ingest, worker, dashboard | retries out of order, redelivery, creates whose failure is swallowed, a panel of several queries | counters agree with rows, panel with counters; accepted is counted; blocks are lifted |
| Vehicle commands (`rastreamento/services`, `rastreamento/m7`) | two flags per user; the same per vehicle at M7 | anchor, ignition, status | two fields sent in one command; answers lost; a vehicle with several rows | no flag resets the other; the status is true |
| Webhook events (`rastreamento/processors`) | job, `VehicleWebhookEvent`, `Notification` | receive, store, notify each user | restart in the loop; preferences change | every push has a row; nobody is skipped; jobs end |
| Marketing (`notifications/`) | audit log, `Notification` | send to all in chunks | tickets matched by index; partial failure | rows are of those reached; the log does not lie |
| M7 session (`rastreamento/m7`) | a token and a renewal promise by base, twice: positions and history | boot, timer, call with one repetition | a login fails while the process boots; a class is left without a token | retries with newer tokens; the token comes back |
| Softruck session (`rastreamento/softruck`) | token, login promise, caches of vehicle and device | position, days of a history, each several requests | a token dropped while calls with it are out; a 401 in the middle of a chain | retries with newer tokens; calls end |
| Provider selection (`rastreamento.service.ts`, `historico-provider-resolver.service.ts`) | caches of ten minutes: provider, Softruck's vehicle and device; `cortarRastreamento` | last position of three providers, provider of the history | a tracker exchanged while three caches remember; overlapping resolutions, late answers | what is shown is fresh; the history is that of a device or provider that has, or lately had, the vehicle |
| Histories of M7, Lógica and Softruck | none: pipelines over the provider's answer | summary, map, PDFs | thresholds, order of the answer, days that fail, two views of one period | no drive lost or made up; views agree; routes keep to the track; alarms told once |
| Reverse geocoding, contestation PDF (`rastreamento/m7`) | cache and calls in flight | addresses of all points in batches | a shared call, a city named by one caller only, a failed query that is cached | an address is that of its point |
| Stored photos (`associado/`, `oficina/`, `slider/`, `documentos/`, template photos) | files, and rows that name them | create, update, delete | files and rows are written in turn, in a different order in each service | a row's file exists unless a request removed it and failed; no file is left over |
| Account and first access (`auth/`, `associado/`) | `User`: password, `primeiroLogin`, base | first access, register, login, change and reset of the password | retries against several bases; reads before awaits; a mail that fails | the owner can always get in; the base is the first that lists the CPF |
| Admin users, app version, Alloyal, stations, infrastructure | rows, one writer each | CRUD and proxies | little | see "Not modelled" |

How they meet: an approval of `Reinspection` calls
`tryCreateReinspectionBoleto`, the first step of `BoletoReativacao`; both talk
to Hinova through `SgaAuth`. `VehicleSync` maintains the `UserVehicle` rows by
which `VehicleCommands` and `WebhookEvents` find the user of a vehicle;
`VehicleCommands` writes the ignition preference that `WebhookEvents` reads.
`WebhookEvents`, `MarketingSend` and `FuelSession` all end in rows of
`Notification` and pushes of Expo. `ProviderSelection` decides which of the three
histories serves a vehicle, the histories call the trackers through
`M7Session`, `LogicaAuth` and `SoftruckSession`, and take addresses from
`ReverseGeocode`; `FirstAccess` asks Hinova through `SgaAuth`.

## Modules

| Module | Code | Actions correspond to |
|---|---|---|
| `Reinspection` | `reinspection.service.ts` | each handler cut at its awaits (`AddPhotosCheck`, `AddPhotosUpload`, `AddPhotosInsert`; `ApproveRead`, `ApproveCheck`, `ApproveWrite`, `HinovaRead`, ..., `ApproveBoleto`); `req[s]` is the handler running in slot `s` with its local values |
| `BoletoReativacao` | `tryCreateReinspectionBoleto`, `criarBoletoReativacao`, `BoletoVerificacaoProcessor` | the numbered steps of creation in `req[s]`, the run of the job in `worker`; `repeat` and `iteration` are BullMQ's |
| `SgaAuth` | `sga-auth.service.ts` | `Start`, `Retry`: `executeWithAuth`; `Authenticate`: `getUserToken` |
| `LogicaAuth` | `logica-auth.service.ts` and the calls that use it | `RenovarToken`, and the attempts and pauses of one login |
| `FuelSession` | `cartao`, `economia`, `fuel-session` | requests, consultations and jobs, each cut at its awaits |
| `AnalyticsIngest` | `analytics.service.ts` (`ingest`), the processor | `IpIncr` ... `Enqueue`; `Commit(i, lost)` is the transaction, in which the creates of `lost` failed and were swallowed |
| `DailyAudience` | what the ingestion promises | abstract: `Accept` a summary, `Count` it, or `CountInPart`; the audience of a day is a set of devices and a set of sessions |
| `AnalyticsAudience` | `getDashboardAudience`, `getDashboardSessions` | `Ask`, the parallel queries `ReadDevices`, `ReadNew`, `ReadNewDaily`, `Answer`, over the tables of `AnalyticsIngest`; the sessions are an operator over them |
| `VehicleCommands` | `ancoraM7`, `ignicaoM7`, `getVehicleState`, `getEventoPadraoM7` | read the other flag, send both, write one; `RowsOf` gives the rows of a chassi as `findFirst` meets them, `inForce` those that are active |
| `VehicleSync` | `consultarVeiculosAssociado` | `Read`, one `Upsert` per vehicle, `Deactivate` |
| `WebhookEvents` | `webhook-m7`, `WebhookProcessor`, `dispararNotificacaoVeiculoWebhook` | the job cut at its awaits |
| `MarketingSend` | `sendMarketingNotification` and its audit log | chunk by chunk |
| `M7Session` | `rastreamento-m7.ts`, `historico-m7.service.ts`: their token states | boot, timer, `Refused` and the logins; a login of `historico` that fails at boot ends the process, `Boot` is the container's restart |
| `SoftruckSession` | `rastreamento-softruck.service.ts` | one step per request of a call (vehicle, device, data), `FromCache`, the shared login, ageing of token and caches |
| `ProviderSelection` | `rastreamento`, `HistoricoProviderResolverService`, the caches of `rastreamento-softruck.service` | `Ask`, `Show`: the last position; `Resolve`, `LookUpCached`, `Probe`: the provider of the history; `FindVehicle`, `FindDevice`, `DeviceArrives`: what Softruck's service answers, from its caches or not; `Tick` ages an entry |
| `M7History` | `m7-viagens-builder`, `historico-m7.service`, the GPS sanitizer | `Ponto`, `PontoDaRota`, `Trajeto`: what M7 has, item by item; `Answer`: the whole pipeline at once |
| `LogicaHistory` | `logica-historico.mapper`, `trajetos.service` | `Posicao`, `Registro`: what Lógica has; `Answer`, `AnswerFallback`, `AnswerPdf` |
| `SeqParts` | `Array.prototype.filter` and `sort` as the histories use them | recursive functions: `Those` the items at some positions, `Sorted` the items by their keys, stable, `SumOf`; used by the three histories |
| `SoftruckHistory` | summary, routes, PDF and the geom pipeline | `ByKeys`, `Geom`: a day answered or failed, in any order within the concurrency; `Answer`, `AnswerGeom` |
| `ReverseGeocode` | `m7-reverse-geocode.service`, the contestation PDF | `Call`, the two queries `Ruas` and `Numero`, `Receive` for a caller that waits on another's call |
| `StoredPhotos` | profile, workshop, slider, document and template photos, `file-upload.service` | a request is the sequence of its awaits (`Plan`), taken one by one: `Find`, `Store`, `Remove`, `Write`, `Delete` |
| `FirstAccess` | `primeiroAcesso`, `detectBaseOrigin`, `callSgaWithRetry`, `auth.service` | each handler cut at its awaits, `Mail` being the last of a reset |

The histories are pure: what could go wrong in them is in the data, so their
state is an answer under construction and what the service makes of it. They are
operators over that answer, written from the code, and their properties are
written from the drive: what a vehicle that produced these fixes did.

`MC*` modules give instances. Where components share no state, one instance
holds several: a behaviour is one of one of them, which a variable says
(`client`, `part`, `sender`, `pedido`), and the others rest in an initial state
in which nothing of theirs is fair to happen. `*_proofs` modules extend a
component, or an instance that composes several, and hold the theorems; the
inductive invariants are at the end of the component's own module or at the
head of its proofs. Definitions commented `Mutant:` are plausible
faults of the definition that follows them; each makes TLC report the property
it is paired with.

BullMQ is modelled the same way in all modules: attempts as the code sets them,
one stall allowed (`maxStalledCount` is left at its default), the active job
queued again after a restart and failed the second time. Databases fail by
rejecting an await; what was written before stays.

## Runs

Every constant that bounds something is commented `bound:` where it is declared.

| Run | Instance | Shows |
|---|---|---|
| `reinspection_serial` | one request at a time, 2 reinspections, 2 photos, 3 images | the workflow without overlap: nothing strands a rejected reinspection, and an image marked as inserted was inserted |
| `reinspection_app_analyst` | app and one analyst, batches of up to 2, one failure | what holds under every overlap of the two |
| `reinspection_two_analysts` | two analysts, one photo | **violated**: an approved reinspection with a rejected photo |
| `boleto_faults` | 2 approvals, 2 boletos, 1 fault, slow runs | paid only if paid, no suspended vehicle unwatched, no job dropped early |
| `boleto_notices` | 1 approval in flight, 2 boletos, 1 fault, fairness | every watched paid boleto ends its job |
| `tokens` | SGA: 2 callers, 3 tokens; Lógica: 2 callers, 2 bases, 2 tokens, 1 lapse; M7: 2 callers, 2 starts, any outages; Softruck: 2 callers, 3 calls | single flight, newer retries, calls end, a token lost to an outage comes back |
| `associado` | 2 commands, of a vehicle with rows of two users or of one without, 1 loss; 2 lists, 3 vehicles, 3 moves, 1 failure; 2 tracker requests, 2 devices, 2 moves, a time to live of 1 tick; 3 file requests on one row; 3 account requests, 2 bases, 1 change at Hinova, 2 attempts | no accidental reset, true status; owned vehicles stay active; fresh position, right provider; files and rows agree; the account is its owner's |
| `notifications` | webhook: 1 event, 2 users, 1 change, 2 failures, 2 restarts; marketing: 4 users, chunks of 2, 1 change, 2 failures; fuel: 2 sessions, totals up to 2, 1 request, 1 consultation, 1 fault | rows and pushes agree, jobs end, the audit log does not overstate, one push per session and none of an expired one |
| `marketing_last_chunk` | 3 users, chunks of 2 | **violated**: the last chunk is credited to others |
| `analytics` | 2 summaries, 2 days; ingestion: 1 install, 1 version, limits of 1, 1 failure, 1 restart; lost creates: any queue of two of 1 install in 2 versions, 1 failure or lost create, 1 restart; panel: any queue of two of 2 installs in 2 versions, one request at a time | tables, counters and panel agree; accepted summaries are counted; blocks are lifted |
| `histories` | M7: 4 fixes or 3 trajetos, with gaps of 60 s and 130 s; Lógica: 5 positions or 3 records; Softruck: 3 days two at a time, 4 features; 2 reports on 2 points | trips are drives, the views of a period agree, alarms and routes keep to what was sent, addresses are those of their points |
| `m7_distance` | trips of up to 4 fixes | **violated**: the distance told exceeds the distance driven |

Why these are enough. The conflicts in this code are between two handlers over
one row, so two actors and one shared object reach each; a third request is
needed only where it comes after two that overlapped (accounts, files). Two
boletos, two sessions, two summaries and two days are the least at which one
could disturb another. One fault reaches each error path at each await; two
faults of one job matter only in `AnalyticsIngest` and `FuelSession`, where a
third attempt comes after pure failures of ClubGas, which are not counted.
`RateLimitEnabled` is TRUE, `IpMax` and `InstallMax` are 1 instead of 10 and 20,
`MaxAttempts` of a first access is 2 instead of 3: what matters is being over a
limit at all. A tick of `ProviderSelection` is the time to live of a cached
device: an entry written at the last moment before an exchange is read for that
long and no longer, and two exchanges bring the first device back. Lost creates
and the panel are checked against the worker alone, which finds any two
summaries in the queue: what a request of the app does before it queues does not
touch the tables. The panel is asked by midnights there, since it cuts its
instants to days; `CutsToDays` is FALSE: the instants of a query are compared as
they are, the case in which the two figures of the panel differ (the theorem is
about both). The histories decide by comparing a fix with its neighbours or with
the last one kept, so four or five fixes, with steps and gaps on both sides of
each threshold, hold every pattern that a rule looks at; gaps of 60 s and 130 s
lie about the two minutes of a smoothed interruption, three days at a
concurrency of two make a second batch. Positions lie on a line: what the code
does with them (distance, turning back) is the same there, and where two
directions matter they are the two of the line. In `associado` the requests for
files, and those for an account, are alike, are made once each and begin in
turn, and a command is one of a single vehicle, since the two have no user in
common. Deadlock is checked except where the bounds let the system come to rest,
and the configuration says so. What is proved (below) holds without any of these
bounds.

Properties restricted to undisturbed histories say so in their guard:
`SuspendedIsWatched`, `EveryoneHasRow`, `LatestListDecides`, `SavedAreReached`
(behind the two marketing properties) and `NothingIsLeftOver` speak of runs without failures,
`CountedOnce` of runs without a restart, `BlockIsLifted` of runs without failures or
restarts, `NewDevicesAreDevices` of requests of the panel that no commit overtook,
`BaseIsTheFirst` of runs in which Hinova
neither failed nor changed its lists, and `StatusIsTrue` and
`NoAccidentalReset` of vehicles whose commands came one at a time. Outside those
guards the code does go wrong; see "Where the code and its promises part".

## Fairness

Safety properties assume none. The liveness properties use:

- `boleto_notices`: a delayed iteration falls due (weak), a started
  verification goes on (weak: axios and the event loop settle every promise),
  and the worker takes a waiting iteration again and again offered (strong,
  because the one worker is busy with other boletos in between; BullMQ serves
  waiting jobs in order). No fairness on payment, approvals or faults.
- `tokens`: calls and logins are answered or rejected (timeouts), continuations run,
  M7's timer fires, and the container starts a process that ended (weak, all of
  them). `sga-auth.service.ts` (83, 98) sets no timeout on its login: that it ends
  there is the transport's promise, not the code's. None on new calls, nor on M7
  coming back: `TokenComesBack` speaks of behaviours in which it stays up.
- `analytics`: requests go on, the worker takes and retries jobs, Redis drops
  keys whose time to live is over.
- `notifications`: the webhook worker takes a job and goes on with it; a started
  fuel request goes on, and BullMQ delivers a due job. None on new requests,
  refuelling or consultations.

## Proofs

Eight modules hold theorems, for every value of the constants under the named
assumption of each component (numbers are numbers, bounds are natural, a model
value that stands for "nobody" is none of the others; nothing about the size of
any set). Types are conjuncts of every inductive invariant, and so theorems,
which is why few runs check a `TypeOK`. Where several components share an
instance, the proof is of the component alone, and `StepsOf...` lemmas show that
a step of the instance is a step of each of its components or leaves it alone;
`CompositionIsFaithful` says so of the whole specification.

- `Reinspection_proofs`. `TypeCorrect` and `PhotosAreOnDisk` rest on
  `Inductive`: `ImagesOnDisk` alone is not inductive, because a handler that
  has uploaded inserts names it computed before; `LocalOK` says that what a
  request holds (its first image number, the rows of its payload) is on disk
  and in the table, and both only grow. `SentNamesAreReal` adds `AnswersAreReal`:
  the answers that an approval has yet to write back are about names Hinova
  inserted. Three theorems have a guard on who does what, which the code does not
  give and without which the property is false. `ApprovalIsSound`:
  `OneAnalyst` (at most one slot approves reinspections or rejects photos), with
  `ApprovalOK`: past its check, an approval still sees no rejected photo; the
  violated run shows that the guard is needed. `SentImagesAreReal`:
  `NoResendBesideApproval`, since an image replaced between the POST to Hinova and
  the write of its answer is marked as sent in place of the other.
  `RejectionsCanBeAnswered`: `OneReviewer` and no failures, since two verdicts
  that overlap, or one whose second write fails, leave a reinspection REPROVADA
  with nothing to resend. In all three any number of other slots run beside.
- `BoletoReativacao_proofs`. `PagoIsTrue` needs `WorkerOK`: a verification that
  was told "paid" holds a boleto that is paid, and paid boletos stay paid.
  `NeverAbandoned`, an action property, uses the same: only `RemoveRepeatable`
  takes a job away, and only after "paid". `SuspendedIsAlwaysWatched` needs
  `Watching`: a creation on its way has a boleto of its own that nothing watches
  yet, so that no other creation or verification takes its job away; and until
  something fails, a suspended vehicle has a job other than the one a
  verification is about to remove (`Remaining`), or a creation at its last step.
- `Tokens_proofs`. For `SgaAuth`, `InductiveHolds`: every waiting caller waits on
  a live login, tokens in hand were issued, the token of a second attempt is
  newer than the first, and the cache holds no refused token; `OneLogin`,
  `RetriesAreNewer` and `RefusedStaysOut` follow. The invariants of
  `LogicaAuth`, `M7Session` and `SoftruckSession` say of every caller what its token
  is worth at each phase and that one that waits has a login in flight to wait for
  (`NoneWaitsInVain`). `TrackerRetryIsNewerHolds` puts them together.
- `Associado_proofs`. Commands: the invariant says, of orderly vehicles, that one
  command at a time is on its way, that the flag it carries along is the one M7 has,
  and that the two sides differ by that command at most. `NothingIsReset` (an action
  property) and `StatusHolds` follow. Lists: one in flight contains every vehicle
  that never moved; while lists do not overlap, the rows are those of the list being
  written. `OwnedRowsStay` and `LastReadWins` follow. `FirstAccess`: a request about
  to write an existing account finds one, and, until Hinova fails or changes its
  lists, the base it has come to is the first that lists the CPF (`RequestOK`).
  `ProviderSelection`: a device that is remembered, or in an answer on its way, was
  the vehicle's no longer ago than its entry is old (`MemoryOK`); a request keeps
  the places and the devices not gone for long that it met, and what it has in hand
  is among them (`CallerOK`). `StoredPhotos`: the rest of each request's plan is one
  the plan can leave (`TodoOK`), no two requests upload the same file, and, while
  requests come in turn, the disk holds what the row and the one request name
  (`CalmOK`).
- `Notifications_proofs`. `FuelSession`: totals in the hands of consultations
  and jobs are not above what ClubGas counts, which only grows
  (`AnswersAreTotals`); a job about to push, or that pushed, has a COMPLETED session,
  and one about to expire its session has not pushed (`JobOK`).
  `WebhookEvents`: rows lead pushes, and a user is on the list of what is to be
  done, in hand, or has a row (`NobodyIsLost`). `MarketingSend`: the reached
  are of the chunks already sent, and `valid` holds nobody twice (`ChunksOK`); no more
  are counted as sent than were reached (`AuditOK`); and, of chunks of one length,
  the index of the code finds the very recipients (`RowsOK`).
- `Analytics_proofs`. `CountersOK`, `DevicesOK` and `ReceiptsOK` relate the tables:
  a counter is the cardinality of the rows it counts, a first appearance has a row,
  an install has one row of a day at most, and a summary that was counted with no
  create lost (`whole`) has one; without a restart, a job with a receipt never runs
  again. `PanelAgreesHolds`: what the queries of a request have read is what the
  tables hold until a commit comes between them (`Fresh`); and the sum of counters
  over a period is the number of rows by a bijection on the cells of day and
  version. `IngestKeepsTheAudience` is a refinement: `Enqueue` is `Accept`, the
  first or repeated `Commit` is `Count`, or `CountInPart` when a create is lost, and
  everything else (counters, retries, stalls, rollbacks, restarts) stutters.
  `AudienceIsTrue` follows in the abstract specification and is carried down.
- `SeqParts_proofs`. What the histories make of an answer is a recursive function of
  how many items have been taken. `Recursion` shows that such a function exists, and
  `UpTo` is induction over 0..m by a least element (`WFMin` of the order of the
  numbers), stated of sets, since the library's induction theorems take an operator.
  With them: a filter keeps the items at its positions and their order (`ThoseAre`,
  `ThoseInOrder`, `ThosePart`); a sort gives every position once, by the keys
  (`RankedIsRank`, `SortedIs`), and where no two keys are the same its outcome does
  not depend on the order the items came in (`OneOrder`); a sum is bounded by its
  items, grows with them, and is that of the sorted or filtered sequence
  (`SumWithin`, `SumMonotone`, `SortedValue`, `ThoseValue`); and of sequences put in a row
  (`JoinedAre`, `JoinedRise`).
- `Histories_proofs`. Of each request the invariant says of which items an answer is
  made and by which pipeline; each property is then a lemma about that pipeline, for
  answers of any length.
  - Routes and alarms (`RotasOK`, `GeomOK`): M7's points come in order, Softruck's
    features in one order or the other; `RotaKeeps`, `SimplesKeep` and `AlarmesKeep` say
    what holds of what is kept after every item.
  - The timeline (`PdfOK`): the sort by instant leaves one record of each instant and
    place, and after every record the ignition carried is that of the last one kept
    that tells one.
  - The views of Softruck and M7 (`SoftOK`, `TrajetosOK`): every day answered lists trips
    of its own, in whatever order the days come; so the days that have a valid trip
    follow one another in the summary as their trips do on the map, and the two
    sums leave out trips of no length alone.
  - The trips of Lógica (`LogicaOK`): an answer has one position to an instant, and
    is put in order. The stops are disjoint runs of it; a trip lies between one stop and
    the next, and every two moving points in a row at different places lie between
    some such two, so that dropping the stretches that lead nowhere loses no drive. The
    map draws a trip from the points of its own instants, which are those of its stretch
    because no other point has the same instants.
  - The trips of M7 (`M7OK`): the points are those of a vehicle that drove on (`Rodou`):
    later ones are not behind in place, and either all lack the odometer or all have it
    at their place plus one number. In the order of the period (`OneOrder` again, for
    answers that come newest first), a cycle is a run of points with the smoothed
    ignition on and the point without that ends it (`Giro`); its trip goes from its
    first to its last moving point (`Tramo`), and the next cycle begins after it, so
    that trips come one after the other and no drive is lost (`Corridas`).
  - Addresses: the cache holds coordinates in place of an address only where there was
    none to be had (`CacheOK`), and a lookup is that of the first point of its report with
    the coordinate, with its city (`ChamadaOK`).

  `HistoriesAssumption` bounds what the data may be: gaps between points are positive,
  a period of Softruck has a day, and the points of a period cover less than 2000 km
  (`21 * MaxPontos <= 200000`), above which `m7-viagens-builder` does not believe the
  odometer and tells the distance by coordinates instead.

A few definitions are written so that they can be reasoned about: `InOrder` puts
users in order by their numbers instead of calling a sort, `InstallsCounted`
is a cardinality instead of a fold, `daily` and `views` are functions on pairs, the
filters, sorts and passes of the three histories are recursive functions (`SeqParts`,
`Rota`, `Simplificada`, `Alarmes`) instead of operators of the community modules, and
a comparison with `DeltaMaximo` stands for membership in an interval.

Every invariant that a passing run checks is proved. Only model-checked is liveness
(`PaidIsNoticed`, `SessionsEnd`, `TokenComesBack`, `JobsEnd`, `AcceptedIsCounted`,
`BlockIsLifted`), which is beyond the prover.

## Where the code and its promises part

Three are shown by runs that TLC finds violated:

1. `reinspection.service.ts:599` says "Não é possível aprovar uma revistoria com
   foto reprovada"; the look (589) and the update (603) are separate
   statements, and a second analyst fits between them.
2. `notifications.service.ts:592` indexes recipients by
   `i * chunks[i].length + j`. With a shorter last chunk, rows go to the wrong
   users, against "Salvar APENAS as que foram realmente enviadas" (606).

3. `m7-viagens-builder.service.ts:507` multiplies degrees by `Math.PI / 40` to get
   radians. Where M7 gives no odometer, the "Distância total percorrida em km"
   (`historico-m7-response.dto.ts:89`) of near fixes is told 4.5 times too long.

Others, met while modelling, are behaviours of the models that the guards of
the properties leave out:

- `reinspection.service.ts:134`: a photo uploaded while the reinspection leaves
  PENDENTE is inserted all the same; `:1014`: a resend that began before an
  approval takes the reinspection back to EM_ANALISE after it.
- `reinspection.service.ts:1188`: two overlapping photo verdicts, or a verdict
  and a resend, leave a reinspection REPROVADA with no rejected photo.
- `reinspection.controller.ts:250-252` says that a resent photo goes to Hinova
  again; the service (987-1079) does not send it.
- `reinspection.service.ts:683`: two overlapping approvals create two boletos,
  and so do two approvals more than an hour apart.
- `boleto-verificacao.processor.ts:314`: the status of the reactivation is not
  looked at; a refusal is logged as "Veículo reativado" and the job removed.
- `boleto-verificacao.processor.ts:216`: when neither query gives a situation,
  a payment already shown as paid goes back to unpaid.
- `logica-auth.service.ts:82`: a late refusal starts a login although the token
  was renewed meanwhile; `:47`: tokens are kept by base but the provider has
  one credential, so two bases end each other's sessions;
  `trajetos.service.ts:216`: a second refusal is read as an unknown chassi.
- `cartao.service.ts:84`: two cards shown together create two PENDING sessions.
- `fuel-economy.processor.ts:144` expires the session whatever its status. A
  session COMPLETED whose push then fails is safe from this, because the retry
  finds it closed; it expires only if the last attempt is the one that fails
  after completing it.
- `analytics.service.ts:217` stores a hash "para idempotência", and
  `docs/ANALYTICS_IMPLEMENTATION.md:185` repeats it, but nothing looks for it:
  a job run again after its commit counts its screens twice.
- `analytics-ingest.processor.ts:131`: the first appearance of a device is that
  of the first summary processed, not of the earliest day
  (`prisma/schema.prisma:151`).
- `analytics-ingest.processor.ts:114`, `:127`, `:137`: the comments speak of unique
  constraint violations, but the empty `catch` blocks swallow any error of the three
  creates. A session or a device is then missing from its day though the summary has
  its receipt, and a device whose first appearance is lost is new on a later day.
- `analytics.service.ts:576`: the four queries of the audience run at once and in no
  transaction, so that a summary counted between two of them may show more new
  devices than devices. `:684-686`: the sessions hand the instants of the period
  over uncut, where the audience cuts them to days (548-551): unless Prisma cuts them
  for a column of type DATE, the first day of a period is left out.
- `analytics.service.ts:275-278`: a failure between `incr` and `expire` blocks
  the address for good, against the windows of
  `docs/ANALYTICS_IMPLEMENTATION.md:71-72`.
- `analytics.service.ts:581-585`: the weekly and monthly figures count only rows
  of the period asked for.
- `rastreamento-m7.ts:366`: both flags are always sent to avoid an accidental
  reset, but flags are per user and M7 is per vehicle, so a user's second
  vehicle is sent the first one's flags; two overlapping commands reset each
  other too.
- `rastreamento.service.ts:458`: ignicao-status reads the first row that is active
  and whose user is, while the commands (331, 376) and ancora-status (483) take the
  first row of any kind: of a vehicle with an inactive first row, the alert that was
  just switched on is told as off, or as another user's.
- `rastreamento-softruck.service.ts:470`: for up to ten minutes after an exchange,
  the history and the position are those of the device that was there before.
- `boleto-verificacao.processor.ts`, `sga.service.ts:449`: a boleto issued before a
  failure has no row, or a row no job, and nothing looks for it.
- `fuel-session.service.ts:62`: a total read before an await and written after it may
  take the total of a user back; it never takes it above what ClubGas counts.
- `reinspection.service.ts:615`: an approval whose photos never reach Hinova stays
  APROVADA, and nothing sends them again.
- `sga.service.ts:187`: of two overlapping lists the older may be written last.
- `webhook.processor.ts` is set up for three attempts, and the code it runs
  swallows every error (`rastreamento.service.ts:105`, `:780`): only a restart
  repeats a job.
- `historico-m7.service.ts:60` starts its logins with `void`: one that fails
  while the process boots is an unhandled rejection, and Node ends. The class
  for positions catches the same failure.
- `rastreamento.service.ts:550` asks for any row of the vehicle: with two users,
  one cut and one not, which answer is given depends on the order of the rows.
- `m7-reverse-geocode.service.ts:119`: the coordinates that stand in for an
  address after a failed query are cached for ever; a call that names a city
  starts beside one in flight, and the `finally` of either deletes the entry of
  the other.
- `historico-m7-utils.helper.ts:178-201` lets a contestation span six calendar
  days though its message says five; the validator of Lógica
  (`trajeto-query.dto.ts`) allows 32 days for `MAX_PERIOD_DAYS = 31`.
- `logica-historico.mapper.ts:448`: displacement is measured from the first moving
  fix, so a drive whose only moving fix is already where the vehicle stops next
  is not a trip of its own; `trajetos.service.ts:67-113` keeps the first of two
  records of one instant and place, and with it loses an ignition that only the
  second tells.
- Softruck: a day whose request fails reads as an empty day in every view
  (`rastreamento-softruck.service.ts:649`); at most two features are returned
  unsorted though the helper says "Ordena pontos por timestamp"
  (`route-simplifier.helper.ts:53`); ignition alarms and shakes stay on the map,
  though the pipeline says that it removes ignition (`geom-pipeline.processor.ts`)
  and the mapper calls a shake "filtrado" (`softruck-event.mapper.ts:51`);
  nothing calls `event-classifier.helper.ts`.
- `associado.service.ts:360`, `oficina.service.ts:105-202`,
  `reinspection.service.ts:306`: the old file is deleted before the row is
  written, so a failing write leaves a row that names no file. A slider or a
  profile photo replaced by a link leaves its file, and `documentos.service.ts`
  never deletes one.
- `associado.service.ts:80`: a first access that read the user before a change of
  the password sets the password back to the CPF after it; `:206`: an error of
  one base is read as "not listed there", and the next base is asked, so that a
  CPF listed in two may be given the wrong one; `auth.service.ts:84`: a
  registration without `baseOrigin` creates an account that no login accepts;
  `auth.service.ts:138`: a mail that fails leaves a password nobody has, and the
  first access is then the way in.

## Assumptions about the surroundings

Hinova answers `processa-pdf` about the boleto it was asked for, never takes a
payment back, and answers 200 with the list it has. A token that Hinova or
Lógica has refused stays refused. ClubGas totals never decrease. Expo's ticket
`ok` counts as delivered. One Node process runs the API and the workers.

## Not modelled

- Mails, Suri messages, logging and wording; `submitReinspection` (mails only);
  listings, searches and every read that keeps nothing
  (`sga/boleto/services/boleto.service.ts`, stations, search of workshops).
- Alloyal (`beneficios/`): 1800 lines of proxy; each operation checks its
  arguments and passes one call on, and no state is kept between two.
- Layout of the PDFs and e-mails (HTML, charts, styles, Puppeteer), formats of
  dates, durations and speeds. Of a PDF, only the trips, totals and addresses it
  tells are modelled.
- Admin panel users and the popup: rows with one writer and no protocol. The
  notification queue: only a test endpoint feeds it, and its attempts never
  serve, because the errors of Expo are swallowed below it.
- The app version gate: a comparison of two versions with a policy; only a log is kept.
- The cut of a vehicle (`checkCortarRastreamento`): the first statement of each
  tracking request, which nothing reads again.
- Unique sessions, weekly and monthly figures of the audience, which are compared with
  nothing; a transaction that MySQL itself rolls back behind a swallowed error (a
  deadlock takes two writers of these tables, and there is one worker).
- Retention and the remaining pages of the analytics panel; payload
  normalisation of the analytics body; screens, actions and forms apart from
  each other (they are added alike).
- Tenant configuration, Swagger, guards, DTOs and queue set-up.

## Plan

1. Compositions over shared state: `ReactivationFlow` (`boletoCalls` of
   `Reinspection` start `BoletoReativacao`), and `VehicleCommands` with
   `VehicleSync` over the same `UserVehicle` rows.
2. Abstract specifications: beside `DailyAudience`, a payment (issued, paid,
   vehicle back) that `BoletoReativacao` implements while nothing fails, and a
   savings session (open, told or expired, closed) that `FuelSession` implements.
3. Proofs: the refinements of 2.
4. Retention and the remaining pages of the analytics panel, admin panel users.

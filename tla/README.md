# ome-console: TLA+ models

OME-Console is a Next.js web console in front of one OvenMediaEngine (OME)
server. It is one Node process: HTTP handlers, three background loops and one
SQLite file. A single thread runs at a time, but every `await` hands it on, and
nothing in the code keeps two handlers or two rounds of a loop apart. Its pages
poll every few seconds and act on lists of any age. Most of what can go wrong
lies between what was read before an `await` and what is done after it, between
what a page shows and what the server has by then, or in a restart of OME or of
the console at a bad moment.
These modules model those parts, TLC checks them on small instances, and TLAPS
proves the main results for every size.

All source paths below are relative to `src/console/src/`.

## 1. Inventory

| Component | State it keeps | Operations | Modelled in |
|---|---|---|---|
| Desired tasks (`db/desiredState.ts`, `api/push`, `api/record`) | `desired_push_tasks`, `desired_record_tasks` | start, stop | `Reconciler`, abstractly `DesiredTasks` |
| Reconciler (`reconciler/`) | logged failures, last `apiOk` | a pass, at boot, every 30 s, on reconnect | `Reconciler` |
| Stats poller (`stats-poller/`) | published snapshot, bitrate histories, count of failures | a poll every 3 s | `StatsPoller` |
| Alert evaluator (`alerts/`) | candidates per rule and target, frame-rate baselines | an evaluation per snapshot; one of push tasks every 10 s | `Candidates`, `StreamAlerts`, `PushAlerts`, abstractly `AlertPromise` |
| Alert routes (`api/alert-routes`) | `alert_routes` | add, delete | as `RouteChanges` in the two alert modules |
| Accounts, sessions, login (`db/users.ts`, `auth/`, `api/users`, `api/account`) | `users`, signed cookies | login, logout, create, reset, change, delete | `Accounts` |
| Login rate limit (`auth/rateLimit.ts`, `login/actions.ts`) | failures and locks per name, in memory | check, failure, success | `LoginLock`, composed in `Gate` |
| Setup wizard, environment file (`api/setup`, `lib/envFile.ts`) | `.env`, `process.env`, `users`, the pages | five steps, reload, restart | `Setup` |
| SMTP settings, notifier (`api/smtp`, `lib/notifier.ts`) | `.env`, `process.env`, cached transporter | save, send | `Setup`; a mail is a step of the alert modules |
| Authorisation (`proxy.ts`, `auth/roles.ts`, the layout, the sidebar) | the cookie, the role a layout was drawn with | `requiredRole`, redirects, links | `Gate`; the set-up gate in `Setup` |
| Publish keys, admission webhook (`api/keys`, `api/admission-webhook`, half of `access/page.tsx`) | `keys`, the page's copy | create, revoke, delete, admit | `PublishKeys` |
| Viewer links, signed policy (`api/viewer-links`, `lib/signedPolicy.ts`, `access-settings/page.tsx`, half of `access/page.tsx`) | `viewer_links`, the secret in four places, the pages | create, delete, re-issue, rotate | `ViewerLinks` |
| Task pages (`(console)/push`, `rec`, `addinput`) | list, form, dialog, tools of the page on display | poll, start, stop, dump, queue | `OmeTasks`, `TaskList`, `RecordPage`, `AddInput`, `TaskPages` |
| Stream tools (`api/hls-dump`, `api/ingest-info`, ...) | none | dump, stop, conclude, one request to OME each | HLS tools and ingest address in the task pages; the rest not |
| OME client | none | one HTTP call | as steps of the modules above |
| Server registry, presets, audit log, logs | rows | insert, list, delete | not modelled |
| Profiles, apps, vhosts, channels | none | forward a request to OME | not modelled; what their pages call is in `Gate` |
| Other pages | none | rendering, forms | what they call, and for which role, is in `Gate` |

How they interact. Handlers and passes call OME and write the tables. The
poller emits its snapshot to its subscribers: the reconciler starts a pass when
`apiOk` comes back, the alert evaluator judges every snapshot, and the live feed
passes it to browsers. The evaluator reads `alert_routes` and sends mail. The
proxy judges every request by the role in its cookie, and looks no account up.
The pages call the routes and keep copies: of a table, of OME's tasks, of the role
of the session; OME calls the admission webhook.

What is hard, and what makes each component correct:

* Desired tasks: OME's task table and the database are two copies that only
  handlers and passes relate, in steps that a crash, a lost answer or another
  handler can separate. A desire must come from an accepted start and end with
  a stop; a task that stays desired must run again after every restart; a pass
  must restart only what it read, and its alarms must end.
* Poller: polls overlap when OME is slow. An older poll must not undo a newer
  one for good, a frozen snapshot must be marked and a mark must be earned.
* Alerts: an evaluation waits for the mail server with candidates half judged.
  The operator must be told of every fire and of every end, once, and a
  lasting condition must fire.
* Accounts: handlers wait for bcrypt, sessions outlive what they were made
  from. No session may speak for another account, no password may reach
  another account, and the engineers must not lose their last account by a
  single session's doing.
* Setup: pages act on answers of any age, and the file, the container and the
  process hold copies of every setting. A page may report success only when
  there is an account and setup is over for good; mail must use the settings
  that were saved last.

* Login rate limit: the lock is looked at before bcrypt and counted after it, and
  the store of counts is bounded. Tries that overlap must not win more than a
  window, and no failure may open a lock.
* Authorisation: the prefixes of the proxy, the role tests of the pages and the
  calls they make are three lists that nothing but care keeps in step. What a page
  asks for must be granted, and redirects must end.
* Publish keys: the page's list may be old, a dialog may be open for long, and
  the call carries an id. It must hit the key the dialog showed; the page must
  come to show the table, although polls are answered in any order.
* Viewer links: signing awaits. A re-issue must leave no link in force with the
  older secret and must not write back what was deleted meanwhile.
* Task pages: any number of calls is under way, the application and the page can
  change under them. A stop must hit what the dialog named, a page must come
  to show OME's tasks, "is set up" must mean that all was queued, and no dump may
  run that its own page cannot stop.

`PROJECT.json` lists 40 hazards with their lines and the properties that watch
them.

## 2. Modules

### Desired tasks: `DesiredTasks`, `Reconciler`, `MCReconciler`, `ReconcilerProofs`

`DesiredTasks` is the promise. A *job* is a task id with its configuration.
It becomes desired only after OME accepted a start, a task stops being desired
only after OME carried out a stop, and a job is restarted only if it was
desired when some pass began (`healing`).

`Reconciler` is the code. `rows` are the enabled rows of both tables (a disabled
row is never read again), `live` is OME's task table, `pass[p]` is a pass under
way and `req[q]` a handler waiting for OME. Each call to OME is one step:
everything the code computes from one answer to its next call, the skipping of
rows that OME lists included, is in the step that receives the answer (`Walk`).
A list that fails skips its rows; a start that fails marks the key of its
*stream* (`Key`), as the code does. The end of a pass drops keys that its own
snapshot of the rows does not hold. `ConsoleBoots`, `TimerFires` and `Reconnect`
start passes. Snapshots arrive late, so `Reconnect` and `Disconnect` do not look
at whether OME is up now. `OmeStops` empties `live`; `ConsoleStops` loses
everything but the rows. `AnswerLost` and `RestartFails` cover calls that took
effect and whose answer was lost.

### Poller: `StatsPoller`, `MCStatsPoller`, `SnapshotProofs`

A poll is a chain of calls: version, list, details, totals. Each answer is a
step. Time is counted in timer ticks and kept as ages relative to now, so that
it does not grow. Bitrates and tracks are left out; a history is the sequence of
the ages of its samples. The failure counter is kept up to its threshold, above
which the code never tells values apart. OME comes and goes at any moment,
between the list and the details as well.

### Alerts: `AlertPromise`, `Candidates`, `StreamAlerts`, `SnapshotProofs`, `PushAlerts`, `PushAlertsProofs` and their MC modules

`Candidates` is `checkCandidate`: since when a condition is true, whether it
fires, and what a check makes of it. Both evaluators share it.

`AlertPromise` is what the operator is promised of the two bitrate rules. A snapshot shows the
condition of an alert or does not (`Look`); when an unbroken row of snapshots has shown it for the
rule's duration the alert is `Due`, when one does not show it it is `Over`,
and both are told before the next snapshot. It knows no candidates
and no evaluations. Snapshots come at any distance: a poll whose list fails emits none
(`stats-poller/index.ts:123-129`), two polls that overlap may emit in one tick, and an evaluation
takes its time from `Date.now()` (`alerts/index.ts:133`), so `Emit` has the `gap` since
the snapshot before. The duration is therefore the time from the first to the newest snapshot of the row,
and two that are far enough apart make an alert fire: the code does not look at what the stream
did between them, and the promise does not say that it would.
`StreamAlerts` implements it as long as no evaluation has waited for a
mail; the mapping is what the log said (`told`) and for how long each condition was shown
(`holding`, a history variable kept from the snapshots alone). The frame-rate rule is left out of it: readings without a frame
rate are skipped, and leave its clock running. So is the push-down rule, whose
evaluations await OME and overlap without any mail.

An evaluation runs without interruption until it waits for a mail, or for OME.
`cpu` is the evaluation that runs. `Check` is one call of `checkCandidate` with
its notification; `todo` are the checks still to be made, as positions in the two
arrays the loops walk, taken in their order. `Gather` and `Sweep` are the clean-up of
a rule, and `sweep` counts the rules. The clean-up iterates over references to candidates, which another evaluation may take out of the map
meanwhile: `firing` is "live" while the reference is the one in the map, and
what the candidate last was after that. The writes to the audit log are what the
operator is told: `told`, `repeated` and `waited` are history variables of it.
`PushAlerts` also keeps the lists of each application, which are of an earlier
moment than the tasks they are compared with. The applications of all virtual hosts
are one sequence; a host whose applications cannot be listed ends the evaluation
between two of them (`AppsFailed`).

Order within a clean-up and within the tasks of one list is left open; streams
are judged in the order of the snapshot.

### Accounts: `Accounts`, `MCAccounts`, `SessionProofs`

`users` is the table and `nextId` its AUTOINCREMENT. A token is the name, id and
role of a row at the moment the row was read; `tokens` are the cookies that
browsers hold. The lifetime is one constant, so tokens expire in the order of
their issue, and "valid" is a comparison with `expired`. Each handler but the
deletion is a step before bcrypt, which reads, and a step after it, which
writes. The deletion reads the cookie a second time in the handler, after the
proxy has: a token that expires between the two has no own account to protect. Its id
is a text (`IdText`): `users/route.ts:74` compares it with `String(actor.userId)` and line 78
deletes `Number(id)`, so that the own account is recognised in one spelling only, the one
that the page sends. `LastEngineer` is about requests in that spelling, as the comment at line
70 ("through the UI") is; it makes an exception for the others, and `OwnIsSpared`, without
the exception, fails.
A start of the console seeds the first engineer into an empty table, or not,
as the environment says. Tokens survive a restart, requests do not.

### Setup and mail settings: `Setup`, `MCSetup`, `SetupProofs`

A setting lives in `.env` (`file`), in the environment the container was created
with (`container`), in `process.env` (`env`) and, for mail, in the cached
`transporter`. `ComposeUp` makes a container from the file; `Restart` starts the
process again in the old one (`restart: unless-stopped`), which loses what
`POST /api/smtp` had put into `process.env`. The flag `CONSOLE_SETUP_COMPLETE` goes
another way: `docker-compose.yml:127-171` does not pass it (`Given`), and Next
loads `/app/.env` at the start of a process and adds what is undefined there, which is
the flag and nothing else, as a setting passed blank is defined (`Started`). So a
plain restart after the last step ends setup too, with the settings of before. Values written together are one
field. `tab` are the pages: the form on display, the status under way, the step
posted and its answer. A status or an answer may come at any time or never; the
account step waits for bcrypt at the server (`hashing`), after a reload of its
page as well. A deployment whose `.env` was filled by hand starts with its admin.

### Pages: `Calls`

What the modules of pages share: a page waits for no call before it makes the next, the
server carries calls out in any order and the answers arrive in any order. `calls`
is a set of records with a kind, a stage (`sent`, then `ok` or `refused`) and what
the call or its answer carries. Equal calls at one stage are one element; that loses
nothing, as the second of two would do and answer the same.

### Publish keys: `PublishKeys`, `MCPublishKeys`, `PublishKeysProofs`

`keys` is the table and `lastKey` its AUTOINCREMENT. `slot` stands for a stream name
with its protocol, which is what the webhook looks up. The webhook reads
the table in one go after its caller is verified and changes nothing the model keeps, so
it is an operator, `Admits`, and no action. `page.list` is the copy of the table that polls replace
and answers patch; an error answer empties it and a refused revoke or delete
patches it too, because the code does not look at the status. The dialog holds the row it was opened on,
stays open while its call is under way, and any answer of its kind closes it.

### Viewer links: `ViewerLinks`, `ViewerLinksProofs`

A signature is the secret it was made with. `secret` says where which secret is:
in `.env`, in `Server.xml`, in the console's process and in OME. The operator edits
the two files and restarts the two containers in any order, as the dialog of
`access-settings/page.tsx` tells. `PostLink` and `PostReissue` read and sign, `StoreLink` and
`StoreReissue` write. Expiry is compared as text with a date that has a blank where the
ISO string has a `T`: `Relevant` is what that comparison does, the whole of
today.

### Task pages: `OmeTasks`, `TaskList`, `RecordPage`, `AddInput`, `TaskPages`, `MCTaskPages`, `TaskPagesProofs`

`OmeTasks` is OME's table of tasks as the pages see it, the routes that list, start
and stop, everybody else who changes OME (`OthersChange`), and the tab: one page at
a time, whose calls go on without it when it is left (`mine` is then FALSE).
`TaskList` is the list, form and dialog that `push/page.tsx` and `rec/page.tsx` have in
common; `RecordPage` adds the HLS tools, where the page alone knows the id of the dump
it started; `AddInput` is the page that queues a recording and then a push.
`TaskPages` composes them. The desired rows and the reconciler are not here: to
these pages the reconciler is one of the others.

### Login and authorisation: `LoginLock`, `Gate`, `MCGate`, `SessionProofs`

`LoginLock` is `rateLimit.ts` with its caller: `Begin` looks at the lock, `RecordFailure`
and `RecordSuccess` follow after bcrypt; `Full` is the cap at which the whole
store is emptied. Names that are not followed are a number. `Gate` has the rules of
`proxy.ts` over paths that are sequences of pieces, so that `startsWith` is `IsPrefix`
(`access-settings` is not under `access/`, `apps/detail` is under `apps`), the table of
what every page calls and where it links, and one tab: a request goes to the proxy
(`Proxy`), which redirects or lets through, and the layout looks at the session again
when it is drawn (`Render`) but not when a `<Link>` is followed. Other tabs change the
cookie at any moment. The login form of the tab is a try of `LoginLock`.

## 3. Runs

| Run | Instance | Shows |
|---|---|---|
| `reconciler_requests` | 1 task, 2 configurations, 2 passes, 2 requests, 2 insertions, 1 fault | the code keeps the abstract promise (refinement) |
| `reconciler_healing` | 2 tasks, 2 passes, 1 request, 1 fault, fair | desired tasks are restarted for good, false alarms end, and without faults the table is never ahead of OME |
| `poller` | 1 stream, 2 polls, threshold 3, window 1, 2 ticks, fair | histories are bounded, marks are earned, a frozen snapshot is marked, a healthy one converges |
| `alerts_streams` | 1 stream, 4 readings, 2 evaluations, 2 routed rules, gaps of 0 to 2 ticks, mails of up to 2, fair | the alerts keep the abstract promise (refinement), are told once and truthfully, baselines stand, lasting conditions fire |
| `push_alerts` | 1 task in the second of 2 applications, 2 evaluations, 3 ticks, 2 faults, fair | told once and truthfully, what stays down is told, stopped tasks are forgotten |
| `accounts` | 2 names, 2 passwords, 2 roles, 2 requests, 3 rows, 2 logins | keys are unique, sessions speak truly, the last engineer stays, hashes find their account |
| `setup` | 2 tabs, 2 names, 2 secrets, 1 mail server, 2 passwords | a page that reports success is right, a finished wizard leaves an account and stays off, mail uses the current settings |
| `publish_keys` | 1 slot, 2 keys, 2 expiries, 2 calls, 1 fault, fair | a dialog's revoke or delete hits the key it showed; the page ends up showing the table |
| `viewer_links` | 2 links, 2 secrets, 1 hour of a day of 2, 2 calls, 1 fault | a re-issue leaves no link in force behind; what was deleted stays deleted |
| `task_pages` | 2 applications, 1 id, 1 address, 3 pages, 2 calls, 1 fault, 2 changes, 2 dumps, fair | stops hit what was named, lists catch up, "is set up" is earned, no dump is hidden from its page |
| `gate` | 17 pages, 3 roles, 1 name, 2 tries, threshold 2, store of 2, 2 ticks, fair | pages are granted what they ask for, redirects end, overlapping tries cost a window each, no failure opens a lock |

One run ends in a counterexample against a sentence of the repository:

`reconciler_stop_beaten`: a pass has read the rows; an operator stops a task; the
pass finds it missing and starts it again. The row is gone, so nothing in the
console knows of the task. `push/stop/route.ts:16-17` says the reconciler must not.

More configurations can be run by hand, each with one property that the code does not
have; TLC finds the counterexample:

| Configuration | What happens |
|---|---|
| `poller_blind` | OME goes away between the list and the details. Every detail fails and is skipped, and a snapshot with `apiOk` and no stream is published: what `stats-poller/index.ts:111-115` wants to avoid. |
| `alerts_lost_resolve` | An evaluation waits for its "resolved" mail; the stream returns, fires again and is told; the first evaluation then deletes the candidate. The end of the second fire is never told (`alerts/index.ts:168-174`). |
| `push_alerts_false_resolve` | One `listPushes` fails, counts as empty, and the clean-up resolves alerts of tasks that are still down (`alerts/index.ts:231-232`). |
| `accounts_deleted_login` | A login has read its row; the user is deleted while bcrypt runs; the login gets a session of twelve hours. `users/page.tsx:210` says the user "will no longer be able to log in". |
| `accounts_stale_change` | A change of the own password overwrites a reset that an engineer made while it was being hashed. |
| `setup_half` | After the last step the process ends and starts again in the container of before, say after a crash: it finds the flag in the mounted file and blank secrets in its environment. Setup is over without a session secret. `proxy.ts:106-107` says that a half-configured instance cannot be stumbled into. |
| `reconciler_stale_config` | Two rows of one task: the older configuration is applied first and wins; `desiredState.ts:33` inserts although its name says upsert. |
| `publish_keys_revoke` | A refused revoke marks the row as revoked, and the key goes on being valid, though the dialog says that the holder will no longer be able to publish. |
| `task_pages_dump_stuck` | The stream of a dump ends; the page keeps the id, and the button that says "Stop dump" is refused from then on. |
| `gate_nav_logs` | The sidebar shows viewers the item of the logs (`Sidebar.tsx:133-141` names no role, and `13-14` says that means every role; `help/page.tsx:343` says so too); the proxy makes it the operators' and leads them home. |

Some definitions of the modules say what the code does not promise in so many words,
and are not kept by it either; with a run's configuration and the property in place of
its own TLC shows how: `FlagStands` (`reconciler_healing`, with two faults and
one kind of task: the failure flag belongs to the stream, so a healthy task clears that of a
failing one), `OldestFirst` (`poller`, `Window = 2`: samples out of order,
`types.ts:35`), `StaleOnlyWhileOk` (`poller`: a stale mark on the snapshot of a server
that is down, `types.ts:48-51`), `Continuous` (`alerts_streams`: an evaluation that waited judges an
older snapshot after a newer one), `ToldOnce` (`alerts_streams`: two evaluations tell one event, as one of them waits),
`OwnIsSpared` (`accounts`: a session deletes its own account by another spelling of its
id), `NoStepIsSkipped` (`setup`: a late status jumps to the first missing step while the first
form is pending and `next()` counts on from there, so that the wizard finishes without an
OME token or a session secret in the file), `OneFirstAccount` (`setup`: two account steps in bcrypt make two engineers), `SavedIsApplied`
(`setup`: after a restart in the same container a blank password keeps one that
only the file has), `SaysNewSecret` (`viewer_links`: the dialog says that the links were re-issued "with
the new secret" whenever the route answered, also when the console has not been restarted
and signed with the old one), `CheckedWasUp` (`viewer_links`: the feed is older than the check),
`DoneNamesIt` (`task_pages`: the form is edited while the click is under way),
`StopsWhatItShowed` (`task_pages`, two addresses: the id was stopped and started again
with another address), `DrawerFitsRole` (`gate`: a stream's drawer offers viewers
what the proxy refuses) and `ShownRoleHolds` (`gate`: another tab changes the session
under a drawn layout; `CurrentUserProvider.tsx:13-16` says the role "can't drift").
`NoGap`, which `reconciler_healing` checks with one request at a time, fails with two: a
start is recorded after the stop of the same task.

Where the properties stop:

* `DesiredTasks` lets a crash of the console lose what OME has accepted or stopped and the table does not
  say yet (`ConsoleCrash`), because the code does. The marks of erroring tasks are not in it; they are
  `AlarmsClear`.
* `ToldMatches`, `KeepsPromise` and `BaselineStands` of `StreamAlerts`, and `ToldMatches` of
  `PushAlerts`, end at the first wait for a mail. Before it the evaluations of snapshots do not overlap, those of push
  tasks do. After it `FiringWasTold`, `LastingConditionFires`, `DownIsTold` and `StoppedIsForgotten` go
  on; `ToldOnce`, `Matching` and `Continuous` are what fails then.
* `server-load` (`server`) is in the module, but the run has a low load: no property is about it.
* A dump whose start's answer was lost belongs to no page (`Disown`), so that `DumpIsOnButton` says
  nothing of it; the answer is lost when the browser does not get it. A route that answers with an error
  has not made OME do anything (`Refuse`): that OME carried out a call whose answer the route lost is not modelled there.

### Bounds, and why they are enough

* Two of everything that overlaps: each interleaving property is about what one
  actor does to what another has read. A third pass or evaluation adds no kind
  of step; `alerts_lost_resolve` uses three because its counterexample is
  shorter with them. The proofs below do not depend on these numbers.
* `MaxRows` 2 lets a task be stopped and started again with another
  configuration. `MaxFaults` bounds restarts, refusals and lost answers;
  liveness is about what happens after the last of them.
* `MaxPollAge` and `MaxAge` bound how many ticks a poll, an evaluation or a mail may take: with 2,
  a poll is overtaken by two later ones. A threshold of 3 failures
  is the code's; a window of one tick stands for the ten minutes of samples.
  Rule durations of zero, one and two ticks keep the order of the code's. `Gaps` of 0, 1 and 2 ticks
  are less than, as much as and more than a duration.
* Three rows and two logins let an account be deleted and its name be taken
  again while a session of the first one lasts.
* `Setup` needs no bound: its values are finite. One mail server with two
  passwords is enough to tell replaced settings from current ones.
* `MaxCalls` 2 lets any two calls of a page overlap, and a third begin when one
  of them ends; all the properties of pages are about one call and what another
  did since it was sent. `MaxKeys` and `MaxLinks` 2: a row and one that could take its
  place. `MaxChanges` bounds what others do in `TaskPages`, so that the list can
  be asked to catch up afterwards.
* `Gate` follows one name with two overlapping tries; the cap of the store is
  two, so that the followed name and one other fill it. Threshold 2, Base 1 and Cap 4
  let locks be doubled and capped within the two ticks, as 5 failures, 30 seconds and
  15 minutes do in the code.
* `CHECK_DEADLOCK` is on in all runs.

### Fairness

The timers of `setInterval` keep firing; an HTTP call or a mail ends with an answer or
an error (Node's sockets time out); OME and the console are restarted by Docker
(`restart: unless-stopped`). Nothing assumes that a call succeeds while OME is
free to refuse it: a fault uses up one of `MaxFaults`. Operators, streams and
OME's own changes are never fair. The timers of the pages fire too, the
routes serve calls and the answers arrive. The poll of `TaskPages` has strong fairness, because
`MaxCalls` can hold it back, which no browser does. `StreamAlerts` has strong fairness too: snapshots with time
between them keep coming (`setInterval`; without it all could come in one tick), and an
evaluation whose mail has ended gets the thread, whatever snapshots come meanwhile. In `Gate` a request is carried
out and its page drawn; the operator opens no page before that.

## 4. Theorems

All are for arbitrary values of the constants, under the `ASSUME`s of the modules
(the maps are total, the bounds are numbers, `None` and `Nil` are not values, what is under way is finite). TLC evaluates the
assumptions in the runs.

* `ReconcilerProofs`. `TypesAndFlight`: types, and `InFlight`, by induction with
  `TypeOK /\ InFlight`; `WalkType` says what the walk shared by all passes
  preserves. `ImplementsPromise`: `Spec => KeepsPromise`, step by step under the
  refinement mapping (rows as jobs, answered requests as `accepted` and
  `dismissed`, the snapshots of passes as `healing`). It needs `InFlight`: a
  restart is a `Heal` only because its row is in the pass's snapshot.
  `SingleOperatorNoGap`: with one request slot and no fault so far, `NoGap`.
* `SnapshotProofs`, of `StatsPoller`. `StaleMarkEarned`: a stale mark is backed by a full
  count or by a poll between its list and its publication, for any number of
  polls. The history is not needed, so the induction is over `PollsOK`.
  `HistoriesStayBounded`: a history never exceeds what the window and the longest poll
  allow. Each append cuts what the window does not reach, but its own age may be large, so that the bound
  does not follow from one step. It follows from the ages being different: `PollsApart` (two polls
  under way began at different ticks), and `SamplesApart` (so did the samples of a history, and a poll that
  may still append has not yet, so its age is not among them). What an append leaves are then
  different numbers below `Old`, and the library's theorem on injections bounds their number. What `Kept`
  builds is found by a least counterexample (`CanBuild`, `BuildsKeeps`): it is a recursive
  function. TLC checked the invariant with two streams (7.9 million states) before it was proved.
  `ConvergedStays` and `FrozenMarkStays` are the safety halves of `SnapshotConverges` and
  `FrozenIsMarked`: that the poller gets to a state in which the snapshot shows OME's streams and so
  will every poll past its list (`Shows`), or is marked with no older poll left to publish
  (`Frozen`), needs fairness and stays with TLC; that no poll, however slow, leads out of it again
  while OME stays as it is, is proved.
* `PushAlertsProofs`. As long as nobody has waited for a mail, an evaluation that judges or
  cleans up keeps the thread (`Alone`), so that the candidates its clean-up holds are
  those of the map. `Quiet` says then of each task that the log tells what its candidate
  says, but for one whose end is `Announced` and whose candidate is about to be dropped:
  without that exception the invariant breaks between the notification and the
  deletion. From it follow `TypesHold` and `ToldOnceAndTruly`.
* `SnapshotProofs`, of `StreamAlerts`. `FiringWasAlwaysTold` holds whatever waits: a candidate that
  fires was told, or the clean-up that told its end still holds it, because a
  candidate that is taken out of the map takes its firing along (`Detach`). The others
  are about behaviours in which nobody has waited for a mail yet. An evaluation then keeps the
  thread to its end (`Quiet`), and the log differs from the candidates only where an end was
  `Announced`. That "since" is exactly the time of the first snapshot of the current row, and that a row as long as
  the rule's duration fires (`Fine`), breaks with every new snapshot, so the invariant (`Steady`) says who sets it right: every other
  candidate is one the evaluation `Owes` a check or a removal; `SweptTo` says what is left
  when the rules up to `sweep` are done, `Noted` that the snapshot under evaluation is
  the newest. From it follow `ToldOnceAndTruly`, `SinceMeansSince` and `OneBaseline`.
  `KeepsAlertPromise`: `Spec => KeepsPromise`, step by step under the refinement mapping. A new
  snapshot is a `Look`, allowed only because nothing is owed then and all is told; a
  check or a clean-up is a `Fire`, a `Resolve` or a stutter, as the `Exact` age of the
  candidate decides (`CheckTells`, `SweepTells`); what becomes of other rules is a stutter.
* `PublishKeysProofs`. The page and its calls carry copies of rows, of any age. The
  invariant says of each that it is `Known`: its id was given out, and the row that is
  under it, if there is one, has its slot and expiry. It is kept because an
  id is not given twice. From it follow `TypesHold` and `HitsTheShownKey`. `PageStaysCaughtUp`
  is about what `PageCatchesUp` leads to: when the page shows the table and no answer from before its
  last change is on its way (`CaughtUp`), polls, clicks and answers in any order leave it so.
* `ViewerLinksProofs`. What a re-issue has read `Covers` the table until it writes:
  every link that can still be watched is among its rows, or has the console's secret
  already. `Grows` is what any step may do to the table meanwhile; a restart, the one
  step that changes the console's secret, ends the handlers. `LaterDay` gives that the
  comparison of dates as texts takes every such link. From it follow `TypesHold`
  and `NothingLeftBehind`. `DeletedForGood` needs `IdsGoUp` beside it: ids
  are given in their order and a re-issue writes over rows that are there, so a link
  that is gone is never under any id again.
* `SessionProofs`, of `Accounts`. A copy of a row, in a token or a request, may be of a row
  that is gone. The invariant says of every copy that its id was given out and
  that the row with that id, if it is there, has its name and role (`Knows`).
  It is preserved because ids are fresh and only passwords are updated
  (`Evolves`); what is newly copied was known before (`KnownBefore`) and what is
  known stays true (`KnowsForGood`). From it follow `KeysAreUnique`,
  `SessionsAreTruthful`, `LastEngineerStays` and `HashesFindTheirAccount`.
* `SessionProofs`, of `LoginLock` and `Gate`. For `GuessesAreBounded` every name has an
  account (`Within`): some number k of the promised locks can be over by now, and the
  failures are within k windows of tries; while the name is locked the tries that are
  past its lock are on the account already, and the lock lasts at least to the end
  of the k-th. So a failure, in whatever order it comes, moves a try that was paid for, and
  a window is only added when the clock passes a lock. `LockShape` (a lock is no longer than
  its failures have earned) gives `NoFailureOpensALock`, since a later failure earns at
  least as much. Both need that `Doubled` and `LocksSum` grow, by induction: `LeastOne` (a
  least counterexample, from the library's well-founded induction without an operator
  parameter) and `NatRecursion` (a first value and a step define a function). They assume
  that finitely many tries are under way. `PagesMayCall` rests on `LetIn` (a page that
  is past the proxy was granted to the session it came with, which holds while other tabs
  change the cookie) and on `RulesAgree`, about the tables alone: a role that may see a page
  may make its calls. `GateTypesHold` holds besides.
* `SetupProofs`. The last step of the wizard checks nothing, so that there is an
  account has to be carried through the pages: a page past the first form, about
  to jump past it, or with an answer has seen an account (`Passed`). That setup
  stays over needs that the process has the flag only if the file has it, while the
  container never does, and that all three have the same admin (`Ordered`). From
  both follow `ReadyPagesAreTrue`, `FinishedWithAccount` and `WizardIsOff`; and
  `TransporterStaysCurrent`.

* `TaskPagesProofs`. A page knows of its calls only through its disabled buttons, and
  its calls know nothing of the page: the invariant is what the two still agree on.
  A button is disabled exactly while one call of its page is under way (`Guarded`), which
  also says that there is only one. Every queued click carries what it was asked for,
  and what it has brought about so far and has `Left` to do add up to that (`AddsUp`). An id
  names one dump, be it running, on its way or on the button (`OneDump`): this
  needs that the id is fresh at the click, and that a page has at most one tool call under
  way. Leaving the page and losing the answer to a start are the two steps that keep it
  only because the dump is then nobody's (`Disown`). From it follow `TypesHold`,
  `SetUpMeansQueued` and `NoDumpIsHidden`; `StopsReachTheNamed` needs only that a stop names
  the application of its task. TLC checked the invariant on the instance of `task_pages.cfg`
  before it was proved.

Only model-checked: everything under fairness (`DesiredIsHealed`, `AlarmsClear`,
`FrozenIsMarked`, `SnapshotConverges`, `LastingConditionFires`, `DownIsTold`,
`StoppedIsForgotten`, `PageCatchesUp`, `ListCatchesUp`, `NavigationSettles`), because
the prover has no rule for `ENABLED`. What the poller and the page of the keys do
once they have got there is proved. Every other property of the runs is a theorem.

## 5. What is not modelled

Thin handlers that forward one request to OME (profiles, virtual hosts, channels, stream
events, pulls), single-statement tables that nothing reads back (presets, the server
registry, the audit log), read-only views (the live feed, the status routes),
rendering and logs: no state of the program depends on them. The pages of profiles, hosts,
channels, users, servers and statistics repeat the list, form and dialog of the task pages
and of the keys; what they call is in `Gate`. The presets of `push/page.tsx` and of
`access/page.tsx` are lists that are loaded once. Wall-clock jumps (`Date.now()` going
backwards) are left out. Several console processes on one database are left out: the
program is deployed as one.

## 6. What could come next

1. The promise of `AlertPromise` for the frame-rate rule, with readings that do not count, and for
   the push-down rule, with lists of any age.
2. `TaskPages` over the handlers of `Reconciler`, so that a stop on the page meets a
   pass that restarts its task.
3. The pages of channels and hosts, whose forms send several requests in a row.

# AI-Codebase-Copilot: a TLA+ verification project

This directory models the parts of AI-Codebase-Copilot whose correctness depends on order, failure and concurrency:
the life of indexing jobs, the pipeline that keeps Postgres and Qdrant in step, the protocol by which a plan is
approved, turned into a patch, applied and rolled back, the guards that several calls pass at once, and the code of the
browser, where cached copies, streams, timers, two windows and late answers meet. TLC checks the models on small instances;
TLAPS proves the main safety results for every value of the constants.

All paths are relative to the repository root. "service.py" is `backend/app/api/v1/repositories/service.py`, "router.py"
is `backend/app/api/v1/repositories/router.py`; files `use-*.ts`, `*-panel.tsx` and the like are under `frontend/src`.

## 1. The system

A FastAPI server (one uvicorn process, `backend/run.py`) and RQ workers (`backend/run_worker.py`) share Postgres, Redis
and Qdrant; a Next.js frontend talks to the server over HTTP and server-sent events.

```
 browser --HTTP/SSE--> API process --INSERT--> Postgres <--UPDATE-- RQ worker
                           |                      ^                    |
                           +----enqueue--> Redis -+--RQ, lock ---------+
                           |                                           |
                           +--search--> Qdrant <----upsert / delete----+
                           +--git, files--> repository working tree <--+
```

| Component | State | Operations | What is hard | What makes it correct |
|---|---|---|---|---|
| Job queue and worker: service.py, `queues/indexing_queue.py`, `workers/indexing_worker.py`, `api/v1/webhooks` | rows of `indexing_jobs`, the RQ queue, daemon threads | `queue_repository_indexing`, `trigger_repository_indexing`, RQ re-run, webhook | check and INSERT are separate transactions; enqueue may fail after it took effect; workers die and are re-run; the UPDATEs of a row have no condition | one run in the pipeline; rows tell the truth; every job ends |
| Repository lock: `services/cache_service.py` | Redis key with owner token and TTL, a lock per process, the breaker's view of Redis | `repository_lock` | Redis availability is read once; the release may be lost; the TTL may pass | whoever indexes owns the lock |
| Indexing pipeline: `services/indexing_service.py`, `services/indexing_helpers.py` | `repository_files`, `code_chunks`, Qdrant points, `repository_snapshots`, the working copy | `index_repository` in full, incremental and repair mode | each step commits alone; files are read twice; Qdrant fails in the middle of a batch; the next run trusts what the last one left | the two stores agree; an incremental run loses nothing; a full run rebuilds |
| Change sets and patch drafts: `services/change_set_service.py`, `api/v1/change_sets/router.py`, the patch routes of router.py, `services/conflict_service.py`, `services/snapshot_restore_service.py` | `change_sets`, `act_patch_drafts`, the working tree | plan, edit, approve, act, cancel, rollback; create, validate, apply, delete a draft | a row is loaded, then written without a version check; ACT awaits a model between the two; async handlers share one event loop and block it on a row lock | what runs was approved; what counts as approved was validated; what is said to be applied was written; terminal statuses stay |
| Retry and circuit breaker: `core/resilience.py` | breaker state, failure count, time of opening, per process | `call`, `retry` | late answers of calls admitted before the breaker opened | a broken service is not hammered, a recovered one is used again |
| Rate limiter: `core/rate_limiter.py` | Redis counters, deques in memory | `allow` | INCR and EXPIRE are two commands; two stores with different windows | no more than the limit per window, and no client blocked for ever |
| Admin invites: `services/admin_invite_service.py` | `admin_invites` | create, validate, mark used, revoke | two registrations with one token | a token is used once |
| Snapshot retention: `services/snapshot_retention.py` | `repository_snapshots`, chunks, points | purge of old snapshots | runs against an active index | pinned and latest snapshots stay |
| Chat routes: `api/v1/chat`, `services/query_service.py` | messages, sessions with a metadata object, usage, titles | ask, stream, persist, list, patch, delete | a stream is stored when it ends, or in part when it is aborted; a PATCH replaces keys of the metadata | what the client saw is what is stored |
| Studio store: `studio-store.ts` and the tab bar | repository, session, patch, sidebar, tabs in a Zustand store and in localStorage | select, open, close, persist, merge | five fields must move together through every function; a reload keeps some of them | the fields agree; a reload takes back no selection and no tab |
| Studio address: `use-studio-url-sync.ts`, `studio-page-client.tsx` | the URL, the effects and a 300 ms timer | read the URL into the store, write the store into the URL | each overwrites the other, with closures of an older render | they settle and agree |
| Chat client: `use-chat.ts` | messages, a stream, the history in the query cache, a 500 ms window | send, stop, stream events, switch, merge | late events of an abandoned stream, merges of two lists by position | an answer stands under its question; the page catches up with the server |
| Session context: `use-session-scope.ts`, context panel, composer | one metadata object, its cached copy, PATCHes under way | toggle and remove paths and files, count usage | every PATCH carries the whole cached object | no change is lost once its refetch is due |
| Session list: `studio-session-sidebar.tsx`, `studio-v2-shell.tsx` | two cached lists, single rows, the chosen session | choose, begin, pin, archive, rename, delete | three copies of a row, answers in any order | the list comes to show the server's rows |
| Change-set and patch pages: `plan-workbench.tsx`, `patch-editor.tsx`, `use-change-sets.ts` | three cached copies of a change set and its draft | approve, act, review, apply, roll back, delete | requests under way when the page closes; invalidation by key | the page comes to show the row; polling ends |
| Log-in in the browser: `lib/auth.ts`, `auth-store.ts`, `client.ts`, `app-providers.tsx`, `middleware.ts`, `onboarding-store.ts` | storage and cookies shared by windows, a store per window | log in, register, log out, 401, expiry, a change of role, the tour | two windows write one storage; a 401 answers a request of an older token; a role changes while its cookie lives | the role is the one given with the token; the tour opens once |
| Notices: `use-repositories.ts`, `use-index-job-progress.ts`, `notification-store.ts`, `use-*-notifications.ts` | polled queries, optimistic rows, the bell and its dismissed keys | start, poll, raise, dismiss | two hooks raise a notice for one end; polling depends on what is cached; both lists have a cap | the end is noticed, and once |
| Fetching panels: file pane, explorer list, text search, snapshot comparison | the key a panel is for, its content, requests under way | change key, load more, search, compare | answers come after the key has changed | content is that of the key |
| Validation engine and sandbox, retrieval, context budget, LangGraph workflow, embeddings, language models, Qdrant client, parsing, dashboard, schema | none that outlives a call, or single statements | | | modelled only as outcomes of the steps that call them |

How they interact: a webhook, the index route or the apply route calls `queue_repository_indexing`, which inserts a row
and enqueues a job; a worker (or a thread of the server) takes the repository lock and runs the pipeline; the pipeline's
result settles the row. PLAN answers of the chat become change sets; ACT asks the same query service for a patch; applying
a patch writes the working tree that the next indexing run reads. In the browser the store, the address and the query cache are
joined by effects: the chosen session decides what chat, context, list and plan pages fetch, a mutation's answer writes or
invalidates the cached copies of others, and the log-in of a window decides whether any of this is sent.

## 2. Modules

| Module | Models | State and actions |
|---|---|---|
| `RepositoryLock` | `CacheService.repository_lock` | `redisLock`, `localLock`, `available`; acquire and release of either form, a lost release, expiry |
| `IndexingJobs` | job rows, queue, runs; instantiates `RepositoryLock` with a token per attempt | `req[j]` is the stage of the request that may insert job j, `status[j]` the row, `run[j]` the stage of its run. One action per statement that commits or calls out: `CheckCommit`, `CheckActive`, `InsertJob`, `DispatchQueue` / `DispatchThread` / `EnqueueRaises` / `EnqueueReplyLost`, `MarkRunning`, the lock's actions, the pipeline's two outcomes, `Finish`, `MarkFailed`, the failures of each UPDATE, and the death of a process |
| `JobLifecycle` | the abstract life of a row | pending, running, then completed or failed, once |
| `IndexPipeline` | `_index_repository_locked`, `upsert_file_records`, `create_snapshot` | `disk` is the working copy, `fileStatus`/`fileHash` the rows of `repository_files`, `chunks` and `vectors` the ids in the two stores; `pc` walks through record, mark, select, chunk, store, publish, collect, withdraw, discard, snapshot. Each step has its failing variants, and `Crash` may follow any; `MarkDeleted`, the statement for the rows of deleted files, always fails (a tuple bound to `IN :paths`), is logged and leaves the rows |
| `TwoStores` | what writers of the two stores promise | store, publish only stored rows, withdraw, discard only withdrawn rows |
| `ChangeSets` | change sets, drafts and the working tree of one chat session | a request is a client `k` that first loads a row (`seen[k]`) and then commits it; a commit writes only the columns that differ from what was loaded (`Emit`), as SQLAlchemy does. `lock[r]` is the row lock that `start_act` holds from the flush of ACTING until the answer is recorded; `loop` is the server's event loop |
| `StudioStore` | every function of `studio-store.ts` on selection, panels and tabs, with persist and merge | `studio` is the state, `saved` the storage key. A function of the store is an operator from state to state; `ReloadPage` reads `saved` back, and no more than the merge does: the callback of `onRehydrateStorage` runs inside `create()`, before `studioStoreBase` is assigned, and throws |
| `StudioUrl` | the two effects, the timer and the router; extends `StudioStore` | `due` holds the dependencies whose effect has not run, `timer` the closure of the pending `updateUrl`, `nav` the replacement not committed |
| `QueryCache` | one entry of TanStack Query as the hooks use it | `data`, `invalid`, `flight`: the answer on its way, read when the server handled the request |
| `ChatSession` | `use-chat.ts` against the chat routes | `messages`, `stream`, `isSending`, `historySync` are the hook's; `stored` and `owner` the server's; `history` the cache, one page of the oldest `HistoryLimit` messages; effects are pending in `chatDue` |
| `SessionScope` | the metadata object and its PATCHes | `meta` on the server, `scopeQuery` in the cache, `writes` under way, `turn` the streamed turn that writes usage |
| `SessionList` | sidebar, shell and the rows of sessions | `sessionRows` on the server, `lists` and `singles` in the cache, `rowRequests` under way |
| `PlanReview` | plan page and patch editor | `rows` and `drafts` on the server, three cached copies, `requests` under way with the component that sent them |
| `ClientSession` | log-in, windows, middleware, tour | `roles` on the server; `storage`, `cookies`, `tours` shared; `win[t]`, `login[t]` of a window; `calls` with the token they carry |
| `JobNotices` | starting, polling and announcing jobs and patches | the server's `jobStatus`, three queries, what each hook saw last, `bell` and the newest `MaxDismissed` keys of `dismissed` |
| `PanelFetch` | four panels that fetch into state of their own | for each the key it is for, what it shows and the requests under way |
| `Guards` | circuit breaker, admin invites, rate limiter | `breaker`/`failures`/`underWay`; rows of invites and accounts with the steps of registrations between commits; Redis counters and a deque per process |
| `Filter` | `Array.prototype.filter` as the store and the merge use it | `Filtered(list, kept)`, a sequence built without recursion, so that it can be proved about |
| `MC...` | instances for TLC | model values, symmetry; `MCParts` puts the modules of the browser and `Guards` side by side |
| `...Proofs` | proofs about the module of that name; `StudioProofs` about `StudioStore` and `StudioUrl`, `ChatProofs` about `ChatSession`, `BrowserProofs` about the other modules of the browser, `PartsProofs` about `Guards` and about `MCParts` itself | |
| `SequenceLemmas` | what `Filtered` and appending return, used by the proofs of the store, the chat and the bell | |

Abstractions. A commit label, a content and a chunk are model values; a file yields one chunk, whose id is the triple
(commit label, path, content) that the code hashes. A plan is a number; `approval` holds the number of the plan its
approver had loaded, where the code stores only the time and the name. A draft has one file. The validation's verdict and
the model's answer are nondeterministic. In `IndexPipeline` the lock is taken for granted: `IndexingJobs` shows when that
is right. The modules of the browser take a request of another component in one step, or in two where a page can see
the middle; `ChangeSets` has the detail of what `PlanReview` calls. An effect runs after the render that follows a change and before
the next event of the user; timers, answers and navigations come at any time. In `ClientSession` the role that /me answers with is read when the answer
arrives, and the administrator who changes a role is any other account that has the right.

Auxiliary variables, read by properties only: `indexed`, `raced`, `revived` (IndexingJobs), `health`, `hurt`
and `gone` (IndexPipeline; `gone` holds the deleted files whose chunks a run removed and none stored again), `passed`, `written`, `overwritten` (ChangeSets). `overwritten` collects the rows that a request wrote, or
went on with, after others had changed them since it loaded them. In the browser's modules each flag marks a case in which the code
does leave a page behind, so that the property holds of all others: `gap` and `skipped` (a send that did not end as one
stored pair; news hidden by the window, or an older history taken for fresh), `behind`, `unseen`, `missed` (a row changed with no refetch due), `raced` (a job put into a
list whose first answer was under way), `crossed`, `overtaken`, `lateDiff` (a late page, search or file). `toured`, `noticed`,
`asked`, `admitted` and `users` only record what happened, and `granted` the role that /me gave with each token.

## 3. Runs

| Run | Instance | What it shows |
|---|---|---|
| `Jobs_prod` | production, 2 requests (1 webhook), 2 workers, 1 re-run, 1 crash, 1 database failure, 1 Redis outage | only one run is in the pipeline and it owns the lock; one active job unless requests overtook one another; a completed row was indexed, an active one is in somebody's hands unless a statement failed or a process died |
| `Jobs_thread` | development with threads, 3 requests | the rows implement `JobLifecycle` |
| `Jobs_live` | 2 requests, 1 worker that may die, an outage, the database answers, `FairSpec` | every inserted job ends |
| `Jobs_race` (violated) | 2 requests, nothing fails | both pass the check, both rows are active |
| `Pipe_safe` | 2 files, 2 contents, 2 labels, 3 runs, 2 edits, 2 faults or crashes | the stores follow `TwoStores`; undisturbed runs index faithfully, but for deleted files, of which nothing is found until their path is chunked again; full runs rebuild; empty runs remove only what deleted files had |
| `Pipe_retry` (violated) | 2 runs, 1 fault | a retry after a failed Qdrant sync ends with rows that have no vector |
| `Pipe_return` (violated) | 2 files, 3 runs, 2 edits, no fault | a file that is removed and comes back unchanged is found by no search, and the run says "up to date" |
| `Pipe_suffix` (violated) | 2 files, one a suffix of the other's path, 1 edit | cleanup of `a.py` takes `src/a.py` along |
| `Act_safe` | 2 change sets, 1 draft, 2 concurrent requests, 2 plans, restarts at any time | approval, validation, apply, terminal statuses and an abandoned ACTING stay truthful for rows that no request overwrote; a blocked event loop stays blocked until a restart |
| `Act_plan` (violated) | 1 change set, 2 requests | ACT starts on an edited plan that nobody approved |
| `Act_delete` (violated) | 1 client | an applied draft is deleted |
| `Parts_safe` | the parts below, one active in a behaviour | eleven invariants and ten action and liveness properties of the browser's code and the guards |

`Parts_safe` by part: **store**: `TabsAgree`, `ReloadKeepsWork`. **url**: `QuietAgrees`, `UrlSettles`. **chat**:
`SendingMatchesStream`, `AnswersUnderQuestions`, `ChatCatchesUp`. **plan**: `PlanCatchesUp`, `DraftSettles`. **scope**:
`ScopeCatchesUp`. **list**: `SessionListCatchesUp`. **session**: `RoleIsOfToken`. **jobs** and **patches**:
`ListsCatchUp`, `EndIsNoticed`, `DismissedStaysGone`. **pane**, **tree**, **compare**: `PanelsShowTheirKey`. **search**: `SearchSettles`. **breaker**:
`BreakerCloses`. **invites**: `OneAccountPerInvite`. **limit**: `WindowLimit`. The parts share no state, so a behaviour chooses one of them and
leaves the others at rest: the states add up instead of multiplying. What they do share in the program, the chosen repository and
session, each module changes by actions of its own (`StudioUrl` is composed with `StudioStore`, since there both write it).

Why the bounds are enough. The hazards of the queue need two jobs (a race, a lock contended, a re-run against a new
job) and one failure each; the third request of `Jobs_thread` lets a refused and an accepted one follow a settled one. In the
pipeline what one run leaves for the next needs two runs, and the repair of it a third; two files separate what belongs to
one path from what belongs to all, and two edits make a content change and change back. Two requests are what a lost
update needs, two plans what an outdated approval needs, and two rows what the choice of the latest one needs. All
environment budgets (`MaxCrashes`, `MaxDbFailures`, `MaxFlips`, `MaxEdits`, `MaxFaults`, `MaxRuns`, `MaxPlans`) only bound
the runs: the proofs hold for every value. `Pipe_*` runs turn the deadlock check off, since the model stops when its
runs are used up; `Jobs_*` and `Act_*` keep it.

In `Parts_safe` two repositories and two sessions let an answer belong to the one left behind; two files and one patch fill a
tab bar of two (`MaxTabs`; 15 in the code), so that opening a third tab evicts one; two texts, two sends and two moves of the session (`MaxSends`,
`MaxMoves`) let an answer meet the question of another text or session; two clicks (`MaxClicks`, `MaxListClicks`, `MaxScopeClicks`), a turn (`MaxTurns`, `MaxScopeTurns`) are what two overlapping requests
need; three picks (`MaxPicks`) let a link, a choice and another link follow each other; a page of history
(`HistoryLimit`, 100 in the code) has room for both turns; two windows, two users and two log-ins (`MaxLogins`) let a token of one user meet a window of the other, with a visit and a call each (`MaxVisits`, `MaxCalls`)
and one change of role (`MaxRoleChanges`), before or after a log-in of its user; one reload (`MaxReloads`) and six
patch steps (`MaxPatchSteps`) let a patch fail, be repeated and end; three searches (`MaxSearches`) are one that is late, one that overtakes
it and one that settles; three pages and four changes of key (`Pages`, `MaxChanges`) let a page be asked for under an old key. `MaxNotices` is 1 (50 in the
code), so that the bell overflows, and `MaxDismissed` 2 (500 in the code). A threshold of two failures, two calls, two cancellations (`Threshold`, `MaxCancels`) and a window of two
ticks with three of them (`Window`, `MaxTime`) show every state of the breaker and a change of window. `MCParts` names six more:
`OneSession` (the list starts with one session), `OneStudio` (alone, the store chooses among one repository and one session; the url part has two) and
`FormsInFirst` (the second window shows pages and calls, but its log-in form is not used); in the chat part
`FirstTextFirst` and `FirstSessionFirst` (of two texts or sessions that differ in name only the first is used first) and `SecondMoveSelects` (the second move is the
choice of another session, the first may be any); the chat starts in the first repository, the plan part shows the first
session, whose names alone distinguish them. The deadlock check is off: a page at rest is no error.

Fairness. `FairSpec` assumes weak fairness of a request's steps, of a started run's steps and of an idle worker taking a
job: a handler that has begun runs on its thread to its end, and an RQ worker loops over its queue. Nothing is assumed of
crashes, failures, outages or of the lock's expiry, and the budget of database failures is zero: when the last UPDATE fails the row
does stay active for ever, since the job timeouts in `core/config.py:89-91` are read nowhere and nothing reaps rows.
The lock's TTL (3600 s) exceeds the RQ job timeout (2700 s and 60 s until the kill), so `LockExpires` is possible only once
the process is gone, or for the threads of the server, which have no timeout.

In the browser, fairness is assumed of what the runtime does by itself: effects run after a render, a timer fires, the router
commits, a shown entry of the query cache that is empty or invalid is fetched, and a request is answered, if only with an
error (fetch rejects when the connection breaks). Nothing is assumed of the user. `UrlFairness`, `ChatFairness`, `PlanFairness`, `ScopeFairness`,
`ListFairness` and `JobsFairness` list these actions; in `JobsFairness` a job also makes progress, which is what `Jobs_live` shows of the server.
`BreakerFairness` lets the recovery time pass, calls keep coming and each end: without a call no state of the breaker changes, as it is evaluated on entry only.

## 4. Findings

Six runs end in a violation that contradicts a text of the repository; PROJECT.json quotes the text.

1. `Jobs_race`: two requests insert two active jobs, against the 409 that the API documents for it. The lock keeps the
   pipeline exclusive all the same (`Jobs_prod`).
2. `Pipe_retry`: hashes and rows are committed before the Qdrant upsert. After a failed upsert the message says to retry, but
   an incremental retry finds nothing changed and ends as "up to date"; only a full or repair run restores the vectors.
3. `Pipe_suffix`: chunk rows are matched with `path LIKE '%/' || rel`, so a re-indexed or deleted `a.py` takes the chunks of
   every `.../a.py` along, and later incremental runs see no reason to restore them.
4. `Act_plan`: an edit and an approval that load the row together both commit, and the approval stands beside the edited plan.
5. `Act_delete`: `create_snapshot` is `async` and `apply_patch` calls it without `await`. The draft then holds a coroutine as
   a snapshot id, and no commit of the draft can succeed. Either `queue_repository_indexing` is the first to commit, fails, rolls
   back and is only logged, whereupon the route settles the change set and answers APPLIED; or queueing was refused and
   the route answers 500. In both cases the files are patched and no draft is ever APPLIED, so the delete route's refusal never
   applies. The unit test replaces `create_snapshot` by a plain function.
6. `Pipe_return`: the UPDATE that marks deleted files binds a tuple to `path IN :paths`, which raises on psycopg 3 and is only logged. The cleanup of the same
   run removes the chunks of these files, their rows stay INDEXED with their hashes. A file that comes back unchanged, as after a change of branch and back, meets its old
   hash: it is not chunked, and the run ends with "Index up to date". A full run repairs it.

Met while modelling, without a run of their own: a worker that dies in the pipeline leaves its Redis lock for up to an hour, so
RQ's re-run usually finds it taken and fails; a full run that yields no chunk skips the cleanup;
a file that turns from INDEXED to SKIPPED keeps its chunks; a content that changes to and fro between the two
reads leaves a stale chunk; the snapshot of an up-to-date run is not recorded;
drafts of ACT carry no `content_hash_before`, so applying one that changes an existing file always reports a conflict; a second
POST /act for a change set under way blocks the event loop on the row lock, and with it the request that holds the lock, until a restart (proved: `BlockedLoopStaysBlocked`);
ACTING that was committed stays after a 400 of the validation or a restart, until it is cancelled; a rollback is recorded also
when `git show` failed; `mark_applied` and `cleanup_expired_drafts` have no caller.

The same of the browser. *Studio*: zustand 5 reads localStorage inside `create()`, so the callback that restores the active file and migrates older keys (studio-store.ts:507-531) runs before
`studioStoreBase` is assigned, and throws: after a reload the tab of the file is active and no file is, against docs/frontend.md:112, which lists the active file among what is persisted; a session picked in the sidebar, or a new chat, is undone by the `session_id` of the URL
(use-studio-url-sync.ts:42); writing `file=` into the URL moves the sidebar; patch tabs are not capped; tabs survive a change of repository.
*Chat*: the history is one page of the oldest 100 messages (use-chat.ts:219), against the route's "full history" (`api/v1/chat/__init__.py:330`), so that only the page that sent them shows the last turns of a longer session; answers are assigned to questions by position (use-chat.ts:84-91), so that after a first fetch that was invalidated on its way the first
answer of the session stands under the last question; news that arrives inside the 500 ms window is
never merged; the end of a second answer replaces the timer of the first session. *Plan page*: a failed ACT invalidates nothing; closing
the page forgets the pending one; deleting or applying a draft does not invalidate the change set; `bySession ?? byId` can show the plan of another
session. *Context and list*: overlapping PATCHes lose updates and roll usage back, and "Remove from context" of a path in both lists sends two of them, so that the second puts back what the first removed; the first chat's title is not shown until an unrelated refetch;
a deleted session that is chosen stays, from its cached copy. *Log-in*: a changed role reaches a signed-in browser with its next log-in, up to seven days later; the 401 of an old token logs a new log-in out; the user of a
window's store may differ from the token it sends. *Notices*: a dismissed key that 500 newer ones displaced may raise its notice again; an optimistic job is removed by a first answer already under way, and polling
stops; a dismissed notice returns through the list of another window; a second failure of a patch whose first notice was
dismissed is silent; REVIEW is announced as ready to apply. *Panels*: the explorer's "load more" and the search boxes apply late
answers; the comparison's late answer reopens a file; marks for comparison outlive a change of repository and cannot be unmarked then.
*Guards*: a process that lost Redis once counts for itself until it restarts; a consumed invite whose registration fails on the email is spent.

## 5. Proofs

All theorems assume the constants' assumptions only: which sets are disjoint and which markers are not elements (`JobsAssumption`,
`PipelineAssumption`, `ChangeSetsAssumption`, `ClientSessionAssumption`, `ChatAssumption`, `NoJobAssumption`, `PanelAssumption`), that links are addresses
(`LinksAssumption`) and the explorer is a panel (`PanelsAssumption`), and that bounds are numbers (`MaxTabsAssumption`, `MaxNoticesAssumption`, `MaxDismissedAssumption`, `PatchStepsAssumption`, `ScopeBounds`, `ListBounds`, `PlanBounds`, `PanelBounds`,
`ChatBounds`, `ThresholdAssumption`, `LimitAssumption`, which also says that there are finitely many processes). The notices need that the statuses of jobs are not mistaken for
the absence of data (`NoDataAssumption`) and that keys of different jobs differ (`KeysAssumption`), the composition that the change-set page has a session to show
(`PlanSessionsAssumption`). They hold for any number of jobs, processes, files, rows, requests, crashes and edits, and in the
browser for any number of tabs, links, sends, sessions, clicks and windows.

**IndexingJobsProofs.** `IndInv` adds to `TypeOK`: a request without a row has no run (`StageInv`); the queue holds each queued
job once (`QueueInv`); whoever is past acquisition is recorded in the lock with the token of its attempt (`LockInv`); between
check and INSERT nothing else is active unless flagged (`AdmissionInv`). `LockInv` is what exclusion needs: knowing only that the
pipeline is exclusive does not survive the release by a worker whose key a re-run now holds. From it follow
`TypeCorrect`, `LockBacks`, `ProductionMutex` (two owners of one key are one) and `AdmissionIsExclusive`.

**IndexPipelineProofs.** `StoreInv`: before publishing, what was stored is still there, and before discarding, what is doomed has
no point any more. `FullInv`: in a full run the doomed chunks are exactly those not produced. They give `VectorsHaveRows`, `FullRunsRebuild`
and `ImplementsTwoStores`, the refinement of `TwoStores`, in which every step maps to one of its steps or a stutter.

**ChangeSetsProofs.** `ClientInv` says what the loaded status of each stage may be; `LockInv` that a locked row belongs to a request
that acts, with the status it found; `RowInv` that the approval is that of the current plan also while a patch is rejected, which
is needed because ACT may start again from there. The property alone is not inductive: without `ClientInv` an edit could follow a
load that its guard excludes. The theorems are `TypeCorrect`, `ApprovalsAreValidated`, `ApprovalsAreCurrent`, `AppliedAreWritten`, and two action
properties. `StatusesAreKept` says who may end a status: a terminal one is left only by the rollback of an applied patch, and an ACTING that no request
works on any more only by a cancel, whatever a restart left behind. `BlockedLoopStaysBlocked` rests on `LoopInv` (the event loop is
taken exactly by the request that is between two awaits): the request that waits for the row lock has the loop, so the one that holds the lock is at an await, and nobody can take it up again before a restart.

More of **IndexingJobsProofs**: `CompletedInv` records the return of the pipeline from the run to the row, and `ActiveIsHeld` says in whose hands a row is that says pending or
running: its request, the queue, the scheduler or a live run, unless a statement failed or a process died. Each hand passes it on in the step in which it lets go (`ActiveJobsAreHeld`), and both
together are `RowsTellTruth`, the safety half of `JobsSettle`: fairness only has to move a hand that is there.
`ThreadInv` ties the stage of a thread's run to its row, which is what the refinement needs: under `Threaded` every step maps to a step of
`JobLifecycle` or a stutter (`ImplementsLifecycle`). With RQ it does not hold, since a re-run revives a settled row.

The second half of **IndexPipelineProofs** proves what a later incremental run relies on, under `Nested = {}` (where `Pipe_suffix` shows the
opposite). An index is called dirty from a run that met a fault or an edit until the next rebuild. For unhurt runs `FilesInv` says what the lists
of the run know of the rows, `ChunksInv` what is produced and stored for each path, `DoomedInv` that the cleanup takes exactly
the stale ids, and `CleanInv` and `IdleInv` that every path the run does not touch stays found under its recorded content, or, if it was deleted (`gone`), is not found at all: `UnhurtRunsAreFaithful`.
The statement for deleted files fails in these runs too, so a path may be both deleted, for its row, and without chunks, and the invariant says of each step which of them are so.
`IndexFaithful` alone speaks of idle states only, so that nothing would be known of the steps between. `RemovalInv` gives the action property
`EmptyRunsRemoveDeletedOnly`, for every `Nested`.

**SequenceLemmas**. Lists change by concatenation, by `Newest` and by `filter`. The model's filter is `Filtered`, which takes the positions that stay in their
order; MCParts compares it with `SelectSeq`. What it returns is proved by induction, but not with the library's theorems, which take an operator: a set of
naturals that holds 0 and with n also n + 1 holds them all (`SetInduction`), since what it lacks would have a least element.

**StudioProofs**. A function of the store is an operator from state to state, so there is a lemma for each: from a good state (`Good`: one tab per
id, Welcome only alone, the active tab among them, a file or a patch that is set that of the active tab) it makes a good state. With it `StoreInv` says that what is saved is the
state cut down by partialize, and gives `StoreTabsAgree` and, through persist and merge, `ReloadLosesNothing` (an action property). Of the active file they claim what the code does: a reload leaves none, and no other
step parts the file from its tab (`FileFollows` is kept by every function, whatever tab a file is missing from). For the address, `QuietAgrees`
is not inductive: a timer or navigation that is pending may still be of an older choice. `SettledAgrees` is: whenever no effect is due, pending or not, the store
holds what the address names, as whoever changes either makes an effect due. From it follow `UrlQuietAgrees` and, with links in play, `UrlTabsAgree`.

**ChatProofs**. `StreamInv` (the one stream is of the last send and of the session shown, or of none) gives `SendingAlwaysMatches`. `AnswersStayUnder` needs a description of every list of messages at once:
the page's, each session's on the server, each copy in the cache and each on its way are `Turns`, that is whole pairs of question and answer in the order of their sends;
a copy is `Within` what was stored, and what is on the page is `Within` any history that it will be merged with. `MergeIsHistory` is the heart: the merge walks by text and
position, but of a list within the history it makes that very history, since no turn is there twice (`WithinIsShorter`, by the injection of one list's places into
the other's). It is here that the flags are needed, and the premise `HistoriesFit` (no session is longer than the page of history, for any `HistoryLimit`; a longer session is shown without its last turns). In the states excluded the merge does go wrong: an older history that lacks the last question gives that question its first answer.

`ChatRestsOnStored` (`ChatAtRest`) is the safety half of `ChatCatchesUp`: with no answer streamed, no timer, effect or fetch pending, the page shows what is stored of its session, under the same premise.
To the invariant above `RestInv` adds that each copy is true to what is stored, but where its refetch is still to come (`CopiesTrue`), and that the effects leave no part of the cached history off
the page (`NothingHidden`). At rest the page and the store are then `Within` each other, and lists of turns that are so show the same (`SameShape`: at the first difference
either two messages are out of order or an answer is not below its question).

**BrowserProofs**. Log-in: `LoginInv` (a log-in under way is of an account, and its token is that user's) and `TourInv` (a registration
leaves one permit, in one of three places) make `TourOnce` inductive. `RoleIsOfToken` compares the cookie with `granted`: both are written in the step of /me's
answer, no token is granted twice, and a change of role touches neither, so that the property is of the role at the log-in, not of today's. The bell: every step adds one notice, removes one or clears the bell (`StepsOfBell`), and none brings a
key back that is recorded as dismissed: `NoticesStayGone`. The record itself is a list with a cap: it loses a key only in a step that leaves it full, the oldest first, and keeps the order of the others (`OldestForgottenFirst`). `NoticedInv` relates what the dashboard knows to the server: whatever was read of a
job stays true of it (`OnceTrue`: it exists, and has ended), and the ref of the notifying hook knows every job that the list shows as active. It gives `NoNoticeIsEarly` (a job whose end is announced has
ended) and `NoEndIsMissed`, the safety half of `EndIsNoticed`: the list lets go of an active job only in the step that raises its notice, but for a reload and for the race that `raced` flags. The panels: `PaneInv` (only the last effect's request may still write), `TreeInv`, `CompareInv`, and `SearchInv`, whose
`Settling(n)` says that the timer's last search or a newer one decides.

The theorems `ContextAtRest`, `SidebarAtRest`, `ChangeSetAtRest` and `DashboardAtRest` are what `ScopeCatchesUp`, `SessionListCatchesUp`, `PlanCatchesUp` and `ListsCatchUp` rest on once fairness is taken
away: a copy for which nothing is asked, on its way or still to be invalidated *is* the server's (`ScopeAtRest`, `ListsAtRest`, `PlansAtRest`, `JobListsAtRest`). So a page can stay behind only
by waiting for a step that fairness grants, or in a case that a flag names. The invariant is the same three times: a request that took effect waits for its refetch, or the entry `Owes` nothing but
the server's value (an answer on its way carries it; data that is believed is it). The lists of jobs are polled instead: there a copy is `OfThePast`, which may lag behind an active
job but misses none except that of a click under way, and knows every ended job as it ended.

The types of each module (`ScopeIsTyped`, `SidebarIsTyped`, `PlanIsTyped`, `NoticesAreTyped`, `PanelsAreTyped`, `SessionTypes`, and `ChatIsTyped` of ChatProofs) are relative to those invariants, since what is
cached has a type only because of what was on its way. Two say more than types. `ScopeTypes` bounds the usage in every copy of the metadata, stored, cached, on its way or in a PATCH, by the turns recorded so far, so
that a PATCH with an old copy may lose usage but never counts a turn twice; and of the panels, never more than two snapshots are marked.

**PartsProofs**, on the guards: a registration that consumed an invite holds its email, no step writes that email again (`HoldersInv`), and emails of accounts are unique; without the latter the UPDATE without
a condition would let two registrations through. `WindowKeepsLimit` counts what a window admits: some tallies, one for each process and at most as many as the entries of the current window that
its queue ends with, cover what was admitted, together with the count of Redis (`Tallied`). The tallies are a witness of the invariant, not state, as the queues also hold what an earlier window left.

The second half of PartsProofs is about `PartsSpec`, the very specification that `Parts_safe` checks. A step of the whole is a step or a stutter of each part
(`StepsOfParts`), and a part at rest satisfies its invariant as one that starts does (`PlanPartInit` and its siblings; `RestingEntry` for what is cached). Only the store and the address share state: when the store is
looked at alone, the address names nothing (`PartsUrlInv`), since with any other address the store's steps would leave the two at odds. `PartsInv`, the conjunction of the parts' invariants, is inductive, and gives
`PartsAreTyped` (`PartsTypeOK`), `PartsAreSafe` (the run's other invariants, `TourOnce` and `NoticedHasEnded`) and `PartsReload` (`ReloadKeepsWork`), without the run's bounds on its instance.

`ClientSessionSpec`, `NoticesSpec`, `PanelSpec`, `SessionListSpec`, `ChangeSetPageSpec`, `InvitesSpec`, `LimitSpec`, `StoreSpec`, `UrlSpec` and `ChatSpec` are the initial conditions and next-state relations
that `MCParts` puts side by side, without its bounds on the instances.

Model-checked only: the liveness properties and what fairness adds to the theorems of pages at rest, of held jobs and of notices (out of the prover's reach), among them `BreakerCloses`, whose breaker has no safety
property but its types, and `DraftSettles`; and the six violated properties.

## 6. Not modelled

Inside the modelled components: the inline path that tests take on sqlite (service.py:281-299), the webhook's signature, git
clones and cache directories, progress texts, the splitting of a file into several chunks, plan and task files written beside
the rows, drafts with several files (a partial `git apply` is covered only as "fails before the file is written"), a second
server process (run.py starts one).

Inside the browser's modules: the text of answers and plans, trace steps and sources, sizes, density and editor preferences, search, folders
and filters that only hide rows, the steps inside the tour, password and profile forms, read marks of notices, and the trash button of `patch-list-panel.tsx`;
the migration of storage that predates the store, which never takes effect; the page, cookies and token of the administrator who changes a role.

Whole components: `SnapshotRetentionService`, which only tests construct; retrieval, ranking and the context budget, numeric
functions of one call without state; the LangGraph workflow, a fixed sequence of nodes over one in-memory state; validation and
sandbox, embeddings, models and Qdrant, which are external outcomes in the models above; parsing, prompts, dashboard, admin tables and schema, which
keep no state that several steps share.

Two hazards of PROJECT.json have no property: the older history that an invalidated first fetch brings, which `skipped` flags, and the session that is longer than a page of history, which `HistoriesFit` leaves out. No text of the repository
speaks against marks for comparison that outlive their repository, REVIEW announced as ready, or the silent second failure: the modules contain them as behaviour.


## 7. Plan

Done, in this order: `RepositoryLock` and `IndexingJobs` with `JobLifecycle`; `IndexPipeline` with `TwoStores`; `ChangeSets`; proofs of each;
the browser's modules and `Guards` in `MCParts`; proofs about log-in, invites, panels, faithful indexing and the job life cycle; proofs about the store, the
address, the chat, the bell, the rate limiter and the client's copies at rest; proofs of held jobs, of abandoned and blocked ACT requests, of notices, and of all types and invariants in the composition of the parts.

Left for a later step:

1. Composition of `StudioUrl` with `ChatSession`, whose shared session is now changed by an action of each.
2. An abstract specification of a cached copy, which `SessionList`, `SessionScope` and `PlanReview` would implement: the invariant of the three theorems at rest is its mapping.

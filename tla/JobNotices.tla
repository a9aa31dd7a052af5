----------------------------- MODULE JobNotices -----------------------------
(* Indexing as the dashboard follows it: the button that starts a job, the polled lists of
   jobs and repositories, the polled progress card of an active job (use-repositories.ts,
   use-index-job-progress.ts), and the bell, whose notices two hooks raise for the same
   end of a job (notification-store.ts, use-indexing-notifications.ts), and, beside it, one
   patch draft that is validated and applied (use-patch-notifications.ts).
   Left out: which notices were read, progress numbers, failed requests, users other than
   one (the bell's storage is kept per user), and the list of the selected repository
   alone, whose hook raises the same notices again.                                     *)
EXTENDS Naturals, Sequences, FiniteSets, QueryCache, Filter

CONSTANTS Jobs,        \* the jobs that the repository will have
          NoJob,
          Started,     \* key of the notice that indexing started (the code gives it none)
          MaxNotices,  \* notices the bell keeps (50 in the code)
          MaxDismissed,  \* keys of dismissed notices that are kept (500 in the code)
          MaxReloads, MaxPatchSteps
ASSUME MaxNoticesAssumption == MaxNotices \in Nat
ASSUME MaxDismissedAssumption == MaxDismissed \in Nat \ {0}
ASSUME NoJobAssumption == NoJob \notin Jobs
ASSUME PatchStepsAssumption == MaxPatchSteps \in Nat

VARIABLES jobStatus,   \* server: status of each job
          startClick,  \* the mutation of the button: "none" or the job it started
          jobsQuery, reposQuery, progress,  \* the cache
          seenStatus,  \* prevStatusesRef of useIndexingNotifications
          lastStatus,  \* lastStatusRef of the progress card
          bell, dismissed,  \* the notices, newest first; the dismissed keys, oldest first
          reloads,
          noticed,     \* history: the jobs for whose end a notice was raised
          raced,       \* history: a job was put into a list whose first answer was under way
          patchStatus, \* server: status of the draft
          patchQuery,  \* the cached list of patches
          seenPatch,   \* prevStatusesRef of usePatchNotifications
          applyRequest, patchSteps
jobVars == <<jobStatus, startClick, jobsQuery, reposQuery, progress, seenStatus, lastStatus,
             bell, dismissed, reloads, noticed, raced>>
patchVars == <<patchStatus, patchQuery, seenPatch, applyRequest, patchSteps>>

Unknown == "absent"
Statuses == {Unknown, "pending", "running", "completed", "failed"}
\* Mutant: queued jobs do not count as active.
IsActiveRunning(s) == s = "running"
IsActiveIndexingStatus(s) == s \in {"pending", "running"}
\* Mutant: only a success counts as the end of a job.
IsTerminalCompleted(s) == s = "completed"
IsTerminal(s) == s \in {"completed", "failed"}

PatchStatuses == {"DRAFT", "REVIEW", "APPROVED", "REJECTED", "CONFLICTED", "FAILED"}
TerminalPatchStatuses == {"APPLIED", "FAILED", "REJECTED", "REVIEW"}
PatchNotice(status) == <<"patch", status>>
NoticeKeys == Jobs \cup {PatchNotice(status) : status \in TerminalPatchStatuses}
\* The keys of the code say what they are of, and no answer is not an answer.
ASSUME KeysAssumption ==
  Started \notin Jobs /\ \A status \in TerminalPatchStatuses : PatchNotice(status) \notin Jobs
ASSUME NoDataAssumption == NoData \notin [Jobs -> Statuses]

NoneSeen == [j \in Jobs |-> Unknown]
Shown(q) == IF q.data = NoData THEN NoneSeen ELSE q.data
\* The dashboard mounts the progress card of a job that its list shows as active.
CardShown(j) == IsActiveIndexingStatus(Shown(jobsQuery)[j])

JobsInit ==
  /\ jobStatus = NoneSeen /\ startClick = NoJob
  /\ jobsQuery = EmptyQuery /\ reposQuery = EmptyQuery
  /\ progress = [j \in Jobs |-> EmptyQuery]
  /\ seenStatus = NoneSeen /\ lastStatus = NoneSeen
  /\ bell = <<>> /\ dismissed = <<>> /\ reloads = 0 /\ noticed = {} /\ raced = FALSE

PatchNoticesInit ==
  /\ patchStatus = "DRAFT" /\ patchQuery = EmptyQuery /\ seenPatch = "none"
  /\ applyRequest = "none" /\ patchSteps = 0

-----------------------------------------------------------------------------
(* notification-store.ts: the bell as it is after each operation *)

Keys(b) == {b[i] : i \in DOMAIN b}
Newest(b) == SubSeq(b, 1, IF Len(b) < MaxNotices THEN Len(b) ELSE MaxNotices)

\* Mutant: what was dismissed is not looked at.
AddNotificationAgain(b, key) ==
  IF key # Started /\ key \in Keys(b) THEN b ELSE Newest(<<key>> \o b)

\* A key that was dismissed is ignored, one the bell has stays; else it comes first.
AddNotification(b, key) ==
  IF key \in Keys(dismissed) \/ (key # Started /\ key \in Keys(b)) THEN b
  ELSE Newest(<<key>> \o b)

KeepJobs == UNCHANGED <<jobStatus, startClick, jobsQuery, reposQuery, progress, seenStatus,
                        lastStatus, reloads, noticed, raced>>

\* The dismissed keys with those of the given notices added to the set they are in, which
\* keeps the place of a key it has.
WithKeysOf(notices) ==
  dismissed \o Filtered(notices, {i \in DOMAIN notices :
                          /\ notices[i] \notin Keys(dismissed) \cup {Started}
                          /\ \A k \in 1 .. (i - 1) : notices[k] # notices[i]})

\* Mutant: the stored keys are not cut down.
DismissForever(notices) == WithKeysOf(notices)

\* Only the newest keys are stored.
Dismiss(notices) ==
  LET keys == WithKeysOf(notices)
      surplus == IF Len(keys) > MaxDismissed THEN Len(keys) - MaxDismissed ELSE 0
  IN  SubSeq(keys, surplus + 1, Len(keys))

RemoveNotification(i) ==
  /\ i \in DOMAIN bell
  /\ dismissed' = Dismiss(<<bell[i]>>)
  /\ bell' = [k \in 1..(Len(bell) - 1) |-> IF k < i THEN bell[k] ELSE bell[k + 1]]
  /\ KeepJobs

ClearAll ==
  /\ bell # <<>> /\ bell' = <<>>
  /\ dismissed' = Dismiss(bell) /\ KeepJobs

-----------------------------------------------------------------------------
(* use-repositories.ts *)

\* invalidateIndexingCaches; the lists are shown, a progress entry while its card is.
InvalidateIndexingCaches ==
  /\ reposQuery' = Invalidated(reposQuery, TRUE)
  /\ progress' = [j \in Jobs |-> Invalidated(progress[j], CardShown(j))]

\* The button: the server admits a job when none of the repository is active.  Its row
\* offers the button while neither list shows an active job.
StartIndex(j) ==
  /\ startClick = NoJob /\ jobStatus[j] = Unknown
  /\ reposQuery.data # NoData
  /\ \A k \in Jobs : /\ ~IsActiveIndexingStatus(reposQuery.data[k]) /\ ~CardShown(k)
                     /\ ~IsActiveIndexingStatus(jobStatus[k])
  /\ jobStatus' = [jobStatus EXCEPT ![j] = "pending"] /\ startClick' = j
  /\ UNCHANGED <<jobsQuery, reposQuery, progress, seenStatus, lastStatus, bell, dismissed,
                 reloads, noticed, raced>>

\* onSuccess: the caches are invalidated, which starts the next fetch, and the new job is
\* put into the list if it is not there yet; the effect of the hook sees it.
IndexStarted ==
  LET j == startClick
      list == IF Shown(jobsQuery)[j] = Unknown
              THEN [Shown(jobsQuery) EXCEPT ![j] = "pending"] ELSE jobsQuery.data IN
  /\ j # NoJob /\ startClick' = NoJob
  /\ InvalidateIndexingCaches
  /\ jobsQuery' = [Invalidated(jobsQuery, TRUE) EXCEPT !.data = list]
  /\ seenStatus' = list
  /\ bell' = AddNotification(bell, Started)
  /\ raced' = (raced \/ (jobsQuery.data = NoData /\ HasAnswer(jobsQuery)))
  /\ UNCHANGED <<jobStatus, lastStatus, dismissed, reloads, noticed>>

\* Each list asks again every three seconds while it shows an active job.
Polls(q) == q.flight = NoData /\ \E j \in Jobs : IsActiveIndexingStatus(Shown(q)[j])

FetchJobs ==
  /\ NeedsFetch(jobsQuery) \/ Polls(jobsQuery)
  /\ jobsQuery' = Fetched(jobsQuery, jobStatus)
  /\ UNCHANGED <<jobStatus, startClick, reposQuery, progress, seenStatus, lastStatus, bell,
                 dismissed, reloads, noticed, raced>>

FetchRepositories ==
  /\ NeedsFetch(reposQuery) \/ Polls(reposQuery)
  /\ reposQuery' = Fetched(reposQuery, jobStatus)
  /\ UNCHANGED <<jobStatus, startClick, jobsQuery, progress, seenStatus, lastStatus, bell,
                 dismissed, reloads, noticed, raced>>

RepositoriesAnswered ==
  /\ HasAnswer(reposQuery) /\ reposQuery' = Answered(reposQuery)
  /\ UNCHANGED <<jobStatus, startClick, jobsQuery, progress, seenStatus, lastStatus, bell,
                 dismissed, reloads, noticed, raced>>

\* use-indexing-notifications.ts: a job seen for the first time is noted in silence; one
\* that was active and is not any more raises a notice.  The cards of the jobs no longer
\* active go, and what they remember with them.
JobsAnswered ==
  LET list == jobsQuery.flight
      ended == {j \in Jobs : IsActiveIndexingStatus(seenStatus[j]) /\ IsTerminal(list[j])}
      key == CHOOSE j \in ended : TRUE IN
  /\ HasAnswer(jobsQuery) /\ jobsQuery' = Answered(jobsQuery)
  /\ seenStatus' = [j \in Jobs |-> IF list[j] = Unknown THEN seenStatus[j] ELSE list[j]]
  /\ bell' = IF ended = {} THEN bell ELSE AddNotification(bell, key)
  /\ noticed' = noticed \cup ended
  /\ lastStatus' = [j \in Jobs |-> IF IsActiveIndexingStatus(list[j]) THEN lastStatus[j] ELSE Unknown]
  /\ UNCHANGED <<jobStatus, startClick, reposQuery, progress, dismissed, reloads, raced>>

\* use-index-job-progress.ts, for the card of an active job.
FetchProgress(j) ==
  /\ CardShown(j)
  /\ NeedsFetch(progress[j]) \/ (progress[j].flight = NoData /\
                                 IsActiveIndexingStatus(progress[j].data))
  /\ progress' = [progress EXCEPT ![j] = Fetched(@, jobStatus[j])]
  /\ UNCHANGED <<jobStatus, startClick, jobsQuery, reposQuery, seenStatus, lastStatus, bell,
                 dismissed, reloads, noticed, raced>>

ProgressAnswered(j) ==
  LET status == progress[j].flight
      ends == CardShown(j) /\ IsTerminal(status) /\ lastStatus[j] # status
      now == [progress EXCEPT ![j] = Answered(@)] IN
  /\ HasAnswer(progress[j])
  /\ IF ends
     THEN /\ reposQuery' = Invalidated(reposQuery, TRUE)
          /\ jobsQuery' = Invalidated(jobsQuery, TRUE)
          /\ progress' = [k \in Jobs |-> Invalidated(now[k], CardShown(k))]
          /\ lastStatus' = [lastStatus EXCEPT ![j] = status]
          /\ bell' = AddNotification(bell, j) /\ noticed' = noticed \cup {j}
     ELSE /\ progress' = now
          /\ UNCHANGED <<jobsQuery, reposQuery, lastStatus, bell, noticed>>
  /\ UNCHANGED <<jobStatus, startClick, seenStatus, dismissed, reloads, raced>>

\* The worker.
JobRuns(j) ==
  /\ \/ jobStatus[j] = "pending" /\ jobStatus' = [jobStatus EXCEPT ![j] = "running"]
     \/ /\ IsActiveIndexingStatus(jobStatus[j])
        /\ \E s \in {"completed", "failed"} : jobStatus' = [jobStatus EXCEPT ![j] = s]
  /\ UNCHANGED <<startClick, jobsQuery, reposQuery, progress, seenStatus, lastStatus, bell,
                 dismissed, reloads, noticed, raced>>

\* The caches and the refs are of the page, the bell and the dismissed keys are stored.
ReloadDashboard ==
  /\ reloads < MaxReloads /\ reloads' = reloads + 1
  /\ startClick' = NoJob /\ jobsQuery' = EmptyQuery /\ reposQuery' = EmptyQuery
  /\ progress' = [j \in Jobs |-> EmptyQuery]
  /\ seenStatus' = NoneSeen /\ lastStatus' = NoneSeen
  /\ UNCHANGED <<jobStatus, bell, dismissed, noticed, raced>>

-----------------------------------------------------------------------------
(* Notices of patches *)

KeepJobsAndDismissed == KeepJobs /\ UNCHANGED dismissed

\* The server validates the draft for this page or another one, in two commits.
PatchValidates ==
  /\ patchSteps < MaxPatchSteps /\ patchSteps' = patchSteps + 1
  /\ patchStatus' \in IF patchStatus = "REVIEW" THEN {"APPROVED", "REJECTED"} ELSE {"REVIEW"}
  /\ UNCHANGED <<patchQuery, seenPatch, applyRequest, bell>> /\ KeepJobsAndDismissed

PressApply ==
  /\ patchQuery.data = "APPROVED" /\ applyRequest = "none" /\ applyRequest' = "sent"
  /\ UNCHANGED <<patchStatus, patchQuery, seenPatch, patchSteps, bell>>
  /\ KeepJobsAndDismissed

\* As Applies of PlanReview: the status changes only when it failed.
PatchApplied(ok) ==
  /\ applyRequest = "sent" /\ patchSteps < MaxPatchSteps /\ patchSteps' = patchSteps + 1
  /\ applyRequest' = IF ok THEN "ok" ELSE "failed"
  /\ patchStatus' \in IF ok THEN {patchStatus} ELSE {"CONFLICTED", "FAILED"}
  /\ UNCHANGED <<patchQuery, seenPatch, bell>> /\ KeepJobsAndDismissed

\* useApplyPatchMutation raises a notice either way, and fetches again after a success.
ApplySettles ==
  /\ applyRequest \in {"ok", "failed"} /\ applyRequest' = "none"
  /\ patchQuery' = IF applyRequest = "ok" THEN Invalidated(patchQuery, TRUE) ELSE patchQuery
  /\ bell' = AddNotification(bell, PatchNotice(IF applyRequest = "ok" THEN "APPLIED" ELSE "FAILED"))
  /\ UNCHANGED <<patchStatus, seenPatch, patchSteps>> /\ KeepJobsAndDismissed

\* The list is asked for every two seconds while it shows a draft in progress.
FetchPatches ==
  /\ NeedsFetch(patchQuery) \/ (patchQuery.flight = NoData /\ patchQuery.data = "REVIEW")
  /\ patchQuery' = Fetched(patchQuery, patchStatus)
  /\ UNCHANGED <<patchStatus, seenPatch, applyRequest, patchSteps, bell>>
  /\ KeepJobsAndDismissed

\* usePatchNotifications: in silence for a draft seen for the first time.
PatchesAnswered ==
  LET status == patchQuery.flight IN
  /\ HasAnswer(patchQuery) /\ patchQuery' = Answered(patchQuery) /\ seenPatch' = status
  /\ bell' = IF seenPatch \notin {"none", status} /\ status \in TerminalPatchStatuses
             THEN AddNotification(bell, PatchNotice(status)) ELSE bell
  /\ UNCHANGED <<patchStatus, applyRequest, patchSteps>> /\ KeepJobsAndDismissed

PatchNoticesNext ==
  \/ PatchValidates \/ PressApply \/ ApplySettles \/ FetchPatches \/ PatchesAnswered
  \/ \E ok \in BOOLEAN : PatchApplied(ok)
  \/ (ClearAll \/ \E i \in DOMAIN bell : RemoveNotification(i)) /\ UNCHANGED patchVars

-----------------------------------------------------------------------------
JobsSystem ==
  \/ FetchJobs \/ JobsAnswered \/ FetchRepositories \/ RepositoriesAnswered \/ IndexStarted
  \/ \E j \in Jobs : FetchProgress(j) \/ ProgressAnswered(j) \/ JobRuns(j)
JobsNext ==
  \/ JobsSystem \/ ReloadDashboard \/ ClearAll
  \/ \E i \in DOMAIN bell : RemoveNotification(i)
  \/ \E j \in Jobs : StartIndex(j)

\* Requests are answered, polling intervals pass, jobs end.
JobsFairness ==
  /\ WF_jobVars(FetchJobs) /\ WF_jobVars(JobsAnswered) /\ WF_jobVars(FetchRepositories)
  /\ WF_jobVars(RepositoriesAnswered) /\ WF_jobVars(IndexStarted)
  /\ \A j \in Jobs : WF_jobVars(FetchProgress(j)) /\ WF_jobVars(ProgressAnswered(j))
                    /\ WF_jobVars(JobRuns(j))

-----------------------------------------------------------------------------
NoticesTypeOK ==
  /\ jobStatus \in [Jobs -> Statuses] /\ startClick \in Jobs \cup {NoJob}
  /\ jobsQuery \in QueryOf([Jobs -> Statuses]) /\ reposQuery \in QueryOf([Jobs -> Statuses])
  /\ progress \in [Jobs -> QueryOf(Statuses)]
  /\ seenStatus \in [Jobs -> Statuses] /\ lastStatus \in [Jobs -> Statuses]
  /\ Keys(bell) \subseteq NoticeKeys \cup {Started} /\ Len(bell) <= MaxNotices
  /\ Keys(dismissed) \subseteq NoticeKeys /\ Len(dismissed) <= MaxDismissed /\ noticed \subseteq Jobs
  /\ patchStatus \in PatchStatuses /\ patchQuery \in QueryOf(PatchStatuses)
  /\ seenPatch \in PatchStatuses \cup {"none"}
  /\ applyRequest \in {"none", "sent", "ok", "failed"} /\ patchSteps \in 0..MaxPatchSteps

\* A notice the user removed or cleared does not come back while its key is among those
\* kept, although two hooks raise the same one at different times, a patch may reach a
\* status again, and the bell of the page before is read from storage; and the bell has one
\* notice for the end of a job, or for a status of a patch.
DismissedStaysGone ==
  /\ Keys(bell) \cap Keys(dismissed) = {}
  /\ \A i, k \in DOMAIN bell : bell[i] = bell[k] /\ i # k => bell[i] = Started

\* Polling ends only when there is nothing to wait for: the lists of jobs and repositories
\* come to show what the server says, whichever of the lists and the card is answered first.
\* Not so when a job was put into a list whose first answer was still under way: that answer
\* takes it out again, and nothing is polled any more.
ListsCatchUp ==
  []<>(raced \/ (Shown(jobsQuery) = jobStatus /\ Shown(reposQuery) = jobStatus))

\* What makes it so, whatever is fair: a list that asks for nothing and polls for nothing
\* is the server's, as soon as no click on the button waits to take effect.
JobListsAtRest ==
  startClick = NoJob =>
    /\ CacheRests(reposQuery) /\ ~Polls(reposQuery) => reposQuery.data = jobStatus
    /\ CacheRests(jobsQuery) /\ ~Polls(jobsQuery) /\ ~raced => jobsQuery.data = jobStatus

\* The end of a job that the list showed as active is brought to the user's notice, unless
\* the page was reloaded meanwhile or that race took the job out of the list.
EndIsNoticed ==
  \A j \in Jobs : IsActiveIndexingStatus(Shown(jobsQuery)[j])
                   ~> (j \in noticed \/ reloads > 0 \/ raced)

\* The half of EndIsNoticed that needs no fairness: the list lets go of a job it showed as
\* active only in the step that raises the notice of its end, but for a reload and that race.
LetGoIsNoticed ==
  [][\A j \in Jobs :
      IsActiveIndexingStatus(Shown(jobsQuery)[j]) /\ ~IsActiveIndexingStatus(Shown(jobsQuery)[j])'
        => j \in noticed' \/ reloads' # reloads \/ raced']_jobVars

\* And no notice is raised too early: a job the bell says has ended has, whichever of the
\* overlapping lists, cards and clicks raised it.
NoticedHasEnded ==
  \A j \in Jobs : j \in Keys(bell) \cup noticed => IsTerminal(jobStatus[j])
=============================================================================

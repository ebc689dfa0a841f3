# A verification project for Review Board

TLA+ modules that model the core of [Review Board](https://www.reviewboard.org):
review requests with their drafts, identifiers and files, the dashboard
counters, reviews and issues, batches of publications, automated checks and the
page that shows them, series of commits, and the filter of interdiffs. TLC
checks them on small instances; TLAPS proves every safety and action property
that the passing runs check, for every instance. Only liveness is left to TLC.
Paths below are relative to `reviewboard/`.

## 1. The system

Review Board is a Django application. Web workers serve a JSON API
(`webapi/resources/`) and pages (`reviews/views/`) over a relational database.
**No transaction surrounds a request**: Django's default autocommit is in force
(`ATOMIC_REQUESTS` is not set; of the operations below only the choice of a
Local Site's review request ID is in a `transaction.atomic` block), so every
statement commits by itself, and what a worker has loaded may be stale when it
saves it. `Model.save()` writes every column unless `update_fields` is given,
and inserts the row again if it has gone.

### Components

| Component | State | Operations | What is hard | Modules |
|---|---|---|---|---|
| Review request (`reviews/models/review_request.py`) | status (pending, submitted, discarded), `public`, owner, reviewers, fields, change descriptions | create, publish, close, reopen, delete | an operation that fails after it has written; order of counting and publishing | `ReviewRequest`, `ReviewRequestLifecycle` |
| Creation and identifiers (`reviews/managers.py`, `webapi/resources/review_request.py`) | commit ID, change number, number on the Local Site | create, edit the draft's commit ID, reassociate, show | checks that do not see drafts or other workers; a creation refused or abandoned half way | `Posting` |
| Draft (`reviews/models/review_request_draft.py`, `webapi/resources/review_request_draft.py`) | a copy of the fields, an owner, a change description, files | create on first edit, edit, discard, publish | draft and change description must fit the review request when they meet it again | `ReviewRequest`, `Posting`, `FileAttachments` |
| Dashboard counters (`accounts/models.py`, `Group`) | six counters that cache the size of a query | increment, decrement, reset to NULL, recount on load | a counter that drifted stays wrong until `fix_review_counts` empties them all | `ReviewRequest` |
| Stars, groups (`accounts/models.py`) | starred review requests, members of groups | star, unstar, join, leave | they change what the counters mean | `ReviewRequest` |
| Change descriptions (`changedescs/models.py`) | public flag, changed fields | recorded by publish, close, reopen | the latest public one decides the close description shown | `ReviewRequest` |
| File attachments (`attachments/forms.py`, `attachments/models.py`) | files with histories and revisions, lists of active and deleted files | upload, delete, undo, publish, discard | lists of two owners over one table; revisions chosen before they are saved | `FileAttachments` |
| Review (`reviews/models/review.py`, `webapi/resources/base_review.py`) | public flag, Ship It, text, comments | create, update, publish, delete, revoke Ship It | full-row saves of stale instances | `IssueTracking`, `PendingReview`, `Batch` |
| Issues (`reviews/models/base_comment.py`, `webapi/resources/base_comment.py`) | `issue_opened`, `issue_status`, four counters and `shipit_count` | open, withdraw, change status with verification | read, check, save and count in four statements | `IssueTracking` |
| Pending reviews (`reviews/managers.py`) | the unpublished reviews of a user on a review request | get or create, consolidate duplicates | consolidation races everything, and may be interrupted | `PendingReview` |
| Batches (`reviews/views/batch.py`) | what a batch has checked and published | publish drafts and reviews together | a failure, or another request, between check and publication | `Batch` |
| Status updates (`reviews/models/status_update.py`, `webapi/resources/status_update.py`) | state and time of an automated check | create, run, answer, cancel, delete, time out, retry | two saves of one row around the start of a tool; a timeout that no row records | `StatusUpdates`, `StatusUpdateTable`, and `IssueTracking` for `drop_open_issues` |
| Updates of the page (`static/rb/js/reviewRequestPage/`, `reviews/views/review_request_updates.py`) | the entry shown, a timer, polls under way | poll, back off, render, run a check | overlapping, failing and late polls; times compared in different precisions | `ReviewRequestPage` |
| Series of commits (`diffviewer/models/filediff.py`, `commit_utils.py`, `webapi/resources/validate_diffcommit.py`) | FileDiffs, the ancestors kept of each | post a commit, finalize, show a file or a range | what was kept depends on what was looked at first; deletions and copies | `CommitSeries` |
| Interdiffs (`diffviewer/processors.py`) | a sequence of opcodes | filter what neither diff made | opcodes split and put back against two sequences of ranges | `InterdiffFilter` |

Interaction: the draft API writes a draft, `ReviewRequest.publish` calls
`ReviewRequestDraft.publish`, which copies the draft to the review request and
saves it; `ReviewRequest.save(update_counts=True)` moves the counters of owners,
reviewers and groups. Publishing a review and changing an issue move the issue
counters of the review request by `CounterField.increment_many`, relative
updates in the database. A signal handler resets a user's total when group
membership changes. Post-commit hooks publish without validation and close. A
batch calls the publications of its items one after another. A page polls
`ReviewRequestUpdatesView`, which reads the rows that the status update API and
the listeners of `status_update_request_run` write.

### What is not modelled

`PROJECT.json` lists each component with its status. Left out are:

* components: approval (a function of the modelled counters and of hooks),
  replies, notifications, access control and Local Sites (the models take the
  requests that are permitted; the one check that races, of the verification of
  issues, is modelled), visits and archiving, search, source-code management
  and hosting services, certificates and SSH, extensions and licensing, data
  grids, and the browser code but for the updates of the page: pure data
  processing, I/O, or output that no modelled state depends on;
* of the diff viewer: the Myers search (its opcodes are the input of
  `InterdiffFilter`, every way in which two short files can differ), the
  rendering of chunks, move detection, the matching of files between two diff
  sets, parent diffs;
* of the files: captions, thumbnails, attachments of diffs and of users, and
  the legacy screenshots;
* of the batch view: closing, archiving and muting, loops over single
  operations without anything that relates them;
* of drafts: `depends_on`, bugs, branch, custom fields, and the travelling of
  the diff set;
* of reviews and comments: diff ranges, rich text, and the archiving that may
  follow a publication;
* of the page: the rendering of entries and the collapsing of reviews;
* of the counters: maintenance, which empties all counters of a kind at once
  (`fixreviewcounts`, `reset-issue-counts`, and the deletion of a repository).
  `reset-issue-counts` reads its identifiers from `args`, which Django leaves
  empty for a command that declares its arguments with `add_arguments`, so only
  `--all` has an effect.

## 2. The modules

A module states its constants, state, operations and properties in this order.
Where a request is served statement by statement, a step is one statement, and
what the worker holds between the steps is part of the state. Seven modules
have a **history variable** (`drift`, `conflicts`, `collisions`, `harm`,
`stripped`, `missed`) that names the ways in which requests have met, or in which the code
lets something go wrong; a property that the code keeps only otherwise holds
`Without` the causes that concern it. The causes are not hidden: section 4 says
what each one breaks. A definition under "A mistake:" or "A variant" is not
part of a model but of its mutants (section 6).

### ReviewRequest

One step is one operation of the API: what goes wrong here goes wrong without
any concurrency. `rr` is the table of review requests, each row with its draft;
`members` and `starred` are the many-to-many tables; six functions are the
counters. `Add` is `UPDATE … SET c = c + n` (NULL stays NULL); `Load` is the
recount of a NULL total when a profile is loaded.

| Code | Definition |
|---|---|
| `ReviewRequestManager.create` | `Create` |
| draft API `update`, `delete` | `EditDraft`, `DiscardDraft` |
| `ReviewRequest.publish` with `ReviewRequestDraft.publish` | `Publish(r, TRUE)`; `PublishFails` when it raises after `copy_fields_to_request` |
| `hook_utils.close_review_request` | `Publish(r, FALSE)`, then `Close` |
| `ReviewRequest.close` | `Close`; `CloseFails` when it raises after saving the change description; `CloseAgain` when the status is the same |
| `reopen`, `delete` | `Reopen`, `Delete` |
| `_increment_/_decrement_reviewer_counts`, `_update_counts` | `MoveIncoming`, `MoveOutgoing` |
| `star_review_request`, `unstar_review_request` | `Star`, `Unstar` |
| `_on_group_user_membership_changed` | `Join`, `Leave` |
| `get_site_profile` of a NULL total | `LoadProfile`, and `Load` inside the operations that call it |

Summary and description are one text that is blank or not; a row keeps of its
change descriptions only what `get_close_info` shows.

### ReviewRequestLifecycle

The abstract specification: absent, pending, submitted or discarded, public or
not, and the passages allowed. `ReviewRequest` implements it under the mapping
that forgets everything else (`ImplementsLifecycle`). A review request may be
discarded unseen, may not be submitted unseen, and becomes private again when
it is reopened after having been discarded.

### Posting

One repository and one Local Site. `rr` holds of each review request its commit
ID, change number, local number and its draft's commit ID. `Create` to
`CreateDraft` is `ReviewRequestManager.create` with the API handler around it:
check, insert (or `RefuseInsert` by a unique index), `local_id = MAX + 1`
(`ReadNumber`, `SaveNumber`: two may read before either commits), draft.
`EditDraft` checks and `SaveDraft` writes. `Publish`, `Discard`, `Reopen`,
`Reassociate` (`PUT changenum`), `View` (the migration of a change number to a
commit ID when a review request is serialized) and `Delete` are single steps:
they check nothing that another one could change. `Die` abandons a creation.
The unique indexes are modelled as what refuses a write.

### FileAttachments

One public review request, its two lists of files (`active`, `inactive`), and
the two lists of its draft, over one table of files. `LoadReviewRequest` is the
beginning of an upload, which loads the review request with the two counters of
its files; `StartUpload`, `SaveFile` and `AddToDraft` are `UploadFileForm.create`,
whose last step creates the draft if there is none. `ReviewRequestDraft.create`
then copies a list only if its counter was above 0 when the review request was
loaded (`DraftedOf`): a copy that is not what the lists are by then is recorded
in `harm` as `stale`. The counters, which Djblets keeps, are taken to be exact
when they are loaded, and not to change in a request that has loaded them. A
deletion and its undoing load the review request and change the draft in one
step, so no copy of theirs is stale (`Drafted`). `DeleteFile`
and `UndoDelete` the handlers of the API; `Publish` with `DeleteDraft` the two
parts of a publication, `PublishFails` one that is refused after the lists were
copied; `DiscardDraft` the deletion of a draft with what is only in it.
`Latest` is `get_latest_file_attachments`, which the page shows. A row that
goes takes its places in the lists with it, as the database does.

### IssueTracking

Workers serve requests concurrently and keep between the steps what they have
loaded: the review instance, the comment's status as loaded
(`_loaded_issue_status`), the counts fetched. Requests: update and publish a
review (`UpdateReview`, `SaveReview`, `PublishReview` or `RefusePublish`,
`FetchIssues`, `CountReview`), update a draft's comment (`UpdateComment`,
`SaveComment`, `LoadReview`), change the status of an issue
(`UpdateIssueStatus`, `LoadIssue`, `SaveStatus`, `LoadReview`, `Toggle`), revoke
a Ship It (`RevokeShipIt`, `SaveRevoked`, `UncountShipIt`), and drop the open
issues of a check, whose review may be public or still a draft
(`DropOpenIssues`, `Recount`, `SaveCounts`). The assertions of `Review.publish`
are the branch of `FetchIssues` that ends the request: the review is public and
nothing of it is counted, as if the worker had died there.
`Crash` lets a worker die between two statements; the rows stay as they are.
`conflicts` records how requests have overlapped: two status changes of one
issue (`toggle`), or another pair about one review (`other`); and which counters
a worker that died, or failed the assertions, had still to change (`Uncounting`): those of issues, or that
of Ship Its. `SaveCounts`, which writes all four issue counters, makes the
former good; nothing that is modelled does so for Ship Its. The administrator's
`reset-issue-counts` is not modelled.

### PendingReview

The unpublished reviews of one user on one review request, with their comments
and the order in which they were made (`before`). `Post` is `get_or_create` in two steps
(`Insert` is the second), so duplicates arise; `Fix` to `Render` is
`fix_duplicate_reviews`, one statement per step; `Delete`, `Publish`,
`AddComment` race it; `Crash` lets a worker die between two statements.
Foreign keys refuse links to rows that have gone. `owed` remembers the comments
that must not be lost. A comment that is added is a new one: no row and no
request has its key. The four comment tables are one: the code treats them
alike, one after another.

### Batch

`ReviewRequests` with their drafts, `Reviews`, and the batches under way.
`Start` is the check of the whole batch (the first half of `_publish`), `PublishRequest`,
`RefuseRequest`, `PublishReview` and `RefuseReview` one turn of the two loops,
`Finish` the e-mails and the answer. A batch holds the drafts it loaded; a
draft is known by an `id`, so that one discarded and made again is another one.
A draft need not name reviewers (`named`), and a publication gives the review
request those of the draft before it is refused for having none, or for want of
a summary; `stripped` remembers the review requests that a refusal left without
any. `answer` is the last answer with what had really been published, `unsent`
the publications of which no e-mail was sent.

### StatusUpdateTable, StatusUpdates, ReviewRequestPage

`StatusUpdateTable` is the rows and their clock: `Save` (`auto_now`), `Remove`,
`EffectiveState` and `CanRun`, which know of the timeout that no row records.
Both other modules extend it.

`StatusUpdates` is the server. `Create` and `CreateForIntegration` add a check;
`RequestRun`, `Run` and `SaveRun` are the `PUT` of `request-run`: the row is
loaded, the listener saves it and starts the tool, and the handler saves the
row that it holds; `Answer`, `Cancel` and `SavePut` are the other `PUT`s. Tools
are external: `jobs` counts those running, and each ends with one answer.

`ReviewRequestPage` is a browser with the page open: `Load`, the timer and the
polls, the back-off, the watch of an entry (`WatchEntryUpdates`,
`StopWatchingEntryUpdates`), and the Run button. A poll is sent (`TimerFires`);
the view reads the status updates (`ReadUpdates`) and, later, the comments, and
answers (`AnswerPoll`) with the entry, unless rendering it failed, and with the
table of issues, each only if it is newer than the time that the page has seen.
`Newer` is that filter: it compares whole seconds with a time that has a
fraction. An empty answer makes the page back off (`Deliver`); otherwise the two
parts are loaded in either order (`LoadEntry`, `LoadTable`), each with its time
of update, and the later of both is the time the page has seen (`Remember`). Of
the comments the model knows the time of the latest (`latestIssue`). The server
is `Server`: any save, any deletion, the clock; `Comment` saves or deletes a
comment. That this is all the server does to the checks is `ImplementsTable`, a
property of `StatusUpdates` that is checked and proved; so what holds of the
page holds of the page over that server.

### CommitSeries

A client posts the commits of a branch and finalizes the series. The model
keeps the trees that the client diffed (`trees`) beside the rows that the
server made of the diffs (`filediffs`), so that what the server shows can be
compared with what the commits did. `PostCommit` validates and stores a commit
(`ExistsInHistory` is `get_file_exists_in_history`), `Finalize` the cumulative
diff. `GetAncestors` is `FileDiff.get_ancestors` with what it keeps in
`extra_data` (`cache`), for a viewer that fetched the commits of a range
(`LookInRange`) or the whole diff set (`LookAtFile`). `Original`, `Patched`,
`Shown`, `Base` and `OldSide` are the functions of the diff viewer over these
rows.

### InterdiffFilter

One step is one turn of `filter_interdiff_opcodes`: `SplitBefore` is its first
phase, `KeepAtBoundary`, `FilterOut` and `Keep` the second. `lines` is the
input: the lengths of both files, the lines that the two do not share, and the
lines that each one's own diff wrote; `Opcodes` makes of it what the differ
yields, `ChangeRanges` what `_get_interdiff_change_ranges` does.

## 3. The runs that pass

| Run | Instance | Question |
|---|---|---|
| `ReviewRequest` | 1 review request, 2 users, 1 group, blank or non-blank text | do all sequences of operations keep counters, close descriptions, drafts and the lifecycle right? |
| `IssueTracking` | 2 workers that may die, 2 reviews with one comment each, one needing verification | do concurrent requests that do not collide keep counters, verification and published reviews right, and does a death leave wrong only what was still to be counted? |
| `PendingReview` | 2 workers, up to 3 duplicates, 2 comments, 1 crash | does consolidation keep all comments and publications, met by other requests and interrupted by a crash? |
| `StatusUpdates` | 1 check, 2 workers, 2 answers, 3 runs of the tool, 8 ticks of half a second, timeout 2 | are answers stored, do tools run once, and does the table change only as the page assumes? |
| `ReviewRequestPage` | 1 check, 2 polls that overlap within 2 ticks, 4 ticks of half a second, timeout 2, the server saves pending and failed rows | does the page poll only what it watches, and come to show what became of a check, beside comments that are saved and deleted? |
| `Posting` | 2 review requests, 2 workers, 2 commit IDs of which one is a change number, 1 crash | do identifiers stay unique, and does a refused or abandoned creation leave nothing? |
| `Batch` | 2 review requests, 2 reviews about the first, 2 batches, 2 drafts | do batches publish in order and nothing twice and leave reviewers to what is public, until a request meets them, and do they answer what they did and send what they owe even when it does? |
| `FileAttachments` | 2 histories, 2 workers, 4 files | do files stay, does the page show the newest, do discarded files stay away? |
| `CommitSeries` | 2 paths, 2 contents, 3 commits, moves and copies | is every series accepted, rebuilt and shown rightly, in whatever order files are looked at? |
| `InterdiffFilter` | every pair of files of up to 4 lines | does the filter end, cover both files, and filter what it should? |

What they check:

* `GroupIncomingExact`, `DirectIncomingExact`, `TotalIncomingExact`,
  `OutgoingExact`, `StarredExact`: a counter is the size of the query it
  stands for, through failing publications, discards, reopenings, changes of
  owner and of membership.
* `CloseInfoFits`, `DraftChangeDescFits`: a closed review request shows the
  description of the closing that gave it its status; a draft holds the change
  description that its publication needs.
* `ImplementsLifecycle`, `ImplementsTable`: refinement of the abstract
  lifecycle, and of the server that the page is checked against.
* `CountsExact`: after all requests are answered, or have died, the issue and
  Ship It counters are exact if none collided and none died or failed its
  assertions before it had counted, or issues were recounted since; after status
  changes of one issue have collided they still add up to the number of issues.
* `ClosedByVerifier`: no issue that requires verification is about to be closed
  without the right to.
* `PublishedReviewKept`, `PublishedKept`: what is published stays published and
  unchanged by other requests. (The comments of a published review may go after
  a worker died, or after two consolidations met, in the middle of moving one.)
* `CommentsKept`, `Consolidated`: no comment is lost; consolidation ends with
  one review that has the text.
* `AnswersStored`, `RunsOnce`: a check whose tool has answered is not pending;
  no tool is started while it runs.
* `OnlyWhileWatched`, `CompletedShown` (**liveness**): the page polls only what
  it watches, and what has become of a pending check is shown in the end, unless
  a poll failed or the entry could not be rendered, or the view left the change
  out: for being within the second of the last change, or of the last comment,
  that the page saw; for being older than a comment that the view read after
  the entry; or for being a deletion.
* `OneClaim`, `NeverRefused`: no two review requests and drafts claim one
  commit ID, so the database refuses nothing that the API let pass.
* `CreationCompletes`, `NothingLeft`: a creation ends with a review request
  that can be addressed; one that is refused leaves no diff set history.
* `AnswersTrue`, `AllSent`: the answer of a batch counts what was published,
  and each publication gets its e-mail.
* `PublishedInOrder`, `Undisturbed`: a review becomes public only on a public
  review request and without comments on drafts; nothing is published twice; and
  a public review request has reviewers, unless a draft that names none was
  refused for that after it had taken them.
* `FilesKept`, `NewestShown`, `DiscardedStayAway`: an answered upload stays, a
  page shows one revision of each file and the newest, and a file discarded
  with its draft is never published. Each names the harms that it does not hold
  after; a draft made of stale counters is one for `FilesKept` only.
* `NeverRefused` (of `CommitSeries`), `KeptAncestorsTrue`, `Rebuilt`,
  `RangeShowsTip`, `RangeStartsAtBase`: a client that posts what it has, in
  diffs that give every file a revision (`Unedited = FALSE`), is never told that
  a file is missing; what is kept of ancestors is what a
  computation without the cache finds; both sides of each file, and of each
  file of a range, are those of the client's trees.
* `Tiled`, `Progress`, `ChangesKept`, `UpstreamFiltered`: the opcodes always
  cover both files in order, every turn moves on (so the loop ends), no insert
  or delete of a diff is filtered, and no insert or delete outside its ranges is
  kept.

Each module states its types; the run of `ReviewRequest` checks `TypeOK`, and
for `ReviewRequest`, `IssueTracking`, `PendingReview`, `StatusUpdates`,
`Posting`, `Batch` and `FileAttachments` it is proved (`TypeCorrect`).

**Bounds, and why they are enough.** One review request suffices for the
counters: each operation changes one row, and the counter of a user or group is
a sum over rows (for four of the five properties this is the proof, section 5).
Two users cover owner and other, old and new owner, reviewer and non-reviewer;
one group covers members and non-members. Two workers cover every pair of
requests; three overlapping requests are checked nowhere. Three duplicates make
consolidation loop, and make the second consolidation choose another master.
Identifiers collide between two review requests, and two commit IDs let one be
given up for the other. A batch of two review requests and two reviews has a
publication before, between and after a failure; reviews about one review
request alone or with it are both met. Four files are two revisions of two
files, or four of one. Three runs let a check time out, be retried and answer
twice; the page needs one change before and one after what it has seen, within
and beyond a second, of the check and of a comment: each of the four exemptions
of `CompletedShown` is reached (without any one of them TLC finds a
counterexample), and two polls overlap within a second. Three commits let a file be deleted, come back and be
changed; two paths let it be moved and copied; contents that return are covered
by two. Four lines per file have two ranges with lines before, between and
after; the opcodes of every such pair are enumerated. Integers have no width:
they count rows of a small system. `MaxRuns`, `MaxTime`, `MaxPolls`,
`MaxDrafts`, `MaxFiles`, `MaxCommits`, `MaxLines` and `MaxCrashes` bound what
would grow without end.

**Constraints.** The theorems of section 5 know no constraint and no bound: they
cover what lies beyond those of the runs. `NoDrift` does not follow
`ReviewRequest` past its first drift (the state with the drift is checked).
`Bounded` does not follow `IssueTracking` past a collision of
kind `other`, or past counters outside 0..2; once a worker has died with
something uncounted it follows requests one at a time, and no colliding status
changes. It gives the comment without verification only open and resolved
issues, and the right to verify only where it is asked for. `Unharmed` follows `PendingReview`
past meetings of a consolidation and a save with three reviews (`Many`), and
past all meetings that are not in `Losing` with two reviews and one comment
(`Few`). `Apart` follows `Posting` and `FileAttachments` past one cause
of harm but not past two. `Followed` follows `Batch` to the first request that
meets a batch, where the two properties about meetings say no more, and beyond
it while nothing else went wrong, drafts name reviewers, and nothing was refused
for want of them or before its first publication. `OverlapEarly` does not follow
a page on which polls have overlapped beyond the first second. In each the state
that breaks a constraint is still checked, but for `CompletedShown`: TLC finds a
counterexample to a liveness property only among the states it follows.
`StatusUpdates`, `CommitSeries` and
`InterdiffFilter` have none. `CommitSeries` takes clients whose
diffs give every file a revision (`Unedited = FALSE`); Git gives none to a file
that is renamed or copied without a change, and with such files the validation,
the two sides of a file and the ranges go wrong (section 4).

**Symmetry** permutes users, workers, comments, requests, histories, batches,
paths or contents, where no constant of the specification singles one of them
out. `ReviewRequestPage`, which checks liveness, and `InterdiffFilter` use none.

**Deadlock** is checked in `ReviewRequest`. In the other modules it is not: with
all comments used, all identifiers or files given away, the time over, a series
finalized or the opcodes filtered, nothing more need be asked.

**Fairness** is assumed of `ReviewRequestPage` only: weak fairness of the
answer to the Run button, of the timer, and of the answer and the loading of
each poll, because the browser runs its timers and callbacks and the server
answers what it is asked. Nobody has to click, no tool has to answer, and a poll
may fail. Elsewhere no liveness is claimed: a request is asked by a person, a
worker may die at any statement, and the code retries nothing; the one thing
that must eventually happen, the repair of duplicates, happens only if somebody
loads a page. That the loop of the filter ends needs no fairness: `Progress`
says that each of its turns gets nearer to the end.

## 4. What the code does not keep

Each statement below is a definition of a module that states what the
documentation, a comment or a test says; TLC has found each of them violated by
what the code does. Two are runs that expect a violation; the others are the
reasons for the exceptions in the properties of section 3, and `PROJECT.json`
quotes the lines of each under `findings`.

| Module | Statement | What happens |
|---|---|---|
| `CommitSeries` | `EveryFileOpens` (run) | looking at one file of a finalized series, before any range was shown, compares a commit ID of `None` and raises |
| `InterdiffFilter` | `NothingHidden` (run) | a replace that starts before the changes of one side only is filtered, and hides a line that the newer diff changed |
| `ReviewRequest` | `ReviewersChangeWithDraft` | a publication refused for a blank summary has already changed the reviewers |
| | `IncomingAlwaysExact` | publishing a draft on a closed review request takes its reviewers' counters below the number of its incoming review requests |
| | `OutgoingAlwaysExact` | discarding an unpublished review request whose draft names a new owner decrements the wrong profile |
| `IssueTracking` | `PublicForGood` | a save that was loaded before the publication reverts it |
| | `PublishedIssuesOpen` | a draft review whose issues a check dropped fails the assertion when it is published, and so does one of which an issue is resolved just after it became public; it is public then, and the counters never get it |
| `PendingReview` | `MergingDeletesNoComment` | a comment added to a duplicate after its comments were listed is deleted with it; likewise the Ship It of a duplicate is dropped |
| `Posting` | `NumbersGrow` | after the newest review request was deleted, the next one gets its number again |
| `Batch` | `FailMeansNothing` | a batch of reviews that fails after its first publication answers "fail" |
| | `PublicHasReviewers` | publishing a draft without reviewers is refused, and leaves the public review request without any |
| `FileAttachments` | `DraftsCopyAll` | an upload that began before the first file was published, and ends after, makes a draft without that file; publishing the draft takes the file off the review request |
| | `SeenOnlyIfPublished` | uploading a revision to a draft hides the published revision from the page before the draft is published |
| | `PublishedForGood` | a published file that was deleted is lost when a revision of it is uploaded |
| `ReviewRequestPage` | `AllCompletedShown` | a check that completes within the second of the last change, or of the last comment, that the page saw is never sent, and the page waits for it for ever |
| | `PollsWhileWatching` | an empty answer to a second poll sets a timer for an entry that is no longer watched |
| `CommitSeries` | the exception `LostByDeletion` of `RangeStartsAtBase` | the old side of a file that a range deletes and brings back is not that of the base |
| | `NeverRefused`, with `Unedited = TRUE` | a client that modifies a file, renames it without a change and modifies it again is told that the file does not exist |
| | the exception `CopiedIn` of `RangeShowsTip` | a file that a commit of the range changed is left out when a later one copies it |

## 5. What is proved

Every invariant and every action property that a passing run checks is a
theorem of the specification, for all values of the constants that satisfy the
module's assumption. What the prover cannot reach is at the end of this section.
Eight modules hold the proofs. Each argument has the same form: an inductive
invariant that holds initially, is kept by every step (one lemma per operation)
and implies the property. Where a property holds only `Without` causes that the
history variable records, so does its invariant; because a cause stays
recorded, it need only be kept by the steps that add none.

### ReviewRequest

In `ReviewRequest_proofs`, for every set of users, groups and texts and every
finite set of review requests (`ConstantsAssumption`: the set is finite, the
blank text is a text, and the values that stand for "no row", "no draft" and
NULL are not rows, drafts or numbers):

* `TypeCorrect`. `DriftGrows` says that a cause, once recorded, stays.
* `GroupIncomingCorrect`, `DirectIncomingCorrect`, `StarredCorrect`,
  `OutgoingCorrect`. The invariants are inductive together with `TypeOK`. The
  argument: every operation changes one row (`OnlyRow`), so the set behind a
  counter changes by that review request at most (`CountChange`), and the lemmas
  named `…Moves` show that the users and groups that an operation decrements are
  those whose set the review request was in, and the ones it increments those
  whose set it is in afterwards (`IncomingMoved`).
* `TotalIncomingCorrect` adds members who come and go and totals that wait at
  NULL: a total is NULL or exact (`Fits`), a load stores the size of the query
  unless it drifts (`LoadCounts`), and a load in the middle of a publication
  counts a row that is not listed or does not reach the old owner
  (`PublishTotals`).
* `DraftChangeDescCorrect` and `CloseInfoCorrect`, from the inductive invariant
  `RowsFit`. It is needed because `CloseInfoFits` alone is not enough: that
  closing leaves no draft and what a draft's change description says of the row
  must be known before a publication.
* `LifecycleImplemented` (`Spec => ImplementsLifecycle`): each operation is a
  step of the abstract lifecycle or a stutter. `SubmittedIsPublic` carries an
  invariant of the abstract lifecycle to the code's model.

### IssueTracking

In `IssueTracking_proofs`, for any workers and guarded comments and all finite
sets of reviews and comments (`IssueAssumption`: each comment belongs to a
review, and the value that stands for no status is none):

* `TypeCorrect`, from `BaseInv`, which is `TypeOK` with what a request is at
  each of its statements (`Kinded`) and that every two requests under way have
  been recorded as a collision if they are one (`Recorded`). One lemma per
  statement, named `…Facts`, says what it does to the rows and to the worker.
* `PublishedReviewsKept`, from `CalmInv`. Requests that did not collide are
  about different reviews, or change issues beside one another or beside a
  revocation (`Parts`), so what each worker has loaded (`ReviewFits`,
  `ChangeFits`) is not disturbed by the others (`OthersFit`). `CountsExact`
  speaks only of states in which nobody is served; the invariant says what the
  counters are in between: they leave out a review that was published and is not
  counted yet (`Counted`), and include a Ship It that was revoked and is not
  uncounted yet (`ShipIts`). Of counters that a worker had still to change when
  it died, or failed the assertions, it says nothing (`TotalFits`, `ShipItsFit`), but what the other workers rely
  on survives a death (`CrashCalm`), and a recount establishes the issue
  counters anew (`SaveCountsCalm`, `SaveCountsExact`).
* `CountsAreExact` and `ClosedByVerifiers`, from `ExactInv` besides: while no
  two requests change one issue, an issue whose status was saved is counted with
  the status that its worker loaded, until the worker is done (`Moving`,
  `CountedAs`), and no counter is claimed to be right while dropped issues are
  being recounted (`Dropping`).

### PendingReview

In `PendingReview_proofs`, for any workers, any number of crashes and all finite
sets of reviews and comments (`PendingAssumption`: the sets are finite, a
consolidation goes through a sequence of different reviews, and the values for
rows that do not exist are no rows):

* `TypeCorrect`, from `BaseInv`: `TypeOK` with what a request is at each
  statement (`Shape`), and that every two requests under way that hold one
  review have been recorded if they may harm each other (`Recorded`). That what
  a request holds has been created (`Born`), and that nobody else knows the
  comment about to be created (`Fresh`), is needed for `Recorded` to survive the
  creation of rows.
* `CommentsAreKept`, from `KeepInv`. That each comment owed is in a live review
  (`InReview`) is not inductive: a duplicate may be deleted because nothing is
  linked to it (`NothingToLose`), which holds because its comments left it one
  by one, each after the master had it (`InMaster`), and because the list of
  what is to be moved was complete (`MovesAll`). The last is what a comment
  added in between breaks, and `Losing` exempts.
* `PublishedAreKept`: no request but one that publishes holds a published
  review (`NonePublic`). That its comments stay needs `OnceInv` besides: a
  comment is in two reviews only while one worker moves it from one to the
  other. A worker that dies there leaves it in both for good, and two
  consolidations may move it to different masters; hence the exceptions.
* `ConsolidationsComplete`, from `MergeInv`: while nothing meets a
  consolidation, it alone holds what it found, the duplicates behind it are gone
  (`Rid`), text that it met is in the row it holds (`TextTaken`), and once saved
  that row is the master's (`MasterSaved`).

### Status updates and the page

In `StatusUpdates_proofs`, for every set of checks and workers, every timeout
and bound, and all answers that are states other than pending
(`TableAssumption`, `RequestsAssumption`):

* `TypeCorrect`, from `TypeInv`, which is `TypeOK` with the numbers of runs.
* `AnswersAreStored`. `AnswersStored` speaks only of checks that nothing is
  done about, so the inductive invariants say what is true in between:
  `HeldFits` (a request that has not run its tool yet holds a row that could
  be run; one that has holds a pending one) and `PendingAwaited` (a pending row
  has a running tool, or a request that will save an answer to it).
* `ToolsRunOnce`, from `RunsApart`: of each check there is one run, or one
  request that reopens it, or a row that can be run (`OneRun`, `Reopening`).
* `TableImplemented`: every step of the server is one save with a time of its
  own, one deletion, a tick, or leaves the table alone (`StepChangesTable`).
* `PollsAreWatched`, of `ReviewRequestPage`, for any number of polls, from
  `PageInv`: as long as no two polls were under way together there is at most
  one, and a timer, a period, or a poll whose answer is not being loaded is only
  there while the entry is watched. `OnlyWhileWatched` alone is not inductive:
  an empty answer sets a timer, and the entry of another one may end the watch
  before its table of issues is loaded.
* `PageMeetsServer`: the page over the server of `StatusUpdates`
  (`PageOverServer`, in which they share the table and its clock, which comments
  move as well, and nothing else) behaves as
  the page over the abstract server. So `PollsAreWatched`, and what TLC finds of
  the page, hold of the page over the requests, tools and integrations.

### Posting

In `Posting_proofs`, for any review requests, workers, commit IDs and change
numbers (`PostingAssumption`: change numbers are commit IDs, and the values that
stand for no commit ID, no draft, an absent or a deleted review request and an
idle worker are distinct from what they replace):

* `TypeCorrect`, from `TypeInv`: `TypeOK` and that no local number is above the
  highest one given, which `MAX + 1` needs.
* `CreationsComplete`, from `CompletionInv`: a review request without a number
  has a worker that is `Numbering` it. It needs `CreationInv` (each review
  request is created by one worker, and has no number until it is saved) and
  `NumberInv` (a number that was read is above all others until it is saved).
* `OneClaimEach`, `NothingRefused`, `NothingIsLeft`, from `ClaimInv`. That no
  two review requests hold one commit ID (`Disjoint`) is not inductive: what a
  worker has checked and not yet written must not be held by another review
  request (`Free`) nor be about to be written by another worker (`Alone`).

### Batch

In `Batch_proofs`, for all finite, disjoint sets of review requests and reviews,
any batches and any bound on drafts (`BatchAssumption`):

* `TypeCorrect`, from `BatchInv`: types, and the `Shape` of a batch. What it was
  asked for is what is done and what is to be done, nothing twice; the review
  requests come first, so that none is left when a review's turn comes. That
  the queue begins so is `QueueFacts`.
* `AnswersAreTrue`: the counts in the code (the index of the loop, and for a
  review the number of review requests before it) count what is done, because
  of `Shape`.
* `EverythingIsSent`, from `SentInv`: of what is unsent, some batch under way
  will send the e-mail.
* `CalmBatches` and `ReviewsComeLast`, from `CalmInv`: as long as nothing
  touches what a batch holds, batches are `Apart`, what each one found when it
  began still holds of what it has to do, and each review request that it has
  published is `Ready` for its reviews (`Calm`). A draft whose turn comes is
  then the one that was loaded, so a refusal for want of reviewers is recorded
  in `stripped`, and any other one leaves reviewers.

### FileAttachments

In `FileAttachments_proofs`, for any histories and workers and any number of
files (`FilesAssumption`: at least one file, and the values for no file, no
draft and an idle worker are none):

* `TypeCorrect`, from `TypeInv`: `TypeOK`, and that files are numbered as they
  are made and no revision is ahead of them.
* `DiscardedFilesStayAway`, from `DiscardInv`: the files that a draft is to
  delete are on the lists of the review request, so deleting a draft takes no
  file from it and leaves none of its own.
* `AllFilesKept`, from `KeptInv`: a draft names all files of the review request,
  a worker that replaces a revision does not hold a published one, and between
  the two parts of a publication the lists of draft and review request are the
  same. The first is what a draft made of stale counters breaks, so that is one
  of the six losses which the property leaves out. It needs that uploads to one history do not
  overlap (`UploadInv`) and that no file is both active and inactive
  (`ListsInv`).
* `NewestRevisionShown`, from `NumberInv`: the revisions of each history are
  numbered from 1 without a gap (`IsNumbering`), what only the draft has or is
  being added to it is the highest (`NewestFree`), what a worker is about to save
  takes the next number or that of the file it replaces (`SavingFits`), and every
  revision that is not active, whether it was deleted or dropped by a draft that
  left it out, is older than every active one (`OlderGone`). Only so is the one
  that the page shows the newest, whichever revisions were deleted, dropped and
  brought back. A file can be brought back only while all of its revisions are
  named by the lists or about to be (`PendingWhole`).

### CommitSeries

In `DiffViewer_proofs`, for any paths and contents and any number of commits
(`SeriesAssumption`: the values for no file, no revision and a failure are no
contents). The chains of ancestors and the patched contents are recursive
functions; induction theorems that take an operator are not at hand, so these
proofs argue by a smallest counterexample: the first commit, or the first place
in a chain, where the claim fails (`Least`, `StrongInduction`, `LeastRank`;
`RecursionExists` shows that the functions are what their equations say).

* `KeptAncestorsAreTrue`, with no further hypothesis, from `NumbersInv` (rows
  have the numbers of posted commits) and `KeptInv` (what is kept of a file is
  its chain, split after its last deletion): whatever was looked at before, and
  whatever commits came since, the kept chain is the one computed afresh.
* `NothingRefused`, `FilesAreRebuilt`, `RangesShowTip`, `RangesStartAtBase`,
  from `DiffsInv`: the rows of each commit lead from the tree before it to the
  tree after it (`FromTo`). They assume `~Unedited`, as the run does: the diffs
  give every file a revision, or in other words report no file as moved or
  copied without a change. With such files the code refuses and shows things wrongly (section 4).

### InterdiffFilter

In `DiffViewer_proofs`, for files of any length (`LinesAssumption`):
`FilteredOpcodesTile`, `FilterKeepsChanges`, `FilterDropsUpstream` and
`FilterProgresses`, from `FilterInv`:

* What was yielded and what is left make one path through both files
  (`PathsMeet`); every opcode left is one that the differ could have made: it
  is not empty, a replace is as long in both files, an equal has no modified
  line (`AllFit`); the ranges that each side has left contain the written lines from the next opcode on (`SideFits`);
  and what was yielded is rightly filtered and rightly kept (`YieldedRightly`).
* The heart is `CutTurn`: in each phase and branch (`SplitBeforeCuts`,
  `KeepAtBoundaryCuts`, `FilterOutCuts`, `KeepCuts`) a turn yields the opcode up
  to a cut and puts the rest back. `CutKeeps` then shows once that a turn keeps
  the invariant and leaves less to do.
* That the input is as the invariant says is proved too: the ranges are the runs
  of written lines (`ChangeRangesAre`, `RangesCover`), and the opcodes are a path
  (`OpcodesAre`), because at each of them both files have as many shared lines
  left (`Aligned`).

### Model-checked only

`CompletedShown` is liveness under fairness, which with `ENABLED` is out of the
prover's reach. The statements of section 4 are refuted by TLC.

## 6. Reading the mutants

For each property of a passing run `PROJECT.json` names a mistake ("A mistake:"
or "A variant" in the modules) that a programmer could have made in the code:
decrementing after the draft was published, forgetting a reset, dropping a
guard, moving a row in the wrong order. With the mistake in place TLC finds the
property violated under the run's own configuration.

## 7. Plan

Done: all modules of section 2, and a proof of every safety and action property
of section 3.

Next, in this order:

1. What the collisions that the properties exempt leave intact: after they have
   met, which counters, reviews and files can still be relied on.
2. The command `reset-issue-counts --all`, which leaves the issue counters NULL
   until somebody loads the review request, beside requests that add to them.
3. Theorems about the input of `CommitSeries` with files that are moved without
   a change (`Unedited`): which series are accepted and shown rightly all the
   same.

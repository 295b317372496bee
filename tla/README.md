# NimbusFS in TLA+

NimbusFS is a web file manager for the accounts of one Linux machine. Users log in with their
system password or an SSH key, and the server, which runs as root, does every file operation with
the file system credentials of the user who asked. This directory models the parts of it whose
correctness depends on the order of steps: TLA+ modules translated from the Go and TypeScript
source, TLC configurations that check small instances, and proofs for TLAPS.

Contents: [the system](#the-system) · [modules](#modules-and-the-code) · [runs](#runs) ·
[bounds](#bounds) · [fairness](#fairness-and-deadlock) · [proofs](#proofs) ·
[what the code does and its documentation does not say](#findings) · [gaps](#not-modelled) ·
[plan](#plan)

## The system

| Component | State | Operations | What is hard about it |
|---|---|---|---|
| Impersonation (`fsops/identity.go`) | credentials of each OS thread; `rootGroups` | `As`: lock the thread, switch three credentials, run `fn`, switch back | goroutines move between threads, system calls interleave, any switch may fail, two of them without an error |
| SSH device login (`auth/sshdevice.go`, `api/sshauth.go`, `cmd/nimbusfs/sshlogin.go`, `SSHLoginPanel.tsx`) | two maps of challenges in memory; the panel's state; sessions | `SSHStart`, `SSHPoll`, `SSHDeviceInfo`, `SSHRespond`; polling, signing | overlapping polls, expiry between two calls of the store, lost replies, restarts, the tab must not wait for ever |
| Sessions (`auth/session.go`) | the `sessions` table | `Create`, `Validate`, logout | `Validate` acts on a row others refresh or delete meanwhile; whole seconds |
| Login limiter (`api.go` `Login`) | the `login_attempts` table | count, PAM, record | count and record are far apart |
| Share links (`api/shares.go`, `cmd/nimbusfs/share.go`) | the `shares` table; unlock cookies; their key | create, list, revoke; info, unlock, list, file | revocation and expiry against requests under way; cookies across shares and restarts; arithmetic |
| Search index (`search/index.go`, `api/search.go`) | the current bleve index, `ready`, `building` | `Rebuild`, periodic rebuild, `Search`, `ReindexSearch` | swap against searches, dropped rebuilds, errors that are passed over, files that change during the walk |
| Sandbox and file operations (`fsops/sandbox.go`, `fsops/ops.go`, `api.go`) | the disk | list, stat, open, mkdir, create, upload, delete, rename, move, copy | symbolic links, a failure half-way, two requests on one path |
| Thumbnails (`thumbnail/`, `api/thumbnail.go`) | files of the cache directory | look up or make and keep | the key is of one open, the picture of another; permissions change under the cache; a torn file |
| Browser application (`web/src`) | what a tab shows and has selected; the CSRF cookie | sign-in gate, navigation, listings, bulk operations, search | answers out of order, operations that outlive what they were started from, cookies shared with other tabs |
| Authentication middleware (`api.go` `RequireAuth`, `RequireCSRF`; `server.go`) | the user name in a request's context | by cookie, by a proxy's header, refuse | joins sessions, requests and threads |
| Store (`store/store.go`) | the sqlite tables | one statement each | none of its own: the statements are steps of the components that use them |
| Server, configuration, file types, PAM and authorized_keys, command line | none that changes | | |

How they interact. Every file operation, thumbnail and share download goes through `As`; each file
operation resolves its paths with the sandbox first. Password login consults the limiter, both
logins end in `SessionManager.Create`, and every other authenticated request begins with `Validate`.
`SSHStart` is refused by the same count of failures as `Login`. Share requests carry no session: the
row of the share names the owner they run as. The search index reads the tree as root and filters
its hits by the mode bits of the files alone. Sessions, attempts and shares survive a restart in
sqlite and the thumbnail cache in its directory; challenges, the index and the key of the unlock
cookies do not.

Everything concurrent is a goroutine per request, plus the ticker of the index and the intervals of
the browser. The mutexes that guard shared state are the one of `SSHDeviceStore` and the one of
`Index` (a third guards a cache of user names); what they do not cover (a handler between two calls
of a store, the SQL statements of one request) is where the models interleave.

### What makes each component correct

* **Impersonation.** `fn` runs with the caller's credentials and nobody else ever does; error paths
  included, a thread goes back to the pool as root. Excepted is what the kernel refuses and the code
  does not look at.
* **SSH login.** A session comes of a good signature for that challenge only; a challenge gives few
  sessions (the documentation says one); attempts are bounded; a tab is told how its login went.
* **Sessions.** No timeout is stretched by refreshes that arrive late; a session that is gone stays
  gone.
* **Limiter.** Wrong passwords per minute are bounded; nobody is refused without cause.
* **Shares.** Content is served only to requests that came while the link was shared, behind the
  password only to browsers that gave it; only owners revoke.
* **Search.** No index is seen half built, none leaks; a file that stays is found once errors stop;
  a user is shown files whose own bits grant him to read them and, as long as the matches are few,
  all of those the build could read.
* **Files.** `ok` means that the operation, the whole of it and nothing else, was done; a failure
  leaves everything else as it was; a share gives access to its subtree only.
* **Thumbnails.** The picture is no older than the first file of the size and second that the
  request saw, and whoever gets it could read the file.
* **Middleware.** Whatever a request does is done as the user of its cookie or its header, from the
  cookie to the system call.
* **Browser.** Only what was on the page is changed, when the user confirmed a deletion or opened
  the dialog of a move; the page ends up true; a page that is shown can send changes.

## Modules and the code

Names are those of the source where it has one. An operator marked *fault* is a plausible bug of
the definition that follows it, used to see that the properties notice it; no specification uses
one. `map` in `PROJECT.json` gives the source lines of every definition.

**Impersonation** has one action per system call of `As`. `on` is the thread a goroutine runs on,
`locked` the one it has locked, and `Park` and `Resume` are the Go scheduler. `scope` is what
`Setgroups` changes: its thread, as the comment of `As` says, or the whole process, as the Go
runtime does it. An account stands for its uid, gid and groups. A call may fail in three ways, and
`As` notices one of them. A `Setgroups` that fails before `fn` reports it, and `SwitchFails` undoes
what came before (it has the error branches of the two ids too, as the code does).
`setfsuid` and `setfsgid` report nothing: a refused one returns the id it was to replace, which `As`
discards, and `fn` runs with the id of before (`Setfsuid`, `Setfsgid`). Of the calls that restore,
`As` looks at no error at all (`SetgroupsRefused`), and if `Getgroups` fails the first time, `rootGroups`
stays empty for good and every restore installs no groups (`NoGroups`). `refused` is history: the
credentials of a thread for which the last call was refused unnoticed. `Refusable` says which sorts
of call may be, `MaxRefused` how many stand refused at a time.

**DeviceLogin** is the abstract promise of the SSH flow: a challenge is issued, approved, turned
into at most `MaxGrants` sessions while it is approved, and closed for good. **SSHDevice** is the
flow itself. Each method of `SSHDeviceStore` is an operator over `byCode`, `byToken`, `status`,
`attempts` and `expiresAt`, and each handler is a sequence of actions, one per call it makes
(`PollLooksUp`, `PollChecks`, `PollCreatesSession`, `PollConsumes`, …). `tab` is
`SSHLoginPanel.tsx`, `client` the `ssh-login` command. A challenge stands for its code, token and
nonce, which are random and fresh; a signature is good or not (`RespondAccepts`,
`RespondRejects`). SSHDevice implements DeviceLogin with `MaxGrants` the number of polls that can
be in flight, under the mapping at its end.

**Sessions** has `GetSession`, `Judge` and `Touch` or `DeleteTimedOut` for the two statements of
`Validate` and the reading of the clock in between. `Unix` is the truncation to seconds.

**Server** composes Sessions and Impersonation: a request is a goroutine (`Requests \subseteq
Goroutines`) that comes in by cookie (`HasCookie`, then the steps of `Validate`) or by the header of
a proxy (`VouchedFor`), carries the user name in its context (`user`) and calls `As` with it as often
as it likes (`UsesFiles`). Which ways to sign in there are is `methods`, as `Config.Validate` admits
them; a restart may choose others. `ActsAsCaller` is the promise of the whole path. Its proof module
takes over the invariants of both parts; Server implements Sessions (`ImplementsSessions`).

**LoginLimiter** has the count (`Refuse`, `Admit`), PAM and the record as three steps, with the
store failing at either end, where the code goes on.

**Shares** has the owner's operations (`CreateShare`, `CommandLineShare`, `RevokeShare`) and the
anonymous request as: read the row (`GetShare`), judge the copy (`Refuse`, `Admit`, `AskPassword`,
`ShareUnlock`), open the file. `Duration` wraps as a signed word does. What is below a share is
FileTree's `ResolveWithin`.

**SearchIndex** has a bleve index as a slot, open or closed, with its documents. A walk comes to every
path once (`Visit`): it indexes what it finds there (`Indexes`) or passes it by (`Skips`), because
nothing is there, or because its directory cannot be read, or `d.Info`, `RelPath` or `batch.Index`
fails; the build goes on in either case. A skipped directory is the skipping of what is in it.
`Flush` is the batch that may fail and is kept. A document has the owner, group and mode the walk
found, of a link its own; a search has a caller and a query, takes at most `maxResults` of the matches
(`Hits`) and filters them with `CanRead` afterwards, as the handler does: the read bit of the one
class he is in. `settled` is history: the files of an index that have been there unchanged since its
build began and were not passed by.

**FileSystem** is what the operating system does: a tree of directories, files and links, and the
calls on it. It is external to the code. **FileTree** is `sandbox.go`, `ops.go` and the handlers on
top of it: a request resolves its paths, then makes its system calls one by one, and any of them
may fail (`Fails`). `os.RemoveAll` is external, with the calls it makes: a try by path
(`RemoveOne`), the parent directory opened by path and held (`RemoveOpensParent`), and from there
names in open directories, on a stack (`RemoveReadsDir`, `RemoveNext`), so that a directory renamed
meanwhile is not found by its name, and one opened before is emptied where it is. Opening a directory
and reading it is one step; what cannot be removed is left, and the next entry is tried. A copy opens
its source and then, in a step of its own, the destination. `before` is the tree a request met, as
long as no other request has changed it; `Promised` says from that alone, without the code's steps,
what the tree must be after `ok`.

**Thumbnails** is one path with its history of versions, the cache, and requests that open, look
up, make and keep. What is at the path may get any size and any time at any moment (`FileChanges`),
also those it had before: the program's own `Move` and `Rename` are an `os.Rename`, which brings the
time of the other file along, as do `mv`, `cp -p` and `tar`.

**Browser** is one tab: `app` is what the gate shows, `path`, `entries`, `selected`, `loading` and
`error` are the state of `BrowserPage`, `list` and `op` its requests under way. What the page does
between two awaits is one action: `Refresh` sends a listing, `ListingShown` and `ListingFails` are its
`then`, `catch` and `finally`, whichever listing it is; `NextFile` is the `await` in the loop of a
bulk operation, `Finish` and `Fail` what follows it. `dialog` is `dialog.paths`: what was selected
when the dialog of a move or copy was opened (`OpenMoveDialog`), whatever is listed and selected until
it is confirmed (`HandleMoveConfirm`); a deletion takes the selection at its confirmation, which
`window.confirm` waits for (`HandleDelete`). `EnsureCSRFCookie` and `CsrfPasses` are the
server's part of the double submit. `astray` is history: it is true when the page is known not to be
right, for the two reasons the code has (see findings).

**FileTypes** is `mimetypes.go` as a function of the document; `ParsePromise` is what it must
compute, said without the loop.

## Runs

| Run | Shows |
|---|---|
| `requests` | `ActsAsCaller`: two requests of two users, by cookie or by header, through the middleware into `As`, on two threads that may be parked and moved anywhere, with switches failing, calls refused unnoticed, and restarts. Excepted are the ids the kernel refused to switch for this very call. `PoolThreadsAreRoot`, `QuiescentGroupsAreRoot`: threads and groups come back to root (groups to none if root's could not be read) whatever the scope of `Setgroups`, but for a credential whose last restore was refused; a refusal on one thread or in an earlier call harms no other. `AdmittedInTime`, `GoneForGood`: no session is admitted past a timeout or comes back, in whatever order the statements of the requests fall. |
| `impersonation_process` | a violation: see findings. |
| `ssh_device` | `IndexesAgree` (with it the attempt budget), `SessionNeedsSignature`, `OkMeansApprovedOrGone`, `SignedInHasSession`, the refinement `ImplementsDeviceLogin` and the liveness `ApprovalReachesTab`, with two overlapping polls, two clients, expiry, lost replies and restarts. |
| `ssh_single_use` | a violation: see findings. |
| `login_limiter` | `FailuresBounded`: the limit is exceeded by at most the logins that run at once. `RefusedForCause`. |
| `shares` | `ServedOnlyWhileShared`, `PasswordGate`, `PasswordAskedOnce`, `RevokedByOwner`: two owners, two links, a request under way, a restart. |
| `shares_overflow` | a violation: see findings. |
| `search_index` | `NoHalfBuiltIndex`, `NoIndexLeaks`, `ResultsGranted`, `FewMatchesAllShown` and the liveness `StableFilesFound`, with the ticker and a reindex request, files that change their owner, files and batches the build loses to errors, and a search under way. |
| `file_tree` | `OkMeansDone`, `FailuresStayLocal`, `ReadsWithinScope`, `CreatedOnce`: any two operations, one after the other or call by call between each other, on trees with links. |
| `file_tree_folders` | a violation: see findings. |
| `thumbnails` | `FreshForItsStamp`, `ReadersOnly`: two requests of two users, a file that changes and whose time goes back, permissions that change, restarts in the middle of a write. |
| `browser` | `OnlyShownChanged`, `QuietIsTrue`, `NotLockedOut`, `LoadingIsAwaited`: a user between two directories, listings that arrive while a dialog is open, answers in any order, failures, other tabs, restarts of the browser. The assumptions of `MCBrowser` compare `Parse` with `ParsePromise` for every document of up to two types with up to two patterns each. |

Each property is tied to a fault of the code that breaks it (`mutants` in `PROJECT.json`).

Some properties are weaker than one would first write, and the difference is what the code does.

* `FailuresBounded` allows as many failures more as logins run at once, because nothing is held
  between the count and the record.
* `ActsAsCaller`, `PoolThreadsAreRoot` and `QuiescentGroupsAreRoot` except a credential while the last
  call for it was refused, because `As` does not look. That a refusal is not remembered any longer than
  that, that it concerns this thread and this credential only, and that a caller's groups are never in
  doubt, is what they say.
* `StableFilesFound` has a premise: from some time on no build meets an error that is logged or
  passed over (`Errs`). Each of these replaces a complete index by one that lacks files, or keeps an
  old one, until the next build. `FewMatchesAllShown`, which says what one search shows, excepts the
  files its index passed by.
* `ResultsGranted` speaks of a file's own mode bits, not of the kernel's check: ACLs, the directories
  above and the target of a link are not asked (`access.go:10-17`), and a file it shows may answer 403.
* `FreshForItsStamp` compares a picture with the first version of the second and size the request
  saw, not with the last: see findings.
* `QuietIsTrue` leaves out what `astray` names: a late listing of a directory the user has left, and an
  operation that ends after he left its directory or page.
* `ReadsWithinScope` speaks of reads that no other request disturbs between `ResolveWithin` and
  `os.Open`, `PasswordAskedOnce` of one run of a browser (the cookie is a session cookie).

## Bounds

* *Requests and threads.* Two polls, two clients, two logins, two thumbnail requests, two file
  requests, two requests of a session on two threads, two listings and one operation of a tab. Each
  hazard listed is between two actors, or between one and the clock or a restart; a logout and the
  refresh it races are the two requests of `requests`, whose threads are parked and reused as soon
  as a request gives one up. The proofs remove these bounds.
* *The clock.* `MaxTime` ends it. It is larger than the longest timeout together with what must come
  after it, and a second is two ticks in Sessions, LoginLimiter and Shares so that truncation
  matters; in the run of Server both timeouts are one second and a tick is left to exceed them. In
  SSHDevice `SSHStart` is guarded so that each challenge can expire within the bound.
* *Values.* `MaxVerifyAttempts` 2 (the code: 5), `maxLoginAttemptsPerMinute` 2, `BatchSize` 2 with
  two files, so that limits are reached and one is the last but one. `MaxAttempts` bounds the rows
  of LoginLimiter. `Hours` is {0, 1}, and {0, 1, 4} with `DurationBound` 4 in `shares_overflow`,
  where 4 hours is the first lifetime that does not fit the word. `MaxRestarts` 1: the first
  restart already replaces the key of the cookies.
* *Refusals.* One sort of call stands refused at a time (`MaxRefused` 1): setfsuid, a restoring
  Setgroups, or Getgroups for good. setfsgid is treated alike by code and model and left out of the
  run, which it makes half as long again; the theorems are about any of them, and any number.
* *Slots.* Three bleve indexes: the current one, the one being built, and the one a search still
  holds. The model waits when none is free; memory does not run out.
* *Trees.* `MaxNode` 6 with up to four nodes in the beginning, so that copies and uploads fit or
  run into a full disk; paths of up to two names, which reach through a link to a directory, a link
  to a file and a link to the root; `MaxLinks` 2, met by the last one, which leads to itself.
  Uploads are of one file or of two with different parents.
* *Search.* One user, a member of a further group. She may read the one file through that group; the
  other becomes hers with a mode that is its group's only, and then she may not, so that the index
  has more hits than she may see. One query matches both files and `maxResults` is 1.
* *Browser.* Two directories with three paths: a bulk operation has a second file, a move has where
  to go, and a directory can be left. One value of the CSRF cookie beside none: a request whose header
  is another tab's older value is refused, and any request may be refused anyway (`Serve`).
* *Thumbnails.* `MaxVersion` 3 and times from 0 to 2: two in one second and one in the next, in any
  order and any of them again, and a second size. Three versions are what it takes to file a picture
  under a past stamp and come back to it.
* Requests, goroutines, threads, users and tokens are symmetric where `SYMMETRY` says so. It is not
  used in the runs with liveness.

## Fairness and deadlock

Safety runs assume none. In `ssh_device` a request the server has is served (`WF` of a poll's
steps: goroutines are scheduled) and the panel's `setInterval` fires as long as the tab waits (`SF`
of sending, because each poll in flight disables it). Nothing makes the clock, the user, the client
or an expiry happen. In `search_index` goroutines run and the ticker keeps calling `Rebuild` (`WF`).
That errors stop is not assumed of the specification but the premise of `StableFilesFound`.

Deadlock is checked except in the two runs of FileTree, whose requests are made once each and are
then all done.

## Proofs

| Module | Result | From |
|---|---|---|
| ServerProofs, of `fsops.As` | `AsTypeCorrect`, `FsIdsAreCallers`, `GroupsAreCallers`, `PoolIsClean`, `GroupsComeBack` | accounts, `None` and `NoGroups` are distinct, whatever is `Refusable` |
| ServerProofs, of Sessions | `TypeCorrect`, `TimeoutsEnforced`, `ExpiriesJustified`, `NoRevival` | timeouts and ticks are natural numbers, `NoRow` is no row |
| ServerProofs, of Server | `ServerTypeCorrect`, `HandlersActAsCaller`, `ServerThreadsAreRoot`, `ImplementsSessions`, `ServerAdmitsInTime`, `ServerNoRevival` | those of both parts; requests are goroutines |
| SSHDeviceProofs | `DeviceTypeCorrect`, `IndexesStayEqual`, `SessionsAreSigned`, `OkIsTrue`, `SignedInIsTrue`, `FlowImplementsDeviceLogin` | finitely many polls at a time, `NoChallenge` is no challenge, the limit on attempts is positive |
| LoginLimiterProofs | `LimiterTypeCorrect`, `FailuresAreBounded`, `RefusalsHaveCause` | finitely many logins at a time, the limit is positive |
| SharesProofs | `TypeCorrect`, `EndsAreKept`, `PasswordsGate`, `PasswordsAreAskedOnce`, `OwnersRevoke` | `None` is nothing else; `EndsAreKept` alone also from `LifetimesFit`: no lifetime is negative or overflows, the clock starts a second after the Epoch |
| SearchIndexProofs | `IndexTypeCorrect`, `IndexesAreClosed`, `SearchesSeeWholeIndexes`, `SearchShowsGranted`, `SearchShowsAllOfFew` | the ticker is a rebuilder, `NoIndex` and `Absent` are nothing else, queries are sets of files, there is a query and a caller, the limits are positive |
| ThumbnailsProofs | `ThumbnailsTypeCorrect`, `PicturesAreFresh`, `CacheServesReaders` | `Torn` and `None` are no versions, times and sizes are natural numbers |
| FileTreeProofs | `FileTypeCorrect`, `NewOnesAreMadeOnce`, `SharesAreOneSubtree`, `FailuresAreLocal`, `OkMeansItIsDone` | the disk is finite, `Nil` is no node; the trees in the beginning have every node in a directory, under a name of its own, and no directory below itself; paths are sequences of names, uploads have files and these have names |
| BrowserProofs | `BrowserTypeCorrect`, `ScreenIsTrue`, `PageIsNotLockedOut`, `LoadingEnds`, `ChangesWhatWasShown` | `Home` is a directory, `None` is nothing else |

They hold for every number of goroutines, threads, users, tokens, challenges, clients, requests,
indexes, files and listings, every tree on a disk of any size, and every value of the timeouts and
limits; polls and logins are counted, so that those sets are finite. Each module states one
inductive invariant for each specification (`AsIInv`, `IInv`, `ServerInv`, `DeviceInv`,
`LimiterInv`, `IndexInv`, `ThumbnailsInv`, `BrowserInv`; in FileTreeProofs one for each result:
`Typed`, `Once`, `AllScoped`, `Confined`, `Fulfilled`, the last four beside those before them that
they need), shows that it holds initially and that each action keeps it (one lemma per action or
group of actions that touch the same part), and reads the results off it.

*Impersonation.* `FsIdsOfCaller` says nothing of a goroutine that is parked or in the middle of
the switches, so it is not inductive. `Threading` says that a locked thread is locked by one
goroutine and runs no other; `LockedUids`, `LockedGids` and `LockedGroups` then give the
credentials of a locked thread as a function of where its goroutine stands, where they were not
refused, and `PoolThreadsAreRoot` those of all others. A caller's groups need no such exception, since
a switch of them that fails is reported. For the process-wide `Setgroups` what remains is that whoever
restores, restores root's groups or none (`Captured`), that nobody does before they were captured
(`NotYetRestored`), and that groups differ from the server's only while somebody is between switch and
restore.

*Sessions.* The strengthening is about the copies requests hold: whatever became of the row, the
copy `Validate` read grants no more than the recorded uses justify (`RequestsJustified`), so that
writing it back late is harmless. `NoRevival` is an action property and follows from `IInv` and
from `UPDATE` not inserting.

*Server.* The two invariants are taken over, each kept by lemmas about the steps of its part. What is
new is `Joined`: while a request lasts, the name in its context is that of its session or its header,
and it is what `As` was called with. `ImplementsSessions` maps every step of the server to one of
Sessions or to a stutter, so that the theorems about sessions hold of the server.

*SSH login.* The properties are said of one state each, but what makes a handler's answer true lies
in what it found a call or two before. `FlowInv` says what each poll and client at each step knows
about its challenge. The bound on sessions of one challenge is the hard part, because any number of
polls may follow each other: `Budgeted` says that the sessions of a challenge and the polls that may
still create one are together no more than the polls there are, and that while the challenge is
still in the store each session is one of a poll that has yet to consume it. Finite sets are counted
with the library's theorems. `FlowImplementsDeviceLogin` then goes through the actions: each is one
abstract step (start, approval, session), the closing of some challenges, or a stutter.

*Login limiter.* `FailuresBounded` counts both the failures of the last minute and the logins that
were counted and are still under way, and so is inductive by itself: a login is admitted with at
most `limit - 1` failures on record and every login at most under way; recording a failure takes the
login from the one count to the other; time and restarts only lower them. It rests on the rows
carrying the second of their time (`TableInv`) and on rounding being monotonic (`UnixIsMonotonic`):
what the exact clock has in its minute, the table has too. `UnixRoundsDown` gives the second by which
`RefusedForCause` is wider.

*Search index.* An index is in one hand at a time: `RolesInv` says which slot is whose while it is
built, swapped in and closed, and that a search holds an open one or one that was closed under it.
`ContentInv` is about the files that have not changed since a build began (`settled`): what the walk
still has to visit, what waits in the batch and what the index holds cover them, with what is true
of them, and a file that is passed by is not one of them any more. The two properties of answers are
action properties: the invariant says what the index holds, and the step of the answer what is taken
of it, which for `FewMatchesAllShown` needs that a set of no more than `maxResults` has no other
subset of its own size.

*Thumbnails.* A picture is filed under what one open saw and made of what a later open found. The
invariant says in which direction this goes wrong: a picture lies under a stamp that the file had when
it was made, or had had before (`FiledUnderPast`), and what a request writes is of the version it saw
or a later one (`ShowsRecent`). A hit is then of a version that is not before the first with the
stamp seen. Nothing is assumed of times, which may go back. Torn files change nothing of this.

*Browser.* `QuietIsTrue` is about the end; `WillBeTrue` says why it comes: as long as nothing excuses
the page, the listing asked for last is under way, about the right directory and, once answered, of
what is there, or the page has it already. `InProgress` ties an operation to the cookie and the page
it was started with. `ChangesWhatWasShown` is an action property and rests on `SelectedIsShown`: a
dialog opens on what is shown, and a move takes what its dialog was opened on.

*Shares.* A row ends no later than asked (`RowsAsAsked`, with the rounding lemma `UnixRoundsDown`),
browsers hold the cookies they were given and under their own names (`JarsAsGiven`), and a request
past the checks has what its copy of the row demands (`RequestJudged`). What is said of the ends of
links is conditional on `LifetimesFit`, inside the invariant, so that only `EndsAreKept` assumes it.
There it is needed: the run `shares_overflow` shows what becomes of a lifetime that does not fit.

*Files.* A walk and the path of a node are recursive functions, and everything said of a request is
said in their terms. Induction is therefore done over sets, which can be passed to a theorem where
operators cannot: `Recursion` says that a definition whose steps come to a halt from everywhere has a
function that satisfies it, for any halting set, step and combination given as functions, and
`WalkInduction` that a set of walks that contains a walk whenever it contains its next one contains
all. The order is the number of links still to follow, then the length of what is left, because a
link followed may make the path longer. From this come `WalkDef` and `PathDef`, and with them that a
node is where its path says (`NodeFound`).

`Wellformed` is the conclusion of that lemma and not inductive: from *every node is found* it does
not follow that nothing was moved below itself. The invariant is `Tree`, *structured and acyclic*:
one lemma per system call says that it leaves a tree (`MkdirTree`, `UnlinkTree`, `RenameTree`: a
directory is not moved below itself, nor removed while something is in it), and `TreeWellformed`
gives the type invariant. `Typed` adds what a request has in hand at each step (`Holds`): the places
it resolved, the nodes it opened and what it still has to do.

`CreatedOnce` needs that what was found is found again: `Grows` says that a step leaves every node
where it was and only adds to them, which all steps do but those of deletions, renames and moves,
and `FoundStaysFound` carries this to walks, through links too. So what one request made is there
when the other asks, for as long as nobody takes anything away (`Once`). `ReadsWithinScope` needs
what `Resolve` returns: the path of what is found, or else of the deepest part that is there, with
names after it that are not there (`ResolveDef`). A place that is at or below that of the scope as a
path is then of a node at or below its node, and what is opened there is what the path names
(`WithinScope`).

`FailuresStayLocal` speaks of the end of a request; its invariant, `Confined`, of what the request has
done so far to the tree it met: `Spread`, data written and things made at given places only, and
directories on the way to them, or `Shrunk`, nothing gone but what was below a place. `Copying`,
`Uploading`, `Moving` and `Deleting` say which places these are and that what is still to be done
concerns the same ones. A path names other places in the tree of now than in the tree the request
met, as soon as a link is on it. So the proof turns on `Straight` paths, those without links, also
at the end: all that `Resolve` returns are (`ResolveStraight`), they stay so as long as no links are
made (`StraightGrows`), and a call makes what a straight path says. With `ResolveGrown`, the second
file of an upload goes where the first would have gone, although directories have been made since.

`OkMeansDone` compares two trees as views, that is as maps from paths to what is there, and says of
the later one what it is, not only where it differs. The single calls are stated as equations
between views once: what is made (`GainsView`), what is taken away (`ShrunkGone`), and a rename with
the subtree it takes along and the one it replaces (`RelocatedView`, `ReplacedView`). Creating,
renaming and moving are one such call, or one after the parents are made, at the place that was
resolved (`Sourced`). An upload and a copy take many, so their invariant is about the work that is
left: `Loading`, every place an upload is sent to is written or still has a file to come; `Copies`,
every node at or below the source has its copy, with the data it had in the beginning, or some task
still to be done is at or above it. `Spread`, from `Confined`, says that there is nothing else;
together (`SpreadDone`), when no task is left, they are the promised map. Reading a directory
replaces its task by those of its entries (`EntryTasks`), which are what they were in the beginning
because nothing is written below the source: this is where `Sensible` and `Apart` are needed, and
how `Apart` was found. A deletion has a stack of names in directories that were at or below its
source (`Deleting`, `FramesBelow`). What is entered by such a name is what was at that place
(`EnteredBelow`), a name that is not in its directory any more names nothing that is left
(`EntryGone`), and an `ok` at the end is that of the bottom of the stack: the name of the source
itself is gone (`UnlinkedGone`). `Fulfilled` rests on `Confined`, and so on all that was said of
straight paths.

Only model-checked: the two liveness properties, which need fairness, and FileTypes, a fold over a
document. The four runs with a violation are counterexamples and have nothing to prove.

## Findings

Four runs find what a comment promises not to hold.

* `impersonation_process`: `As` says its changes are scoped to the calling thread. Since Go 1.16
  `syscall.Setgroups` is not: a request that enters or leaves `As` changes the supplementary
  groups other requests are being checked with. Fsuid and fsgid are not affected
  (`FsIdsOfCaller` holds), and groups are root's again when all is quiet, refused calls apart.
* `ssh_single_use`: a challenge is not single-use. Two polls that overlap both see the approval,
  and both create a session. `ImplementsDeviceLogin` bounds it by the polls in flight.
* `shares_overflow`: a lifetime in hours that overflows `time.Duration` can give an expiry before
  1970, which is stored as a negative number and read back as *never*.
* `file_tree_folders`: `Upload` means to keep the directories of an uploaded folder, but
  `FileHeader.Filename` is the base name only. Files of one name land on each other.

The page of the browser is left wrong by two things, which no document denies: `refresh` shows
whatever answer comes last, also one about a directory the user has left; and a bulk operation that
ends lists the directory it was started in, wherever he is now. What the page then shows and lets him
select are still the files it names (`OnlyShownChanged`), under a wrong path.

Where `As` does not look, it goes on. A `setfsuid` or `setfsgid` that the kernel refuses shows only in
the id it returns; the comment in `identity_linux.go:5-6` says that callers can detect it so, but `As`
discards that id and runs `fn` as root. The errors of the restores are ignored, so that a refused one
leaves the thread to the next goroutine as it is. A `Getgroups` that fails once leaves `rootGroups`
empty, and from the first request on the server has no supplementary groups. The process is root and
keeps its capabilities, so that the kernel has no reason to refuse; the models say what holds if it does.

A thumbnail can be of another file for as long as it is cached. The key is of the file the handler
opened first, the picture of the one it opened last: if `photo.jpg` is replaced in between and the old
one later moved back, by the program's own move or rename, which keep its time, it is shown with
the picture of the other from then on. Two contents of one size within one second share a picture too.

The search index leaves out what a build could not read, or could not write, until a later build can,
and says so at most in the log. It shows links, whose own mode grants all, and readable files under
closed directories, which then answer 403: as `access.go:14-17` says, an approximation.

Other behaviour that no document denies, so that no property is stated of it: a file copied onto
itself, under its own name or through a link, is emptied and the answer is `ok`; a directory copied
into itself is copied until a path is too long; a copy over a link writes to what it leads to; a
directory copied onto one that holds it, or with links in it that lead to where the copy goes, is
not copied as it was, because the copy reads what it has just written (`Apart`; the attempt to prove
`OkMeansDone` found these, and TLC agrees on trees larger than those of the run); several files
moved or copied to one destination replace each other; a search that took its index just before a
swap gets a 500; a request delayed past the idle timeout ends a session that another has just
refreshed; a search shows none of the files a user may read if the first 200 matches are others';
files that were selected stay selected while they are hidden or a listing is awaited; the answer to
an earlier search is shown over that to a later one; a thumbnail file left torn by a crash is served
as long as the file does not change, and browsers keep any thumbnail for a day; a failed
`sessions.Create` makes the panel give up although its challenge is still approved. They are listed
with their lines under `hazards` in `PROJECT.json`.

## Not modelled

* Of the *browser application* the search bar, the preview, the dialog of shared links, the page of a
  share, drag and drop and the menus. In Browser the dialogs for a new file and a rename and the click
  that opened them are one step, as they take nothing from the page but its path or one file; the
  dialog of a move is not modelled on an empty selection (a context menu left open while a listing
  comes offers it), since it moves nothing; copies are like moves and uploads like creations, and only
  this user changes files.
* In *SSHDevice* nothing forbids the session whose reply is lost; in *Shares* lifetimes are not
  negative, and unlock cookies outlast the browser; in *FileTree* the race between `ResolveWithin` and
  `os.Open` happens, but nothing is promised of it.
* *Server, configuration, command line flags, owner look-up*: static files, headers, parsing; no state
  that changes, or read once. Reading the database of file types is a choice of the documents.
* *PAM, authorized_keys, signatures, bcrypt, HMAC*: their answers are choices, and what cannot be
  forged is not.
* The *audit log*: written, never read by the program. `DeleteExpiredSessions` and
  `DestroyAllForUser` are called by nothing.
* In FileTree: links that lead out of the root, permissions (a call may fail instead), modes,
  sizes, times. In SearchIndex: how a query is matched and scored; it is the set of the files it
  matches. In Thumbnails: sizes of pictures, decoding, ffmpeg and pdftoppm (one step), several files.

## Plan

Done, in this order: Impersonation and its proofs; DeviceLogin and SSHDevice; Sessions and its
proofs; LoginLimiter; Shares and its proofs; SearchIndex; FileSystem and FileTree; Thumbnails; hits
and permissions in SearchIndex; Server and its proofs; Browser and its proofs; FileTypes; the proofs
of SSHDevice with its refinement, SearchIndex, Thumbnails and LoginLimiter; the proofs of FileSystem
and FileTree.

Next:

1. Proofs that compose: the limit on sessions of a challenge (SSHDevice) and the sessions they become
   (Sessions); abstract specifications of the limiter and of the index, implemented by what is here.
2. **Login**, composing LoginLimiter, `SSHStart` and Server: the two ways to a session and the count
   they share.
3. **Search** in Browser: the search bar and the preview, whose answers come out of order too.

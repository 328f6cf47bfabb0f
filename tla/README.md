# Pyxis in TLA+

Pyxis is a self-hosted, end-to-end encrypted file-sharing server: one Go
program in front of PostgreSQL and a directory of ciphertext blobs, with a
JavaScript client that does the cryptography. These modules model what the
server decides and in which order it changes rows and blobs, and what the
client does between a click and a request; they are model-checked on small
instances with TLC, and much of the safety part is proved for every instance
with TLAPS.

## 1. The system

| Component | Code | State it keeps | Operations |
|---|---|---|---|
| Upload accounting | `storage.go`; `storeUpload` in `handlers.go`; `handleOpenSubmission`, `closeDropIfFull` in `handlers_drops.go` | `upload_reservations`, the active rows of `files`, `drops.closed_at`, the advisory lock `quotaLockKey` | reserve, finalise, release, let lapse; open a submission; close a full drop |
| Shares | `handlers.go`, `handlers_batch.go`, `sweeper.go` | `files` and `batches` rows (`download_count`, `expires_at`, `archived_at`), blobs | create a batch, upload, download, delete, bulk-delete, archive, purge |
| Upload links | `handlers_drops.go`, `sweeper.go` | `drops` rows, their submissions (`batches.drop_id`), those files and blobs | create, open a submission, upload, close, delete, inbox, expire, purge |
| Sweeper | `sweeper.go` | none of its own; one goroutine with a one-minute ticker | archive and purge files, batches, drops; sessions, reservations, rate-limit counters |
| Accounts, sessions, admin | `auth.go`, `handlers_users.go` | `users`, `sessions` (with the step-up mark) | log in and out, change and reset a password, grant and revoke admin, delete an account |
| OIDC and settings | `oidc.go`, `handlers_settings.go` | `settings`, the running OIDC configuration, short-lived cookies | start, callback, link accounts, step-up, apply and save |
| Rate limiter | `ratelimit.go` | counters in memory and in `auth_failures` | allow, fail, reset, sweep |
| Schema | `db.go` | `schema_migrations`, the tables and their foreign keys | connect with retries, migrate under a session lock |
| Container format, secrets | `crypto.go` | none | length rule of a container, sealing of settings |
| Client: sending | `web/static/app.js` | the form of step 1, the queue `uploadChain`, `batchState`, `rosterChain`; on a drop `chain` and `submission` | confirm and lock terms, upload with retries, cancel, start a new link, record members in the sealed roster, send files to a drop |
| Client: receiving | `web/static/app.js` | `members` and what is verified of them, `plainCache`, the gallery, the archive; on a single file `getPlain` | unlock, list, verify against the roster, preview, download, "Download all" |
| Client: pages | `web/static/app.js` | rows, folds, selection and remembered names of the history; storage bars; the zoom overlay; the media probe | search, select, delete, refresh, zoom, look for the codec of a video |
| Client: cryptography | `web/static/e2e.js` | none between calls | read, seal and open the container; keys and small sealed blobs |
| Client: archives | `web/static/zip.js` | the archive being written | add members, write headers and directory |
| The rest | `main.go`, `i18n.go`, `theme.go`, templates, CSS, `install.py`, `deploy/`, vendored `mlkem.js`, `qrlib.js` | configuration, text | start, route, render, install |

**How they interact.** Requests run concurrently, one goroutine each, and the
sweeper beside them; all that they share is in PostgreSQL (READ COMMITTED) and
in the blob directory. Only the counting transactions of uploads and
submissions exclude one another, by the advisory lock. No transaction spans a
row and a blob, and most handlers make several statements without one. Rows
cascade: account to drop to submission to file.

The client runs in one thread. Its parts meet only through the server (what the
upload page leaves there is what the pages of a link are given) and through two
shared objects on a page: the memo of decrypted files, and the chains that put
asynchronous steps one behind the other. Every `await` is a place where
another callback, click or answer may come first.

**What is hard.** A value read at the start of a request is used at its end,
minutes later (is the batch open? is the drop open? what was the download
count?). `NOW()` is the start of a transaction that may have waited for the
lock. Usage is read in two statements. A handler that stops between two
statements, because the database fails, the client hangs up (the request's
context is cancelled) or the process dies, leaves the first one done. Three
sweeps overlap on the files of a drop and an error ends one of them for that
minute. A commit may take effect and be reported as an error.

In the client, a value read before an `await` may be stale after it: the link
that was current when an upload began, the list that was on the page when its
names were being opened, the gallery item for which a file was decrypted. An
upload or a roster update whose answer is lost may have been stored; updates
arrive in any order; the server may hand out any blob for any other.

**What makes each component correct.**

- Accounting: no limit (account bytes and files, instance total, drop bytes,
  files, files per submission, submissions) is ever exceeded, in-flight
  uploads included; a booking is worth something; nothing booked is lost for
  good; nobody waits for ever.
- Shares: no link is fetched more often than allowed or after its expiry;
  nothing is archived early; what is listed can be fetched; what is over is
  retired, its ciphertext removed, its row purged.
- Upload links: closing keeps what has arrived; expiring empties and purges;
  deleting leaves no blob whose name was collected.
- Accounts: always an admin; a super-admin stays one; changes of a password or
  of rights end the sessions, and step-ups, that were there before.
- Rate limiter: a bounded number of guesses in a window.
- Sending: every queued file ends sent, failed or cancelled; the roster of a
  link only grows, belongs to that link and names every file the client saw
  stored; a link's terms stay what was confirmed; a visit to a drop leaves one
  delivery, and a file called sent is in it.
- Receiving: nothing is shown as vouched for that its sender did not seal, and
  nothing sealed is left out in silence; one visit spends one download of a
  file, however many uses it is put to; the stage, the bars and the names shown
  are those of the file they are about.
- Pages: what a button does is what the page says it will do.
- Cryptography: what was stored opens, as what it was sealed as and as nothing
  else; lengths tell little. Archives can be unpacked.

## 2. The modules

    QuotaRules ------ QuotaLedger              (what is promised)
        |                 ^ implements
        +---- UploadQuota + MCUploadQuota      (the protocol)
    ShareLink <-- implements -- ShareLifecycle + MCShareLifecycle
    DropLifecycle + MCDropLifecycle
    Accounts + MCAccounts

    UploadPage <--- Browser + MCBrowser        (the client)
                       |  one part of the page at a time:
      ShareOptions, LinkListing, LinkViewer, FileLanding, DropSender,
      HistoryPage, StorageBars, ZoomOverlay, Container, Sealing,
      IsoWalk, ZipArchive

    UploadQuotaProofs, ShareLifecycleProofs, DropLifecycleProofs, AccountsProofs
    BrowserProofs <- BrowserFilesProofs <- BrowserSealingProofs
    UploadPageProofs <--------------------------'

**QuotaRules** is the arithmetic of `storage.go`: what an upload books
(`Booking`: its Content-Length, or the per-file ceiling when that is unknown or
too large), what is measured together, and when one upload or submission is too
many. Usage is computed from the *set* of uploads with an active file and the
*set* with a live reservation, which is what the SQL aggregates range over. A
limit of 0 means none. `SUM` is the cardinality of a set of (upload, byte)
pairs, so no recursion is needed and the provers can work with it.

**QuotaLedger** is the abstract specification: book, store, give back, retire
and open in one atomic step each.

**UploadQuota** is the protocol. `pc` says where a request is, `step` the last
statement of its open transaction, `lock` who holds `pg_advisory_xact_lock`,
`seen` the rows its reads returned and `now` what its transaction's clock
makes lapsed and expired. An upload goes *Arrive, Begin, TakeLock, ReadFiles,
ReadReservations, PassQuota* (for a drop the two reads again and *PassDrop*)
*, Commit*: that is `reserveUpload`; *WriteBlob*; the same once more for
`finalizeUpload`, whose own reservation is already deleted when it counts; then
`closeDropIfFull`. `Refuse`, `Fail`, `CommitUnacknowledged`, `AbandonBlob`,
`ReleaseFails`, `CloseFails` and `Crash` are its other endings. What does not take the
lock (`Release`, `Lapse`, `SweepReservations`, `Expire`, `Retire`,
`OwnerCloses`) runs in between.

**ShareLink** is the abstract life of a share link: unborn, open, closed, with
a count that never passes the limit and an end only by expiry, exhaustion or
withdrawal. **ShareLifecycle** is how files, batches and blobs implement it,
one SQL statement or file operation per action: `Begin`, `WriteBlob`, `Insert`
or `InsertFails` and `RemoveOwn` for an upload; `Load`, `FindMember`,
`Consume`, `Open`, `Finish`, `Archive`, `ArchiveMembers` for a download;
`Delete` and `Unlink`; the four statements of the sweeper and
`SweepMembers`. `Faults` selects what may go wrong: *error* (a statement fails
without effect), *cut* (the same for `archiveBatchMembers`, which is the one
that tears a batch's retirement in two), *lostAck* and *crash*.

**DropLifecycle** is the life of an upload link and of all below it: a gate
read once, submissions, uploads, close, the two-statement deletion, deletion of
the owner's account, and the eight statements of the three sweeps with an error
that ends one of them. Deleted and purged rows are told apart only so that
properties can speak of who removed them.

**Accounts** is who may act: rows of `users` and `sessions`, the first start's
`bootstrapAdmin` (`CreateRoot` and `PromoteRoot` are its two statements), and
requests of any kind, chosen when they come in. `ctx` is the snapshot
`sessionUser` took and what is asked for, `pc` the next statement. Signing in is
*CheckLogin* or *Identify* (and *Register*), then *OpenSession*; a change of
one's own password *AskChange, Prove, SetPassword, RevokeSessions,
ClearStepUp*; an admin's action *AskAdmin, Look, Count, SetAdminFlag* (or
*SetPassword*, *DeleteUser*, *CreateUser*)*, RevokeSessions*. Revoking and
clearing may fail and only be logged; a crash stops every request. A session is
named after the request that opened it and a password after the request that
set it, and two history variables keep what a session was opened with: its
user's role (`born`) and password (`era`).

### The client

**UploadPage** is the first page with the server's side of a link. A *task* is
one call of `uploadOne`; `chain` are those that wait, `current` the one under
way (*TakeNext, EnsureBatch, Seal, Encrypted*); a call is over when its body is
on its way, so several transfers run beside the queue (*Answered, Refused,
NetworkError, SendAgain*). The user adds, cancels, retries and starts a new
link between any two of these. `records` is `rosterChain`: *Record, Enlist,
SendRoster, Recorded* are the pieces of `recordMember` between its awaits, and
`posts` are the roster updates on their way, which the server stores
(*StoreRoster*: `roster_seq < $2`) or refuses in any order.
**ShareOptions** is step 1 of that page: three flags that disable fields.

**LinkListing** is loading a batch or an inbox, twice over if the password
field is used again; a *delivery* is abstracted to which of its roster entries
agree with which rows. **LinkViewer** is what the list, the gallery and the
archive do with `plainCache`, and **FileLanding** is the page of a single file
in each of the five container versions. **DropSender** is a visit to a drop.

**HistoryPage** is search, folding, selection and deletion in the history and
the bounded store of names; **StorageBars** the coalesced refreshes;
**ZoomOverlay** the clamped translation of a picture under wheel, fingers, keys
and rotation (one axis, whole scales); **IsoWalk** the search through the
boxes of a video, in which every length was written by a stranger.

**Container** is `encryptFile` and its counterparts: reads that come back short
or not at all and are taken up by the other reader, the two words of the
counter in a nonce, what was already handed to the blob when a read fails for
good, and opening whatever is served under whichever version it is listed.
Ciphertext is a record of what was sealed under which nonce; it opens under that
and no other. **Sealing** is the key schedules and the small blobs: a key is
its root and the labels on the way. **ZipArchive** is the writer, with small
field widths and header lengths as constants, and renaming of equal names; its
counter of members has a width, and no guard, as in the code.

**Browser** puts them side by side. `part` says which of them a behaviour is
about; the parts share no variable in the browser, so the others stand still,
and one run explores them all. What one part leaves on the server is an input
of another, and `MCBrowser` and the initial states enumerate it.

**Data that is abstracted.** Names, keys, manifests, tokens and all
cryptography; sizes are small numbers; times are sets (`expired`, `lapsed`,
`dead`, `old`) into which a thing moves when its moment passes. The checks of
`storeUpload` that do not bear on a limit are one choice, *the blob is
written* or *the upload is abandoned*. A blob that is half written is removed by
the handler, and counts as not there.

## 3. The runs

All bounds are the sets of the configurations (`*.cfg`, with the functions
defined in the MC modules), among them `Slow` (whose reservation may lapse) and
`Expires`, and `MaxFails`; no state constraint is used. Each
run may stop (requests are finite in number), so deadlock is not checked.

| Run | Instance | What it shows |
|---|---|---|
| `quota_safety` | two senders into one submission of a one-file drop and its owner's own upload of unknown length; account limited to two files, instance to three bytes, ceiling two; one sender may outlive `reservationTTL` | `AccountsRespected`, `InstanceRespected`, `DropsRespected`, `BookingHonoured` in 173,000 states; the protocol implements `QuotaLedger` |
| `quota_progress` | two submissions race for a drop that takes one delivery of one file | `SubmissionsRespected`; `ReservationsDrain` and `RequestsEnd` under fairness |
| `share_safety` | a batch of one member and two downloads, three requests, one deleter, all faults | `ServedWithinLimit`, `LiveHasBlob`, `ArchivedIsOver`; implements `ShareLink` |
| `share_retire` | a single share that may also expire and a one-member batch, of one download each, both uploaded; statements may fail | `SharesRetire`, `BlobsCollected`, `MembersFollow`, `ArchivedPurged`, `PurgedBlobsGone` |
| `share_late` | a two-member batch whose uploads are still running | violates `PurgedBlobsGone` |
| `share_cut` | the same batch, `archiveBatchMembers` may fail | violates `MembersFollow` |
| `drop_life` | one expiring drop, one submission, two files, one delete request, one removable owner, one failing sweeper statement | `InboxHasBlob`, `KeptUntilExpiry`, `ExpiredEmptied`, `ExpiredPurged` |
| `accounts_safety` | an admin of an old database, the super-admin of the first start, an account of the identity provider and one yet to be created; four requests, each of any kind, with crashes | `SuperAdminsStay`, `SuperPasswordSafe`, `RoleIsFresh`, `OldSessionsEnd`, `StepUpSpent` in 600,000 states |
| `accounts_last_admin` | two admins, four requests | violates `LastAdminStays` |
| `browser` | the client, part by part (bounds below) | `RosterGrows`, `RosterComplete` and, under fairness, `QueueDrains` of the upload page; `ListTrue`, `FilesShared`, `VisitsAddUp`, `PagesConsistent`, `OpensAsSealed`, `BytesInBounds` of the others; 339,000 states |
| `inbox_told` | the same bounds | violates `InboxTold` |
| `drop_delete` | the same as `drop_life` with one file and two delete requests | violates `DeletedEmptied` |

**The bounds of `browser`.**

| Part | Bounds | What they make happen |
|---|---|---|
| upload page | two files, one of which may be too large and meets a flaky network, the other may be retried; two calls per file, two links, two transfers before a row asks the user | a late body and a late roster of the first link while the second is current; a transfer given up and stored all the same; a cancelled call before and behind another |
| listing | 11 deliveries of two files of which one thing is wrong each, alone and beside a good one; two loads | every finding of `verifyRoster`, and two loads at any two awaits |
| viewer | three files, two of them fetched in advance, one failed fetch, one prefetch at a time, two uses beside one another; two of the three files vouched for | a use that shares a fetch, one that retries it, a stage that was stepped past, an archive of several members beside all of that |
| landing | all five versions, honest or not, with and without password and limit; two unlocks, two clicks | unlock twice, preview and click in any order |
| drop sender | five files, one too large, three allowed; two submissions, two losses | a delivery opened whose answer is lost, a choice that exceeds the room there is |
| history | four rows, the middle two a group; three queries; one remembered name | ranges over hidden and folded rows |
| bars, options | four uploads; no bound | a refresh asked for twice while one is in flight |
| zoom | scale up to 3, two widths, a picture that fits one of them | rotation, decoding and pinching while panned |
| container | contents of three, two and no chunks (the last chunk short or full), reads cut anywhere, the piece that flushes | every place at which a read, a nonce or a file can go wrong |
| sealing | two shares, two ids, two blobs; lengths on both sides of a pad and of the limit | every swap of one blob for another |
| media probe | a tree of boxes over ten units, depth two, a budget of four | a box longer than its parent, of length zero, past the budget |
| archive | three members of sizes 0, small and near the field's limit (31); a counter that goes up to 2 | a count that wraps, a size, an offset and a directory that no longer fit; a renamed member meeting its new name |

The parts share no state, so that their product has nothing to show: each is
explored as if it were alone. It is one run because it is one question, whether
the client keeps its promises.

**Why these bounds are enough.** The limits in play are one or two, so that
two actors collide over the last slot and a third has something to take; every
limit of the code is above zero in some run, with the account's byte limit and
the files-per-submission limit, which have the form of those checked, left to
the proofs. Three downloads for two slots give a winner, a last one
and a loser. Two sweeps overlap on one submission already; a second drop or
batch would never meet the first one's rows, since they share neither row nor
blob. In `accounts_safety` two requests
sign in and two collide, or one signs in and three follow; requests are alike,
so they are a symmetry set (only safety is checked there). An account that was
deleted does not come back under the same row, a request is made once. The safety
results do not depend on the bounds at all (section 5).

**Fairness.** Handlers run to their end or fail (weak fairness of each
request's steps; Go schedules every goroutine). The one-minute ticker gives
weak fairness of the sweeps. In `share_retire` the sweeper's statements have
strong fairness, because there a statement may fail again and again: the
assumption is that the database does not fail for ever. In `drop_life` it
fails at most `MaxFails` times. The advisory lock needs no strong fairness: a
request takes it at most twice, and a request left waiting is in the end the
only one. Time passes (`Lapse`, `Age`); an expiry or a deletion need never
come.
`Age` stands for the thirty days of `archiveRetention` and is guarded:
no request or sweep that began before is still running after thirty days, and
those days hold a sweep that gets through (`InFlight`, `Settled`). What is
in flight when a share is archived is free to finish first: that is what
`share_late` shows.

In the client the event loop runs what is ready, timers fire and a transfer
ends in an answer or an error: weak fairness of the queue's steps, of the
roster's and of each transfer. Nothing is assumed of the user, nor that the
server stores anything or takes a roster.

**Mutants.** Beside each definition that a property depends on stands a
*Mutant*, the same operation with a plausible slip (the lock not waited for,
the rows deleted after the blobs, a sweep that looks at live drops only), with
which the property fails in its run.

## 4. What was found

1. **An inbox forgets what it found missing** (`inbox_told`). Each delivery is
   checked against its own roster, and each check puts its findings into the
   one warning box in place of those before (`app.js:1116`); with no findings
   it hides the box. Of two deliveries the first may lack a file its roster
   names and the page ends without a warning. `README.md:616` says that such a
   member is listed as missing, `README.md:862` that the inbox is the page of a
   batch with another front door. A file that no roster names stays marked
   in its row; of one that is missing, the warning is all there was.
2. **A member that finishes late outlives its batch's clean-up**
   (`share_late`). `loadBatchForUpload` looks at the batch before the body is
   stored; a row inserted after `archiveBatchMembers` is archived by nobody,
   and the purge cascades it away with its blob on disk. `sweeper.go:214` says
   the blobs went at archive time.
3. **A retirement cut in half is not resumed** (`share_cut`). When
   `archiveBatchMembers` fails, for instance because the last downloader hangs
   up and its request context is cancelled, no sweep returns to the batch.
   `README.md:1297` says that the blobs are deleted.
4. **Deleting a drop twice at once orphans its blobs** (`drop_delete`). The
   first request has the names, the second deletes the drop, the first answers
   404 before `removeBlobs` (`handlers_drops.go:472`). The deletion of the
   owner's account in between does the same. (So would a second statement
   that fails, which is not in the model.)
5. **Two admins can demote each other** (`accounts_last_admin`). The count and
   the update are separate statements (`handlers_users.go:360`, `:373`), so
   both requests count two admins; `i18n.go:420` says "Can't revoke the last
   admin." A super-admin, who cannot be demoted, prevents it (theorem
   `AdminRemains`), and the run shows how there comes to be none: the first
   start stops between inserting the account and promoting it (`auth.go:690`),
   and later starts find the name taken, where `README.md:1014` says it is
   created and promoted. An instance whose environment names no admin
   (`auth.go:657`) is in the same position.
6. **Version confusion does not fail closed for an empty object** (no violation
   run: the exception in `OpensAsSealed`, and theorem
   `EmptyOpensAsFirstVersion`). `decryptLegacy` counts the chunks of what
   arrives. An object of any version that is listed as version 1 and served
   empty has none that could fail, and opens as an empty file. `e2e.js:773` and
   `README.md:559` say that version confusion fails closed in both directions,
   `README.md:243` that zero bytes are stopped.

One divergence was read off the code without a run of its own: whether a drop is
open is asked when an upload arrives (`handlers_drops.go:810`) and not again at
its end, so that a file can land in a drop that was closed meanwhile, where
`sweeper.go:66` speaks of "no more files". `OwnerCloses` and `CloseIfFull` may
come anywhere in `UploadQuota`, and the limits hold all the same.

Seen while modelling the server, and contradicting no document: deleting an
account leaves the blobs of its drops behind; a crash between a `DELETE` and
its unlink orphans a blob, and one between archiving and unlink leaves it until
the purge; a commit whose answer is lost leaves a listed row without its blob
(the exception in `LiveHasBlob`); a revocation that fails is logged and not
repeated (the exception `Unsettled` in the properties of `Accounts`); a batch
without expiry that never got a member stays.

Seen while modelling the client, and left as observations; the properties are
stated so that they hold beside them:

- *Sending.* `app.js:3082` says that uploads run one at a time; encryption
  does, bodies overlap, for `sendAttempt` is not awaited. A file in flight
  when "Start a new link" is pressed is answered into the new link's list of
  members (which is why `RosterComplete` speaks of files *of* the link and lets a
  roster name others). A file still queued then opens a link under the terms
  on the page, though step 1 has not been confirmed again. A custom expiry
  whose date was cleared means no expiry. An upload sent again after a lost
  answer is stored twice and one row is listed.
- *Receiving.* Enter in the password field loads a list twice. In an inbox an empty
  delivery is warned about as having no roster, and its note is not shown.
  Reopening the gallery starts a second prefetch beside the first, above
  `PREFETCH_PARALLEL`. Its progress bar stays when one steps from a file that
  is loading to one that is rendered. After a failed `ZIP.build` the rows stay
  marked as done. On the page of a single file a failed fetch is not tried
  again before a reload.
- *Drops.* A stored file is shown as failed if its roster request is lost.
- *Formats.* The 16-bit count of entries at the end of a ZIP wraps at 65,536
  (`zip.js:156`), while sizes and offsets are refused before they do; an
  archive with more members than that would be handed out with a wrong count
  (`zip.js:12` and `README.md:715` promise a refusal of what does not fit).
  `BytesInBounds` says just this: the count is right exactly up to the limit.
  Only an account's limit on files, where one is set, bounds the members.

## 5. The proofs

TLAPS proves, for every value of the constants that satisfies the modules'
assumptions (`RequestsAssumption`, `LimitsAssumption`, `LengthCoversBody`,
`SlowAssumption`, `NobodyAssumption`, `ShareAssumption`, `DropAssumption`,
`UserAssumption`, `UploadAssumption`, `BrowserAssumption`):

| Module | Theorems |
|---|---|
| `UploadQuotaProofs` | lemmas on `QuotaRules`: usage is a natural number, monotone in the rows, grows by what is added; a smaller usage violates no limit a larger one keeps; admission keeps every limit. `TypeCorrect`, `AccountsSafe`, `InstanceSafe`, `DropsSafe`, `SubmissionsSafe`, `BookingsHonoured`; `Implements` (`QuotaLedger`) |
| `ShareLifecycleProofs` | `TypeCorrect`, `LimitSafe`, `ArchivedSafe`, `BlobSafe`, `PurgeLeavesNoBlob` (below); `Implements` (`ShareLink`) |
| `DropLifecycleProofs` | `TypeCorrect`, `InboxSafe`, `KeptSafe` |
| `AccountsProofs` | `TypeCorrect`, `SuperPasswordsSafe`, `RolesFresh`, `OldSessionsEnded`, `StepUpsSpent`, `SuperAdminsKept`, `AdminRemains` |
| `UploadPageProofs` | `TypeCorrect`, `RosterNeverShrinks`, `RosterNamesAll` |
| `BrowserProofs` | `EveryVisitAddsUp`; `PagesStayConsistent`, of which `TermsStayHeld` and `BarsDoCatchUp` are parts |
| `BrowserFilesProofs` | `ListsTellTrue`, `FilesAreShared`, `BytesStayInBounds` |
| `BrowserSealingProofs` | `EverythingOpensAsSealed`, `EmptyOpensAsFirstVersion`; of the client as a whole `ClientUploads` and `ClientIsTyped` |

`BrowserAssumption` collects what the parts of the client ask of their
constants: bounds are natural numbers, the zoom's views are not empty, an
answer is a list of deliveries whose rosters and files are lists, sizes of
contents are natural numbers with fewer chunks than the counter of a nonce has
values, `NAME_PAD` divides `MAX_BODY`. The proofs about the server and
`UploadPage` rest on one inductive invariant `IInv` each; those about the rest
of the client have one per part. Formulas are parenthesised wherever a prefix
operator such as `SUBSET` or `DOMAIN` meets `\cup`, where TLAPS and TLC would
otherwise group differently.

*UploadQuota.* Limits alone are not inductive: a transaction about to commit
must know that its decision still holds. `LockInv`: whoever counts holds the
lock. `ClockInv`: a transaction's `NOW()` is in the past, so what it makes
lapsed or expired still is, and no row yet to be inserted is among it.
`SnapshotInv`: the rows read include every row that counts now, for while the
lock is held rows only leave. `PassedInv`: so a check that passed on those
rows passes on today's. Monotonicity of usage (QuotaRules) turns this into
`LimitsInv` at the commit. That the two reads are separate statements and the
clock is stale does no harm for just this reason. `LengthCoversBody` (a
Content-Length covers the body) is needed by `BookingsHonoured`: it makes a
booking at least as large as the file.

*ShareLifecycle.* `SlotInv`: the count a download loaded is a lower bound of the
count now and its own slot comes on top, so that "loaded count + 1 reaches the
limit" implies that the share is used up, however many others raced.
`CountInv`: slots served and slots paid and not served are within the count.
`BlobInv`: what is to be unlinked has a row that is archived or gone.
`MemberInv`: a member never outlives its batch. `PurgeLeavesNoBlob` is about one
member at a time and makes no assumption on faults, crashes or on when uploads
end: if a batch is purged and a member has its blob still, then one of four
steps befell that very member (`Forgotten`): it arrived after its batch was
archived, it was left live when whoever was to archive it stopped, nobody was
told its name when it was archived, or the list with its name was lost. The
runs `share_late` and `share_cut` are the first two, the others take a lost
answer and a crash. The invariants are `KeptInv` (a blob whose batch is over is
on somebody's list or awaited by whoever archives the members, and thirty
days later there is none) and `TidyInv` (lists belong to those who are at that
point of their work).

*DropLifecycle.* `ExpiryInv`: what is archived or about to be belongs to an
expired drop. `BlobInv`: what is live has its blob and what is to be unlinked
is not live.

*Accounts.* The history properties excuse a session while *some* request on its
account is unsettled, which is not inductive: that request may finish without
being the one the session waits for. `PasswordsFollow` and `StepUpsFollow`
name it, the request that set the password the account has now, and
`RolesFollow` a request that changed the role and has not revoked. An earlier
change that is late with its own revocation then only takes sessions away.
`TargetsKnown` carries what `Look` read of the target's `is_super_admin` to the
write, and holds because the flag is set only by `bootstrapAdmin`, while nobody
is served (`BootAlone`). `AdminRemains` is the part of "Can't revoke the last
admin." that the code keeps, though counting and writing are two statements
(the run `accounts_last_admin` shows the rest broken): super-admins are admins
(`SuperAdminsAreAdmins`, which needs that the row being promoted is one) and no
request that passed its look at the target removes one, so while there is one,
an admin is left after every step.

*UploadPage.* That an update with a higher number contains one with a lower is
not inductive by itself: the numbers are the browser's and start again with
each link, while updates of an older link are still on their way. `FreshInv`: no
call, update or roster bears the number of a link that is yet to be made.
`NewestInv`: the list on the page contains every list sent for its link, and is
the one with its number. `OrderInv` is then kept when the page sends and when
the server takes. `RecordInv`: a file the client saw stored waits to be
recorded, or is in the list, or belongs to a link that was put away (`Elsewhere`,
which no step undoes because link numbers do not come back); with nothing left
to record, `RosterComplete` follows. `CallsInv` (a call waits once, runs
alone and has a link before it has a body) makes the tasks of the model well
behaved. Nothing is assumed of the order or the fate of updates.

*Browser.* The proof is by parts: `LandingInv` (the one fetch of a page is
counted when it begins, and until its result is there nothing has touched the
name), and `SenderInv`. Of a visit to a drop, `QueueInv`: a file is in one
place, so that no row is counted twice; `DeliveryInv`: all that is stored is in
the submission of this visit, no other has a roster, and the one the
server has is no newer than the page's; `CountInv`: the files counted map one to
one into the files held, which are never more than the drop takes. `TermsInv`
and `BarsInv` are the invariants of two pages. On the history page,
`SelectionInv`: what is selected is among the rows the search leaves, and the
count, the box above the list and the boxes of the groups follow from it;
`NamesInv`: no name is stored
twice, nor more than the limit, though names are added at the end, dropped from
the front and taken out of the middle. Of a picture, `PanInv` bounds the pan by
what its scale leaves beyond the screen, and `ScreenInv` says that the frame of a
pinch is that of the pointers as they are.

*Lists* (`ListInv`). That an unmarked row is genuine is not inductive: a load
that is overtaken checks, with its own roster, the rows of the load that
overtook it, and may put them in another order. `BatchRows`: rows at hand are
those of the answer, or some of them whose ids differ, since only rows that are
all vouched for are put in order; so an entry that vouches for a row among the
rows at hand vouches for it among the rows as they came (`BatchBelieved`).
`BatchComplete`: unless the load on the page is still to be checked, a page
without a warning is in the order of the roster of some load that is over.
`OnceInv`, of a list that was loaded once, has marks only on what is not genuine.

*Files of a list* (`ViewerInv`). Each use of a file waits, has its file, or has
lost it; `SpentOnce` is kept by the memo because a fetch begins only where none is
pending, and forgets itself only when it fails.

*Bytes* (`WalkInv`, `ZipInv`). Every level of a walk ends before all above it go
on, and none of them goes on before what was read last. In an archive
(`GivenInv`) the names given are among the names taken, of which there are
no more than members, so that one of the numbers tried is free; and
(`LaidInv`) what is written begins within the limit, so that no 32-bit field
has wrapped by the time the directory repeats it, nor one of the record that
says where the directory is. The count in that record has no guard to lean
on: it is right exactly when the members are no more than it can count.

*Containers and sealed blobs* (`ContainerInv`, `SlotInv`). `ReadingInv`: what is
flushed and what is pending, joined, are the sealed chunks of the file
up to the chunk at hand, whichever reads failed. A nonce holds the number
of its chunk in two words, so two chunks have the same only if they are the same chunk (`NonceOnce`), for as long as there are fewer of
them than two words can count. So what opens at position `i` of anything that is
served is chunk `i` of the file (`OnlyOwn`), and with the size of the manifest all
of them (`DecryptedChunks`); without one, a beginning (`LegacyOpened`). `SlotInv`:
what is put in a slot was sealed for it; keys and labels that differ in share,
kind or id differ.

*The client as a whole.* `ClientUploads` maps the client onto `UploadPage`, whose
theorems then hold of it: a step of another page leaves the upload page as it
is. `ClientIsTyped` puts the parts together (`PartsInv`, `PartsTyped`). Most
types are inductive only beside the safety of the same part. Of a list
(`ListTyped`): what is named, marked or archived is a row some load still holds,
for a load has no rows before its answer (`Unloaded`), and from then on
they are only put in the order of a roster, which keeps every row
(`OrderKeeps`). Of an
object (`ObjectTyped`): the chunk being read exists because `ReadingInv` has
fewer read than there are, and what waits is less than a lot because a full
lot is handed over in the same step.

Recursive functions and the folds of the community modules are proved about by
their defining equations. That such a function exists at all, and what it
computes, is by induction on numbers: `Least` (a set of numbers that has any has
a least one, from the well-foundedness of `<`), and `FromZero` and `Recursion`
from it, all in `BrowserProofs`.

**Only model-checked.** The liveness properties and everything under fairness
(`QueueDrains`, `ReservationsDrain`, `RequestsEnd`, `SharesRetire`, `BlobsCollected`,
`MembersFollow`, `ArchivedPurged`, `ExpiredEmptied`, `ExpiredPurged`), which
are out of the prover's reach, as is `ENABLED`. Every other property of a
passing run is stated by a theorem, but for `PurgedBlobsGone`, of which
`PurgeLeavesNoBlob` is the form that holds in general. What `Bytes` computes is not proved to be a
sum; it is one by its definition as a cardinality.

## 6. Not modelled

- In the modelled parts of the server: an admin's edit of limits while uploads
  run (limits are constants; `effectiveQuota` reads them in each
  transaction), the statistics pages, unlock tokens of links,
  deleting one file of an inbox, inbox downloads (which count nothing and
  change nothing), free disk space beyond a refusal. Crashes and lost answers
  are not repeated in `DropLifecycle`.
- In `Accounts`: names and their uniqueness, e-mail, a user's limits, the
  cookies of the OIDC round trip, rate limiting of sign-ins, statements whose
  error hides a success (a crash right after the statement leaves the same
  rows).
- In the client: the owner's form that creates a drop and its copies of the
  secret (`app.js:2013`), how files enter by drag, paste or picker, copying and
  QR codes of links, toasts, languages and themes. Two tabs share only the
  store of names. `ShareOptions` leaves out the text of the password;
  `ZoomOverlay` has whole scales.
- The primitives of `e2e.js` are symbolic: AES-GCM opens what was sealed under
  the same key, nonce and additional data; HKDF is injective in its labels; the
  KEM gives both sides one secret. The vendored `mlkem.js` and `qrlib.js` are
  third-party computation without state.
- Settings, rate limiter and migrations. The form of settings applies before
  it saves, which is one divergence of two values. The limiter's `allow` and
  `fail` are two steps and it fails open, so that guesses in flight together
  pass the bound that `README.md:1060` states (ten failures in ten minutes) by
  as many as there are; that needs no model. The migration runner creates its
  own table first, with `IF NOT EXISTS`, does the rest under one session lock,
  and each migration commits with its record.
- Container rules on the server and sealing of settings (`crypto.go`), pages
  and text (`i18n.go`, `theme.go`, templates, CSS), start-up (`main.go`) and the
  installer: computation, layout or pure I/O with no protocol to check.

## 7. What could follow

In order of importance, modelled so far: accounting, shares, upload links,
accounts, the client. Next would be:

1. Inbox deletes in `DropLifecycle`, submissions in `UploadQuota` that leave
   with their drop, the OIDC round trip in `Accounts`.
2. Proofs: that behaviours of `FairBrowser` drain their queue, once a prover
   with `ENABLED` and temporal induction is at hand.

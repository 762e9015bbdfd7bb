# TLA+ models of baseapp-backend

baseapp-backend is a family of Django packages (`src/baseapp_*`) from which the
backends of social applications are put together: profiles with members, chats,
comments, follows, blocks, reactions, ratings, reports, notifications,
authentication, payments.  A GraphQL mutation reads some rows, checks a permission,
writes some rows, and signals or database triggers write more.  Many numbers that
readers see (unread badges, participants, followers, comments) are *denormalised*:
each is kept beside the rows that it counts, by code that has to move it on every
path.  Requests run concurrently in several processes over one PostgreSQL database.
What can go wrong is nearly always of this kind: two requests interleave, one of them
acts on a row it read earlier, and a number, a role or a status is left wrong for ever.

The modules below model that, down to the order of statements and row locks where it
matters; TLC checks them on small instances, and TLAPS proves the main invariants for
any number of profiles, rooms, messages, comments and requests.

## Running the checks

    tlc -workers 2 -config unread.cfg MCChatUnread      # any run of PROJECT.json
    tlapm ChatUnreadProofs.tla                          # any *Proofs module

`PROJECT.json` lists the components, the runs with what each shows, a mutation of the
model that breaks each property, the source lines behind each definition, the hazards,
the disagreements found between code and documentation, and the theorems.

## Facts about the platform that every module relies on

- `ATOMIC_REQUESTS` is on (`baseapp_core/tests/settings.py:121`, which
  `testproject/settings.py` imports): an HTTP request is one transaction, and a raised
  `GraphQLError` rolls it back, while a mutation that returns `errors=` commits what
  it wrote.  The websocket consumer (`baseapp_core/graphql/consumers.py`) executes
  mutations without a request transaction.  ChatRooms and ProfileInvitations take this
  as the constant `AtomicRequests`, SignIns as a variable that does not change; the other
  modules model the atomic case, and commands and workers without a transaction.
- Transactions run at READ COMMITTED: each statement sees what was committed when it
  began, and the writes of its own transaction.  What a statement writes or selects
  `FOR UPDATE` stays locked to the end of the transaction; PostgreSQL ends a deadlock
  by rolling one transaction back.
- `Model.save()` without `update_fields` writes every column of the instance in memory,
  stale ones included, and inserts the row again if somebody has deleted it.  With
  `update_fields` it fails on a deleted row.  `select_for_update().filter().count()` is
  an aggregate, and Django emits no `FOR UPDATE` for it.
- Row triggers of PostgreSQL (pgtrigger) run inside the statement that fires them.

## Inventory

State, operations, interactions, what is hard, and what makes each part correct.

| Part (directory) | State it keeps | Operations | Hard behaviour | Correct when |
| --- | --- | --- | --- | --- |
| Chats: badges (`baseapp_chats/triggers.py`, read mutations) | MessageStatus, UnreadMessageCount | send, read, mark unread, join, leave, admin edits | triggers keep a counter that nothing recounts; reads overlap | a badge is the number of unread statuses |
| Chats: rooms (`graphql/mutations.py`, `utils.py`) | ChatRoom, ChatRoomParticipant | update, add participants, toggle admin, send, cleanup | stale full saves, ordered row locks, check-then-act on admins | one row per profile, exact count, an admin remains |
| Chats: creation, archiving, messages | ChatRoom, Message, subscriptions | create with reuse, archive, send, edit, delete, erase | two creations of one pair, an edit under a deletion, broadcasts before commits | one room per pair; clients hold what the database holds |
| Profiles: members | ProfileUserRole | invite, accept, decline, cancel, resend, roles | stale copies saved, deadlines, late sign-up | nobody is active without consent |
| Profiles, organizations, pages: URL paths | Profile, Organization, Page, URLPath, User | create, rename, delete | a path found free and taken meanwhile, triggers that copy names | paths unique and leading somewhere |
| Follows | Follow, FollowableMetadata, reciprocal flags | toggle, reconciliation | F() counters, first row, deadlocks | counters equal rows |
| Comments | Comment, CommentableMetadata | create, reply, edit, pin, soft delete, admin | recounts from signals, soft delete by trigger, cascades | counters equal visible rows; deleted stays deleted |
| Blocks, reactions, ratings, reports | one row per actor and target, a metadata row | toggle or create, admin, recompute command | count without a lock, then write | counters equal rows |
| Mentions | Mention rows of a document | update to a set | set difference under overlap, signals after commits | the set asked for, and its changes reported |
| Notifications | Notification, NotificationSetting | settings, delivery by channel, mark as read, delete | a worker and toggles at once, broadcasts | nothing on a channel that was off when asked |
| Authentication (`baseapp_auth`) | User, tokens | register, login, passwords, change of e-mail, anonymization | requests that save what they loaded; signed tokens that must die with what they were signed over | verified means proven |
| Documents and public ids (`baseapp_core`) | DocumentId, PublicId | triggers, get_or_create, backfill, id strategies | backfill beside live inserts | one document per object, ids keep naming it |
| Data migrations (`*/migration_helpers`) | rows, documents, metadata tables | upgrade and downgrade, with use in between | renumbering in place, rows without documents | rows keep targets, counters values |
| Plugins (`baseapp_core/plugins`) | registries of one process | discovery, settings, ready(), imports | order of imports and of ready() | what runs is what is listed |
| Payments | Customer, Subscription | requests, webhooks | events late, twice, out of order | local rows follow Stripe's |
| API keys | APIKey | add, edit, rotate the encryption key | rotation row by row | rotation loses no key |
| Social sign-in, referrals | User, association, cached token, UserReferral | sign in, retry, refer | one code used twice, overlapping creation, a caller who is signed in already | an account enters as the user it made or was brought by |
| View action permissions | a map per process, roles, groups, exclusions, addresses | check a request, administer | the map is learned from requests | the documented decision |
| URL shortening | ShortUrl | shorten, redirect | two saves per link | a link leads where it was made for |
| Cloudflare videos | a model field, videos at Cloudflare | upload, poll, trim, delete, download | tasks that save what they loaded | the field names a living video |
| Readers: permission backends, lists, nodes, room fields | none of their own | every GraphQL list and node above | lists and nodes decide in different code | what is listed opens |
| Activity log | pghistory contexts and events | write, list, anonymize | a context per request, anonymization meanwhile | logs name the actor |
| Message templates, PDF, Wagtail, e2e helpers, content feed, test project | none, or none that a later step depends on | rendering, fixtures | pure I/O | not modelled |

Interactions: comments, reactions, follows and reports point at their targets through a
`DocumentId`, and each keeps a metadata row per document; permission backends of
profiles decide who may act for a profile; blocks gate chats and hide comments; deleting
a user calls the shared service `cleanup_user_participation` of chats; Django signals
recount comments, send notifications, report mentions and push GraphQL subscriptions;
packages find each other's services in registries that plugins fill at the start.

## Modules

| Component | Specification | Model checking | Proofs |
| --- | --- | --- | --- |
| Read receipts and badges | `UnreadBadge` (abstract), `ChatUnread` | `MCChatUnread`: `unread` | `ChatUnreadProofs` |
| Rooms and participants | `ChatRooms` | `MCChatRooms`: `rooms_serial`, `rooms_adds`, `rooms_toggle` | `ChatRoomsProofs` |
| Follows | `Follows` | `MCFollows`: `follows` | `FollowsProofs` |
| Comments | `Comments` | `MCComments`: `comments` | `CommentsProofs` |
| Blocks, reactions, ratings, reports | `Recounts` | `MCRecounts`: `recounts` | `RecountsProofs` |
| Data migrations; documents and ids | `TargetMigrations`, `FollowMigrations`, `PublicIds` | `MCRecords`: `migrations` | `RecordsProofs` |
| Accounts; profiles, pages, organizations and paths; payments | `Accounts`, `UrlPaths`, `Payments` | `MCRecords`: `accounts` | `RecordsProofs` |
| Messages; mentions; notifications | `Messages`, `Mentions`, `Notifications` | `MCContent`: `content` | `ContentProofs` |
| Members of a profile | `ProfileInvitations` in `Platform` | `MCPlatform`: `invitations` | `PlatformProofs` |
| Credentials, videos, views | `ApiKeys`, `SignIns`, `ViewPermissions`, `ShortLinks`, `Videos`, `Reads`, `RoomViews`, `ActivityLog` in `Platform` | `MCPlatform`: `platform` | `PlatformProofs` |
| The start of a project | `Plugins` with `Packages` | `MCPlatform`: `platform` | |

A name is the code's where there is one.  `map` in `PROJECT.json` gives the lines
behind each definition.  Variables that the code does not have are marked *history* in
their declaration: they record something about the past that a property needs, and no
guard reads them.

The MC modules of the last rows (`MCRecords`, `MCContent`, `MCPlatform`) check several
specifications in one run.  A behaviour is of one of them (`part`), the variables of the
others stay empty, and nothing connects the parts: a run of three parts is three runs that
share a configuration.  `MCRecords` and `MCPlatform` have two runs, each with some of their
parts (`Parts`).  Where a part has no small bound of its own, a behaviour ends after
`MaxSteps[part]` steps (in `MCRecords`, `Bound[part]`).  The step counter is left out of the
`VIEW`, so that a state counts once, at the smallest depth it has.

`Platform` puts the nine parts that `PlatformProofs` is about together, with what is assumed of
their constants; `MCPlatform` gives the constants their values and adds two parts, the starts
of a project.  `MCNext` is `Next` with a conjunct for the start, so that whatever the runs
check is a behaviour of `Platform!Spec`, which the theorems are about.

### UnreadBadge, ChatUnread

`ChatUnread` has one action per statement that can insert, flip or delete a
MessageStatus: `SendMessage` (the insert and its triggers), `ReadAfterSend` and
`SendFails` (the end of the mutation), `ReadMessages`/`FinishRead` (the SELECT of unread
statuses and the UPDATE that flips those still unread, as two steps, so that reads
overlap), `MarkUnread`, `Join`, `Leave`, and what operators do in the admin site.
`status`, `count` and `marked` are the tables; `req` holds what a request has selected
and not yet updated.

`UnreadBadge` says what a badge promises with no statuses and no triggers: it is the
size of a set of messages, each of which enters it once and leaves it once.
`ImplementsBadge` is the refinement, for as long as operators keep away.

### ChatRooms

`rows` are the ChatRoomParticipant rows (the table has no unique constraint), `info` the
denormalised columns of ChatRoom, `req` a request between its reads and its writes with
the ChatRoom instances in its memory (`mem`), `lock` the `FOR UPDATE` locks.  Each of
the five operations is split where another request can come in: `AddRead`, `AddLock`
(one room after the other, ordered by primary key), `AddCheck`, `AddWrite`;
`UpdateRead`, `UpdateTransaction`, `UpdateWrite`; `ToggleRead`, `ToggleWrite`; and so on.
System messages are part of the requests: `Post` inserts one, `Save` then saves the
whole room.  A blocked pair makes the notice of an add fail (`AddNoticeFails`).

### ProfileInvitations

`row[k]` is the ProfileUserRole row with primary key k, `req[q]` the copy that request q
has read, checked and changed in memory and is about to save.  A save of a copy whose row
is gone inserts it again; a save that violates a unique constraint is refused.
Deadlines pass (`Expire`) and people sign up (`Register`) at any time.  Sending mints a
new token per row and takes locks, so it is one step; the others are read and write.
It is assumed that people keep their e-mail addresses, and that e-mails are not lost.

### Follows

Each toggle is a transaction whose statements are its steps: the row, the counters of
target and actor, the reciprocal flags, the commit.  A counter is adjusted by an F
expression; a missing metadata row is seeded by `update_or_create`.  Locks are held to
the end and `BreakDeadlock` rolls one of a cycle of waiting transactions back.
Permissions do not depend on this state, so they are inputs: the model toggles any edge.

### Comments

Each request is a transaction.  It begins by loading what it needs (`CommentCreate`,
`CommentUpdate`, `CommentPin`, `CommentDelete`, `AdminChange`, `AdminEnable`), then
sends its writes (`SaveComment`, `SoftDelete`, `SaveMetadata`), then its signals recount
the parent and the target of each instance (`Recount`, which takes the metadata lock and
only then counts), then it commits or is rolled back, which may happen anywhere.  A
deletion collects the thread below the comment; the trigger turns DELETE into an update
of the status, while Django cascades to the DocumentId and the metadata of the comment.
`AdminChange` saves any target, parent, pin and status over the row it has loaded; the
foreign key of a new parent waits for whoever is deleting it (`NewParent`, `Refers`).
The body of a comment, mentions, notifications and subscriptions are left out: nothing
here depends on them.

### Recounts

Four packages whose save() and delete() of a row recount the target's metadata.  A request
is a transaction of statements: `BlockToggle`, `ReactionToggle`, `RateCreate`,
`ReportCreate`, `AdminSave` and `AdminDelete` load what the handler loads, `Statement`
then takes the rest in the code's order: the write of the row, the *count* (a statement
of its own, with no lock), the lock of the metadata row, the write of what was counted
earlier, the commit.  `kind` chooses the package; what they do differently (blocks recount
two sides, ratings keep a sum, reactions change type, reports do not toggle) are cases of
the same steps.  `BulkDelete` is a cascade, which nobody recounts, and `Recompute...` is
the management command.  `suspect` remembers the counters that a stale count or no count
has left behind; `calm` is lost by the first overlap.

### TargetMigrations, FollowMigrations, PublicIds

A helper that a project's migration calls is one step, because it runs in one atomic
migration; one that raises has no step, or the step changes nothing.  `done` is the list
of the operations applied.  Between them, the application of that version adds rows and
writes metadata.  `TargetMigrations` moves generic foreign keys to documents and legacy
columns to metadata rows, and seeds metadata from rows (reports without a type give a row
and are not counted: `Counted`), `FollowMigrations` rewrites two integer columns in place, row by
row in any order.  `truth` (history) is what each row was made for.

`PublicIds` has the triggers, `get_or_create_for_object` and the backfill command, whose
queries are steps (`ReadPks`, `ReadExisting`, `Verify`, `BulkCreate`), because it runs
outside a transaction; and, as operators, the strategies that make and resolve global ids.

### Accounts, UrlPaths, Payments

`Accounts`: a handler runs either on the user's row as it is or, for the one slow request,
on the row that it loaded when it arrived (`Arrive`, `Finish`), and it saves the whole row.
`mail` holds the signed tokens: their kind, what they sign (`signing_value`) and the day.
Days pass, and anonymization is a delayed task.

`UrlPaths`: a request that writes a path reads the paths first, is under way, and commits
(`Commit`), where unique constraints may refuse it.  Users, organizations and pages share
the paths; the triggers that copy a user's name into its profile run in the statement.
Who owns a profile or page may change and delete it, and so may a `Holder` of the global
permission (`May`), who is also the only one to make pages.  A deletion is two steps:
`Collect` finds what goes with the row (for a user, the profiles and pages that cascade from
it) and the paths of all that, and `Delete` deletes what was collected.  It fails if the user
has got another profile or page in between; a path that was added in between stays behind.

`Payments`: `customers` and `subscriptions` are Stripe's, `Customer` and `Subscription` our
rows, `events` what Stripe will deliver, any number of times and in any order.  Each
request is split at its calls to Stripe (`create_customer`/`CreateRow`,
`validate`/`create_subscription`).

### Messages, Mentions, Notifications

`Messages`: `ChatRoomCreate` looks for a room and `OpenRoom` makes one; an edit or a deletion
loads the message, `Tell` writes it and broadcasts, `Commit` commits.  `seen` is what each
client holds, changed by broadcasts and by queries (`Fetch`).  An operator's erasure is a
read and a delete, whose trigger recomputes `last_message`.

`Mentions`: `Resolve` (the profiles that exist), `update_mentions` (lock, difference,
insert and delete), `Commit`, `mentions_changed` (the signal on commit).  The callers in
the repository hold the row of the comment or message already; the lock of the DocumentId
protects callers of the public service.

`Notifications`: a toggle reads, writes and commits; a worker goes through three channels,
and for each asks the settings (`AskInApp`, `AskEmail`, `AskPush`) and goes out in a later
step (`InApp`, `Email`, `Push`), between which toggles commit; it saves and broadcasts the
notification (`Stamp`, `Broadcast`); a chat's request asks and pushes in the same way; an
administrator deletes; clients mark as read and are told.

### Plugins with Packages, and the rest of the platform

`Plugins` is the start of one process: `load_from_installed_apps`, `Assemble` (settings and
slots), `ready` application by application, `Run`, while consumers are imported
and look up shared names (`Import`) at any time.  It is checked twice: with four made-up
packages in any order, and with `Packages`, the packages of this repository as their
`plugin.py` describe them, each left out in turn.

`ApiKeys` and `ShortLinks` have one action per statement that others can come between; the
encryption, the provider's answer, the code of a key and Cloudflare are modelled by what the
code relies on (marked external in `map`).

`SignIns`: `get_object` takes the cached token or exchanges the code; only in the second
case does the pipeline get the user who is signed in already (`caller`), with whom it then
associates the account (`social_user`) unless the account is somebody else's or a
trusted provider gives the address of another user (`associate_by_email`).  With a user found the
rest is one step (`SignIn`): the association is the one row it writes, and what could happen
before (the account taken, the user deleted) makes the insert fail and leaves nothing.  A
new user takes two, `SignUp` up to the look at the address and `CreateUser`.

`Videos`: a form and a task are split at each call to Cloudflare, to the broker and to the
database: the refresh asks (`Ready`, `WaitRefresh`, `TooLong`), clips (`clip_video`, or
`ClipRefused` for whatever reason), queues the deletion of the original (`Send`) and saves the
field (`SaveField`), and other workers run in between.  Two calls share a step: a save
queues the tasks of its `post_save` in the same step, so that a task may be taken at once
but not before the row is written.  For a request in a transaction the tasks are queued
before the commit: the download task may then read the value before the save and end
(`EarlyDownload`); the refresh is queued with five seconds of delay, and it is assumed that
the commit comes before them.  A broker that does not answer loses the tasks (`lost`).

`ViewPermissions` has the map that a process learns from requests, as `learned[w]`, and
the two checks of a request with administrators in between.  `ActivityLog` has a request's
history context, the mutations that make it public, the writes of tracked rows, and
anonymization while requests run.

`Reads` and `RoomViews` are mostly operators: the permission backends, the querysets behind
lists, and the checks behind nodes and fields, translated one by one.  Their actions are
the writes that lead to the states in which readers are compared.  `Reads` has the kinds whose
lists and nodes decide by different code: comments, pages, profiles and reports.
`RoomViews` has one `ChatRoomUpdate` with any sets of profiles to add and remove, as
`mutations.py` has; requests do not overlap there.

## What the runs show

| Run | Instance | Shows |
| --- | --- | --- |
| `unread` | 2 profiles, 2 rooms, 2 messages, 2 requests; at most one marked room | `UnreadExact`, `UnreadNeverUndercounts`, the refinement `ImplementsBadge` |
| `rooms_serial` | 1 room, 3 profiles, 4 requests one after another, errors without rollback | `TypedAndUnique`, `CountExact`, `LastMessageNewest`, `AdminKept` |
| `rooms_adds` | 2 rooms, 4 profiles, 2 concurrent adds | `AddsExact` (types, exact count, no duplicates), and `AddsEnd` (liveness) |
| `follows` | 2 profiles and a page, 2 concurrent toggles of 3, 1 recount | `TypedAndExact` (exact without overlap), `NeverOvercounts`, `TogglesEnd` (liveness) |
| `comments` | 2 targets, 3 comments, 2 concurrent requests of 5, or of 4 with 1 of them in the admin site, 1 pin | `CountsExact`, `OnlyDeletedStale`, `SerialThreads` |
| `recounts` | 2 users, 2 profiles, 2 requests or commands, a row to begin with or none; each of four packages | `RecountsSettle`, `CalmIsExact`, `ChoicesKept`, `RequestsEnd` (liveness) |
| `migrations` | 2 objects and 2 rows, or 2 profiles, a page and 2 follows, 6 steps; 2 models with 3 objects, one of them with public ids, batches of 1 | `TargetsKept`, `CountersCarried`, `FollowsKept`, `IdsKeepNaming`, `BackfillComplete` |
| `accounts` | accounts: 2 users, 2 addresses, 2 passwords, 7 steps; paths: 2 users (holders of the global permissions), an organization, a page, 2 profiles, 2 requests, 10 steps; payments: 2 users, 2 customers, 2 subscriptions, 2 requests, 10 steps | `AccountsConsistent`, `PathsConsistent`, `PaymentsConsistent` |
| `content` | messages: 3 profiles of 2 users, 2 rooms, 2 messages, 2 requests, from no room (6 steps), a pair (8) and a group (7); mentions: 3 calls, 10 steps; notices: 2 verbs, 2 events, 2 clients, 3 toggles, 12 steps (once toggled: one event, no deletion) | `MessagesConsistent`, `MentionsConsistent`, `NoticesConsistent` |
| `platform` | start: 4 made-up packages in any order, 16 steps, or the packages of the repository, all or all but one, to the end; keys: 2 keys, 2 encryption keys, 3 edits, 9 steps; sign-ins: 2 addresses, 4 accounts, 2 requests, 8 steps; view permissions: 2 views, a role, a group, 2 changes, 6 steps; links: 2 workers, 3 links, 12 steps; videos: 3 videos, 3 tasks, 2 forms, to the end; reads: 2 users with 3 profiles, 4 writes; rooms: a group and a pair, 4 steps; logs: 2 requests of 2 fields, 2 logs, 9 steps | `StartConsistent`, `CredentialsConsistent`, `VideosConsistent`, `ViewsConsistent` |
| `invitations` | 2 people, 2 rows, 2 tokens, 2 requests, no rollback, to the end | `MembersConsistent`, `StatusMachine` |

One run ends in a violation: `rooms_toggle`.  `mutations.py:670` says that at least one admin
remains, "in a concurrent-safe way"; two demotions both count two admins, because a count
drops `FOR UPDATE`.

What the properties of the runs with several parts are made of (each is stated, with a
comment of its own, in the module it is about):

| Property | Conjunction of |
| --- | --- |
| `AccountsConsistent` | `VerifiedProven`: a verified address answered; `PasswordDated`: no password outlives its interval because a stale row was saved |
| `PathsConsistent` | `PathsLead`, `ProfilesReachable`, `LinksMutual`, `NamesInSync`, `OwnersStay` |
| `PaymentsConsistent` | `OneEachUnlessOverlapped`, `SubscriptionsMirrored` (when Stripe has nothing left to deliver), `CustomersLinked` |
| `MessagesConsistent` | `PairRoomsUnique`, `DeletedStays`, `ClientsCurrent`, `HistoryCut`, `ConversationsListed` |
| `MentionsConsistent` | `LastCallReplaces`, `ResolversAgree`, `DeltasAddUp` |
| `NoticesConsistent` | `OffMeansOff`, `AnswersHold`, `OnlyReal`, `ClientsTold` |
| `StartConsistent` | `CapturesAreFinal`, `RunsWhatIsListed`, `OverridesWin`; for the shipped packages also `BackendsEnabled` |
| `CredentialsConsistent` | `RotationKeepsKeys`, `ReadersAgree`; `RefusedMayRetry`, `AssociatedByRight`, `ReferredOnce`; `DecidedRight`, `NotTakenBack`; `LinksLead`, `OneUnfinished` |
| `VideosConsistent` | `NamesALivingVideo`, `SettledIsComplete` |
| `MembersConsistent` | `ActiveByConsent` |
| `ViewsConsistent` | `ListedOpens`, `BlocksHideBothWays`; `AdminsKnow`, `ListsAgree`, `NobodyReadsDeleted`; `LogsNameTheActor`, `PublicIfAsked`, `AnonymizedHaveNone` |

Each also contains the type invariant of its module.

Why the bounds are enough: every failure that these properties exclude, and every one
of the mutations in `PROJECT.json`, needs two requests that interleave, or three or four
in a row; the shared rows are one room, one profile, one target.  Two rooms are there
for lock order, two targets for moved comments, three comments for a reply below a
reply, two messages for counts that differ from one, three profiles of two users for
somebody who looks with another of its profiles.  A step bound is at least what it
takes to make the state that two overlapping requests meet, and to begin and end both.
Parts without a step bound in the table end by themselves; for videos, states after a lost
task or the deletion of the row are not continued (`Unspoilt`), because the properties say nothing of
them.  In `accounts` there are too few paths for a page to get one while its collection waits;
the theorem has that case, and TLC meets it with `MaxSuffix = 3`.  The proofs remove the bounds
for the invariants they cover.  `CHECK_DEADLOCK FALSE` is set because a bounded run
stops when its requests, steps or primary keys are used up.

Symmetry is used for model values that no property and no action tells apart, and only
in runs without liveness properties.

### Exceptions, and what they say about the code

Where overlapping requests do break something that holds otherwise, the property names
the exception by a history variable, which only the steps that overlap in that way can
set; everywhere else the property binds.  The exceptions are facts about the code:

- Two `ChatRoomCreate` of one pair make two rooms (`overlapped` in Messages).
- A message deleted under an edit in flight stays deleted, but the edit broadcasts it
  as undeleted; what is fetched between a broadcast and its commit is old (`raced`).
- A participant who was removed keeps its subscription to the room, and a client that was open while
  its profile joined keeps what it had (`lingering`).  A send beside an operator's erasure may leave
  a room that has messages without `last_message` (`stale`), which hides it from lists.
- A group is without admin when one of its admins removes the last ones together with somebody else, or
  leaves an emptied room while adding to it (`given_up` in RoomViews; the finding about
  `ChatRoomUpdate` is the same).
- A channel turned off between the worker's question to the settings and its delivery is
  still used once (`late` in Notifications).
- A counter of `Recounts` is whatever the last writer counted, perhaps before somebody
  else's commit (`suspect`), until the next save or the command.
- A profile saved after its deletion returns without a path; an update saves the owner
  or the name it loaded; an organization may be created by a user who is being deleted;
  a path added to a target whose paths a deletion has collected stays behind
  (`overlapped` in UrlPaths).
- Two requests validated at once subscribe twice; a creation event applied after the
  deletion event brings the row back (`overlapped`, `late` in Payments).
- Once a clip is ready, the field may name its deleted original until the task that made it has saved it
  (`Leaving` in Videos), and a video is deleted before its object (`Deleting`).
- Overlapping refreshes of a video save over a newer upload (`lost`), and a video that
  an upload replaced stays at Cloudflare.  Forms can bring back a video whose deletion is queued.
- A change in the admin saves a key under the old encryption key over its rotation
  (`crossed`).
- A worker that stops between the two saves of a short link leaves an empty code,
  and until an operator deletes it everybody gets full URLs (`OneUnfinished`).
- A request with a session of one user and a token of another records a profile of the
  first under the second; several mutations of one request share one log.
- A notification queued before its comment is committed may be lost; two first toggles
  of one setting leave two rows, and later toggles of it fail.

Disagreements with a sentence of the repository are in `findings` of `PROJECT.json`, each
with the lines of both.

### Fairness

- `ChatRooms!Fairness`: strong fairness of each request's next step.  A server process
  runs its request to the end (nothing in the code gives up waiting), and
  PostgreSQL queues the waiters of a row lock, so that a lock released again and again is
  granted to each of them.  `AddsEnd` then says that the locks of several rooms, taken
  in primary key order, are always obtained.
- `Follows!Spec`: strong fairness of `Statement(q)`, for the same reasons, and because the
  deadlock detector of PostgreSQL runs: `BreakDeadlock` is part of `Statement`.
- Nothing is assumed about clients: no request has to be started.
- `Recounts!Spec`: strong fairness of `Statement(q)`, for the same reasons: the sides of a
  block are locked in an order that depends on who blocks whom, and PostgreSQL
  ends the deadlock.
- The other modules state no liveness: their requests take no locks that they wait for in
  a way that the code orders, end at any time by assumption (`RollBack`, `GiveUp`, `Stop`),
  or retry a limited number of times (`Videos`).

## What is proved

All proofs are for arbitrary sets of profiles, rooms, messages, targets and requests and
for arbitrary bounds, from the ASSUMEs of the modules (names of special values are not
elements of the sets; the sets that are counted are finite).

**ChatUnreadProofs** — `TypeCorrect`, `NeverUndercounts`, `BadgeExact`,
`ImplementsUnreadBadge`.  The invariant adds to the properties that a primary key which no
message has used has no status rows (`NoStatusBeforeSend`).  The argument is one lemma:
whatever a step does, the unread messages of a profile in a room and the counter of that
profile for that room move together in one of four ways (`Moved`): not at all; one more and
plus one; some fewer and minus as many, floored at 0; or, when an operator interferes, fewer
and the counter unmoved.  The badge invariants follow by counting, and the refinement by
mapping an insert to `Deliver` and a flip to `See`.

**ChatRoomsProofs** — `RoomsTypeCorrect`, for any mix of operations, with and without
request transactions (`Typed` says what requests in flight are made of).

Overlapping adds: `OverlappingAddsExact` (with `AddsNeverDuplicate` and
`AddsLoseNoIncrement`), under the premise `OnlyAdds`: clients only add participants, and a
request is one transaction.  The invariant (`Holds`) says that what a request has read of a
room that it holds locked is still true: the instance in its memory is the row in the
database, and the profile that it is about to insert is not in the room.  Nobody else can
write such a room, so every increment is applied to the current count and no row is a second
one.  Without the premise the property is false: `send_message` saves the count of its
instance back.  That rooms are locked in the order of their primary keys needs the least
element of a finite set, from the library's well-founded induction.

One request at a time (`OneAtATime`), of every kind: `SerialNeverDuplicates`,
`SerialCountsExact`, `SerialLastMessageNewest`, `SerialAdminKept`.  The invariant `Serial`
says what the one request in flight `Knows`: its instances are the rows, and what it plans
(whom it removes, who inherits the role) fits the participants, up to its last save.
`SerialAdminKept` has a further premise, `PlainEdits`: an edit adds profiles, or removes one.
An admin who leaves and removes somebody else in the same call, or leaves an otherwise empty
room while adding, leaves the room without admin: the hand-over asks
`len(remove_participants) == 1` (`mutations.py:237-246`).

**FollowsProofs** — `FollowsNeverOvercount` and, for toggles that never met another one,
`SerialFollowsAreExact`.  The invariant counts rows: the counter a toggle sees (its own
draft, or what is committed) is at most the number of rows that there will be when it
commits (`RowsAfter`, which has its own row once its counter is adjusted).  Increments are
applied to the committed value under the lock of the metadata row, so the bound survives
every interleaving; it is an inequality because a seed sets the counter to 1 even over the
row that a concurrent toggle has seeded since.  `Alone` strengthens it to equality, and adds what the
reciprocal flags will be (`FlagOf`).

**RecountsProofs** — `RecountsAlwaysSettle`, `CalmRecountsAreExact`, `ChoicesAreKept`, for
the four packages at once.  The unit of the argument is a side: the rows that count for
one profile in one direction (a block has two).  As long as nobody else has committed a row of that side
(it is in `sure`), what the transaction has written of it is what it sees, and what it has
not written looks to it as it is committed (`Counting`; `JobCounting` is the same for the
command).  What two transactions have written is `Disjoint`, by the row locks.  A commit
hence leaves a side either exact or among the suspects.  Without overlap (`Calm`) a
transaction is `Alone`: nothing it relies on has changed since it began, every side that
its row counts for is recounted, and primary keys are `Numbered` so that a save finds the
row it loaded.  `Asked` says that whatever is stored, or about to be, was asked for by
the user it is stored for, or by staff.

**CommentsProofs** — `CommentsTypeCorrect`, `CommentCountsExact`,
`OnlyDeletionsLeaveStale`, `SerialThreadsHold`.  The invariant `Holds(q)`: the keys that q has recounted are
keys whose metadata row q has locked, and the counts it has drafted are those of the rows
as q sees them, except where a commit of somebody else changed such a key without
recounting it (the history variable `sure` loses the key).  Two transactions cannot both
have drafted a key, so a commit changes the rows of no key that another has drafted,
and what it writes is exact for its own.  The second invariant, `Settled`, holds while the
admin site is not used: a request writes only rows that it has loaded and that keep their
parent and target, and it has recounted both by the time it commits, so that it skips
nothing.  A primary key is given to one new comment only (`OwnKeys`), which is needed
because a row in flight is not in the table.  The third, `Serial`, holds while requests do
not overlap and the admin site is not used: what the request in flight has sent is what it
loaded with the one change it is for (`Plan`), a pin was checked against the rows as they
still are, and a deletion has all that lies below what it deletes.  The last needs that the
thread below a comment is closed and that the thread of a reply is part of it; `Thread` is
therefore stated as the least set closed under replies, and not by recursion.  The limit
of pins is assumed to be a number (`BASEAPP_COMMENTS_MAX_PINS_PER_THREAD` may also be `None`,
no limit).

**ContentProofs** — `MessagesAlwaysConsistent`, `MentionsAlwaysAddUp`,
`NoticesAlwaysConsistent`: the three invariants of `MCContent`, for finite sets of profiles
and requests and any texts, targets, verbs, events and clients, without a bound on the steps.
For messages the invariant has a part for each promise.
One room per pair: a one-to-one room has two rows (`PairRows`; both are of one profile when
it invited itself), so the look-up, which multiplies the number of rows by the copies of each
entry, finds it; hence a request that goes on to make the room of a pair that has one, or that
another request is making, has overlapped the other (`PairsAsked`).
Edits and deletions: who has written and not committed holds the row (`Locks`), so the row
that it commits is the stored one with its one column changed; an edit has loaded the message
as it still is, unless a deletion was committed since, which puts the message among `raced`
(`EditsFit`).  `DeletedStays` follows because no commit clears the flag.  Clients: between the
broadcast and the commit a subscriber holds what is about to be stored (`ToldAhead`).
Lists: what the trigger of an operator's deletion saw is all the room has, except for a send
that committed since, which makes the room `stale` (`LeftFits`); so a conversation with a
message has a last one, and is listed.
For mentions the invariant adds that at most one call per target has written and not
committed (`OneWriter`, by the lock), that the difference it took under the lock is still
the difference (`Fits`), and that what a receiver's balance lacks is exactly what
committed calls have yet to report (`Owed`).  The last is counting: a commit puts a call
into one of the two sets of pending reports, a signal takes it out.
For notifications: whatever verb and channel is off has a row that is off (`OffRows`).  A
commit overwrites only the toggle's own row and rows of its verb for all channels
(`CallRows`), so it turns a row on only where it takes the channel from `off`, or where the
row never carried it.  An answer is about a toggle that nothing overlapped: it has the only
row of its verb and channel and wrote all others that its answer depends on (`AloneRows`),
and any later commit replaces the answer.  A worker past its load works on a committed row
(`LoadedIsReal`).  `NeverShown` and `Shown` extend `ClientsTold` to the moments between a
save and its broadcast, where it does not hold, and to notifications being deleted.
Assumed: `None` is no request and no notification, requests of `ChatRoomCreate` name profiles,
and so does the room that a behaviour starts with.

**RecordsProofs** — `IdsAlwaysKeepNaming`, `BackfillAlwaysComplete`, `FollowsAlwaysKept`,
`TargetsAlwaysKept`, `CountersAlwaysCarried`, `AccountsAlwaysConsistent`,
`PathsAlwaysConsistent`, `PaymentsAlwaysConsistent`: all that `MCRecords` checks, without
bounds on the steps.  A behaviour is of one of six parts, and the invariant `Inv` speaks of
that one.
`IdsInv`: keys of objects, public ids and documents only grow (`Grow`: no key comes back, a
document goes only with its object), so an id that was given to a client names its object or
nothing; what the command was to document, still exists and has no document is still before
it (`Pending`: in a batch to come, or among the missing of this one).
`FollowsInv`: documents are distinct, so that an object has one document and the other way
round; once converted, both columns of each row name documents; the counters of a document
are those of the rows that join it, or there are none (`Counted`).
`TargetsInv`: the operations done are a prefix of the package's pipeline; a row's document,
or without one its generic key, names the object that the row is about, and an event
names the object it was about, or that of its comment (`TargetsOf`); metadata belongs to documents that exist
(`CountersTyped`).  Documents are only ever added, so every step keeps what pointed at them.
`Carried`, the step of `CountersCarried`, is proved with `TargetsInv`: for a comment's target
it needs that its legacy columns are all there or none is, because the code selects rows
by all of them.
`AccountsInv`: not only the stored row of each user but also the one that a slow request has
loaded `RowFits` the histories: a verified address has answered, and the password was chosen
on the day in the row.  Histories only grow, so a loaded row fits for as long as its request
takes, and saving it whole, over whatever was stored since, leaves a row that fits.  That is
why stale saves lose data here but make nobody verified who is not.  A token that sets
the flag was mailed to the address that it signs (`TokenFits`), and signs what the row must
still say, so whoever uses it answers for the address that the row takes.
`PathsInv` (it is assumed that the deletion task, which runs days later, finds no request of its user's under way) adds to the five promises what requests under way rely on.  Each is about
something it has a right to (`Shaped`).  A row that an update has loaded, the profile's
own row, and the row of any other update of the profile `Agree` on the target and, for
an organization, on the owner, so saving one over another undoes only names and
users' owners.  Numbers of profiles are not given out twice (all are at most `last`), so a
profile that a request brings back after its deletion is not somebody else's; the profiles that
a deletion has collected are of no organization, and the user that it collected is inactive and has
no other request under way (`Timely`, `RequestsFit`), so nobody links to what goes.  `OwnersKept` is the promise about owners
read from the profile's side.
`PaymentsInv`: events, rows and requests are about customers and subscriptions that
Stripe has made (`EventsKnown`, `RowsKnown`).  Who has validated a request for a product is
`Promised` to be the only one, unless it overlapped another; with it a creation keeps
`OnlyOne`.  `Mirrored` states `SubscriptionsMirrored` at every moment, and not only when Stripe
has nothing left to deliver: what a row does not say yet is in an event on its way, or the
history says why it never will be.
The sets of objects, rows and keys are assumed to be finite, `None` to be none of the
values it stands beside, members to be users, every kind of token to have a lifetime and
bounds to be numbers (`ModelAssumption` to `PaymentAssumption`).

**PlatformProofs** — `CredentialsAlwaysConsistent`, `VideosAlwaysConsistent`,
`ViewsAlwaysConsistent`, `MembersAlwaysConsistent`, `StatusesAsDocumented`: all that
`MCPlatform` checks but for the start, for any values of the constants and any number of steps.  `Inv` speaks
of the part that the behaviour is of.
`KeysInv`: `RotationKeepsKeys` speaks of a rotation that has ended.  While one runs, the
rows that it has passed are under its new key, those before it exist, and an open form is of
a key that it has `crossed` (`RotatingWell`); afterwards what an open form still holds is
under the new key, because saving the form saves the whole row (`RotatedWell`).
`SignInsInv`: a request in flight stands on a code that it has spent, which nobody can spend
again, and if it has a caller, that user was signed in when the code was exchanged, or is
gone (`RequestsSpent`); a deletion puts `Gone` for the user in every request that holds it.
`CallsInv`: what a process has learned about an action is the map of a view that has none of its
own for it (`LearnedFromViews`).  A request that nobody's edit touched was decided by what its
user is entitled to now (`DecidedWell`), and one that has passed holds the list that its
process would give it again, which does not change once it is learned (`ListsKept`).
`LinksInv`: a code is empty or that of its link's key (`CodesMade`), workers between their
two saves have different links, without a code (`SavingApart`), and what was handed out is
of the link that it was made for, if that is still there (`GivenKept`).
`VideosInv`: unless a newer upload was saved over (`lost`), the video that the field names
is at Cloudflare, or a task is about to save its clip or to delete the object, and what the
field does not say yet is the work of some task (`Followed`); that is why a settled field is
complete.  The original that a task will delete is what the field names only while the task
that clipped it has yet to save (`OriginalsLeft`), and until then no other names the clip
(`ClipsFree`).  `OneUpload` follows one form to its end: there is the video,
or its clip and an original that is about to go.
For readers the type invariant is enough: what is listed opens, and blocks hide both ways, in
every state.  The proof goes through the permission backends and querysets one by one.
`RoomsInv`: a group with participants that nobody gave up has an admin (`AdminsStay`), because who
inherits the role is in the room; an unread message is counted in its room (`UnreadCounted`), and a status
is of a participant who was there before the message (`StatusShown`), unless it has left.  The
heir is who joined first, and that there is one needs the well-founded induction of the library.
`LogsInv`: the context of a request, the row it has written and what is committed of it are of
who acted, with a profile that the session may use (`OfRequest`); whoever is anonymized while a
request runs is marked in it (`RequestWell`, `LogWell`).
`MembersInv`: `ActiveByConsent` speaks of rows, and a request may save the copy of a row that it
read long ago; so the invariant speaks of rows and copies alike.  Each is `Sound` (a pending
or expired one has a link, one with a link has an address, its user is that of the address),
and whatever is active has been accepted, the copy of an acceptance excepted until it is saved.
It survives whatever is saved over whatever.  The action property `StatusMachine` follows
from a second invariant, `Alone`: until two requests overlap there is one in flight, its row
is there, and its copy differs from the row by a documented move.
Assumed (`KeyAssumption` to `MemberAssumption`): bounds are numbers, `None`, `Gone`, `Absent`
and `Idle` are none of the values they stand beside, superusers are users, the current profile
of a user is its own, founders of rooms are profiles, every view has a base for its
permissions, and the callable that a view's map may hold (`Check`) is no permission's name.

Only model-checked: liveness (`AddsEnd`, `TogglesEnd`, `RequestsEnd`), because the provers
have no rules for fairness and ENABLED; and `StartConsistent`.  What a project runs is
computed there by folds over the sequence of installed packages (`SelectSeq`, `FoldLeft`),
so that a proof needs induction over that sequence, which is out of the provers' reach;
TLC checks it for the packages that the repository really has.

## Hazards without a property of their own

`PROJECT.json` lists, with the line where each bites, what is hard to test in this code.
Each has a property that covers as much of it as the code promises; where the code does
not guard the rest, the note says what remains: two creations of the same one-to-one
room, the return of a row deleted during its acceptance, flags of two follows created
at once, a webhook applied after the one that undoes it, a rotation that stopped halfway.

## Not modelled, and why

- Message templates, PDF generation, Wagtail, end-to-end helpers and the test project:
  input and output, or no logic of their own.  The content feed creates a post
  with its images in one transaction, and nothing depends on it later.
- The GraphQL and websocket protocols themselves: who a request or a socket acts for and
  whether it is one transaction is modelled, the encoding is the library's.
- Data that no decision depends on: bodies of comments and pages, languages, images and
  metadata of profiles and pages, prices, trials, invoices and billing details (they
  pass through to Stripe), wording of e-mails and notifications.
- Codes of second factors, signatures of tokens and the encryption of keys: libraries,
  modelled by what the code relies on.
- Bulk deletions of comments in the admin site: one request that deletes whole threads,
  with a recount for each of their comments, is more than the statements of `Comments` hold.
- Deletion of users and profiles across components, except in `UrlPaths`, `Messages`,
  `Mentions`, `Recounts` (as `BulkDelete`) and `cleanup_user_participation`.
- Composition of the parts of one MC module: their components share no rows that
  both write, and each takes the other's answers (permissions, current profile) as inputs.

## Plan

1. Composition: profiles with chats (membership decides who may act for a profile), and
   deletion of a user across chats, comments, follows and profiles.
2. What *partly* leaves out in `PROJECT.json`: bulk deletions of comments, second factors,
   invoices.

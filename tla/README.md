# BookNest: a TLA+ model of the hotel-booking API

This directory holds TLA+ modules that model the core of BookNest (a Django REST
API for hotels, rooms, bookings, reviews and users), TLC configurations that check
small instances of them, and theorems about them checked by TLAPS.
Paths below are relative to `src/`.

    tlc -workers 2 -config MCBookings.cfg MCBookings     # model-check one run
    tlapm BookingsProofs.tla                             # check the proofs of a module

## 1. The system

A Django process serves each HTTP request in a thread (`runserver` locally, Daphne
in production, `scripts/start.sh`). State lives in PostgreSQL (users, hotels,
rooms, bookings, reviews) and in Redis (page cache, one-time codes, throttle
windows, language preferences, channel layer, Celery broker). Celery workers send
mail. The settings set no `ATOMIC_REQUESTS` and no view opens a transaction or
takes a row lock, so **a request is a sequence of separately committed statements
and Redis calls, and concurrent requests interleave between any two of them**.
That is the concurrency all the modules are about.

| Component | State | Operations | What makes it hard |
|---|---|---|---|
| Bookings (`apps/bookings/{views,serializers,models}.py`) | the bookings table | create, cancel; list and availability only read | check-then-insert, whole-row saves of stale copies, cascades |
| Hotels and rooms (`apps/hotels`, `apps/rooms`) | the hotels and rooms tables, cached detail and list pages | create, update, delete, details, list | fills race with drops, signals inside transactions, cascades past the cache |
| Registration and verification (`apps/users/{views,services}.py`) | accounts, one code per address in Redis, the mail queue | register, verify, resend | spellings of one address, races of code and account, swallowed errors |
| Redis helpers (`apps/abstract/redis_storage.py`) | keys with TTLs | get, set, delete, delete by pattern | every failure is swallowed |
| Admin site (`apps/*/admin.py`) | none of its own | forms, deletions | forms opened long before they are saved; own transactions |
| Notifications (`apps/bookings/consumers.py`) | channel-layer groups | connect, disconnect, notify | lost or late events |
| Reminders and mail (`apps/bookings/tasks.py`, `apps/users/tasks.py`, `apps/abstract/async_io.py`) | none | daily task, mail with timeout | snapshots, timeouts that do not cancel |
| Reviews (`apps/reviews`) | the reviews table, cached lists | create, list | exists-then-insert behind a constraint, signals before and after the commit, changes without a signal |
| Sessions (`apps/users/views.py` login and logout, `SIMPLE_JWT` in `settings/conf.py`) | refresh tokens, blacklist | login, refresh, logout | the blacklist is read, written and followed by the next token in separate statements |
| Throttling (`apps/abstract/{mixins,throttles}.py`) | windows in Redis | allow | read-modify-write, fails open |
| Language middleware, permissions, decorators, pagination, base models, settings, seed data, migrations | little or none | | |

How they interact: bookings read the rooms table (price, existence) and vanish with
their room; rooms vanish with their hotel; a cancel notifies the booker through the
channel layer; registration hands mail to Celery through the broker; hotel signals
and room views drop cache keys; reviews ask the bookings table for eligibility and go with
their hotel; every request passes the throttles, and every request of a user the sessions.

What makes each correct, in one line:

- **Bookings**: a room is promised once per night; a cancelled booking stays
  cancelled; every stored row is valid; every request is answered.
- **Catalog**: the cache shows what the tables hold, or has a known reason not to; an
  entry that is wrong lasts a TTL at most.
- **Verification**: only the account that owns the address is verified, with a code
  that was mailed to it, and a code outlasts the verification for known reasons only.
- **Notifications**: an open socket hears of its user's cancelled bookings, or lost the
  message to a fault, and what it hears is true.
- **Reminders and codes by mail**: at most one mail per user and run, nobody left out because of
  another's failure, nothing reported as sent that was not.
- **Reviews**: at most one per user and hotel, of somebody who had an accepted booking;
  only the loser of a race sees a server error; lists are out of date for known reasons.
- **Sessions**: a session has one usable refresh token, none after logout, and users who are
  disabled run out of them.
- **Throttles**: no more requests than the rate in any window, except where a write was
  lost; nobody is refused before the rate is reached, and a client that is refused gets
  through again.

`PROJECT.json` lists the hazards at their lines with the properties that cover them.

## 2. The modules

| Module | Models | Extended by |
|---|---|---|
| `Reservations` | the abstract promise: a name reserves a stay once, in one step, if nothing clashes | instance in `Bookings` |
| `Bookings` | bookings and the rooms they need | `MCBookings` (TLC), `BookingsProofs` (TLAPS) |
| `EmailVerification` | registration and verification of one address | `MCEmailVerification`, `EmailVerificationProofs` |
| `Catalog` | hotels, rooms and their cache | `MCCatalog`, `CatalogProofs` |
| `BookingNotifications` | extends `Bookings` with sockets and the channel layer that `notify()` talks to | `MCBookingNotifications`, `BookingNotificationsProofs` |
| `MailTasks` | the Celery tasks that send reminders and codes | `MCMailTasks`, `MailTasksProofs` |
| `Reviews` | reviews, their lists in the cache and all that changes them | `MCReviews`, `ReviewsProofs` |
| `Sessions` | refresh tokens from login to logout | `MCSessions`, `SessionsProofs` |
| `Throttles` | rate limits kept in Redis | `MCThrottles`, `ThrottlesProofs` |

Operators that begin their comment with "Faulty" are mutations: a plausible bug of the
definition that follows. Each property is violated when the mutation listed
for it in `PROJECT.json` replaces that definition, so each says something about the code.

### Bookings

| Variable | Code |
|---|---|
| `roomPrice` | `Room` rows: `price_per_night`, or `None` when there is no row |
| `booking` | `Booking` rows: room, dates, `status`, `total_price` |
| `createPc`, `ask` | where a `create_booking` is, its `validated_data` with the `Room` instance read (its price) |
| `cancelPc`, `target`, `copy` | where a `cancel_booking` is and the `Booking` instance it loaded |
| `roomEdits` | `update_room` requests between `get` and `save` |
| `form` | admin change forms: the row as it was shown |
| `seen`, `edited` | history: bookings stored before an overlap check; bookings saved by an administrator |

| Action | Code |
|---|---|
| `ReadRoom` | `BookingCreateSerializer` field validation (the room's key is looked up) |
| `CheckOverlap` | `validate()`: dates, then the overlap query |
| `InsertBooking` | `create()` and `Booking.save()` with `full_clean()` |
| `LoadBooking`, `SaveCancelled`, `Notify` | the statements of `cancel_booking` |
| `LoadRoom`, `SaveRoom`, `DeleteRoom` | `update_room`; `delete_room` with its cascade |
| `OpenForm`, `SubmitForm`, `DeleteBooking` | the booking admin |

Each action is one statement with the checks before it. Decisions worth knowing:
`save()` writes every column, and when its UPDATE matches no row it INSERTs, so a save
of a stale copy can overwrite or revive a row (`SaveCancelled`, `SaveRoom`); the two
statements are one step. An administrator's form changes status and dates; `total_price` may be
changed there too, which `full_clean()` bounds like any total, and is left as it was. `full_clean()` runs before each save and is `Storable`.
A room update changes the price or revives a room, and a hotel's existence is
left to `Catalog`. `Workers` is the number of busy threads; with 1 the server is serial.
Between GET and POST an admin form is not in flight; the POST is one step (Django's
admin wraps it in a transaction).

### EmailVerification

One address, since addresses share nothing: `account` by stored spelling, `eldest` (what
`filter(email__iexact=...).first()` finds), `stored` (Redis key of the address), `mailed`
(history of the queue), and each request's program counter and locals. `register` is
`LookUp`, `Validate`, `CreateUser`, `StoreCode`, `Enqueue`; `resend_verification` is `Resend`,
`StoreCode`, `Enqueue`; `verify_email` is `Verify`, `Compare`, `MarkVerified`, `ClearCode`.
`Normal` is `normalize_email` (only the domain is put in lower case), so two spellings of
the local part are two accounts with one code. Failing Redis and broker calls are
constants. Allocation of the primary key and the commit of `CreateUser` are one step.
`outlasting` is history: the requests between their lookup and their store when the address
was verified, and those whose code a failed deletion left.

### Catalog

`row` (both tables), `cache` (Redis), readers with the page in hand, writers with the row and
content they will store, and `exposed`, a history variable: the keys whose entry may be out
of date with no drop left to come. Keys are never reused (`unused`). A list is modelled as
one page showing every row; pages and filters differ in what they show and not in when
they are filled or dropped, and the COUNT and the SELECT of its pagination are one step.
A save of a hotel may be refused by `full_clean()` (its name was taken since the
serializer looked), like that of a room whose hotel went. Cache hits change nothing and are not steps.
Room views save in autocommit and then drop keys; hotel updates and creations do the
same in `post_save`; **deleting a hotel, and everything in the admin site, sends its
signals inside the transaction**, so keys are dropped before the change is visible
(`txDetail`, `txList`, `committing`). Open transactions hold row locks (`Locked`). No
signal belongs to `Room`, so the admin site drops nothing for rooms and a hotel's cascade
drops nothing for its rooms. `Faults` lets any Redis call fail (they are all swallowed
by `_safe_cache_call`) and the server stop (`Crash`: open transactions roll back, the drops
a writer owed are lost). `Expire` is the TTL of `settings/conf.py`.

### BookingNotifications

A composition: the variables, steps and assumptions of `Bookings`, and beside them

| Variable | Code |
|---|---|
| `phase` | where each `BookingStatusConsumer` is, from the handshake to the end of `disconnect()` |
| `group` | the sockets in their user's group (`bookings_<id>`) of the channel layer |
| `inbox` | the channel of each socket: messages sent and not yet handled |
| `told`, `deaf` | history: the bookings a socket was told of; sockets that lost a message or their membership to a fault |

`Connect`, `Join`, `Accept` are the awaits of `connect()`, `Deliver` is `booking_status()`, `Close`
the client going away, `Leave` is `disconnect()`. `Send` is the `Notify` of `Bookings` with what
`group_send` does: it is the only step in which both parts move, and every other step moves
one and leaves the other (`BookingStep`, `SocketStep`). A consumer handles one message at
a time, so what arrives between `Join` and `Accept` waits in the inbox. `Faults` lets each
call of the layer fail or time out, with or without effect, and a membership lapse after
a day (`group_expiry`, `Lapse`). A full inbox drops the message: `Capacity` is per socket here, while
`channels_redis` keeps one list per process, which only makes drops rarer or more frequent and
never makes a message false. The expiry of a message after 60 s without a reader is
not modelled (an open consumer reads at once), nor a `group_send` that reaches some sockets and
not others, and a ping changes nothing. A token is
checked when a socket connects and never again, so `Viewer` is constant.

Only cancels notify. A status changed in the admin site tells nobody, although the
consumer calls itself one "that streams booking status updates" (`consumers.py:17`).

### MailTasks

| Variable | Code |
|---|---|
| `due` | the tables as the reminders' query sees them: bookings that check in on the day, pending or confirmed, of active users |
| `pc`, `left`, `awaited`, `answer`, `counted` | the loop of `send_today_check_in_reminders`; `send_otp` is a run with one user |
| `threads`, `copies`, `handed` | per run and user: threads that send (`sync_to_async`), mails that went out, mails handed over |
| `since` | history: bookings that became due after the run read the tables |

`Begin` is the query and the grouping, `Hand` a call of `send_mail_async`, `Deliver` and `Refuse` the end
of its thread, `Resume` and `TimeOut` the two ways `wait_for()` returns, `Finish` the end of the
loop and `Kill` the end of the worker. **`wait_for()` stops waiting, not the thread**: a mail that
timed out may be delivered afterwards. (The `async_to_sync` around each mail may wait for that thread when it
closes its event loop; `TimeOut` lets the loop go on at once, which answers and counts the same.) Celery acknowledges a message before it runs it,
so a killed run is not resumed; a message the broker hands out twice is another member of
`Runs`. `TablesChange` is all that happens to the tables meanwhile: any bookings may become due or
cease to be, several in one statement too (a room deleted with its bookings, an action of the
admin site), so every behaviour of `Bookings` and of the user form is among its behaviours.

### Reviews

| Variable | Code |
|---|---|
| `hotels`, `status`, `email`, `reviews` | the rows a review depends on: hotels, the booking of a user in a hotel, the address shown, the `hotels_review` table |
| `cache`, `stored` | the cached lists by hotel, and which of them are there |
| `ppc`, `draft` | where a `create()` is, and for whom and what |
| `rpc`, `key`, `page` | where a `list()` is, and the list it holds |
| `epc`, `job` | open transactions of the admin site and of deleted hotels: rows they remove and add |
| `earned`, `vouched` | history: pairs of user and hotel with an accepted booking at some time; pairs whose review staff put there |
| `overtaken`, `failed`, `exposed` | history: posts that others overtook, posts answered 500, lists that may be out of date with no drop to come |

`Submit` is the check for an accepted booking, `CheckFirst` the `exists()` query and the body,
`Insert` the `objects.create()` that the unique constraint and the foreign key may refuse (a
500), `DropLists` the `post_save` signal, which `create()` in autocommit sends after the
commit. Readers `Miss`, `Query` and `Fill`. Editors `Begin` a transaction (`Edit`, `Remove`, `DeleteHotel`), send their
signals inside it (`DropInside`) and `Commit` or roll back. `Seed` is `bulk_create(ignore_conflicts=True)` of the seed command, which sends no
signal and asks for no booking; `ChangeEmail` is the user form, whose address the lists show;
`ChangeBooking` is all that `Bookings` does to the booking of a user in a hotel, in any order, so every
behaviour of `Bookings` is among them. The COUNT and SELECT of a list are one `Query`, and a deleted hotel stays
away: that a late save of a hotel inserts it again is in `Catalog`. A draft keeps no text until it is inserted, and rating and text are one value.

### Sessions

A session is one login and the chain of refresh tokens that come of it. `session` and `owner` say
whose token it is, `black` is the blacklist, `expired` the tokens past their lifetime, `pc` and `hand`
where a request is and the user or token in its hand. `ReadUser` and `IssueFirst` are the two halves
of `login` (and of `token/`), `TakeToken` the signature, expiry and blacklist check of a refresh or a
logout, `ReadOwner` the `USER_AUTHENTICATION_RULE`, `Rotate` and `IssueNext` what `ROTATE_REFRESH_TOKENS` and
`BLACKLIST_AFTER_ROTATION` make of a refresh, `Leave` the `token.blacklist()` of `logout`, `Cut` a request that dies between
two statements, `SetActive` the user form. The statements and their order are those of
`rest_framework_simplejwt` for these settings (5.5.0 in `requirements/prod.txt`, which looks at the user first); its code is not in the repository and the map marks
what rests on it alone as external. An id is taken again once its token expired and no
request holds it (`Forget`), so that a finite model has endless sessions. The history variables say which
sessions were `forked` (two requests held one token at once), `ended` (logged out) and `over`.

Two things the code does that a reader may not expect: logging out with an older token of a
session leaves the newer one usable only if the two overlapped, since an older one is
refused; and the key that `login` stores in Redis under the token's jti is never read again, so it is left out.

### Throttles

| Variable | Code |
|---|---|
| `hist` | Redis: the time stamps under `throttle_<scope>_<ident>`, each named by its request |
| `pc`, `todo`, `copy` | where a request is, the throttles it has yet to ask, the list it read and will write back |
| `age` | how many ticks ago a throttle stamped a request |
| `passed`, `dirty`, `trouble` | history: requests let through in the window; requests whose list has changed since they read it; how long ago a stamp was lost |

`Asked` is the choice of throttles: the `auth` scope for login, registration and codes, else the user
throttle, and for an anonymous client both defaults. `Get` and `Set` are the read and the write of `SimpleRateThrottle.allow_request`, `Refuse` its
`throttle_failure`; `FailOpen` is the `except` of `RedisThrottleMixin`, which lets the request
through and records nothing; `GetNothing` and `SetFails` are failures that `django-redis` hides
(`IGNORE_EXCEPTIONS`); `Evict` and `Crash` are Redis and the server losing what they hold. `Tick` is the clock. A refused
request changes nothing, so the `wait()` of the 429 has no state.

## 3. The runs

| Run | Instance | Shows |
|---|---|---|
| `bookings` | 2 creations, 2 cancels (guest, hotel owner), 1 admin form, 1 room, 3 days, 3 threads | `TypeOK`, `StoredRowsAreClean`, `OverlapOnlyByRace`, `CancelSticks`, `RevivedOnlyByAdmin` |
| `bookings_serial` | the same without administrator, 2 rooms, 2 prices, 1 thread | `NoDoubleBooking`, `OneCancelSucceeds`, `ImplementsReservations` |
| `email_verification` | 3 requests, 3 spellings, 2 codes, failing Redis and broker | `TypeOK`, `OnlyEldestVerified`, `OnlyMailedCodesVerify`, `AccountsOnlyAdvance`, `LeftoverHasCause` |
| `catalog` | 1 reader, 2 writers, 1 hotel, 1 room, 2 contents, faults, administrator, 2 threads | `TypeOK`, `StaleHasCause` |
| `catalog_serial` | 1 reader, 1 writer, 2 hotels, 1 room, 1 thread | `FreshButForCascades` |
| `booking_notifications` | 1 creation, 2 cancels, 1 admin form, 2 prices of which one makes a total too large, a socket of the guest and one of the owner, inboxes of 1, faults, 2 threads, with fairness | `NTypeOK`, `NewsIsTrue`, `OpenSocketsHear`, `RequestsAnswered` |
| `mail_tasks` | a run of the reminders and a code, 2 users with a booking each, with fairness | `TypeOK`, `AtMostOneMail`, `ReportIsHonest`, `DueGuestsTried`, `TaskEnds` |
| `reviews` | 2 posts of one guest, 1 reader, 2 editors, 1 hotel, 2 texts, 2 addresses, faults, 3 threads | `TypeOK`, `OneEarnedReview`, `ServerErrorOnlyByRace`, `StaleListHasCause` |
| `sessions` | 2 users, 2 requests, 1 session at a time, 3 tokens, with fairness | `TypeOK`, `OneTokenPerSession`, `LoggedOutStaysOut`, `DisabledRunsOut` |
| `throttles` | 3 requests of one address through two throttles (1 in 2 ticks, 2 in 1 tick), faults, with fairness | `TypeOK`, `RateHeld`, `RefusedAtRate`, `BlockEnds` |

Runs that TLC must find violated, each a disagreement between the code and what a
test or comment of the repository says (`PROJECT.json`, "findings"):

| Run | Property | What happens |
|---|---|---|
| `double_booking` | `NoDoubleBooking` | two requests pass the overlap check before either inserts |
| `deleted_hotel` | `NextListOmits` | a list missed, queried and filled between the signal of a deletion and its commit stays cached with the hotel |

A fill that is overtaken by a deletion as a whole (queried before, stored after) leaves the same list, whenever
the signal is sent; that is the late fill of `StaleHasCause`. `deleted_hotel` leaves it out: `MidDeletionSpec` keeps the behaviours in
which every read begins after the signal has dropped the list and is answered before the commit, so that what
it shows is due to the signal being sent inside the transaction and would be gone if it were sent after the commit.

Three more disagreements that the models show and no run states:

- `Room.quantity` is "How many identical rooms of this type exist." (`apps/rooms/models.py:40`), and nothing
  reads it: in `Bookings` one active booking refuses every stay that overlaps it.
- Lookups ignore case and the unique constraint does not (`OnlyEldestVerified`): the owner of an account under
  another spelling is told "Email is already verified." (`apps/users/views.py:201`), of the older one, and never can verify theirs.
- `apps/rooms/tests.py:92` says "Unknown room id yields 404.": a room that went with its hotel is served from the
  cache for a TTL; it is the exception that `FreshButForCascades` makes.

**Why these bounds.** A booking is violated by two creations; the cancels need two
(both may load before either saves) and the third thread lets a room or form step fall
between them. Three days give stays that touch, nest, equal and overlap. `MaxTotal`
is small enough for `price * nights` to exceed it. One spelling equal to the normal
form, one that normalises to it and one that does not are all the cases of `Normal`;
three requests are a registration, a verification and a resend or a second
registration at once. In the cache a
race has a reader, a writer and a second writer that moves the row on; entries of
different rows interact only through lists and the cascade, hence one hotel and one room
with two contents, and a second hotel in the serial run for rooms that move between hotels.
Two cancels of one booking can both succeed, and then two messages meet an inbox of one; the owner's
socket must hear nothing of the guest's booking. In the mail tasks Ann is both reminded
and sent a code, and Bob comes before or after her, so that a failure can fall on either side;
one booking each is enough since the query groups them.
For a review a race has two posts of one pair, or a post and an editor; two editors move a
review and delete the hotel at once; pairs share nothing but the drops, which are of all lists,
so one user and one hotel do, and two texts and two addresses tell pages apart. Of a session
the interesting tokens are the one in hand, its successor and that of a second request, and
sessions share nothing but requests and users. A throttle goes wrong with two requests in its window
and a third to be refused or let through; two throttles with different windows are asked one
after the other; the scopes of users and of `auth` run the same steps with one throttle, and the theorems cover them.
Proofs (section 4) lift the invariants to every size.
Readers and writers, creations and forms are interchangeable: the runs without liveness
use symmetry. `CHECK_DEADLOCK FALSE` is right where it stands: requests, sockets and runs are finite in number,
and a server with no request, an empty cache and no hotel is idle. `sessions` and `throttles` never stop.
A resend that overlaps a verification may store its code after `ClearCode`
(`users/views.py:214`), although `users/tests.py:79` says that verifying clears it: the model has that
behaviour, the leftover code opens nothing since the account is verified, and
`LeftoverHasCause` says that no other code is left: only that of a request that was past its lookup when
the address was verified, one that a failed deletion left, or that of a registration under another spelling.
What ends a leftover, or a stale page, is its TTL, which is `Expire` itself and so is no property.

**Fairness.** `RequestsAnswered` assumes that a thread in the middle of a request is
scheduled (weak fairness of its remaining steps; no request is ever owed a start). It is checked with two
threads and an administrator, so that the room is deleted between the check and the insert, the booking
deleted or edited between load and save, the total too large, or the channel layer failing.
`OpenSocketsHear` assumes that a cancel's last step runs and
that an open consumer reads its channel (one event loop, no blocking call in it), and says nothing
of sockets that close or lost something. `TaskEnds` assumes a worker that goes on and a
clock, so that `wait_for()` returns; no thread and no mail server is fair. `DisabledRunsOut` assumes that requests that
arrived go on, or are cut off, and that tokens expire and their ids are free again; nobody has to log in or out.
`BlockEnds` assumes the clock only, and that whoever asks is not owed an answer. Nothing else is fair: a client may never come back and
an administrator may never submit.

## 4. The proofs

Type correctness and every safety invariant the runs check are proved, for all eight detailed modules. Every theorem holds for all
constants that satisfy the ASSUMEs of its module: any finite number of requests and threads,
any days, prices and contents. The assumptions say what the database and the code say
(`Prices` positive, `HotelOf` and `Owner` total, keys distinct, sentinels not in the data).

- **Bookings.** `TypeInv` adds to `TypeOK` what each program counter guarantees about the
  locals (a cancel that will save holds a row, its target was created). The
  safety invariant is `SafetyInv = TypeInv /\ StoredRowsAreClean /\ RaceInv /\ CancelSticks`.
  `OverlapOnlyByRace` is not inductive: an insert must know of the rows its check did not
  see, so `RaceInv` adds that bookings seen were created (`SeenCreated`) and that an accepted
  check found no conflict among the bookings it saw, which stays true because inactive
  rows are revived by an admin form only (`LateCheck`).
  `OnlyAdminRevives` is an action property from the same invariant.
  `LockedChecksNeverDoubleBook` assumes `ChecksApart` of every state: two requests for overlapping
  stays are never both between check and insert. `ApartInv` then says that what a request
  saw to be free is still free when it inserts (`StillFree`): a row it could clash with
  was inserted by a request that was itself between check and insert.
  `LockedCancelsSucceedOnce` does the same for cancels with `CancelsApart`, and
  `LockedChecksImplementReservations` adds `AdminForms = {}`: each step maps to `Reserve`,
  `Release` of a set or a stutter, with any number of threads.
  `SerialServerNeverDoubleBooks`, `SerialServerCancelsOnce` and `SerialServerImplementsReservations` are
  their corollaries for `Workers = 1`: a request in flight is alone, so one thread keeps
  checks and cancels apart (`SerialIsApart`).
- **EmailVerification.** `Inv` adds `EldestOK`: an account exists only if the oldest one does,
  and a verify request works on the oldest one from its lookup on. `OnlyMailedCodesVerify` is
  not inductive: `AcceptedOK` adds that a request past the comparison holds a code that was
  dispatched, and dispatches are never taken back (a request that failed keeps its code), while the
  entry in Redis may be replaced or lapse meanwhile. `LeftoversExplained` has `LeftoverInv`: the stored code
  is that of a request that went past its store, and a request that may still store one for the verified account
  is in `outlasting`, since any other would have looked the address up after the verification.
- **Catalog.** `CacheInv` adds that a row being created has no page of its own and no row yet
  (`NewbornUnseen`), that a busy writer's key is allocated (`BusyAllocated`) and that one insert
  works on a row (`InsertAlone`). Then a change makes at most two pages stale, its own and its
  list (`ChangesTwoPages`), and the writer owes both drops, or has only the list to drop
  because the page cannot exist.
  `RoomsAreHoused` (a stored room has its hotel) assumes nothing more: `HotelJobs` says that a late save of a
  hotel stores a row, never none, and that the transactions that delete are on hotels, whose rooms go with them.
  `LockedWritesKeepCacheFresh` assumes `WritesAlone` of every state (a write meets no other request), and
  neither faults nor administrators; readers may overlap. `QuietInv` says that readers hold current
  pages (`HeldCurrent`), and that each stored page shows the tables, shows a
  room that went with its hotel, or is still to be dropped; a room's excuse lasts because the
  hotels that pages name are never newborn (`HotelsKnown`). `SerialCacheIsFresh` is its corollary for
  `Workers = 1`.
- **BookingNotifications.** `NotificationsKeepBookings` proves `NSpec => Spec`: every step of the
  composition is a step of `Bookings` or leaves its variables alone, so every theorem about
  `Bookings` holds of it. `NewsStaysTrue` uses that: `NewsInv` says that each message stems from
  a cancel that saved, for a booking of the viewer; `CancelSticks` then says that the booking
  is not active, however many stale copies are saved while the message waits.
  `NoCancellationIsLost` proves the half of `OpenSocketsHear` that needs no fairness
  (`NothingIsLost`): the step that sends reaches the inbox of every socket of the guest that has
  joined, or marks it deaf, and an inbox loses nothing but by delivery. Its invariant is
  `JoinedInGroup`: a socket past `Join` is in its group or deaf.
- **MailTasks.** `MailInv` (a user's mail is in one thread or out once, and only after it was handed
  over; who is left was not) gives `AtMostOneMail`; `ReportInv` adds what the answer of a
  thread says; `LoopInv` says that the guests of bookings due since the query are left or
  handed over.
- **Reviews.** `ReviewInv` adds what the constraint needs to hold through open transactions (rows they add are
  of pairs nobody else may insert) and what a poster past its checks may rely on. `ConstraintOnlyInRaces` follows from the same
  invariant: whoever finds the constraint in the way was overtaken since. `StaleListsExplained` has its own, `ListInv`, as in
  `Catalog`.
- **Sessions.** `TypeOK` and `Chains`: a session that was not forked has at most one token or request to carry
  it on, counted as a set with no two members, and one that is not over has one. Cardinalities
  enter in the last step only. `DisabledUsersGetNoMore` is the half of `DisabledRunsOut` that needs no
  fairness (`DisabledGetNoMore`): only requests let through before the user was disabled (`Granted`)
  still issue a token, one each, and nobody joins them.
- **Throttles.** `RateInv = TypeOK /\ Fresh /\ Placed /\ Short /\ Complete`: a list never has more than the rate (`Short`), and in a
  window without trouble it holds all that passed (`Complete`), whatever overlaps; a write over
  another's is trouble, and `Tick` ages both alike. `RefusalsAreEarned` adds `Counted`: what a list holds, and
  what a request is about to write back, was let through in the window, so a full list
  means a full window. `LockedListsHoldRate` assumes `NoOverlaps` of every state (two requests never hold
  one list between read and write) and a Redis that works: then there is no trouble ever
  (`Untroubled`).

**What the code would need.** `ChecksApart`, `CancelsApart`, `WritesAlone` and `NoOverlaps` are hypotheses about
behaviours and not about constants: they say what a lock would have to give, and the code takes none.
The theorems that assume them say that the window named by the unconditional theorem (`OverlapsAreRaces`,
`StalenessIsExplained`, `RateIsHeld`) is the only hole, and that closing it is enough, whatever else runs in parallel. They
are not empty: a server with one thread satisfies the first three, as `SerialIsApart` and
`SerialCacheIsFresh` prove, and so does any execution in which such requests happen not to overlap.

**Model-checked only**: the liveness properties (`RequestsAnswered`, `OpenSocketsHear`, `TaskEnds`, `DisabledRunsOut`, `BlockEnds`), which are out of the prover's reach. Of
`OpenSocketsHear` and `DisabledRunsOut` the safety half is proved.

## 5. Not modelled

The language preference middleware and endpoint (`apps/abstract/middleware.py`): one unconditional SET or one GET of one
Redis key per request, which nothing else reads. The last write wins and no state spans two
steps, so there is no interleaving to check; which key and which language is a function of
one request. Access tokens, which are stateless: a logged-out or disabled user's lasts its
30 minutes (disabled users are refused by the authentication class), and `token/verify/`.

The booking admin's add form and a change of a booking's user or room there; deleting users
in bulk, which goes past the soft deletion of `apps/abstract/models.py` and cascades (deleting one writes
`deleted_at`, which nothing reads); the seeding of users, hotels, rooms and bookings; text of messages, wording,
languages; permission classes (they decide who may call an operation, and callers here are
allowed ones, except for cancels, where it is the code's own check); hotels' embedded owner
data in the cache; list pages and filters one by one; within `Bookings` itself the channel layer, which
`BookingNotifications` adds; the HTTP helper of `async_io.py`, which nothing calls; the local development cache
(`LocMemCache`, whose pattern delete clears the whole cache, codes included: a loss of codes
is among the behaviours of `EmailVerification` as `Expire`). Parts with no interesting
state of their own: decorators, pagination, other settings, migrations. `README.md` of the repository
says production starts `gunicorn`; `scripts/start.sh` starts Daphne. Both serve requests in threads.

## 6. Plan

Done, in this order: `Reservations` and `Bookings` (the core), `EmailVerification`, `Catalog`,
`BookingNotifications`, `MailTasks`, `Reviews`, `Sessions`, `Throttles`, each with its proofs. What is left would be compositions:

1. `MailTasks` over `Bookings` itself, in place of `TablesChange`: as in `BookingNotifications`, with the proof
   that every step of the composition is a step of each part or leaves it alone.
2. `Reviews` over `Bookings` in the same way, in place of `ChangeBooking`.
3. `EmailVerification` with the code runs of `MailTasks`: which mail arrives last, and which code it holds.

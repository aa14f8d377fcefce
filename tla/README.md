# rest-menu in TLA+

A verification development kept beside the code of *rest-menu*, a Django
application with which a restaurant's guests order from a phone and its staff
work on the orders. TLA+ modules model the code, TLC checks them on small
instances, TLAPS proves nearly all of their safety properties for every value of the
constants.
Paths below are relative to the repository (`src/`).

    tlc -workers 2 -config WorkflowPages.cfg MCOrderWorkflow.tla
    tlapm OrderWorkflow_proofs.tla

## Inventory

The program is one PostgreSQL database, one Daphne process that runs synchronous
Django views in a thread pool, Redis for WebSocket groups, and browsers. There is
no job queue: all concurrency is between requests, between tabs, between staff,
and with the clock; all failure is a request that dies half-way.

| component | state | operations | interacts with |
|---|---|---|---|
| status machine (`apps/orders/states.py`) | none | `can_transition` | the services |
| transition services (`apps/orders/services.py`) | order row: status, version, timestamps, authors; status history | confirm, reject, cancel, start, ready, back, serve | row lock and version against each other; `_audit`, `_notify` after the commit |
| order creation (`services.py`, `numbering.py`) | order row, lines, history | `create_order`, `next_order_number` | unique columns against other creators; menu rows; `_notify` before the commit |
| cart and guest views (`cart.py`, `views.py`) | the session: lines, idempotency key, last order | cart page, add, update, remove, submit, status, chip | whole sessions saved at the end of each request |
| staff views (`apps/cashier`, `apps/kitchen`) | pages in browsers | boards, detail, seven buttons | post the version they were rendered with |
| admin site (`apps/orders/admin.py`) | change forms in browsers | open, save | writes order rows past the services |
| notifications (`apps/notifications`, `static/js/app.js`) | groups, sockets, timers | broadcast, push, poll | boards and chip refresh on an event or on a timer |
| menu (`apps/menu`) | items, groups, options | CRUD, `check_modifier_selection` | cart and creation read it |
| tables (`apps/tables`) | QR token, active flag | `table_menu`, rotate | binds a session to a table |
| rate limit (`views.py`) | a counter per address in a per-process cache | `_rate_limited` | guards submits |
| audit log (`apps/audit`) | append-only records | `record_action` | called by three services |
| accounts, restaurants, settings, images, demo data, backup scripts | configuration and files | login, health check, dump and restore | - |

What is hard here, and what makes each component correct:

* *Transitions.* Two people act on one order from pages of different age, over a
  lock and a version check. Correct when no update is lost, every history is a
  walk through the state machine, row and history agree, a user's button acts on
  the status the user saw, and closing is final. The manual form of the admin
  site takes no part in this protocol.
* *Follow-ups.* Audit and broadcast run after the commit and swallow exceptions.
  Correct when nothing is logged that did not happen, and nothing is missing
  without a fault.
* *Creation.* Look-up, count and INSERT are separate statements at READ COMMITTED.
  Correct when numbers and keys are unique, counting never gets stuck, an order
  is the whole cart, a cart is ordered once, and an answered order exists.
* *Sessions.* Requests work on copies, the last save wins.
* *Boards.* Events before the commit, lost events, overlapping fetches, several
  queries per page. Correct when a board in the end shows what is committed.
* *Choices and prices.* The selection check, the forms and two pieces of pricing code
  follow one set of rules, over rows that staff edit between any two statements. Correct
  when the check is the rule, the order costs what the cart showed, and nothing is
  refused that was let in, unless the menu changed.
* *The visit.* Session, pages and table rows tell of table and last order, each from its
  own time. Correct when an order goes to the table the page named, and a chip is on a
  page as long as it should be and no longer.
* *The brake.* A counter read and written in two calls, whose life each order renews.
* *Backups.* Commands that fail half-way, and a rotation that counts what they left.
  Correct when the last good dump stays, with its images.

The hazards are listed line by line in `PROJECT.json`, with the properties that
cover them.

## Modules

| module | models | role |
|---|---|---|
| `OrderStates` | `states.py` | statuses and the transition table |
| `OrderLifecycle` | the promise of the order component | abstract specification: a status and a trail per order |
| `OrderWorkflow` | `services.py` from `_transition` on, staff views and templates, `audit`, sending of events | the core |
| `OrderAdmin` | the change form of `OrderAdmin` | `OrderWorkflow` with a writer that ignores its protocol |
| `OrderCheckout` | `cart.py`, `views.py`, `create_order`, `numbering.py` | the way from cart to order |
| `Boards` | `selectors.py`, `notifications`, `static/js/app.js`, when `services.py` sends | pages that follow the orders live |
| `ModifierSelection` | `menu/services.py`, `menu/selectors.py`, `menu/models.py`, `_modifier_group.html` | the selection check, what forms offer, and the rule as a reference definition |
| `OrderLines` | `cart.py`, `create_order` line by line, `recalculate`, `menu/admin.py` | `ModifierSelection` in use: cart, prices, totals under menu edits |
| `GuestVisit` | `apps/tables`, both `_get_table`, `guest_menu`, `order_chip`, `status_chip_visible` | table binding and status chip |
| `RateLimit` | `_rate_limited` | the brake on orders |
| `Backups` | `compose/scripts/backup.sh` | dump, archive, rotation |
| `OrderWorkflow_proofs`, `OrderAdmin_proofs`, `OrderCheckout_proofs`, `Boards_proofs`, `OrderLines_proofs`, `GuestVisit_proofs`, `RateLimit_proofs`, `Backups_proofs` | - | theorems about the module they are named after |
| `MCOrderWorkflow`, `MCOrderAdmin`, `MCOrderCheckout`, `MCOrderLines`, `MCBoards`, `MCGuestVisit`, `MCRateLimit` | - | constants, symmetry and, in `MCGuestVisit`, a choice of behaviours for TLC; the constants of `Backups` are numbers |

### OrderWorkflow

`order[o]` is the committed row, `history[o]` its `OrderStatusHistory`,
`page[u][o]` what user `u` last saw of `o`, `req[r]` a POST in flight, `audit` and
`sent` what was logged and broadcast. A timestamp column holds the *version* its
transition made (0 for NULL): both are written under the row lock, so within an
order one stands for the other, and properties can ask which entry of the history
a timestamp belongs to.

A POST goes through `LockRow` (SELECT FOR UPDATE: waits for the holder), then one
of `Conflict` (version), `InvalidTransition` (state machine) or `Commit` (row and
history together), then `Audit` for three services, then `Notify`. Every arrow is
a step of its own, and other requests or a `Crash` may come between. A commit is
one step because other transactions see all of it or nothing. `Saved` is the row
`_transition` writes. `PressButton` posts what the page holds, with the buttons of
the templates; `PostBare` is a POST without `version`, for which both `_version`
functions answer `None`. Reading the order before the lock (`get_object_or_404`) is
left out: `_transition` uses nothing of it but the primary key.

`lost` is a ghost: follow-ups that a crash or a swallowed exception dropped.

`CreateOrder` is `create_order` as transitions see it: its one commit, and the
event (sent or failed) that in the code precedes it by a moment. `OrderCheckout`
has the steps inside.

### OrderAdmin

Django's change form of an order has `status`, `confirmed_by` and `cancelled_by`
among its editable fields. `SubmitForm` is the view's read of the row without a
lock, `SaveForm` the UPDATE of all columns, which waits for a row lock but not for
anyone's decision. `ChangesStatus` says whether administrators pick another status
themselves; without it the form only puts back what it was rendered with.
Crashes are left out (`NoFaultsAssumption`): a form that is lost changes nothing.
`edits` counts the forms posted, which is what bounds them.

### OrderCheckout

A request loads its session (`Begin`: `copy`), works, and saves the copy whole (`SaveSession`);
a 500 saves nothing. Cart lines and keys are uuid4 values, drawn from finite sets and never
twice. `order_create` runs `Lookup`, `Count`, `Insert` or `Refuse`, then per line `TakeLine`,
`LineUnavailable` or `LineGone`, then `Announce`, `Commit` or `CommitRefused`, and
`SaveSession`. Django declares foreign keys DEFERRABLE INITIALLY DEFERRED: a line of a
transaction under way does not keep its item from being deleted, and COMMIT fails when it was,
after the broadcast. `Insert` is enabled only when no uncommitted row holds the same unique
value (that is the wait in PostgreSQL's index); `Refuse` is the IntegrityError. `shown` says
whose tab has the submit button: it comes with the cart page, which also draws the key.
`LastOrderExpires` is the other writer of the session: `guest_menu`, and `order_chip` as polled
in the background (`ChipPolls`). Left out: quantities, modifiers and prices (`OrderLines`), the
rate limit (`RateLimit`; a submit it refuses changes nothing here), the table (`GuestVisit`),
and comments. The ghost `cart` of an order is the cart it was made from.

A day is what `timezone.localdate()` answers; a number is a pair of day and count.

### Boards

A page is named by its WebSocket group: the cashiers' board, the kitchen's display, or
the status page of one order. `Connect` joins the group and fetches nothing; every
message (`Receive`) and every beat of the timer (`Poll`) starts a fetch of its own,
`ReadColumn` is one query of the view's template, and `Replace` puts the answer on the
page, whichever answer comes first. There is no transaction around the queries of a
board, so orders move between them, and an order may be on an answer twice or not
at all. `Answers` is what a query may return: all orders of the column, or the latest
where the code slices (`[:25]`, `[:20]`).

On the server, `Announce` sends `order.created` inside `create_order`'s transaction and
`CommitOrder` (or `RollBack`) follows; `Transition` commits and its `Notify` follows, in
any order among requests. `Notify` may fail between two groups. Messages and answers
are lost at most `MaxFaults` times; losing is always remembered in the ghost `missed`,
and `displayed` remembers which present rows a page has had on it.

Left out: users who are not allowed on a group (their socket is closed at once), the
chip that removes itself (`GuestVisit`), sound, title and clocks, the content of cards beyond order,
status and version. How orders get from status to status is taken from the state
machine alone; `OrderWorkflow` shows that the services keep to it.

### ModifierSelection and OrderLines

The tree of groups (who is linked, nested, sourced from a category) is constant; what
staff switch and price is the record `menu`. A selection is a set of options and a set of
(group, item) pairs. `check_modifier_selection` is translated loop by loop: its dictionary
of counts is `CountIn`, its two branches are `CountUnder` and `ChildKept`. `SelectionValid`
says the same from the comments of the models alone: everything chosen is on the menu of
the item, and what is chosen in and under a group is a number that the group admits.
`CheckIsRule` compares them for every selection a form can post.

`TreeAssumption` is what the models' comments promise and only in part enforce: one level of
nesting, containers without options of their own, and no group linked both by itself and
under its container. Without it the code differs from the rule: a container's own choices
are not counted at all, and such a group's options are charged twice by the form.

In `OrderLines`, `page` is what the guest looks at (a form keeps the *offer* it was made with),
`cart` the session's lines, `req` is `create_order` between two of its statements: `GetItem`,
`ValidateModifiers`, `ReadOptions`, `ReadSources` per line, then `recalculate_totals` and `Commit`.
Each is a read of its own at READ COMMITTED, so `EditItem`, `EditOption`, `EditGroup` and
`EditLink` may come between. `unit_price` and `CartTotal` are the cart's way of pricing,
`recalculate` the order's. `Without` is `Cart.remove`, which pops a line by its id. A
validation error is `RefuseOrder`. An exception that nobody catches is `ServerError`, on a page
of its own (`FailedPage`): a deleted item is missing in the get, among the source items, or to
the foreign keys, which COMMIT looks at. An item of a committed order is not deleted (PROTECT),
one of an order in the making may be. A cart page has buttons for the lines that it `shown`; their
items may be gone when a button is pressed.
Amounts are integers: every factor has two decimals and quantities are whole, so
`quantize` rounds nothing.

### GuestVisit

`session` is table and last order, `tab[k]` the menu page in a tab with the chip and the
badge it was rendered with, `table[t]` a row. Every request is a chain of steps: it is sent or
loads a copy of the session, looks up its table (`FindTable`), does its work on the copy (`Bind`,
`Commit`, `Look`, `Forget`), has the whole copy saved by the middleware if it changed it (`Save`),
and answers with a redirect or changes the page (`Show`, `ChipGone`). Between any two of them
other requests go on, or it dies (`Fail`): after `Commit` and before `Save` there is an order
that the session does not know of. A tab has a page on the way and, besides it, a poll of its
chip; `order_chip` is a poll whose order has expired by the time it is looked up, `cart_request`
any request that saves the session for the cart's sake. `MenuTable` and `_get_table` are the
code's two functions of one name.

Ghosts: `newest` is the order of the submit that saved the session last, `bound` the table of
the scan that did. `missed` of a copy, and of the session when it is saved, tells whether a
submit or a scan was saved after the copy was loaded: that is the lost update of sessions that
are saved whole, and `ChipKept` and `ScanKept` say that nothing else takes away the order or the
table. `moved` says that a table was bound or edited since a page was made or its session
loaded, `since` when an order was closed. Times are ticks. An open order's steps before it is
closed are left out: the chip shows through all of them. A closed order is not opened again (see
`OrderAdmin`).

### RateLimit

`Count` is `cache.get`, `Let` is `cache.set`; `Tick` moves the clock. The ghost `passes` has
every request let through, when it began and whether another one overlapped it.

What the properties say is what the code gives. `WithinLimit` counts only requests that
nobody overlapped: overlapping ones read one count and write one, so that more than `LIMIT`
get through. `RefusedAfterRun` says how far the brake may err the other way: each order
restarts the minute, so orders that keep coming, less than a minute from one to the next,
end in a refusal however slow they are.

### Backups

The files in both directories by time of modification, the run's `step`, and images as data.
`Fail` is a failing command or a kill, at any step; `set -euo pipefail` ends the run there.
What was begun stays on the disk as an incomplete file. `rm` removes one file per step.

## Runs

| run | instance | shows |
|---|---|---|
| `WorkflowPages` | 1 order, 2 users (one of them in both roles), 2 POSTs, posts up to version 6, fairness | optimistic locking: `ActsOnWhatWasShown`, `ConflictIsReal`, `PagesArePast`; columns against history: `StampsMatchTrail`, `PreparationStartKept`; `EveryPostAnswered` |
| `WorkflowFaults` | 1 order, 1 user, 2 POSTs, versionless posts, faults, posts up to version 4 | `LegalTrail`, `RowMatchesTrail`, `LockHolderIsCurrent`, `ClosedIsFinal`, `FollowUpsAccounted`, and refinement of `OrderLifecycle` |
| `AdminEdits` | 1 order, 1 form save, any status picked | `EveryEntryAllowed`, `VersionWithinTrail` |
| `AdminStaleForm` | the same, status left alone | finding |
| `CheckoutOneTab` | 1 guest, 1 tab, 2 lines, 2 keys, faults, all menu edits, fairness | `WholeCart`, `LineOrderedOnce`, `AnsweredOrderExists`, `SubmitAnswered` |
| `CheckoutMidnight` | 2 guests, many tabs, 2 days, faults | `UniqueOrders`, `NextNumberFree`, `EveryOrderAnnounced` |
| `BoardsLive` | 1 page (of each kind), 2 orders, 2 fetches in flight, 2 commits, 1 failure, fairness | `PushedInTime`, `BoardsCatchUp` |
| `LinesAndTotals` | 2 items, 4 groups (a container with soft drinks and the items of a category, a sauce), 2 options, 2 lines, quantities to 2, 2 edits | `CheckIsRule`, `ChargedAsShown`, `OrderIsValid`, `OnlyWithdrawnMissing`, `RefusedForAReason`, `FailsOnlyOnDeletion` |
| `GuestVisit` | 1 tab (its page and its poll), 1 table, 1 renewed code, 2 orders, a window of 2 ticks in 3, fairness | `TableAsShown`, `ScanKept`, `ChipKept`, `ChipGoes` |
| `RateLimit` | 2 threads, limit 2, minute of 3 ticks, 6 ticks, 5 orders | `WithinLimit`, `RefusedAfterRun` |
| `Backups` | KEEP 2, 5 runs, 2 images | `RecoveryPoint`, `LastKept`, `ImagesKept` |
| `CheckoutChipPoll` | 1 guest, 1 tab, with polls | finding |

### Bounds

* Two POSTs in flight: conflicts are between two holders of one row; a third
  adds a waiter behind the same lock. The proofs hold for any number.
* `MaxVersion` bounds posting. A life with one return to preparation is new,
  confirmed, in preparation, ready, in preparation, ready, served: version 7, which
  `WorkflowPages` reaches. `WorkflowFaults` reaches version 5 and, with two posts
  in flight at the bound, beyond; that includes served, and cancelled at every stage.
* One order: no step reads another order. The proofs hold for any number.
* Two lines of two items: one to be taken and one to fail, or one cart and a change
  to it. Two keys: one drawn too many makes the second order. Two days: one midnight.
* `BoardsLive`: pages do not affect each other, so one, of each kind in turn. Two
  fetches are what it takes for one to overtake the other, two commits for two messages
  to change places. One order is ready, the other not placed yet or waiting for the
  kitchen, so that in two commits a second one becomes ready and, at a limit of 1,
  pushes the first out. Commits are bounded, so orders do stop moving, which is the
  premise of `BoardsCatchUp`.
* `LinesAndTotals`: one item of each kind there is (a dish with links, an item that is also
  a choice), one group of each kind; group and link rules are picked so that each limit
  (minimum, maximum 0, required with and without a minimum, an override, an inactive group
  that is required) is met and missed. Two edits: one before a check and one after it, or
  two that cancel out. Line ids are drawn twice, so a line is edited, or there are two lines.
* `GuestVisit`: a session is bound to the table or to none, which is all `TableAsShown` and
  `ScanKept` can tell apart. Two orders: an older one whose chip is polled, and the newest.
  A lost update takes two requests, and the page and the poll of one tab are two; a second
  tab adds pages that overlap, for which `ScanAlwaysKept` and `ChipAlwaysKept` are proved with
  any number. `MaxRequests` is the number of slots, so that it keeps no poll waiting, which
  `ChipGoes` depends on. In a behaviour of the run either the clock stands, and tables are
  scanned and edited, or they are left alone and time passes (`focus` of `MCGuestVisit`):
  both at once are too many states for liveness. `TableAsShown` and `ScanKept` do not depend
  on the clock; `ChipKept` depends on the table only as far as scans save the session too,
  and they do so in the first kind.
* `RateLimit`: two threads, since a third repeats what a second does to a count. The run
  ends when the clock or the orders run out, so deadlock is not checked. `Backups`
  likewise ends with its last run; 5 runs are KEEP + 3, so that two that fail come between
  good ones.
* The types of `OrderAdmin`, `OrderCheckout`, `Boards`, `GuestVisit`, `RateLimit` and `Backups`
  (`AdminTypeOK`, `TypeOK`) are proved, and not in a run's list.
* Requests, keys, guests and lines (with their items) are interchangeable in the
  runs that declare symmetry. The runs that check liveness declare none.

### Fairness

`OrderWorkflow`: a thread that can run does (weak fairness of each step of each
request), and strong fairness of `LockRow`: PostgreSQL queues the waiters of a row
lock, so one that finds the row free again and again gets it. `OrderCheckout`: weak
fairness of each request, strong fairness of `Insert`, as an aborted row wakes its
waiter. `Boards`: `setInterval` keeps firing (`Poll`), and some fetch of a page gets on
when there is one; a single fetch may hang for ever, a message need not arrive and a
socket need not connect. `GuestVisit`: the clock goes on, the timer of each page
fires, and of polls that are sent again and again not all fail (strong fairness of their steps).
Nobody is obliged to press a button, to open a page or to edit the menu.

### Findings

Statements of the repository's own that the code does not keep; each run checks just
that one, and TLC's trace shows the way.

1. `AdminStaleForm`: `states.py:25` "Any change not listed here is rejected." The
   admin form rejects nothing, and undoes a colleague's transition even when only
   another field was meant. Versions go back too, so one version number can name two
   statuses; `PagesArePast` holds for the services alone.
2. `CheckoutChipPoll`: `views.py:127` "Pridané do košíka." A poll of the status
   chip that ends after the add takes the line out again, with one tab open.
   `CheckoutOneTab` leaves the chip's polls out; with them, this is the first thing
   that goes wrong.

### Other divergences

Met while modelling, visible in the models, without a run of their own.

* `services.py:53` "a repeated submit with the same key returns the same order": one that
  races the first waits in the unique index (`Insert`) and is answered 500 (`Refuse`). No
  second order is made (`UniqueOrders`).
* `numbering.py:13` "serialises concurrent creators": of two guests who count the same
  number one is refused, with a 500.
* `README.md:117`, one key per filling of the cart: after a crash between commit and answer
  the guest changes the cart, submits under the old key, and is answered with the old
  order; the new lines are emptied away.
* `views.py:35` "a double submit of the same cart cannot create two orders": with two tabs
  each draws a key. `LineOrderedOnce` holds with `OneTab` and fails without.
* `menu/views.py:41` "the guest's most recent order (kept in the session)": a request that
  loaded the session before a submit saved, and saves after it, takes the order out again. It
  is being prepared, and no page shows its chip. `ChipKept` says that nothing else does this;
  the race is that of `CheckoutChipPoll`.
* `cart.py:215` "Return a list of unavailable item names blocking checkout": a line whose item
  was deleted is skipped before it is looked at. It is not shown, cannot be removed, and fails
  every submit (500) for as long as the session lives; `FailsOnlyOnDeletion` says that nothing
  else does.
* `menu/views.py:75` "pre-fills the current selections": the page that edits a line
  (`item_detail.html:29`) includes `_modifier_group.html` without the `group` that it
  requires, so it shows no option. Saving an edited line drops what was chosen, or is
  refused if a group is required (`PageOffer`, `OpenEdit`, `RefuseLine`).
* `cart.py:41`: the cart goes on charging options and items that have been switched off;
  the order is then refused. An option switched off between the check and the next
  statement is left out of the order without a word (`OnlyWithdrawnMissing`).
* `services.py:132`: an order whose item is deleted between its line and COMMIT is announced
  and then rolled back with a 500.
* `tables/views.py:33`: a scan is undone by a request that was under way, as `ScanKept` shows.
* `menu/services.py:90`: the check does not look whether a group is active, the form does: an
  inactive group that is required makes its dish impossible to order.
* `MANUAL_ADMIN.md`, "deaktivovaný stôl neprijíma objednávky": a guest already bound to the
  table goes on ordering; the order has no table. "akcia ... zneplatní staré QR": a
  session bound by the old code stays bound; `table_token` is written and never read. The
  admin form of a table writes back its whole row, and so may revive an old code.
* A refused scan leaves the session bound to the table before: a guest who moves to a table
  that is switched off orders for the old one, as the page's badge says.
* An order that the admin site reopens keeps its `served_at`; closed again, its chip is
  reckoned from the first time.
* `base.py:151` "orders per minute": see `RateLimit`. `start-web.sh` runs Daphne without
  `--proxy-headers`, so behind nginx all guests share one address and one counter.
* `backup.sh:2` "Keeps the last 14 DB dumps": those of the last 14 runs, truncated ones
  included. `restore.sh:9` warns that it overwrites the database; it feeds psql a plain dump,
  which does not empty anything, and psql goes on after errors.
* `OrderItemAdmin` leaves `quantity` editable, and no one recalculates `line_total`.

## Proofs

One module of proofs per component, for any sets of users, requests, orders, guests, tabs,
lines and options, any limits and windows, and with no part played by the bounds that TLC
needs. Each module starts from its inductive invariant; TLC has checked each of these on the
runs' instances before it was proved. What is assumed are the named assumptions on the
constants (a sentinel is no member of the set it marks, a limit is a positive number), and
what the list below says.

**`OrderWorkflow_proofs`**, with or without versionless posts and faults, from
`RoleAssumption` (the NULL user is no user).

* `TypeCorrect` is inductive by itself, one step per action. `SavedType` says that a
  service saves a row over a row.
* `LegalTrail`, that no update is lost, is not inductive. A commit appends
  (status read, target) to the history; that this continues the history needs the
  row read to be the committed one (`LockHolderIsCurrent`), the committed row to agree
  with the last entry (`RowMatchesTrail`), and, for the requests that hold a page's
  version, that the entry at a version never changes (`PagesArePast`). `IInv` is the
  conjunction of these with `TypeOK`.
* The two actions that change an order, `CreateOrder` and `Commit`, both *enter* a
  status (`Enters`). What entering does to row and history is proved once
  (`EntersHistory`, `EntersKeepsTrail`, `EntersKeepsPast`) and used by both.
* `UsersActOnWhatTheySaw`: at a commit with a version, the row locked is the committed
  row, so its status is that of the last entry; the version matched, so the last entry
  is the one the page showed. `ClosedOrdersStayClosed` and `ConflictsAreReal` follow
  likewise.
* `ImplementsLifecycle`: every step enters a status, which is a step of
  `OrderLifecycle`, or leaves row and history alone.
* `StampsAlwaysMatchTrail`: a timestamp and a signature are set where their status is
  entered and nowhere else; `Entered` and `LastEntry` of a history with one entry more are
  worked out once.
* `StartAlwaysKept` needs `~BarePosts`. A versionless "start" of an order that is ready goes
  through (states.py allows ready to in preparation) and stamps the start again. From pages,
  "start" comes from confirmed orders only, which were never started, and "back" from ready
  ones, which were (`FromPages`, `ConfirmedNotStarted`, `ReadyWasStarted`).
* `FollowUpsAlwaysAccounted`: what is due is the disjoint union of what is done, in hand and
  lost (`Balanced`). That a request's follow-up is not done twice needs that no two requests
  have the same one in hand, and that the row a request goes on with is that of the entry it
  made (`HandsRight`); the records then tell of that entry (`RecordsTrue`).

**`OrderAdmin_proofs`.** With forms in play `IInv` is lost: row and history need not agree
(the finding). `AdminInv` is what is left, and enough for `EntriesAlwaysAllowed` and
`VersionsAlwaysWithinTrail`: an order that exists has a history, and no row that somebody
has read and may write back is ahead of it (`OrdersStarted`, `ReadsWithinTrail`).

**`OrderCheckout_proofs`**, with faults, any tabs and menu changes, unless said otherwise.

* `OrdersAlwaysUnique` is inductive when uncommitted rows are counted in (`RowsUnique`):
  `Insert` waits for them.
* `NextNumberAlwaysFree`: a number is at most the count of its day when it was drawn, and
  counts only grow (`NumbersBehind`); it takes that there are finitely many orders, which
  `Typed` adds to the types.
* `OrdersAlwaysWhole`, `OrdersAlwaysAnnounced` and `AnsweredOrdersExist`: what a request has
  done by each of its phases (`CartsWhole`, `CommitsAnnounced`, `AnswersExist`).
* `LinesAlwaysOrderedOnce` is `OneTab /\ ~ChipPolls => ...`, the premise under which
  `CheckoutOneTab` checks `LineOrderedOnce`; `CheckoutChipPoll` and the double draw of keys
  in two tabs show why. `LinesInv`: every line has one guest (`LinesOwned`), a request that
  changes the cart is its guest's only one (`TabsInOrder`), a submit under way has the cart
  and the key of the session, or the cart has been ordered and is gone (`SubmitsCurrent`), and
  carts that share a line, in a session, a request or an order, have one key (`KeysAgree`).

**`Boards_proofs`**, for finitely many orders (`OrdersAssumption`).
`StepsAlwaysPushedInTime` needs that a notice still current carries the event of the row as
it is, or it would not go to the groups that wait for it (`NoticesRight`); and that a fetch is
one of the columns of its page, none of them limited where it shows what is awaited
(`FetchesRight`).

**`OrderLines_proofs`.** `ReadsCurrent` is the heart: if nobody has edited the menu since the
checkout began, what each statement has read, of the lines done and of the one in progress,
is what it would read now. With the total on the page (`PageRight`, `ShownCurrent`) it gives
`AlwaysChargedAsShown`: page and order sum up one function. `OptionsKept` follows an option
from the check to its row, `CartFresh` says that what got in since the last edit passes
`Cart.add`'s checks, for `AlwaysOnlyWithdrawnMissing` and `AlwaysRefusedForAReason`.
`AlwaysOrderIsPriced` drops the page: each line costs what the cart would charge now.
`AlwaysFailsOnlyOnDeletion` takes that what is deleted stays so, and that a page that tells of a
failure goes before the cart changes again.

* Sums. Amounts and the count of a container are `SumFunction`s, which the community modules
  define by recursion over sets. Strict subsets of a finite set are well founded, so a set of
  subsets that is not empty has a least one (`LeastSubset`): what a sum is not, is refuted at a
  least domain where it fails. So a sum of integers is an integer (`SumType`), and the sum of
  the sizes of disjoint sets is the size of their union (`SumOfSizes`); the recursion
  has a solution at all by a least level without one (`SumExists`).
* `AlwaysCheckIsRule` follows from `CheckIsTheRule`, for every menu, item and selection: what
  the code adds up over subgroups is what is chosen under the container (`CountUnderIs`), and
  the limits that a link or a group sets are the code's comparisons (`AdmittedByLink`,
  `AdmittedByGroup`). It takes `TreeAssumption`, and that tables are finite
  (`TablesAssumption`). `AlwaysOrderIsValid` adds what `ReadsCurrent` says of a checked line.
* `TypeCorrect`: prices and totals are integers; the ids of a cart grow, as each is drawn above
  those before it (`IdsDrawn`) and `Cart.remove` keeps their order (`WithoutKeeps`).

**`GuestVisit_proofs`**, for any tabs and requests on the way. A badge that nothing happened to
since it was made is right, on the page, in a page on its way and in a submit (`PageRight`,
`ShownRight`), which is what `TableAlwaysAsShown` needs. `ChipAlwaysKept` and `ScanAlwaysKept`
say of the session what has to hold of every copy: one that has not missed a submit has the
newest order as last while its chip's time lasts, and one that has not missed a scan has its
table (`SessionRight`). A poll that was sent for an expired order finds it expired for ever
(`Expired`), so what it forgets is not due.

**`RateLimit_proofs`.** `AlwaysRefusedAfterRun`: every count, in the cache or read, is of a run
of passes (`CountsAreRuns`). `AlwaysWithinLimit` needs that the counter never falls below the
number of requests that got through alone in an open window (`CountsEnough`), although
overlapping ones write over it: those began after the last of the others, so what they
read was counted with it.

**`Backups_proofs`**, for any `KEEP` and runs that fail anywhere. Files are dropped by their
place in a directory and kept by their age. That files are spaced by age (`Spaced`) and that
the dump d files before the last is d runs older (`TailKept`) relates the two without an
induction over a directory.

Only model-checked is liveness (`EveryPostAnswered`, `SubmitAnswered`, `BoardsCatchUp`,
`ChipGoes`): it rests on fairness, which is beyond the prover. Every invariant and every action
property of a passing run is a theorem.

## Plan

Order of work, most important first.

1. `OrderStates`, `OrderLifecycle`, `OrderWorkflow` with proofs; `OrderAdmin`;
   `OrderCheckout`. Done.
2. `Boards`. Done.
   `PushedInTime` leaves new orders out: `order.created` may be answered before the
   commit, and a cashier hears the chime up to one poll before the order appears.
3. `ModifierSelection` and `OrderLines`, `GuestVisit`, `RateLimit`, `Backups`. Done.
4. Proofs of every safety property the prover can reach. Done.
5. Left: what `LineOrderedOnce` keeps of its promise with several tabs (an order per key and
   tab).

## Not modelled

Login and password handling (Django's), images, QR drawing, PDF,
demo data, translation, settings, deployment files and `restore.sh`: configuration and pure I/O
without state of their own. `recalculate_order`, `assert_editable`,
`broadcast_menu_availability` and `is_available_now` have no caller.

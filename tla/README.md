# A formal model of go-ecommerce-app

This directory holds TLA+ modules that model the shop in `src/`: the order path
from cart to payment mail, the accounts with their sessions and roles, the
address book, the catalog with its administration and its public listing, the
migrations and the seed, and the start and stop of the API process. TLC
configurations check them on small instances, and TLAPS proves the properties
that matter most for every instance.
Paths are relative to the repository.

## The system

Two processes share one Postgres database and one SQS queue:

- **the API** (`main.go`, `internal/api`): a fiber server, which runs the
  migrations when it starts. Every request runs
  in a goroutine of its own. Services call repositories, and every repository
  call is a SQL statement, or one transaction, that commits by itself. No
  service holds a transaction or a lock from one call to the next.
- **the worker** (`cmd/worker`, `internal/worker`): a loop that long-polls the
  queue, handles a batch one message after the other, and deletes a message
  after its handler succeeded. Nothing prevents several of them.

Outside are payOS (payment links, webhooks), SQS, the mail and SMS services,
and S3.

### Inventory

| Component | State | Operations | Hard behaviour | What makes it correct |
|---|---|---|---|---|
| cart (`cartService`, `cartRepository`) | `carts`, `cart_items` | GetCart, AddToCart, RemoveFromCart | two tabs of one user: read-modify-write of a quantity over three statements, ClearCart by cart | nobody is billed for more than was added; nothing vanishes without having been ordered |
| order placement (`orderService.PlaceOrder`) | `orders`, `order_items` | PlaceOrder, GetOrders, GetOrder | insert, clear and publish are three steps, and two of them may fail quietly | an order is announced at most once; a cart row is ordered once |
| payment (`orderService`, `orderHandler`, `pkg/payment`) | `orders.payment_status`, `payment_intent_id`; the links are payOS's | CreatePaymentLink, HandlePayOSWebhook | concurrent and repeated webhooks, lost answers, several links per order | paid only for a transfer of the order's amount; a transfer ends in a paid order |
| queue (`pkg/queue`) | the SQS queue and its dead-letter queue | PublishOrderEvent, ReceiveMessages, DeleteMessage | at-least-once, unordered, stale receipts | every message ends deleted or dead-lettered |
| worker (`internal/worker`) | `orders.order_status`, the batch in memory | Run, processOnce, handleOrderPlaced, handleOrderPaid | duplicates, crashes between effects, shutdown, two workers at one message | confirmed only if paid; a deletion means the work is done; one mail |
| catalog (`productService`, `productRepository`, `pkg/storage`) | `products`, `categories`, `product_images`, the S3 bucket | create, update, archive, upload an image, list | ownership and position are read statements (and an upload) before they are used; pages are counted and read apart; page size and page number come from outside | only the owner edits; an image shows its product; no edit is lost to a cart; a visitor who turns all pages sees every product once |
| sessions (`userService`, `auth`) | `users`, `refresh_tokens` | SignUp, Login, Refresh, Logout, LogoutAll | rotation of a refresh token over three statements | a token buys one pair, and a session has one live token, but for a race; what was ended stays ended |
| verification and seller role (`userService`) | `users.code`, `expiry`, `verified`, `user_type` | GetVerificationCode, Verify, BecomeSeller | sending, saving and checking a code are three steps that fail one by one | a seller is verified, and verified by a code that was sent |
| addresses (`userService`, `addressRepository`) | `addresses` | add, update, delete, list | unset-then-set of the default over two statements | at most one default address |
| migrator (`internal/database`) | `schema_migrations`, the schema | Up, Down, Status | two migrators at start; an Up across a Down; a failure half way | the record matches the tables; no gaps |
| seed (`internal/database`, `cmd/seed`) | rows of `categories`, `users`, `products` | Seed | SELECT and INSERT are two statements, products have no unique key; it is run again after a failure | complete when it ends well; nothing twice |
| API process (`main.go`, `internal/api/server.go`, `configs`) | the environment, the socket, the optional clients | start, serve, drain, exit | the socket is opened by a goroutine of its own; a second signal; requests that outlast the timeout | a stop leaves no request unanswered, and ends; optional services are optional |
| mail, SMS, payOS clients, routing, rate limiter | none of the shop's that outlives a call | | | |

How they meet: `orders` is written by the API (placed, link, paid) and by the
worker (confirmed); the queue carries ORDER_PLACED and ORDER_PAID from the API
to the worker; payOS calls the webhook; the worker reads the customer's row and
sends mail; sellers change the products that carts hold and the listing shows;
an API process migrates before it serves. The hazards of this code are listed line by line in `PROJECT.json`.

## The modules

| Module | Models | Code |
|---|---|---|
| `Money` | the sum of an order and its two roundings | `orderService.go`: `PlaceOrder`, `CreatePaymentLink`, `HandlePayOSWebhook` |
| `Faults` | which outside calls may fail, and how often | external |
| `Orders` | the orders table, one operator per UPDATE | `domain/Order.go`, `orderRepository.go`, `worker/store.go` |
| `Sqs` | the queue with receipts, visibility timeouts and a dead-letter queue | `pkg/queue/sqs.go`; SQS itself is external |
| `Catalog` | the products as far as a cart sees them, an edit being one step | `productService.go`, `productRepository.go` |
| `Checkout` | AddToCart, RemoveFromCart, PlaceOrder | `cartService.go`, `cartRepository.go`, `orderService.go` |
| `Payment` | CreatePaymentLink, HandlePayOSWebhook; payOS as external actions | `orderService.go`, `orderHandler.go` |
| `Worker` | Run, processOnce, the handlers, the process | `internal/worker` |
| `OrderSystem` | composes Checkout, Payment, Worker; the fairness | |
| `OrderLifecycle` | the abstract specification of an order | |
| `AtomicCheckout` | the abstract specification of a cart: put in, add to, take out, buy, in one step each | |
| `OrderRefinement` | the refinement mappings from OrderSystem to both | |
| `Accounts` | the users table and the account requests | `domain/User.go`, `userService.go` |
| `Sessions` | SignUp, Login, Refresh, Logout, LogoutAll | `userService.go`, `userRepository.go`, `refreshTokenRepository.go` |
| `Membership` | GetVerificationCode, Verify, BecomeSeller; composes them with Sessions | `userService.go`, `pkg/notification` |
| `Addresses` | AddAddress, UpdateAddress, DeleteAddress | `userService.go`, `addressRepository.go` |
| `ProductAdmin` | CreateCategory, CreateProduct, UpdateProduct, DeleteProduct, UploadProductImage, statement by statement; shown to refine `Catalog` | `productService.go`, `productRepository.go`, `sellerHandler.go`, `pkg/storage/s3.go` |
| `Listing` | GET /products and a visitor who turns the pages while the table changes | `productRepository.go`, `productHandler.go`, `response.go` |
| `Migrator` | Up, Down, and the transaction of each version | `migrator.go` and `migrations/` in `internal/database` |
| `Seed` | the seed command, next to others and to the API | `seed.go`, `cmd/seed/main.go` |
| `Server` | the API process from its start to its exit code | `server.go`, `appConfig.go`, `main.go` |
| `OrderInvariants`, `AccountInvariants` | the inductive invariants | |
| `TypingProofs`, `SafetyProofs` | the theorems about OrderSystem and the sum of `Money` | |
| `AccountProofs` | the theorems about Membership and Addresses | |
| `ProductProofs`, `ListingProofs`, `MigratorProofs`, `SeedProofs`, `ServerProofs` | the theorems about ProductAdmin, Listing, Migrator, Seed and Server | |
| `MCOrderSystem`, `MCAccounts`, `MCCatalog`, `MCDatabase`, `MCProcesses` | constants for TLC, and which components a run explores side by side | |

What is composed: `OrderSystem` is Checkout, Payment and Worker over one orders
table, one queue and one catalog; `Membership` is Sessions and the verification
over one users table. `ProductAdmin` is the detailed form of the `Catalog` that
`OrderSystem` uses.

What is not: the order path reads a customer's mail address, which no request
changes, and what a token says decides only which routes answer; nothing else
reads an address; a shop that serves has its tables (a Down under a running shop
is not modelled), and where the API inserts a row that the seed looks for,
`Seed` has that insert. A behaviour of two such components is a behaviour of each, shuffled, so
that a property of one holds in the composition exactly if it holds of the
component alone. `MCAccounts`, `MCCatalog`, `MCDatabase` and `MCProcesses`
therefore hold two components each, and a variable `part`, fixed at the start,
says which of them moves: the states add up instead of multiplying.

### From code to actions

Requests are records with a program counter (`req`, `pay`, `hook`), and every
call a request makes to the database, the queue or payOS is one action. The
local variables it carries from one call to the next are fields of the record:
`had` is the quantity `AddToCart` read before the UPDATE writes `had + qty`,
`lines` are the cart rows `PlaceOrder` holds while another tab may be writing.
Code between two calls is folded into the action before it.

- **AddToCart** is `BeginAdd` (product, quantity, stock), `FindCart`, `MakeCart`
  (`FirstOrCreate` is a SELECT and an INSERT), `FindItem` (any error counts as
  "no row"), then `InsertItem` or `UpdateItem`.
- **PlaceOrder** is `ReadCart`, `PlaceCreate` (order and items, one
  transaction), `PlaceClear` (failure logged), `PlacePublish` (failure logged,
  skipped without a queue).
- **CreatePaymentLink** is `RequestLink` (owner, not paid), `CallPayOS`, and
  `SaveLink`. **HandlePayOSWebhook** is `HookLoad` (unknown order or
  wrong amount: 200), `HookCredit`, `HookPublish` and `HookAnswer`. There is no
  look at whether the order is paid already: a repeated webhook credits and
  publishes again.
- **The worker** is `Receive`, `EmptyReceive`, `ReceiveFails`, `BackoffEnds`,
  `Pick` (NIL body, malformed body, unknown type), `Load`, `Confirm`, `Mail`,
  `Delete`, `BatchDone`, `Stop`, `Signal`, `Crash`, `Start`.
- **SQS** hides what it hands out, ends visibility timeouts at any moment
  (`VisibilityTimeout`), accepts deletes with a receipt that is not stale, and
  redrives after `MaxReceive` deliveries (`Redrive`).
- **Account requests** are records `call[c]`. **Refresh** is `Refresh` (find the
  row; a revoked one leads to `EndAll`, which ends all sessions of the user),
  `Revoke`, `LoadUser`, `Issue`: rotation is three statements with nothing
  around them. `Logout` is one step, since a row, once found, never goes away.
  **GetVerificationCode** is `SendSMS`, `SendMail` if that failed, `SaveCode`.
  **BecomeSeller** is `Promote` and `Issue`. Time is `Expire` and `CodeLapses`,
  possible at any moment.
- **Address requests** are `UnsetDefault`, whose error nobody looks at, and
  `Save`.
- **UpdateProduct** is `AskUpdate` (product, owner) and `WriteUpdate` (the given
  columns; `Decoded` is what the body parser makes of a missing number).
  **DeleteProduct** is `AskDelete` and `Archive`. **UploadProductImage** is
  `AskUpload` (owner; the images are counted here), `Store` (PutObject, under a
  key of product and file name) and `InsertImage` (at the position counted).
- **GET /products** is `Count` and `Find`, two statements. `FirstPage`, `Limit`,
  `Offset` and `Slice` are the repository's, `MetaLimit` and `Pages` the
  handler's; `Offset` wraps around like a Go int. The table is a sequence: a new
  row goes to its end or into the place of a rewritten one, and an update writes
  a row anew, as Postgres does, which without an ORDER BY is what a page shows.
- **The seed** is `Find` and `Insert` for each row, the two halves of
  `FirstOrCreate`.
- **The API process** is `StartServer`, `SetupEnv`, `Connect`, `Up`, `Notify`, then
  `Shutdown`, `Drain` or `DrainTimeout`, `Exit`; next to it the goroutine that
  listens (`Listen`), the requests (`Accept`, `Respond`), `SignalServer` and `Kill`.
- **The migrator** is `Ensure`, `ReadApplied`, and for each version
  `NextVersion`, `Exec`, `Record`, `Commit`. What a transaction does is seen at
  its commit; until then it holds the tables its script touches and refers to.

A write that "fails" may have happened: `Fault("dbwrite")` comes with both
outcomes. The same holds for publish, delete and mail. A `receive` that fails
may already have hidden messages. A request that ends in an error and changes
nothing is left out where leaving it out cannot be observed.

Abstractions: amounts are natural numbers of thousandths (the code holds
float64 and rounds, first to cents and then to whole dong; the model keeps the
two roundings and leaves out the float error); names, addresses, signatures and
JSON are left out, apart from the kinds of body the worker tells apart. The
number of pages, a `math.Ceil` of a float64 in the code, is an exact ceiling
here; the two differ beyond 2^53 rows only. `Receive` is not taken once a signal
was caught, though a long poll under way is not cancelled by it
(`consumer.go:63`): whether the signal comes just before or just after the poll
returns makes no difference to what the worker does with the batch. A
webhook whose signature does not verify is answered 400 and changes nothing, so
that it is no step of the model.

## The runs

Every bound is a CONSTANT. `MaxFaults` counts failures of all kinds together;
the processes, orders, messages and links are the smallest numbers at which the
property can be broken by a plausible bug, and each property has a mutant of
the code, in `PROJECT.json`, that breaks it under the same bounds.

| Run | Question | Bounds and why they are enough |
|---|---|---|
| `checkout_shared` | `TypeOK`, `BilledForAdded`, `LostOnlyIfLate` | one user on two tabs, quantities -1 and 2, one failure (SELECT, write or crash), a product that gets archived; two orders and two rows are what a second tab can interfere with |
| `checkout_apart` | `OrdersAtomically`, `OneRowPerProduct`, `PlacedEventOnce` | two users on one tab each, quantities -1 and 2, price changes and failing publishes; two rows and two orders, so that a row can be ordered again. `OrdersAtomically` and `OneRowPerProduct` hold only without concurrent requests of one user and without failing database calls: with them the code does order a row twice |
| `payment` | `PaidOnlyIfSettled`, `PaidAmountCoversItems`, `AckedMeansPaid`, `AckedMeansTold`, `SettledGetsPaid` | under fairness; two links for one order, two webhooks at once, three failures (writes, lost answers, crashes, payOS), transfers that are one dong off; three messages, for the announcement and an event that is published twice. No SELECT fails here: with one, `AckedMeansPaid` is false (`lost_webhook`). No publish fails either: it would be answered 200 all the same. The price of 10.495 is one that both roundings take up |
| `fulfil` | `PaidBeforeConfirmed`, `OncePerWorker`, `DeletedMeansDone`, `Implements` | the whole path with two workers (interchangeable, hence the symmetry), one failure of any of ten kinds, three messages received up to twice: enough for a duplicate, a redelivery and a stale receipt. Deadlock is checked |
| `processes` | `PaidGetsConfirmed`, `QueueDrains`, `ShutdownEnds`; `StopsWithNothingInHand`, `SignalEnds`, `StartsWithoutOptional` | under fairness. Worker: one failure of any of seven kinds (`OrderFaults`), a customer whose address the mail client refuses, so that every mail fails for ever; a foreign body, a crash and a signal count as failures. API process: three connections, two required and two optional variables in every combination, four failures, signals or kills, which is two processes that each fail twice. Deadlock is checked |
| `accounts` | `OneLiveUnlessRaced`, `SpentOnceUnlessRaced`, `EndedUnlessOvertaken`, `RolesAreEarned`; `OneDefaultUnlessContested`, `ChosenStands`, `OwnersOnly` | two requests at once (interchangeable), two failures of any kind. Sessions: one person, since a statement touches the rows of one; three tokens are a parent and the two that a race makes of it, or a session refreshed twice; one code suffices for a code that is saved but was not sent. Addresses: two people (interchangeable), three addresses: two to dispute the default and one more to heal it |
| `catalog` | `SellersOwn`, `CartsSeeEdits`, `ImagesShowTheirProduct`, `PositionsInOrderUnlessRaced`; `WalkShowsEachOnce`, `PastTheEndIsEmpty` | two sellers, two requests at once (both interchangeable), two products, two uploads of two files, one failure of any kind: enough for an upload that overtakes another, replaces its file, or loses its row; all four are proved for all bounds. Listing: tables of 0, 1, 20, 21 and 31 products around the default page size, the limits 0, 15 and 101 (none, accepted, out of bounds), two writes during a walk, ints of 12 bits so that offsets wrap within reach |
| `database` | `RecordMatchesSchema`, `UpMeansComplete`, `NoGapUnlessCrossed`, `FailsOnlyDisturbed`; `DoneMeansComplete`, `SeededOnceUnlessRaced` | Migrations: two runners (interchangeable), each starting Up or Down again and again, over the ten migrations of the repository with the foreign keys they declare; Down of all versions and of two; two failures. Seed: two commands (interchangeable), two rows with a unique key and two without, two failures, and up to two rows of a key from the API. Deadlock is checked |

What the properties say:

- `BilledForAdded`: whatever two tabs of a user do to a cart at once, an order
  has lines of that user's rows only, and bills no more than was added.
- `LostOnlyIfLate`: what ClearCart deletes was ordered in the quantity it had,
  unless another tab wrote it between PlaceOrder's read and its clear. The
  exception is real, and is the narrowest one that holds.
- `PaidOnlyIfSettled`: a paid order has had its bill transferred, on one of its
  own links. `PaidAmountCoversItems`: the amount transferred is within 0.505
  dong of the exact sum of the lines (the two roundings together).
- `AckedMeansPaid`: payOS stops calling after a 2xx, so a 2xx for a transfer of
  the right amount may be given only for an order that is paid.
  `AckedMeansTold`: and only after ORDER_PAID was sent. The API may die between
  the write of paid and the publish; then payOS has no 2xx and calls again, and
  it matters that the repeated webhook does not stop at an order that is paid
  already. A publish that fails is another matter: it is logged, answered 200
  and never repeated (`orderService.go:178`), which
  `docs/learning/sqs-explained.md:113` accepts. The property is for behaviours
  without.
- `SettledGetsPaid`: a customer who transferred the right amount ends up with a
  paid order, through payOS's retries.
- `PaidBeforeConfirmed`, `DeletedMeansDone`, `OncePerWorker`: what the workers
  may do with redelivered, duplicated and reordered messages. One worker mails
  a payment once; two together may do it twice.
- `Implements`: the composed system implements `OrderLifecycle`: placed with a
  bill that never changes, settled, paid, confirmed, told, in this order and
  never back.
- `OrdersAtomically`: to users with one tab each the composed system implements
  `AtomicCheckout`, in which a cart changes in single steps and buying moves all
  of it, as it is, into the order. The code takes up to four statements for an
  AddToCart and three for a PlaceOrder, with other users, sellers and workers
  between any two. The mapping counts a row as bought from the INSERT of the
  order on, though the table keeps it until ClearCart. That no row is ordered
  twice (`RowOrderedOnce`), that no quantity is lost and that no line is left
  behind follow from it.
- `SpentOnceUnlessRaced`: a refresh token was replaced once, unless two
  refreshes found it live before either revoked it; the history variable `raced`
  is set exactly then. The code cannot tell the two apart.
  `OneLiveUnlessRaced`: of all the tokens a login has led to (the history field
  `session` names them), at most one is not revoked, whichever statement of
  Refresh fails, unless two refreshes raced for one of them. After such a race
  the session goes on twice, with two live tokens.
- `EndedUnlessOvertaken`: after Logout, LogoutAll or the detection of a reuse no
  pair is issued for a token they ended, except by a refresh that had found it
  live before: nothing stops a request that is under way.
- `RolesAreEarned`: a pair that says "seller" belongs to a verified seller, and
  verification took a code that was sent to that person.
- `OneDefaultUnlessContested`: a user has one default address at most, until a
  default is written by a request whose clearing failed or was overtaken, and
  again after the next undisturbed request that sets one.
- `RecordMatchesSchema`: `schema_migrations` lists a version exactly if its
  tables exist. `UpMeansComplete`: an Up that ended well has applied everything,
  unless a Down came after it read. `NoGapUnlessCrossed`: the versions applied
  are the first few, unless an Up and a Down committed across each other, which
  nothing prevents. `FailsOnlyDisturbed`: a runner that no failure and no other
  runner disturbed does not fail: every script works in the order it is run.

- `ChosenStands`: a default address stays until its row is deleted or demoted,
  or a request that cleared it fails to write the next one.
- `SellersOwn`: ownership is compared before a statement that names the product
  by its id only; still a product changes only by a request of its seller, and
  keeps seller and category. `CartsSeeEdits`: the requests, statement by
  statement and interleaved, are steps of `Catalog`, the specification that
  carts are checked against: no request writes back a column it only read.
- `ImagesShowTheirProduct`: the URL of an image leads to a stored file that was
  uploaded for the same product under the same name, though the object is
  stored before the row and a later upload may replace it.
  `PositionsInOrderUnlessRaced`: positions are 0, 1, 2 and so on, unless a row
  was inserted at a position counted before another row.
- `WalkShowsEachOnce`: whoever turns the pages, with a limit the repository
  accepts, sees every product that was listed at the start, and none twice,
  unless a row was written in the middle of the table.
  `PastTheEndIsEmpty`: up to the page whose offset exceeds an int.
- `DoneMeansComplete`, `SeededOnceUnlessRaced`: a seed that ends well after any
  failures before it leaves every row, and seeds nothing twice, unless two of
  them miss a row at the same time.
- `StopsWithNothingInHand`: a process that stops on a signal has answered what
  it accepted, also when signals come again; the one exception is a signal that
  comes before the goroutine listens. `SignalEnds`: it does stop, though a
  request may never be answered. `StartsWithoutOptional`: a process with the
  required variables gets to serve, whatever else is missing.

### Four disagreements between code and documents

- `lost_webhook` violates `AckedMeansPaid`: one failing SELECT in
  `HandlePayOSWebhook` is taken for an unknown order and answered 200
  (`orderService.go:158`). payOS does not call again.
- `mail_lost` violates `DeletedMeansMailed`: a mail that fails after the order
  was confirmed is never sent, because the retry stops at the idempotency guard
  and the message is deleted (`handlers.go:74`), while
  `docs/learning/sqs-explained.md:404` says that a message disappears only
  once the work is done.
- `stock_wiped` violates `StockKeptUnlessGiven`: an update without a stock
  decodes to a stock of zero, which `productService.go:89` takes for a stock
  like any other, while `sellerHandler.go:73` speaks of the updated fields and
  the other fields behave so.
- `page_size` violates `PagesHoldLimit`: a limit above 100 is replaced by 20 in
  `productRepository.go:75`, and the handler reports, and divides by, the limit
  it was asked for, which `productHandler.go:25` calls the results per page.

Two more are races that the checked properties name as their exceptions. Two
workers that hold the same ORDER_PAID can both mail (`handlers.go:64`), which
`docs/learning/sqs-explained.md:542` rules out: `OncePerWorker` speaks of one
worker. Two requests that both clear the default address before either writes
leave two (`userService.go:286`), although `addressRepository.go:63` speaks of a
single default: `OneDefaultUnlessContested`.

### Fairness

`FairSpec` adds weak fairness of four kinds and nothing else:

- a worker's own steps (`Progress`): `Run` is a loop whose every branch
  returns. A worker that stopped is started again at some time, which is up to
  whoever operates it (`docs/learning/sqs-explained.md:68` counts on it; the
  repository's compose file runs the database only);
- every step of a webhook request: a goroutine that runs to its end;
- payOS's next call for a link that has no 2xx yet: the retries `orderService.go:170`
  relies on;
- SQS's visibility timeouts and redrives.

`Server` has weak fairness of the main goroutine, of the goroutine that listens
and of the timer of the shutdown: Go runs a goroutine that is not blocked. It
does not assume that a request is answered, as no handler has a timeout, nor
that anybody starts a process.

Nothing makes a customer shop, ask for a link or pay. Failures stop after
`MaxFaults`, which liveness needs. Publishing ORDER_PAID is logged when it
fails and never repeated, so that "a paid order gets confirmed" is false of this
code when a publish can fail; `PaidGetsConfirmed` is about a message that was
stored.

## The proofs

`tlapm` checks them for all values of the constants, from the assumptions
`FaultsAssumption`, `OrdersAssumption`, `SqsAssumption`, `CatalogAssumption`,
`CheckoutAssumption`, `PaymentAssumption` and `WorkerAssumption`. These ask
for natural numbers as bounds and types of the parameters. Unless the table
says otherwise nothing is asked of the faults: every kind of failure is allowed,
in any number up to `MaxFaults`, and users may have any number of tabs.

| Theorem | Statement |
|---|---|
| `Typing` | `Spec => []Typed` |
| `TypeCorrect` | `Spec => []TypeOK` |
| `NothingErased` | no step removes an order or rewrites a message |
| `PaidFirst` | `Spec => []PaidBeforeConfirmed` |
| `SettledFirst` | `Spec => []PaidOnlyIfSettled` |
| `OneMailPerWorker` | `Spec => []OncePerWorker` |
| `NothingDeletedUndone` | `Spec => []DeletedMeansDone` |
| `AckedPaid` | `Spec => []AckedMeansPaid`, if no SELECT fails |
| `AckedTold` | `Spec => []AckedMeansTold`, with a queue and if no SELECT and no publish fails |
| `MailedOnlyIfSettled` | whoever is mailed "payment received" has transferred the order's amount on one of its links |
| `SumOfLinesIsSum` | `SumOfLines(S) = LinePrice(x) + SumOfLines(S \ {x})` for each line `x` of a cart `S` |
| `TotalIsSum` | `Spec => []BilledTotal` |
| `PaidAmount` | `Spec => []PaidAmountCoversItems` |
| `LifecycleImplemented` | `Spec => Implements` |
| `NobodyOverbilled` | `Spec => []BilledForAdded` |
| `NothingLost` | `Spec => []LostOnlyIfLate` |
| `AnnouncedOnce` | `Spec => []PlacedEventOnce` |
| `OneRow` | `Spec => []OneRowPerProduct`, if each user has one tab and no SELECT fails |
| `OrderedOnce` | `Spec => []RowOrderedOnce`, if each user has one tab, no write fails and nothing crashes |
| `CheckoutAtomic` | `Spec => OrdersAtomically`, under the same conditions |

These conditions are needed: without them the code breaks what is claimed, as
`lost_webhook` shows for the first and the text on `checkout_apart` says of the
others. In `OrderedOnce` and `CheckoutAtomic` it is the clear of the cart that
must not fail or be cut off: the next order would have the same rows again.

**Typing.** `TypeOK` is not inductive: a webhook that credits
`links[hook[h].link].order` has to know that there is such a link and that its
order was inserted. `Typed` adds `WellFormed`, one conjunct for each reference
the code follows without a look: rows to products, requests and links to
orders, webhooks to links on which money was transferred, messages to orders,
workers to messages that were sent. It also says that the lines a request holds
are finitely many, without which they have no sum. The proof has a lemma per
group of actions, and frame lemmas for what a group leaves alone.

**Money.** `PlaceOrder` sums the lines in a loop, the model with a fold over a
set that takes the lines in an order nobody chose. `SumOfLinesIsSum` says that
it makes no difference: whichever line is set apart, the sum is its price and
the sum of the others. No prover here does induction over sets, so the argument
is the least counterexample: if the equation failed for some subset of the
lines, it would fail for one of least cardinality, and that one is refuted by
taking two lines out in either order. The fold itself is only opened once, in
`RunningIs`. `CentsNear` and `DongNear` bound the two roundings.

`BilledTotal` is the invariant that connects the sum with the orders: the total
stored is the sum over the order's own lines, to the cent. It is kept because
`CreateOrder` stores both in one transaction and nothing updates either. A link
asks for the total in whole dong, an acknowledged transfer that matches brought
in just that, and `PaidAmount` adds up what the two roundings leave between the
transfer and the sum: -494 to 505 thousandths of a dong.

**Safety.** `SafetyProofs` first says, once for each piece of state, what any
step can do to it: `StepOrders` and `OrdersFollow` (a bill never changes,
`paid` and `confirmed` are never taken back, and who writes them), `StepQueue`
and `QueueFollow` (who publishes and who deletes), `StepHooks`, `LinksFollow`
and `StepWorkers` (how a program counter can have come to be where it is). The
invariants of payment, queue and workers then need no case split over `Next`:

- `PaidInv`: everything that carries the news of a payment, an ORDER_PAID in the
  queue or a webhook about to publish one, is about a paid order, and a worker
  about to confirm holds an ORDER_PAID. Without the news in the invariant the
  step `Confirm` could not be justified.
- `SettledInv`: a webhook about to credit compared the amount, and bills and
  amounts do not change under it.
- `MailInv`: a worker that has mailed will find the order confirmed, and one
  about to confirm or mail has not mailed yet. This is where the idempotency
  guard comes in; it does not relate two workers, for which the claim is false.
- `DoneInv`: a worker about to delete has done what the message asks for.
- `MailedOnlyIfSettled` is the chain of the first three: no worker looks at a
  transfer, but one that mailed finds the order confirmed, a confirmed order is
  paid, and a paid one settled.
- `AckedInv`: a webhook past the credit, about to publish or to answer 200, has
  its order paid or was sent a wrong amount. A failing SELECT takes a webhook
  from its look-up to the answer, which is why it is excluded.
- `ToldInv`: a webhook about to answer 200 for the right amount has had
  ORDER_PAID sent in the step before, and published messages are never taken
  back (`NothingErased`).

**Carts.** A request reads a cart, then writes an order, then clears the cart;
the invariants say what it may still believe of what it has read.

- `BilledInv`: what a request has read of a cart, and what an order has, are rows
  of the user with at least that quantity added. Rows never change hands and
  `added` only grows, so this survives every other tab.
- `LostInv`: what a PlaceOrder is about to clear it has read, but for rows
  written since (`late`), and what it has read is in its order.
- `AnnouncedInv`: the order that a request has yet to announce is that request's
  alone, and nobody has announced it.
- `OneRowInv`: a request about to insert a row has found none of the product.
  The row an INSERT takes is the least unused one, by the well-foundedness of the
  naturals.
- `OrderedInv`: a row that was ordered and is still in the cart is about to be
  cleared by the request that ordered it, and what a request has read to order
  has not been ordered.
- `AtomicInv`: what a request has read of the cart is still so when it writes,
  which is what one tab per user is needed for. `Writes` and `OthersSame` say
  who writes rows, and of whom; `CartKept` concludes that a cart stays as it is
  while its only request does not move.

**Checkout in one step.** `AtomicStepSeen` looks at a step twice. If it makes an
order, `BuySeen` takes the request's lines to be the whole cart (`AtomicInv`),
none of it ordered before (`OrderedInv`) and nobody else's (`BilledInv`). If not,
it writes no row (`NothingSold`), or it is the INSERT, the UPDATE or the DELETE of
a row that no order has (`AddSeen`, `IncreaseSeen`, `TakeOutSeen`), or it clears
rows that one has, which the mapping no longer counts (`ClearSeen`).

**The life of an order.** `StepSeen` shows that whatever a step does, the stages,
bills, settlements and mails that `OrderRefinement` sees of it are those of
`Place`, `Settle`, `Credit`, `Confirm` or `Tell` of one order, or do not change.
The invariants are what allows each: `SettledInv` that a credit follows a
settlement, `PaidInv` that a confirmation follows a credit, `MailInv` that the
customer is told of a confirmed order.

**Accounts.** The theorems about accounts need
`AccountsAssumption` and `FaultsAssumption` only.

| Theorem | Statement |
|---|---|
| `AccountsTyped` | `Spec => []AccountTypesOK` |
| `Rotation` | `Spec => []ReplacedIsRevoked` |
| `SpentOnce` | `Spec => []SpentOnceUnlessRaced` |
| `OneLive` | `Spec => []OneLiveUnlessRaced` |
| `EndedStaysEnded` | `Spec => []EndedUnlessOvertaken` |
| `RolesEarned` | `Spec => []RolesAreEarned` |

`AccountTyped` adds to the types who a request and a token belong to and what a
request about to revoke holds. Then every step of the system is shown to have
one shape (`StepShape`): it keeps all token rows but for their state, or stores
one row for a request in "issue" (`TokensStep`); a refresh continues or begins,
and gets past "revoke" only with its token revoked (`CallStep`); what it ends is
revoked and its refreshes are overtaken (`EndStep`). From the shape alone:

- `RotationInv`: a token that has been replaced is revoked (`ReplacedIsRevoked`),
  and a refresh past its revocation has its token revoked. Without the second,
  `Issue` could not be justified. `ReplacedIsRevoked` is proved and has no run:
  it does not say how many live tokens replace one, which is what
  `OneLiveUnlessRaced` is about.
- `SpentInv`: two refreshes under way for one token, or one under way and one
  pair already bought, mean a race. It uses `RotationInv`: a refresh that finds
  a token live knows that nobody is past revoking it.
- `SessionInv`: while a request renews a token, no other token of the session is
  unrevoked and no other request renews one, or there was a race. Both are
  needed: the first for the request that stores the next token, the second for
  the request next to it. A session is named after a stored token, so that the
  token of a new login begins a session of its own.
- `EndedInv`: a refresh under way for an ended token has been overtaken.
- `EarnedInv`: a code that is saved, or carried by a request about to save it or
  to verify with it, was sent; a request about to promote, or to issue a seller's
  pair, is for a person whose row already says so. Rows only grow (`RowsGrow`).

**Addresses** (`AddressesAssumption`, `FaultsAssumption`), for any number of
people, requests and addresses:

| Theorem | Statement |
|---|---|
| `AddressesTyped` | `AddressesSpec => []AddressesTypeOK` |
| `OneDefault` | `AddressesSpec => []OneDefaultUnlessContested` |
| `DefaultStands` | `AddressesSpec => []ChosenStands` |
| `AddressesOwned` | `AddressesSpec => OwnersOnly` |

The invariant adds what the local variables of a request know: a request whose
flags are still clear faces a user without a default; one that is about to write
a row holds a row of its own user; a user whose choice stands has a default, or a
request about to write one.

**Catalog** (`ProductAdminAssumption`, `FaultsAssumption`), for any number of
sellers, requests, products and uploads:

| Theorem | Statement |
|---|---|
| `ProductsTyped` | `Spec => []ProductAdminTypeOK` |
| `ImagesLead` | `Spec => []ImagesShowTheirProduct` |
| `PositionsFollow` | `Spec => []PositionsInOrderUnlessRaced` |
| `Owned` | `Spec => SellersOwn` |
| `CatalogRefined` | `Spec => CartsSeeEdits` |

Three facts carry it. The seller of a product lasts, so that the owner compared
at the start of a request is the owner at its end. A key names the product and
the file, so that what replaces an object is of the same product and name; an
upload past `Store` has its object. A position that is not stale is the number
of the images there are; the images of an unraced product then have the
positions below their number, each once. `CatalogRefined` needs one more: a
request about to write holds a body that was sent, and writes the columns of the
body, never one that it only read, so that each of its writes is one edit of the
`Catalog` that carts are modelled against.

**Migrator** (`MigratorAssumption`, `FaultsAssumption`), for any number of
migrations and runners, with any references to earlier ones:

| Theorem | Statement |
|---|---|
| `SchemaRecorded` | `Spec => []RecordMatchesSchema` |
| `UpCompletes` | `Spec => []UpMeansComplete` |
| `NoGaps` | `Spec => []NoGapUnlessCrossed` |
| `AloneItWorks` | `Spec => []FailsOnlyDisturbed` |

Tables and record change in one commit, so they agree. What an Up has not found
applied it still has to do, as long as no Down commits; what a Down is to revert
is the top of what is applied, as long as no Up commits. Both are needed for
`NoGaps`, and `AloneItWorks` needs that a script refers to tables of earlier
versions only, which is an assumption about `migrations/` that TLC evaluates for
the ten there are.

**Listing** (`ListingAssumption`), for tables, page sizes, ints and numbers of
writes of any size:

| Theorem | Statement |
|---|---|
| `PastTheEnd` | `ListingSpec => []PastTheEndIsEmpty` |
| `WalkComplete` | `ListingSpec => []WalkShowsEachOnce` |

`PagesIsCeiling` says that the page count is total over limit, rounded up,
`SliceRows` and `SliceBeyond` which rows LIMIT and OFFSET cut out, and `Unwrapped` that an offset
that fits an int is what was multiplied. `TableInv` has each product listed
once. `WalkInv` is what a visitor knows between two pages: with a limit that the
repository accepts, and no row written in the middle of the table, the visitor
has seen just the rows before the next page, and between the count and the page
everything listed at the start has been counted. A new row at the end may come
between the two; it makes a page longer, and the walk may miss it, but it
does not move the rows that were there.

**Seed** (`SeedAssumption`, `FaultsAssumption`), for any rows, unique keys and
commands:

| Theorem | Statement |
|---|---|
| `SeedCompletes` | `SeedSpec => []DoneMeansComplete` |
| `SeedsOnce` | `SeedSpec => []SeededOnceUnlessRaced` |
| `SeedWorksAlone` | `SeedSpec => []SeedFailsOnlyDisturbed` |

`SeedInv` says what a command relies on. The rows it has passed are there, and
stay there, since nothing deletes one. The row it found missing is missing as
long as nothing disturbed it. Of a row that is not marked as raced, one command
at most is inserting, and none has inserted before. A command that gives up
or dies leaves rows that the next one passes, which is why no
history of half-done seeds matters.

**API process** (`FaultsAssumption`), for any environment and any number of
connections:

| Theorem | Statement |
|---|---|
| `NothingInHand` | `ServerSpec => []StopsWithNothingInHand` |

`ServerInv` says where the process can be and what it can have there: it is
asked for nothing before it listens, it listens only once it can be told to
stop, a process that drains has closed its socket, and one that goes on to exit
has closed it and has no request left, unless the signal came before the
goroutine listened.

The inductive invariants of orders and accounts are the definitions of
`OrderInvariants` and `AccountInvariants`; `MCOrderSystem` and `MCAccounts`
extend these, so that a configuration that names them has TLC check them too.

**Only model-checked.** Every safety invariant and action property of the
passing runs is proved. Liveness is out of the prover's reach:
`SettledGetsPaid`, `PaidGetsConfirmed`, `QueueDrains`, `ShutdownEnds`,
`SignalEnds` and `StartsWithoutOptional` are checked by TLC, under the fairness
given above. So are the four violations.

## Not modelled

- Routing, request logging, DTOs, response envelopes, swagger: no state of the
  shop's own. The rate limiter keeps counters, which are its library's.
- HMAC verification, JWTs and password hashes: they accept or refuse; a request
  that is refused changes nothing. An access token stays good for its lifetime
  whatever happens to its refresh token; no property speaks of it.
- Names, descriptions and parents of products and categories, and the filters of
  the listing: nothing else reads them, and a filter only makes the table that
  is paged smaller.
- `CreateProfile`: two names that nothing reads.
- What the seed prints, and a demo product that somebody renames.

## Plan

1. An abstract specification of a session, in which a token is live, then spent
   or ended, and of a membership, in which a person is unverified, verified, a
   seller; `Membership` shown to implement both.
2. The conditions of `OrdersAtomically` and `OneRowPerProduct`, which
   `checkout_apart` meets by its bounds and the theorems by their assumptions, as
   history variables of `Checkout`, so that both can be stated for concurrent
   tabs too.

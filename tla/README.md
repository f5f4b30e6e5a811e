# Verification of HAUSV

HAUSV is a property portal written in Go: one process serves many houses (tenants) and their organisations, keeps its data in
PostgreSQL, and does a number of things on its own: it switches a wallbox with the sun, reads a mailbox, asks a language model for
suggestions, mails login links and rent letters. This directory holds TLA+ models of the parts of it where the order of events decides
whether it is right, the TLC configurations that check them, and proofs of their main safety properties.

- [1 Inventory](#1-inventory): the parts of the system, their state, their operations, what is hard about them
- [2 Plan](#2-plan)
- [3 Models](#3-models): which module stands for which code
- [4 Runs](#4-runs): what is checked, the bounds and why they are enough
- [5 Fairness](#5-fairness)
- [6 Proofs](#6-proofs)
- [7 Disagreements](#7-disagreements-between-the-code-and-what-is-said-of-it) between the code and what is said of it
- [8 What is not modelled](#8-what-is-not-modelled)

`PROJECT.json` lists the same things for tools: components, runs, a mutant for each property (a plausible slip in the code that the run
must catch), the source lines of each definition, the hazards of the code with the properties that guard them, and the theorems.

## 1 Inventory

The process (`cmd/hausv-org/main.go`) loads its configuration, migrates the database, builds the `app` of `internal/server`, starts the
background workers (charging controller, energy sampler, mail intake, Telegram bot, index refresh) and serves HTTP until a signal; then it
shuts the server down with fifteen seconds of patience and closes the app. Handlers, workers and jobs are goroutines that share the
in-memory state of `app` under mutexes and the database through the repositories of `internal/store`. Most of these repositories keep a
JSON document per row. A handler reads it, works on it and writes it back in one short transaction or in several, so what two of
them do at a time matters, and what is left when the process stops between two writes.

### Parts that act by themselves or are raced

**Charging controller** (`server/charging.go`, the charging part of `store/stores_c.go`, `store/parking_sql.go`).
State: per tenant a persisted controller state (phase, active session, times of the last switch, of the first reading below the stop level
and of the command that waits, retries), the persisted sessions and mode, and in memory the shadow machine, the count of failed
readings and one mutex. Operations: a tick reads Home Assistant, decides (`nextChargingState`), stores, switches the relay; a
resident presses on, off or auto; an operator changes the mode; at boot an open session is reconciled with the plug. Interacts with Home
Assistant (slow, fallible, also switched by hand), with billing (sessions) and with mail (alerts).
Hard: the database is written before the relay is told, the process may stop in between, a command may be lost or obeyed late, a read of
the document may fail and answer with a default one. Correct if: the phase and the open session agree; no command is sent that was not
stored first; the relay's rest times hold; a waiting command is settled; a session does not outlive its charge.

**Sign-in link delivery** (`server/magic_link_delivery.go`, `server/auth.go`, the token store of `auth/auth.go`).
State: tokens in memory, a bounded channel of mail jobs, workers, flags for closing and for the drain. Operations: request a link (store
the token, admit it, offer the job), take and send a job, withdraw a token whose mail failed, follow a link (peek, admission, consume),
expire, close (stop admissions, drain for a while, cancel, withdraw what is left). Interacts with SMTP and with the shutdown of the process.
Hard: the token is usable before its mail is sent; close races senders, workers and the channel; a transport may fail after the relay
took the message, panic, or never return. Correct if: a usable token is always on its way or delivered; one link lets in one session; a drain
that is reported took place; close ends.

**Mail intake** (`server/mail_intake.go`, `mailintake/imap.go`, `mailintake/parse.go`, `store/intake_mail.go`).
State: the folder (a remote server), the ledger of recorded keys, the items and comments, one gate per organisation. Operations: fetch the 25
oldest unread mails, look each one up in the ledger, store it as an item or as a comment, triage it, record its key, flag the recorded ones
read. Interacts with the inbox (each item is triaged at once) and, in the demo, with a reset that empties the tables.
Hard: three stores that cannot be written together (items, ledger, flags), two polls at a time, crashes and errors at every step, mails that come
again under another UID. Correct if: a mail flagged read is stored; a recorded mail is never filed again; every mail is filed at last.

**Inbox and suggestion jobs** (`server/inbox.go`, `server/intake_pipeline.go`, `store/intake_sql.go`, `store/org_settings.go`).
State: the item (status, suggestion, issue), the issues made from it and their replies, the organisation's policy and counters (one document),
and in memory the registry of running jobs. Operations: suggest (in the background, with a deadline, cancellable), use a template, approve,
edit, reject, assign, restore, the automatic handling of the triage, settings.
Interacts with the AI provider, with issues and with mail.
Hard: every repository call is a transaction of its own, handlers write whole documents they read earlier, a cancelled job runs on to its next
look at the context. Correct if: what counts as handled has an issue; handling can be repeated after any failure; a job excludes
manual handling; a cancellation holds; a job ends.

**Statement and letter delivery** (`store/annual_statement_delivery.go`, `server/annual_statement_delivery.go`,
`store/valorisation_delivery.go`, `server/valorisation.go`, `server/tenant_statement.go`).
State: per run, unit and party a list of attempts, pending, sent or failed. Operations: reserve in a transaction (refuse a key that
is sent or live, finalize abandoned reservations), mail outside of it, record in a second transaction that no longer depends on the client.
Hard: the relay and the log cannot be written together; a reservation is taken over by age alone; clients disconnect, processes
die, acknowledgements get lost. Correct if: a live send is never taken over; nothing is logged as sent twice or falsely; a second copy is always
due to an acceptance that could not be recorded.

**Index adjustment run** (`store/valorisation_sql.go`, `store/valorisation.go`).
State: the run (draft, approved, sent, cancelled), its items, letters and receipts. Operations: prepare, approve, cancel, send, finish,
record a receipt. Hard: cancelling races the requests that send. Correct if: no letter leaves after a cancellation and a run that says
sent is complete.

**Scoped database lanes** (`db/scoped.go`, `db/pool_budget.go`). State: per tenant a pool with leases, an LRU order, a cap, a channel that
announces changes. Operations: acquire, release, evict, retire, close. Hard: pools close outside the mutex while new leases arrive; sockets die
late; a waiter must not miss its wake-up; one request that needs two lanes may wait for itself. Correct if: the budget holds, a leased lane is
never closed, waiters get on, close ends.

**Ballots and handover protocols** (`store/vote_sql.go`, `server/votes.go`, `store/handover_sql.go`). State: one document per ballot or protocol.
Operations: vote, open, close, close the expired, remind; sign, confirm by token, file. Hard: each of them reads the document without a row lock,
changes it and writes it back whole. Correct if: no vote is lost, a closed ballot stays closed, nobody is reminded twice, a confirmation stays.

**Memberships** (`store/organisation_membership_service.go`, `store/identity_sql.go`, `store/identity_profile.go`). State: a person's row and its role
in each house with the organisation that granted it, the members of each organisation with an undo record per house, the houses of each organisation.
Operations: an organisation takes a person on, changes the role, lets the person go; a house admin sets, toggles, removes; a profile is edited or gets
a new address. Hard: the undo records outlive the houses and the decisions they are about; profile edits write back what they read before their
transaction, and a read that fails looks like a person without houses; the rows go by person, the undo records by address. Correct if: what an
organisation granted can be taken back, and what remains is what the house admins decided last.

**Energy sampler and lifecycle lock** (`server/energy_sampler.go`, `energy/sampling.go`, `server/energy_lifecycle_lock.go`, `server/energy_data.go`).
State: the samples of the running quarter hour, the stored intervals, mapping and profile, the chart cache, a read-write lock per tenant.
Operations: sample, close a quarter, onboard, map, import, delete a history or a profile. Hard: the
sampler does not take the lock. Correct if: what was deleted stays deleted and no quarter is made up.

**Home connector and home start** (`store/home_connector.go`, `server/home_connector.go`, `store/home_portal.go`, `server/home_start.go`). State:
pairing codes, connectors and their readings, reservations of a home. Operations: pair, exchange, heartbeat, revoke, reserve, confirm, activate.
Hard: one-time codes, expiry, statements of two requests between one another, two homes for one reservation. Correct if: a code pairs once,
a revoked connector stays out, and the readings are those of the connector that is paired.

**Telegram** (`server/telegram_bot.go`, `store/telegram_sql.go`): link codes, the offset of the update loop. Hard: an update handled before
its offset is stored comes again.

**Rate limiter** (`server/auth_hardening.go`): windows per source and account in memory, checked and counted atomically.

### Parts that serve one request at a time

| Part | State and operations | Correct if |
|---|---|---|
| Annual statement (`store/annual_statement_*.go`) | periods, receipts, keys, runs; calculate, approve, correct in serializable transactions | every cent of a receipt is somebody's, roundings are fair; an approved run is never changed |
| Authorization (`authz`, `store/capability_rights.go`) | roles, capabilities, delegations; a decision per request | nobody acts beyond a role |
| Sessions, support view (`auth`, `server/support_view.go`) | session rows, a second identity for a while | a revoked session is out at once |
| Issues (`store/issue_sql.go`) | issues with comments and workflow | a workflow step keeps the comments of others |
| Parking, charging bills (`server/parking.go`, `store/stores_c.go`) | bookings, quotas, tariffs, monthly bills | a session is billed once, at its tariff |
| Leases, units, contacts, documents, announcements, events | rows edited by forms | references stay valid |
| Rent indexation (`indexation`, `store/index_reference.go`) | published index tables, thresholds, decimals | the amount follows the clause |
| Imports and exports (`integrations`, `server/camt_import.go`) | parsed files and a ledger of what was imported | a file counts once |
| Migrations, data moves (`db`, `dbmove`) | a ledger with checksums under an advisory lock | each migration runs once and in order |
| Tenants, demo, configuration, views, PDF, mail composition | registration, fixtures, start-up parsing, pages, layout | |

## 2 Plan

Order: what moves money, relays or letters without anybody watching comes first.

1. `Charging`: the controller. Done, safety proved, liveness checked.
2. `LinkPromise` and `LoginLinks`: an abstract specification of what a one-time link promises and the queue that implements it.
   Done, with the implementation proved.
3. `MailIntake`, then `Inbox`: what becomes of a mail. Done, with the safety of both proved.
4. `Delivery`, and `LetterRun` that EXTENDS it: letters. Done, with all their safety properties proved.
5. `ScopedLanes`: leases, eviction and close under one budget. Done, with the safety proved and the liveness of waiters and of close checked.
6. `Ballots`, `Membership`, `EnergyHome`, `HomeConnector`: the documents and rows several requests and workers rewrite. Done, composed in
   `House`, with the safety of each proved.
7. `AnnualStatement`: the cents of a run, checked over bounded inputs and proved for all of them.
8. To come in the proofs: the safety behind the liveness properties, such as that no waiter for a lane misses its wake-up and that no
   claimed item is without a goroutine that will end.
9. To come: handover protocols (token confirmation beside edits), Telegram's update loop, the reservation of a home.

## 3 Models

Every action is one atomic step of the code: a section under a mutex, a transaction, or a call of a remote service. Where the code does
two of these one after the other, the model has two actions and anything may happen in between.

### Charging, MCCharging, ChargingProofs

| Model | Code |
|---|---|
| `db`, `open`, `mode` | `ChargingControllerState`, open sessions and the mode in the parking document |
| `plug`, `cmd` | the relay and a command it accepted but has not yet carried out |
| `op` | the operation that holds `chargingMu`: read, decided (`persist`), stored (`switch`), done |
| `shadow`, `fails` | `chargingShadow` and `chargingShadowPlug`, `chargingHAFails` |
| `Decide`, `InIdle`, `InSurplus`, `InManual`, `AwaitConfirm`, `ExternallyOff` | `nextChargingState` |
| `TickLive`, `TickShadow`, `TickFailed` | `tickChargingTenant` by mode and by whether the readings came |
| `ManualOn`, `ManualOff`, `Resume` | `requestManualCharging`, `resumeAutoCharging` |
| `Recover`, `Boot` | `recoverChargingTenants` |
| `PersistStart`, `PersistEnd`, `PersistState`, `PersistFails`, `FailedSaveGoesOn` | the store calls and their errors |
| `Switch`, `RelayActs`, `SwitchedByHand` | `switchPlug` and the device, which may be slow, deaf or moved by hand |
| `Minute`, `ChangeMode`, `Restart` | time, the operator, the process |

Timestamps are kept as ages that saturate at the longest delay, because the code only compares `now - stamp` with a delay. State of charge and
surplus are three levels, split at the stop and at the start value. `told`, `onAge` and `offAge` are history variables.

### LinkPromise, LoginLinks, MCLoginLinks, LoginLinksProofs

`LinkPromise` knows a link only as its recipient does: new, pending, sent, opened or void. `LoginLinks` has the token store, the
request handler (store, admit, offer or refuse), the channel, the workers (take, check the token, the relay accepts, the transport returns,
withdraw) and `closeMagicLinkDelivery` step by step (close the queue, drain, drain timeout, empty and withdraw, wait, exit). `Fate` maps
its state to `LinkPromise`. The token a home start is confirmed with goes through the same queue, with a second token store; the development
sign-in, which prints the link, is left out. Withdrawing and receiving in `invalidatePending` are one action: nobody else can see the job in between.

### MailIntake, MCMailIntake, MailIntakeProofs

Mails are UIDs; `KeyOf` gives the key of each, so two copies share one. `poll` is where each of the pollers is in `pollMailIntake`: gate, fetch,
then per mail the ledger, the item or comment (`File`), the triage of an answered case, `Record`, and finally `MarkSeen`. Each of these
may fail, and `Crash` may come between any two. `TriageMisses` is a triage that fails and whose item cannot be read afterwards: the code takes that
for an item that is gone, whether it is or not, and records nothing. `cuts` counts what stores a mail and leaves it unrecorded: crashes, failed
`Record` calls and such a triage with its item still there. `Refill` is a mailbox restored with every mail unread, `Reset` the demo reset.

### Inbox, MCInbox, InboxProofs

One item and its issues in each of the houses it may be in. A worker is the item's first triage (in the goroutine of the poll or of the phone note), a
request or a job, and its place is the next repository call. `row` is what it read first, `doc` what it is about to write back. `Find` looks for an
issue in the house the item names now; `FindMisreads` is a lookup whose query fails, which the code takes for no issue (`misreads` counts them). A
job's context can end (`Deadline`, a cancellation): from then on calls that take the context fail and those that do not still go through. An
`Environment` says which requests come, in which houses, whether they overlap, whether a suggestion may be asked for beside the item's own triage
(`early`), whether calls and lookups fail and whether the process stops; every behaviour lies in one of them, chosen at the start, because the code's
promises differ: nothing but the status of the item keeps two handlers apart. Of the counters only their whole-document write-back is kept, for it can
restore an old policy (`autoOn`). `processOpenIntake` is called from tests only and left out.

### Delivery, LetterRun, MCDelivery, MCLetterRun, DeliveryProofs

`Delivery` is `Attempt` in the loop over the letters, for both families of letters: `Begin`, `Reserve` (or `Skip`, `Refuse`), `Send`, `Accept`
or `SendFails`, `Record` or `RecordFails`. A key is unit and party; `KeyOf` maps letters to keys. A row carries its age, a request the
time its record context has been running. `lost` is a history variable: acceptances that nobody will record. `LetterRun` adds the run: `Approve`,
`Cancel`, `FinishSend`, `Receipt`, and the lock on the run every reservation takes first. A letter's date and its archived document are left out.
A violation of the unique index is not an action of its own: the proofs show that the index never has anything to refuse.

### ScopedLanes, MCScopedLanes, ScopedLanesProofs

| Model | Code |
|---|---|
| `lane`, `leases`, `order` | `s.lanes` with `scopedLane.retiring`, `leases`, `s.order` |
| `pool` | the `sql.DB` of a lane: connections that are free, in use, discarded and not yet cut, taken by its cleaner, cut by `Close` |
| `req` | an operation: trying, waiting on `changed`, at `db.Conn`, using, releasing; the lane it holds around a nested one |
| `Lease`, `Create`, `Await`, `Refused` | one pass of the loop in `acquire`, with `evictForRoom` |
| `Wake` | `changed`, the cleanup timer or the context |
| `GetConn`, `GetNone`, `Return`, `Release` | `checkout`, `finish`, `release` |
| `ClosePool`, `Retire`, `Cut`, `CutLate`, `Expire` | `retire` before and after `pool.Close`, database/sql and the sockets |
| `Close`, `CloseReturns` | `Scoped.Close` |

`leaked` and `slipped` count the connections that outlive their lane, by whether an operation had discarded them or the pool's cleaner took
them after eviction had looked.

### Ballots, Membership, EnergyHome, HomeConnector, AnnualStatement: House, MCHouse, HouseProofs, StatementProofs

Five services of a house that share no state. `House` runs one of them in each behaviour while the others rest, so one run explores all of
them without multiplying their states; `active` says which. It EXTENDS Membership and AnnualStatement and has an instance of each of the
other three.

- **Ballots.** `request` is an operation between its read and its upsert, `worker` the reminder worker. `Cast`, `ClosedNow`, `Shut`,
  `Recipients` are what an operation makes of the document it read; `Write` puts the copy in place of whatever is there. `overtaken` is a history
  variable: a document was written over a newer one. A vote carries its time, which the request takes before the ballot is read. `Protocol` hands
  out what `ShownClosed` shows as closed: a closed ballot, or in support view one past its deadline whose row is still open. The scheduled opening is
  left out.
- **Membership.** `row` is `house_memberships` with `grant_origin`, `member` the organisation's members with the undo record per house. `Grant` is
  `change` for adding and for changing a role, `Remove`, `SetHouses` the organisation's other operations; `Invite`, `SetTenantMembership`,
  `MutateTenantPermissions`, `RemoveTenant` with `CountHouses` and `DeleteLeft` are the house admins'; `ReadProfile` and `WriteProfile` an edit
  and the transaction that writes it, `Rename` the one that also changes the address. The lock on the person's row makes each transaction a step.
  `ReadProfile` finds any part of the rows and `CountHouses` may find none, because `MembershipsForPerson` answers an error like an empty table.
  After a `Rename` `member` is what the organisations happen to have of the new address, and anything is allowed; `stranded` are the houses
  whose row came along with its provenance. One edit runs at a time; a second one that began under an old address would bring that address back as
  another person.
- **EnergyHome.** `request` is a handler in the lifecycle lock, shared or alone, `tick` the sampler between its read of the mapping and the
  answer, `buffer` its samples. `QuarterFrom` and `Complete` are the coverage a quarter needs; the aggregation of the watts is left out.
- **HomeConnector.** `connector` is the row with its code and credential, `request` a handler between two statements. `left` holds
  the readings stored by a heartbeat that had been accepted before, or left behind by a statement that failed.
- **AnnualStatement.** Pure: `Calculate` is `calculateAnnualStatementRun`, or the calculation with parties when a unit has dated ones; `Split` is
  the largest remainder method all of it rests on. `KeyReady`, `HeatingReady` block a run; `UnitCents`, `Owned`, `LineVAT`, `PartyShares` are the
  cuts, in their order. Two cost types stand for any number: one measured and split by the heating rules, one with a key. `RunInputs` is what a
  run may load. The days' weights are fractions in the code and whole numbers here, over a common multiple of the lengths of the months
  (`Common`); a party's segment ends where the next one begins (`EndOf`), and its weight by the meter is the sum over its segments.

## 4 Runs

| Run | Asks |
|---|---|
| charging_safe | Do phase and session agree and is every command recorded first, in all modes, with failed saves, unreadable documents, crashes and relays switched by hand? |
| charging_progress | Are the rest times kept, is every waiting command settled, is a session closed whose plug is off? |
| charging_orphan | Violation: a second session is opened beside an active one |
| login_links | Is every usable token accounted for, is a reported drain true, is the promise of a link kept, do links settle and does close end? |
| mail_intake | Is what is flagged read in the store, are recorded mails final, does a second copy cost a cut between filing and recording, does every mail arrive? |
| inbox_safe | Has a handled item an issue, is handling repeatable but for lookups that fail, do a job and the first triage work alone, does a cancellation hold? |
| inbox_live | Does every job end, whatever the provider and the requests do? |
| delivery | Do reservations exclude, is the log true, are copies explained, does every request end? |
| letter_run | Is a run that says sent complete, do letters stop with a cancellation, is nobody left who could send or record a letter of a closed run? |
| letter_run_unsent | Violation: a sent run with a letter that never left |
| scoped_lanes | Is a leased lane never closed, do the open connections fit the budget, does every waiter get on, does close end? |
| house | Can grants be taken back and do decisions survive them, over edits, new addresses and failing reads (Membership)? Are votes kept and issued protocols final unless a write overtakes another, are reminders single (Ballots)? Does nothing come back after a deletion, was every quarter watched (EnergyHome)? Does a code pair once, whose are the readings (HomeConnector)? Do the cents add up, is their rounding fair (AnnualStatement)? |

Type invariants are not spent on a run where the proofs establish them for every instance (Charging, LoginLinks, MailIntake, Delivery,
LetterRun, ScopedLanes but for the order of its lanes, Ballots, EnergyHome, HomeConnector, Membership, Inbox).

### Bounds

- **Charging.** Two sessions in `charging_safe`: one that is named and one that may be forgotten; more add nothing a second one does not
  show. Its delays are one minute, so that all three modes, failed saves and the shadow machine can be explored together. `charging_progress`
  takes one session and a minimum on time of two minutes, so that a rest time is a wait and not only an edge. Ages saturate at `Cap`, the longest delay,
  beyond which no comparison changes. `FailLimit` 2 distinguishes below, at and above the limit.
- **LoginLinks.** Three links, two workers and a channel of one: one job with each worker and one in the channel, so that a full queue,
  a busy pair of workers and a job left behind by close occur together. `Visits` 2 lets a link be followed twice.
- **MailIntake.** Three mails, one a copy of another, one an answer to a case; two pollers; a batch of two, so that the mailbox is larger than a
  batch; one cut, one reset, one refill. CopiesPerCut counts the cuts that were used.
- **Inbox.** Two workers: the triage or a job and a request, or two requests. Six environments: overlapping requests, with jobs, and with
  templates and assignments; one at a time with failing calls, a lookup that fails and a restart; an item that moves between two houses, with a
  lookup that fails; every request about the item, cancellations included; two triages at once, which can leave an item handled
  automatically that still has a suggestion, as `restore` demands. Two issues in a house, which is one more than may be there without a
  failed lookup, and as many as the bound on replies and mails.
- **Delivery.** Two requests; three letters, the third to the recipient of the first; two attempts per key, so that one can be taken over. The
  time limits keep the order of those in the code (mail deadlines and archive read below the two minutes of the TTL, 30 seconds of record
  context below it too), which is all that counts: TTL 2, Window 1, SendMax 1. The proofs cover every other choice.

- **ScopedLanes.** Three tenants and two lanes, so that one has to go for the third; one connection per lane, so that two operations of one
  tenant meet at it; two operations, each of which may start a nested one, one of which may be cancelled. A third operation adds waiters, and no new
  way to wait.
- **Membership.** One house and two organisations: the undo record is per house, and everything that can confuse it is another organisation, an
  admin or an edit. A new address comes with every record either organisation might have of it. The proofs hold for any number of houses.
- **Ballots.** One voter, two options, two requests and the worker; the clock has a time before and one at the deadline, so that a vote from before
  may be read, or written, after the protocol of the expired ballot has been shown.
- **EnergyHome.** Two sensors, two requests, quarters of two sampling steps and five steps in all: a quarter before, one during and one after a change.
- **HomeConnector.** Three requests (one whose pairing fails, one that pairs, one that beats), two codes, three credentials.
- **AnnualStatement.** Three units; shares are counted in tenths and not in millionths, so that rounding twice shows with amounts of a few
  cents; a period of five days in two months of two and three days; four regimes with and without vacancy, five keys, six histories of parties,
  with and without an interim reading, heating split and not, VAT none, 10 and 20 percent. Every combination is a behaviour. One set of
  areas leaves a unit without any, so that a leftover cent can go to somebody who should get nothing. The proofs hold for all of it.

Deadlock is checked where the system always has a step; `login_links`, `delivery`, `scoped_lanes`, `house` and the letter runs may stop: a closed process stays
closed, a calculated run is stored, and with the bounds used up nothing is left to do.
Symmetry is declared only where no liveness is checked, and over sessions, workers and requests, which the modules never tell apart.

## 5 Fairness

Liveness is checked under what the code's scheduling gives and nothing more.

- **Charging** (`LiveSpec`): the worker's ticker keeps ticking with the controller enabled, and readings, saves and the relay's answers do
  not fail every time from some moment on (strong fairness: they may fail any number of times in between). Relays need not obey. A user may
  press on for ever, so ConfirmationEnds and DeadSessionEnds make an exception for a user's operation.
- **LoginLinks** (`FairSpec`): goroutines run and the timers of close fire. No request, recipient, expiry or shutdown has to come, and no transport
  has to return; Settles takes a transport that returns as its antecedent (`mail.go` sets deadlines), CloseEnds does without.
- **MailIntake** (`LiveSpec`): some poll keeps coming, and a lookup or a filing repeated for one and the same mail succeeds some time. A parse
  error never goes away, so `Broken` is empty in the run that checks MailArrives; section 7 says what happens otherwise.
- **Inbox** (`LiveSpec`) and **Delivery** (`FairSpec`): a goroutine that runs gets on; the deadline of a job and those of the mailer are what makes the
  remote calls return.

- **ScopedLanes** (`Fairness`): an operation that can go on does, statements end (the code gives them a timeout), retirements and sockets of
  discarded connections finish. Nobody has to cancel or close, no connection has to expire, and one that outlived its lane need not die.
  RequestEnds makes an exception for operations that wait for one another across nesting (`Knotted`), which the code does not prevent.

## 6 Proofs

TLAPS checks these for every value of the constants that satisfies the named assumptions; TLC evaluates the assumptions in the runs.

**ChargingProofs** (`DelaysAssumption`, `SettingsAssumption`): TypeCorrect, SessionSafety, WriteAhead, ShadowSafety, RestRespected.
SessionOwned is about what is stored, but an operation carries a state it is about to store, so the invariant `IInv` adds what such an operation may
carry (`InFlight`) and how its stage and contents belong together (`Staged`). RelayRest compares ages the code does not keep with the one it
does; `Stamped` says that the stored one never exceeds them. Lemmas about the pure decision come first, then one lemma per action.

**LoginLinksProofs** (`LinksAssumption`): TypeCorrect, LinksAccounted, DrainIsTrue, PromiseTheorem. A usable token stays accounted for because every
step hands its job on before it lets go of it; that close does not lose one needs the order of its flags (`ClosingOrder`), that workers end only on
a closed and empty channel (`QueueInv`), and that a worker with a job has a link (`HasJob`). PromiseTheorem maps every step to a step of
`LinkPromise` or to a stutter; a link nobody asked for (`FreshLink`) and one that has let somebody in (`SpentLink`) are the cases that need the invariant.

**MailIntakeProofs** (`MailAssumption`): TypeCorrect, NoMailLost, CopiesCostCuts, RecordedStays. The gate (`Gated`) leaves one poll that can be
storing; so the key a poll has looked up stays unrecorded until it records it itself (`WorkInv`), which is RecordedIsFinal, and what it is going to
flag read is recorded (`DoneInv`), which gives ReadIsFiled. CopiesPerCut alone is not inductive: `CountInv` adds that a mail neither
recorded nor about to be has no more copies than there were cuts, so that the next filing still fits, and a cut (a crash, a failed `Record`, a triage whose
item could not be read again) is what turns the one case into the other.

**DeliveryProofs** (`DeliveryAssumption`: the mail deadlines and the record window are shorter than the TTL): TypeCorrect, ReservationExclusive,
SentMeansSent, SentStays, CopiesHold. The heart is `HoldInv`: the row of a request that holds its key is pending, and no older than the
holder's own clock, or than the mail deadlines while the mail is out. So a held row is always live (`HeldIsLive`), `Reserve` refuses its key, and
two holders never meet (`Distinct`). `LastCounts`, that only the last row of a key is not failed, then gives uniqueness, truth and finality of the
sent row. CopiesExplained is not inductive: an acceptance is first known to a request alone and only then recorded or lost. `Accounted` counts: a
letter's acceptances are at most those that are lost, those a request is about to record and the one a sent row stands for.

For the letters of a run (in addition `HeadsAssumption`): ClosedRunSettled, SentRunComplete, CancelledStops, ReceiptsStand. The lemma `LetterStep`
shows that every step of a run is a step of `Delivery` or leaves its variables alone, so Delivery's invariant holds here, too. A closed run has no
pending row; by `HoldInv` nobody holds a key then (`NobodyHolds`), so nothing can be mailed. That a complete run has no pending row needs
`RowsBelong`: rows are about letters of the run.

**ScopedLanesProofs** (`LanesAssumption`): TypesHold, LeasesHold, BudgetHolds, for any number of requests, tenants, lanes and connections per
lane. `leases` and the connections in use are numbers in the code and cardinalities here (`CountInv`): the leases of a lane are the operations that
hold it, nested ones included. A lane that is dropped may have connections left, so the budget is inductive only as a reserve: an open lane counts
with all it may grow to, a lane whose pool takes nobody any more with what is alive of it (`Reserve`). The reserves of all lanes are the slots of one set,
`Reserved`, and a step moves slots of one lane at a time: eviction hands a lane's slots on only once they are empty. `OpenInv` gives up
its promise when the factory closes, as `Close` does. TypesHold leaves the order of the lanes out: it is filtered with `SelectSeq`, about which the
library states nothing, and it decides only who is evicted first.

**InboxProofs** (`InboxAssumption`): TypeCorrect, HandledKeepsIssue, HandlingRepeats, NobodyBesideAJob, CancellationHolds. A worker may write back a
document it read long ago, or the status it set out with, so the invariant says of all that a worker carries (`WorkInv`) what HandledHasIssue says of
the item: its row and its document promise an issue only if there is one; from the place where the issue is found or made on there is one. Issues are
never taken away, so what was read stays good, whatever other workers, cancellations and restarts do in between (`WorkerMoves`). The other three need
more of it. The slot of a running job is its goroutine's (`SlotInv`), and where requests do not overlap only one of them runs, beside jobs and the
item's triage, which is over before a suggestion is asked for (`TriageInv`), and a job out of the slot is dead and writes nothing (`OneInv`,
`DeadWritesNothing`). While a job may still write there is no suggestion anywhere, in the row or in a document on its way to it, so that nothing can
be handled beside it (`SerialInv`). Replies and mails are counted by what a worker takes for granted where it stands (`CountsInv`): whoever is about
to make an issue found none, or his lookup failed. After a cancellation the item is either about to be reset by a request that runs, or it is clean
and so is each copy that may be written over it (`CancelInv`).

**HouseProofs** (`HouseAssumption`, `RolesAssumption`, `StatementAssumption`): every safety property of the house, for every value of the constants.
`HouseSteps` shows that a step of the house is a step of one service or leaves it alone, so each has an invariant of its own and `HouseInv` is their
conjunction.

- *Membership* (GrantsRevocable, LastWordRestored). Restores speaks of a row's undo record, which must exist for it; so the invariant is the types,
  GrantsCovered and Restores together (`MembersInv`). A grant records what was there before it takes a row, and a row it may take is its own or nobody's; an
  edit keeps the provenance only where the role stays; whatever writes a row that had been read earlier, or not found, puts its house into `overtaken`.
  A stranded row still names an organisation and its house is in `overtaken` (`Stranding`), so a new address takes nothing from the other houses: what
  no organisation owns is as it was (`Reconciled`).
- *Connector* (CodePairsOnce, ReadingsAreThePaired). A code in the row has not been redeemed, and one that has been left the row and is never handed out
  again (`CodesSpent`), so the condition of the update is enough, however old the read before it. ReadingsOwned is inductive with the types: whoever
  replaces or revokes a connector is going to empty the store, and what gives that up puts what is stored into `left`.
- *Ballot* (VotesCount, RemindersAreSingle). A request between its read and its write carries two documents: what was closed stays closed with its
  votes, an open ballot keeps its deadline, and a vote it adds came before that (`WriteKeeps`); so the deadline of a protocol shown early is still the
  row's while the row is open (`Expiring`), and nothing later gets in; the worker's mark changes neither (`MarkWrites`). Whom the worker has mailed is
  in the row or in the mark it is about to write (`Marked`), unless that mark was lost, which RemindedOnce excepts.
- *Energy* (DeletionLasts, QuartersWatched). A reset is alone behind the lock and an operation that needs a claim has one (`Locked`, `Claimed`);
  the sampler takes no lock, so a step of it that outlives a deletion is `late` (`Ticking`). A buffer holds only readings of its sensor
  (`Buffered`); what has been watched stays watched (`ObservedLater`), and more of it leaves a quarter complete (`CompleteMore`).
- *Statements* (NothingLost, RoundingIsFair). Below.

**StatementProofs** (`StatementAssumption`): SplitFair, DistributeHanded, UnitCentsFair, StatementAddsUp, StatementIsFair, for any number of units, days and
parties and any amounts. It goes from the bottom up:

1. *Sums.* The community modules add up a function with a recursive fold over its domain. `Sums` is that fold as a function over all subsets, and a sum taken
   apart, compared or scaled is shown for all of them by looking at a subset with the fewest elements for which it fails. That uses only that the
   natural numbers are well founded, and no induction theorem with an operator for its parameter.
2. *Largest remainder.* The floors leave less than one cent per weight; `Ahead` ranks the remainders without ties, so exactly as many indices as there are
   cents left are ahead of the rest. Hence the sum, the distance below one, nothing for a weight of zero (its remainder is zero and somebody's is not), and
   the order of weights.
3. *Rounding twice.* Both rounds are SplitFair, once with the millionths and once with the cents; a share is off by less than a millionth and a cent by
   less than a cent, which gives `Near` and `InOrder` for one pool, and by addition for the two of the heating rules.
4. *VAT.* The VAT of a rate is at most the gross it is taken from, so its distribution stays within each bill and then within each line (DistributeHanded).
5. *Parties.* Each party's part is a distribution of what the unit got, by meter, by months or to one, and adds up because the weights do not vanish:
   days have weight, and a meter that rose has a segment with a rise.
6. *Runs.* `CalculatedInv` says that a stored run is what its input calculates to; both properties are about such a run. A unit with dated parties is calculated
   without its vacancy, and what the properties speak of is the same for both inputs (`Alike`).

ShadowSafety, SentStays and ReceiptsStand are proved and in no run.

Only model-checked: the liveness properties ConfirmationEnds, DeadSessionEnds, Settles, CloseEnds, MailArrives, JobEnds and RequestEnds. They need fairness and
ENABLED, which the provers do not treat. Every other property of a passing run is a theorem. None of the modules uses a recursive operator.

## 7 Disagreements between the code and what is said of it

Two have a run that reaches them, with the trace in TLC's output:

- `charging_orphan`: manual on looks only at the plug. With a session active and the plug off it opens a second session and forgets the first,
  which stays open; `stores_c.go:2265` takes an open session to be "live controller state".
- `letter_run_unsent`: two leases of one unit whose letters go to one address share a delivery; the second letter never leaves and the run is "Versandt".

Others were met while modelling and have no run of their own:

- `tickChargingTenant` clears the mark of the last alert in a newer document and then stores the older one it decided on; the next
  outage is silent (`charging_controller_test.go:226` expects one alert per outage).
- Item and ledger of the mail intake are two transactions, so a crash in between files the mail twice; the comment at `mail_intake.go:151` says
  that neither a crash nor a repeated fetch does. CopiesPerCut bounds it.
- `mail_intake.go:373`: after a failed triage any error of `Get` counts as an item that has disappeared; the item may be there, its mail is not recorded
  and the next poll files it again. CopiesPerCut counts it as a cut.
- `intake_pipeline.go:375`: the lookup of an item's issue takes a failed query for no issue, so handling makes a second one. It looks in one house:
  an item that has moved gets an issue there, too. HandledOnce is per house and allows one more for each such failure.
- `inbox.go:506`: a suggestion may be asked for while the item's own triage still runs, which takes no slot; both may then handle the item. HandledOnce,
  JobWorksAlone and CancelHolds leave this out (`early`).
- `vote_sql.go:328`: a vote that read the ballot before it was closed writes it back open; `vote_parity_hausv168_test.go:115` expects a closed
  ballot to refuse votes. CountsTrue holds while no write overtakes another.
- `votes.go:860`: support view shows an expired ballot as closed and hands its protocol out while its row is open; a vote whose request came before
  the deadline may still be written afterwards.
- `scoped.go:221`: the comment has a discarded connection budgeted by its pool's InUse until its socket is closed; the pool's own cleaner may take a
  connection after eviction has looked at InUse, and it is then beyond the budget until its socket dies (`slipped`).
- `scoped.go:233`: operations nested across tenants can wait for one another until their contexts end (`Knotted`).
- `identity_profile.go:269`: a profile edit that began before an organisation let the person go brings its role back, as a manual one.
- `identity_profile.go:233`: a new address moves the person and its rows, and the organisations' records stay with the old one. What they granted can
  then not be taken back by them, and taking the person on again under the new address is refused because the rows still carry their mark.
- `identity_sql.go:502` and `:510`: a failed query of somebody's houses answers with those read so far. A profile edit then deletes the others
  (`identity_profile.go:196`), and `RemoveTenant` the person with all houses (`identity_profile.go:393`).
- `identity_profile.go:378`: the rows left are counted before the person is deleted; a membership granted in between is deleted with the
  person.
- `energy_lifecycle_lock.go:12` keeps everything that writes energy data out of a deletion; the sampler writes without the lock.
  Deleting a history also leaves its buffer, so the running quarter is written with minutes from before.
- `energy_home.go:471`: the mapping step of the onboarding stores the mappings before it saves the profile they belong to.
- `home_connector.go:196`: a heartbeat in flight stores its readings after a revocation has emptied the store, and a pairing that fails revokes
  whichever connector is paired by then.
- `server/annual_statement_run.go:459` and `store/annual_statement_run_sql.go:360`: approval looks at the legal basis and at the archived draft
  before, and outside of, the statement that inserts the approval.
- `charging.go:123` brings a parked controller back to idle when the plug is found switched off, although `:197` says automatic starts stay blocked until the
  resident asks for them.
- `charging.go:329` closes the open session at boot for any answer but "on", also for "unavailable"; the comment at `:307` speaks of the plug off.
- `mailintake/imap.go:73`: one mail that does not parse fails the whole fetch, under a comment that one unreadable mail must not block the rest.
- `mail_intake.go:370`: a demo reset between storing and recording leaves a ledger entry without an item; `demo/mailbox.go:45` says only a
  successful import is recorded.
- `intake_pipeline.go:319`: a suggestion job cancelled during automatic handling still creates its issue; `:40` says that the caller keeps the item open.
- `intake_pipeline.go:363`: an item handled automatically from a template has no suggestion, and `restore` (`inbox.go:696`) answers with a conflict
  although `inbox.templ:213` offers the button.
- `org_settings.go:154`: counters and policy share a document that is read and written in separate transactions, so counting can bring back a policy an
  operator has just switched off; `intake_pipeline.go:15` calls the policy explicit and the handling fail-closed.
- `valorisation_sql.go:499`: cancelling is refused for a reservation that a dead process left behind, however old, although
  `valorisation_delivery.go:16` and `:22` bound how long a reservation counts.

## 8 What is not modelled

- **By choice of order** (section 2): handovers, rate limiter, Telegram, home reservations, issues beyond the inbox, migrations, parking bills.
- **Around the annual statement's calculation**: the entry of periods, receipts, keys and prepayments, the reserve, the
  proposals for the next prepayments, the replay of old calculation versions, approval, correction and the archive.
- **Inside the modelled parts**: prices, forecasts and texts of the charging controller; the settings form and the command-line switch
  that rewrite the tariff settings without the controller's mutex; UIDVALIDITY and renumbered mailboxes; the content of suggestions; the date and the archived
  PDF of a letter (a request that runs across midnight dates its letters by its start); changes to leases while a run is prepared;
  energy plans, tariffs and forecasts; permissions beyond the role of a membership; what a statement does with its connection.
- **Out of TLC's reach or of little use**: planning, tariffs and index arithmetic (large numeric domains), parsers and PDF layout (pure
  conversions), pages, generated templates and assets, and record keeping by single forms.
- **External services** (Home Assistant, IMAP, SMTP, the AI provider, PostgreSQL) appear through what the code can observe of them: an answer, an error, a
  timeout, a late effect. Transactions are atomic and isolated where the code takes a row lock or runs serializable; elsewhere the reads and the
  write are separate actions.

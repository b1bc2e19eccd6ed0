# A specification of monitor-grafana

TLA+ modules of the parts of monitor-grafana whose correctness depends on
interleavings, failures and time; TLC configurations that check them on small
instances; and TLAPS proofs of the results that matter most.  Paths are
relative to the repository; `PROJECT.json` names, for every definition that
models code, the lines it stands for.

    tlasany M.tla                          parse a module
    tlc -workers 2 -config X.cfg MCy.tla   check a run (its module and cfg: PROJECT.json)
    tlapm SdCacheProofs.tla                check the proofs of a module

## 1. The system

One Python process, the **exporter** (`monitor_exporter/`), holds most of the
program.  It runs, in threads of one process:

* the **checking thread** (`exporter.py`): loads the systems to check from
  Postgres, probes them, exports the outcome to Prometheus, logs it to
  Postgres, and deletes old log rows;
* **Flask request threads** on port 9119: the **admin UI** (`admin_ui.py`), with
  which people edit the catalog, and the **HTTP-SD endpoints**
  (`sd_endpoints.py`), from which Prometheus learns what to probe itself through
  its Blackbox exporter;
* the **data source sync** (`datasource_sync.py`), which brings Grafana's data
  sources in line with a table.

The **mail sidecar** (`smtp_to_graph/main.py`) is a process of its own: Grafana
sends it mail by SMTP and it submits it to Microsoft Graph.  Postgres, Prometheus,
Grafana and Microsoft are external.

    people --> admin UI --(monitored_system, lab, datasource)--> Postgres
                  |                                               |  |  |
                  | GET /api/user                     /sd/<type> -+  |  +- sync --> Grafana
                  v                                        ^         |
               Grafana                                Prometheus  checking thread
                                                           |         |  ^
                                                           +---------+--+ scrape, probe results

### Inventory

| Component | State it keeps | Operations | Hard behaviour | What makes it correct |
|---|---|---|---|---|
| HTTP-SD endpoints | `_cache` per type | a request: look up, fetch, store | two threads fetch outside the lock and store in any order; the table changes meanwhile; fetches fail | an edit is visible once it is 10 s old; every request ends |
| Grafana session check | `_auth_cache` per cookie | a request: look up, call, store, verdict | the same, and the failure of a call is cached like an answer | rights follow Grafana within the time-to-live, both ways |
| Check cycle | gauges, `CHECK_RESULT`, `_previous_check_labels` | load 8 types, probe, report, log, sleep; the first run in `main()` | eight loads see eight tables; exceptions leave at many places; scrapes between any two instructions | one result per check; results agree with gauges; each due system checked once per cycle, cycle after cycle |
| Health check log | rows, `_system_id_cache`, `_last_cleanup` | `log_check`, `log_check_batch`, `run_cleanup` | keys remembered while their rows go; batches as one transaction; errors swallowed | rows belong to the system that was checked; retention neither early nor late; what stays is logged |
| Catalog | `monitored_system`, `lab` | create, update, enable, delete | handlers of several autocommitted statements | keys unique; an id means one system; a lab goes only unused |
| Data source sync | Grafana's data sources | list, POST, PUT per row | stale listings, unanswered calls, people editing Grafana | lockstep with the enabled rows; nothing else touched |
| Mail sidecar | MSAL app and token, counters | `handle_DATA`, `send` | one message blocks the loop; submissions answered late, oddly or not at all; restarts | counters agree with replies; no 250 unless Graph accepted; all answered |
| Admin UI forms | the form in a browser, the row | new, edit, create, update, enable, disable, delete; `_validate`, `_coerce` | a form is older than the row it overwrites; every column is written; validation and coercion disagree; two copies of the code | what is accepted is checked; opening and saving changes nothing; what was saved is shown again |
| Blackbox join | `data` of one call | discover, scrape, expire (Prometheus); three queries, join, batch | targets are scraped and go between three queries, any of which may fail; answers are joined by (job, instance), which two systems, or the old and new labels of one, may share | a result is logged for its own system, with a code and a duration no older than it |
| Probes | - | `check_*`, version strategies | servers that answer anything, in segments cut anywhere | who is alive is up; what escapes a check is foreseen by the cycle |
| Backup script | dump files | dump, prune, verify | a failing dump after others are pruned | a good dump is always kept |

The remaining parts (`db.py`, dashboards, provisioning, alert rules, maintenance
scripts, Terraform, Helm, docs) keep no state of their own; section 9.

## 2. Modules

| Module | Models | State in the code |
|---|---|---|
| `TtlReads` | the promise of a read-through cache with a time-to-live: an abstract specification, of no code | |
| `SdCache` | `sd_endpoints.py`: `sd()`, `cached_fetch()`, `fetch()` | `cache` is `_cache`; `now`, `payload` are locals of a thread; `catalog` is the table |
| `AuthCache` | `admin_ui.py`: `require_grafana_auth()`, `_check_grafana_session()` | `cache` is `_auth_cache`; `sessions`, `reachable` are Grafana |
| `CheckCycle` | `exporter.py`: `main()`, `check_loop()`, `run_all_checks()`, the loaders and run loops, `_set_check_result()` | `gauges`, `results`, `previous` are the up gauges, `CHECK_RESULT`, `_previous_check_labels`; `targets` the loaded lists |
| `Probes` | `check_*()` of `exporter.py` as operators: a report, nothing or an exception, from what a server does; extends `CheckCycle` | none: one call, one answer |
| `Catalog` | `admin_ui.py`: create, update, delete of systems and labs; the tables' constraints | `systems`, `labs` and the sequences behind their ids |
| `HistoryLog` | `HealthCheckLogger`; `INSTANCE`s `Catalog` | `cache` is `_system_id_cache`; `history` the table; `last_cleanup` |
| `DatasourceSync` | `datasource_sync.py` | `table`, `grafana`, and the locals `rows`, `existing` |
| `BlackboxLog` | `log_blackbox_results()` of `exporter.py`, with the mappers of `sd_endpoints.py` | `discovered`, `samples` are Prometheus; `labels` and `value` are the local `data`; `query` is the place in the loop |
| `SystemForm` | the forms of systems: `admin_ui.py`, its templates, `_shape_target()` of `exporter.py` and the mappers | `stored` is the row; `form`, `reply` are a browser; `release` says which copy of `admin_ui.py` runs, the exporter's or the Helm chart's |
| `MailRelay` | the promise of a mail relay: an abstract specification, of no code | |
| `SmtpToGraph` | `smtp_to_graph/main.py` | `app`, `token`; `success`, `failure`, `refreshes` are the counters; `reply` is the local `resp`; `posted`, `accepted` are Graph |
| `*Proofs` | theorems of the module named; `AdminUiProofs` of `AuthCache` and `SystemForm`, `CheckCycleProofs` of `CheckCycle` and `Probes` | |
| `MC*` | the constants of the runs | |

How the code became actions:

* A section under a lock, and a statement of the database (connections
  autocommit), is one action; between two of them everything else may happen.
  Locals that live across that boundary are variables, one per thread.
* An exception goes where the code lets it: `FetchFails` ends a request,
  `LoadCannotConnect` empties one type, `LoadRaises` leaves the cycle or, in
  `main()`'s first run, the process (`Escapes`).
* A probe of `CheckCycle` is a choice of what it may report; `Probes` has the functions
  behind that choice.  Which checks can raise is in the
  constants `UrlParsed`, `JsonObject`, `FreeStatus` of `CheckCycle`: those
  that parse the url outside a `try`, that take answered JSON for an object, and
  that report a status as it was answered.
* The admin UI runs in the exporter's process and is started after the first run
  of checks: `CheckCycle` and `HistoryLog` let it act from then on only, and a
  restart ends its handlers.
* A process may be killed at any instruction (`Killed` of `CheckCycle`, `Restart` of
  `HistoryLog` and `SmtpToGraph`); its supervisor starts it with empty memory.
* A Prometheus answer is a set of samples in any order.  Of the items of one (job,
  instance) the code keeps the labels of the first and the value of the last
  (`FirstAndLast`).
* A text of a form is one of a few that the code treats differently: empty, blank, padded,
  zero, a number, one past `INT`, a text past its `VARCHAR`, garbage, and names.  The constants
  `Strip`, `Canonical` and `Mirror` are what `strip()`, `int()` and the template's
  `host:port` make of them, and `Fits` says what a column takes.
* The labels of a target are the job, the instance, the two ids and `about`, which
  stands for the names and groups: a renamed system is a new series, and
  Prometheus keeps the old one for its lookback (`Expire`).
* What Graph does with a message and what it answers are steps of their own:
  it accepts what has reached it at any time, and may answer 202, another 2xx, an
  error, or nothing.
* Variables marked *history* record what happened and are read by properties
  only; variables "for the bound only" count environment steps.

`HistoryLog` composes the logger with `Catalog`: its foreign key is what
`Catalog` sees as `referenced`, and `RespectsCatalog` checks that the composition
is a behaviour of `Catalog`.  `BlackboxLog` ends where `HistoryLog` begins: the names in
`logged` are what `QueryPrometheus` of `HistoryLog` hands to `log_check_batch()`.

A definition marked *BUG VARIANT* is not part of a specification.  It is a
plausible mistake in the definition after it; substituted there, it makes a
property fail, which shows that the property depends on that code.

## 3. What the runs check

| Run | Checks | Shows |
|---|---|---|
| `sd_cache` | `IInv`, `EditsVisibleAfterTTL`, `ImplementsTtlReads`, `EveryRequestAnswered` | an edit is seen by each request that begins a time-to-live later, in whatever order threads fetch and store; the endpoints implement `TtlReads`; no request hangs |
| `auth_cache` | `IInv`, `RightsFollowWithinTTL`, `ImplementsTtlReads` | who had the right role all the time is let in, who never had it is not; an outage is forgotten too |
| `check_cycle` | `IInv`, `OneResultPerCheck`, `ResultsAgreeWithGauges`, `CycleCoversCatalog`, `ChangesTakeEffectUnlessRaising`, `ServesAgain`, `ProbesAreForeseen`, `AliveIsUpAndDeadIsDown` | metrics and coverage of a cycle under edits, failures, exceptions and kills; if checks stop raising, what is due stays checked, and a process that was killed or died in its first run serves again; no check does what the cycle does not foresee, and reports are true unless a first segment is cut short |
| `catalog` | `IInv`, `DeletedStaysDeleted`, `LabWasUnused`, `IdsKeepTheirSystem` | what handlers of several statements still guarantee |
| `history_log` | `IInv`, `RespectsCatalog`, `KeepsYoungRows`, `BoundedAge`, `LoggedUnlessReplaced` | no row for a wrong system, with keys remembered from any earlier time; retention; what stays is logged, with the exception of `history_log_lost` |
| `blackbox_log` | `TypeOK`, `EveryResultIsLogged`, `AnswersInOrder`, `LoggedAgainAndAgain` | each result Prometheus has is logged once under its own name, unless another name has its job and url - for a system renamed just now, one of its results is; no status stands beside an older code or duration, unless two series shared the key; a system with a url of its own keeps being logged |
| `system_form` | `FormIInv`, `AcceptedIsChecked`, `OpenAndSaveIsHarmless`, `SavedFormIsShownAgain`, `FailuresAreKnown` | from the form to the row to the probe and back, in both copies of the code; each property names the exceptions it has |
| `datasource_sync` | `IInv` (with `CycleSyncs`), `Lockstep` | a calm cycle syncs what nobody else touched; in the end every enabled row agrees |
| `smtp_to_graph` | `IInv` (with `Accounting`), `NoFalseSuccess`, `ImplementsMailRelay`, `EveryMessageAnswered` | counters and replies agree, and a 250 means that Graph accepted the message or answered some 2xx; only the message being submitted can be delivered without its sender's being told so, whatever times out or is killed; no message is held up for ever, unless MSAL is |

## 4. Where the code and what is said of it disagree

Three runs have one property each, which TLC finds violated; the quoted lines and
what the code does instead are under "findings" in `PROJECT.json`.

| Run | Property | The counterexample in a sentence |
|---|---|---|
| `check_cycle_starved` | `ChangesTakeEffect` | an LDAP url with a bad port ends every cycle before the other types |
| `catalog_lab_race` | `DeletedLabIsUnused` | a system takes the lab's name between the count and the delete |
| `history_log_lost` | `ResultsAreLogged` | a system created anew is never logged until the process restarts |

`CycleCoversCatalog` does not contradict `check_cycle_starved`: it speaks of the
cycles that end.  `LabWasUnused` is what remains true of labs in spite of
`catalog_lab_race`, and `LoggedUnlessReplaced` what remains true of the log.

The models follow the code in more places where a comment or a user may expect
something else, and where a run would only restate a statement that is missing or wrong.
Each is a disjunct of the model, or an exception that a property names.

*Checks.*

* `exporter.py:1040-1042` promises to skip a cycle when the database is
  unreachable; a *query* that fails in `main()`'s count or first run ends the process
  (`CountRaises`, `LoadRaises`).
* A row that always makes its check raise ends the first run, too, and with it the
  process, before the admin UI is started (`exporter.py:1141`): the container restarts
  into the same row, which nobody can correct there.  `ServesAgain` assumes that
  checks stop raising.
* `exporter.py:959-961` promises that changes take effect within a cycle; the up
  gauges and results of a system that was disabled, deleted or renamed are never removed.
* Greetings of MySQL and replies of Redis are read with one `recv()`: a server whose
  first segment is cut short is reported DOWN.  A MySQL that hangs up at once is UP, and
  so is any server that accepts a MongoDB connection (`AliveIsUpAndDeadIsDown`).
* A version that is no string is accepted by `SYSTEM_VERSION.info()` (`exporter.py:660`)
  and makes the exposition of all metrics fail.  `CheckCycle` does not have that metric.

*The log.*

* A system with log rows cannot be deleted: `health_check_history` refers to it without
  `ON DELETE`, and the handler does not expect the refusal (`DeleteSystemFails`).
* Two systems of a type with one url share (job, instance).  One of the two is never
  logged, and the other may get its result, or its code beside its own status: what
  `EveryResultIsLogged` and `AnswersInOrder` except.  Nothing forbids them, and a test has it
  that "all probe results (UP and DOWN) must be logged" (`test_blackbox_logging.py:61`).
* A system that is renamed or regrouped has two series under one (job, instance) until
  Prometheus forgets the old one: it is logged under its name, with the result of either.
* A failed cleanup is repeated a whole interval later, for its time was noted before it
  was tried (`exporter.py:239`): rows stay that much longer (`BoundedAge`).
* An ICMP system with a `node_id` of its own is logged under that name, which is no
  `system_id`, or another system's (`Known` in `LoggedAgainAndAgain`).

*Forms.*

* A port 0 is accepted and never checked; in the chart's copy, so is a port that is no
  number, which is stored as NULL (`AcceptedIsChecked`).  The chart's `README.md:68` calls
  the two copies the "same content".
* Blanks in an integer field make `_coerce()` raise after `_validate()` passed,
  and no caller turns that into the "user-friendly form error" of its docstring
  (`admin_ui.py:249`).  A text longer than its `VARCHAR`, and a number past `INT`, make the
  statement raise, which nobody catches either; an SSL system without a group is answered
  "already exists" when created and an error when updated (`FailuresAreKnown`).
* The hidden url of a (host, port) type is rendered from the *old* host and port, so that it
  lags one save behind the columns it "mirrors" (`docs/runbook.md:179`).  Saving once
  more repairs it (`OpenAndSaveIsHarmless`).
* The edit form has an "Enabled" field (`systems_form.html:73-81`), and an update ignores it:
  `is_enable` is not in `ALL_FIELDS`.  A system saved as "Disabled" stays enabled.  The form of a
  lab has the same field, and there it works.
* The last of two editors wins, and the update of a row deleted meanwhile is reported as
  saved (`UpdateGone`).

*Data sources and mail.*

* `datasource_sync.py:11-13` speaks of an explicit delete that removes a data source from
  Grafana; neither the sync nor the admin UI sends one.  A changed secret is not a
  difference either.
* A PUT addresses the row's *name* as the uid.  A data source that has the name under
  another uid is never updated, and one whose uid is the name of another row is
  overwritten by that row's PUT.  `Compatible` names what is excluded; that it must be
  asked of the data sources *before* the cycle came out of the proof of `CycleSyncs`.
* `smtp_to_graph/main.py:160-163` logs every status but 202 as "Graph rejected message", but
  another 2xx does not raise: it is counted as a success and answered 250
  (`Succeeds`; the exception of `NoFalseSuccess`).
* `smtp_to_graph/main.py:201` reserves 5xx for permanent failure; a submission that timed
  out, and may have been accepted, is answered 550 (`PostFails`), and so is one that Graph
  accepted and a proxy answered with an error (`Refused`).  `MailRelay` says how far that can
  go: one message at a time.
* `ConfidentialClientApplication` is made without a timeout (`smtp_to_graph/main.py:92-96`),
  so that a discovery or a token call (`:104`) that hangs blocks the event loop, and all mail,
  for ever (`AskingMsal` in `EveryMessageAnswered`).

## 5. Bounds

Every bound is a constant named `Max...` in a guard of an *environment* action, so
that the program itself is never cut short.

* `SdCache`, `AuthCache`: two threads are enough for the two orders of
  fetch and store; a third could only repeat what one of them does, since a thread
  sees others through one cache entry.  Entries do not interact: one type (that a
  system may leave for another) and one cookie.  `TTL = 2`, `MaxClock = 3` let an
  entry expire and be used at its last moment; two edits let the value change and
  change back.  The proofs remove these bounds.
* `CheckCycle`: three types, one of each kind (url parsed, version only, free
  status), two systems, so that a system may be retyped across the load order while
  another is checked - which may be checked last, be off, or raise; one edit, which can be
  any of nine rows, and two failures or kills, so that a process may die again on its way
  up.  The proofs remove these bounds for what is not liveness.
* `Probes`: every cut of one answer per kind a protocol has, and every combination of code,
  body and field the HTTP checks look at.  Its two properties are about what
  every check may do while the cycle checks; they depend on the state in nothing else.
* `Catalog`: two threads, two names, two labs, ids up to 2: an id can be freed and
  the name given a new one.
* `HistoryLog`: ids up to 2 let a name be deleted and created again; `Retention` and
  `Interval` of 1 and a clock that goes from 1 to 4 let a row stay an interval too long.
  No liveness property is about time, so the clock may stop.
* `BlackboxLog`: one url, two systems that may share it, one a service or a node with or
  without a name of its own, that of the other system; one edit renames or retypes the first system,
  gives it a `node_id`, or creates the second, while Prometheus discovers and forgets targets as
  it likes; two scrapes *per cycle* let one fall between any two of the three questions; one
  question fails.  A second url would not meet the first: keys do not interact.
* `SystemForm`: six types, one of each shape of form; one user, who has any form open for
  any time while the row is switched and deleted.  The entries are the texts that
  `_validate`, `_coerce` and the schema tell apart - empty, blank and padded ones, a text past the
  column of a group, a number past `INT` - and a numeral (`"00"`) that is zero
  only after `int()`.  It has no counters, hence no bounds.
* `DatasourceSync`: two rows, of which either may be missing, off, or change its
  driver; an extra uid, a data source that has another's name for its uid, two edits, one
  edit by hand in Grafana, one failed call.
* `SmtpToGraph`: three messages, one unreadable, so that one may be handled while another
  waits behind it.  Failures, replies and restarts are not bounded.

## 6. Fairness

* `SdCache`: weak fairness of a thread that handles a request: the operating system
  schedules it, and Postgres answers or fails.  Requests, edits and time are not
  fair.
* `CheckCycle`: weak fairness of the checking thread and of the supervisor's restart
  (`restart: unless-stopped`) together: every call has a timeout, so that a check ends, by a
  report or by raising - which of the two is not fair.  Failures, kills and edits are not
  fair; their number is bounded, which is to say that the database is reachable in the end.
* `BlackboxLog`: weak fairness of the checking thread; a query is answered or times out.
  Scrapes, discovery and expiry are not fair: `LoggedAgainAndAgain` assumes a sample.
* `HistoryLog`: weak fairness of the checking thread and of Prometheus' periodic
  refresh.
* `DatasourceSync`: weak fairness of the sync thread; every call has a timeout.
* `SmtpToGraph`: weak fairness of the sidecar's own steps for each message (`Own`): the
  event loop serves its sessions in turn, and the submission ends after 30 seconds.  Nothing is
  assumed of Graph, nor of MSAL's calls, which have no timeout: that they end is a
  premise of `EveryMessageAnswered`.

## 7. Proofs

All proofs are checked by tlapm, with the SMT, Zenon and LS4 backends, for all values
of the constants that satisfy the modules' named assumptions (`SdCacheAssumption`,
`AuthCacheAssumption`, `CheckCycleAssumption`, `CatalogAssumption`,
`HistoryLogAssumption`, `DatasourceSyncAssumption`, `SmtpToGraphAssumption`,
`BlackboxLogAssumption`, `SystemFormAssumption`), which TLC evaluates in the runs.  What a
module's constants stand for in the code is said where they are declared.

**`SdCacheProofs` and, in `AdminUiProofs`, `AuthCache`.**  `EditsVisibleAfterTTL` and
`RightsFollowWithinTTL` are not inductive: a thread that answers from the cache
relies on who stored the entry, and that thread on what it fetched.  `IInv` says, in a
chain, of what each copy of a value was true *when*: what a thread is about to
store was true since the thread started (`FetchedSinceStart`); what is cached was true at most
the time-to-live before it expires (`CachedWithinTTL`), because the expiry counts from
before the fetch; what was answered was true after the time-to-live before the
request (`AnsweredWithinTTL`).  The history variable `moments` gives the
"was true" a meaning.  The promise follows: if all moments of the window agree, the
answer is what they agree on.  `Refinement` uses the same invariant as the witness for
`Answer` of `TtlReads`: a store or a hit is an `Answer`, a fetch a stutter.

**`AdminUiProofs`, on `SystemForm`.**  The texts are any set of strings, `Strip` any
idempotent operator on them, `Fits` any choice of what a column takes, `Canonical` any
idempotent function on some of the texts that leaves alone the numbers the code itself has
(`Literals`), `Mirror` any operator whose values are neither empty nor blank: with the few
facts of `SystemFormAssumption` that tie them, what the proofs know of `strip()`, the schema,
`int()` and the template's `host:port`.  `FormIInv` is inductive:
a row is `Sound` - it looks like something that passed `_validate()`, in the copy that runs -
an open form has all the fields it sends, and its type is that of the row it will
overwrite, for a row cannot change its type under a form, only go.
`AcceptedIsChecked` is then a matter of rows, type by type.
`OpenAndSaveIsHarmless` and `SavedFormIsShownAgain` are about the way round from columns to
texts and back: `ReopenedField` says what each field of a form that is opened again is
(the column, or a placeholder that means the same to `_shape_target()`), `ReadAgain` that
`_coerce()` makes of it what was there.  `FailuresAreKnown` is about every form that could
be sent: `MirrorFacts` says that the hidden url fits wherever the host and the port it was made of did,
so that the exceptions are matters of what was typed.

The proof of `SavedFormIsShownAgain` corrected the property: it excepted a timeout of `"0"` and
had to except whatever `int()` makes zero of (`"00"`: it is stored as 0 and shown as
30), but need not except a *name* "0".  The run has `"00"` since.

**`CheckCycleProofs`.**  `OneResultPerCheck` follows from `PublishedIsLast`: what is
exported for a system and check is the entry of `_previous_check_labels`.  That is
kept because a report in progress has removed the label set it replaces
(`ReportInProgress`).  `ResultsAgreeWithGauges` excludes the reports that an exception
left half done, which `halfway` names.  `CycleCoversCatalog` needs to know, in the middle
of a cycle, what is loaded and what is done: `LoadedFaithfully` says that the lists
loaded so far have exactly the due systems among those not edited, and
`CheckedFaithfully` that a system has either a pending target or has been
probed once.

Of `Probes`, `ProbesAreForeseenHolds` computes, from each check's definition,
which types raise, which report a status that is no text and which report nothing, and finds
the three tables by which `CheckCycle` is parameterised.  The theorem assumes the values that
the code's tables have, as `check_cycle` does; `check_cycle_starved` takes smaller ones on purpose, so that they
are no assumption of the module.  `AliveIsUpAndDeadIsDownHolds` rests on lemmas that
hold for greetings and replies of any content and length: `GreetingIsUp` (a NUL at or after
the sixth byte, and a segment that reaches it or is shorter than five), `StartupIsUp`,
`PingIsUp`.

**`CatalogProofs`.**  The tables' part of `IInv` is inductive by itself: new rows have ids
that were drawn from a sequence in the same step, which is also why an id keeps its
system (`IdsKept`).  What a handler of several statements may conclude needs `Remembers`
(the id it looked up was handed out before, and once its DELETE is done no row has it) and
`HasSeen` (a handler that goes on from its count has had a moment at which the lab was unused;
one still counting has had it, or the lab is in use).
`DeletedStaysDeleted` and `LabWasUnused` follow from these and not from the tables alone.

**`HistoryLogProofs`.**  The logger's invariant is that a remembered key was handed
out, and that the row that has it, *if there is one*, is the system's (`KeysAreTrue`); with
ids that are never reused, that is enough for `RightSystem`, though the row may be gone.  `Refinement` shows that
every step of the logger is a step of `Catalog` that only changes what is
referenced, or a stutter; the invariant of the catalog is then `CatalogProofs`' own theorem,
instantiated.  `BoundedAge` rests on `SweptAt`: since the last cleanup that did not
fail, no row is older than that cleanup's limit.

**`DatasourceSyncProofs`.**  `CycleSyncs` speaks of the end of a calm cycle; `Progress` says of
each name, in the middle of it, which part of Grafana it may touch (`Touch`: what
has the name or the uid), that this part is as it was listed while the row is
pending, and agrees once it is not.  Rows do not get in each other's way because the parts
of two names are disjoint where `Compatible` holds.

**`SmtpToGraphProofs`.**  `Accounting` compares counters with numbers of messages.  `Counted`
says what sets are counted, and the library's facts on cardinality that a step which
answers one message makes one of them larger by one; that no other message is answered
in the step is `AtMostOne`.  `NoFalseSuccess` needs `PostedOnce`: the reply that
`Succeeds` looks at is that of the message being handled, which was posted once, and not
of one whose submission timed out before it.  `Refinement` maps a submission by Grafana to a
`Send` of `MailRelay`, a POST to a `Hand`, an acceptance to a `Deliver`, an odd answer to a
`Doubt`, an answer to Grafana to a `Relay` or a `Refuse`, and a restart to a `BreakOff`; that no
more than one message is in Graph's hands unanswered is `AtMostOne` again.

**`BlackboxLogProofs`.**  `Joined` says of the dictionary, question by question: a success is
of a series seen, of its key, and each key seen has one; and the labels of a key that was
seen are those of a series seen with it.  Where all series of a key have one name, that is
the name logged, whichever of them it is of.  `NothingOlder` says that each sample
Prometheus has, and each that a later answer had, is either one that was seen when `success`
was asked for or newer than all of those (`SeenOrNewer`), because a scrape replaces the
sample of its series.  One that was seen is of the entry's own series, unless the key was
shared then: hence the exception of `AnswersInOrder`, and that it needs no other.

| Theorem | States |
|---|---|
| `SdCacheProofs`: `TypeCorrect`, `Invariance`, `EditsVisible`, `Refinement` | `[]TypeOK`, `[]IInv`, `[]EditsVisibleAfterTTL`, `ImplementsTtlReads` |
| `AdminUiProofs`: `TypeCorrect`, `Invariance`, `RightsFollow`, `Refinement` | `[]TypeOK`, `[]IInv`, `[]RightsFollowWithinTTL`, `ImplementsTtlReads` |
| `AdminUiProofs`: `FormInvariance`, `AcceptedIsCheckedHolds`, `OpenAndSaveIsHarmlessHolds`, `SavedFormIsShownAgainHolds`, `FailuresAreKnownHolds` | `[]FormIInv`, `[]AcceptedIsChecked`, `[]OpenAndSaveIsHarmless`, `[]SavedFormIsShownAgain`, `[]FailuresAreKnown` |
| `CheckCycleProofs`: `TypeCorrect`, `OneResult`, `ResultsAgree`, `Coverage`, `Invariance` | `[]TypeOK`, `[]OneResultPerCheck`, `[]ResultsAgreeWithGauges`, `[]CycleCoversCatalog`, `[]IInv` |
| `CheckCycleProofs`: `ProbesAreForeseenHolds`, `AliveIsUpAndDeadIsDownHolds` | `[]ProbesAreForeseen` with the code's tables, `[]AliveIsUpAndDeadIsDown` |
| `CatalogProofs`: `Invariance`, `IdsKeepTheirSystemHolds`, `DeletedStaysDeletedHolds`, `LabWasUnusedHolds` | `[]IInv`, `IdsKeepTheirSystem`, `[]DeletedStaysDeleted`, `[]LabWasUnused` |
| `HistoryLogProofs`: `Invariance`, `Refinement`, `KeepsYoungRowsHolds`, `BoundedAgeHolds` | `[]IInv`, `RespectsCatalog`, `KeepsYoungRows`, `BoundedAge` |
| `DatasourceSyncProofs`: `TypeCorrect`, `Invariance` | `[]TypeOK`, `[]IInv` with `CycleSyncs` |
| `SmtpToGraphProofs`: `TypeCorrect`, `NoFalseSuccessHolds`, `Invariance`, `Refinement` | `[]TypeOK`, `[]NoFalseSuccess`, `[]IInv` with `Accounting`, `ImplementsMailRelay` |
| `BlackboxLogProofs`: `TypeCorrect`, `Invariance`, `EveryResultIsLoggedHolds`, `AnswersInOrderHolds` | `[]TypeOK`, `[]IInv`, `[]EveryResultIsLogged`, `[]AnswersInOrder` |

**Only model-checked.**  Liveness (`EveryRequestAnswered`, `ChangesTakeEffectUnlessRaising`,
`ServesAgain`, `LoggedUnlessReplaced`, `LoggedAgainAndAgain`, `Lockstep`,
`EveryMessageAnswered`) needs `ENABLED`, which the prover does not support; induction
over recursive data is out of its reach as well, and no module here has any.  Every invariant
and every safety property of steps that a passing run checks is proved.

## 8. Plan

Done: `TtlReads`, `SdCache`, `AuthCache`, `CheckCycle` (with kills and restarts), `Probes`, `Catalog`,
`HistoryLog`, their composition, `DatasourceSync`, `MailRelay`, `SmtpToGraph`, `BlackboxLog` and
`SystemForm`; proofs of all.

Left, in this order:

1. `Monitor`: `Catalog`, `SdCache`, Prometheus' refresh and `BlackboxLog` composed; that an
   edit reaches Prometheus within the sum of the two periods, and is followed by log rows.
2. `BackupRotation`: dump, prune, verify over a directory of dumps.
3. What the sync does *not* touch in Grafana, in cycles that are disturbed, as an action property
   with its proof.

## 9. Not modelled

* Protocols beyond a first answer (LDAP, TLS, HTTP redirects) and the versions that probes and
  strategies find: `Probes` has what is reported, and what raises.
* Response times, versions, realm validity, certificates: values that no
  other part of the program reads.
* The label sets of discovery entries, except those by which `BlackboxLog` joins, and the HTML
  of the admin UI, except the values a form shows: functions of a row.
* The forms of labs and data sources: their statements are in `Catalog` and
  `DatasourceSync`.
* Memory: `_auth_cache` keeps an entry for every cookie value it has ever seen.
* Secrets of data sources: sent along, never compared.
* A mail client that drops its own connection: Grafana waits for its answer, or for the
  sidecar's restart to end the session.
* A configuration with Postgres disabled, in which nothing is checked.
* SQL typed into the database by hand, except through what the admin UI can do.
* `db.py`'s resolution of hosts and passwords: stateless.
* Dashboards, alert rules, provisioning, Terraform, Helm, the maintenance scripts and the
  smoke test: data, configuration of external programs, or one-shot reports.  The
  Helm chart's copies of the Python sources are modelled through `monitor_exporter/`, except
  for the form handlers, where `SystemForm` has both.  The chart's `exporter.py` differs in the
  version strategies, which are not modelled in either.

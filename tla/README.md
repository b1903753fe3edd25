# TLA+ models of Apmec

Apmec is a MEC orchestrator in Python, a fork of OpenStack Tacker: an API server with two plugins over one database, a conductor, and workflows in Mistral. It manages *VIMs* (OpenStack sites), *MEAs* (applications, one Heat stack each, described by MEADs) and *network services* (NS, several MEAs, described by NSDs). The modules here model the parts whose correctness rests on the order of transactions, driver calls and messages. TLC checks them on small instances, TLAPS proves the main invariants for all values of the constants.

Paths are relative to `src/apmec/` unless they say otherwise.

## 1. Inventory

| Part | State | Operations | Interacts with |
|---|---|---|---|
| MEM plugin: `mem/plugin.py`, `db/mem/mem_db.py` | rows of MEAs (status, instance, attributes), MEADs | create, update, delete, scale an MEA; `_pre` and `_post` transactions; policies and triggers | infrastructure, management and monitor drivers; green threads |
| Policy actions: `mem/policy_actions/` | none | respawn, log_and_kill, autoscaling, log | called by the monitor thread or by an alarm's request; call the plugin and Heat |
| MEA monitor: `mem/monitor.py` | dict of hosted MEAs, one RLock | add, delete, mark dead, the loop | one thread for all MEAs, runs actions while it holds the lock |
| OpenStack driver: `mem/infra_drivers/openstack/` | none | create, update, delete, scale and their waits | Heat, by polling |
| MEO plugin, NS: `meo/meo_plugin.py`, `db/meo/ns_db.py` | rows of NSs and NSDs | create and delete NS, NSD | Mistral executions, which call the API for each MEA |
| MEO plugin, VIMs: `meo/meo_plugin.py`, `db/meo/meo_db_plugin.py` | rows of VIMs and their credentials, key files or Barbican secrets | register, update, delete | VIM driver, Barbican, MEAs placed on the VIM |
| VIM lookup: `mem/vim_client.py` | none | `get_vim`, by id or the default | reads rows and keys for the MEM plugin |
| VIM monitoring: `meo/workflows/vim_monitor/`, `conductor/`, `common/rpc.py` | an action's status and flag; the process's table of timeouts | ping, report, kill | Mistral runs the action, RPC to the conductor, which writes the VIM's row |
| Start of the server: `cmd/eventlet/`, `service.py`, `wsgi.py`, `api/extensions.py`, `manager.py` | extensions, attribute maps, plugins, routes, the socket | load, extend, route, listen, stop | other processes on the port |
| Pipeline: `wsgi.py`, `auth.py`, `alarm_receiver.py`, `etc/apmec/api-paste.ini` | none | alarm URLs, Keystone's headers, extensions, content types | Keystone's middleware, the controllers |
| Controllers: `api/v1/`, `api/api_common.py`, `extensions/`, `policy.py` | none | prepare a body, create (in bulk), show, update, delete, list in pages | call the plugins, ask the policy engine |
| Templates: `mem/infra_drivers/openstack/translate_template.py`, `catalogs/tosca/` | none | TOSCA to HOT | external parsers, Heat |
| Base: `db/db_base.py`, `common/`, `keymgr/`, migrations, events | - | - | - |

What is hard here:

* **Only the status column orders the threads.** A request is served in the API's thread and finished in an eventlet green thread. The monitor and alarms work on the same MEA. Each has a private copy of the row (`mea_dict`). No lock spans a request. A transaction selects the row by a set of statuses and raises when it is in no other.
* **External calls fail, or take long, between two transactions**, and exceptions of green threads reach nobody.
* **A restart forgets the green threads**, while the row keeps its pending status.
* **Keys are in no transaction**: a VIM's password is a column, the key that decodes it is a file or a secret.
* **Messages are lost or late**: a kill is a cast, a report a call with a timeout that grows.
* **One creation is several transactions**: an inline MEAD is committed before its MEA; a bulk creation makes its objects one by one and takes them back when one fails; other calls see both.
* **An alarm's meaning travels as text** through attributes, a Heat template, a URL and back, and a template is split in two when VDUs are scaled.

What makes each part correct: an MEA's row never names the wrong stack, and never disappears before its stack; at most one update and one deletion work on it; a pending status ends. An NS's creation is not written over a deletion. A registered VIM's password can be decoded. A VIM's row shows what its monitor believes. A wait that returns normally tells the truth about Heat. A failed creation leaves nothing behind, an inline MEAD goes with its MEA. What the table of a resource holds was validated, and was changed by who may. The stack made of a template is whole, and an alarm runs the actions its trigger names. `PROJECT.json` lists the hazards by line, with the property that would catch each.

## 2. Modules

| Module | Models | Extended by |
|---|---|---|
| `MeaLifecycle` | one MEA: row, stacks, monitor entry, threads | `MCMeaLifecycle`, `MeaLifecycleProofs` |
| `MeaContract` | abstract: the edges of an MEA's status | instantiated by `MeaLifecycle` |
| `HeatWait` | the driver's calls and polling loops, with Heat beside them | `MCHeatWait`, `HeatWaitProofs` |
| `NsLifecycle` | one NS: rows of NS and NSD, executions, MEAs, threads | `MCNsLifecycle`, `NsLifecycleProofs` |
| `NsContract` | abstract: the edges of an NS's status | instantiated by `NsLifecycle` |
| `VimRegistry` | VIM rows, keys, MEAs placed on VIMs, request threads | `MCVimRegistry`, `VimRegistryProofs` |
| `VimMonitor` | one VIM's monitoring action, conductor, RPC timeouts, deletions | `MCVimMonitor`, `VimMonitorProofs` |
| `RequestBody` | values of a request body; the validators and converters of `api/v1/attributes.py` | extended by `ResourceTables` |
| `ResourceTables` | the attribute tables of `extensions/`; `prepare_request_body` | `PolicyRules` |
| `PolicyRules` | `policy.json`, the owner and field checks, what a query shows a tenant | `WsgiPipeline` |
| `WsgiPipeline` | the middlewares from `api-paste.ini`, and the job a request becomes | `ApiRequest` |
| `ApiRequest` | `Controller`: concurrent calls on one resource | `Paging` |
| `Paging` | `index` with its emulated sorting and paging; a client that follows the links | `ApiServer` |
| `ServerStart` | the process from `main()` to its listening socket, and its stop | `ApiServer` |
| `ApiServer` | composition of the last seven | `MCApiServer`, `ApiServerProofs` |
| `Catalog` | MEADs, onboarded and inline, beside the MEAs made of them | `MCCatalog`, `CatalogProofs` |
| `MeadTemplate` | operators: what Apmec does to a template around heat-translator | `AlarmPath` |
| `AlarmPath` | one MEAD from its creation to an alarm's actions | `MCAlarmPath`, `AlarmPathProofs` |

### MeaLifecycle

`status`, `deleted`, `instance`, `count` are the row (`count` is the attribute `failure_count`); `heat` and `name` are the stacks Heat has made; `hosted` and `hosting` the monitor's entry, with the `mea_dict` in it. Per thread: `pc`, and its private copy `inst`, `fails`, `snap`. A step is one database transaction or one driver call; the name of a `pc` is the call that comes next (`create.post` is `_create_mea_post`). A request's thread either goes on as a green thread or ends. The nested calls are there: the failed creation that deletes, the creation and respawn that configure through `update_mea`. `Restart` sets every thread back. `FailFast` selects whether changing a dict while iterating raises (Python 3) or may pass.

`MeaContract` says the same of the row alone: which status may follow which, when the instance may be recorded, that a deleted row stays as it is. `ImplementsContract` is the refinement; the mapping is the identity on `status`, `deleted` and `instance`.

### HeatWait

`MeaLifecycle` takes the end of a wait as one of two outcomes. `HeatWait` is the loop behind it: `tries` is `stack_retries`, `known` the status of the last answer, `last` the event id read before a signal. Heat (`stack`, `newest`, `signals`, `busy`) is external: it moves when it likes, may be slow to show a deletion, and may drop the record of a deleted stack at any time. `Poll` stands for the loops of `create_wait` and `delete_wait`, which differ only in the statuses and in what NotFound means.

### NsLifecycle

`status`, `deleted`, `ids` are the row of the NS; `nsd` that of its descriptor; `run` and `task` the executions in Mistral, whose tasks create, await and delete the MEAs (`mea`). The green thread polls `MISTRAL_RETRIES` times, reads the execution once more, deletes it, and writes its outcome. Deletion starts its execution *before* it asks the status, as the code does.

### VimRegistry

`cred` is the key a VIM's password is encrypted with; `file` and `secrets` are the keys that exist. `UseBarbican` selects between the two stores. `create_vim`, `update_vim` and `delete_vim` are cut where they leave a transaction, which is more often than one would think: the check for MEAs and the reading of the row are two (`FindUnused`, `ReadKey`), `create_vim` writes its event after the row's commit (`CreateEvent`), `update_vim` reads the row again after its own (`UpdateReread`). An exception there runs the undo although the row is committed, and a deletion whose transaction fails has deleted the key already. The code loses a key in these three cases; `late`, a variable of history, has the keys concerned, and `CredentialKept` says that there is no other case. `CreateMea` and `InsertMea` are the lookup and the insertion of an MEA, between which the VIM may go.

### VimMonitor

`creator` and `deleter` are the threads that start and stop the monitoring; `pc`, `current`, `seen`, `killed` are the action; `inbox`, `request`, `reply` the bus. A timeout is a multiple of `rpc_response_timeout`; `TimesOut` is `_ContextWrapper.call` with its doubling, `OtherTimesOut` the calls of other actions in the same executor. `SetMaxTimeout` lowers the ceiling and the timeouts kept (`ceiling`, `Ceilings`); nobody in the repository calls it, but it is offered to whoever uses a client, at any time. A method nobody has called yet then begins with the ceiling instead of the default, which is why `own` is 0 before the first call. Comparing and writing the timeout is one step: the executor's threads are eventlet's, and nothing between the two gives way. `reset_timeouts` is called when a process ends its messaging, and left out.

### The refinements

Two abstract specifications say what a client may rely on. `MeaContract` has the row of an MEA alone, `NsContract` that of a network service; `Contract == INSTANCE MeaContract WITH ...` in `MeaLifecycle` and the same in `NsLifecycle` give the mappings. The abstract specification is a property of a run (`ImplementsContract`, `ImplementsNsContract`) and a theorem (`ContractKept` in both proof modules).

### RequestBody, ResourceTables, PolicyRules, WsgiPipeline

Pure operators. A value of a body is a record of its Python type; a text is one of the kinds that the validators tell apart, which the constant `Form` fills. A validator is translated as a predicate that yields "ok", "no", or "raises" where the code raises on a value of another type. `ResourceTables` has one entry per attribute, with its default, converter and rule; `PrepareBody` is `prepare_request_body`, in the code's order, and returns the items or the exception. `Verdicts` is `policy.enforce` for the rule that a request and the attributes it sets explicitly ask for. `Through` sends a request through the middlewares and `Served` is what comes out: a job for the controller, or an answer.

### ApiRequest, Paging, ServerStart, ApiServer

`rows` is the plugin's table, a function from ids to attributes. A call (`pc`, `job`, `items`) gives way at every query, so between loading a row, permitting the call and acting on it the others run; `made`, `undo` and `kept` are the locals of `_emulate_bulk_create`. What the plugin raises is any of `Raises`, before or after its insert. `Fetch` is one page for a client that follows the `next` link until there is none.

`ServerStart` has one action per step of the start. `waiting`, `turn` and `before` are the loop of `extend_resources` over a dict whose order is any (`Extend(e)` for any `e` of the rest of a pass). In `ApiServer` requests are served while the process listens; a stop cuts them where they are, keeps the rows, and loses everything loaded. `AllowBulk` is TRUE: `resource_helper` leaves it off for the main resources, `extensions/mem.py:489` turns it on for sub-resources, and so do the repository's own tests (`src/apmec/tests/unit/test_api_v2.py:867`).

### Catalog

`MeaLifecycle` has one MEA and no descriptor. `Catalog` has several of each, cut at the transactions that touch both: `create_mead`, `_create_mea_pre`, the failures between them, `_delete_mea_pre` and `_delete_mea_post`. `deletedAt` has the three values the column takes, because the check of `delete_mead` confuses two of them: it compares with NULL what is never NULL, so an MEAD in use can be deleted, and creations and deletions meet MEADs that are gone. `asked` and `early` are history: the MEADs a client deleted, and those whose creation ended before their MEA had a row.

### MeadTemplate, AlarmPath

A template is a record of VDUs, connection points, volumes, attachments and policies; a HOT template is a function from resource names to types and properties, where a property is a value or a reference. heat-translator is external: `TranslatedMain` and `TranslatedNested` have what the code after it relies on. `AlarmPath` follows one MEAD: `AddAlarmUrl`, `Parse`, `Translate`, then alarms that fire, travel and are carried out one action at a time. A name is a sequence of its parts between hyphens, which is what `split("-")` tells apart. `HexPart` holds the names whose first two characters after a `%` are read as a character; such a name arrives as `Garbled`, which is no name of the template.

`WellFormed` is what the parsers let through and what the passes rely on: nodes, triggers and the resources made of VDUs (`VDU1_flavor`) have different names, a connection point's VDU and an attachment's volume exist, there is one scaling policy at most and its targets are VDUs. `TemplateAssumption` asks it of all `Templates`.

## 3. Runs

| Run | Question | Instance |
|---|---|---|
| `mea_faults` | do the exclusions hold, and the contract, with every fault and a restart? | 2 workers, monitor, 2 stacks, 3 requests, 1 restart; both policies |
| `mea_progress` | does every pending status end, is an ACTIVE MEA served by its recorded stack alone, and does its count only grow? | 2 workers, monitor, 3 stacks, 2 requests, failing creations and deletions, no alarms, fairness |
| `heat_waits` | do waits tell the truth, forgive a failing request, and end? | 3 tries, 3 events |
| `ns_requests` | are creation and deletions of an NS kept apart? | 2 nodes, 2 workers, 3 executions, 2 deletions, 1 restart, all faults |
| `ns_progress` | does a pending NS settle? | the same, no faults, fairness |
| `nsd_in_use_doc` | is an NSD in use kept? | violated, see 6 |
| `vim_barbican` | is the key of a registered VIM kept, but in the three cases of `late`? | 2 VIMs, 1 MEA, 2 workers of which one updates, 3 keys, all faults |
| `vim_undo_doc` | a comment on the undo | violated, see 6 |
| `vim_monitor` | does the row follow the action, is a late report its last, and does the action end? | 1 VIM, 2 deletions, all faults, a ceiling of 3 that may be set |
| `api` | what may a start, failing and concurrent calls, and a walk through pages do? | 2 calls out of 26 requests on VIMs of 2 tenants and an administrator, 5 ids, pages of 1, 3 extensions, 1 start, a port window of 2 |
| `alarm_path` | is the stack whole, and does an alarm do what its trigger says? | 2 VDUs with each property unusual in turn, 3 connection points, 9 lists of policies, a volume, old and new Heats |
| `catalog` | does an inline MEAD go with its MEA, and only with it? | 2 MEADs, 2 MEAs, 2 threads, 2 names, 1 restart, every failing call |

**Bounds.** Every constant called `Max...` is a guard on an event from outside. Three requests are the least that let an update, a deletion and a monitor's failure meet; two stacks are the first and its replacement, three a second respawn. A row knows two threads at once at most, because the third is refused by the same guard as the second. Two nodes tell "all" from "some". Three tries leave a first, a middle and a last. Three keys are those of two VIMs and an update, or of one VIM and two updates. Two calls meet in every pair of steps of `ApiRequest`, and a bulk creation of two objects has one to undo when the second fails; five ids leave rows on both sides of a marker. Three extensions are one that is required, one that requires it and one whose requirement is absent. Two MEADs and two MEAs let two MEAs share one inline MEAD and a third request meet it deleted. The proofs need none of these bounds.

`SYMMETRY` is used in safety runs only, over workers, stacks, nodes and executions, none of which is compared other than by equality. Deadlock is not checked where the requests of an instance are bounded: the system stops when they are used up.

**Fairness.** A thread that can run, runs (`WF_vars(Work(t))`): eventlet and the operating system schedule every thread, and every call of a driver returns or raises. Heat ends deletions it began in `mea_progress` only. Of Mistral, MEAs, users and, in `vim_monitor`, of the conductor and the bus, nothing is assumed; a call ends by an answer or its timeout. `ns_progress` has no faults and `mea_progress` only those of Heat's create and delete, because an exception outside the handlers (`ThreadDies`; a failing `get` in `update_wait`, which nothing catches) leaves the status pending: the code does so and no document denies it.

In `api` only the start is assumed to go on (`WF` of `Starting`); that the port becomes free is not. `alarm_path` and `catalog` check safety alone.

**What the restrictions leave out.** `mea_progress` has no alarms: two actions at once may leave two live stacks. `vim_barbican` has one updater: two at once lose a credential. The hazards concerned say so. `StackStands` is asked of templates whose scaled VDUs have the management ports and no volume: with others the code makes stacks that do not stand. `AlarmsAreWired` is asked for one alarming policy, since with two the URLs are taken from the first and the metadata from the last. `AlarmDoesItsActions` is asked where actions can be told apart (`ToldApart`): the name of a scaling policy has no hyphen, is not that of a default action, and is not the first of two parts of another policy's or action's name. Elsewhere `sp1-out` is a policy's name and a direction of another.

## 4. Proofs

All are by TLAPS, for every value of the constants under the assumptions in the modules (`StackAssumption`, `ThreadAssumption` and so on). Each `...Proofs` module has an inductive invariant, the lemma that `Init` implies it, one lemma per group of actions that keeps it, and the theorems that follow.

* **`MeaLifecycleProofs`**: types; `UpdateExclusive`, `DeleteExclusive`, `ServingHasInstance`, `DeletedStackGone`; refinement of `MeaContract`. The two exclusions are inductive beside the types. `ServingHasInstance` is not: it needs `Recorded`, which says what a creating thread has recorded when it reaches the step that writes ACTIVE. `DeletedStackGone` needs `Buried`: a thread about to soft-delete the row has seen its stack go, and nothing wakes a stack that is gone.
  Its last part proves `ActiveStackIsTheStack` and `CountGrows`, for MEAs no alarm acts on (`~Alarmed`: two actions at once may leave two live stacks), with all faults and restarts. Neither is inductive. The strengthening, on top of the invariant above: which thread may create and when (`Users`, `TheMonitor`: a request's thread only before the monitor has an entry, the monitor's only after it marked the MEA dead), that nothing exists before the row (`Before`), that the old stack is killed before a new one is made and what the creating thread knows of it (`Making`), and that the monitor's entry and each thread that will act on a serving MEA hold its recorded stack and count (`Served`).
* **`NsLifecycleProofs`**: types; `CreationNotOvertaken`, `OneDeletion`, `DeletedAreAsked`; refinement of `NsContract`. The strengthening is `Equipped` (what a thread holds at each point), `OneBirth` (one thread inserts the row, and until the creation ends no MEAs are recorded), `Informed` (a deletion that has not begun knows the row's MEAs, so it was requested after the creation ended) and `OutputWhole`. `Informed` is why `create_ns_post` may ignore the status. `DeletedAreAsked` needs more (`AskInv`): until MEAs are recorded there is one execution at most, and once they are, none creates or awaits an MEA any more, so that what a task asked to go is not created again (`OneExecution`, `CreationOver`); an execution belongs to one thread and stays until that thread deletes it (`Held`); each MEA a deletion knows has a task that is still to be done, has failed, or has asked the MEA to go (`Carried`); and an execution that was seen to succeed has no other tasks than done ones (`Succeeded`).
* **`VimMonitorProofs`**: types, with the timeout below the ceiling of the moment; `ReportedIsRecorded`, `LateReportIsLast`. The strengthening: before the row there is no action, one message of the call is under way, an answer not yet taken is what the row says, and between two calls the row has the status reported last (`InStep`).
* **`HeatWaitProofs`**: types; `WaitsTellTheTruth`, `BlipsIgnored`. The strengthening says what the driver knows at each point, and that a good status, once seen, lasts.
* **`VimRegistryProofs`**: types; `CredentialsKept`, for Barbican and at most one thread in `update_vim` at a time, with any number of creations and deletions beside it, and the three failures of section 2 set apart by `late`. The strengthening says who knows which key: rows have keys of their own (`OwnKeys`), a VIM is created by one thread (`OneCreator`), a key no row has named is its maker's alone and stored (`FreshKeys`), the key a thread may delete is named by the row it read or by none (`HeldKeys`), and an updater's two keys are told apart (`Updating`). Both assumptions are needed: of two updates of one VIM, each deletes the key it read and either may write the row last; and a key file is replaced before the row is written.
* **`ApiServerProofs`**: types, and all the safety properties of the API.
  * `RequiredFirst` and `NoneLeftReady`, for any extensions and requirements, cycles included: while a pass runs, what was processed since it began is what `Progress` will see, and an extension that was passed over was not ready when the pass had processed nothing (`LoopInv`).
  * `FailedLeavesNothing`, for any tables, policies, requests and number of calls: while a call undoes, each object it made is still to be deleted, gone, or among those whose deletion failed; an id is given once, so that nobody else's object takes its place (`UndoInv`).
  * `OwnersOnly`: what a call will write was prepared from its own request (`ItemsInv`), and a call that has passed the policy owns what it is about to write or to undo (`OwnInv`). It asks of the rules that an update or deletion be an administrator's or the owner's (`WritersAreOwners`), and of the tables that no request changes a tenant (`OwnersStay`).
  * `StoredIsValid`: a stored row is made of converted values, and converting twice changes nothing; from rows that are valid at the start (`ValidFromStart`, which also leaves out MEAs and NSs, where a request may skip the validation of an attribute).
  * `WalkSeesStable`: what a walk has not seen yet and was there throughout comes after its marker in the order of the table, and a page is the next part of that order (`WalkInv`, `RowsInv`). It asks that whoever sees a row may read it, that no update shares a row or takes it back (`ListedAreRead`), and that owners stay.

  `MCApiServer` assumes these four of the shipped rules and tables (`ShippedAssumption`), so TLC evaluates them on each run.
* **`CatalogProofs`**: `OnlyEarlyFailuresOrphan`, `InlineGoesWithMea`. The strengthening: each request knows its descriptor or its MEA, whose row names one (`Known`), and an MEA marked for deletion has one request that deletes it (`OneDeleter`).

* **`AlarmPathProofs`**: all four properties of the run, for every set of well-formed templates, every Heat and every `flavor_extra_specs`, and any number of alarms.
  * The stack: `Kinds` says which resources heat-translator leaves and what they refer to, `Furnished` that they carry metadata, flavor, image and alarm properties. Each pass has a lemma of what it adds and leaves alone (`AlarmsPass`, `OneKindMade`, `VolumesPass` and so on); `MainMade` puts them in the order of `post_process_heat_template`. `Closed` says that each reference resolves in its own template: a server refers to its ports, flavor and image, which are made where the server is; an attachment to its volume and server, which is why `StackStands` needs `Splits`.
  * The alarms: the invariant `PathInv` is `StageInv` (the URLs are those of the first alarming policy, the stack is what the passes make) and `AlarmInv` (what an alarm has done and has still to do are actions its words name, and once it was read on an ACTIVE MEA all of them). The rest is the lemma `WordTold`, that under `ToldApart` a word is read as the action it was sent for; a garbled one is read as none. None of the four properties is inductive: each speaks of the end of several passes or steps.

Model-checked only: liveness (`PendingEnds`, `NsPendingEnds`, `WaitsEnd`, `MonitorEnds`, `StatusFollows`, `StartEnds`), which under fairness is beyond the prover; `VimRegistry` with keys in files, where the run finds what the code does to them.

## 5. Not modelled

* Outside: tosca-parser and heat-translator, Heat, Mistral, Aodh, Keystone and Barbican are what the code relies on of them, and no more.
* Without state or effect on the properties: the texts of templates, answers and logs; the contents of events, which nothing reads back; migrations, which an operator runs while the service is down; what ping, HTTP and management drivers send and measure; subprocesses and SSH.
* That an event cannot be written raises. With VIMs this decides over a key, and `VimRegistry` has it. With MEAs and NSs it is left out: where the event follows the commit, the request or its green thread ends there, with the row as committed, as it does when the call after it fails (`ThreadDies`; after a scaling the handler finds the row no longer scaling, and raises again); where it is inside the transaction, that is rolled back, and `MeaLifecycle` and `NsLifecycle` have no failing transactions.
* Of the API: notifications, selection of fields, native paging and bulk, member actions, request extensions; `api_workers > 0`, which forks after the start modelled here; periodic tasks. Under Python 3 the loop of `extend_resources` deletes from the dict it iterates over and raises RuntimeError at once: the model has Python 2's lists.
* Of templates: parameters and their substitution by tosca-parser, substitution mappings without requirements or with ill-formed ones (the code raises), VL networks, software configurations read from files, more than one scaling policy (the code reads the first).
* Of MEAs: `Catalog` has no updates and no scaling, which touch no descriptor. When two MEAs were made of one inline MEAD, the deletion of the first takes the MEAD, and that of the second is rolled back with MEADNotFound and stays in PENDING_DELETE: `Catalog` reaches it, and no document speaks of it.
* `MeaLifecycle` and `NsLifecycle` have one MEA or one NS because no transaction there touches two rows of that kind.

## 6. Findings

* `vim_undo_doc`: `meo/meo_plugin.py:177` says the old credential is still used after a failed update; with key files the undo removes the only key. With Barbican the comment is wrong too when the query after the commit fails (`UpdateReread`): the row has the new credential then.
* `nsd_in_use_doc`: `src/api-ref/source/v1/nsds.inc:162` promises the same of NSDs; the check compares with NULL a column that is never NULL.

Met while modelling, without a run: `src/doc/source/user/scale_usage_guide.rst:165` lists the states of a scaling, and a monitor that fires meanwhile takes the MEA to DEAD (`db/mem/mem_db.py:674`); `src/api-ref/source/v1/vims.inc:253` promises that only unused VIMs are deleted, and the check and the deletion are two transactions; `delete_mead` has the comparison of `delete_nsd` (`db/mem/mem_db.py:320`).

## 7. Plan

Done: the components above, two contracts and their refinements, eight modules of proofs. Next, in this order:

1. A composition of `HeatWait` and `MeaLifecycle`'s waits: each outcome there is one that `HeatWait` reaches.
2. `AlarmPath` as a refinement of the alarms of `MeaLifecycle`.
3. Transactions that fail of themselves, events included, in `MeaLifecycle` and `NsLifecycle`.

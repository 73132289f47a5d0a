# TLA+ models of migration-planner's smart-state service and agent UI

This directory holds TLA+ models of the two stateful programs under `src/`, the
TLC configurations that check them, and `PROJECT.json`, which records the
components, runs, mutants, the source lines each definition models, the
findings and the hazards.

## The system

* **Smart-state service** (`src/smart-state/service.rb`, 178 lines). This is a WEBrick server.
  * `POST /init_scan` parses `{server, username, password}`, answers 200 at
    once, and starts a Ruby `Thread`. The thread:
    * connects to vCenter (`MiqVim.new`);
    * lists the VMs;
    * for each VM, in order: re-reads the VM cap (`max_vms_to_scan`: the file
      `max_vms_to_scan.txt` wins over `MAX_VMS_TO_SCAN`), breaks when
      `vm_count` reaches it, skips VMs with an empty datastore path (without
      counting them), opens the VM, and extracts each category under
      `Timeout.timeout(timeout_sec)`, recording data, an error or a timeout.
      `timeout_sec` is `ENV['SMART_STATE_SERVICE_TIMEOUT_SEC'] || 20` (line 19);
    * writes the aggregate JSON to `/tmp/smart-scan-results.json` with
      `File.open(path, 'w')`;
    * disconnects in an `ensure`.
  * `GET /results` returns the file verbatim (200), or 202 when there is no
    file, or 500.
  * Other methods get 405.
  * Nothing stops two scans from running at once. The file is the only state
    they share with each other and with readers.
* **Agent UI** (`src/agent-ui/js`). This is a browser page with a small store
  (`store/index.js`) and a view (`views/form.js`) that re-renders on every
  commit.
  * On load it fetches the agent status, version and URL.
  * The login button validates the URL and the username with regexes, then
    PUTs the credentials.
  * When the PUT succeeds, a `setInterval` polls `/api/v1/status` every second.
  * An `up-to-date` answer clears the stored interval and shows the inventory
    view.
  * Responses arrive in any order. Each JavaScript task runs to completion.

Parts not modelled:
* the Observable/component base classes. They only subscribe `render` to the
  store's `stateChange` event in a constructor. The `Store` class that
  publishes the event (`store.js`) is not in the repository. `AgentUI`
  evaluates `Page` in every state, which is the re-render after each commit
  that they set up.
* the `internal/agent` store. It has no actions or mutations, only one
  constant field, so nothing in it changes state.
* the debug-auth shim `authFetch.ts`. It is a fetch wrapper that adds a token
  header to each call, with no state of its own and no error handling.
* the inventory library (MiqVim/MiqVm), which is external. Its outcomes are
  nondeterministic choices: connect, listing and open may fail; an extract may
  return, raise or hang.

## Modules

| Module | Models |
|---|---|
| `SmartStateService.tla` | Server, scan threads, result file, crash/restart, the cap file edited during a scan |
| `ScanJob.tla` | Abstract scan job (spec.md §3–4): start, one session, at most one result, leaves Running once |
| `MCSmartStateService.tla` | Model values: 3 VMs (one with a blank path), 1–2 categories, 3 cap configurations, 1–2 thread slots |
| `AgentUI.tla` | Store, view, network bag, agent as environment |
| `MCAgentUI.tla` | Two URL and two username inputs, one accepted and one refused by each regex |

### SmartStateService

State:
* `thr[t]`: one scan thread. Its program counter and its locals: `creds`, the
  cap configuration `cfg`, `vim`, `idx`, `vm_count` as `count`, the records
  `recs`, and the categories so far `cats`.
* `file`: whether the file exists and its content. The content is the
  serialised JSON as a sequence of tokens. A category's data is longer than an
  error, so a later, shorter write leaves a tail.
* `whole`: a history variable. It holds the result whose complete JSON the
  file holds, or NIL.
* `up` and `crashes`: the process.
* `timeout_sec`: the Ruby value of line 19, tagged with its class. It is the
  Integer 20 when the variable is unset and the String itself when it is set.
  `Init` chooses it from `TimeoutSettings`, and it never changes.
* `capCfg`: the cap file and `MAX_VMS_TO_SCAN` as they are now. `capEdits`
  counts edits of the file, bounded by `MaxCapEdits`.
* Two history fields of a thread: `cfg` holds the cap configuration when the
  scan started, and `saved` records that its write put the whole JSON in
  the file. Only
  properties and the refinement mapping read them.

Each action is one step of the thread between two points where another thread
or a crash can intervene:

| Action | Models |
|---|---|
| `InitScan` | 76-82 |
| `Connect` | 86 and the rescue at 148 |
| `List` | 93/96 |
| `NextVM` | One iteration's cap break and skip, 96-103 |
| `OpenVM` | `MiqVm.new`, 105-107; its failure is rescued at 130-137 |
| `ExtractReturns` / `ExtractTimesOut` | Only under an Integer timer; then `FinishCategory`, 110-129 |
| `TimerRejectsSetting` | A String timer: `Timeout.timeout` raises on `sec.zero?` before it yields, and line 121 records the error, 112-121 |
| `WriteOpen` | Truncate, 145 |
| `Write` | A full or short write at offset 0, 146 |
| `Disconnect` | 151 |
| `Shutdown` | Ctrl+C, 173-179: `server.start` returns, Ruby kills the threads and runs their `ensure` |
| `Restart` | `server.start` again, 179 |
| `Crash` | Environment: the process is killed (SIGKILL, OOM). Threads die without their `ensure`; the file survives |
| `EditCapFile` | Environment: an operator writes or deletes `max_vms_to_scan.txt`, which `max_vms_to_scan` (169-171) re-reads for each VM |

`ThreadStep(t)` groups the steps that run in Ruby alone. `LibraryCall(t)`
groups the calls into the inventory library: `Connect`, `List`, `OpenVM` and
`Disconnect`. The two groups get different fairness (see Fairness).

* `ResultsResponses` and `InitScanStatus` give what a request would be
  answered. Answering changes no state, and a process that is down answers
  nothing.
* A malformed body's `return` (line 73) runs inside a proc on a WEBrick
  thread. Ruby raises `LocalJumpError`, and line 155 rescues it as 500.

### ScanJob and the refinement

`ScanJob` states what a job promises, and nothing about how:
* it opens a session;
* it hands over at most one result, which is one that its configuration
  allows (`Results(c)`);
* it leaves Running exactly once: Completed with a result, or Failed;
* its session is closed when it finishes;
* a dying process kills it. An orderly stop may close the session, and an
  abrupt one leaves it open.

`ScanJob` separates `Safety` (`Init` and `[][Next]_job`) from `Liveness`
(`WF` on `Finish`).

`SmartStateService` maps onto it with `JobView`:
* `pc` gives the status;
* `saved` decides between Completed and Failed. It is set only by a write
  that put the whole JSON in the file; a failed open or a short write is
  Failed;
* `vim` is the session;
* the records are the result once saved.

`JobResults(cfg)` is every record sequence that names exactly the VMs the cap
admits, with any outcome per category.
* `ImplementsScanJob` checks `SJ!Safety`.
* `ScanEndsWhenLibraryAnswers` checks `LibraryAnswers => SJ!Liveness`. The
  scan's own fairness covers only Ruby's steps and the timer. Whether the
  library answers is an assumption, stated in the property rather than in
  the specification.

`JobResults` accepts any category outcome, the String-timer error included,
because the spec's job accepts any CategoryResult. The timeout divergence is
therefore described below and is not a refinement failure.

### AgentUI

State:
* the store's `state`;
* `live`: intervals set and not cleared;
* `nextId`: the next interval id;
* `net`: a bag of requests and responses;
* `puts`: PUTs sent so far, bounded;
* `agent`: the environment's status.

| Action | Models |
|---|---|
| `ClickLogin` | `postCallback` (form.js 91-118), only when `LoginButtonClickable` (login-controls.js 10-14) |
| `ToggleDataSharing` | The checkbox |
| `IntervalTick` | The interval callback |
| `StatusArrives`, `InfoArrives`, `CredentialsArrive` | The axios `then`/`catch`/`finally` chains (store 10-76) |
| `AgentAnswers`, `RequestFails`, `AgentProgresses` | The agent and the network, which are not in this repository |

`Page` is what the render after every commit shows (form.js 25-123). It leaves
out markup, icons and wording, and names each element by what it tells the
user:
* **Inventory view.** `InfoDiscovery` and `DownloadControls`. "Go back" opens
  the planner URL, or the localhost default when the agent gave none.
* **Login form** (`LoginForm`, login-form.js 26-132):
  * its alert (`AlertMessage`, alert.js);
  * the URL and credential fields' status marks, which fold in InfoElement's
    classes and icons;
  * the helper text;
  * the checkbox;
  * whether it is disabled.
* **Login button** (`LoginBtn`): enabled or not, and the spinner with
  `SpinnerMsg`. `case A || B` at form.js 70 matches only
  `CredentialsAccepted`.

The store's mutations (store 84-117) are operators (`setIntervalID`,
`updateRequestPending`, ...). The actions that commit them call them.

`error.status` is 400, 401 or anything else, depending on the axios version.
The model lets the PUT's error take all four values.

## Runs

| Run | Expect | Properties | Shows |
|---|---|---|---|
| scan_result | pass | TypeOK, ScanResultIsCappedPrefix | A scan reaching the write holds a prefix of the eligible VMs, in order, each with every category. It holds exactly the capped list when the cap did not change. This holds for all three cap texts (none; file "1\n" over env "2"; env "x", which gives 0), one edit of the cap file, failures of every library call, one crash, and failing writes. |
| scan_refines_job | pass | ImplementsScanJob, ScanEndsWhenLibraryAnswers | The scan thread implements the safety of `ScanJob`. It connects before it writes. It writes at most one result, and only the records the cap admits. The session is closed when the job finishes, on every exit path, and also on Ctrl+C. Only a SIGKILL leaves the session open, which `Kill` allows. If every library call returns, every scan leaves Running, even when `extract` hangs or the timer is a String. |
| scan_race | violation | SettledFileHoldsOneResult | Two concurrent scans leave the file as one result overlaid with the tail of another. |
| scan_crash | violation | SettledFileHoldsOneResult | One scan, with a crash or Ctrl+C and failing writes. Dying between the truncate and the write leaves an empty file for good; a short write has the same effect. |
| scan_read | violation | ReadsSeeWholeResult | One scan, with no crash and no I/O error. A GET that falls between the truncate and the write gets 200 with an empty body. |
| ui_safety | pass | TypeOK, OnePutAtATime, InventoryOnlyWhenUpToDate | Never two PUTs in flight. `requestPending` tracks the one in flight. The inventory view appears only when the agent is up to date. |
| ui_live | pass | PollingReachesUpToDate | Polling an up-to-date agent reaches the inventory view. |
| ui_leak | violation | PollingStopsWhenUpToDate | A second accepted login leaks the first interval. |
| ui_validation | violation | PageMatchesLastSubmission | The form shows a helper text from an earlier click beside valid input. The same root (`postCallback` resets neither `formValidation` nor `formState`) also puts a URL success mark beside a URL error. |
| ui_silent | violation | RefusedLoginIsReported | A PUT refused with 500 or a network error ends in `FormStates.Error`, which the form does not render: no alert, and the form is re-enabled. |
| ui_reload | violation | UpToDateAgentIsShown | The page fetches the status once on load. If that request fails, or answers gathering, the page never polls and shows the login form for good while the agent is up to date. |

`PROJECT.json` gives each finding with its source line.

Every property of a passing run has a mutant: a plausible bug in the mapped
definition that TLC catches under the same cfg.

| Property | Mutant |
|---|---|
| TypeOK (scan_result) | `FinishCategoryOffByOne`: one category too many |
| ScanResultIsCappedPrefix | `NextVMCountsSkipped`: skipped VMs counted |
| ImplementsScanJob | `DisconnectKeepsSession`: the ensure does not disconnect |
| ScanEndsWhenLibraryAnswers | `ExtractWithoutTimer`: no `Timeout`, so a hung extract never finishes |
| TypeOK (ui_safety) | `StatusArrivesKeepsId`: `setIntervalID(null)` forgotten |
| OnePutAtATime | `isButtonEnabledIgnoringPending` |
| InventoryOnlyWhenUpToDate | `StatusArrivesFallsThrough`: the waiting case lacks its `break` |
| PollingReachesUpToDate | `StatusArrivesMisspelt`: a case-label typo |

## Bounds and why they suffice

* **Three VMs.** One has a blank path, so a skip sits between counted VMs, and
  a cap of 1 must skip the first VM and stop after the second. Every cap
  outcome occurs: none, 1, and 0 from a non-numeric text.
* **Categories.** Two in the result run, so the per-category loop runs past
  its first turn. One elsewhere.
* **Threads.** One slot where threads are independent: the result run and the
  refinement run, because threads share only the file. Two slots for the race.
* **Cap edits.** At most one. One edit already lets the cap change between two
  VMs of one scan, and that is the case that matters.
* **Refinement.** One category. Two categories also pass, but take over four
  minutes. The per-category loop is checked with two categories in the result
  run.
* **Timeout setting.** Unset, and set to "30". The refinement run takes both,
  so the String timer is part of what `ScanJob` is checked against. The other
  runs leave it unset.
* **Crashes.** At most one, either a `Crash` or a `Shutdown`.
* **UI.**
  * `MaxPuts = 2` lets a second login follow an accepted or refused one.
  * `MaxInFlight = 3..4` lets a stale status answer be in flight beside a PUT.
    The interval cannot fire beyond it.

## Fairness

* **Scan thread.** `WF` on `ThreadStep(t)`: the loop control, the timer's
  interrupt, the String timer's exception, and the open and write of the
  local file. Ruby schedules every runnable thread, and the `Timeout` thread
  interrupts an extraction that overruns. Nothing bounds the library calls
  (`MiqVim.new`, `virtualMachines`, `MiqVm.new`, `vim.disconnect`; spec 5
  calls them unbounded), so they get no fairness, and neither does
  `ExtractReturns`.
* **ScanJob.** `WF` on `Finish` holds only if the library answers. The
  refinement therefore checks it as `LibraryAnswers => SJ!Liveness`, where
  `LibraryAnswers` is `WF` on each thread's `LibraryCall`.
* **UI.**
  * `WF` on the browser's timers and on the delivery of each response value.
    The browser runs each callback.
  * `WF` on the agent's progress.
  * `SF` on the agent answering each kind of request: a request sent again and
    again is eventually answered, rather than failing forever.
  * The user is never assumed to act.

## Divergences found while modelling, with no run

* **`POST /init_scan` does not validate the body** (lines 64-73). A body
  missing a field, or a JSON string, gets 200 and starts a scan. Non-JSON, no
  body and an array get 500. The 500 for non-JSON comes from the `return` at
  line 73: inside a WEBrick proc it raises `LocalJumpError`, which line 155
  rescues. Spec 4.1 asks for 400. `InitScanStatus` models the answers. A
  property would only restate them, because the answer depends on the
  request alone.
* **Setting `SMART_STATE_SERVICE_TIMEOUT_SEC` disables extraction** (line
  19). `ENV[...] || 20` keeps a set value as a String. `Timeout.timeout`
  tests `sec.zero?` (`0 > sec` in later versions of the gem) and raises
  before it yields, so every category records that error. Spec 4.2c asks for
  a configurable timeout. `TimerRejectsSetting` models it, and it fires in
  the refinement run; a property would only restate that action.

## Status and open work

Done so far:
* the abstract `ScanJob` and its refinement;
* the cap file edited during a scan;
* the rendered page and the presentational components;
* the timeout setting, the load handler `OnLoad` (main.js 11-16), and
  `Shutdown` (Ctrl+C) apart from `Crash`.

Hazards with no run, besides the two divergences above:
* **The cap file removed between `File.exist?` and `File.read`** (line 170).
  `NextVM` reads the cap in one step.
* **axios's missing timeout on the PUT.** The model's fairness assumes the
  agent answers.
* **"Go back" opening localhost when the planner URL never arrived.** The
  code chooses this on purpose, and nothing says otherwise.

Still open:
1. Two-thread liveness with symmetry-free bounds.
2. An abstract result store (atomic replace). It would fail exactly where
   scan_race and scan_crash already fail, so it would add no new run.

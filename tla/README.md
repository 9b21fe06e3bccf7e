# A verification project for `localllm`

`localllm` turns one Windows gaming laptop into a private LLM server for the
other laptops of a household. One command, `setup`, downloads llama.cpp and a
model, issues a key to each laptop, generates the scripts of a Windows service
and prints an invite for each laptop; on a laptop, `join` turns an invite into
the configuration of a coding agent, and `check` says whether it will work.

Nothing in the program is a long algorithm on shared memory. What is hard in it
is that **all its state is in a handful of files that nothing locks and that
several commands rewrite in place**, that **any command may be killed halfway
(the usual way to stop a download of many gigabytes)**, that **each command
starts from whatever the last one left**, and that **two long-lived parties,
llama-server and the coding agent, read a file once and keep what they read**.
Besides, it **asks other machines, one request after the other, while they
change** (the release feed, the server that is checked), and **promises amounts of
memory before anything is loaded**. The specifications here are about those.

Paths are relative to the repository (`src/` here is its root, so the package
is `src/src/localllm`); `cli.py:852` is a line of `src/src/localllm/cli.py`.

## 1. Inventory

### Components

| Component | Code | State it keeps | Operations | Correct when |
|---|---|---|---|---|
| device keys | `keys.py` | `keys.json` (issued keys, revoked ones kept), `keys.txt` (the allow-list) | `add`, `revoke`, `save`, `write_api_key_file`, `file_is_current` | one active key per device, a key names one device, a revocation is never forgotten |
| key commands | `cli.py` 812-1030 | none of their own; each loads a `KeyStore` object | `key add/revoke/export/list`, `invite`, `invite --rotate`, `status` | a command that returns 0 has brought the file the server reads up to date; what an invite carries works |
| setup wizard | `wizard.py`, `cli.py` 1230-1560 | none: every run replans from the files it finds | `plan_setup`, `cmd_setup`, `_install_llama` | a run that was cut short can be repeated and ends in the same place |
| downloads | `install.py` | the tools directory, `.part` files, the `.gguf` | `latest_llama_release`, `pick_asset`, `download`, `unzip`, `find_llama_server` | a file under its final name is a whole one; a build the minimum refuses is not installed |
| serving | `serve.py`, `budget.py` `serve_flags`, `cli.py` 640-800 | the six files `up` writes into `deploy/` | `up`, `preflight`, `nssm_script`, `watchdog_*`, `powercfg_script` | a service is only generated for a machine that can serve; every slot has the context that was planned |
| service installer | `elevate.py`, `cli.py` `service` | the two NSSM services, the power settings | `service install [--dry-run]` | when it says the machine serves, it does; doing what is printed ends there |
| handoff | `handoff.py`, `cli.py` 860-1030 | `server-plan.json`; `/props` of the running server | `ServerPlan`, `read_props`, `resolve_context`, `cmd_join` | the context a client is pinned to is one a slot has |
| client configs | `join.py` | the agent's file(s) and the sidecar `localllm-client.json` | the six writers, the five readers, `ClientConfig.write`, `read_client_config` | what is read back is what the agent loads |
| invites | `invite.py` | none | `encode`, `decode`, checksum | a damaged paste is refused |
| client doctor | `client.py`, `cli.py` 503-714 | none; a check holds the answers of one request | `cmd_check`, `diagnose`, `check_model_visibility`, `check_inference`, `check_tool_calling`, `stream_probe`, `check_streaming` | a cause that is named is there; all checks pass only when the agent works; the check ends |
| guide | `guide.py` | none: reads files | `next` | it agrees with `plan_setup` on what is left to do |
| budget solver | `budget.py`, `catalogue.py`, `speed.py` | none | `solve`, `recommend`, `serve_flags` | what a plan's flags put on the card and in RAM is what there is room for |
| GGUF reader | `gguf.py` | none | `read_gguf`, `read_gguf_url`, `full_attn_layers`, `n_kv_heads` | a prefix is never mistaken for a header, nor the reverse; the cache is never planned too small |
| detection, verification | `detect.py`, `verify.py` | none | parse tool output and the server's log; `compare` | an overcommitted server is not passed |
| entry points, dev scripts | `setup.ps1`, `client.ps1`, `mutate.py`, `check_catalogue.py` | none | | outside the program |

These parties are external: **llama-server**, which parses `--api-key-file` once
at startup, divides `-c` among `-np` slots and reports a slot's `n_ctx` in
`/props`; and **NSSM**, which keeps the flags of the service, starts it at boot
and restarts it when it exits. They are modelled from how the code configures
them and what its comments rely on (`serve.py:129-132`, `serve.py:335-341`,
`budget.py:219`). So are the **release feed** of llama.cpp, where builds are
published before their files are uploaded (`install.py:375`), and **what stands in
front of the server** on the way to a laptop, a proxy that buffers or another web
site (`client.py`, comments of `diagnose` and `check_streaming`).

### How the parts interact

```
 setup ──issues──▶ keys.json ◀──load / save── key add, revoke, invite [--rotate]
   │                   │ active keys
   │ calls             ▼
   ├───────▶ up ──▶ keys.txt ◀──rewrite── revoke, invite, export
   │          │        │ parsed once, at startup
   │          ├──▶ service scripts ──NSSM──▶ llama-server ──/props──┐
   │          └──▶ server-plan.json ──▶ invite ──token──▶ join ◀──┘
   │                                                         │
   └─ downloads llama.cpp, model                             ├──▶ agent's file(s)
                                                             └──▶ sidecar
                                     check ◀── reads both back ──┘
```

All arrows are files or HTTP requests. No file is locked, and a rewrite
(`Path.write_text`) truncates before it writes.

### What is hard

* **Interleaving.** Two commands in two shells hold lists loaded before each
  other's change (`keys.py:79`); `setup` holds one across two downloads.
* **Being killed.** Between `save()` and the key file (`cli.py:876`), between
  the halves of a rotation (`cli.py:1011`), between the six files of `up`
  (`cli.py:788`), between the two or three files of `join` (`join.py:104`), and
  inside any single rewrite.
* **Stale reads.** llama-server's parsed list, its flags, the context a join
  pinned, the config of an agent that was joined earlier.
* **Existence taken for completeness.** `find_llama_server`, `find_gguf` and
  `plan_file.exists()` decide what a later `setup` skips.
* **A world that changes between requests.** A lookup asks the feed, the API and
  a redirect while builds appear (`install.py:370`); a check sends up to eight
  requests to a server that may stop, load and come back (`cli.py:588`).
* **Time.** The stream is judged by when its lines arrive, and cut off by a count,
  a limit of time and a timeout (`client.py:728`).
* **Something must eventually happen.** A revocation must reach the server; a
  setup that is repeated must finish; the fix `check` prints must fix.
* **Boundaries.** No key left, one fewer slot than laptops, `-c` as a pool; whole
  layers moved for a number of gigabytes; a prefix that ends within a value.

`PROJECT.json` lists each with its line and the properties that cover it.

## 2. The modules

| Module | What it is |
|---|---|
| `KeyStore` | the pure operations of class `KeyStore` on a list of keys |
| `KeyLedger` | abstract: what the key broker promises, one step for each whole change |
| `KeyBroker` | extends `KeyStore`: the commands that touch `keys.json` and `keys.txt`, as processes; llama-server's list. Implements `KeyLedger` (`LedgerKept`) |
| `SetupFlow` | `setup` and `up` run again and again over the files of the server machine |
| `ReleaseLookup` | the lookups of `setup` against a feed that goes on |
| `Handoff` | plan → flags → server → invite → join → config and sidecar → check |
| `ServiceInstall` | `service install`: the scripts of `up`, the services they leave, what is printed about it |
| `GgufHeader`, `Budget` | pure: what the reader makes of a header; the solver in integer units |
| `Sizing` | extends both: a file read piece by piece, solved, served and verified |
| `ClientDoctor` | `check`, request by request and line by line |
| `KeyBrokerProofs`, `SetupFlowProofs`, `ReleaseLookupProofs`, `HandoffProofs`, `ServiceInstallProofs`, `SizingProofs`, `ClientDoctorProofs` | theorems about the seven specifications |
| `MCKeyBroker`, `MCSetupFlow`, `MCReleaseLookup`, `MCHandoff`, `MCSizing`, `MCClientDoctor` | values for the constants that a `.cfg` cannot write, and the symmetry set |

The specifications meet at these boundaries. `SetupFlow` counts keys and
has `up` as one pass over the six files: who owns which key, and the key file,
is `KeyBroker`. `KeyBroker` and `SetupFlow` cut the server's commands into file
accesses; `Handoff` takes those commands as atomic and cuts `join` instead,
because a laptop sees only the plan, the invite and the running server.
`ServiceInstall` opens what `Handoff` takes as one step, and of `up` it keeps only
the files the installation reads. `ReleaseLookup` ends where `SetupFlow`'s `Fetch`
begins, with the build whose archive is downloaded. `Sizing` is what `up` decides
before it writes anything: the window and slots that `SetupFlow` and `Handoff`
take as given. `Handoff` says that `check` starts from the right config, and has
its checks of key, model and context as verdicts; `ClientDoctor` has a given
config and opens the checks.

### KeyBroker

| State | Code |
|---|---|
| `proc[p]` | a running command: how far it is (`pc`), its `KeyStore` object (`mem`), and for `setup` the object it keeps while its `cmd_up` has one of its own (`outer`, `inUp`, `cli.py:1389` and `cli.py:738`) |
| `store` | `keys.json`; `torn` between `open("w")` and the write of `save()` |
| `keyfile` | `keys.txt`, empty between the same two points of `write_api_key_file` |
| `deployed` | whether `up` has written the scripts, and after them the plan; `torn` between `open("w")` and the write of the plan (`cli.py:788-789`) |
| `server` | llama-server and the list it parsed when it started |
| `issued`, `revoked` | history |

One step of a process is one access to a shared file. `Load` is
`KeyStore(args.store)`; `Issue`, `Withdraw` change the list and open the store,
`Save` writes it; `OpenKeyFile`, `WriteKeyFile` are `write_api_key_file`, with
the refusal to create a file on a machine that has none (`MayOpen`);
`Preflight`, `WriteScripts`, `OpenPlan`, `WritePlan`, `EnterUp`, `SkipUp` are
`cmd_up`, alone and inside `setup`; `LoadPlan` is setup's `ServerPlan.load`
(`cli.py:1471-1478`): if the plan cannot be read, setup ends `noted`, with 0 and
the key file as it was; `Refuse` is every early `return 1`; `Kill` ends a process
anywhere. A key is a number: `generate_key` draws 24 random bytes, and all that
matters is that a key is new. The list is a set: its order is issue order, and
so is the order of the numbers.

### KeyLedger

| State | Abstracts |
|---|---|
| `ledger` | the entries of `keys.json`, from the moment the save is certain |
| `lost` | a save was cut in two: the store cannot be read any more |
| `published` | the content of `keys.txt`, `{}` while it is rewritten |
| `accepted` | what the server has read |

`Ledger == INSTANCE KeyLedger WITH ...` in `KeyBroker` is the refinement mapping.
While a command is in the middle of writing the store, the ledger already is the
list in its hands: `open("w")` has destroyed the old one, so the change takes
place there. A command killed at that point is the step `Lose`. `Record` and
`Revoke` have `Issue` and `Withdraw` for their steps, `Publish` the two halves of
`write_api_key_file`, `Serve` the starts and stops of llama-server; every other
step of a command is a stutter.

### SetupFlow

| State | Code |
|---|---|
| `run` | the command that runs, its `--devices` and `--context`, whether `--gguf` was given, the steps `plan_setup` left to do |
| `llama` | what has been unpacked: the executable, the other files of the archive, the CUDA runtime |
| `part`, `model` | chunks in the `.part` file and under the final name |
| `keys` | the number of active keys |
| `deploy` | for each file of `up`: absent, torn, or whole and from which plan: window, slots, and whether `-m` names the model or a placeholder |

`Plan` is `plan_setup` with its tests for existence. `Fetch`, `Unpack`,
`FetchRuntime`, `UnpackRuntime` are `_install_llama`; `Connect`, `Receive`,
`Rename` are `download` of the model, which is called without an expected size;
`Preflight`, `OpenFile`, `WriteFile` are `cmd_up`, alone (`StartUp`) and inside
`setup`; `ModelPath` is what `_model_from_args` makes of the model's header. `NetworkError` is the
`OSError` for which setup returns 1, `Kill` the window that is closed.

### ReleaseLookup

| State | Code |
|---|---|
| `newest`, `files` | the builds that are published, and which kinds of file each has so far |
| `pointer`, `latest` | whether `/releases/latest` is a build or only names one; that build |
| `run` | the `setup` that runs: the request that is next, the lookup it belongs to, the tag and files it has so far, the build it has named above the plan |
| `installed` | what `find_llama_server` finds |

One step is one answer, or one failure, of the chain in `latest_llama_release`:
the Atom feed and the files of its newest tag, the API, the redirect of
`/releases/latest`, the pointer file of a nightly. `First` is `cmd_setup`'s test
of what the first lookup brought (`BuildIsRecentEnough`, with the plan printed
from it), `Second` the lookup that is made only if the first one brought no
files, and which nothing tests. `Install`
stands for all of `SetupFlow`'s download.

### Handoff

| State | Code |
|---|---|
| `plan` | `server-plan.json` and the scripts of the same `up` |
| `service`, `server` | the flags NSSM has; the flags, the slot size and the key list of the running process |
| `key`, `tokens` | this laptop's active key; the invites printed for it |
| `files`, `env` | the agents' files and the sidecar in one directory; the variables `setx` sets |
| `printed`, `used`, `edited` | the last `setx` line; the agent joined last; whether somebody edited since |
| `join` | the join that runs: arguments, what it resolved, the file it is at |

`Resolve` is `cmd_join` up to the write (`_fetch_server_facts`,
`resolve_context`, the guard for generic names); `OpenConfig` and `WriteConfig`
are `ClientConfig.write`. `Own`, `Recorded`, `Drift` and `Found` translate
`_read_own_config`, `_read_sidecar`, `DiscoveredClient.drift` and
`read_client_config`, with each agent's habits (where its key is, in which file
its context is, whether it can be pinned) as small operators. `ChecksPass` is
`cmd_check` without arguments: `Diagnosed`, `ModelVisible` and `FitsSlot` are its
checks of the server, as verdicts without their reasons.

### ServiceInstall

| State | Code |
|---|---|
| `files` | the scripts in the deploy directory and the watchdog's loop: absent, torn, or whole and from which plan |
| `up`, `install` | the `up` that writes them (with the history of a last `up` that was cut short), the `service install` that runs them: which script, which commands of it are left |
| `owed` | the last thing printed to the user is that `service install` is to be run |
| `registered`, `flags` | NSSM's services and the server's `AppParameters` |
| `running`, `serving` | what runs, and the flags the server was started with |
| `nssm`, `canQuery`, `awake` | NSSM is installed; `sc query` answers; the power settings |
| `faults`, `gap` | history: the faults so far; a first install was cut short before `nssm set` |

`StartInstall` is `plan_service_install` with its test that every script exists;
`ReadScript` to `Finish` are `run_service_scripts` with one step for each command
of a script that changes the machine (`Body`), `PowerShellFails` is every return
code but 0. The commands are NSSM's: `install` fails for a service that is there,
`set` for one that is not, `start` for one that runs; none of these failures
reaches the exit code of `powershell -File` (`ScriptEnds`). `Asks` is
`probe_service_installed` with its third answer, and `AskAgain` the step
`service` of setup and its closing report.

### GgufHeader, Budget and Sizing

| State | Code |
|---|---|
| `ask` | the arguments: a file, read here or over HTTP; a machine; a plan |
| `hw` | the machine as this command measures it |
| `cmd`, `pc`, `step` | `plan`/`up` or `verify`; how far it is; the read step of `read_gguf_url` |
| `found`, `model` | the outcome of reading; the `Model` that was made of it |
| `verdict` | what `solve` or `recommend` returned, with `--n-cpu-moe` or `-ngl` |
| `server`, `report` | what llama-server took; how the last command ended |

A file is the facts of its header (the heads of each layer, which layers slide,
how it says so, where the header and the tensor index end) and its length.
A stride, published or taken from the table of architectures, is that of the layers
(`Truthful`, an assumption on the files asked about): the table was verified
against real files, and no reader can tell a header that lies.
`ReadLocal` and `ReadUrl` are `read_gguf` and `read_gguf_url` with what ends them
(`Exhausted`, `HoldsHeader`, `HoldsIndex`). A reply may hold what was asked for,
less, or the whole file (`Replies`), and may have neither `Content-Range` nor
`Content-Length`, so that the size of the file stays unknown (`sized`,
`gguf.py:551-554`, refused by `Parse` as by `catalogue.py:434`); one that stops
before its `Content-Length` raises `IncompleteRead` (`ReadBreaks`). `FullAttention`, `KvHeads` and
`ModelOf` what is made of a header; `Solve`, `Status`, `CpuMoe`, `GpuLayers`,
`Recommended` the solver, in tenths of a megabyte and whole layers. `Start` is
llama-server, whose cache and buffer may differ by `Drift` from the plan; then
`verify` reads and solves again, on memory that the server partly holds, and
`Compare` is `compare` with its tolerances. Which parts the log names is chosen
anew for each comparison (`Parts`): the buffer of each kind, the layers, the moved
experts, in any combination. What is not logged is not judged (`Findings`).

### ClientDoctor

| State | Code |
|---|---|
| `args` | `--api`, `--no-inference`, `--no-agent-checks`, `--inference-timeout`; whether the config pins a context |
| `front`, `state`, `config`, `free`, `changes` | what stands before the server; the server; its flags, key and model; a free slot; history |
| `pc` | the check that is next: health, key, model, context, slots, completion, tools, stream |
| `stage`, `silent` | of the request that generates: queued, running, ended, broken; ticks without a line |
| `stream` | the reply: frames still to come, held by the proxy, on the wire, read; when the first and last one came |
| `finding`, `worst`, `exit` | what was printed; whether a check failed; how it ended |

`Diagnose`, `Visibility`, `Generated`, `Judged` are the four functions that turn an
answer into a finding. A reply of 200 may be llama-server's with text or a tool
call, llama-server's with an empty list or no text in it (`Empty`,
`test_client.py:499-501`), JSON of another program (`"json"`,
`test_client.py:410-426`), or no JSON; `Completed` and `ToolsCalled` are what
`check_inference` (`client.py:471-479`) and `check_tool_calling`
(`client.py:568-577`) make of each. `CheckHealth` to `CheckSlots` are `cmd_check` up to the
first request that generates, `Send`, `Reply`, `TimeOut`, `Closed`, `CutShort` and
`Concludes` what becomes of one that does; `Collect` and `StreamEnds` are
`stream_probe`. `Begin`, `Emit`, `Ping`, `LastLine` are the server's stream, `Stop`,
`Launch`, `Loaded`, `Others` what happens meanwhile, `Tick` the time that passes
while there is nothing to read.

## 3. What the runs show

All properties below were chosen for what a unit test of one function would not
reach. Every passing property has a mutant: a plausible bug in one definition
under which the run finds the property violated.

| Run | Setting | Shows |
|---|---|---|
| `KB_alone` | one command at a time, killed anywhere; 3 devices, 3 keys | `ExitMeansSynced`, `RevokedStays`, `InvitesWork`: whatever a killed command left, the next one that returns 0 leaves the file equal to the active keys, except a setup that finds a plan an earlier `up` was killed in writing (it prints a note); a saved revocation is for ever; a printed invite carries a live key, also for a rotation killed between its halves. `LedgerKept`: all of this implements `KeyLedger` |
| `KB_concurrent` | two commands at a time, killed anywhere; 2 devices, 2 keys | `AttributionSound`, `ServiceHasKeyFile`: stale lists cost updates but never produce two active keys for a device or a key with two entries, and scripts are never on disk without the key file |
| `KB_live` | one at a time, not killed; the service restarts for ever | `NoStaleKeyAtRest`, `RevocationTakesEffect`: a revoked key leaves the parsed list and never returns |
| `SF_cut_short` | killed anywhere, early ends of responses, CUDA; 2 faults | `ServiceOnlyIfRunnable`, `PlanImpliesScripts`: no sequence of cut-short runs leaves a service script on a machine where llama-server does not start or no key was issued, or one that names a model file without a readable header |
| `SF_downloads` | network errors and kills while downloading; 2 faults | `ModelIsWhole`, `ScriptsMatchPlan`, `SetupSucceeds`: repeating setup ends in a readable plan |
| `RL_lookup` | three builds, the first one too old, published and uploaded while setup asks; any request may fail | `InstalledAsPlanned`, `NeverBehindLatest`: what is installed is what was named above the plan, and not older than the latest build when setup began; `OldOnlyUnlisted`: an old build only slips in through the second, unchecked lookup; `GetsThrough`: no state of the feed refuses setup for ever |
| `HO_check` | one agent with its key in its file; joins killed anywhere, hand edits, new plans, rotations, restarts; 4 changes | `CheckIsSound`, `CheckIsComplete`: all checks pass exactly when the agent works |
| `HO_fix` | aider (context in a second file, key in the environment), joins not killed; 3 changes | `PlannedIsServed`, `DriftMeansEdited`, `CheckIsSound`, `FixesConverge`: doing what is printed brings the laptop back |
| `SI_install` | `up` and `service install` killed and the machine rebooted at any point, PowerShell failing, NSSM there or installed later, `sc query` allowed or not; 2 faults | `ServerHasFlags`: the server never runs without its key file, unless a kill comes between `nssm install` and the first `nssm set`; `InstalledMeansServing`: 0 from an install on a machine with NSSM means both services, the flags of the scripts and no sleep; `InstallConverges`, `AskedUntilThere`: doing what is printed ends with the service, and with the flags of the last `up`, also where a kill left a service without flags |
| `SZ_plan` | three real models, every layout of attention over three layers, cut files; web servers that ignore ranges, send less than was asked for or do not tell the size; six laptops and sixteen RAM sizes; servers that drift, logs with any lines missing | `ReadReaches`: no place where a prefix is cut makes the reader give up early, only a last reply that was short or did not tell the size; `KvCovered`: however a file describes its layers the cache is planned for the heads that grow; `VramRespected`, `FitsNeverPages`, `MoreNeverHurts`: whole layers fit the room that was counted in gigabytes, and a better machine or smaller plan never gets a worse answer; `OvercommitCaught`: in what the log names, no errors hide each other from `verify` |
| `CD_check` | one defect or none, nothing or a proxy or another site in front (HTML, error codes, or JSON of its own), replies with nothing in them, slots taken and freed, a server that stops, loads and comes back during the check; a timeout below and above the time limit | `BlamesACause`, `PassMeansUsable`, `UsableMeansPass`: what a check names is the case at that moment, passing means that an agent works, and a working server is failed for nothing but waiting or a reply with nothing in it; `StreamNotBlamed`, `HeldIsCaught`: the judgement of the stream, both ways; `NotForever`, `CheckEnds` |

The twelfth run finds a disagreement between the code and what the repository says
of it, which is quoted under `findings`.

| Run | Disagreement |
|---|---|
| `SF_slots` | a setup for two laptops that is killed after the keys leaves a plan for one; the next setup skips `up`, returns 0 and prints two invites |

### Other places where the model shows the code to differ from its text

They have no run of their own, but a reader of the models meets them.

*Keys and setup*

* `status` compares `keys.json` with the file on disk (`cli.py:228-229`,
  `keys.py:146`). The server may still have an older list, or one it parsed
  while the file was being rewritten.
* Commands that overlap lose updates: the list saved last wins (`keys.py:79`).
  `RevokedStays` is therefore only claimed for commands that run one at a time.
* A kill inside `save()` leaves an empty `keys.json`; every later command dies
  on it, where a *missing* file is handled (`keys.py:79`, `keys.py:99-101`).
* Revoking the last active key writes an empty list (`cli.py:852`), which
  llama-server takes as *no authentication* (`serve.py:129-132`). The README
  (`README.md:287-289`) says that the revoked laptop keeps working until the file
  is rewritten and the server restarted; here it does so after both.
* `setup`'s key loop starts at the number of active keys (`cli.py:1447`): if the
  active keys have other names, it may end with fewer than `--devices`, and
  `plan_setup` counts too (`wizard.py:188`).
* A setup or `up` that is killed while it writes `server-plan.json` leaves a plan that
  exists and cannot be parsed (`cli.py:789`). Every later setup skips `up`
  (`wizard.py:202`), prints a note instead of invites and returns 0
  (`cli.py:1471-1478`), where a resumed run should be a first run with some steps
  done (`wizard.py:10-14`). It does not reach the key file either: a key that was
  added or revoked before stays out of the file or in it. `ExitMeansSynced` names
  this exception.
* A model download whose response ends early is renamed to its final name: the
  model is fetched without an expected size (`cli.py:1439`, `install.py:436`).
  `ModelIsWhole` is therefore checked without early ends.
* A model whose header cannot be read is a note to `up` (`cli.py:347`), which
  then plans for the recommended model and writes a service whose `-m` is
  `<path-to>/...`. So does `up` without `--gguf`, on purpose; but a plan exists
  after either, so `setup` skips `up` from then on, downloads the model, prints
  invites and returns 0 beside a service that cannot start. `SetupSucceeds`
  therefore speaks of the plan only.
* A network error between the two archives of the CUDA build: every later setup
  takes the executable for the whole install (`install.py:319`) and fails its
  preflight, where a resumed run should be a first run with some steps done
  (`wizard.py:10-14`). A kill after the executable was unpacked does the same to
  any build. `SetupSucceeds` therefore is about a build of one archive that is
  not killed while it is unpacked; `ServiceOnlyIfRunnable` holds throughout.
* A CUDA build whose files are listed while the runtime's is not is installed with a
  warning, and ends in the same place (`cli.py:1266-1279`).
* The second lookup of setup, made when the first one failed or brought no files,
  does not look at the minimum (`cli.py:1420-1432`): an old build can be installed,
  which preflight then refuses for good, as `find_llama_server` finds it.
  `OldOnlyUnlisted` says that there is no other way.
* Downloads start again from nothing (`install.py:427`); the README's "resumes"
  (`README.md:20-21`) holds for the steps of setup, not within a file.

*Laptops*

* With two agents joined in a directory `check` reads the first one in `_READERS`
  order, not the one in use (`join.py:837`, `cli.py:534-535`), and may pass for an
  agent that has no key. `CheckIsSound` is about one agent in a directory.
* `check` has no reader for Cline, so without arguments it never passes for it
  (`join.py:868`, `cli.py:1183`).
* A join of Continue or Qwen Code that is killed in its first write leaves an
  empty file, which the next join takes for somebody else's (`join.py:96`,
  `join.py:78`).
* A reply with an empty list or no text in it is a `SERVER_ERROR` to the completion
  check and `TOOLS_IGNORED` to that of the tools, whoever sent it
  (`client.py:471-479`, `client.py:568`). `BlamesACause` and `UsableMeansPass`
  leave such replies out.
* A server that stops between two checks, behind a proxy that answers 200 with JSON of
  its own: the check of the tools says that the model answered in prose
  (`client.py:568`), which its guard is to prevent, but only does for pages that are
  not JSON (`client.py:558-560`). For JSON without a tool call `BlamesACause` takes
  something in place of the server for a cause, too.
* The check of the slots prints that one is free for every outcome but two, a
  server that is gone included (`cli.py:651-658`); with `--no-inference` the check
  then says that all passed, which `client.py:241-243` warns against.
* A read that times out after the server has answered (a queue longer than
  `--inference-timeout`, or the middle of a stream) is reported as a server that
  accepts no connection, with the firewall as the cause (`client.py:366-393`).
  `BlamesACause` takes waiting for a cause of `UNREACHABLE`.
* With `--inference-timeout` above 120 s a reply that is withheld for longer than
  that shows a single line, which is too few to judge, and passes
  (`client.py:747`); 120 s of pings before the first text are taken for a server
  that does not stream. `HeldIsCaught` and `UsableMeansPass` name these cases.
* A stream that a proxy ends early and gracefully is judged as one that ended; any
  other reply that breaks off, and an answer that is not HTTP, end `check` with a
  traceback (`IncompleteRead`, `BadStatusLine`: `client.py:706`). Replies that break off, both
  kinds, are in the model.
* Qwen Code's provider id is the model id with a suffix (`join.py:320`), and the
  reader reports the id (`join.py:739`): `check` says that the config was edited
  right after `join` wrote it, and its model check fails.

*The service*

* Without NSSM the commands of the scripts fail, `powershell -File` exits 0
  (`elevate.py:163`), and `service install` reports a machine that serves on boot;
  stopping at the first failure is meant to prevent that (`elevate.py:154-156`).
  `InstalledMeansServing` is about machines with NSSM.
* An `up` that is killed after it rewrote `02-install-service.ps1` has not
  printed what to run, and setup, once a service is registered, takes it for
  done (`wizard.py:207`): the scripts are of another plan than the service, and
  nothing says so. `InstallConverges` speaks of the last `up` that ended.
* A script torn by such a kill exists. PowerShell finds nothing in it to run and
  exits 0, so `service install` goes on to register a watchdog for a server that
  is not there, which is what stopping at a failure is to prevent
  (`elevate.py:154-156`). `InstalledMeansServing` asks for whole files.
* A server that runs when the service is installed again keeps its flags:
  `nssm start` fails for it and nothing restarts it. The properties are about
  the flags of the service; `Handoff`'s check then finds the difference.
* Killed between `nssm install` and the first `nssm set`, the install leaves an
  automatic service without flags, hence without a key file, which the next boot
  starts (`serve.py:326`). `ServerHasFlags` names this one place, and
  `InstallConverges` says that the install, run again as printed, repairs it.
* The flags name the device `Vulkan0` whatever build setup chose
  (`budget.py:316`).

*Sizes*

* What a mixture of experts keeps on the card at least, its dense part, is never
  compared with the room: the number of layers is clamped (`budget.py:451`). With
  4 GB of VRAM and 32 GB of RAM gpt-oss-20b for 32K tokens FITS, although dense
  part, cache and buffer come to 4.4 GB; the catalogue speaks of this part as the
  floor (`catalogue.py:46-52`), and `plan` prints it (`cli.py:1331`).
  `VramRespected` leaves out machines where the dense part is itself too large.
* For a file whose index was not read the dense part is taken as 15 %, which
  "never overcommits" (`catalogue.py:440-443`); Gemma 4's is 20 %. The properties
  are about measured models.
* An index that is cut is not read again with a longer prefix (`gguf.py:482`), so
  whether a model counts as measured depends on where the read steps fall. A file
  on disk is read up to 32 MiB, over HTTP up to 96.
* Moving whole layers rounds up, so a TIGHT plan may page (`budget.py:373`);
  `FitsNeverPages` is about FITS, whose margin covers a layer.
* Where little is spilled, one layer more or less is over the factor of 1.5 that
  `verify` allows, and a correct plan fails. And `verify` measures free memory
  while the server holds part of it (`verify.py:346`), so it may solve for another
  model than was started.
* `stronger_alternative` says that `recommend` refuses TIGHT (`cli.py:1192`); it
  does not.
* A server that takes more VRAM than planned is explained by a card that holds back
  more, and what it leaves, which is less than planned, is recorded as the driver's
  reserve (`verify.py:487-490`). The reserve is a constant here.
* A complete file is called unreadable if the web server sends less than was asked
  for before the header is whole (`gguf.py:559`), or gives neither `Content-Range`
  nor `Content-Length` (`gguf.py:551-554`, `catalogue.py:434`). `ReadReaches` names
  the two.
* `http.client.IncompleteRead` is not caught where a model is read over HTTP
  (`_model_from_args`): `plan`, `up` and `verify` end with a traceback.
* `verify` does not judge what is not in the log (`verify.py:350`, `verify.py:416`):
  a log that lacks the lines of the cache or of the compute buffer lets an
  overcommitted server pass, and the report may then say that every assumption
  held. `OvercommitCaught` counts a part that is not logged as planned.

### Bounds

* *KeyBroker.* Two planned laptops and a third device (`invite` for a name
  setup did not choose) with three keys let a device be issued, revoked and
  issued again while another is live; one more process than one is enough for a
  stale list, and every pair of commands occurs. Processes are interchangeable
  (no action names one), hence the symmetry, which no temporal property is
  checked under.
* *SetupFlow.* `--devices` and `--context` in {1, 2} tell a larger request from
  a smaller one, which is all the code compares (`SF_cut_short`, whose properties
  do not look at the context, has one); three chunks, two of them the header,
  tell a model without a readable header from a truncated one and a whole one,
  two chunks the last two; two faults allow a run that is cut short while it
  repairs another. Runs themselves are not bounded.
* *Handoff.* Windows and slots in {1, 2}, so that of any two of plan, server,
  invite, config and sidecar either may be ahead; two keys, so that an invite
  may be outdated; `MaxChanges` bounds everything but following the printed
  fixes: new plans, rotations, stops, joins with arguments, edits, kills. Three
  are enough to disturb plan, server and laptop once each, four to kill a join
  that repairs an earlier change.

* *ServiceInstall.* Two plans tell the flags of the last `up` from those of an
  earlier one; with two faults an installation may be cut short, and so may the
  one that repairs it. Runs of `up`, setup and `service install` are not bounded.
* *ReleaseLookup.* The first of three builds is too old, so that a feed may offer an
  old one, the first good one, and one that appears during the lookup; each has
  three kinds of file, uploaded one at a time. Runs are not bounded.
* *Sizing.* No state is bounded, as a sequence ends: what is chosen are the questions. Amounts
  are those of the catalogue, in tenths of a megabyte (`GB` = 10000), context in
  units of 32K tokens. Three models (experts with one layer in two sliding, experts with
  a cache listed layer by layer, dense) meet laptops with 8 and 16 GB of VRAM, stated or
  measured, and a sweep of RAM sizes across the limits of FITS and TIGHT. Three
  layers are enough for each way to describe attention to be used, and for each to
  count more layers than grow. Headers end before, within and beyond each read step.
* *ClientDoctor.* A tick is the spread below which a stream counts as arriving at
  once. `MinFrames` 3 with `Burst` 2 is the smallest pair in which one step of
  generation is not enough to judge; `MaxReply` 4 allows one frame fewer, as many and one
  more than that; `MaxLines` 5 is met by pings and by text; a limit of 3 ticks lies
  between the two timeouts. Three changes are a whole restart; two defects at once
  are left out, as a check stops at the first.

`CHECK_DEADLOCK FALSE` is set where the bounds, or a laptop on which all is
well, really leave nothing to do (`KB_*`, `HO_*`), and where a behaviour is one
sequence that ends (`SZ_plan`, `RL_lookup`, `CD_check`). In `SF_*` and `SI_*` a
command can always be run again, and deadlock is checked.

### Fairness

* `KeyBroker`: `WF(Step(p))`, as the operating system schedules a command that
  was started and it waits for no other; `WF(ServerStart)`, as the NSSM script
  sets `SERVICE_AUTO_START` and `AppExit Default Restart`. That a server is ever
  restarted after a revocation is not assumed of the code (the command only
  prints that it is needed): it is the premise of `RevocationTakesEffect`.
* `SetupFlow`: `WF(Progress)`, as above, and `SF(Setup)`: the user runs it again
  after a run that did not finish (strong, because other runs come in between).
* `Handoff`: weak fairness of the server's start and of a join's steps, and of
  the user doing what the commands print: install the service, restart it for a
  new key, make an invite, run `setx`, join again. `FixesConverge` is about
  those instructions; each is enabled only where the code prints it. Joining,
  editing or replanning on one's own has no fairness and is bounded.

* `ServiceInstall`: `WF(UpStep)`, `WF(InstallStep)`, as above. `SF(owed /\
  StartInstall)` is the user who runs `service install` as long as the last thing
  printed was that it is to be run (strong, because other commands and kills come
  in between); `SF(AskAgain)` is setup run now and then, for `AskedUntilThere`.
  That NSSM is one day there, and that `up` comes to an end, are premises.
* `ReleaseLookup`: weak fairness of setup's steps, of the user who runs it again, and
  of the project, which goes on publishing up to the bound and completes what it
  has published. Strong fairness of the feed's answers and of the download is an assumption about
  the network, without which nothing comes of trying again: not every request
  fails for ever.
* `ClientDoctor`: `WF(Doctor)` and `WF(Tick)`, the check that runs and time. Nothing
  is assumed of the server, which may never answer.
* `Sizing` states none and has no liveness property.

## 4. What is proved

Forty-two theorems, for any values of the constants that satisfy the assumptions
their modules declare. No further fact is assumed, except where the table says
so: there the code does not have the property without it.

| Theorem | States | Assumes |
|---|---|---|
| `BrokerTypes` | `TypeOK` of `KeyBroker` | |
| `Attribution` | `AttributionSound`, under any interleaving and crash | |
| `KeyFileBeforeService` | `ServiceHasKeyFile`, under any interleaving and crash | |
| `RevocationIsKept` | `RevokedStays` | commands run one at a time |
| `ExitSynced` | `ExitMeansSynced`, with its exception for a torn plan, which only setup meets | commands run one at a time |
| `PrintedInvitesWork` | `InvitesWork` | commands run one at a time |
| `LedgerImplemented` | `LedgerKept`: `KeyBroker` implements `KeyLedger` | commands run one at a time |
| `RevokedIsOffTheList` | `NoStaleKeyAtRest` | commands run one at a time and are not killed |
| `RevokedNeverReturns` | a revoked key that is off the key file and that the server does not accept never comes back to either: the half of `RevocationTakesEffect` that needs no fairness | commands run one at a time |
| `KeysNeverTakenBack`, `ListedKeysAreIssued` | `NeverTakenBack` and `OnlyIssued` of `KeyLedger`, through the refinement | commands run one at a time |
| `SetupTypes` | `TypeOK` of `SetupFlow` | |
| `OnlyRunnable` | `ServiceOnlyIfRunnable`, wherever runs are cut short | |
| `ScriptsBeforePlan` | `PlanImpliesScripts`, wherever runs are cut short | |
| `WholeModels` | `ModelIsWhole` | no response ends early |
| `PlanOfService` | `ScriptsMatchPlan` | no kill while `up` writes its files |
| `HandoffTypes` | `TypeOK` of `Handoff` | |
| `SlotsHoldThePlan` | `PlannedIsServed`, for any context and number of slots | |
| `CheckFindsNoFalseFault` | `CheckIsComplete`, for each agent there is, wherever its joins are killed | one agent in the directory |
| `CheckTellsTheTruth` | `CheckIsSound`, for each agent there is | one agent in the directory; its joins are not killed, or it is Continue or Cline |
| `DriftIsTheUsers` | `DriftMeansEdited` | one agent, not Qwen Code, whose joins are not killed |
| `ServiceTypes` | `TypeOK` of `ServiceInstall` | |
| `ServerNeverBare` | `ServerHasFlags`, wherever commands are killed, with its exception for a first install that is cut short before `nssm set` | |
| `InstallTellsTheTruth` | `InstalledMeansServing`, wherever commands are killed | |
| `LookupTypes` | `TypeOK` of `ReleaseLookup` | |
| `OldNeedsLoss` | `OldOnlyUnlisted`, for any number of builds and failures | |
| `AsPlanned` | `InstalledAsPlanned` | |
| `NotBehindLatest` | `NeverBehindLatest` | |
| `SizingTypes` | `TypeOK` of `Sizing`: no amount of memory goes below zero | |
| `ReadsFarEnough` | `ReadReaches`, for any file, any read steps and any replies, short and without a size included | |
| `CacheIsCovered` | `KvCovered`, for any number of layers | `TruthfulAssumption` |
| `NeverBeyondRoom` | `VramRespected`, for any model, machine and plan | |
| `NeverPages` | `FitsNeverPages`, for any model, machine and plan | |
| `MoreIsNoWorse` | `MoreNeverHurts`, for any catalogue, machine and plan | |
| `OvercommitNeverPassed` | `OvercommitCaught`, for any drift and any lines missing from the log | |
| `DoctorTypes` | `TypeOK` of `ClientDoctor` | |
| `EndsInTime` | `NotForever`, whatever lines come and however far apart; a line is read in one piece | |
| `NeverBlamed` | `StreamNotBlamed` | `PaceAssumption` |
| `WithheldIsCaught` | `HeldIsCaught`, for any limits | |
| `PassedIsUsable` | `PassMeansUsable` | |
| `CausesAreReal` | `BlamesACause`, whatever the server does between two requests and whoever answers in its place | |
| `UsablePasses` | `UsableMeansPass`, with its exceptions for waiting and empty replies | |

The type invariants are theorems, so no run repeats them.

### The key broker

1. *Lists.* `ForDeviceIsActive`, `WithAddedWellFormed`, `WithRevokedWellFormed`
   say what `for_device`, `add` and `revoke` do to a well-formed list. The first
   needs one active entry per device: the oldest entry exists because it is the
   only one.
2. `BrokerInv` adds to `TypeOK` that *every* list, on disk or in memory, is a
   `GoodList`: typed, finite, well-formed, and with no key above `issued`.
   `AttributionSound` alone is not inductive: `add` draws the key `issued + 1`,
   and nothing else says that a list loaded long ago does not hold it. Finiteness
   is what makes the number of active keys, where setup's loop begins, a natural
   number.
3. `KeyFileInv` adds to `ServiceHasKeyFile` that a process past the opening of
   the key file has made it exist: `WriteScripts` is safe only because of where
   its process has been.
4. `AloneInv` adds that at most one process runs, and for each point of a command
   what it may count on: its list is the one on disk except while it is being
   saved, the revoked keys are revoked in it, the file is written from it. `Load`
   establishes it, and `OnlyOneRuns` lets a step look after its own process only.
   For the exception of `ExitMeansSynced`, `PlanInv` adds that a setup leaves `up`
   out only beside a plan, torn or whole, and ends with a note only beside a torn one.
5. *The refinement.* `LedgerInv` says that a store is torn while a process saves;
   with `AloneInv` the list of the ledger then is that of the one process. Each
   action is shown to be one of six kinds of step (`LedgerStep`), and each kind a step or a
   stutter of `KeyLedger`. `KeysNeverTakenBack` is then proved of the ledger's
   steps, where no file or process is in the way.
6. *The list at rest.* `NoStaleKeyAtRest` is not inductive either: a key is out of the
   ledger before it is out of the key file. `FreshInv` says which command is in
   between (`Pending`: a `revoke` or a rotation that has not opened the file yet, a
   rotation also between its halves), and that otherwise the list holds active
   keys of the ledger only. A kill would leave a command pending for ever, hence
   the assumption. For `RevokedNeverReturns`, `AloneInv` is enough: the one step
   that puts keys on the list writes those of a list in which every revoked key
   is an inactive entry, and no key has a second entry.

### Setup

1. `SetupInv` adds to the properties what a run has seen (`RunInv`). Past
   preflight the machine serves and has a key, and no later step takes that away:
   runs of any kind may follow, but `setup` and `up` remove neither files nor
   keys (`key revoke` is in `KeyBroker`). A run that still has the model to
   download found none, so a download never replaces a model some script names.
   And the files of `up` before the one it is at exist, hence the scripts before
   the plan.
2. `MatchInv`, for `PlanOfService`, adds that the files of `up` before the one it
   is at were written from the plan of this run, and that a run between steps is
   at the first file. A kill there, which the assumption excludes, leaves a
   script and a plan of different runs.

### The handoff

`HandoffInv` adds that only an installed service runs, that a running server
divides the pool of the flags it was started with, and that a join is at one of
its files (`WritesFiles`: two or three, all of them files of the directory).
`PlannedIsServed` then is `(n * s) \div s = n` for the flags of a plan, and that
no flags divide by zero slots. `HandoffInvSplits` has the steps of the server
leave the laptop's half alone, and the reverse.

The three theorems about `check` are for a directory of one agent, whichever of
the six it is: with two, the first in `_READERS` order is judged and not the one
in use (§3). They rest on `FoundIsWhatItLoads`, a fact about the readers alone:
if the agent's own file is whole and pins a window, the window, the key and the
model that `read_client_config` puts together are those the agent loads, whether
the sidecar is there, torn, of another join, or not. `CheckFindsNoFalseFault` needs
nothing else. For `CheckTellsTheTruth` the file must be shown to be there when
check passes, in two ways. An agent that keeps its key in its file has no key to
check with unless its file is whole, so that its joins may be killed anywhere; for
the others `TogetherInv` says that at rest the files of an agent are all there or
all absent, since a join has written those before the one it is at (`WritesApart`:
it never comes back to a file). A kill leaves a whole sidecar beside a torn file, and
the key in the environment then passes for an agent that cannot start: the
assumption is needed. `BegunInv` adds that what is in the directory carries a window
(`ChoiceIsAContext`: join refuses 0 and falls back otherwise) and is of the agent
joined last. `TogetherInv` also says that the files have one window unless the user
edited it, which is `DriftIsTheUsers`.

### The service install

`FlagsInv` adds that the server is registered with the flags of a plan unless an
install stands exactly between `nssm install` and `nssm set` (or was cut short there, `gap`), that such an install
has the plan of a whole script in hand, and that what is left of a script is a
rest of its commands in their order. Without it `nssm start` and the boot could
start a service that has no flags.

`ProgressInv`, for `InstallTellsTheTruth`, says what an install has done at each point
of each script (`DoneSoFar`), in terms of the commands that are left of it: nothing
takes any of it back, and no `up` rewrites the files while an install runs. It holds only if NSSM was there
at the start and all files are whole, since failures of NSSM and of torn scripts
reach no exit code; and an exit code of 0 means that the fourth script, which there
is none of, was next.

### The release lookup

`LookupInv` adds that a tag a run has worked out is no build or not older than what
was latest when it began (the feed is never behind the latest release, and neither goes
back), that a planned build is the tag in hand and nothing is looked up any more, and that
a first lookup goes on to install only what passed the test.

### Sizes

1. *Arithmetic.* `CeilDiv` is enough and less than one too many; layers times their
   share is then at least what has to be moved, and at most one layer more.
   `NeverBeyondRoom` needs the first half, `NeverPages` the second and the margin.
2. *Layers.* `GrowingLayersCounted` takes the four sources of `full_attn_layers` in
   turn: the entries that are not zero, the list, the stride and the table count
   at least the global layers with a cache. For the last two this is
   `MultiplesUpTo` (of L layers, L \div n are multiples of n) and needs
   `TruthfulAssumption`. `n_kv_heads` is the largest count of those layers, so the
   product bounds the pairs of a layer and a head, which is `CacheIsCovered`.
3. *Better machines.* `MoreToGive` and `VerdictNoWorse` follow an amount of memory
   through `solve`: a larger machine and a smaller plan keep FITS and keep what runs.
   A ranking needs more: the model that was best may be outdone on the
   better machine. `RecommendsTheBest` says that whichever model of the catalogue runs,
   `recommend` has one to name that it does not rank below it; with the verdict in
   use being one that was to be had (`VerdictInUse`), this is `MoreIsNoWorse`.
4. `SizingInv` adds that the model that was read is made of the file, that a verdict
   on it is `Solve`'s for the machine as the running command sees it, and what the
   server took in terms of the verdict it was started with. `OvercommitNeverPassed` sums the tolerances of
   the parts from it: a part that is not logged counts as planned, so that it adds
   nothing to what the others have to explain. `ReadsFarEnough` goes through the ways
   a read can give up, the tested prefix being whole, short, or of an unknown file.

### The client doctor

`DoctorInv` has a part for each way in which the past of a check shows in its state.
`Order`: which requests came before, and that only the last one streams. `Books`:
every frame is still to come, held by the proxy, on the wire, or read. `Clock`: the
wait beyond the time limit is for one line. `Pace`: if nothing buffers, frames
beyond one burst are a `Gap` apart; this gives `NeverBlamed`. `Withheld`: if a
proxy holds a reply to its end, what is read came at one moment; this gives
`WithheldIsCaught`. `Shown`: what the checks that passed have shown of a server
that has not changed; this gives `PassedIsUsable`. The two action properties
follow from `TypeOK`, `Order` and `Books` case by case, one case for each answer
there may be to each request, those of another program included.

`PaceAssumption` is the code's own: "a genuine stream from this hardware is an
order of magnitude slower than the threshold" (`client.py`), and one step yields
fewer frames than are judged.

Each invariant has a lemma per action (or group of actions) and one for `Next`.

Every invariant that a passing run checks is a theorem, under the assumptions of its run or
weaker ones. Only model-checked are the liveness properties
(`RevocationTakesEffect`, `SetupSucceeds`, `GetsThrough`, `FixesConverge`,
`InstallConverges`, `AskedUntilThere`, `CheckEnds`): fairness and `ENABLED` are out of
the prover's reach. That a revocation is final is proved without them
(`RevokedNeverReturns`).

## 5. What is not modelled, and why

* Text: the wording of scripts, configs and messages, and the Caddyfile. A file
  stands for what its reader finds in it.
* Disk space and the tooling check: they end a run before it changes anything.
* The encoding of invites and its checksum, and the bytes of a GGUF value: a token
  and a header are whole or they are not.
* The parsing of text of other programs (`detect.py`, the log in `verify.py`), and
  the calibration of the driver's reserve: data. The speed estimate is
  floating-point arithmetic that is printed, speculative decoding a flag.
* `guide.py`: it reads what `plan_setup` reads and changes nothing; what a user does
  who follows it is planned.
* A proxy that releases a reply in parts: the code has no rule for it, so there is
  nothing to hold it to.
* The watchdog's loop: a script that is generated, not run, by the code here.
* The settings of a service that NSSM would have by default as well (automatic
  start, restart on exit) and its log files.

## 6. Plan

Done: `KeyStore`, `KeyLedger` and the refinement, `KeyBroker`, `SetupFlow`,
`ReleaseLookup`, `Handoff`, `ServiceInstall`, the algorithms of reader and solver in
`Sizing`, `ClientDoctor`, and their theorems. What is left, in order of what it
would add:

1. **Refinement** of one abstract service (the flags NSSM has, the flags a server was
   started with) by both `Handoff`, which installs in one step, and
   `ServiceInstall`, which opens that step; and of `SetupFlow` by what a user of
   `setup` relies on. With them, more stable halves of the liveness properties.
2. **`Guide`**: a user who does nothing but what `next` prints, over the files of
   `SetupFlow`; does it lead where `setup` leads, from every state a killed run leaves?
3. **The invite's checksum** against damage that the code names: a lost end, a
   changed letter, a broken line.
4. **Buffering in parts** in `ClientDoctor`, once the code judges it.

Runs stay one per question. A new one whose answer is covered by another gives way
when a deeper question needs the place.

------------------------------ MODULE KeyBroker ------------------------------
(***************************************************************************)
(* The key broker: the commands of src/localllm/cli.py that read or write  *)
(* the key store (keys.json) and the allow-list (keys.txt), as processes   *)
(* that share those two files, and llama-server, which parses the          *)
(* allow-list once, when it starts.                                        *)
(*                                                                         *)
(* A process makes one access to a shared file per step.  Both files are   *)
(* rewritten in place, so a rewrite is two steps: opening truncates the    *)
(* file, writing fills it.  No file is locked: another command or the      *)
(* server may come in between, and the process may die there.              *)
(*                                                                         *)
(* Simplifications.  All commands are given the same --store and the       *)
(* server's key file and plan: `revoke`, `invite` and `up` find them when  *)
(* they run beside ./deploy, `export` needs --out and setup --out.  The    *)
(* checks of preflight other than the one on the number of keys, the       *)
(* downloads of setup and what the plan holds are the subject of other     *)
(* modules: here `up` passes them and a download is time that passes       *)
(* between two steps.                                                      *)
(***************************************************************************)
EXTENDS KeyStore

CONSTANTS
    Procs,        \* processes that may run a command
    Fleet,        \* setup --devices; laptop-i is the device i
    MaxKeys,      \* bound: keys generated in a behaviour
    Exclusive,    \* TRUE: a command starts only when no other one runs
    Crashes       \* TRUE: a process may be killed between two steps

ASSUME DevicesAssumption == Devices \subseteq Nat \ {0}
ASSUME FleetAssumption == Fleet \in Nat \ {0} /\ 1..Fleet \subseteq Devices
ASSUME MaxKeysAssumption == MaxKeys \in Nat
ASSUME FlagsAssumption == Exclusive \in BOOLEAN /\ Crashes \in BOOLEAN

VARIABLES
    proc,       \* proc[p]: the command p runs, how far, and its KeyStore objects
    store,      \* keys.json; torn while truncated and not yet written
    keyfile,    \* keys.txt
    deployed,   \* what `up` has written: "none", "scripts", and "plan" or, while
                \* server-plan.json is truncated and not yet written, "torn"
    server,     \* llama-server and the key list it parsed when it started
    issued,     \* history: number of keys generated
    revoked     \* history: the keys some saved keys.json has recorded as revoked

vars == <<proc, store, keyfile, deployed, server, issued, revoked>>

Commands == {"add", "revoke", "export", "invite", "rotate", "up", "setup"}
DeviceCommands == {"add", "revoke", "invite", "rotate"}
NoDevice == 0

\* "exited" and "noted" both return 0; "noted" is setup that could not read
\* the plan, and says so.
PC == {"idle", "loaded", "saving", "allowlist", "writing", "scripts", "plan",
       "planning", "loadplan", "noted", "exited"}

\* `mem` is the list of the KeyStore object in use.  `outer` is setup's own
\* object while cmd_up runs inside setup with one of its own.
Process == [pc : PC, cmd : Commands, dev : Devices \cup {NoDevice},
            mem : SUBSET DeviceKey, outer : SUBSET DeviceKey, inUp : BOOLEAN,
            next : Nat, todoUp : BOOLEAN]

Idle == [pc |-> "idle", cmd |-> "export", dev |-> NoDevice, mem |-> {},
         outer |-> {}, inUp |-> FALSE, next |-> 1, todoUp |-> FALSE]

TypeOK ==
    /\ proc \in [Procs -> Process]
    /\ store \in [torn : BOOLEAN, entries : SUBSET DeviceKey]
    /\ keyfile \in [exists : BOOLEAN, keys : SUBSET Nat]
    /\ deployed \in {"none", "scripts", "torn", "plan"}
    /\ server \in [up : BOOLEAN, accepted : SUBSET Nat]
    /\ issued \in Nat
    /\ revoked \subseteq Nat

\* A new machine.  A keys.json that does not exist reads as an empty one.
Init ==
    /\ proc = [p \in Procs |-> Idle]
    /\ store = [torn |-> FALSE, entries |-> {}]
    /\ keyfile = [exists |-> FALSE, keys |-> {}]
    /\ deployed = "none"
    /\ server = [up |-> FALSE, accepted |-> {}]
    /\ issued = 0
    /\ revoked = {}

Quiet == \A p \in Procs : proc[p].pc = "idle"

\* Inside cmd_up, whoever called it
RunsUp(r) == r.cmd = "up" \/ r.inUp

-----------------------------------------------------------------------------
(* Starting a command.                                                     *)

\* range(len(store.active()), max(1, devices)) and the step "keys" of
\* plan_setup: the first laptop number the loop tries is one past the count
\* of active keys.
FirstMissing(entries) == Cardinality(ActiveEntries(entries)) + 1

\* KeyStore(args.store).  A torn keys.json does not parse: the command dies
\* with a traceback before it changes anything, so it is not started here.
\* cmd_invite returns before loading the store if there is no plan it can
\* read; setup takes a plan that exists for one that `up` need not write.
Load(p, c, d) ==
    /\ proc[p].pc = "idle"
    /\ Exclusive => Quiet
    /\ ~store.torn
    /\ (d = NoDevice) = (c \notin DeviceCommands)
    /\ c \in {"invite", "rotate"} => deployed = "plan"
    /\ c \in {"add", "invite", "rotate"} => issued < MaxKeys
    /\ c = "setup" => issued + Fleet <= MaxKeys
    /\ LET first == FirstMissing(store.entries)
       IN  proc' = [proc EXCEPT ![p] =
              [pc |-> IF c = "export" THEN "allowlist" ELSE "loaded",
               cmd |-> c, dev |-> d, mem |-> store.entries, outer |-> {},
               inUp |-> FALSE,
               next |-> IF c = "setup" THEN first ELSE 1,
               todoUp |-> c = "setup" /\ (deployed \in {"none", "scripts"} \/ first <= Fleet)]]
    /\ UNCHANGED <<store, keyfile, deployed, server, issued, revoked>>

-----------------------------------------------------------------------------
(* Changing the store: the list in memory, then save().                    *)

\* The laptops setup still has to issue a key for: the loop skips a laptop
\* number whose name already has an active key.
Unissued(r) == {i \in r.next..Fleet : ~HasActive(r.mem, i)}

\* Mutant of IssuesFor: `add` does not look for an active key first.
IssuesForAnyway(r, d) ==
    \/ r.cmd \in {"add", "invite", "rotate"} /\ d = r.dev
    \/ r.cmd = "setup" /\ d \in Unissued(r) /\ \A i \in Unissued(r) : d <= i

\* The device the command issues a key for now, if any
IssuesFor(r, d) ==
    \/ r.cmd \in {"add", "invite", "rotate"} /\ d = r.dev /\ ~HasActive(r.mem, d)
    \/ r.cmd = "setup" /\ d \in Unissued(r) /\ \A i \in Unissued(r) : d <= i

\* KeyStore.add: a new key, appended; save() opens keys.json for writing
Issue(p, d) ==
    /\ proc[p].pc = "loaded" /\ ~proc[p].inUp
    /\ IssuesFor(proc[p], d)
    /\ issued < MaxKeys
    /\ issued' = issued + 1
    /\ proc' = [proc EXCEPT ![p].mem = WithAdded(@, d, issued + 1),
                            ![p].next = IF proc[p].cmd = "setup" THEN d + 1 ELSE @,
                            ![p].pc = "saving"]
    /\ store' = [torn |-> TRUE, entries |-> {}]
    /\ UNCHANGED <<keyfile, deployed, server, revoked>>

\* KeyStore.revoke, by `key revoke` and as the first half of a rotation
Withdraw(p) ==
    /\ proc[p].pc = "loaded"
    /\ proc[p].cmd \in {"revoke", "rotate"}
    /\ HasActive(proc[p].mem, proc[p].dev)
    /\ proc' = [proc EXCEPT ![p].mem = WithRevoked(@, proc[p].dev),
                            ![p].pc = "saving"]
    /\ store' = [torn |-> TRUE, entries |-> {}]
    /\ UNCHANGED <<keyfile, deployed, server, issued, revoked>>

\* Mutant of AfterSave: `revoke` leaves the key file to the user.
AfterSaveRevokeStops(r) ==
    CASE r.cmd \in {"add", "revoke"} -> "exited"
      [] r.cmd = "setup" \/ (r.cmd = "rotate" /\ ~HasActive(r.mem, r.dev)) -> "loaded"
      [] OTHER -> "allowlist"

\* Mutant of AfterSave: `invite` issues a key and does not refresh the file.
AfterSaveInviteStops(r) ==
    CASE r.cmd \in {"add", "invite"} -> "exited"
      [] r.cmd = "setup" \/ (r.cmd = "rotate" /\ ~HasActive(r.mem, r.dev)) -> "loaded"
      [] OTHER -> "allowlist"

\* What a command does when save() has returned: `add` is done, a rotation
\* that has only revoked goes on to issue, setup goes on with its loop.
AfterSave(r) ==
    CASE r.cmd = "add" -> "exited"
      [] r.cmd = "setup" \/ (r.cmd = "rotate" /\ ~HasActive(r.mem, r.dev)) -> "loaded"
      [] OTHER -> "allowlist"

\* save(): the list in memory replaces whatever keys.json held
Save(p) ==
    /\ proc[p].pc = "saving"
    /\ store' = [torn |-> FALSE, entries |-> proc[p].mem]
    /\ revoked' = revoked \cup {e.key : e \in {e \in proc[p].mem : ~e.active}}
    /\ proc' = [proc EXCEPT ![p].pc = AfterSave(proc[p])]
    /\ UNCHANGED <<keyfile, deployed, server, issued>>

\* `invite` for a device that has a key hands out that one
ReuseKey(p) ==
    /\ proc[p].pc = "loaded" /\ proc[p].cmd = "invite"
    /\ HasActive(proc[p].mem, proc[p].dev)
    /\ proc' = [proc EXCEPT ![p].pc = "allowlist"]
    /\ UNCHANGED <<store, keyfile, deployed, server, issued, revoked>>

\* DeviceExistsError, DeviceNotFoundError, and preflight without a key:
\* the command returns 1 and has changed nothing (setup returns what its
\* cmd_up returned).
Refuses(r) ==
    \/ r.cmd = "add" /\ HasActive(r.mem, r.dev)
    \/ r.cmd = "revoke" /\ ~HasActive(r.mem, r.dev)
    \/ RunsUp(r) /\ ActiveEntries(r.mem) = {}

Refuse(p) ==
    /\ proc[p].pc = "loaded" /\ Refuses(proc[p])
    /\ proc' = [proc EXCEPT ![p] = Idle]
    /\ UNCHANGED <<store, keyfile, deployed, server, issued, revoked>>

-----------------------------------------------------------------------------
(* `up`, on its own or inside setup.                                       *)

\* setup has issued what it issues and calls cmd_up, which loads a KeyStore
\* of its own; a torn file kills the whole setup.
EnterUp(p) ==
    /\ proc[p].pc = "loaded" /\ proc[p].cmd = "setup" /\ ~proc[p].inUp
    /\ Unissued(proc[p]) = {} /\ proc[p].todoUp
    /\ proc' = [proc EXCEPT ![p] =
          IF store.torn THEN Idle
          ELSE [proc[p] EXCEPT !.outer = proc[p].mem, !.mem = store.entries,
                               !.inUp = TRUE]]
    /\ UNCHANGED <<store, keyfile, deployed, server, issued, revoked>>

\* Mutant of Preflight: cmd_up goes straight to the scripts.
PreflightNoKeyFile(p) ==
    /\ proc[p].pc = "loaded" /\ RunsUp(proc[p])
    /\ ActiveEntries(proc[p].mem) # {}
    /\ proc' = [proc EXCEPT ![p].pc = "scripts"]
    /\ UNCHANGED <<store, keyfile, deployed, server, issued, revoked>>

\* preflight passes: _auth_check wants at least one active key
Preflight(p) ==
    /\ proc[p].pc = "loaded" /\ RunsUp(proc[p])
    /\ ActiveEntries(proc[p].mem) # {}
    /\ proc' = [proc EXCEPT ![p].pc = "allowlist"]
    /\ UNCHANGED <<store, keyfile, deployed, server, issued, revoked>>

\* setup on a machine that needs no `up`
SkipUp(p) ==
    /\ proc[p].pc = "loaded" /\ proc[p].cmd = "setup" /\ ~proc[p].inUp
    /\ Unissued(proc[p]) = {} /\ ~proc[p].todoUp
    /\ proc' = [proc EXCEPT ![p].pc = "loadplan"]
    /\ UNCHANGED <<store, keyfile, deployed, server, issued, revoked>>

\* setup, after `up` or without it, reads the plan for its invites.  Only if
\* it can does it refresh the key file; if not, it ends with a note and 0.
LoadPlan(p) ==
    /\ proc[p].pc = "loadplan"
    /\ proc' = [proc EXCEPT ![p].pc = IF deployed = "plan" THEN "allowlist" ELSE "noted"]
    /\ UNCHANGED <<store, keyfile, deployed, server, issued, revoked>>

\* The service scripts, and after them the plan, the last file cmd_up writes:
\* opening it truncates the plan that was there
WriteScripts(p) ==
    /\ proc[p].pc = "scripts"
    /\ deployed' = IF deployed = "none" THEN "scripts" ELSE deployed
    /\ proc' = [proc EXCEPT ![p].pc = "plan"]
    /\ UNCHANGED <<store, keyfile, server, issued, revoked>>

OpenPlan(p) ==
    /\ proc[p].pc = "plan"
    /\ deployed' = "torn"
    /\ proc' = [proc EXCEPT ![p].pc = "planning"]
    /\ UNCHANGED <<store, keyfile, server, issued, revoked>>

\* On its return setup goes back to the KeyStore it loaded when it started
WritePlan(p) ==
    /\ proc[p].pc = "planning"
    /\ deployed' = "plan"
    /\ proc' = [proc EXCEPT ![p] =
          IF proc[p].inUp
          THEN [proc[p] EXCEPT !.pc = "loadplan", !.inUp = FALSE, !.todoUp = FALSE,
                               !.mem = proc[p].outer, !.outer = {}]
          ELSE [proc[p] EXCEPT !.pc = "exited"]]
    /\ UNCHANGED <<store, keyfile, server, issued, revoked>>

-----------------------------------------------------------------------------
(* Writing the allow-list.                                                 *)

\* `up` and `export` create keys.txt; the others refuse to, as a missing one
\* means this is not the server machine.
MayOpen(r) == keyfile.exists \/ RunsUp(r) \/ r.cmd = "export"

\* write_api_key_file: opening for writing truncates
OpenKeyFile(p) ==
    /\ proc[p].pc = "allowlist"
    /\ IF MayOpen(proc[p])
       THEN /\ keyfile' = [exists |-> TRUE, keys |-> {}]
            /\ proc' = [proc EXCEPT ![p].pc = "writing"]
       ELSE /\ proc' = [proc EXCEPT ![p].pc = "exited"]
            /\ UNCHANGED keyfile
    /\ UNCHANGED <<store, deployed, server, issued, revoked>>

WriteKeyFile(p) ==
    /\ proc[p].pc = "writing"
    /\ keyfile' = [exists |-> TRUE, keys |-> AllowList(proc[p].mem)]
    /\ proc' = [proc EXCEPT ![p].pc = IF RunsUp(proc[p]) THEN "scripts" ELSE "exited"]
    /\ UNCHANGED <<store, deployed, server, issued, revoked>>

\* The command has returned 0
Exit(p) ==
    /\ proc[p].pc \in {"exited", "noted"}
    /\ proc' = [proc EXCEPT ![p] = Idle]
    /\ UNCHANGED <<store, keyfile, deployed, server, issued, revoked>>

\* The process is killed.  What it has written stays as it is.
Kill(p) ==
    /\ Crashes
    /\ proc[p].pc \notin {"idle", "exited", "noted"}
    /\ proc' = [proc EXCEPT ![p] = Idle]
    /\ UNCHANGED <<store, keyfile, deployed, server, issued, revoked>>

-----------------------------------------------------------------------------
(* llama-server, which the code in src/ installs but does not contain.     *)

\* It parses the key file once; it throws when the file is missing.  NSSM
\* starts it at boot, when it has died, and on Restart-Service.
ServerStart ==
    /\ ~server.up /\ deployed # "none" /\ keyfile.exists
    /\ server' = [up |-> TRUE, accepted |-> keyfile.keys]
    /\ UNCHANGED <<proc, store, keyfile, deployed, issued, revoked>>

ServerStop ==
    /\ server.up
    /\ server' = [up |-> FALSE, accepted |-> {}]
    /\ UNCHANGED <<proc, store, keyfile, deployed, issued, revoked>>

-----------------------------------------------------------------------------

\* The steps of a command that has been started
Step(p) ==
    \/ \E d \in Devices : Issue(p, d)
    \/ Withdraw(p) \/ Save(p) \/ ReuseKey(p) \/ Refuse(p)
    \/ EnterUp(p) \/ Preflight(p) \/ SkipUp(p)
    \/ WriteScripts(p) \/ OpenPlan(p) \/ WritePlan(p) \/ LoadPlan(p)
    \/ OpenKeyFile(p) \/ WriteKeyFile(p) \/ Exit(p)

Next ==
    \/ \E p \in Procs :
          \/ \E c \in Commands, d \in Devices \cup {NoDevice} : Load(p, c, d)
          \/ Step(p)
          \/ Kill(p)
    \/ ServerStart
    \/ ServerStop

Spec == Init /\ [][Next]_vars

\* A started command is scheduled until it ends, and NSSM starts the service
\* whenever it is down (SERVICE_AUTO_START, AppExit Default Restart).
Fairness ==
    /\ \A p \in Procs : WF_vars(Step(p))
    /\ WF_vars(ServerStart)

FairSpec == Spec /\ Fairness

-----------------------------------------------------------------------------
(* Properties of every interleaving, crashes included.                     *)

\* However commands interleave, keys.json never gives a device two active
\* keys nor one key to two entries, and neither does any KeyStore object
\* that a command may still save (the guard of KeyStore.add, checked against
\* a list that may be stale).
AttributionSound ==
    /\ WellFormed(store.entries)
    /\ \A p \in Procs : WellFormed(proc[p].mem) /\ WellFormed(proc[p].outer)

\* The key file is there before anything that makes the service start with
\* it: cmd_up writes it first, and no step removes it (cmd_up: "the key file
\* must exist before the service starts").
ServiceHasKeyFile == deployed # "none" => keyfile.exists

-----------------------------------------------------------------------------
(* Properties of commands that run one at a time, crashes included.        *)

\* A command other than `add` that returns 0 on the server machine leaves
\* the key file equal to the store's active keys, whatever an earlier command
\* that was killed had left behind.  The one exception is setup when an
\* earlier `up` was killed inside the write of the plan: the plan is there, so
\* `up` is skipped, it does not load, and setup returns 0 with a note and the
\* key file as it was, possibly without a key or with a revoked one.
ExitMeansSynced ==
    \A p \in Procs :
        /\ proc[p].pc = "exited" /\ proc[p].cmd # "add" /\ keyfile.exists
              => keyfile.keys = AllowList(store.entries)
        /\ proc[p].pc = "noted" => proc[p].cmd = "setup" /\ deployed = "torn"

\* "Revocation is not deletion" (keys.py): once a revocation is on disk, the
\* entry stays in the store and stays revoked.
RevokedStays ==
    ~store.torn => \A k \in revoked : \E e \in store.entries : e.key = k /\ ~e.active

\* The keys in the invites a command prints
Tokens(r) ==
    IF r.cmd \in {"invite", "rotate"} THEN {ForDevice(r.mem, r.dev).key}
    ELSE IF r.cmd = "setup" THEN {e.key : e \in FirstActive(r.mem, Fleet)}
    ELSE {}

\* An invite that was printed works after a restart: its key is active, and
\* it is in the key file if this is the server machine.
InvitesWork ==
    \A p \in Procs : proc[p].pc = "exited" =>
        /\ Tokens(proc[p]) \subseteq AllowList(store.entries)
        /\ keyfile.exists => Tokens(proc[p]) \subseteq keyfile.keys

\* The ledger: keys.json, and while a command rewrites it the list that
\* command has in memory.  It is lost if that command is killed.
Saving == {p \in Procs : proc[p].pc = "saving"}

Ledger == INSTANCE KeyLedger WITH
    Keys <- 1..MaxKeys,
    ledger <- IF store.torn THEN UNION {proc[p].mem : p \in Saving} ELSE store.entries,
    lost <- store.torn /\ Saving = {},
    published <- keyfile.keys,
    accepted <- server.accepted

\* Two files that are rewritten in place, KeyStore objects in memory, and
\* commands that may be killed between any two steps amount to one ledger, of
\* which only whole changes are seen, and a list that is never out of an old one.
LedgerKept == Ledger!Spec

-----------------------------------------------------------------------------
(* Properties of commands that run one at a time and are not killed.       *)

\* At rest the key file may lack a key that was just added, but never holds a
\* revoked one: "revocation that does not reach the server is not
\* revocation" (_refresh_key_file), so `revoke` and `invite --rotate` rewrite
\* the file themselves.
NoStaleKeyAtRest ==
    Quiet /\ keyfile.exists => keyfile.keys \subseteq AllowList(store.entries)

\* If the server keeps being restarted, a revoked key is one day out of the
\* list it parsed, and stays out of it.
RevocationTakesEffect ==
    []<>(~server.up) =>
        \A k \in 1..MaxKeys : k \in revoked ~> [](k \notin server.accepted)
=============================================================================

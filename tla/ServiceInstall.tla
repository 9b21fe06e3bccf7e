--------------------------- MODULE ServiceInstall ---------------------------
(***************************************************************************)
(* The Administrator half of setup: `service install` (cmd_service,        *)
(* plan_service_install, run_service_scripts) hands the three scripts of   *)
(* `up` to PowerShell, one after the other, and these register the server  *)
(* and its watchdog with NSSM.  Any of it may be cut short, and `up` may   *)
(* have rewritten the scripts since.                                       *)
(*                                                                         *)
(* Simplifications.  The shell is elevated (a plain one is refused before  *)
(* anything runs) and commands run one at a time.  Of `up` there are only  *)
(* the scripts and the loop the watchdog runs.  The settings NSSM would    *)
(* have by default (automatic start, restart) and the logs are left out.   *)
(***************************************************************************)
EXTENDS Naturals, Sequences, FiniteSets

CONSTANTS
    Plans,        \* what `up` may plan
    MaxFaults     \* bound: kills, reboots and failures of PowerShell

NoPlan == 0

ASSUME PlansAssumption == Plans \subseteq Nat \ {NoPlan} /\ Plans # {}
ASSUME FaultsAssumption == MaxFaults \in Nat

VARIABLES
    files,        \* the scripts in the deploy directory, and the loop
    up,           \* the `up` that writes them, and (history) whether the last was cut short
    install,      \* the `service install` that runs them
    owed,         \* the user has been told to run `service install`
    nssm,         \* NSSM is on the path
    canQuery,     \* `sc query` may be run on this machine
    awake,        \* the power settings are made
    registered,   \* the services that NSSM knows
    flags,        \* AppParameters of the server
    running,      \* the services that run
    serving,      \* the flags the running server was started with
    faults,       \* history: faults so far
    gap           \* history: a first install was cut short before `nssm set`

machineVars == <<nssm, canQuery, awake, registered, flags, running, serving>>
history == <<faults, gap>>
vars == <<files, up, install, owed, machineVars, history>>

\* The scripts in the order of SERVICE_SCRIPTS, which is that of their numbers;
\* `up` writes the loop after them.
Scripts == <<"powercfg", "nssm", "watchdog">>
UpFiles == <<"powercfg", "nssm", "watchdog", "loop">>
FileNames == {UpFiles[i] : i \in 1..4}

Services == {"server", "watchdog"}

\* A file stands for the plan it was rendered from.
Absent == [state |-> "absent", plan |-> NoPlan]
Torn == [state |-> "torn", plan |-> NoPlan]
WholeFrom(p) == [state |-> "whole", plan |-> p]
AllWhole == \A f \in FileNames : files[f].state = "whole"

\* Mutant of Body: the service is started before its parameters are set.
BodyStartsFirst(script) ==
    CASE script = "powercfg" -> <<"power">>
      [] script = "nssm" -> <<"install", "start", "set">>
      [] OTHER -> <<"install", "start">>

\* The commands of a script that change the machine
Body(script) ==
    CASE script = "powercfg" -> <<"power">>
      [] script = "nssm" -> <<"install", "set", "start">>
      [] OTHER -> <<"install", "start">>

\* Which service a script is about
ServiceOf(script) == IF script = "watchdog" THEN "watchdog" ELSE "server"

Commands == {"power", "install", "set", "start"}
NoInstall == [pc |-> "idle", script |-> 1, plan |-> NoPlan, left |-> <<>>, failed |-> FALSE,
              hadNssm |-> FALSE]
NoUp == [pc |-> "idle", plan |-> NoPlan, file |-> 1, cut |-> FALSE]

TypeOK ==
    /\ files \in [FileNames -> {Absent, Torn} \cup {WholeFrom(p) : p \in Plans}]
    /\ up \in [pc : {"idle", "open", "write"}, plan : Plans \cup {NoPlan}, file : 1..4,
               cut : BOOLEAN]
    /\ install \in [pc : {"idle", "next", "script", "exited"}, script : 1..4,
                    plan : Plans \cup {NoPlan}, left : Seq(Commands),
                    failed : BOOLEAN, hadNssm : BOOLEAN]
    /\ owed \in BOOLEAN /\ nssm \in BOOLEAN /\ canQuery \in BOOLEAN /\ awake \in BOOLEAN
    /\ registered \subseteq Services /\ running \subseteq Services
    /\ flags \in Plans \cup {NoPlan} /\ serving \in Plans \cup {NoPlan}
    /\ faults \in 0..MaxFaults /\ gap \in BOOLEAN

Init ==
    /\ files = [f \in FileNames |-> Absent]
    /\ up = NoUp
    /\ install = NoInstall
    /\ owed = FALSE
    /\ nssm \in BOOLEAN /\ canQuery \in BOOLEAN
    /\ awake = FALSE
    /\ registered = {} /\ running = {}
    /\ flags = NoPlan /\ serving = NoPlan
    /\ faults = 0 /\ gap = FALSE

Idle == up.pc = "idle" /\ install.pc = "idle"

-----------------------------------------------------------------------------
(* up and setup.                                                           *)

StartUp(p) ==
    /\ Idle
    /\ up' = [NoUp EXCEPT !.pc = "open", !.plan = p, !.cut = up.cut]
    /\ UNCHANGED <<files, install, owed, machineVars, history>>

\* write_text truncates a file, then writes it.
OpenFile ==
    /\ up.pc = "open"
    /\ files' = [files EXCEPT ![UpFiles[up.file]] = Torn]
    /\ up' = [up EXCEPT !.pc = "write"]
    /\ UNCHANGED <<install, owed, machineVars, history>>

\* After the last file `up` prints the command `service install`.
WriteFile ==
    /\ up.pc = "write"
    /\ files' = [files EXCEPT ![UpFiles[up.file]] = WholeFrom(up.plan)]
    /\ IF up.file < 4
       THEN /\ up' = [up EXCEPT !.pc = "open", !.file = @ + 1]
            /\ UNCHANGED owed
       ELSE /\ up' = NoUp
            /\ owed' = TRUE
    /\ UNCHANGED <<install, machineVars, history>>

\* Mutant of Asks: what could not be checked counts as done.
AsksIfKnown == canQuery /\ "server" \notin registered

\* probe_service_installed and the step "service" of plan_setup: one that is
\* registered is done; it is still to do if there is none, or nobody can tell.
Asks == canQuery => "server" \notin registered

\* A setup that finds the files of `up` and prints what is still to do.  It does
\* not take back what was printed before.
AskAgain ==
    /\ Idle /\ AllWhole
    /\ owed' = (owed \/ Asks)
    /\ UNCHANGED <<files, up, install, machineVars, history>>

-----------------------------------------------------------------------------
(* service install.                                                        *)

\* plan_service_install looks whether each script exists.
Complete == \A i \in 1..Len(Scripts) : files[Scripts[i]] # Absent

StartInstall ==
    /\ Idle /\ Complete
    /\ install' = [NoInstall EXCEPT !.pc = "next", !.hadNssm = nssm]
    /\ UNCHANGED <<files, up, owed, machineVars, history>>

Script == Scripts[install.script]

\* PowerShell reads a script before it runs it; an empty one does nothing.
ReadScript ==
    /\ install.pc = "next" /\ install.script <= Len(Scripts)
    /\ install' = [install EXCEPT !.pc = "script", !.plan = files[Script].plan,
                      !.left = IF files[Script].state = "whole" THEN Body(Script) ELSE <<>>]
    /\ UNCHANGED <<files, up, owed, machineVars, history>>

Does(command) == install.pc = "script" /\ install.left # <<>> /\ Head(install.left) = command
Skips == install' = [install EXCEPT !.left = Tail(@)]

\* powercfg
Power ==
    /\ Does("power") /\ Skips
    /\ awake' = TRUE
    /\ UNCHANGED <<files, up, owed, nssm, canQuery, registered, flags, running, serving, history>>

\* `nssm install` fails if the service exists: it keeps its parameters.
Register ==
    /\ Does("install") /\ Skips
    /\ registered' = IF nssm THEN registered \cup {ServiceOf(Script)} ELSE registered
    /\ UNCHANGED <<files, up, owed, nssm, canQuery, awake, flags, running, serving, history>>

\* Mutant of SetParameters: a service that has parameters keeps them.
SetParametersOnce ==
    /\ Does("set") /\ Skips
    /\ flags' = IF nssm /\ "server" \in registered /\ flags = NoPlan
                THEN install.plan ELSE flags
    /\ UNCHANGED <<files, up, owed, nssm, canQuery, awake, registered, running, serving, history>>

\* `nssm set` fails if there is no such service.
SetParameters ==
    /\ Does("set") /\ Skips
    /\ flags' = IF nssm /\ "server" \in registered THEN install.plan ELSE flags
    /\ UNCHANGED <<files, up, owed, nssm, canQuery, awake, registered, running, serving, history>>

\* `nssm start` fails if the service runs: the process keeps its flags.
StartService ==
    /\ Does("start") /\ Skips
    /\ IF nssm /\ ServiceOf(Script) \in registered \ running
       THEN /\ running' = running \cup {ServiceOf(Script)}
            /\ serving' = IF ServiceOf(Script) = "server" THEN flags ELSE serving
       ELSE UNCHANGED <<running, serving>>
    /\ UNCHANGED <<files, up, owed, nssm, canQuery, awake, registered, flags, history>>

\* `powershell -File` exits with 0 at the end of a script, whatever the commands
\* in it returned.
ScriptEnds ==
    /\ install.pc = "script" /\ install.left = <<>>
    /\ install' = [install EXCEPT !.pc = "next", !.script = @ + 1]
    /\ UNCHANGED <<files, up, owed, machineVars, history>>

\* Mutant of PowerShellFails: the other scripts are run, and the last one's
\* code is returned.
PowerShellFailsOnce ==
    /\ install.pc = "next" /\ install.script <= Len(Scripts)
    /\ faults < MaxFaults /\ faults' = faults + 1
    /\ install' = [install EXCEPT !.script = @ + 1, !.failed = (install.script = Len(Scripts))]
    /\ UNCHANGED <<files, up, owed, machineVars, gap>>

\* PowerShell does not start, or does not parse the script: run_service_scripts
\* stops, and the exit code is 1.
PowerShellFails ==
    /\ install.pc = "next" /\ install.script <= Len(Scripts)
    /\ faults < MaxFaults /\ faults' = faults + 1
    /\ install' = [install EXCEPT !.pc = "exited", !.failed = TRUE]
    /\ UNCHANGED <<files, up, owed, machineVars, gap>>

\* After the last script: "This machine now serves on boot"
Finish ==
    /\ install.pc = "next" /\ install.script > Len(Scripts)
    /\ install' = [install EXCEPT !.pc = "exited"]
    /\ UNCHANGED <<files, up, owed, machineVars, history>>

\* The user has done what was asked for if the exit code was 0.
Exit ==
    /\ install.pc = "exited"
    /\ owed' = (owed /\ install.failed)
    /\ install' = NoInstall
    /\ UNCHANGED <<files, up, machineVars, history>>

-----------------------------------------------------------------------------
(* The machine.                                                            *)

\* `winget install NSSM.NSSM`, which the scripts say they require
InstallNssm ==
    /\ ~nssm
    /\ nssm' = TRUE
    /\ UNCHANGED <<files, up, install, owed, canQuery, awake, registered, flags, running,
                   serving, history>>

\* Restart-Service
RestartService ==
    /\ "server" \in running
    /\ serving' = flags
    /\ UNCHANGED <<files, up, install, owed, nssm, canQuery, awake, registered, flags, running,
                   history>>

\* Where the command is that runs
Place ==
    IF up.pc # "idle" THEN up.pc
    ELSE IF install.pc = "script" /\ install.left # <<>> THEN Head(install.left)
    ELSE install.pc

Fault ==
    /\ faults < MaxFaults /\ faults' = faults + 1
    /\ gap' = (gap \/ (Place = "set" /\ flags = NoPlan))
    /\ up' = [NoUp EXCEPT !.cut = up.cut \/ up.pc # "idle"]
    /\ install' = NoInstall

\* The window is closed.
Kill ==
    /\ Fault
    /\ ~Idle
    /\ UNCHANGED <<files, owed, machineVars>>

\* Every registered service starts on boot.
Reboot ==
    /\ Fault
    /\ running' = registered
    /\ serving' = IF "server" \in registered THEN flags ELSE NoPlan
    /\ UNCHANGED <<files, owed, nssm, canQuery, awake, registered, flags>>

-----------------------------------------------------------------------------

UpStep == OpenFile \/ WriteFile

InstallStep ==
    \/ ReadScript \/ Power \/ Register \/ SetParameters \/ StartService
    \/ ScriptEnds \/ Finish \/ Exit

Next ==
    \/ \E p \in Plans : StartUp(p)
    \/ UpStep \/ AskAgain
    \/ StartInstall \/ InstallStep \/ PowerShellFails
    \/ InstallNssm \/ RestartService \/ Kill \/ Reboot

Spec == Init /\ [][Next]_vars

\* Commands go on unless they are killed, and the user runs `service install`
\* as long as the last word was that it is to be run, and setup now and then.
Fairness ==
    /\ WF_vars(UpStep) /\ WF_vars(InstallStep)
    /\ SF_vars(owed /\ StartInstall) /\ SF_vars(AskAgain)

FairSpec == Spec /\ Fairness

-----------------------------------------------------------------------------
(* Properties.                                                             *)

\* A server never runs without flags (they name its key file), whatever was
\* installed over, rewritten, killed or rebooted, with one exception: the first
\* install was cut short between `nssm install` and `nssm set`.
ServerHasFlags == "server" \in running /\ ~gap => serving \in Plans

\* `service install` tells the truth when it returns 0 on a machine with NSSM:
\* both services are registered, with the flags of the scripts that are there,
\* and the machine stays awake.
InstalledMeansServing ==
    install.pc = "exited" /\ ~install.failed /\ install.hadNssm /\ AllWhole =>
        registered = Services /\ flags = files["nssm"].plan /\ awake

\* Doing what `up` and setup print, after every kill and failure, ends with both
\* services and the flags of the last `up`, if that one came to its end.
InstallConverges ==
    \A p \in Plans :
        []nssm /\ <>[](~up.cut /\ \A f \in FileNames : files[f] = WholeFrom(p))
        => <>[](registered = Services /\ flags = p /\ awake)

\* Without NSSM the install fails unnoticed, but setup goes on asking for it
\* until there is a server, also on a machine where it cannot look.
AskedUntilThere ==
    <>[]nssm /\ <>[]AllWhole => <>[]("server" \in registered)
=============================================================================

------------------------ MODULE ServiceInstallProofs ------------------------
(***************************************************************************)
(* Theorems about the service install, for any plans and number of faults. *)
(***************************************************************************)
EXTENDS ServiceInstall, TLAPS

\* What may be left of a script that has been read
Rest(script) ==
    CASE script = "powercfg" -> {<<>>, <<"power">>}
      [] script = "nssm" -> {<<>>, <<"start">>, <<"set", "start">>, <<"install", "set", "start">>}
      [] OTHER -> {<<>>, <<"start">>, <<"install", "start">>}

LEMMA BodyIsRest == \A script \in FileNames : Body(script) \in Rest(script) /\ <<>> \in Rest(script)
BY DEF Body, Rest

LEMMA RestIsTyped == \A script : Rest(script) \subseteq Seq(Commands)
<1>1. /\ <<>> \in Seq(Commands) /\ <<"power">> \in Seq(Commands)
      /\ <<"start">> \in Seq(Commands) /\ <<"set", "start">> \in Seq(Commands)
      /\ <<"install", "set", "start">> \in Seq(Commands)
      /\ <<"install", "start">> \in Seq(Commands)
  BY DEF Commands
<1> QED
  BY <1>1 DEF Rest

\* The script numbers and their names
LEMMA ScriptNames ==
    /\ Scripts[1] = "powercfg" /\ Scripts[2] = "nssm" /\ Scripts[3] = "watchdog"
    /\ Len(Scripts) = 3
    /\ UpFiles[1] = "powercfg" /\ UpFiles[2] = "nssm" /\ UpFiles[3] = "watchdog"
    /\ UpFiles[4] = "loop"
    /\ FileNames = {"powercfg", "nssm", "watchdog", "loop"}
<1>2. /\ UpFiles[1] = "powercfg" /\ UpFiles[2] = "nssm" /\ UpFiles[3] = "watchdog"
      /\ UpFiles[4] = "loop"
  BY DEF UpFiles
<1>3. \A i \in 1..4 : i = 1 \/ i = 2 \/ i = 3 \/ i = 4
  OBVIOUS
<1>4. FileNames = {"powercfg", "nssm", "watchdog", "loop"}
  BY <1>2, <1>3 DEF FileNames
<1> QED
  BY <1>2, <1>4 DEF Scripts

\* What is left of a script, command for command
LEMMA RestSteps ==
    ASSUME NEW i \in 1..3, NEW left \in Rest(Scripts[i]), left # <<>>
    PROVE  /\ Tail(left) \in Rest(Scripts[i])
           /\ Head(left) \in Commands
           /\ Head(left) = "set" => i = 2 /\ Tail(left) = <<"start">>
           /\ i = 2 /\ Head(left) = "install" => Tail(left) = <<"set", "start">>
           /\ i = 2 /\ Head(left) = "start" => Tail(left) = <<>>
           /\ i = 2 => Head(left) # "power"
<1>1. CASE i = 1
  <2>1. left = <<"power">>
    BY <1>1, ScriptNames DEF Rest
  <2>2. Head(left) = "power" /\ Tail(left) = <<>>
    BY <2>1
  <2> QED
    BY <1>1, <2>2, ScriptNames DEF Rest, Commands
<1>2. CASE i = 2
  <2>1. left = <<"start">> \/ left = <<"set", "start">> \/ left = <<"install", "set", "start">>
    BY <1>2, ScriptNames DEF Rest
  <2>2. CASE left = <<"start">>
    <3>1. Head(left) = "start" /\ Tail(left) = <<>>
      BY <2>2
    <3> QED
      BY <1>2, <3>1, ScriptNames DEF Rest, Commands
  <2>3. CASE left = <<"set", "start">>
    <3>1. Head(left) = "set" /\ Tail(left) = <<"start">>
      BY <2>3
    <3> QED
      BY <1>2, <3>1, ScriptNames DEF Rest, Commands
  <2>4. CASE left = <<"install", "set", "start">>
    <3>1. Head(left) = "install" /\ Tail(left) = <<"set", "start">>
      BY <2>4
    <3> QED
      BY <1>2, <3>1, ScriptNames DEF Rest, Commands
  <2> QED
    BY <2>1, <2>2, <2>3, <2>4
<1>3. CASE i = 3
  <2>1. left = <<"start">> \/ left = <<"install", "start">>
    BY <1>3, ScriptNames DEF Rest
  <2>2. CASE left = <<"start">>
    <3>1. Head(left) = "start" /\ Tail(left) = <<>>
      BY <2>2
    <3> QED
      BY <1>3, <3>1, ScriptNames DEF Rest, Commands
  <2>3. CASE left = <<"install", "start">>
    <3>1. Head(left) = "install" /\ Tail(left) = <<"start">>
      BY <2>3
    <3> QED
      BY <1>3, <3>1, ScriptNames DEF Rest, Commands
  <2> QED
    BY <2>1, <2>2, <2>3
<1> QED
  BY <1>1, <1>2, <1>3

-----------------------------------------------------------------------------
(* The invariant.                                                          *)

AtSet == install.pc = "script" /\ install.left # <<>> /\ Head(install.left) = "set"

\* Between `nssm install` and the first `nssm set`, and only there, the server
\* may be registered without flags, and then it does not run, unless an install
\* was cut short there.
FlagsInv ==
    ~gap =>
        /\ "server" \in registered => flags \in Plans \/ AtSet
        /\ "server" \in running => flags \in Plans /\ serving \in Plans

\* What a step may count on
InstallInv ==
    /\ install.pc # "idle" => up.pc = "idle"
    /\ up.pc # "idle" => up.plan \in Plans
    /\ install.pc = "script" =>
          /\ install.script \in 1..3
          /\ install.left \in Rest(Scripts[install.script])
          /\ install.left # <<>> => install.plan \in Plans
    /\ registered # {} => nssm
    /\ FlagsInv

FilesType == files \in [FileNames -> {Absent, Torn} \cup {WholeFrom(p) : p \in Plans}]
UpType ==
    up \in [pc : {"idle", "open", "write"}, plan : Plans \cup {NoPlan}, file : 1..4,
            cut : BOOLEAN]
InstallType ==
    install \in [pc : {"idle", "next", "script", "exited"}, script : 1..4,
                 plan : Plans \cup {NoPlan}, left : Seq(Commands),
                 failed : BOOLEAN, hadNssm : BOOLEAN]
MachineType ==
    /\ owed \in BOOLEAN /\ nssm \in BOOLEAN /\ canQuery \in BOOLEAN /\ awake \in BOOLEAN
    /\ registered \subseteq Services /\ running \subseteq Services
    /\ flags \in Plans \cup {NoPlan} /\ serving \in Plans \cup {NoPlan}
    /\ faults \in 0..MaxFaults /\ gap \in BOOLEAN

LEMMA TypeParts ==
    /\ TypeOK <=> FilesType /\ UpType /\ InstallType /\ MachineType
    /\ TypeOK' <=> FilesType' /\ UpType' /\ InstallType' /\ MachineType'
BY DEF TypeOK, FilesType, UpType, InstallType, MachineType

ServiceInv == TypeOK /\ InstallInv

LEMMA NoneIsTyped ==
    /\ NoUp \in [pc : {"idle", "open", "write"}, plan : Plans \cup {NoPlan}, file : 1..4,
                 cut : BOOLEAN]
    /\ NoInstall \in [pc : {"idle", "next", "script", "exited"}, script : 1..4,
                      plan : Plans \cup {NoPlan}, left : Seq(Commands),
                      failed : BOOLEAN, hadNssm : BOOLEAN]
BY DEF NoUp, NoInstall

LEMMA ServiceInvInit == Init => ServiceInv
<1> SUFFICES ASSUME Init PROVE ServiceInv
  OBVIOUS
<1>1. TypeOK
  <2>1. FilesType
    BY DEF Init, FilesType
  <2>2. UpType /\ InstallType
    BY NoneIsTyped DEF Init, UpType, InstallType
  <2>3. 0 \in 0..MaxFaults
    BY FaultsAssumption
  <2>4. MachineType
    BY <2>3 DEF Init, MachineType
  <2> QED
    BY <2>1, <2>2, <2>4, TypeParts
<1>2. InstallInv
  BY DEF Init, InstallInv, FlagsInv, NoUp, NoInstall
<1> QED
  BY <1>1, <1>2 DEF ServiceInv

-----------------------------------------------------------------------------
(* up and setup.                                                           *)

LEMMA UpKeepsInv ==
    ASSUME ServiceInv,
           (\E p \in Plans : StartUp(p)) \/ OpenFile \/ WriteFile \/ AskAgain
    PROVE  ServiceInv'
<1> USE DEF ServiceInv
<1>1. FilesType /\ UpType /\ InstallType /\ MachineType /\ InstallInv
  BY TypeParts
<1>2. UNCHANGED <<install, machineVars, history>> /\ owed' \in BOOLEAN
  BY <1>1 DEF StartUp, OpenFile, WriteFile, AskAgain, MachineType
<1>3. InstallType' /\ MachineType'
  BY <1>1, <1>2 DEF InstallType, MachineType, machineVars, history
<1>4. FilesType' /\ UpType' /\ (up'.pc # "idle" => up'.plan \in Plans /\ install.pc = "idle")
  <2>1. ASSUME NEW p \in Plans, StartUp(p)
        PROVE  FilesType' /\ UpType' /\ (up'.pc # "idle" => up'.plan \in Plans /\ install.pc = "idle")
    <3>1. up' = [NoUp EXCEPT !.pc = "open", !.plan = p, !.cut = up.cut]
          /\ UNCHANGED <<files, install>> /\ install.pc = "idle"
      BY <2>1 DEF StartUp, Idle
    <3>2. up.cut \in BOOLEAN
      BY <1>1 DEF UpType
    <3>3. up' = [pc |-> "open", plan |-> p, file |-> 1, cut |-> up.cut]
      BY <3>1 DEF NoUp
    <3>4. UpType' /\ up'.plan = p
      BY <3>2, <3>3 DEF UpType
    <3> QED
      BY <1>1, <3>1, <3>4 DEF FilesType
  <2>2. CASE OpenFile
    <3>1. UpFiles[up.file] \in FileNames
      BY <1>1 DEF FileNames, UpType
    <3>2. files' = [files EXCEPT ![UpFiles[up.file]] = Torn] /\ up' = [up EXCEPT !.pc = "write"]
          /\ up.pc = "open"
      BY <2>2 DEF OpenFile
    <3>3. FilesType'
      BY <1>1, <3>1, <3>2 DEF FilesType
    <3>4. UpType' /\ up'.plan = up.plan
      BY <1>1, <3>2 DEF UpType
    <3>5. up.plan \in Plans /\ install.pc = "idle"
      BY <1>1, <3>2 DEF InstallInv
    <3> QED
      BY <3>3, <3>4, <3>5
  <2>3. CASE WriteFile
    <3>1. UpFiles[up.file] \in FileNames
      BY <1>1 DEF FileNames, UpType
    <3>2. files' = [files EXCEPT ![UpFiles[up.file]] = WholeFrom(up.plan)] /\ up.pc = "write"
      BY <2>3 DEF WriteFile
    <3>3. up.plan \in Plans /\ install.pc = "idle"
      BY <1>1, <3>2 DEF InstallInv
    <3>4. FilesType'
      BY <1>1, <3>1, <3>2, <3>3 DEF FilesType
    <3>5. CASE up.file < 4
      <4>1. up' = [up EXCEPT !.pc = "open", !.file = up.file + 1]
        BY <2>3, <3>5 DEF WriteFile
      <4>2. up.file + 1 \in 1..4
        BY <1>1, <3>5 DEF UpType
      <4>3. UpType' /\ up'.plan = up.plan
        BY <1>1, <4>1, <4>2 DEF UpType
      <4> QED
        BY <3>3, <3>4, <4>3
    <3>6. CASE ~(up.file < 4)
      <4>1. up' = NoUp
        BY <2>3, <3>6 DEF WriteFile
      <4>2. UpType' /\ up'.pc = "idle"
        BY <4>1, NoneIsTyped DEF UpType, NoUp
      <4> QED
        BY <3>4, <4>2
    <3> QED
      BY <3>5, <3>6
  <2>4. CASE AskAgain
    BY <1>1, <2>4 DEF AskAgain, Idle, FilesType, UpType
  <2> QED
    BY <2>1, <2>2, <2>3, <2>4
<1>5. InstallInv'
  BY <1>1, <1>2, <1>4 DEF InstallInv, FlagsInv, AtSet, machineVars, history
<1> QED
  BY <1>3, <1>4, <1>5, TypeParts

-----------------------------------------------------------------------------
(* service install: steps that leave the machine as it is                  *)

\* A step of the installer to a place that is not inside a script
LEMMA OutsideKeepsInv ==
    ASSUME ServiceInv, ~AtSet, up.pc = "idle", InstallType', install'.pc # "script",
           UNCHANGED <<files, up, machineVars, gap>>, owed' \in BOOLEAN, faults' \in 0..MaxFaults
    PROVE  ServiceInv'
<1>1. FilesType' /\ UpType' /\ MachineType'
  BY TypeParts DEF ServiceInv, FilesType, UpType, MachineType, machineVars
<1>2. InstallInv'
  BY DEF ServiceInv, InstallInv, FlagsInv, machineVars
<1> QED
  BY <1>1, <1>2, TypeParts DEF ServiceInv

LEMMA QuietStepsKeepInv ==
    ASSUME ServiceInv, StartInstall \/ ScriptEnds \/ PowerShellFails \/ Finish \/ Exit
    PROVE  ServiceInv'
<1>1. InstallType /\ MachineType /\ InstallInv
  BY TypeParts DEF ServiceInv
<1>2. ~AtSet /\ up.pc = "idle"
  BY <1>1 DEF StartInstall, ScriptEnds, PowerShellFails, Finish, Exit, Idle, AtSet, InstallInv
<1>3. UNCHANGED <<files, up, machineVars, gap>>
  BY DEF StartInstall, ScriptEnds, PowerShellFails, Finish, Exit, history
<1>4. owed' \in BOOLEAN
  <2>1. owed' = owed \/ owed' = (owed /\ install.failed)
    BY DEF StartInstall, ScriptEnds, PowerShellFails, Finish, Exit
  <2>2. owed \in BOOLEAN
    BY <1>1 DEF MachineType
  <2> QED
    BY <2>1, <2>2
<1>6. faults' \in 0..MaxFaults
  <2>1. faults' = faults \/ (faults < MaxFaults /\ faults' = faults + 1)
    BY DEF StartInstall, ScriptEnds, PowerShellFails, Finish, Exit, history
  <2>2. faults \in 0..MaxFaults
    BY <1>1 DEF MachineType
  <2> QED
    BY <2>1, <2>2, FaultsAssumption
<1>5. InstallType' /\ install'.pc # "script"
  <2>1. CASE StartInstall
    BY <1>1, <2>1, NoneIsTyped DEF StartInstall, InstallType, MachineType, NoInstall
  <2>2. CASE ScriptEnds
    <3>1. install.script \in 1..3
      BY <1>1, <2>2 DEF ScriptEnds, InstallInv
    <3>2. install' = [install EXCEPT !.pc = "next", !.script = install.script + 1]
      BY <2>2 DEF ScriptEnds
    <3>3. install.script + 1 \in 1..4
      BY <3>1
    <3> QED
      BY <1>1, <3>2, <3>3 DEF InstallType
  <2>3. CASE PowerShellFails
    BY <1>1, <2>3 DEF PowerShellFails, InstallType
  <2>4. CASE Finish
    BY <1>1, <2>4 DEF Finish, InstallType
  <2>5. CASE Exit
    BY <2>5, NoneIsTyped DEF Exit, InstallType, NoInstall
  <2> QED
    BY <2>1, <2>2, <2>3, <2>4, <2>5
<1> QED
  BY <1>2, <1>3, <1>4, <1>5, <1>6, OutsideKeepsInv

LEMMA ReadKeepsInv == ASSUME ServiceInv, ReadScript PROVE ServiceInv'
<1> DEFINE left == IF files[Script].state = "whole" THEN Body(Script) ELSE <<>>
<1>1. FilesType /\ UpType /\ InstallType /\ MachineType /\ InstallInv
  BY TypeParts DEF ServiceInv
<1>2. install.pc = "next" /\ install.script \in 1..3
  BY <1>1, ScriptNames DEF ReadScript, InstallType
<1>3. Script \in FileNames
  BY <1>2, ScriptNames DEF Script
<1>4. files[Script].plan \in Plans \cup {NoPlan}
      /\ (files[Script].state = "whole" => files[Script].plan \in Plans)
  BY <1>1, <1>3 DEF FilesType, Absent, Torn, WholeFrom
<1>5. left \in Rest(Script) /\ left \in Seq(Commands)
  BY <1>3, BodyIsRest, RestIsTyped
<1>6. left # <<>> => files[Script].plan \in Plans
  BY <1>4
<1> HIDE DEF left
<1>7. install' = [install EXCEPT !.pc = "script", !.plan = files[Script].plan, !.left = left]
      /\ UNCHANGED <<files, up, owed, machineVars, history>>
  BY DEF ReadScript, left
<1>8. InstallType' /\ install'.pc = "script" /\ install'.script = install.script
      /\ install'.left = left /\ install'.plan = files[Script].plan
  BY <1>1, <1>4, <1>5, <1>7 DEF InstallType
<1>9. FilesType' /\ UpType' /\ MachineType'
  BY <1>1, <1>7 DEF FilesType, UpType, MachineType, machineVars, history
<1>10. FlagsInv'
  BY <1>1, <1>2, <1>7 DEF InstallInv, FlagsInv, AtSet, machineVars, history
<1>11. InstallInv'
  BY <1>1, <1>2, <1>5, <1>6, <1>7, <1>8, <1>10 DEF InstallInv, Script, machineVars
<1> QED
  BY <1>8, <1>9, <1>11, TypeParts DEF ServiceInv

-----------------------------------------------------------------------------
(* service install: commands                                               *)

\* A command leaves the rest of its script.
LEMMA CommandLeaves ==
    ASSUME ServiceInv, NEW command \in Commands, Does(command), Skips
    PROVE  /\ InstallType' /\ install.script \in 1..3 /\ install.plan \in Plans
           /\ install.left \in Rest(Scripts[install.script])
           /\ install'.pc = "script" /\ install'.script = install.script
           /\ install'.plan = install.plan
           /\ install'.left = Tail(install.left)
           /\ install'.left \in Rest(Scripts[install.script])
           /\ up.pc = "idle"
           /\ command = "set" => install.script = 2 /\ install'.left = <<"start">>
           /\ install.script = 2 /\ command = "install" => install'.left = <<"set", "start">>
           /\ install.script = 2 /\ command = "start" => install'.left = <<>>
           /\ install.script = 2 => command # "power"
<1>1. InstallType /\ InstallInv
  BY TypeParts DEF ServiceInv
<1>2. install.pc = "script" /\ install.left # <<>> /\ Head(install.left) = command
  BY DEF Does
<1>3. install.script \in 1..3 /\ install.left \in Rest(Scripts[install.script])
      /\ install.plan \in Plans /\ up.pc = "idle"
  BY <1>1, <1>2 DEF InstallInv
<1>4. Tail(install.left) \in Rest(Scripts[install.script])
      /\ (command = "set" => install.script = 2 /\ Tail(install.left) = <<"start">>)
      /\ (install.script = 2 /\ command = "install" => Tail(install.left) = <<"set", "start">>)
      /\ (install.script = 2 /\ command = "start" => Tail(install.left) = <<>>)
      /\ (install.script = 2 => command # "power")
  BY <1>2, <1>3, RestSteps
<1>5. Tail(install.left) \in Seq(Commands)
  BY <1>4, RestIsTyped
<1>6. install' = [install EXCEPT !.left = Tail(install.left)]
  BY DEF Skips
<1>7. InstallType' /\ install'.pc = install.pc /\ install'.script = install.script
      /\ install'.plan = install.plan /\ install'.left = Tail(install.left)
  BY <1>1, <1>5, <1>6 DEF InstallType
<1> QED
  BY <1>2, <1>3, <1>4, <1>7

LEMMA CommandsKeepInv ==
    ASSUME ServiceInv, Power \/ Register \/ SetParameters \/ StartService
    PROVE  ServiceInv'
<1>1. FilesType /\ UpType /\ MachineType /\ InstallInv
  BY TypeParts DEF ServiceInv
<1>2. UNCHANGED <<files, up, owed, nssm, canQuery, faults, gap>>
  BY DEF Power, Register, SetParameters, StartService, history
<1>3. FilesType' /\ UpType'
  BY <1>1, <1>2 DEF FilesType, UpType
<1> USE DEF Commands
<1>4. CASE Power
  <2>1. Does("power") /\ Skips /\ awake' = TRUE
        /\ UNCHANGED <<registered, flags, running, serving>>
    BY <1>4 DEF Power
  <2>2. /\ InstallType' /\ install'.pc = "script" /\ install'.script \in 1..3
        /\ install'.plan \in Plans /\ install'.left \in Rest(Scripts[install'.script])
        /\ up.pc = "idle"
    BY <2>1, CommandLeaves
  <2>3. ~AtSet
    BY <2>1 DEF Does, AtSet
  <2>4. InstallInv'
    BY <1>1, <1>2, <2>1, <2>2, <2>3 DEF InstallInv, FlagsInv
  <2>5. MachineType'
    BY <1>1, <1>2, <2>1 DEF MachineType
  <2> QED
    BY <1>3, <2>2, <2>4, <2>5, TypeParts DEF ServiceInv
<1>5. CASE Register
  <2>1. Does("install") /\ Skips /\ UNCHANGED <<awake, flags, running, serving>>
        /\ registered' = IF nssm THEN registered \cup {ServiceOf(Script)} ELSE registered
    BY <1>5 DEF Register
  <2>2. /\ InstallType' /\ install'.pc = "script" /\ install'.script = install.script
        /\ install.script \in 1..3 /\ install'.plan \in Plans
        /\ install'.left \in Rest(Scripts[install'.script])
        /\ up.pc = "idle" /\ (install.script = 2 => install'.left = <<"set", "start">>)
    BY <2>1, CommandLeaves
  <2>3. ~AtSet
    BY <2>1 DEF Does, AtSet
  <2>4. install.script = 2 => AtSet'
    <3>1. <<"set", "start">> # <<>> /\ Head(<<"set", "start">>) = "set"
      OBVIOUS
    <3> QED
      BY <2>2, <3>1 DEF AtSet
  <2>5. install.script # 2 => ServiceOf(Script) = "watchdog" \/ "server" \notin registered' \ registered
    <3>1. install.script # 2 => install.script \in {1, 3}
      BY <2>2
    <3>2. install.script # 1
      <4> SUFFICES ASSUME install.script = 1 PROVE FALSE
        OBVIOUS
      <4>1. install.left \in Rest(Scripts[1]) /\ install.left # <<>> /\ Head(install.left) = "install"
        BY <2>1, CommandLeaves DEF Does
      <4>2. install.left = <<"power">>
        BY <4>1, ScriptNames DEF Rest
      <4>3. Head(install.left) = "power"
        BY <4>2
      <4> QED
        BY <4>1, <4>3
    <3> QED
      BY <3>1, <3>2, ScriptNames DEF ServiceOf, Script
  <2>6. FlagsInv'
    BY <1>1, <1>2, <2>1, <2>3, <2>4, <2>5 DEF InstallInv, FlagsInv
  <2>7. registered' # {} => nssm'
    BY <1>1, <1>2, <2>1 DEF InstallInv
  <2>8. InstallInv'
    BY <1>1, <1>2, <2>1, <2>2, <2>6, <2>7 DEF InstallInv
  <2>9. MachineType'
    BY <1>1, <1>2, <2>1 DEF MachineType, Services, ServiceOf
  <2> QED
    BY <1>3, <2>2, <2>8, <2>9, TypeParts DEF ServiceInv
<1>6. CASE SetParameters
  <2>1. Does("set") /\ Skips /\ UNCHANGED <<awake, registered, running, serving>>
        /\ flags' = IF nssm /\ "server" \in registered THEN install.plan ELSE flags
    BY <1>6 DEF SetParameters
  <2>2. /\ InstallType' /\ install'.pc = "script" /\ install'.script \in 1..3
        /\ install'.plan \in Plans /\ install'.plan = install.plan
        /\ install'.left \in Rest(Scripts[install'.script]) /\ up.pc = "idle"
    BY <2>1, CommandLeaves
  <2>3. "server" \in registered => flags' \in Plans
    BY <1>1, <2>1, <2>2 DEF InstallInv
  <2>4. FlagsInv'
    BY <1>1, <1>2, <2>1, <2>2, <2>3 DEF InstallInv, FlagsInv
  <2>5. InstallInv'
    BY <1>1, <1>2, <2>1, <2>2, <2>4 DEF InstallInv
  <2>6. MachineType'
    BY <1>1, <1>2, <2>1, <2>2 DEF MachineType
  <2> QED
    BY <1>3, <2>2, <2>5, <2>6, TypeParts DEF ServiceInv
<1>7. CASE StartService
  <2>1. Does("start") /\ Skips /\ UNCHANGED <<awake, registered, flags>>
    BY <1>7 DEF StartService
  <2>2. /\ InstallType' /\ install'.pc = "script" /\ install'.script \in 1..3
        /\ install'.plan \in Plans /\ install'.left \in Rest(Scripts[install'.script])
        /\ up.pc = "idle"
    BY <2>1, CommandLeaves
  <2>3. ~AtSet
    BY <2>1 DEF Does, AtSet
  <2>4. FlagsInv'
    BY <1>1, <1>2, <1>7, <2>1, <2>3 DEF StartService, InstallInv, FlagsInv
  <2>5. running' \subseteq Services /\ serving' \in Plans \cup {NoPlan}
    BY <1>1, <1>7 DEF StartService, MachineType, Services, ServiceOf
  <2>6. InstallInv'
    BY <1>1, <1>2, <2>1, <2>2, <2>4 DEF InstallInv
  <2>7. MachineType'
    BY <1>1, <1>2, <2>1, <2>5 DEF MachineType
  <2> QED
    BY <1>3, <2>2, <2>6, <2>7, TypeParts DEF ServiceInv
<1> QED
  BY <1>4, <1>5, <1>6, <1>7

-----------------------------------------------------------------------------
(* The machine.                                                            *)

LEMMA MachineKeepsInv ==
    ASSUME ServiceInv, InstallNssm \/ RestartService
    PROVE  ServiceInv'
<1>1. FilesType /\ UpType /\ InstallType /\ MachineType /\ InstallInv
  BY TypeParts DEF ServiceInv
<1>2. UNCHANGED <<files, up, install>>
  BY DEF InstallNssm, RestartService
<1>3. FilesType' /\ UpType' /\ InstallType'
  BY <1>1, <1>2 DEF FilesType, UpType, InstallType
<1>4. MachineType'
  BY <1>1 DEF InstallNssm, RestartService, MachineType, history
<1>5. AtSet' <=> AtSet
  BY <1>2 DEF AtSet
<1>6. InstallInv'
  BY <1>1, <1>2, <1>5 DEF InstallNssm, RestartService, InstallInv, FlagsInv, history
<1> QED
  BY <1>3, <1>4, <1>6, TypeParts DEF ServiceInv

LEMMA FaultsKeepInv ==
    ASSUME ServiceInv, Kill \/ Reboot
    PROVE  ServiceInv'
<1>1. FilesType /\ UpType /\ InstallType /\ MachineType /\ InstallInv
  BY TypeParts DEF ServiceInv
<1>2. Fault /\ UNCHANGED <<files, owed, nssm, canQuery, awake, registered, flags>>
  BY DEF Kill, Reboot, machineVars
<1>3. ~gap' => ~gap /\ (AtSet => flags # NoPlan)
  BY <1>1, <1>2 DEF Fault, Place, AtSet, InstallInv, MachineType
<1>4. FlagsInv'
  BY <1>1, <1>2, <1>3 DEF Kill, Reboot, machineVars, MachineType, InstallInv, FlagsInv
<1>5. InstallType' /\ UpType' /\ install'.pc = "idle" /\ up'.pc = "idle"
  <2>1. install' = NoInstall /\ up' = [NoUp EXCEPT !.cut = up.cut \/ up.pc # "idle"]
    BY <1>2 DEF Fault
  <2>2. up.cut \in BOOLEAN
    BY <1>1 DEF UpType
  <2>3. UpType' /\ up'.pc = "idle"
    BY <2>1, <2>2, NoneIsTyped DEF UpType, NoUp
  <2> QED
    BY <2>1, <2>3, NoneIsTyped DEF InstallType, NoInstall
<1>6. running' \subseteq Services /\ serving' \in Plans \cup {NoPlan}
  BY <1>1 DEF Kill, Reboot, machineVars, MachineType
<1>7. MachineType' /\ FilesType'
  BY <1>1, <1>2, <1>6, FaultsAssumption DEF Fault, MachineType, FilesType
<1>8. InstallInv'
  BY <1>1, <1>2, <1>4, <1>5 DEF InstallInv
<1> QED
  BY <1>5, <1>7, <1>8, TypeParts DEF ServiceInv

LEMMA NextKeepsServiceInv == ServiceInv /\ [Next]_vars => ServiceInv'
<1> SUFFICES ASSUME ServiceInv, [Next]_vars PROVE ServiceInv'
  OBVIOUS
<1>1. CASE (\E p \in Plans : StartUp(p)) \/ UpStep \/ AskAgain
  BY <1>1, UpKeepsInv DEF UpStep
<1>2. CASE StartInstall \/ InstallStep \/ PowerShellFails
  BY <1>2, QuietStepsKeepInv, ReadKeepsInv, CommandsKeepInv DEF InstallStep
<1>3. CASE InstallNssm \/ RestartService
  BY <1>3, MachineKeepsInv
<1>4. CASE Kill \/ Reboot
  BY <1>4, FaultsKeepInv
<1>5. CASE UNCHANGED vars
  <2>1. TypeOK'
    BY <1>5 DEF vars, machineVars, history, ServiceInv, TypeOK
  <2>2. InstallInv'
    BY <1>5 DEF vars, machineVars, history, ServiceInv, InstallInv, FlagsInv, AtSet
  <2> QED
    BY <2>1, <2>2 DEF ServiceInv
<1> QED
  BY <1>1, <1>2, <1>3, <1>4, <1>5 DEF Next

\* Wherever commands are cut short, every variable keeps its type.
THEOREM ServiceTypes == Spec => []TypeOK
<1>1. ServiceInv => TypeOK
  BY DEF ServiceInv
<1> QED
  BY <1>1, ServiceInvInit, NextKeepsServiceInv, PTL DEF Spec

\* Unless the first install is cut short between `nssm install` and `nssm set`,
\* the server never runs without flags: render_nssm_script starts it last, and a
\* service that is registered already keeps those it has.
THEOREM ServerNeverBare == Spec => []ServerHasFlags
<1>1. ServiceInv => ServerHasFlags
  BY DEF ServiceInv, InstallInv, FlagsInv, ServerHasFlags
<1> QED
  BY <1>1, ServiceInvInit, NextKeepsServiceInv, PTL DEF Spec

-----------------------------------------------------------------------------
(* What an install has done so far.                                        *)

InScript(i) == install.pc = "script" /\ install.script = i

\* The install is beyond script i, or has only one of these rests of it to run.
Past(i, rests) == install.script > i \/ (InScript(i) /\ install.left \in rests)

\* An install whose files are whole has done what the scripts behind it say, with
\* the plan of the files: these cannot change while it runs.
DoneSoFar ==
    /\ Past(1, {<<>>}) => awake
    /\ InScript(2) => install.plan = files["nssm"].plan
    /\ Past(2, {<<>>, <<"start">>, <<"set", "start">>}) => "server" \in registered
    /\ Past(2, {<<>>, <<"start">>}) => flags = files["nssm"].plan
    /\ Past(3, {<<>>, <<"start">>}) => "watchdog" \in registered

ProgressInv ==
    /\ install.pc = "exited" /\ ~install.failed => install.script = 4
    /\ install.pc # "idle" /\ install.hadNssm => nssm
    /\ install.pc # "idle" /\ install.hadNssm /\ AllWhole => DoneSoFar

\* The rests of a script differ from one another.
LEMMA RestsDiffer ==
    /\ <<"start">> # <<>> /\ <<"set", "start">> # <<>> /\ <<"power">> # <<>>
    /\ <<"install", "start">> # <<>> /\ <<"install", "set", "start">> # <<>>
    /\ <<"set", "start">> # <<"start">>
    /\ Head(<<"power">>) = "power" /\ Head(<<"start">>) = "start"
    /\ Head(<<"set", "start">>) = "set" /\ Head(<<"install", "start">>) = "install"
    /\ Head(<<"install", "set", "start">>) = "install"
OBVIOUS

\* From the next command to the script and to what is left of it
LEMMA HeadsOfScripts ==
    ASSUME NEW i \in 1..3, NEW left \in Rest(Scripts[i]), left # <<>>
    PROVE  /\ Head(left) = "power" => i = 1
           /\ Head(left) = "install" => i \in {2, 3}
           /\ Head(left) = "set" => i = 2 /\ left = <<"set", "start">>
           /\ Head(left) = "start" => i \in {2, 3} /\ left = <<"start">>
<1>1. CASE i = 1
  <2>1. left = <<"power">>
    BY <1>1, ScriptNames DEF Rest
  <2> QED
    BY <1>1, <2>1, RestsDiffer
<1>2. CASE i = 2
  <2>1. left \in {<<"start">>, <<"set", "start">>, <<"install", "set", "start">>}
    BY <1>2, ScriptNames DEF Rest
  <2> QED
    BY <1>2, <2>1, RestsDiffer
<1>3. CASE i = 3
  <2>1. left \in {<<"start">>, <<"install", "start">>}
    BY <1>3, ScriptNames DEF Rest
  <2> QED
    BY <1>3, <2>1, RestsDiffer
<1> QED
  BY <1>1, <1>2, <1>3

LEMMA ProgressInit == Init => ProgressInv
BY DEF Init, ProgressInv, NoInstall

\* Nothing is said of a machine on which no install runs.
LEMMA ProgressOfNone == install'.pc = "idle" => ProgressInv'
BY DEF ProgressInv

LEMMA QuietStepsKeepProgress ==
    ASSUME ServiceInv, ProgressInv,
           StartInstall \/ ScriptEnds \/ PowerShellFails \/ Finish \/ Exit
    PROVE  ProgressInv'
<1>1. InstallType /\ InstallInv
  BY TypeParts DEF ServiceInv
<1>2. UNCHANGED <<files, nssm, awake, registered, flags>>
  BY DEF StartInstall, ScriptEnds, PowerShellFails, Finish, Exit, machineVars
<1>3. AllWhole' <=> AllWhole
  BY <1>2 DEF AllWhole
<1>4. CASE StartInstall
  <2>1. install' = [NoInstall EXCEPT !.pc = "next", !.hadNssm = nssm]
    BY <1>4 DEF StartInstall
  <2>2. install'.pc = "next" /\ install'.script = 1 /\ install'.hadNssm = nssm
    BY <2>1 DEF NoInstall
  <2> QED
    BY <1>2, <2>2 DEF ProgressInv, DoneSoFar, Past, InScript
<1>5. CASE ScriptEnds
  <2>1. install' = [install EXCEPT !.pc = "next", !.script = install.script + 1]
        /\ install.pc = "script" /\ install.left = <<>>
    BY <1>5 DEF ScriptEnds
  <2>2. install'.pc = "next" /\ install'.script = install.script + 1
        /\ install'.hadNssm = install.hadNssm /\ install.script \in 1..3
    BY <1>1, <2>1 DEF InstallType, InstallInv
  <2> QED
    BY <1>2, <1>3, <2>1, <2>2 DEF ProgressInv, DoneSoFar, Past, InScript
<1>6. CASE PowerShellFails \/ Finish
  <2>1. install.pc = "next" /\ install'.pc = "exited" /\ install'.script = install.script
        /\ install'.hadNssm = install.hadNssm
        /\ (install'.failed \/ install.script > 3) /\ install.script \in 1..4
    BY <1>1, <1>6, ScriptNames DEF InstallType, PowerShellFails, Finish
  <2> QED
    BY <1>2, <1>3, <2>1 DEF ProgressInv, DoneSoFar, Past, InScript
<1>7. CASE Exit
  BY <1>7, ProgressOfNone DEF Exit, NoInstall
<1> QED
  BY <1>4, <1>5, <1>6, <1>7

LEMMA ReadKeepsProgress ==
    ASSUME ServiceInv, ProgressInv, ReadScript
    PROVE  ProgressInv'
<1>1. InstallType /\ install.pc = "next" /\ install.script \in 1..3
  BY TypeParts, ScriptNames DEF ServiceInv, InstallType, ReadScript
<1>2. /\ install'.pc = "script" /\ install'.script = install.script
      /\ install'.plan = files[Script].plan /\ install'.hadNssm = install.hadNssm
      /\ files[Script].state = "whole" => install'.left = Body(Script)
  BY <1>1 DEF ReadScript, InstallType
<1>3. UNCHANGED <<files, nssm, awake, registered, flags>>
  BY DEF ReadScript, machineVars
<1>4. AllWhole' <=> AllWhole
  BY <1>3 DEF AllWhole
<1>5. AllWhole => install'.left = Body(Script)
  BY <1>1, <1>2, ScriptNames DEF AllWhole, Script
<1>6. /\ install.script = 1 => Script = "powercfg" /\ Body(Script) = <<"power">>
      /\ install.script = 2 => Script = "nssm" /\ Body(Script) = <<"install", "set", "start">>
      /\ install.script = 3 => Script = "watchdog" /\ Body(Script) = <<"install", "start">>
  BY <1>1, ScriptNames DEF Script, Body
<1>7. <<"install", "set", "start">> \notin {<<>>, <<"start">>, <<"set", "start">>}
      /\ <<"install", "start">> \notin {<<>>, <<"start">>} /\ <<"power">> # <<>>
  BY RestsDiffer
<1>8. ASSUME AllWhole, DoneSoFar PROVE DoneSoFar'
  BY <1>1, <1>2, <1>3, <1>5, <1>6, <1>7, <1>8 DEF DoneSoFar, Past, InScript
<1> QED
  BY <1>1, <1>2, <1>3, <1>4, <1>8 DEF ProgressInv

LEMMA CommandsKeepProgress ==
    ASSUME ServiceInv, ProgressInv, Power \/ Register \/ SetParameters \/ StartService
    PROVE  ProgressInv'
<1>1. InstallType /\ InstallInv
  BY TypeParts DEF ServiceInv
<1>2. UNCHANGED <<files, nssm>>
  BY DEF Power, Register, SetParameters, StartService
<1>3. AllWhole' <=> AllWhole
  BY <1>2 DEF AllWhole
<1>4. install' = [install EXCEPT !.left = Tail(install.left)] /\ install.pc = "script"
  BY DEF Power, Register, SetParameters, StartService, Skips, Does
<1>5. install'.pc = "script" /\ install'.script = install.script
      /\ install'.hadNssm = install.hadNssm /\ install'.plan = install.plan
  BY <1>1, <1>4 DEF InstallType
<1>6. SUFFICES ASSUME nssm, DoneSoFar PROVE DoneSoFar'
  BY <1>2, <1>3, <1>4, <1>5 DEF ProgressInv
<1> USE DEF Commands
<1>7. CASE Power
  <2>1. Does("power") /\ Skips /\ awake' = TRUE /\ UNCHANGED <<registered, flags>>
    BY <1>7 DEF Power
  <2>2. install.script = 1
    BY <1>1, <2>1, HeadsOfScripts DEF Does, InstallInv
  <2> QED
    BY <1>2, <1>5, <1>6, <2>1, <2>2 DEF DoneSoFar, Past, InScript
<1>8. CASE Register
  <2>1. Does("install") /\ Skips /\ UNCHANGED <<awake, flags>>
        /\ registered' = registered \cup {ServiceOf(Script)}
    BY <1>6, <1>8 DEF Register
  <2>2. install.script \in {2, 3}
    BY <1>1, <2>1, HeadsOfScripts DEF Does, InstallInv
  <2>3. /\ install.script = 2 => install'.left = <<"set", "start">>
        /\ install.script = 2 => ServiceOf(Script) = "server"
        /\ install.script = 3 => ServiceOf(Script) = "watchdog"
    BY <2>1, CommandLeaves, ScriptNames DEF ServiceOf, Script
  <2>4. install.script = 2 => install'.left \notin {<<>>, <<"start">>}
    BY <2>3, RestsDiffer
  <2>5. Past(2, {<<>>, <<"start">>, <<"set", "start">>})' => "server" \in registered'
    <3>1. Past(2, {<<>>, <<"start">>, <<"set", "start">>})'
          => install.script = 2 \/ Past(2, {<<>>, <<"start">>, <<"set", "start">>})
      BY <1>5 DEF Past, InScript
    <3> QED
      BY <1>6, <2>1, <2>3, <3>1 DEF DoneSoFar
  <2>6. Past(3, {<<>>, <<"start">>})' => "watchdog" \in registered'
    BY <1>5, <1>6, <2>1, <2>2, <2>3 DEF DoneSoFar, Past, InScript
  <2>7. Past(1, {<<>>})' => awake'
    BY <1>4, <1>5, <1>6, <2>1, <2>2 DEF DoneSoFar, Past, InScript
  <2>8. Past(2, {<<>>, <<"start">>})' => flags' = files'["nssm"].plan
    BY <1>2, <1>5, <1>6, <2>1, <2>4 DEF DoneSoFar, Past, InScript
  <2>9. InScript(2)' => install'.plan = files'["nssm"].plan
    BY <1>2, <1>4, <1>5, <1>6 DEF DoneSoFar, InScript
  <2> QED
    BY <2>5, <2>6, <2>7, <2>8, <2>9 DEF DoneSoFar
<1>9. CASE SetParameters
  <2>1. Does("set") /\ Skips /\ UNCHANGED <<awake, registered>>
        /\ flags' = IF "server" \in registered THEN install.plan ELSE flags
    BY <1>6, <1>9 DEF SetParameters
  <2>2. install.script = 2 /\ install.left = <<"set", "start">>
    BY <1>1, <2>1, HeadsOfScripts DEF Does, InstallInv
  <2>3. "server" \in registered /\ install.plan = files["nssm"].plan
    BY <1>4, <1>6, <2>2 DEF DoneSoFar, Past, InScript
  <2> QED
    BY <1>2, <1>5, <1>6, <2>1, <2>2, <2>3 DEF DoneSoFar, Past, InScript
<1>10. CASE StartService
  <2>1. Does("start") /\ Skips /\ UNCHANGED <<awake, registered, flags>>
    BY <1>10 DEF StartService
  <2>2. install.script \in {2, 3} /\ install.left = <<"start">>
    BY <1>1, <2>1, HeadsOfScripts DEF Does, InstallInv
  <2> QED
    BY <1>2, <1>4, <1>5, <1>6, <2>1, <2>2 DEF DoneSoFar, Past, InScript
<1> QED
  BY <1>7, <1>8, <1>9, <1>10

LEMMA NextKeepsProgress ==
    ServiceInv /\ ProgressInv /\ [Next]_vars => ProgressInv'
<1> SUFFICES ASSUME ServiceInv, ProgressInv, [Next]_vars PROVE ProgressInv'
  OBVIOUS
<1>1. CASE (\E p \in Plans : StartUp(p)) \/ UpStep \/ AskAgain
  <2>1. install' = install
    BY <1>1 DEF StartUp, UpStep, OpenFile, WriteFile, AskAgain
  <2>2. install.pc = "idle"
    BY <1>1 DEF StartUp, UpStep, OpenFile, WriteFile, AskAgain, Idle, ServiceInv, InstallInv
  <2> QED
    BY <2>1, <2>2, ProgressOfNone
<1>2. CASE StartInstall \/ InstallStep \/ PowerShellFails
  BY <1>2, QuietStepsKeepProgress, ReadKeepsProgress, CommandsKeepProgress DEF InstallStep
<1>3. CASE InstallNssm \/ RestartService
  <2>1. UNCHANGED <<install, files, awake, registered, flags>> /\ (nssm => nssm')
    BY <1>3 DEF InstallNssm, RestartService
  <2> QED
    BY <2>1 DEF ProgressInv, AllWhole, DoneSoFar, Past, InScript
<1>4. CASE Kill \/ Reboot
  BY <1>4, ProgressOfNone DEF Kill, Reboot, Fault, NoInstall
<1>5. CASE UNCHANGED vars
  BY <1>5 DEF vars, machineVars, ProgressInv, AllWhole, DoneSoFar, Past, InScript
<1> QED
  BY <1>1, <1>2, <1>3, <1>4, <1>5 DEF Next

\* A `service install` that returns 0 on a machine with NSSM and finds whole files
\* has left both services registered with the flags of those files and the machine
\* awake, although no script reports what failed in it: run_service_scripts starts
\* them in their order and stops at the first that does not start.
THEOREM InstallTellsTheTruth == Spec => []InstalledMeansServing
<1>1. ServiceInv /\ ProgressInv => InstalledMeansServing
  <2> SUFFICES ASSUME ServiceInv, ProgressInv, install.pc = "exited", ~install.failed,
                      install.hadNssm, AllWhole
               PROVE  registered = Services /\ flags = files["nssm"].plan /\ awake
    BY DEF InstalledMeansServing
  <2>1. install.script = 4 /\ DoneSoFar
    BY DEF ProgressInv
  <2>2. registered \subseteq Services
    BY DEF ServiceInv, TypeOK
  <2>3. \A i \in 1..3 : \A rests : Past(i, rests)
    BY <2>1 DEF Past
  <2>4. awake /\ "server" \in registered /\ "watchdog" \in registered
        /\ flags = files["nssm"].plan
    BY <2>1, <2>3 DEF DoneSoFar
  <2> QED
    BY <2>2, <2>4 DEF Services
<1> QED
  BY <1>1, ServiceInvInit, NextKeepsServiceInv, ProgressInit, NextKeepsProgress, PTL DEF Spec
=============================================================================

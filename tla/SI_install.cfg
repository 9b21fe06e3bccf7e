\* Two plans; kills and reboots anywhere, and failures of PowerShell.
SPECIFICATION FairSpec
CONSTANTS
    Plans = {1, 2}
    MaxFaults = 2
INVARIANTS ServerHasFlags InstalledMeansServing
PROPERTIES InstallConverges AskedUntilThere

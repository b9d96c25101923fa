\* Four invocations of the plugin, each command possible, remote commands
\* ending cleanly, with another error, or with status 1 or 130.
CONSTANTS
    MaxRuns = 4
    Statuses <- MCStatuses
SPECIFICATION Spec
INVARIANTS
    RemoteOutcomeSurfaced
    ShellClosedOnReturn

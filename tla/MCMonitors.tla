----------------------------- MODULE MCMonitors -----------------------------
EXTENDS Monitors

Monitor(home, e) == [home |-> home, environment |-> e, isPaused |-> FALSE]

MCDefinitions == [m1 |-> Monitor("a", "staging"), m2 |-> Monitor("a", NoEnvironment), m3 |-> Monitor("b", "local")]

MCChosen == [a |-> "local", b |-> "staging"]

Allow(runs, switches, choices, edits, restarts) ==
  [runs |-> runs, switches |-> switches, choices |-> choices, edits |-> edits, restarts |-> restarts]

\* runs and their history, changes of the workspace, of the environment, of the monitors
MCMonitorBudgets ==
  {Allow(1, 2, 0, 0, 0), Allow(2, 1, 0, 0, 0), Allow(1, 1, 1, 0, 0), Allow(2, 0, 0, 1, 0), Allow(1, 0, 0, 2, 0),
   Allow(1, 1, 0, 1, 0), Allow(4, 0, 0, 0, 1)}

=============================================================================

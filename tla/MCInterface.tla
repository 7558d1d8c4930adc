---------------------------- MODULE MCInterface ----------------------------
(***************************************************************************)
(* The parts of the interface that do not share the state their modules    *)
(* keep, checked in one run: a behaviour is one of one part, its `area',   *)
(* while the others stay as they begin.                                    *)
(***************************************************************************)
EXTENDS MCWorkbench, MCSockets, MCCaptureWindow, MCMonitors, MCRunner, MCWebStore

VARIABLE area

Areas == {"tabs", "sockets", "capture", "monitors", "runner", "store"}

OneOf(S) == CHOOSE x \in S : TRUE

InterfaceInit ==
    /\ area \in Areas
    /\ WbInit /\ (area # "tabs" => budget = OneOf(Budgets))
    /\ SoInit /\ (area # "sockets" =>
            openTabs = SocketTabs /\ platform = OneOf(Platforms) /\ socketBudget = OneOf(SocketBudgets))
    /\ CwInit /\ (area # "capture" => proxyOn = FALSE /\ captureBudget = OneOf(CaptureBudgets))
    /\ MoInit /\ (area # "monitors" => space = OneOf(Spaces) /\ allowance = OneOf(MonitorBudgets))
    /\ RunnerInit /\ (area # "runner" => session = Forgotten /\ plan = OneOf(RunPlans).runs)
    /\ StoreInit /\ (area # "store" => database = Damaged)

InterfaceNext ==
    /\ \/ area = "tabs" /\ WbNext /\ UNCHANGED <<soVars, cwVars, moVars, runnerVars, webVars>>
       \/ area = "sockets" /\ SoNext /\ UNCHANGED <<wbVars, cwVars, moVars, runnerVars, webVars>>
       \/ area = "capture" /\ CwNext /\ UNCHANGED <<wbVars, soVars, moVars, runnerVars, webVars>>
       \/ area = "monitors" /\ MoNext /\ UNCHANGED <<wbVars, soVars, cwVars, runnerVars, webVars>>
       \/ area = "runner" /\ RunnerNext /\ UNCHANGED <<wbVars, soVars, cwVars, moVars, webVars>>
       \/ area = "store" /\ StoreNext /\ UNCHANGED <<wbVars, soVars, cwVars, moVars, runnerVars>>
    /\ UNCHANGED area

InterfaceSpec ==
    InterfaceInit
    /\ [][InterfaceNext]_<<wbVars, soVars, cwVars, moVars, runnerVars, webVars, area>>
=============================================================================

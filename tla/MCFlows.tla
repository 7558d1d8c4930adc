------------------------------ MODULE MCFlows ------------------------------
EXTENDS Flows

\* a step with no more than its kind
Plain(kind) ==
  [kind |-> kind, after |-> None, parent |-> None, around |-> {}, next |-> None, onFailure |-> None,
   targets |-> {None}, inner |-> None, times |-> 1, hasUntil |-> FALSE, isPaused |-> FALSE,
   isTimed |-> FALSE, branches |-> {}, called |-> None, gives |-> Absent, attempts |-> 1]

\* the pass variable in the session and beneath it
MCValues == {Absent, InSession} \X {Absent, InEnvironment}

\* two loops that count in the same variable, a retry, a way out of both and a way back
LoopsInLoops ==
  [root |-> "f", isSequential |-> TRUE, values |-> MCValues, limit |-> [f |-> 3], first |-> [f |-> "outer"],
   step |-> [outer |-> [Plain("repeat") EXCEPT !.inner = "inner", !.times = 2, !.hasUntil = TRUE,
                          !.isPaused = TRUE, !.onFailure = "way", !.after = "way"],
             inner |-> [Plain("repeat") EXCEPT !.parent = "outer", !.around = {"outer"}, !.inner = "ask", !.times = 2,
                          !.after = "check"],
             ask   |-> [Plain("request") EXCEPT !.parent = "inner", !.around = {"inner", "outer"}, !.attempts = 2, !.isPaused = TRUE,
                          !.onFailure = "check"],
             check |-> [Plain("choice") EXCEPT !.parent = "outer", !.around = {"outer"}, !.targets = {None, "way"}],
             way   |-> [Plain("choice") EXCEPT !.targets = {None, "outer", End}, !.after = "end"],
             end   |-> Plain("end")]]

\* a list, a flow called for each item, and values set in between
Lists ==
  [root |-> "f", isSequential |-> TRUE, values |-> MCValues, limit |-> [f |-> 3, g |-> 2], first |-> [f |-> "each", g |-> "turns"],
   step |-> [each  |-> [Plain("forEach") EXCEPT !.inner = "call", !.after = "set"],
             call  |-> [Plain("flow") EXCEPT !.parent = "each", !.around = {"each"}, !.called = "g", !.onFailure = "set"],
             set   |-> [Plain("set") EXCEPT !.after = "rest"],
             rest  |-> [Plain("wait") EXCEPT !.next = "each"],
             turns |-> [Plain("repeat") EXCEPT !.inner = "ask", !.times = 2],
             ask   |-> [Plain("request") EXCEPT !.parent = "turns", !.around = {"turns"}]]]

\* a flow that counts, called while its caller counts
Counting ==
  [root |-> "f", isSequential |-> TRUE, values |-> MCValues, limit |-> [f |-> 2, g |-> 2], first |-> [f |-> "count", g |-> "turns"],
   step |-> [count |-> [Plain("repeat") EXCEPT !.inner = "call", !.times = 2],
             call  |-> [Plain("flow") EXCEPT !.parent = "count", !.around = {"count"}, !.called = "g"],
             turns |-> [Plain("repeat") EXCEPT !.inner = "ask", !.times = 2, !.isPaused = TRUE],
             ask   |-> [Plain("request") EXCEPT !.parent = "turns", !.around = {"turns"}, !.onFailure = End]]]

\* a flow that counts and is given the variable it counts in
Giving ==
  [Counting EXCEPT !.first.f = "call",
                   !.step = [call  |-> [Plain("flow") EXCEPT !.called = "g", !.gives = InStep],
                             turns |-> Counting.step.turns, ask |-> Counting.step.ask]]

\* a request and a flow or two side by side, again and again
Branches(branches, hasUntil, isTimed) ==
  LET step == [both |-> [Plain("parallel") EXCEPT !.branches = branches, !.next = "both",
                           !.hasUntil = hasUntil, !.isTimed = isTimed],
               one  |-> [Plain("request") EXCEPT !.parent = "both", !.around = {"both"}],
               two  |-> [Plain("flow") EXCEPT !.parent = "both", !.around = {"both"}, !.called = "g"],
               three |-> [Plain("flow") EXCEPT !.parent = "both", !.around = {"both"}, !.called = "g"],
               ask  |-> [Plain("request") EXCEPT !.after = "more"],
               more |-> [Plain("choice") EXCEPT !.targets = {None, "ask"}]]
  IN  [root |-> "f", isSequential |-> FALSE, values |-> {<<Absent, Absent>>}, limit |-> [f |-> 4, g |-> 2],
       first |-> [f |-> "both", g |-> "ask"], step |-> [id \in {"both", "ask", "more"} \cup branches |-> step[id]]]

\* flows side by side that send nothing, in a loop
Quiet ==
  [root |-> "f", isSequential |-> FALSE, values |-> {<<Absent, Absent>>}, limit |-> [f |-> 2, g |-> 2], first |-> [f |-> "both", g |-> "rest"],
   step |-> [both |-> [Plain("parallel") EXCEPT !.branches = {"one"}, !.next = "both"],
             one  |-> [Plain("flow") EXCEPT !.parent = "both", !.around = {"both"}, !.called = "g"],
             rest |-> Plain("wait")]]

MCPrograms == {LoopsInLoops, Lists, Counting, Giving, Branches({"one", "two", "three"}, FALSE, FALSE),
               Branches({"one", "two"}, TRUE, TRUE), Quiet}
MCGiving == {Giving}
MCQuiet == {Quiet}
============================================================================

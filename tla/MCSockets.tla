----------------------------- MODULE MCSockets -----------------------------
EXTENDS Sockets

SocketBudget(f) == [k \in SocketUses |-> IF k \in DOMAIN f THEN f[k] ELSE 0]

\* frames over two connections, closing what is being dialled, reconnecting, messages, the log
MCSocketBudgets == {
  SocketBudget([connect |-> 2, frame |-> 2]),
  SocketBudget([connect |-> 2, disconnect |-> 1, close |-> 1]),
  SocketBudget([connect |-> 1, auto |-> 2, frame |-> 1]),
  SocketBudget([connect |-> 1, auto |-> 1, close |-> 1]),
  SocketBudget([connect |-> 1, message |-> 2, disconnect |-> 1]),
  SocketBudget([connect |-> 2, message |-> 1]),
  SocketBudget([connect |-> 1, frame |-> 4, clear |-> 1])}

============================================================================

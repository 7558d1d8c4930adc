-------------------------- MODULE MCCaptureWindow --------------------------
EXTENDS CaptureWindow

Budget(e, h, d, u) == [exchanges |-> e, holds |-> h, edits |-> d, uses |-> u]

\* calls that come and go, calls that are held, rules that are edited, and pairs of these
MCCaptureBudgets ==
  {Budget(1, 0, 0, 3), Budget(2, 0, 0, 2), Budget(0, 2, 0, 1), Budget(0, 1, 0, 2), Budget(0, 0, 2, 2),
   Budget(1, 1, 0, 1), Budget(0, 1, 1, 1)}

============================================================================

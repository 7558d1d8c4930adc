---------------------------- MODULE MCWorkbench ----------------------------
EXTENDS Workbench

Kinds == {"open","close","edit","send","save","delete","folders","switch","disk","restart",
          "trust"}

B(f) == [k \in Kinds |-> IF k \in DOMAIN f THEN f[k] ELSE 0]

\* answers and switches, folders, saving against the disk and deleting, closing, restarts,
\* changes on disk during a switch, drafts of and beside a restricted folder
MCBudgets == {
  B([send |-> 2, switch |-> 2, open |-> 1, close |-> 1]),
  B([edit |-> 2, save |-> 1, switch |-> 2, folders |-> 1]),
  B([edit |-> 1, save |-> 1, disk |-> 1, open |-> 1]),
  B([edit |-> 1, disk |-> 1, open |-> 1, delete |-> 1]),
  B([edit |-> 1, save |-> 1, delete |-> 1]),
  B([edit |-> 1, open |-> 2, close |-> 1, disk |-> 1]),
  B([edit |-> 1, open |-> 1, disk |-> 1, restart |-> 1]),
  B([edit |-> 1, open |-> 1, switch |-> 2, restart |-> 1]),
  B([disk |-> 2, switch |-> 1]),
  B([edit |-> 1, open |-> 1, send |-> 1, switch |-> 2]),
  B([edit |-> 1, disk |-> 1, switch |-> 1, trust |-> 1]),
  B([edit |-> 1, trust |-> 1, switch |-> 2, restart |-> 1])}

\* v1 and v2 differ in their token, v3 is what is left without their active parts
MCCore == [t \in Texts |-> IF t = "v2" THEN "v1" ELSE t]
MCPlain == [t \in Texts |-> IF t = "blank" THEN t ELSE "v3"]

MCCollection == [r \in Rids |-> IF r = "r3" THEN None ELSE "v1"]
============================================================================

----------------------------- MODULE MCLifecycle -----------------------------
(* The addons fcitx comes with, as far as anything depends on them.        *)
EXTENDS Lifecycle

MCAddon == {"x11", "dbus", "remote", "punc", "pinyin", "table", "kimpanel",
            "classic", "ipc", "xim"}

MCCategory ==
  [a \in MCAddon |->
     CASE a \in {"x11", "dbus", "remote", "punc"} -> "module"
       [] a \in {"pinyin", "table"} -> "im"
       [] a \in {"kimpanel", "classic"} -> "ui"
       [] OTHER -> "frontend"]

MCNeeds ==
  [a \in MCAddon |-> CASE a \in {"classic", "xim"} -> {"x11"}
                       [] a \in {"kimpanel", "ipc"} -> {"dbus"}
                       [] OTHER -> {}]

MCDepend == [a \in MCAddon |-> IF a = "table" THEN {"pinyin", "punc"} ELSE MCNeeds[a]]

MCFallback == [a \in MCAddon |-> IF a = "kimpanel" THEN "classic" ELSE "none"]

\* As installed, and with the classic interface first.
MCPriorities ==
  LET shipped == [a \in MCAddon |-> CASE a \in {"x11", "dbus"} -> 30
                                      [] a = "punc" -> 60
                                      [] a = "classic" -> 70
                                      [] OTHER -> 50]
  IN {shipped, [shipped EXCEPT !["classic"] = 40]}

MCFiles ==
  {<<"classic", "dbus", "ipc", "kimpanel", "pinyin", "punc", "remote", "table", "x11", "xim">>,
   <<"xim", "x11", "table", "remote", "punc", "pinyin", "kimpanel", "ipc", "dbus", "classic">>}

\* At most two addons are disabled or broken.
Faults == [{1, 2} -> {"enabled", "broken"} \X (MCAddon \cup {"none"})]

\* `fcitx -h`: the arguments are read before the profile.
MCHelpSetups ==
  {[files |-> files, priority |-> priority, uiname |-> "none", option |-> "help",
    enabled |-> MCAddon, broken |-> {}] :
      files \in MCFiles, priority \in MCPriorities}

MCSetups ==
  MCHelpSetups \cup
  {[files |-> files, priority |-> priority, uiname |-> uiname, option |-> "run",
    enabled |-> MCAddon \ {f[i][2] : i \in {j \in {1, 2} : f[j][1] = "enabled"}},
    broken |-> MCAddon \intersect {f[i][2] : i \in {j \in {1, 2} : f[j][1] = "broken"}}] :
      files \in MCFiles, priority \in MCPriorities,
      uiname \in {"none", "kimpanel", "classic", "other"}, f \in Faults}
=============================================================================

-------------------------- MODULE MCInputMethodList --------------------------
EXTENDS InputMethodList

MCMethods == {"pinyin", "shuangpin", "quwei", "wubi"}
MCAddons == {"fcitx-pinyin", "fcitx-qw", "fcitx-table"}
MCOwner == [m \in MCMethods |->
              CASE m \in {"pinyin", "shuangpin"} -> "fcitx-pinyin"
                [] m = "quwei" -> "fcitx-qw" [] m = "wubi" -> "fcitx-table"]
MCByConfigFile == {"fcitx-pinyin", "fcitx-qw"}
MCPriority == [m \in MCMethods |->
              CASE m \in {"pinyin", "shuangpin"} -> 5 [] m = "quwei" -> 100 [] m = "wubi" -> 10]
MCFilePriority == [MCPriority EXCEPT !["quwei"] = 0]
MCNameOrder == [m \in MCMethods |->
              CASE m = "pinyin" -> 1 [] m = "quwei" -> 2 [] m = "shuangpin" -> 3 [] m = "wubi" -> 4]
MCPrefixOf == [m \in MCMethods |-> {m}]
MCUses == [m \in MCMethods |-> IF m = "wubi" THEN "fcitx-pinyin" ELSE "none"]
MCSettableLists ==
    {<<Entry("wubi", TRUE), Entry("quwei", TRUE), Entry("shuangpin", TRUE), Entry("pinyin", FALSE)>>,
     <<Entry("pinyin", FALSE), Entry("shuangpin", TRUE)>>,
     <<Entry("quwei", TRUE)>>}
MCBrokenSets == {{}, {"shuangpin"}, {"pinyin", "shuangpin"}}
=============================================================================

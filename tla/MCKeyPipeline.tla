--------------------------- MODULE MCKeyPipeline ---------------------------
(* KeyPipeline with two configurations that differ in every option, one of  *)
(* them once with every key of a modifier and once with clicks.             *)
EXTENDS KeyPipeline

RemindSetup ==
    [switchKey |-> "L_SHIFT", trigger |-> "CTRL_SPACE", doubleSwitchKey |-> FALSE,
     imSwitchKey |-> TRUE, sendTextWhenSwitchEng |-> TRUE, enterToDo |-> "Clean",
     useRemind |-> TRUE, filters |-> FALSE, controls |-> {"toggle", "page"},
     keyboard |-> {"Control_L", "Shift_L", "Shift_R", "a", "2", "equal", "space"},
     maxCode |-> 1, wordCounts |-> {0, 4}]

TextSetup ==
    [switchKey |-> "L_CTRL", trigger |-> "CTRL_LSHIFT CTRL_SHIFT_LSHIFT",
     doubleSwitchKey |-> TRUE, imSwitchKey |-> TRUE, sendTextWhenSwitchEng |-> TRUE,
     enterToDo |-> "Commit", useRemind |-> FALSE, filters |-> TRUE,
     controls |-> {"enable", "close", "page", "select"},
     keyboard |-> {"Control_L", "Shift_L", "a", "2", "minus", "space", "Return", "Escape",
                   "BackSpace"},
     maxCode |-> 2, wordCounts |-> {0, 1, 4}]

\* Clicks on the words and Enter, without Control.
ClickSetup ==
    [RemindSetup EXCEPT !.keyboard = (@ \ {"Control_L"}) \union {"Return"},
                        !.controls = @ \union {"select"}]

MCSetups == {RemindSetup, TextSetup, ClickSetup}

\* A double switch key and nothing else.
DoubleSetups ==
    {[TextSetup EXCEPT !.trigger = "CTRL_SPACE", !.filters = FALSE, !.controls = {},
                       !.keyboard = {"Control_L", "a", "space"}]}
=============================================================================

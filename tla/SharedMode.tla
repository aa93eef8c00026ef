----------------------------- MODULE SharedMode -----------------------------
(***************************************************************************)
(* What ShareStateAmongWindow=All promises: however many contexts there    *)
(* are, the user sees one input mode.  Every context shows it from the     *)
(* moment it is opened, all change together, and neither opening, closing  *)
(* nor focusing a context changes it.                                      *)
(***************************************************************************)
CONSTANTS Context, None, Initial

VARIABLES open, mode, view, focus

vars == <<open, mode, view, focus>>

Modes == {"closed", "inactive", "active"}

Init ==
    /\ open = {} /\ focus = None
    /\ mode = Initial /\ view = [c \in {} |-> mode]

Open(c) ==
    /\ c \notin open
    /\ open' = open \union {c}
    /\ view' = [o \in open' |-> mode]
    /\ UNCHANGED <<mode, focus>>

Close(c) ==
    /\ c \in open
    /\ open' = open \ {c}
    /\ view' = [o \in open' |-> view[o]]
    /\ focus' = IF focus = c THEN None ELSE focus
    /\ UNCHANGED mode

MoveFocus(c) ==
    /\ c \in open \union {None}
    /\ focus' = c
    /\ UNCHANGED <<open, mode, view>>

SetMode(m) ==
    /\ open # {}
    /\ mode' = m
    /\ view' = [o \in open |-> m]
    /\ UNCHANGED <<open, focus>>

Next ==
    \/ \E c \in Context : Open(c) \/ Close(c)
    \/ \E c \in Context \union {None} : MoveFocus(c)
    \/ \E m \in Modes : SetMode(m)

Spec == Init /\ [][Next]_vars
=============================================================================

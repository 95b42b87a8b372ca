--------------------------- MODULE PublicationLog ----------------------------
(***************************************************************************)
(* What publication promises to a reader of the dashboard: a log of        *)
(* released analyses and a board that shows the one of the latest day.  A  *)
(* release of that day or a later one takes the board; the release of an   *)
(* older analysis is logged and leaves the board alone.  A release is      *)
(* taken back only while its analysis is made once more, and then the      *)
(* board falls back to what is latest without it.  Nothing else moves log  *)
(* or board.                                                               *)
(***************************************************************************)
EXTENDS Naturals

CONSTANTS Analyses, Days, Nothing

VARIABLES
    day,      \* the log: the day of every released analysis
    board,    \* the analysis on display, or Nothing
    redone    \* the analyses that were started once more

logVars == <<day, board, redone>>

LogInit ==
    /\ day = [a \in {} |-> 0]
    /\ board = Nothing
    /\ redone = {}

(* A released analysis may be released once more; its day stays what it was.  *)
Release(a, d) ==
    /\ a \in DOMAIN day => day[a] = d
    /\ day' = [x \in DOMAIN day \cup {a} |-> IF x = a THEN d ELSE day[x]]
    /\ board' = IF board = Nothing \/ d >= day[board] THEN a ELSE board
    /\ UNCHANGED redone

Redo(a) ==
    /\ redone' = redone \cup {a}
    /\ UNCHANGED <<day, board>>

(* Those of the latest day of a log.                                          *)
Latest(log) ==
    IF DOMAIN log = {} THEN {Nothing}
    ELSE {a \in DOMAIN log : \A b \in DOMAIN log : log[a] >= log[b]}

Withdraw(a) ==
    /\ a \in redone \cap DOMAIN day
    /\ day' = [x \in DOMAIN day \ {a} |-> day[x]]
    /\ IF board = a THEN board' \in Latest(day') ELSE UNCHANGED board
    /\ UNCHANGED redone

LogNext ==
    \E a \in Analyses :
        \/ \E d \in Days : Release(a, d)
        \/ Redo(a)
        \/ Withdraw(a)

LogSpec == LogInit /\ [][LogNext]_logVars
=============================================================================

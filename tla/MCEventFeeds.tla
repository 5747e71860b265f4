---------------------------- MODULE MCEventFeeds ----------------------------
(* Two targets share the feeds of one month; two dispatchers.                 *)
EXTENDS EventFeeds, MarketCalendar, TLC
CONSTANTS news, gdelt, aapl, msft, one, two
Order == <<news, gdelt>>
Alike == Permutations({one, two})
OneMonth == 1 .. 1
PreparedFor == {[target |-> aapl, feeds |-> {}],
                [target |-> msft, feeds |-> {news}]}
CommandsFor == {[target |-> aapl, feeds |-> {}, limit |-> 0, goOn |-> FALSE],
                [target |-> aapl, feeds |-> {}, limit |-> 1, goOn |-> TRUE],
                [target |-> msft, feeds |-> {news}, limit |-> 0, goOn |-> FALSE]}

\* The walk of the calendar shares no variable with the feeds: it is taken from
\* their initial state only.
MCInit == Init /\ CalendarInit
MCNext ==
    \/ called = 0 /\ keys = {} /\ Announce /\ UNCHANGED vars
    \/ year = FirstYear /\ month = 1 /\ Next /\ UNCHANGED calendarVars
MCSpec == MCInit /\ [][MCNext]_<<vars, calendarVars>>
=============================================================================

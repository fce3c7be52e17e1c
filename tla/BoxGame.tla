------------------------------- MODULE BoxGame -------------------------------
(***************************************************************************)
(* The box game of "WWW Course": the page of Lista4/Zad3, written with     *)
(* addEventListener, and that of Lista5/Zad3, the same game with jQuery.   *)
(* Handlers of mouse events, intervals and timeouts share one game object, *)
(* and the results outlive the page in localStorage.                       *)
(***************************************************************************)
EXTENDS Integers, FiniteSets, Sequences, Functions

CONSTANTS
  Boxes,         \* the elements of class "box"
  Penalty,       \* what a visited box costs: 100
  MaxTime,       \* bound: of the time of a game
  MaxHandlers,   \* bound: handlers of an event, on the page that stacks them
  MaxIntervals,  \* bound: stray intervals
  MaxGames       \* bound: games finished

ASSUME GameAssumption ==
  /\ IsFiniteSet(Boxes) /\ Boxes # {}
  /\ Boxes \cap {"elsewhere", "central_box", "restart_button"} = {}
  /\ Penalty \in Nat /\ MaxTime \in Nat /\ MaxHandlers \in Nat \ {0}
  /\ MaxIntervals \in Nat /\ MaxGames \in Nat

VARIABLES
  page,          \* which of the two pages is open
  handlers,      \* how often each handler of the game is bound
  pointer,       \* where the mouse is
  timer, checkedNum, canCheck, bestTimes,  \* of gameObject
  intervals,     \* those that run: the one that its timerObject stands for,
                 \* and others, which nothing stands for any more
  timeouts,      \* those still to come, the same with penaltyOffTimeout
  visited,       \* boxes of class "visited_box"
  red,           \* the colour of the time, which shows a penalty
  stored         \* localStorage["bests"]: results, or <<>> if there are none

\* Only for the properties: the results of all games finished, in the order
\* they were finished, and whether a game has been restarted halfway since the
\* page was loaded.
VARIABLES finished, restarted

gameVars   == <<timer, checkedNum, canCheck, visited>>
colourVars == <<timeouts, red>>
resultVars == <<bestTimes, stored, finished>>
vars == <<page, handlers, pointer, gameVars, intervals, colourVars, resultVars, restarted>>

Pages  == {"Lista4", "Lista5"}
Places == {"elsewhere", "central_box", "restart_button"} \cup Boxes

-----------------------------------------------------------------------------
(* Timers of the browser.  Every interval or timeout has a new number, and *)
(* only the last one is kept in the game object: what matters of them is   *)
(* whether the kept one is alive and how many strays there are.            *)

NoTimer == [kept |-> FALSE, strays |-> 0]

\* clearInterval or clearTimeout of the number kept.
Cleared(t) == [t EXCEPT !.kept = FALSE]

\* n calls of setInterval or setTimeout, each of which overwrites that number.
Started(t, n) ==
  IF n = 0 THEN t
  ELSE [kept   |-> TRUE,
        strays |-> t.strays + n - (IF t.kept THEN 0 ELSE 1)]

\* One of them comes to its end.
OneLess(t) ==
  (IF t.kept THEN {Cleared(t)} ELSE {})
  \cup (IF t.strays > 0 THEN {[t EXCEPT !.strays = @ - 1]} ELSE {})

Alive(t) == t.kept \/ t.strays > 0

-----------------------------------------------------------------------------
\* addEventListener does not bind a function that is bound already, ...
BindOnce(n) == 1

\* ... and mouseenter of jQuery binds it another time.
BindAgain(n) == n + 1

\* The ways to put results in a row.
Orders(times) ==
  {[k \in DOMAIN times |-> times[p[k]]] :
     p \in Bijection(DOMAIN times, DOMAIN times)}

InOrder(times) == \A k, l \in DOMAIN times : k < l => times[k] <= times[l]

\* sort of newBestTimes, which compares numbers.
Sorted(times) == CHOOSE row \in Orders(times) : InOrder(row)

\* The page is loaded: nothing is left but localStorage.
Init ==
  /\ page \in Pages
  /\ pointer = "elsewhere" /\ handlers = 1
  /\ timer = 0 /\ checkedNum = 0 /\ canCheck = FALSE /\ visited = {}
  /\ intervals = NoTimer /\ timeouts = NoTimer /\ red = FALSE
  /\ bestTimes = <<>> /\ stored = <<>> /\ finished = <<>> /\ restarted = FALSE

\* Faulty variant: the results of earlier sessions are not read.
LoadForgets ==
  /\ pointer' = "elsewhere" /\ handlers' = 1
  /\ timer' = 0 /\ checkedNum' = 0 /\ canCheck' = FALSE /\ visited' = {}
  /\ intervals' = NoTimer /\ timeouts' = NoTimer /\ red' = FALSE
  /\ bestTimes' = <<>>
  /\ restarted' = FALSE
  /\ UNCHANGED <<page, stored, finished>>

\* init_game, which sorts and stores what it finds stored, and gameStart.
Load ==
  /\ pointer' = "elsewhere" /\ handlers' = 1
  /\ timer' = 0 /\ checkedNum' = 0 /\ canCheck' = FALSE /\ visited' = {}
  /\ intervals' = NoTimer /\ timeouts' = NoTimer /\ red' = FALSE
  /\ bestTimes' = Sorted(stored) /\ stored' = bestTimes'
  /\ restarted' = FALSE
  /\ UNCHANGED <<page, finished>>

-----------------------------------------------------------------------------
(* The mouse.  Leaving one place and entering another is one event for the *)
(* page: all its handlers run before any timer.                            *)

\* centralBoxLeave, if that is the place the mouse leaves.
Left ==
  IF pointer = "central_box" THEN Started(intervals, handlers) ELSE intervals

Moves(to) ==
  /\ to # pointer /\ pointer' = to
  /\ Left.strays <= MaxIntervals
  /\ UNCHANGED <<page, restarted>>

MoveAway ==
  /\ \E to \in {"elsewhere", "restart_button"} : Moves(to)
  /\ intervals' = Left
  /\ UNCHANGED <<handlers, gameVars, colourVars, resultVars>>

\* Faulty variant: the clock is not stopped.
EnterCentralBoxRunning ==
  /\ Moves("central_box")
  /\ canCheck' = (canCheck \/ handlers > 0)
  /\ UNCHANGED <<handlers, timer, checkedNum, visited, intervals, colourVars, resultVars>>

\* centralBoxEnter.
EnterCentralBox ==
  /\ Moves("central_box")
  /\ intervals' = IF handlers > 0 THEN Cleared(intervals) ELSE intervals
  /\ canCheck' = (canCheck \/ handlers > 0)
  /\ UNCHANGED <<handlers, timer, checkedNum, visited, colourVars, resultVars>>

\* k visits of a visited box, in one event.
Penalise(k) ==
  /\ timer + k * Penalty <= MaxTime
  /\ timer' = timer + k * Penalty
  /\ \/ k = 0 /\ UNCHANGED colourVars
     \/ /\ k > 0
        /\ red' = TRUE
        /\ timeouts' = Started(Cleared(timeouts), 1)

EnterVisitedBox(b) ==
  /\ Moves(b)
  /\ b \in visited /\ handlers > 0
  /\ Penalise(handlers)
  /\ intervals' = Left
  /\ UNCHANGED <<handlers, checkedNum, canCheck, visited, resultVars>>

\* The box does not count, or the game is over.
EnterBoxInVain(b) ==
  /\ Moves(b)
  /\ handlers = 0 \/ (b \notin visited /\ ~canCheck)
  /\ intervals' = Left
  /\ UNCHANGED <<handlers, gameVars, colourVars, resultVars>>

\* Faulty variant: the handlers stay.
GameEndStaysBound ==
  /\ Len(finished) < MaxGames
  /\ intervals' = Cleared(Left)
  /\ bestTimes' = Sorted(Append(bestTimes, timer)) /\ stored' = bestTimes'
  /\ finished' = Append(finished, timer)
  /\ UNCHANGED handlers

\* gameEnd: the handlers are removed, the clock is stopped, the result stored.
GameEnd ==
  /\ Len(finished) < MaxGames
  /\ handlers' = 0
  /\ intervals' = Cleared(Left)
  /\ bestTimes' = Sorted(Append(bestTimes, timer)) /\ stored' = bestTimes'
  /\ finished' = Append(finished, timer)

\* The first of the handlers counts the box, and the others find it visited.
CheckBox(b) ==
  /\ Moves(b)
  /\ b \notin visited /\ canCheck /\ handlers > 0
  /\ visited' = visited \cup {b}
  /\ canCheck' = FALSE
  /\ checkedNum' = checkedNum + 1
  /\ Penalise(handlers - 1)
  /\ \/ checkedNum' = Cardinality(Boxes) /\ GameEnd
     \/ /\ checkedNum' # Cardinality(Boxes)
        /\ intervals' = Left
        /\ UNCHANGED <<handlers, resultVars>>

\* Faulty variant: the boxes are shown as new, but still count.
RestartKeepsCount ==
  /\ pointer = "restart_button"
  /\ handlers' = IF page = "Lista4" THEN BindOnce(handlers) ELSE BindAgain(handlers)
  /\ handlers' <= MaxHandlers
  /\ intervals' = Cleared(intervals)
  /\ timer' = 0 /\ visited' = {}
  /\ restarted' = (restarted \/ handlers > 0)
  /\ UNCHANGED <<page, pointer, checkedNum, canCheck, colourVars, resultVars>>

\* restart and gameStart, which leaves canCheck as it is.
Restart ==
  /\ pointer = "restart_button"
  /\ handlers' = IF page = "Lista4" THEN BindOnce(handlers) ELSE BindAgain(handlers)
  /\ handlers' <= MaxHandlers
  /\ intervals' = Cleared(intervals)
  /\ timer' = 0 /\ checkedNum' = 0 /\ visited' = {}
  /\ restarted' = (restarted \/ handlers > 0)
  /\ UNCHANGED <<page, pointer, canCheck, colourVars, resultVars>>

Mouse ==
  \/ MoveAway \/ EnterCentralBox \/ Restart
  \/ \E b \in Boxes : EnterVisitedBox(b) \/ EnterBoxInVain(b) \/ CheckBox(b)

-----------------------------------------------------------------------------
(* Timers.                                                                 *)

\* timer(), which every interval calls every 10 ms.
Tick ==
  /\ Alive(intervals) /\ timer < MaxTime
  /\ timer' = timer + 1
  /\ UNCHANGED <<page, handlers, pointer, checkedNum, canCheck, visited, intervals>>
  /\ UNCHANGED <<colourVars, resultVars, restarted>>

\* A timeout comes.
PenaltyOff ==
  /\ timeouts' \in OneLess(timeouts)
  /\ red' = FALSE
  /\ UNCHANGED <<page, handlers, pointer, gameVars, intervals, resultVars, restarted>>

Next == Mouse \/ Tick \/ PenaltyOff \/ Load

Spec == Init /\ [][Next]_vars

-----------------------------------------------------------------------------
\* The type of every variable, with the bounds.
TypeOK ==
  /\ page \in Pages
  /\ pointer \in Places
  /\ handlers \in 0..MaxHandlers
  /\ timer \in 0..MaxTime
  /\ checkedNum \in 0..Cardinality(Boxes)
  /\ canCheck \in BOOLEAN /\ red \in BOOLEAN /\ restarted \in BOOLEAN
  /\ visited \subseteq Boxes
  /\ intervals \in [kept : BOOLEAN, strays : 0..MaxIntervals]
  /\ timeouts \in [kept : BOOLEAN, strays : Nat]

\* At most one interval runs, it is the one that can be cleared, and it runs
\* neither over the central box nor when the game is over.  The page of Lista5
\* says so only until a game is restarted halfway.
OneClock ==
  (page = "Lista4" \/ ~restarted) /\ Alive(intervals) =>
    /\ intervals.strays = 0
    /\ handlers = 1
    /\ pointer # "central_box"

\* The time is red exactly until the timeout of the last penalty has come.
PenaltyShown ==
  /\ timeouts.strays = 0
  /\ red <=> timeouts.kept

\* The time is counted and coloured by timers that the game keeps hold of.
TimersHeld == OneClock /\ PenaltyShown

\* The number of boxes checked is that of the boxes shown as visited, also over
\* restarts, and the game is over when these are all the boxes and not before.
ScoresMatchBoxes ==
  /\ checkedNum = Cardinality(visited)
  /\ handlers = 0 <=> visited = Boxes

\* The results shown, and those stored for the next session, are the times of
\* all games that were finished, the best one first.
ResultsKept == bestTimes = Sorted(finished) /\ stored = bestTimes
=============================================================================

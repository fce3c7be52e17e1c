--------------------------- MODULE BoxGameProofs ---------------------------
(***************************************************************************)
(* What holds of the box game for any number of boxes, any penalty and any *)
(* bounds.                                                                 *)
(***************************************************************************)
EXTENDS BoxGame, FiniteSetTheorems, FunctionTheorems, SequenceTheorems, TLAPS

\* OneClock speaks of a clock that runs.  That none is started twice rests on
\* what holds also while it does not: the handlers are bound once at most, and
\* no interval has been lost.
ClockHeld ==
  page = "Lista4" \/ ~restarted =>
    /\ handlers <= 1
    /\ intervals.strays = 0
    /\ intervals.kept => handlers = 1 /\ pointer # "central_box"

IInv == TypeOK /\ ScoresMatchBoxes /\ ClockHeld /\ PenaltyShown

TimerType == [kept : BOOLEAN, strays : Nat]

-----------------------------------------------------------------------------
(* Timers.                                                                 *)

\* Clearing the kept timer leaves the strays.
LEMMA ClearedTimer ==
  ASSUME NEW t \in TimerType
  PROVE  /\ Cleared(t) \in TimerType
         /\ ~Cleared(t).kept
         /\ Cleared(t).strays = t.strays
  BY DEF Cleared, TimerType

\* n new timers: all of them are strays but the last one, and so is the timer
\* kept before.
LEMMA StartedTimer ==
  ASSUME NEW t \in TimerType, NEW n \in Nat
  PROVE  /\ Started(t, n) \in TimerType
         /\ n = 0 => Started(t, n) = t
         /\ n > 0 => /\ Started(t, n).kept
                     /\ ~t.kept => Started(t, n).strays = t.strays + n - 1
  BY DEF Started, TimerType

\* Leaving a place starts a clock only where the place is the central box and
\* a handler is bound; then the clock is kept, and is the only one if none ran.
LEMMA LeftTimer ==
  ASSUME TypeOK
  PROVE  /\ Left \in TimerType
         /\ Left = intervals \/ (pointer = "central_box" /\ handlers > 0)
         /\ ~intervals.kept /\ handlers <= 1 => Left.strays = intervals.strays
  <1>1. intervals \in TimerType /\ intervals.strays \in Nat /\ handlers \in Nat
    BY GameAssumption DEF TypeOK, TimerType
  <1>2. CASE pointer = "central_box"
    <2>1. Left = Started(intervals, handlers)
      BY <1>2 DEF Left
    <2>2. /\ Left \in TimerType
          /\ handlers = 0 => Left = intervals
          /\ ~intervals.kept /\ handlers > 0 =>
               Left.strays = intervals.strays + handlers - 1
      BY <1>1, <2>1, StartedTimer
    <2> QED BY <1>1, <1>2, <2>2
  <1>3. CASE pointer # "central_box"
    BY <1>1, <1>3 DEF Left
  <1> QED BY <1>2, <1>3

\* Wherever the mouse goes except to the central box, ClockHeld is kept if the
\* handlers stay.
LEMMA MoveKeepsClock ==
  ASSUME IInv, NEW to, Moves(to), to # "central_box",
         intervals' = Left, handlers' = handlers
  PROVE  ClockHeld' /\ intervals' \in [kept : BOOLEAN, strays : 0..MaxIntervals]
  <1>1. Left \in TimerType /\ Left.strays <= MaxIntervals
    BY LeftTimer DEF IInv, Moves
  <1>2. intervals' \in [kept : BOOLEAN, strays : 0..MaxIntervals]
    BY <1>1, GameAssumption DEF TimerType
  <1>3. handlers \in Nat /\ intervals \in TimerType
    BY GameAssumption DEF IInv, TypeOK, TimerType
  <1>4. pointer' # "central_box" /\ page' = page /\ restarted' = restarted
    BY DEF Moves
  <1>5. ASSUME page = "Lista4" \/ ~restarted
        PROVE  /\ handlers <= 1 /\ intervals'.strays = 0
               /\ intervals'.kept => handlers = 1
    <2>1. /\ handlers <= 1 /\ intervals.strays = 0
          /\ intervals.kept => handlers = 1 /\ pointer # "central_box"
      BY <1>5 DEF IInv, ClockHeld
    <2>2. CASE Left = intervals
      BY <2>1, <2>2
    <2>3. CASE pointer = "central_box" /\ handlers > 0
      BY <2>1, <2>3, <1>3, LeftTimer DEF IInv
    <2> QED BY <2>2, <2>3, LeftTimer DEF IInv
  <1> QED BY <1>2, <1>4, <1>5 DEF ClockHeld

\* A penalty is shown, and nothing else happens to the colour.
LEMMA PenaliseKeepsColour ==
  ASSUME IInv, NEW k \in Nat, Penalise(k)
  PROVE  /\ PenaltyShown'
         /\ timer' \in 0..MaxTime
         /\ red' \in BOOLEAN /\ timeouts' \in TimerType
  <1>1. timeouts \in TimerType /\ timer \in Nat /\ red \in BOOLEAN
    BY GameAssumption DEF IInv, TypeOK, TimerType
  <1>2. timer' \in 0..MaxTime
    <2>1. k * Penalty \in Nat
      BY GameAssumption
    <2> QED BY <1>1, <2>1, GameAssumption DEF Penalise
  <1>3. CASE k = 0
    BY <1>1, <1>2, <1>3 DEF Penalise, IInv, PenaltyShown, colourVars
  <1>4. CASE k > 0
    <2>1. red' = TRUE /\ timeouts' = Started(Cleared(timeouts), 1)
      BY <1>4 DEF Penalise
    <2>2. /\ Cleared(timeouts) \in TimerType /\ ~Cleared(timeouts).kept
          /\ Cleared(timeouts).strays = 0
      BY <1>1, ClearedTimer DEF IInv, PenaltyShown
    <2> QED BY <1>2, <2>1, <2>2, StartedTimer DEF PenaltyShown
  <1> QED BY <1>3, <1>4

-----------------------------------------------------------------------------
(* Boxes.                                                                  *)

\* One more box visited is one more box counted, and they are all the boxes
\* when their number says so.
LEMMA OneMoreBox ==
  ASSUME TypeOK, ScoresMatchBoxes, NEW b \in Boxes, b \notin visited
  PROVE  /\ Cardinality(visited \cup {b}) = checkedNum + 1
         /\ checkedNum + 1 <= Cardinality(Boxes)
         /\ checkedNum + 1 = Cardinality(Boxes) <=> visited \cup {b} = Boxes
  <1>1. visited \cup {b} \subseteq Boxes /\ IsFiniteSet(Boxes)
    BY GameAssumption DEF TypeOK
  <1>2. IsFiniteSet(visited)
    BY <1>1, FS_Subset DEF TypeOK
  <1>3. Cardinality(visited \cup {b}) = checkedNum + 1
    BY <1>2, FS_AddElement DEF ScoresMatchBoxes
  <1>4. /\ Cardinality(visited \cup {b}) <= Cardinality(Boxes)
        /\ Cardinality(Boxes) = Cardinality(visited \cup {b}) =>
             Boxes = visited \cup {b}
    BY <1>1, FS_Subset
  <1> QED BY <1>3, <1>4

-----------------------------------------------------------------------------
\* What a page starts with has the right types.
LEMMA FreshTypes ==
  /\ "elsewhere" \in Places
  /\ NoTimer \in [kept : BOOLEAN, strays : 0..MaxIntervals]
  /\ NoTimer \in [kept : BOOLEAN, strays : Nat]
  /\ 1 \in 0..MaxHandlers /\ 0 \in 0..MaxTime /\ 0 \in 0..Cardinality(Boxes)
  <1>1. Cardinality(Boxes) \in Nat
    BY FS_CardinalityType, GameAssumption
  <1> QED BY <1>1, GameAssumption DEF Places, NoTimer

\* A page that has just been loaded.
LEMMA FreshPage ==
  ASSUME page \in Pages, pointer = "elsewhere", handlers = 1, timer = 0,
         checkedNum = 0, canCheck = FALSE, visited = {}, intervals = NoTimer,
         timeouts = NoTimer, red = FALSE, restarted = FALSE
  PROVE  IInv
  <1>1. Cardinality({}) = 0 /\ Cardinality(Boxes) \in Nat
    BY FS_EmptySet, FS_CardinalityType, GameAssumption
  <1>2. TypeOK
    BY FreshTypes DEF TypeOK
  <1>3. ScoresMatchBoxes
    BY <1>1, GameAssumption DEF ScoresMatchBoxes
  <1>4. ClockHeld /\ PenaltyShown
    BY DEF ClockHeld, PenaltyShown, NoTimer
  <1> QED BY <1>2, <1>3, <1>4 DEF IInv

LEMMA InitIInv == Init => IInv
  BY FreshPage DEF Init

LEMMA LoadKeepsIInv ==
  ASSUME IInv, Load
  PROVE  IInv'
  <1>1. Cardinality({}) = 0 /\ Cardinality(Boxes) \in Nat
    BY FS_EmptySet, FS_CardinalityType, GameAssumption
  <1>2. TypeOK'
    BY FreshTypes DEF Load, IInv, TypeOK
  <1>3. ScoresMatchBoxes'
    BY <1>1, GameAssumption DEF Load, ScoresMatchBoxes
  <1>4. ClockHeld' /\ PenaltyShown'
    BY DEF Load, ClockHeld, PenaltyShown, NoTimer
  <1> QED BY <1>2, <1>3, <1>4 DEF IInv

LEMMA MoveAwayKeepsIInv ==
  ASSUME IInv, MoveAway
  PROVE  IInv'
  <1>1. PICK to \in {"elsewhere", "restart_button"} : Moves(to)
    BY DEF MoveAway
  <1>2. ClockHeld' /\ intervals' \in [kept : BOOLEAN, strays : 0..MaxIntervals]
    BY <1>1, MoveKeepsClock DEF MoveAway
  <1>3. TypeOK'
    BY <1>1, <1>2 DEF MoveAway, Moves, gameVars, colourVars, IInv, TypeOK, Places
  <1>4. ScoresMatchBoxes' /\ PenaltyShown'
    BY DEF MoveAway, gameVars, colourVars, IInv, ScoresMatchBoxes, PenaltyShown
  <1> QED BY <1>2, <1>3, <1>4 DEF IInv

LEMMA EnterCentralBoxKeepsIInv ==
  ASSUME IInv, EnterCentralBox
  PROVE  IInv'
  <1>1. intervals \in TimerType /\ handlers \in Nat
    BY GameAssumption DEF IInv, TypeOK, TimerType
  <1>2. /\ intervals' \in TimerType /\ intervals'.strays = intervals.strays
        /\ handlers > 0 => ~intervals'.kept
        /\ handlers = 0 => intervals' = intervals
    BY <1>1, ClearedTimer DEF EnterCentralBox
  <1>3. TypeOK'
    <2>1. intervals' \in [kept : BOOLEAN, strays : 0..MaxIntervals]
      BY <1>2 DEF IInv, TypeOK, TimerType
    <2> QED BY <2>1 DEF EnterCentralBox, Moves, colourVars, IInv, TypeOK, Places
  <1>4. ScoresMatchBoxes' /\ PenaltyShown'
    BY DEF EnterCentralBox, colourVars, IInv, ScoresMatchBoxes, PenaltyShown
  <1>5. ClockHeld'
    BY <1>1, <1>2 DEF EnterCentralBox, Moves, IInv, ClockHeld
  <1> QED BY <1>3, <1>4, <1>5 DEF IInv

\* A box is no other place.
LEMMA BoxIsBox ==
  ASSUME NEW b \in Boxes
  PROVE  b \in Places /\ b # "central_box"
  BY GameAssumption DEF Places

LEMMA EnterVisitedBoxKeepsIInv ==
  ASSUME IInv, NEW b \in Boxes, EnterVisitedBox(b)
  PROVE  IInv'
  <1>1. handlers \in Nat
    BY GameAssumption DEF IInv, TypeOK
  <1>2. /\ PenaltyShown' /\ timer' \in 0..MaxTime
        /\ red' \in BOOLEAN /\ timeouts' \in TimerType
    BY <1>1, PenaliseKeepsColour DEF EnterVisitedBox
  <1>3. ClockHeld' /\ intervals' \in [kept : BOOLEAN, strays : 0..MaxIntervals]
    BY BoxIsBox, MoveKeepsClock DEF EnterVisitedBox
  <1>4. TypeOK'
    BY <1>2, <1>3, BoxIsBox DEF EnterVisitedBox, Moves, IInv, TypeOK, TimerType
  <1>5. ScoresMatchBoxes'
    BY DEF EnterVisitedBox, IInv, ScoresMatchBoxes
  <1> QED BY <1>2, <1>3, <1>4, <1>5 DEF IInv

LEMMA EnterBoxInVainKeepsIInv ==
  ASSUME IInv, NEW b \in Boxes, EnterBoxInVain(b)
  PROVE  IInv'
  <1>1. ClockHeld' /\ intervals' \in [kept : BOOLEAN, strays : 0..MaxIntervals]
    BY BoxIsBox, MoveKeepsClock DEF EnterBoxInVain
  <1>2. TypeOK'
    BY <1>1, BoxIsBox
    DEF EnterBoxInVain, Moves, gameVars, colourVars, IInv, TypeOK
  <1>3. ScoresMatchBoxes' /\ PenaltyShown'
    BY DEF EnterBoxInVain, gameVars, colourVars, IInv, ScoresMatchBoxes, PenaltyShown
  <1> QED BY <1>1, <1>2, <1>3 DEF IInv

LEMMA CheckBoxKeepsIInv ==
  ASSUME IInv, NEW b \in Boxes, CheckBox(b)
  PROVE  IInv'
  <1>1. handlers \in Nat /\ handlers > 0 /\ handlers - 1 \in Nat
    BY GameAssumption DEF IInv, TypeOK, CheckBox
  <1>2. /\ PenaltyShown' /\ timer' \in 0..MaxTime
        /\ red' \in BOOLEAN /\ timeouts' \in TimerType
    BY <1>1, PenaliseKeepsColour DEF CheckBox
  <1>3. /\ checkedNum' = checkedNum + 1 /\ checkedNum \in Nat
        /\ visited' = visited \cup {b} /\ visited' \subseteq Boxes
        /\ checkedNum' = Cardinality(visited')
        /\ checkedNum' <= Cardinality(Boxes)
        /\ checkedNum' = Cardinality(Boxes) <=> visited' = Boxes
    <2>1. /\ checkedNum' = checkedNum + 1 /\ visited' = visited \cup {b}
          /\ b \notin visited
      BY DEF CheckBox
    <2>2. TypeOK /\ ScoresMatchBoxes
      BY DEF IInv
    <2>3. checkedNum \in Nat /\ visited \subseteq Boxes
      BY <2>2 DEF TypeOK
    <2>4. /\ Cardinality(visited \cup {b}) = checkedNum + 1
          /\ checkedNum + 1 <= Cardinality(Boxes)
          /\ checkedNum + 1 = Cardinality(Boxes) <=> visited \cup {b} = Boxes
      BY <2>1, <2>2, OneMoreBox
    <2> QED BY <2>1, <2>3, <2>4
  <1>4. Cardinality(Boxes) \in Nat
    BY FS_CardinalityType, GameAssumption
  <1>5. /\ pointer' = b /\ page' = page /\ restarted' = restarted
        /\ canCheck' = FALSE
    BY DEF CheckBox, Moves
  <1>6. /\ page' \in Pages /\ pointer' \in Places /\ restarted' \in BOOLEAN
        /\ canCheck' \in BOOLEAN /\ checkedNum' \in 0..Cardinality(Boxes)
    <2>1. page' \in Pages /\ pointer' \in Places
      BY <1>5, BoxIsBox DEF IInv, TypeOK
    <2>2. restarted' \in BOOLEAN /\ canCheck' \in BOOLEAN
      BY <1>5, Zenon DEF IInv, TypeOK
    <2>3. checkedNum' \in 0..Cardinality(Boxes)
      BY <1>3, <1>4
    <2> QED BY <2>1, <2>2, <2>3
  <1>7. CASE checkedNum' = Cardinality(Boxes) /\ GameEnd
    <2>1. /\ handlers' = 0 /\ intervals' \in TimerType
          /\ ~intervals'.kept /\ intervals'.strays = Left.strays
      BY <1>7, LeftTimer, ClearedTimer DEF GameEnd, IInv
    <2>2. Left.strays <= MaxIntervals
      BY DEF CheckBox, Moves
    <2>3. intervals' \in [kept : BOOLEAN, strays : 0..MaxIntervals]
      BY <2>1, <2>2, GameAssumption DEF TimerType
    <2>4. TypeOK'
      BY <1>2, <1>3, <1>6, <2>1, <2>3, GameAssumption DEF TypeOK, TimerType
    <2>5. ScoresMatchBoxes'
      BY <1>3, <1>7, <2>1 DEF ScoresMatchBoxes
    <2>6. ClockHeld'
      <3>1. ASSUME page = "Lista4" \/ ~restarted
            PROVE  Left.strays = 0
        <4>1. /\ handlers <= 1 /\ intervals.strays = 0
              /\ intervals.kept => pointer # "central_box"
          BY <3>1 DEF IInv, ClockHeld
        <4> QED BY <4>1, LeftTimer DEF IInv
      <3> QED BY <3>1, <2>1, <1>5 DEF ClockHeld
    <2> QED BY <1>2, <2>4, <2>5, <2>6 DEF IInv
  <1>8. CASE /\ checkedNum' # Cardinality(Boxes)
             /\ intervals' = Left /\ UNCHANGED <<handlers, resultVars>>
    <2>1. ClockHeld' /\ intervals' \in [kept : BOOLEAN, strays : 0..MaxIntervals]
      BY <1>8, BoxIsBox, MoveKeepsClock DEF CheckBox
    <2>2. TypeOK'
      BY <1>2, <1>3, <1>8, <1>6, <2>1 DEF IInv, TypeOK, TimerType
    <2>3. ScoresMatchBoxes'
      BY <1>1, <1>3, <1>8 DEF ScoresMatchBoxes
    <2> QED BY <1>2, <2>1, <2>2, <2>3 DEF IInv
  <1> QED BY <1>7, <1>8 DEF CheckBox

LEMMA RestartKeepsIInv ==
  ASSUME IInv, Restart
  PROVE  IInv'
  <1>1. intervals \in TimerType /\ handlers \in Nat
    BY GameAssumption DEF IInv, TypeOK, TimerType
  <1>2. /\ intervals' \in TimerType /\ ~intervals'.kept
        /\ intervals'.strays = intervals.strays
    BY <1>1, ClearedTimer DEF Restart
  <1>3. /\ handlers' \in Nat /\ handlers' > 0 /\ handlers' <= MaxHandlers
        /\ page = "Lista4" \/ handlers = 0 => handlers' = 1
    BY <1>1 DEF Restart, BindOnce, BindAgain
  <1>4. Cardinality({}) = 0 /\ Cardinality(Boxes) \in Nat
    BY FS_EmptySet, FS_CardinalityType, GameAssumption
  <1>5. TypeOK'
    <2>1. intervals' \in [kept : BOOLEAN, strays : 0..MaxIntervals]
      BY <1>2 DEF IInv, TypeOK, TimerType
    <2> QED BY <1>3, <1>4, <2>1, GameAssumption
            DEF Restart, colourVars, IInv, TypeOK
  <1>6. ScoresMatchBoxes'
    BY <1>3, <1>4, GameAssumption DEF Restart, ScoresMatchBoxes
  <1>7. ClockHeld'
    <2>1. /\ page' = page /\ page \in Pages /\ pointer' = "restart_button"
      BY DEF Restart, IInv, TypeOK
    <2>2. restarted' <=> restarted \/ handlers > 0
      BY Zenon DEF Restart
    <2>3. page' = "Lista4" \/ ~restarted' =>
            /\ handlers' = 1
            /\ page = "Lista4" \/ ~restarted
      BY <1>1, <1>3, <2>1, <2>2
    <2>4. page = "Lista4" \/ ~restarted => intervals.strays = 0
      BY DEF IInv, ClockHeld
    <2> QED BY <1>2, <2>3, <2>4 DEF ClockHeld
  <1>8. PenaltyShown'
    BY DEF Restart, colourVars, IInv, PenaltyShown
  <1> QED BY <1>5, <1>6, <1>7, <1>8 DEF IInv

LEMMA TimersKeepIInv ==
  ASSUME IInv, Tick \/ PenaltyOff
  PROVE  IInv'
  <1>1. CASE Tick
    <2>1. TypeOK'
      BY <1>1, GameAssumption DEF Tick, colourVars, IInv, TypeOK
    <2> QED BY <1>1, <2>1
            DEF Tick, colourVars, IInv, ScoresMatchBoxes, ClockHeld, PenaltyShown
  <1>2. CASE PenaltyOff
    <2>1. timeouts \in TimerType /\ timeouts.strays = 0
      BY DEF IInv, TypeOK, TimerType, PenaltyShown
    <2>2. timeouts' = Cleared(timeouts) /\ red' = FALSE
      BY <1>2, <2>1 DEF PenaltyOff, OneLess
    <2>3. timeouts' \in TimerType /\ ~timeouts'.kept /\ timeouts'.strays = 0
      BY <2>1, <2>2, ClearedTimer
    <2>4. TypeOK'
      BY <1>2, <2>2, <2>3 DEF PenaltyOff, gameVars, IInv, TypeOK, TimerType
    <2>5. PenaltyShown'
      BY <2>2, <2>3 DEF PenaltyShown
    <2> QED BY <1>2, <2>4, <2>5
            DEF PenaltyOff, gameVars, IInv, ScoresMatchBoxes, ClockHeld
  <1> QED BY <1>1, <1>2

LEMMA StepKeepsIInv == IInv /\ [Next]_vars => IInv'
  <1> SUFFICES ASSUME IInv, [Next]_vars
               PROVE  IInv'
    OBVIOUS
  <1>1. CASE Mouse
    BY <1>1, MoveAwayKeepsIInv, EnterCentralBoxKeepsIInv, RestartKeepsIInv,
       EnterVisitedBoxKeepsIInv, EnterBoxInVainKeepsIInv, CheckBoxKeepsIInv
    DEF Mouse
  <1>2. CASE Tick \/ PenaltyOff
    BY <1>2, TimersKeepIInv
  <1>3. CASE Load
    BY <1>3, LoadKeepsIInv
  <1>4. CASE UNCHANGED vars
    BY <1>4 DEF vars, gameVars, colourVars, resultVars, IInv, TypeOK,
                ScoresMatchBoxes, ClockHeld, PenaltyShown
  <1> QED BY <1>1, <1>2, <1>3, <1>4 DEF Next

LEMMA Inductive == Spec => []IInv
  BY InitIInv, StepKeepsIInv, PTL DEF Spec

-----------------------------------------------------------------------------
\* Every variable keeps its type and its bound, for any boxes, any penalty and
\* any bounds; so no more boxes are counted than there are.
THEOREM TypeCorrect == Spec => []TypeOK
  <1>1. IInv => TypeOK
    BY DEF IInv
  <1> QED BY <1>1, Inductive, PTL

\* For any number of boxes the count is that of the boxes shown as visited, and
\* the handlers are unbound exactly when all boxes are.
THEOREM ScoresAgree == Spec => []ScoresMatchBoxes
  <1>1. IInv => ScoresMatchBoxes
    BY DEF IInv
  <1> QED BY <1>1, Inductive, PTL

\* No interval is lost and none runs twice, over the central box or after the
\* end, on the page with addEventListener; nor on that with jQuery as long as no
\* game is restarted halfway.  The colour is that of the last penalty on both.
THEOREM TimersAreHeld == Spec => []TimersHeld
  <1>1. IInv => TimersHeld
    <2>1. IInv => OneClock
      BY GameAssumption DEF IInv, ClockHeld, OneClock, Alive
    <2> QED BY <2>1 DEF IInv, TimersHeld
  <1> QED BY <1>1, Inductive, PTL

-----------------------------------------------------------------------------
(* Results.  A sorted list stands for all lists of the same times.         *)

\* What has the same orders is sorted alike.
LEMMA SortedByOrders ==
  ASSUME NEW a, NEW b, Orders(a) = Orders(b)
  PROVE  Sorted(a) = Sorted(b)
  <1> HIDE DEF Orders
  <1> QED BY DEF Sorted

\* Another order of the times has the same orders.
LEMMA OrdersOfOrder ==
  ASSUME NEW D, NEW u, DOMAIN u = D, NEW q \in Bijection(D, D), NEW v,
         v = [k \in D |-> u[q[k]]]
  PROVE  Orders(v) = Orders(u)
  <1>1. q \in [D -> D] /\ \A x \in D : \E k \in D : q[k] = x
    BY Fun_BijectionProperties
  <1> DEFINE r == Inverse(q, D, D)
  <1>2. r \in Bijection(D, D) /\ \A k \in D : r[q[k]] = k
    BY Fun_BijInverse
  <1> HIDE DEF r
  <1>3. \A x \in D : q[r[x]] = x
    BY <1>1, <1>2
  <1>4. ASSUME NEW p \in Bijection(D, D)
        PROVE  \E o \in Bijection(D, D) : [k \in D |-> v[p[k]]] = [k \in D |-> u[o[k]]]
    <2>1. p \in [D -> D] /\ [k \in D |-> q[p[k]]] \in Bijection(D, D)
      BY <1>4, Fun_BijectionProperties, Fun_BijTransitive
    <2>2. \A k \in D : v[p[k]] = u[[l \in D |-> q[p[l]]][k]]
      BY <2>1
    <2> QED BY <2>1, <2>2
  <1>5. ASSUME NEW p \in Bijection(D, D)
        PROVE  \E o \in Bijection(D, D) : [k \in D |-> u[p[k]]] = [k \in D |-> v[o[k]]]
    <2>1. p \in [D -> D] /\ [k \in D |-> r[p[k]]] \in Bijection(D, D)
      BY <1>2, <1>5, Fun_BijectionProperties, Fun_BijTransitive
    <2>2. r \in [D -> D]
      BY <1>2, Fun_BijectionProperties
    <2>3. \A k \in D : u[p[k]] = v[[l \in D |-> r[p[l]]][k]]
      BY <1>3, <2>1, <2>2
    <2> QED BY <2>1, <2>3
  <1>6. /\ Orders(v) = {[k \in D |-> v[p[k]]] : p \in Bijection(D, D)}
        /\ Orders(u) = {[k \in D |-> u[p[k]]] : p \in Bijection(D, D)}
    <2>1. DOMAIN v = D
      OBVIOUS
    <2> QED BY <2>1 DEF Orders
  <1> DEFINE Row(w, p) == [k \in D |-> w[p[k]]]
  <1>7. /\ \A p \in Bijection(D, D) : \E o \in Bijection(D, D) : Row(v, p) = Row(u, o)
        /\ \A p \in Bijection(D, D) : \E o \in Bijection(D, D) : Row(u, p) = Row(v, o)
    BY <1>4, <1>5
  <1>8. /\ Orders(v) = {Row(v, p) : p \in Bijection(D, D)}
        /\ Orders(u) = {Row(u, p) : p \in Bijection(D, D)}
    BY <1>6
  <1> HIDE DEF Row, Orders
  <1> QED BY <1>7, <1>8

\* Every list has a sorted order.  A time comes before another one that is
\* greater, or equal and later in the list; its place is the number of times
\* that do not come after it.
LEMMA SortedExists ==
  ASSUME NEW n \in Nat, NEW u \in [1..n -> Int]
  PROVE  \E p \in Bijection(1..n, 1..n) : InOrder([k \in 1..n |-> u[p[k]]])
  <1> DEFINE D == 1..n
             Upto(j) == {i \in D : u[i] < u[j] \/ (u[i] = u[j] /\ i <= j)}
             place == [j \in D |-> Cardinality(Upto(j))]
  <1>1. IsFiniteSet(D) /\ Cardinality(D) = n
    BY FS_Interval
  <1>2. ASSUME NEW i \in D, NEW j \in D, u[i] < u[j] \/ (u[i] = u[j] /\ i < j)
        PROVE  place[i] < place[j]
    <2>1. Upto(i) \subseteq Upto(j) /\ j \in Upto(j) /\ j \notin Upto(i)
      BY <1>2
    <2>2. IsFiniteSet(Upto(j))
      <3>1. Upto(j) \subseteq D
        OBVIOUS
      <3> QED BY <1>1, <3>1, FS_Subset
    <2> HIDE DEF Upto
    <2>3. /\ Cardinality(Upto(i)) <= Cardinality(Upto(j))
          /\ Cardinality(Upto(i)) # Cardinality(Upto(j))
          /\ IsFiniteSet(Upto(i))
      BY <2>1, <2>2, FS_Subset
    <2>4. Cardinality(Upto(i)) \in Nat /\ Cardinality(Upto(j)) \in Nat
      BY <2>2, <2>3, FS_CardinalityType
    <2> QED BY <2>3, <2>4
  <1>3. place \in [D -> D]
    <2> SUFFICES ASSUME NEW j \in D PROVE Cardinality(Upto(j)) \in D
      OBVIOUS
    <2>1. Upto(j) \subseteq D /\ j \in Upto(j)
      OBVIOUS
    <2> HIDE DEF Upto
    <2>2. IsFiniteSet(Upto(j)) /\ Cardinality(Upto(j)) <= n
      BY <1>1, <2>1, FS_Subset
    <2>3. Cardinality(Upto(j)) \in Nat /\ Cardinality(Upto(j)) # 0
      BY <2>1, <2>2, FS_CardinalityType, FS_EmptySet
    <2> QED BY <2>2, <2>3
  <1> HIDE DEF place
  <1>4. place \in Injection(D, D)
    <2> SUFFICES ASSUME NEW i \in D, NEW j \in D, i # j PROVE place[i] # place[j]
      BY <1>3, Fun_IsInj
    <2>1. \/ u[i] < u[j] \/ (u[i] = u[j] /\ i < j)
          \/ u[j] < u[i] \/ (u[j] = u[i] /\ j < i)
      OBVIOUS
    <2>2. place[i] \in Int /\ place[j] \in Int
      BY <1>3
    <2> QED BY <1>2, <2>1, <2>2
  <1>5. place \in Bijection(D, D)
    <2>1. place \in Surjection(D, D)
      BY <1>1, <1>4, FS_Injection
    <2> QED BY <1>4, <2>1, Fun_IsBij
  <1> DEFINE p == Inverse(place, D, D)
  <1>6. p \in Bijection(D, D) /\ p \in [D -> D] /\ \A j \in D : p[place[j]] = j
    <2> HIDE DEF D
    <2>1. p \in Bijection(D, D) /\ \A j \in D : p[place[j]] = j
      BY <1>5, Fun_BijInverse
    <2> QED BY <2>1, Fun_BijectionProperties
  <1> HIDE DEF p
  <1>7. \A k \in D : place[p[k]] = k
    <2> HIDE DEF D
    <2> TAKE k \in D
    <2>1. PICK j \in D : place[j] = k
      BY <1>5, Fun_BijectionProperties
    <2> QED BY <1>6, <2>1
  <1>8. ASSUME NEW k \in D, NEW l \in D, k < l PROVE u[p[k]] <= u[p[l]]
    <2>1. p[k] \in D /\ p[l] \in D /\ place[p[k]] = k /\ place[p[l]] = l
      BY <1>6, <1>7
    <2>2. ~(u[p[l]] < u[p[k]])
      BY <1>2, <1>8, <2>1
    <2> QED BY <2>1, <2>2
  <1>9. InOrder([k \in D |-> u[p[k]]])
    BY <1>8 DEF InOrder
  <1> QED BY <1>6, <1>9

\* Sorting puts the times in some order, and in order.
LEMMA SortedIs ==
  ASSUME NEW times \in Seq(Int)
  PROVE  /\ InOrder(Sorted(times))
         /\ \E p \in Bijection(1..Len(times), 1..Len(times)) :
              Sorted(times) = [k \in 1..Len(times) |-> times[p[k]]]
         /\ Sorted(times) \in Seq(Int) /\ Len(Sorted(times)) = Len(times)
  <1> DEFINE n == Len(times)
  <1>1. n \in Nat /\ times \in [1..n -> Int] /\ DOMAIN times = 1..n
    BY LenProperties
  <1> HIDE DEF n
  <1>2. \E row \in Orders(times) : InOrder(row)
    BY <1>1, SortedExists DEF Orders
  <1>3. Sorted(times) \in Orders(times) /\ InOrder(Sorted(times))
    <2> HIDE DEF Orders, InOrder
    <2> QED BY <1>2 DEF Sorted
  <1>4. PICK p \in Bijection(1..n, 1..n) : Sorted(times) = [k \in 1..n |-> times[p[k]]]
    BY <1>1, <1>3 DEF Orders
  <1>5. p \in [1..n -> 1..n]
    BY Fun_BijectionProperties
  <1>6. Sorted(times) \in [1..n -> Int]
    BY <1>1, <1>4, <1>5
  <1>7. Sorted(times) \in Seq(Int) /\ Len(Sorted(times)) = n
    BY <1>1, <1>6, SeqDef
  <1> QED BY <1>3, <1>4, <1>7 DEF n

LEMMA SortedTwice ==
  ASSUME NEW times \in Seq(Int)
  PROVE  Sorted(Sorted(times)) = Sorted(times)
  <1>1. PICK p \in Bijection(1..Len(times), 1..Len(times)) :
          Sorted(times) = [k \in 1..Len(times) |-> times[p[k]]]
    BY SortedIs
  <1>2. DOMAIN times = 1..Len(times)
    BY LenProperties
  <1>3. Orders(Sorted(times)) = Orders(times)
    BY <1>1, <1>2, OrdersOfOrder
  <1> QED BY <1>3, SortedByOrders

\* Whether the times before were sorted makes no difference to a new one.
LEMMA SortedAppend ==
  ASSUME NEW times \in Seq(Int), NEW x \in Int
  PROVE  Sorted(Append(Sorted(times), x)) = Sorted(Append(times, x))
  <1> DEFINE n == Len(times)
             D == 1..n
             E == 1..(n + 1)
             s == Sorted(times)
             a == Append(s, x)
             b == Append(times, x)
  <1>1. E = D \cup {n + 1} /\ n + 1 \notin D
    <2>1. n \in Nat
      BY LenProperties
    <2> HIDE DEF n
    <2> QED BY <2>1
  <1>2. PICK p \in Bijection(D, D) : s = [k \in D |-> times[p[k]]]
    BY SortedIs
  <1>3. s \in Seq(Int) /\ Len(s) = n
    BY SortedIs
  <1>4. /\ a \in Seq(Int) /\ Len(a) = n + 1
        /\ \A k \in D : a[k] = s[k]
        /\ a[n + 1] = x
    <2> HIDE DEF s
    <2> QED BY <1>3, AppendProperties
  <1>5. /\ b \in Seq(Int) /\ Len(b) = n + 1
        /\ \A k \in D : b[k] = times[k]
        /\ b[n + 1] = x
    BY AppendProperties
  <1> HIDE DEF a, b, s
  <1>6. a \in [E -> Int] /\ DOMAIN b = E
    BY <1>4, <1>5, LenProperties
  <1> HIDE DEF D, E, n
  <1>7. /\ p \in [D -> D]
        /\ \A k, l \in D : p[k] = p[l] => k = l
        /\ \A t \in D : \E k \in D : p[k] = t
    BY Fun_BijectionProperties
  <1> DEFINE q == [k \in E |-> IF k = n + 1 THEN n + 1 ELSE p[k]]
  <1>8. /\ q \in [E -> E] /\ q[n + 1] = n + 1
        /\ \A k \in D : q[k] = p[k]
    BY <1>1, <1>7
  <1> HIDE DEF q
  <1>9. q \in Bijection(E, E)
    <2>1. \A k, l \in E : q[k] = q[l] => k = l
      BY <1>1, <1>7, <1>8
    <2>2. \A t \in E : \E k \in E : q[k] = t
      BY <1>1, <1>7, <1>8
    <2> QED BY <1>8, <2>1, <2>2, Fun_IsBij
  <1>10. \A k \in E : a[k] = b[q[k]]
    BY <1>1, <1>2, <1>4, <1>5, <1>7, <1>8
  <1>11. a = [k \in E |-> b[q[k]]]
    BY <1>6, <1>10
  <1>12. Sorted(a) = Sorted(b)
    BY <1>6, <1>9, <1>11, OrdersOfOrder, SortedByOrders
  <1> QED BY <1>12 DEF a, b, s

ResultsInv == finished \in Seq(Int) /\ ResultsKept

LEMMA ResultsInit == Init => ResultsInv
  <1> SUFFICES ASSUME Init PROVE ResultsInv
    OBVIOUS
  <1>1. <<>> \in Seq(Int) /\ Len(<<>>) = 0
    BY EmptySeq
  <1>2. Sorted(<<>>) \in Seq(Int) /\ Len(Sorted(<<>>)) = 0
    BY <1>1, SortedIs
  <1>3. Sorted(<<>>) = <<>>
    BY <1>2, EmptySeq
  <1> QED BY <1>1, <1>3 DEF Init, ResultsInv, ResultsKept

LEMMA ResultsStep == TypeOK /\ ResultsInv /\ [Next]_vars => ResultsInv'
  <1> SUFFICES ASSUME TypeOK, ResultsInv, [Next]_vars PROVE ResultsInv'
    OBVIOUS
  <1>1. ASSUME UNCHANGED resultVars PROVE ResultsInv'
    BY <1>1 DEF resultVars, ResultsInv, ResultsKept
  <1>2. ASSUME GameEnd PROVE ResultsInv'
    <2>1. timer \in Int /\ finished \in Seq(Int)
      BY GameAssumption DEF TypeOK, ResultsInv
    <2>2. /\ finished' = Append(finished, timer)
          /\ bestTimes' = Sorted(Append(Sorted(finished), timer))
          /\ stored' = bestTimes'
      BY <1>2 DEF GameEnd, ResultsInv, ResultsKept
    <2>3. finished' \in Seq(Int)
      BY <2>1, <2>2, AppendProperties
    <2>4. bestTimes' = Sorted(finished')
      BY <2>1, <2>2, SortedAppend
    <2> QED BY <2>2, <2>3, <2>4 DEF ResultsInv, ResultsKept
  <1>3. CASE Load
    <2>1. finished \in Seq(Int) /\ bestTimes' = Sorted(Sorted(finished))
      BY <1>3 DEF Load, ResultsInv, ResultsKept
    <2>2. bestTimes' = Sorted(finished)
      BY <2>1, SortedTwice
    <2> QED BY <1>3, <2>1, <2>2 DEF Load, ResultsInv, ResultsKept
  <1>4. CASE Mouse
    BY <1>1, <1>2, <1>4 DEF Mouse, MoveAway, EnterCentralBox, Restart, EnterVisitedBox,
       EnterBoxInVain, CheckBox
  <1>5. CASE Tick \/ PenaltyOff \/ UNCHANGED vars
    BY <1>1, <1>5 DEF Tick, PenaltyOff, vars
  <1> QED BY <1>3, <1>4, <1>5 DEF Next

\* After any number of games and sessions the results shown and stored are the
\* times of all games finished, sorted: none is lost when the page is loaded
\* again, and sorting after every game comes to sorting once.
THEOREM AllResultsKept == Spec => []ResultsKept
  <1>1. ResultsInv => ResultsKept
    BY DEF ResultsInv
  <1>2. IInv => TypeOK
    BY DEF IInv
  <1> QED BY <1>1, <1>2, ResultsInit, ResultsStep, Inductive, PTL DEF Spec
=============================================================================

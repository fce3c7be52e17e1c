-------------------------- MODULE HttpServerProofs --------------------------
(***************************************************************************)
(* What holds of the HTTP server for any number of clients, any requests,  *)
(* any site, any size of the buffer and any timeout.                       *)
(***************************************************************************)
EXTENDS HttpServer, WellFoundedInduction, SequenceTheorems, TLAPS

\* What select has left of the second and what the server has waited make up
\* the second.
TimerHeld ==
  /\ tv \in Nat /\ waited \in Nat
  /\ tv + waited = Timeout

\* Clients keep to their scripts.
ScriptsKept == \A c \in Clients : script[c] \in Scripts[c]

IInv == TypeOK /\ ScriptsKept

-----------------------------------------------------------------------------
(* The timer.                                                              *)

\* A part of a sum is no more than the sum.
LEMMA PartOfSum ==
  ASSUME NEW a \in Nat, NEW b \in Nat, NEW sum \in Nat, a + b = sum
  PROVE  b <= sum
  OBVIOUS

LEMMA InitTimer == Init => TimerHeld
  BY HttpAssumption DEF Init, TimerHeld

\* The timer is set again together with the count of what was waited for, and
\* select takes off the one what the server adds to the other.
LEMMA StepKeepsTimer == TimerHeld /\ [Next]_vars => TimerHeld'
  <1> SUFFICES ASSUME TimerHeld, [Next]_vars
               PROVE  TimerHeld'
    OBVIOUS
  <1>1. CASE Accept
    BY <1>1, HttpAssumption DEF Accept, TimerHeld
  <1>2. CASE ReadChar \/ TooLong \/ Fill \/ EndOfInput \/ EndRequest \/ Fail
    BY <1>2 DEF ReadChar, TooLong, Fill, EndOfInput, EndRequest, Fail, timerVars,
                TimerHeld
  <1>3. CASE TimeOut
    BY <1>3 DEF TimeOut, TimerHeld
  <1>4. CASE SendReply \/ SendFails
    <2>1. CASE AfterReply
      BY <2>1, HttpAssumption DEF AfterReply, timerVars, TimerHeld
    <2>2. CASE UNCHANGED timerVars
      BY <2>2 DEF timerVars, TimerHeld
    <2> QED BY <1>4, <2>1, <2>2 DEF SendReply, SendFails
  <1>5. CASE Close
    BY <1>5, HttpAssumption DEF Close, TimerHeld
  <1>6. CASE Tick
    BY <1>6 DEF Tick, TimerHeld
  <1>7. ASSUME NEW c \in Clients, Client(c)
        PROVE  TimerHeld'
    BY <1>7 DEF Client, Connect, Send, Finish, Reset, serverVars, timerVars,
                TimerHeld
  <1>8. CASE UNCHANGED vars
    BY <1>8 DEF vars, timerVars, TimerHeld
  <1> QED BY <1>1, <1>2, <1>3, <1>4, <1>5, <1>6, <1>7, <1>8 DEF Next, Server

\* Only select that returns 0 gives a client up.
LEMMA StepGivesUpInTime ==
  ASSUME TimerHeld, TimerHeld', [Next]_vars
  PROVE  waited' <= Timeout /\ (timedOut' # timedOut => waited = Timeout)
  <1>1. waited' <= Timeout
    <2>1. tv' \in Nat /\ waited' \in Nat /\ tv' + waited' = Timeout
      BY DEF TimerHeld
    <2> QED BY <2>1, PartOfSum, HttpAssumption
  <1>2. CASE TimeOut
    BY <1>1, <1>2, HttpAssumption DEF TimeOut, TimerHeld
  <1>3. CASE \/ Accept \/ ReadChar \/ TooLong \/ Fill \/ EndOfInput
             \/ EndRequest \/ Close \/ Fail \/ Tick
    BY <1>1, <1>3 DEF Accept, ReadChar, TooLong, Fill, EndOfInput, EndRequest,
                      Close, Fail, Tick, timerVars
  <1>4. CASE SendReply \/ SendFails
    BY <1>1, <1>4 DEF SendReply, SendFails, AfterReply, timerVars
  <1>5. ASSUME NEW c \in Clients, Client(c)
        PROVE  timedOut' = timedOut
    BY <1>5 DEF Client, Connect, Send, Finish, Reset, serverVars, timerVars
  <1>6. CASE UNCHANGED vars
    BY <1>1, <1>6 DEF vars, timerVars
  <1> QED BY <1>1, <1>2, <1>3, <1>4, <1>5, <1>6 DEF Next, Server

\* A silent client is given up when the server has waited for it for exactly
\* the timeout since it was accepted or last answered, whatever it sent in the
\* meantime: for any clients, requests, buffer and timeout.
THEOREM SecondIsASecond == Spec => OneSecondInAll
  <1>1. Spec => []TimerHeld
    BY InitTimer, StepKeepsTimer, PTL DEF Spec
  <1>2. TimerHeld /\ TimerHeld' /\ [Next]_vars =>
          [ /\ waited' <= Timeout
            /\ timedOut' # timedOut => waited = Timeout ]_vars
    BY StepGivesUpInTime
  <1> QED BY <1>1, <1>2, PTL DEF Spec, OneSecondInAll

-----------------------------------------------------------------------------
(* Texts that are put together.                                            *)

\* A set of numbers that is not empty has a least element.
LEMMA LeastExists ==
  ASSUME NEW S \in SUBSET Nat, S # {}
  PROVE  \E m \in S : \A k \in S : m <= k
  <1> DEFINE R == OpToRel(<, Nat)
  <1>1. IsWellFoundedOn(R, Nat)
    BY NatLessThanWellFounded
  <1>2. PICK x \in S : \A y \in S : ~(<<y, x>> \in R)
    <2> HIDE DEF R
    <2> QED BY <1>1, WFMin
  <1>3. \A y \in S : ~(y < x)
    BY <1>2 DEF OpToRel
  <1> QED BY <1>3

\* A set of numbers that has 0 and, with a number below n, the next one, has
\* all numbers up to n.
LEMMA UpToInduction ==
  ASSUME NEW n \in Nat, NEW S, 0 \in S,
         \A m \in 0..n-1 : m \in S => m + 1 \in S
  PROVE  0..n \subseteq S
  <1> SUFFICES ASSUME (0..n) \ S # {} PROVE FALSE
    OBVIOUS
  <1> DEFINE T == (0..n) \ S
  <1>1. PICK m \in T : \A k \in T : m <= k
    <2>1. T \in SUBSET Nat /\ T # {}
      OBVIOUS
    <2> HIDE DEF T
    <2> QED BY <2>1, LeastExists
  <1>2. m - 1 \in 0..n-1 /\ m - 1 \in S /\ (m - 1) + 1 = m
    BY <1>1
  <1> QED BY <1>1, <1>2

\* What the first n texts of t make together, and how long that is.
Upto(t, n) == Promise!FlattenSeq(SubSeq(t, 1, n))
Mark(t, n) == Len(Upto(t, n))

\* f is what the texts of t make from the first on.
Grows(f, t, S) ==
  /\ f \in [0..Len(t) -> Seq(S)]
  /\ f[0] = <<>>
  /\ \A i \in 1..Len(t) : f[i] = f[i-1] \o t[i]

\* There is such a function: each text adds its part.
LEMMA GrowsExists ==
  ASSUME NEW S, NEW t \in Seq(Seq(S))
  PROVE  \E f : Grows(f, t, S)
  <1> DEFINE L == Len(t)
             Good(m) == \E f \in [0..m -> Seq(S)] :
                          /\ f[0] = <<>>
                          /\ \A i \in 1..m : f[i] = f[i-1] \o t[i]
             G == {m \in 0..L : Good(m)}
  <1>1. L \in Nat /\ \A i \in 1..L : t[i] \in Seq(S)
    OBVIOUS
  <1>2. Good(0)
    <2> DEFINE g == [i \in 0..0 |-> <<>>]
    <2>1. g \in [0..0 -> Seq(S)] /\ g[0] = <<>> /\ 1..0 = {}
      OBVIOUS
    <2> HIDE DEF g
    <2> QED BY <2>1
  <1>3. ASSUME NEW m \in 0..L-1, Good(m) PROVE Good(m + 1)
    <2>1. PICK f \in [0..m -> Seq(S)] : /\ f[0] = <<>>
                                        /\ \A i \in 1..m : f[i] = f[i-1] \o t[i]
      BY <1>3
    <2> DEFINE last == f[m] \o t[m + 1]
               g == [i \in 0..m+1 |-> IF i = m + 1 THEN last ELSE f[i]]
    <2>2. last \in Seq(S)
      <3>1. m + 1 \in 1..L /\ f[m] \in Seq(S)
        BY <1>1, <1>3, <2>1
      <3>2. t[m + 1] \in Seq(S)
        BY <1>1, <3>1
      <3> QED BY <3>1, <3>2, ConcatProperties
    <2>3. m + 1 \in Nat /\ m # m + 1 /\ m \in Nat
      BY <1>1, <1>3
    <2>4. g \in [0..m+1 -> Seq(S)] /\ g[0] = <<>>
      <3> HIDE DEF last
      <3> QED BY <2>1, <2>2, <2>3
    <2>5. ASSUME NEW i \in 1..m+1 PROVE g[i] = g[i-1] \o t[i]
      <3>1. CASE i = m + 1
        <4>1. i - 1 = m /\ m \in 0..m+1 /\ m + 1 \in 0..m+1
          BY <2>3, <3>1
        <4>2. g[i] = last /\ g[i-1] = f[m]
          <5> HIDE DEF last
          <5> QED BY <2>3, <3>1, <4>1
        <4> QED BY <3>1, <4>2
      <3>2. CASE i # m + 1
        <4>1. i \in 1..m /\ i \in 0..m+1 /\ i - 1 \in 0..m+1 /\ i - 1 # m + 1
          BY <2>3, <3>2
        <4>2. g[i] = f[i] /\ g[i-1] = f[i-1]
          <5> HIDE DEF last
          <5> QED BY <4>1, <3>2
        <4> QED BY <2>1, <4>1, <4>2
      <3> QED BY <3>1, <3>2
    <2> HIDE DEF g
    <2> QED BY <2>4, <2>5
  <1>4. 0..L \subseteq G
    <2>1. 0 \in G /\ \A m \in 0..L-1 : m \in G => m + 1 \in G
      <3> HIDE DEF Good
      <3> QED BY <1>1, <1>2, <1>3
    <2> HIDE DEF G
    <2> QED BY <1>1, <2>1, UpToInduction
  <1>5. Good(L)
    <2> HIDE DEF Good
    <2> QED BY <1>1, <1>4
  <1> QED BY <1>5 DEF Grows

\* Flattening goes from the first text to the last.
LEMMA FlattenIs ==
  ASSUME NEW S, NEW t \in Seq(Seq(S)), NEW f, Grows(f, t, S)
  PROVE  Promise!FlattenSeq(t) = f[Len(t)]
  <1>1. CASE Len(t) = 0
    <2>1. t = <<>>
      BY <1>1
    <2>2. Promise!FlattenSeq(t) = t
      BY <1>1 DEF Promise!FlattenSeq
    <2> QED BY <1>1, <2>1, <2>2 DEF Grows
  <1>2. CASE Len(t) # 0
    <2> DEFINE L == Len(t)
               Is(h) == h = [i \in 1..L |-> IF i = 1 THEN t[i] ELSE h[i-1] \o t[i]]
               g == [i \in 1..L |-> f[i]]
    <2>1. L \in Nat \ {0} /\ \A i \in 1..L : t[i] \in Seq(S)
      BY <1>2
    <2>2. /\ f \in [0..L -> Seq(S)] /\ f[0] = <<>>
          /\ \A i \in 1..L : f[i] = f[i-1] \o t[i]
      BY DEF Grows
    <2>3. f[1] = t[1]
      <3>1. 1 \in 1..L /\ t[1] \in Seq(S) /\ f[1] = f[0] \o t[1]
        <4>1. 1 \in 1..L /\ 1 - 1 = 0
          BY <2>1
        <4>2. t[1] \in Seq(S) /\ f[1] = f[1 - 1] \o t[1]
          <5> HIDE DEF L
          <5> QED BY <2>1, <2>2, <4>1
        <4> QED BY <4>1, <4>2
      <3> QED BY <2>2, <3>1, ConcatEmptySeq
    <2>4. Is(g)
      <3>1. ASSUME NEW i \in 1..L
            PROVE  f[i] = IF i = 1 THEN t[i] ELSE g[i-1] \o t[i]
        <4>1. CASE i = 1
          BY <2>3, <4>1
        <4>2. CASE i # 1
          <5>1. i - 1 \in 1..L
            BY <2>1, <4>2
          <5> QED BY <2>2, <4>2, <5>1
        <4> QED BY <4>1, <4>2
      <3> QED BY <3>1
    <2>5. ASSUME NEW h, Is(h) PROVE h = g
      <3>1. DOMAIN h = 1..L
        BY <2>5
      <3>2. \A i \in 1..L : h[i] = IF i = 1 THEN t[i] ELSE h[i-1] \o t[i]
        BY <2>5
      <3> DEFINE E == {i \in 0..L : i # 0 => h[i] = f[i]}
      <3>3. 0 \in E
        BY <2>1
      <3>4. ASSUME NEW m \in 0..L-1, m \in E PROVE m + 1 \in E
        <4>1. m + 1 \in 1..L /\ (m + 1) - 1 = m
          BY <2>1, <3>4
        <4>2. CASE m = 0
          BY <2>3, <3>2, <4>1, <4>2
        <4>3. CASE m # 0
          <5>1. h[m + 1] = h[m] \o t[m + 1] /\ h[m] = f[m]
            <6>1. m + 1 # 1
              BY <3>4, <4>3, <2>1
            <6>2. h[m] = f[m]
              BY <3>4, <4>3
            <6> HIDE DEF Is, L
            <6> QED BY <3>2, <4>1, <6>1, <6>2
          <5>2. f[m + 1] = f[m] \o t[m + 1]
            BY <2>2, <4>1
          <5>3. h[m + 1] = f[m + 1]
            BY <5>1, <5>2
          <5> QED BY <4>1, <5>3
        <4> QED BY <4>2, <4>3
      <3>5. 0..L \subseteq E
        <4> HIDE DEF E
        <4> QED BY <2>1, <3>3, <3>4, UpToInduction
      <3>6. ASSUME NEW i \in 1..L PROVE h[i] = g[i]
        <4>1. i \in 0..L /\ i # 0
          BY <2>1
        <4>2. i \in E
          <5> HIDE DEF E, L
          <5> QED BY <3>5, <4>1
        <4> QED BY <4>1, <4>2
      <3>7. h = [i \in 1..L |-> h[i]]
        BY <2>5, <3>1
      <3> HIDE DEF Is, L
      <3> QED BY <3>6, <3>7
    <2>6. (CHOOSE h : Is(h)) = g
      <3> HIDE DEF Is, g
      <3> QED BY <2>4, <2>5
    <2>7. Promise!FlattenSeq(t) = (CHOOSE h : Is(h))[L]
      BY <1>2 DEF Promise!FlattenSeq
    <2>8. g[L] = f[L]
      BY <2>1
    <2> HIDE DEF Is, g
    <2> QED BY <2>6, <2>7, <2>8
  <1> QED BY <1>1, <1>2

\* The first texts together are the first of its values.
LEMMA UptoIs ==
  ASSUME NEW S, NEW t \in Seq(Seq(S)), NEW f, Grows(f, t, S),
         NEW n \in 0..Len(t)
  PROVE  Upto(t, n) = f[n]
  <1> DEFINE u == SubSeq(t, 1, n)
             g == [i \in 0..n |-> f[i]]
  <1>1. /\ u \in Seq(Seq(S)) /\ Len(u) = n
        /\ \A i \in 1..n : u[i] = t[i]
    BY SubSeqProperties
  <1>2. Grows(g, u, S)
    <2>1. n \in Nat /\ 0..n \subseteq 0..Len(t) /\ 1..n \subseteq 1..Len(t)
      OBVIOUS
    <2>2. \A i \in 0..n : f[i] \in Seq(S)
      BY <2>1 DEF Grows
    <2>3. g \in [0..n -> Seq(S)] /\ g[0] = <<>>
      BY <2>1, <2>2 DEF Grows
    <2>4. ASSUME NEW i \in 1..n PROVE g[i] = g[i-1] \o u[i]
      <3>1. i \in 0..n /\ i - 1 \in 0..n /\ i \in 1..Len(t)
        BY <2>1
      <3>2. g[i] = f[i] /\ g[i-1] = f[i-1]
        BY <3>1
      <3>3. f[i] = f[i-1] \o t[i] /\ u[i] = t[i]
        BY <1>1, <3>1 DEF Grows
      <3> HIDE DEF g, u
      <3> QED BY <3>2, <3>3
    <2> HIDE DEF g, u
    <2> QED BY <1>1, <2>3, <2>4 DEF Grows
  <1>3. Promise!FlattenSeq(u) = g[n]
    <2> HIDE DEF g, u
    <2> QED BY <1>1, <1>2, FlattenIs
  <1>4. g[n] = f[n]
    OBVIOUS
  <1> QED BY <1>3, <1>4 DEF Upto

\* The next text is put at the end.
LEMMA UptoNext ==
  ASSUME NEW S, NEW t \in Seq(Seq(S)), NEW n \in 1..Len(t)
  PROVE  /\ Upto(t, n) = Upto(t, n-1) \o t[n]
         /\ Mark(t, n) = Mark(t, n-1) + Len(t[n])
  <1>1. PICK f : Grows(f, t, S)
    BY GrowsExists
  <1>2. n - 1 \in 0..Len(t) /\ n \in 0..Len(t) /\ t[n] \in Seq(S)
    OBVIOUS
  <1>3. Upto(t, n) = f[n] /\ Upto(t, n-1) = f[n-1]
    BY <1>1, <1>2, UptoIs
  <1>4. f[n] = f[n-1] \o t[n] /\ f[n-1] \in Seq(S)
    BY <1>1, <1>2 DEF Grows
  <1>5. Len(f[n-1] \o t[n]) = Len(f[n-1]) + Len(t[n])
    BY <1>2, <1>4, ConcatProperties
  <1> QED BY <1>3, <1>4, <1>5 DEF Mark

\* Texts together are a text.
LEMMA UptoTyped ==
  ASSUME NEW S, NEW t \in Seq(Seq(S)), NEW n \in 0..Len(t)
  PROVE  Upto(t, n) \in Seq(S) /\ Mark(t, n) \in Nat
  <1>1. PICK f : Grows(f, t, S)
    BY GrowsExists
  <1>2. Upto(t, n) = f[n]
    BY <1>1, UptoIs
  <1> QED BY <1>1, <1>2 DEF Grows, Mark

\* None of them are the empty text, and all of them the whole.
LEMMA UptoEnds ==
  ASSUME NEW S, NEW t \in Seq(Seq(S))
  PROVE  /\ Upto(t, 0) = <<>> /\ Mark(t, 0) = 0
         /\ Upto(t, Len(t)) = Promise!FlattenSeq(t)
  <1>1. PICK f : Grows(f, t, S)
    BY GrowsExists
  <1>2. 0 \in 0..Len(t) /\ Len(t) \in 0..Len(t)
    OBVIOUS
  <1>3. Upto(t, 0) = f[0] /\ Upto(t, Len(t)) = f[Len(t)]
    BY <1>1, <1>2, UptoIs
  <1>4. f[0] = <<>> /\ Promise!FlattenSeq(t) = f[Len(t)]
    BY <1>1, FlattenIs DEF Grows
  <1> QED BY <1>3, <1>4 DEF Mark

\* For the two lemmas about places: arithmetic on what stands for lengths.
LEMMA LongerStill ==
  ASSUME NEW a \in Nat, NEW b \in Nat, NEW c \in Nat, a <= b
  PROVE  a <= b + c
  OBVIOUS

LEMMA PartWithin ==
  ASSUME NEW a \in Nat, NEW b \in Nat, NEW c \in Nat, NEW d \in Nat,
         a = b + c, a <= d, NEW i \in 1..c
  PROVE  b + i \in 1..d
  OBVIOUS

\* Where a text is, once it is there.
LEMMA UptoHolds ==
  ASSUME NEW S, NEW t \in Seq(Seq(S)), NEW n \in 1..Len(t), NEW m \in n..Len(t)
  PROVE  /\ Mark(t, n) <= Mark(t, m)
         /\ \A i \in 1..Len(t[n]) : /\ Mark(t, n-1) + i \in 1..Mark(t, m)
                                   /\ Upto(t, m)[Mark(t, n-1) + i] = t[n][i]
  <1> DEFINE Good(k) == /\ Mark(t, n) <= Mark(t, k)
                        /\ \A i \in 1..Len(t[n]) :
                             Upto(t, k)[Mark(t, n-1) + i] = t[n][i]
             G == {d \in 0..Len(t)-n : Good(n + d)}
  <1>1. /\ t[n] \in Seq(S) /\ Len(t[n]) \in Nat
        /\ Mark(t, n) \in Nat /\ Mark(t, n-1) \in Nat
        /\ Upto(t, n-1) \in Seq(S)
        /\ Mark(t, n) = Mark(t, n-1) + Len(t[n])
        /\ Upto(t, n) = Upto(t, n-1) \o t[n]
    <2>1. n \in 0..Len(t) /\ n - 1 \in 0..Len(t) /\ t[n] \in Seq(S)
      OBVIOUS
    <2>2. Mark(t, n) \in Nat /\ Mark(t, n-1) \in Nat /\ Upto(t, n-1) \in Seq(S)
      BY <2>1, UptoTyped
    <2>3. Mark(t, n) = Mark(t, n-1) + Len(t[n]) /\ Upto(t, n) = Upto(t, n-1) \o t[n]
      BY UptoNext
    <2> QED BY <2>1, <2>2, <2>3
  <1>2. Good(n)
    <2>1. ASSUME NEW i \in 1..Len(t[n]) PROVE Upto(t, n)[Mark(t, n-1) + i] = t[n][i]
      <3>1. /\ Mark(t, n-1) + i \in 1..Len(Upto(t, n-1)) + Len(t[n])
            /\ ~(Mark(t, n-1) + i <= Len(Upto(t, n-1)))
            /\ (Mark(t, n-1) + i) - Len(Upto(t, n-1)) = i
        BY <1>1 DEF Mark
      <3> QED BY <1>1, <3>1, ConcatProperties
    <2>2. Mark(t, n) <= Mark(t, n)
      BY <1>1
    <2> QED BY <2>1, <2>2
  <1>3. ASSUME NEW k \in n..Len(t)-1, Good(k) PROVE Good(k + 1)
    <2>1. k + 1 \in 1..Len(t) /\ k \in 0..Len(t) /\ (k + 1) - 1 = k
      OBVIOUS
    <2>2. t[k + 1] \in Seq(S) /\ Len(t[k + 1]) \in Nat
      BY <2>1
    <2>3. /\ Upto(t, k + 1) = Upto(t, k) \o t[k + 1]
          /\ Mark(t, k + 1) = Mark(t, k) + Len(t[k + 1])
          /\ Upto(t, k) \in Seq(S) /\ Mark(t, k) \in Nat
      BY <2>1, UptoNext, UptoTyped
    <2>4. Mark(t, n) <= Mark(t, k) /\ Mark(t, n) <= Mark(t, k + 1)
      <3>1. Mark(t, n) <= Mark(t, k)
        BY <1>3
      <3> QED BY <1>1, <2>2, <2>3, <3>1, LongerStill
    <2>5. ASSUME NEW i \in 1..Len(t[n])
          PROVE  Upto(t, k + 1)[Mark(t, n-1) + i] = t[n][i]
      <3>1. Mark(t, n-1) + i \in 1..Mark(t, k)
        BY <1>1, <2>3, <2>4, PartWithin
      <3>2. (Upto(t, k) \o t[k + 1])[Mark(t, n-1) + i] = Upto(t, k)[Mark(t, n-1) + i]
        <4>1. /\ Mark(t, n-1) + i \in 1..Len(Upto(t, k)) + Len(t[k + 1])
              /\ Mark(t, n-1) + i <= Len(Upto(t, k))
          BY <2>2, <2>3, <3>1 DEF Mark
        <4> QED BY <2>2, <2>3, <4>1, ConcatProperties
      <3> QED BY <1>3, <2>3, <3>2
    <2> QED BY <2>4, <2>5
  <1>4. 0..Len(t)-n \subseteq G
    <2>1. Len(t) - n \in Nat /\ 0 \in 0..Len(t)-n /\ n + 0 = n
      OBVIOUS
    <2>2. 0 \in G
      <3> HIDE DEF Good
      <3> QED BY <1>2, <2>1
    <2>3. ASSUME NEW d \in 0..Len(t)-n-1, d \in G PROVE d + 1 \in G
      <3>1. n + d \in n..Len(t)-1 /\ n + (d + 1) = (n + d) + 1 /\ d + 1 \in 0..Len(t)-n
        BY <2>1
      <3>2. Good(n + d)
        BY <2>3
      <3>3. Good((n + d) + 1)
        <4> HIDE DEF Good
        <4> QED BY <1>3, <3>1, <3>2
      <3> HIDE DEF Good
      <3> QED BY <3>1, <3>3
    <2> HIDE DEF G
    <2> QED BY <2>1, <2>2, <2>3, UpToInduction
  <1>5. Good(m)
    <2>1. m - n \in 0..Len(t)-n /\ n + (m - n) = m
      OBVIOUS
    <2>2. m - n \in G
      <3> HIDE DEF G
      <3> QED BY <1>4, <2>1
    <2>3. Good(n + (m - n))
      BY <2>2
    <2> HIDE DEF Good
    <2> QED BY <2>1, <2>3
  <1>6. Mark(t, m) \in Nat
    <2>1. m \in 0..Len(t)
      OBVIOUS
    <2> QED BY <2>1, UptoTyped
  <1>7. Mark(t, n) <= Mark(t, m)
    BY <1>5
  <1>8. ASSUME NEW i \in 1..Len(t[n])
        PROVE  /\ Mark(t, n-1) + i \in 1..Mark(t, m)
               /\ Upto(t, m)[Mark(t, n-1) + i] = t[n][i]
    <2>1. Mark(t, n-1) + i \in 1..Mark(t, m)
      BY <1>1, <1>6, <1>7, PartWithin
    <2> QED BY <1>5, <2>1
  <1> QED BY <1>7, <1>8

-----------------------------------------------------------------------------
(* The text of a request, line by line.                                    *)

\* The lines of a request with the empty one at its end, their texts, and the
\* texts of requests.
Lines(r) == Append(r, <<>>)
LineTexts(r) == [l \in 1..Len(r)+1 |-> Lines(r)[l] \o <<CR, LF>>]
RequestTexts(s) == [k \in 1..Len(s) |-> Promise!TextOf(s[k])]

\* The lines of a request, with the empty one at its end.
LEMMA LinesTyped ==
  ASSUME NEW r \in Request
  PROVE  /\ r \in Seq(Line) /\ Len(r) \in Nat /\ Len(r) >= 1
         /\ Line \subseteq Seq(Chars \ {CR, LF}) /\ <<>> \in Seq(Chars \ {CR, LF})
         /\ \A l \in 1..Len(r) : /\ l \in 1..Len(r)+1
                                 /\ Lines(r)[l] = r[l]
                                 /\ r[l] # <<>>
         /\ Len(r)+1 \in 1..Len(r)+1 /\ Lines(r)[Len(r)+1] = <<>>
         /\ \A l \in 1..Len(r)+1 : Lines(r)[l] \in Seq(Chars \ {CR, LF})
  <1> DEFINE Letters == Seq(Chars \ {CR, LF})
  <1>1. Line = Letters \ {<<>>} /\ <<>> \in Letters
    BY DEF Line
  <1>2. r \in Seq(Line) /\ Len(r) \in Nat /\ Len(r) >= 1
    BY DEF Request
  <1>3. Line \subseteq Letters
    BY <1>1
  <1>4. r \in Seq(Letters)
    <2> HIDE DEF Letters
    <2> QED BY <1>2, <1>3, SeqMonotonic
  <1>5. /\ Lines(r) \in Seq(Letters) /\ Len(Lines(r)) = Len(r)+1
        /\ \A l \in 1..Len(r) : Lines(r)[l] = r[l]
        /\ Lines(r)[Len(r)+1] = <<>>
    <2> HIDE DEF Letters
    <2> QED BY <1>1, <1>4, AppendProperties DEF Lines
  <1>6. ASSUME NEW l \in 1..Len(r) PROVE l \in 1..Len(r)+1 /\ r[l] # <<>>
    <2>1. r[l] \in Line
      BY <1>2
    <2> HIDE DEF Letters
    <2> QED BY <1>1, <1>2, <2>1
  <1>7. \A l \in 1..Len(r)+1 : Lines(r)[l] \in Letters
    <2> HIDE DEF Letters
    <2> QED BY <1>5
  <1>8. Len(r)+1 \in 1..Len(r)+1
    BY <1>2
  <1> HIDE DEF Letters
  <1>9. Line \subseteq Letters /\ <<>> \in Letters
    BY <1>1, <1>3
  <1> QED BY <1>2, <1>5, <1>6, <1>7, <1>8, <1>9 DEF Letters

\* The two characters that end a line.
LEMMA LineEnd ==
  /\ CR \in Chars /\ LF \in Chars /\ CR # LF
  /\ <<CR, LF>> \in Seq(Chars) /\ Len(<<CR, LF>>) = 2
  /\ <<CR, LF>>[1] = CR /\ <<CR, LF>>[2] = LF
  BY ScriptAssumption DEF CR, LF, Promise!CR, Promise!LF

\* A line takes two characters more than it has.
LEMMA LineTextsTyped ==
  ASSUME NEW r \in Request
  PROVE  /\ LineTexts(r) \in Seq(Seq(Chars)) /\ Len(LineTexts(r)) = Len(r)+1
         /\ \A l \in 1..Len(r)+1 :
              /\ LineTexts(r)[l] = Lines(r)[l] \o <<CR, LF>>
              /\ Lines(r)[l] \in Seq(Chars) /\ Len(Lines(r)[l]) \in Nat
              /\ Len(LineTexts(r)[l]) = Len(Lines(r)[l]) + 2
  <1>1. Len(r) \in Nat /\ \A l \in 1..Len(r)+1 : Lines(r)[l] \in Seq(Chars)
    <2>1. \A l \in 1..Len(r)+1 : Lines(r)[l] \in Seq(Chars \ {CR, LF})
      BY LinesTyped
    <2>2. Chars \ {CR, LF} \subseteq Chars
      OBVIOUS
    <2> QED BY <2>1, <2>2, SeqMonotonic, LinesTyped
  <1>2. ASSUME NEW l \in 1..Len(r)+1
        PROVE  /\ Lines(r)[l] \o <<CR, LF>> \in Seq(Chars)
               /\ Len(Lines(r)[l] \o <<CR, LF>>) = Len(Lines(r)[l]) + 2
    <2>1. Lines(r)[l] \in Seq(Chars)
      BY <1>1
    <2> HIDE DEF CR, LF
    <2> QED BY <2>1, LineEnd, ConcatProperties
  <1>3. Len(r)+1 \in Nat
    BY <1>1
  <1>4. LineTexts(r) \in [1..Len(r)+1 -> Seq(Chars)]
    BY <1>2 DEF LineTexts
  <1>5. LineTexts(r) \in Seq(Seq(Chars)) /\ Len(LineTexts(r)) = Len(r)+1
    BY <1>3, <1>4
  <1>6. ASSUME NEW l \in 1..Len(r)+1
        PROVE  /\ LineTexts(r)[l] = Lines(r)[l] \o <<CR, LF>>
               /\ Lines(r)[l] \in Seq(Chars) /\ Len(Lines(r)[l]) \in Nat
               /\ Len(LineTexts(r)[l]) = Len(Lines(r)[l]) + 2
    BY <1>1, <1>2 DEF LineTexts
  <1> QED BY <1>5, <1>6

\* The text of a request is the texts of its lines and of the empty line.
LEMMA TextOfIs ==
  ASSUME NEW r \in Request
  PROVE  /\ Promise!TextOf(r) = Upto(LineTexts(r), Len(r)+1)
         /\ Promise!TextOf(r) \in Seq(Chars)
  <1> DEFINE t == [k \in 1..Len(r) |-> r[k] \o <<CR, LF>>]
             u == SubSeq(LineTexts(r), 1, Len(r))
  <1>1. Len(r) \in Nat /\ Len(r) \in 0..Len(r)+1 /\ Len(r)+1 \in 1..Len(LineTexts(r))
        /\ (Len(r)+1) - 1 = Len(r)
    BY LinesTyped, LineTextsTyped
  <1>2. ASSUME NEW l \in 1..Len(r) PROVE LineTexts(r)[l] = r[l] \o <<CR, LF>>
    <2>1. l \in 1..Len(r)+1 /\ Lines(r)[l] = r[l]
      BY LinesTyped
    <2> QED BY <2>1, LineTextsTyped
  <1>3. /\ u \in Seq(Seq(Chars)) /\ Len(u) = Len(r)
        /\ \A l \in 1..Len(r) : u[l] = r[l] \o <<CR, LF>>
    <2>1. \A l \in 1..Len(r) : LineTexts(r)[l] \in Seq(Chars)
      BY <1>1, LineTextsTyped
    <2>2. /\ u \in Seq(Seq(Chars)) /\ Len(u) = Len(r)
          /\ \A l \in 1..Len(r) : u[l] = LineTexts(r)[l]
      BY <1>1, <2>1, SubSeqProperties
    <2> HIDE DEF u
    <2> QED BY <1>2, <2>2
  <1>4. t = u
    <2>1. u = [l \in 1..Len(r) |-> u[l]]
      <3> HIDE DEF u
      <3> QED BY <1>3
    <2> HIDE DEF u
    <2> QED BY <1>3, <2>1
  <1>5. Promise!FlattenSeq(t) = Upto(LineTexts(r), Len(r))
    BY <1>4 DEF Upto
  <1>6. LineTexts(r)[Len(r)+1] = <<CR, LF>>
    <2>1. LineTexts(r)[Len(r)+1] = <<>> \o <<CR, LF>>
      BY LinesTyped, LineTextsTyped
    <2>2. <<>> \o <<CR, LF>> = <<CR, LF>>
      <3> HIDE DEF CR, LF
      <3> QED BY LineEnd, ConcatEmptySeq
    <2> QED BY <2>1, <2>2
  <1>7. Promise!TextOf(r) = Promise!FlattenSeq(t) \o <<CR, LF>>
    BY DEF Promise!TextOf, CR, LF
  <1>8. Upto(LineTexts(r), Len(r)+1) = Upto(LineTexts(r), Len(r)) \o LineTexts(r)[Len(r)+1]
    <2>1. LineTexts(r) \in Seq(Seq(Chars))
      BY LineTextsTyped
    <2> QED BY <1>1, <2>1, UptoNext
  <1>9. Upto(LineTexts(r), Len(r)+1) \in Seq(Chars)
    <2>1. LineTexts(r) \in Seq(Seq(Chars)) /\ Len(r)+1 \in 0..Len(LineTexts(r))
      BY <1>1, LineTextsTyped
    <2> QED BY <2>1, UptoTyped
  <1> HIDE DEF t
  <1> QED BY <1>5, <1>6, <1>7, <1>8, <1>9

\* The texts of the requests of a script.
LEMMA RequestTextsTyped ==
  ASSUME NEW s \in Seq(Request)
  PROVE  /\ RequestTexts(s) \in Seq(Seq(Chars)) /\ Len(RequestTexts(s)) = Len(s)
         /\ \A k \in 1..Len(s) : RequestTexts(s)[k] = Promise!TextOf(s[k])
  <1>1. Len(s) \in Nat /\ \A k \in 1..Len(s) : s[k] \in Request
    OBVIOUS
  <1>2. \A k \in 1..Len(s) : Promise!TextOf(s[k]) \in Seq(Chars)
    BY <1>1, TextOfIs
  <1>3. RequestTexts(s) \in [1..Len(s) -> Seq(Chars)]
    BY <1>2 DEF RequestTexts
  <1> QED BY <1>1, <1>3 DEF RequestTexts

\* What is sent for a script, and for the first requests of it.
LEMMA TextIs ==
  ASSUME NEW s \in Seq(Request)
  PROVE  /\ Promise!Text(s) = Upto(RequestTexts(s), Len(s))
         /\ Promise!Text(s) \in Seq(Chars)
         /\ \A k \in 0..Len(s) : Promise!Text(SubSeq(s, 1, k)) = Upto(RequestTexts(s), k)
  <1>1. /\ RequestTexts(s) \in Seq(Seq(Chars)) /\ Len(RequestTexts(s)) = Len(s)
        /\ Len(s) \in 0..Len(RequestTexts(s))
    BY RequestTextsTyped
  <1>2. Promise!Text(s) = Promise!FlattenSeq(RequestTexts(s))
    BY DEF Promise!Text, RequestTexts
  <1>3. Promise!Text(s) = Upto(RequestTexts(s), Len(s))
    BY <1>1, <1>2, UptoEnds
  <1>4. Promise!Text(s) \in Seq(Chars)
    BY <1>1, <1>3, UptoTyped
  <1>5. ASSUME NEW k \in 0..Len(s)
        PROVE  Promise!Text(SubSeq(s, 1, k)) = Upto(RequestTexts(s), k)
    <2> DEFINE h == SubSeq(s, 1, k)
               u == SubSeq(RequestTexts(s), 1, k)
    <2>1. Len(h) = k /\ \A j \in 1..k : h[j] = s[j]
      BY SubSeqProperties
    <2>2. /\ u \in Seq(Seq(Chars)) /\ Len(u) = k
          /\ \A j \in 1..k : u[j] = RequestTexts(s)[j]
      <3>1. \A j \in 1..k : RequestTexts(s)[j] \in Seq(Chars)
        BY <1>1
      <3> QED BY <1>1, <3>1, SubSeqProperties
    <2>3. \A j \in 1..k : u[j] = Promise!TextOf(h[j])
      <3>1. \A j \in 1..k : j \in 1..Len(s)
        OBVIOUS
      <3> HIDE DEF h, u
      <3> QED BY <2>1, <2>2, <3>1, RequestTextsTyped
    <2>4. u = [j \in 1..Len(h) |-> Promise!TextOf(h[j])]
      <3>1. u = [j \in 1..k |-> u[j]]
        <4> HIDE DEF u
        <4> QED BY <2>2
      <3> HIDE DEF h, u
      <3> QED BY <2>1, <2>3, <3>1
    <2>5. Promise!Text(h) = Promise!FlattenSeq(u)
      BY <2>4 DEF Promise!Text
    <2> QED BY <2>5 DEF Upto
  <1> QED BY <1>3, <1>4, <1>5

\* Where the characters of line l of request k are in the text of a script.
Place(s, k, l, i) == Mark(RequestTexts(s), k-1) + Mark(LineTexts(s[k]), l-1) + i

\* Each place in a line holds its character, and the two after it CR and LF.
LEMMA CharAtPlace ==
  ASSUME NEW s \in Seq(Request), NEW k \in 1..Len(s), NEW l \in 1..Len(s[k])+1,
         NEW i \in 1..Len(Lines(s[k])[l])+2
  PROVE  /\ Place(s, k, l, i) \in 1..Len(Promise!Text(s))
         /\ i <= Len(Lines(s[k])[l]) => Promise!Text(s)[Place(s, k, l, i)] = Lines(s[k])[l][i]
         /\ i = Len(Lines(s[k])[l]) + 1 => Promise!Text(s)[Place(s, k, l, i)] = CR
         /\ i = Len(Lines(s[k])[l]) + 2 => Promise!Text(s)[Place(s, k, l, i)] = LF
  <1> DEFINE r == s[k]
             t == LineTexts(r)
             q == Mark(t, l-1) + i
             W == Lines(r)[l]
  <1>1. r \in Request /\ Len(s) \in Nat /\ l \in 1..Len(r)+1
    OBVIOUS
  <1>2. /\ t \in Seq(Seq(Chars)) /\ Len(t) = Len(r)+1 /\ Len(r) \in Nat
        /\ t[l] = W \o <<CR, LF>> /\ W \in Seq(Chars) /\ Len(W) \in Nat
        /\ Len(t[l]) = Len(W) + 2
    <2> HIDE DEF r
    <2> QED BY <1>1, LineTextsTyped, LinesTyped
  <1>3. l \in 1..Len(t) /\ Len(t) \in l..Len(t) /\ i \in 1..Len(t[l]) /\ l - 1 \in 0..Len(t)
    <2> HIDE DEF r, t, W
    <2>1. l \in 1..Len(r)+1 /\ i \in 1..Len(W)+2
      BY DEF r, W
    <2> QED BY <1>2, <2>1
  <1>4. q \in 1..Mark(t, Len(t)) /\ Upto(t, Len(t))[q] = t[l][i]
    <2> HIDE DEF t
    <2> QED BY <1>2, <1>3, UptoHolds
  <1>5. /\ RequestTexts(s) \in Seq(Seq(Chars)) /\ Len(RequestTexts(s)) = Len(s)
        /\ RequestTexts(s)[k] = Upto(t, Len(t))
    <2>1. Promise!TextOf(r) = Upto(t, Len(t))
      BY <1>1, <1>2, TextOfIs
    <2> QED BY <2>1, RequestTextsTyped
  <1>6. /\ Mark(RequestTexts(s), k-1) + q \in 1..Mark(RequestTexts(s), Len(s))
        /\ Upto(RequestTexts(s), Len(s))[Mark(RequestTexts(s), k-1) + q]
             = RequestTexts(s)[k][q]
    <2>1. k \in 1..Len(RequestTexts(s)) /\ Len(s) \in k..Len(RequestTexts(s))
      BY <1>1, <1>5
    <2>2. q \in 1..Len(RequestTexts(s)[k])
      <3> HIDE DEF t, q
      <3> QED BY <1>4, <1>5 DEF Mark
    <2> HIDE DEF q, t, r
    <2> QED BY <1>5, <2>1, <2>2, UptoHolds
  <1>7. /\ Promise!Text(s) = Upto(RequestTexts(s), Len(s))
        /\ Len(Promise!Text(s)) = Mark(RequestTexts(s), Len(s))
    BY TextIs DEF Mark
  <1>8. Place(s, k, l, i) = Mark(RequestTexts(s), k-1) + q
    <2>1. Mark(RequestTexts(s), k-1) \in Nat /\ Mark(t, l-1) \in Nat
      <3>1. k - 1 \in 0..Len(RequestTexts(s))
        BY <1>1, <1>5
      <3> HIDE DEF t, r
      <3> QED BY <1>2, <1>3, <1>5, <3>1, UptoTyped
    <2> QED BY <2>1 DEF Place
  <1>9. Promise!Text(s)[Place(s, k, l, i)] = (W \o <<CR, LF>>)[i]
    <2> HIDE DEF q, t, r, W
    <2> QED BY <1>2, <1>4, <1>5, <1>6, <1>7, <1>8
  <1>10. (W \o <<CR, LF>>)[i] = IF i <= Len(W) THEN W[i] ELSE <<CR, LF>>[i - Len(W)]
    <2>1. i \in 1..Len(W) + Len(<<CR, LF>>)
      BY <1>2, <1>3
    <2>2. <<CR, LF>> \in Seq(Chars)
      BY LineEnd
    <2> HIDE DEF W, CR, LF
    <2> QED BY <1>2, <2>1, <2>2, ConcatProperties
  <1>11. /\ i <= Len(W) => (W \o <<CR, LF>>)[i] = W[i]
         /\ i = Len(W) + 1 => (W \o <<CR, LF>>)[i] = CR
         /\ i = Len(W) + 2 => (W \o <<CR, LF>>)[i] = LF
    <2>1. Len(W) \in Nat
      BY <1>2
    <2>2. <<CR, LF>>[1] = CR /\ <<CR, LF>>[2] = LF
      BY LineEnd
    <2> HIDE DEF W, CR, LF
    <2> QED BY <1>10, <2>1, <2>2
  <1> HIDE DEF q
  <1> QED BY <1>6, <1>7, <1>8, <1>9, <1>11

-----------------------------------------------------------------------------
(* What is read of a request, and what it is answered.                     *)

Gives(w, field) == Len(w) = 2 /\ w[1] = field

\* v is what the last of the first n lines of r that gives the field gives it.
LastGiven(r, n, field, v) ==
  \/ v = NoValue /\ \A j \in 1..n : ~Gives(r[j], field)
  \/ \E j \in 1..n : /\ Gives(r[j], field) /\ v = r[j][2]
                     /\ \A i \in j+1..n : ~Gives(r[i], field)

SomeGives(r, n, field) == \E j \in 1..n : Gives(r[j], field)

\* q is what the first n lines of r say.
Said(r, n, q) ==
  /\ q \in RequestType
  /\ LastGiven(r, n, "GET", q.path) /\ LastGiven(r, n, "Host", q.host)
  /\ q.get_flag <=> SomeGives(r, n, "GET")
  /\ q.host_flag <=> SomeGives(r, n, "Host")

\* The type of a request and of what it says after another line.
LEMMA ParsedRequest ==
  ASSUME NEW text \in Seq(Chars), NEW r \in RequestType
  PROVE  ParseLine(text, r) \in RequestType
  <1>1. CASE Len(text) # 2
    BY <1>1 DEF ParseLine
  <1>2. CASE Len(text) = 2
    <2>1. text[2] \in Chars
      BY <1>2
    <2>2. CASE text[1] = "GET"
      BY <1>2, <2>1, <2>2 DEF ParseLine, RequestType
    <2>3. CASE text[1] = "Host"
      BY <1>2, <2>1, <2>3 DEF ParseLine, RequestType
    <2>4. CASE text[1] # "GET" /\ text[1] # "Host"
      BY <1>2, <2>4 DEF ParseLine
    <2> QED BY <2>2, <2>3, <2>4
  <1> QED BY <1>1, <1>2

\* Another line, for one field.
LEMMA LastGivenNext ==
  ASSUME NEW r, NEW n \in Nat, NEW field, NEW v, LastGiven(r, n, field, v)
  PROVE  /\ ~Gives(r[n+1], field) =>
              /\ LastGiven(r, n+1, field, v)
              /\ SomeGives(r, n+1, field) <=> SomeGives(r, n, field)
         /\ Gives(r[n+1], field) =>
              LastGiven(r, n+1, field, r[n+1][2]) /\ SomeGives(r, n+1, field)
  <1>1. n + 1 \in 1..n+1 /\ \A j \in 1..n+1 : j \in 1..n \/ j = n + 1
    OBVIOUS
  <1>2. \A j \in 1..n : j \in 1..n+1
    OBVIOUS
  <1>3. ASSUME ~Gives(r[n+1], field) PROVE LastGiven(r, n+1, field, v)
    <2>1. CASE v = NoValue /\ \A j \in 1..n : ~Gives(r[j], field)
      BY <1>1, <1>3, <2>1 DEF LastGiven
    <2>2. ASSUME NEW j \in 1..n, Gives(r[j], field), v = r[j][2],
                 \A i \in j+1..n : ~Gives(r[i], field)
          PROVE  LastGiven(r, n+1, field, v)
      <3>1. \A i \in j+1..n+1 : i \in j+1..n \/ i = n + 1
        OBVIOUS
      <3>2. \A i \in j+1..n+1 : ~Gives(r[i], field)
        BY <1>3, <2>2, <3>1
      <3> QED BY <1>2, <2>2, <3>2 DEF LastGiven
    <2> QED BY <2>1, <2>2 DEF LastGiven
  <1>4. ASSUME ~Gives(r[n+1], field)
        PROVE  SomeGives(r, n+1, field) <=> SomeGives(r, n, field)
    BY <1>1, <1>2, <1>4 DEF SomeGives
  <1>5. ASSUME Gives(r[n+1], field)
        PROVE  LastGiven(r, n+1, field, r[n+1][2]) /\ SomeGives(r, n+1, field)
    <2>1. (n+1)+1..n+1 = {}
      OBVIOUS
    <2> QED BY <1>1, <1>5, <2>1 DEF LastGiven, SomeGives
  <1> QED BY <1>3, <1>4, <1>5

\* parse_line adds what the next line says.
LEMMA ParseNext ==
  ASSUME NEW r, NEW n \in Nat, NEW q, Said(r, n, q), r[n+1] \in Seq(Chars)
  PROVE  Said(r, n+1, ParseLine(r[n+1], q))
  <1> DEFINE w == r[n+1]
             p == ParseLine(w, q)
  <1>1. p \in RequestType
    BY ParsedRequest DEF Said
  <1>2. "GET" # "Host"
    OBVIOUS
  <1>3. LastGiven(r, n, "GET", q.path) /\ LastGiven(r, n, "Host", q.host)
    BY DEF Said
  <1>4. CASE Gives(w, "GET")
    <2>1. p = [q EXCEPT !.path = w[2], !.get_flag = TRUE]
      BY <1>4 DEF ParseLine, Gives
    <2>2. /\ p.path = w[2] /\ p.get_flag = TRUE
          /\ p.host = q.host /\ p.host_flag = q.host_flag
      <3> HIDE DEF p
      <3> QED BY <2>1 DEF Said, RequestType
    <2>3. ~Gives(w, "Host")
      BY <1>2, <1>4 DEF Gives
    <2>4. /\ LastGiven(r, n+1, "GET", w[2]) /\ SomeGives(r, n+1, "GET")
          /\ LastGiven(r, n+1, "Host", q.host)
          /\ SomeGives(r, n+1, "Host") <=> SomeGives(r, n, "Host")
      BY <1>3, <1>4, <2>3, LastGivenNext
    <2> HIDE DEF p, w
    <2>5. q.host_flag <=> SomeGives(r, n, "Host")
      BY DEF Said
    <2>6. Said(r, n+1, p)
      BY <1>1, <2>2, <2>4, <2>5 DEF Said
    <2> QED BY <2>6 DEF p, w
  <1>5. CASE Gives(w, "Host")
    <2>1. p = [q EXCEPT !.host = w[2], !.host_flag = TRUE]
      BY <1>2, <1>5 DEF ParseLine, Gives
    <2>2. /\ p.host = w[2] /\ p.host_flag = TRUE
          /\ p.path = q.path /\ p.get_flag = q.get_flag
      <3> HIDE DEF p
      <3> QED BY <2>1 DEF Said, RequestType
    <2>3. ~Gives(w, "GET")
      BY <1>2, <1>5 DEF Gives
    <2>4. /\ LastGiven(r, n+1, "Host", w[2]) /\ SomeGives(r, n+1, "Host")
          /\ LastGiven(r, n+1, "GET", q.path)
          /\ SomeGives(r, n+1, "GET") <=> SomeGives(r, n, "GET")
      BY <1>3, <1>5, <2>3, LastGivenNext
    <2> HIDE DEF p, w
    <2>5. q.get_flag <=> SomeGives(r, n, "GET")
      BY DEF Said
    <2>6. Said(r, n+1, p)
      BY <1>1, <2>2, <2>4, <2>5 DEF Said
    <2> QED BY <2>6 DEF p, w
  <1>6. CASE ~Gives(w, "GET") /\ ~Gives(w, "Host")
    <2>1. p = q
      BY <1>6 DEF ParseLine, Gives
    <2>2. /\ LastGiven(r, n+1, "GET", q.path) /\ LastGiven(r, n+1, "Host", q.host)
          /\ SomeGives(r, n+1, "GET") <=> SomeGives(r, n, "GET")
          /\ SomeGives(r, n+1, "Host") <=> SomeGives(r, n, "Host")
      BY <1>3, <1>6, LastGivenNext
    <2>3. /\ q.get_flag <=> SomeGives(r, n, "GET")
          /\ q.host_flag <=> SomeGives(r, n, "Host")
      BY DEF Said
    <2> HIDE DEF p, w
    <2>4. Said(r, n+1, p)
      BY <1>1, <2>1, <2>2, <2>3 DEF Said
    <2> QED BY <2>4 DEF p, w
  <1> QED BY <1>4, <1>5, <1>6

\* Before its first line a request has said nothing.
LEMMA NothingSaid ==
  ASSUME NEW r
  PROVE  Said(r, 0, NewRequest)
  <1>1. NewRequest \in RequestType
    BY DEF NewRequest, RequestType
  <1>2. 1..0 = {}
    OBVIOUS
  <1> QED BY <1>1, <1>2 DEF Said, LastGiven, SomeGives, NewRequest

\* The line that ends a request changes nothing.
LEMMA EmptyLineSaysNothing ==
  ASSUME NEW q
  PROVE  ParseLine(<<>>, q) = q
  BY DEF ParseLine

\* What all the lines have said is the value of the field.
LEMMA ValueIs ==
  ASSUME NEW r, NEW n \in Nat, Len(r) = n, NEW field, NEW v, LastGiven(r, n, field, v)
  PROVE  /\ Promise!Value(r, field) = v
         /\ Promise!Given(r, field) = {} <=> ~SomeGives(r, n, field)
         /\ \A l \in Promise!Given(r, field) : l \in 1..n
         /\ SomeGives(r, n, field) => \E l \in Promise!Given(r, field) : v = r[l][2]
  <1> DEFINE G == Promise!Given(r, field)
  <1>1. \A l : l \in G <=> l \in 1..n /\ Gives(r[l], field)
    BY DEF Promise!Given, Gives
  <1>2. Promise!Value(r, field) = IF G = {} THEN NoValue ELSE r[Promise!Max(G)][2]
    BY DEF Promise!Value, NoValue
  <1> HIDE DEF G
  <1>3. CASE v = NoValue /\ \A j \in 1..n : ~Gives(r[j], field)
    <2>1. G = {} /\ ~SomeGives(r, n, field)
      BY <1>1, <1>3 DEF SomeGives
    <2> QED BY <1>1, <1>2, <1>3, <2>1 DEF G
  <1>4. ASSUME NEW j \in 1..n, Gives(r[j], field), v = r[j][2],
               \A i \in j+1..n : ~Gives(r[i], field)
        PROVE  /\ Promise!Value(r, field) = v
               /\ Promise!Given(r, field) = {} <=> ~SomeGives(r, n, field)
               /\ \A l \in Promise!Given(r, field) : l \in 1..n
               /\ SomeGives(r, n, field) => \E l \in Promise!Given(r, field) : v = r[l][2]
    <2>1. j \in G /\ G # {} /\ SomeGives(r, n, field)
      BY <1>1, <1>4 DEF SomeGives
    <2>2. ASSUME NEW l \in G PROVE j >= l /\ l \in Nat
      <3>1. l \in 1..n /\ Gives(r[l], field)
        BY <1>1
      <3>2. ~(l \in j+1..n)
        BY <1>4, <3>1
      <3> QED BY <3>1, <3>2
    <2>3. Promise!Max(G) = j
      <3>1. \A x \in G : (\A y \in G : x >= y) => x = j
        BY <2>1, <2>2
      <3>2. \A y \in G : j >= y
        BY <2>2
      <3>3. (CHOOSE x \in G : \A y \in G : x >= y) = j
        BY <2>1, <3>1, <3>2
      <3> QED BY <3>3 DEF Promise!Max
    <2> QED BY <1>1, <1>2, <1>4, <2>1, <2>3 DEF G
  <1> QED BY <1>3, <1>4 DEF LastGiven

\* What read_request leaves of request r when it is complete.
Checked(r, q) ==
  /\ LastGiven(r, Len(r), "GET", q.path) /\ LastGiven(r, Len(r), "Host", q.host)
  /\ q.get_flag <=> /\ SomeGives(r, Len(r), "GET")
                    /\ ~(q.host \in DOMAIN Site /\ Site[q.host][q.path] = "outside")
  /\ q.host_flag <=> SomeGives(r, Len(r), "Host")

\* Paths that a request may ask for.
SiteCovers(r) ==
  \A l \in Promise!Given(r, "GET") : \A h \in DOMAIN Site :
    Site[h][r[l][2]] \in {"outside", "none", "folder", "file"}

\* The server answers the request as it should.
LEMMA AnswerIs ==
  ASSUME NEW r \in Request, Checked(r, req), SiteCovers(r)
  PROVE  /\ ReplyOf(Code) = Promise!Answer(r)
         /\ KeepConnection <=> ~Promise!IsError(Promise!Answer(r))
         /\ Code \in {200, 301, 404, 501}
  <1> DEFINE h == req.host
             p == req.path
             none == [code |-> 501, host |-> NoValue, path |-> NoValue]
             lost == [code |-> 404, host |-> NoValue, path |-> NoValue]
  <1>1. Len(r) \in Nat
    BY LinesTyped
  <1>2. /\ Promise!Value(r, "GET") = p /\ Promise!Value(r, "Host") = h
        /\ Promise!Given(r, "GET") = {} <=> ~SomeGives(r, Len(r), "GET")
        /\ Promise!Given(r, "Host") = {} <=> ~SomeGives(r, Len(r), "Host")
        /\ SomeGives(r, Len(r), "GET") => \E l \in Promise!Given(r, "GET") : p = r[l][2]
    BY <1>1, ValueIs DEF Checked
  <1>3. Promise!ErrorReply(501) = none /\ Promise!ErrorReply(404) = lost
    BY DEF Promise!ErrorReply, NoValue
  <1>4. Promise!Answer(r) =
          IF Promise!Given(r, "Host") = {} \/ Promise!Given(r, "GET") = {} THEN none
          ELSE IF h \notin DOMAIN Site \/ Site[h][p] = "none" THEN lost
          ELSE IF Site[h][p] = "outside" THEN none
          ELSE [code |-> IF Site[h][p] = "folder" THEN 301 ELSE 200, host |-> h, path |-> p]
    BY <1>2, <1>3 DEF Promise!Answer
  <1>5. ReplyOf(Code) = IF Code \in {200, 301} THEN [code |-> Code, host |-> h, path |-> p]
                        ELSE [code |-> Code, host |-> NoValue, path |-> NoValue]
    BY DEF ReplyOf, KeepConnection
  <1>6. CASE Promise!Given(r, "Host") = {} \/ Promise!Given(r, "GET") = {}
    <2>1. Code = 501
      BY <1>2, <1>6 DEF Code, Checked
    <2> QED BY <1>4, <1>5, <1>6, <2>1 DEF KeepConnection, Promise!IsError
  <1>7. CASE /\ Promise!Given(r, "Host") # {} /\ Promise!Given(r, "GET") # {}
             /\ h \notin DOMAIN Site
    <2>1. req.get_flag /\ req.host_flag
      BY <1>2, <1>7 DEF Checked
    <2>2. Code = 404
      BY <1>7, <2>1 DEF Code
    <2> QED BY <1>4, <1>5, <1>7, <2>2 DEF KeepConnection, Promise!IsError
  <1>8. CASE /\ Promise!Given(r, "Host") # {} /\ Promise!Given(r, "GET") # {}
             /\ h \in DOMAIN Site
    <2>1. PICK l \in Promise!Given(r, "GET") : p = r[l][2]
      BY <1>2, <1>8
    <2>2. Site[h][p] \in {"outside", "none", "folder", "file"}
      BY <1>8, <2>1 DEF SiteCovers
    <2>3. CASE Site[h][p] = "outside"
      <3>1. ~req.get_flag
        BY <1>8, <2>3 DEF Checked
      <3>2. Code = 501
        BY <3>1 DEF Code
      <3>3. Promise!Answer(r) = none
        BY <1>4, <1>8, <2>3
      <3> QED BY <1>5, <3>2, <3>3 DEF KeepConnection, Promise!IsError
    <2>4. CASE Site[h][p] # "outside"
      <3>1. req.get_flag /\ req.host_flag
        BY <1>2, <1>8, <2>4 DEF Checked
      <3>2. CASE Site[h][p] = "none"
        <4>1. Code = 404
          BY <3>1, <3>2 DEF Code
        <4> QED BY <1>4, <1>5, <1>8, <3>2, <4>1 DEF KeepConnection, Promise!IsError
      <3>3. CASE Site[h][p] # "none"
        <4>1. Code = IF Site[h][p] = "folder" THEN 301 ELSE 200
          BY <1>8, <3>1, <3>3 DEF Code
        <4>2. Promise!Answer(r) = [code |-> Code, host |-> h, path |-> p]
          BY <1>4, <1>8, <2>4, <3>3, <4>1
        <4> HIDE DEF h, p
        <4> QED BY <1>5, <4>1, <4>2 DEF KeepConnection, Promise!IsError
      <3> QED BY <3>2, <3>3
    <2> QED BY <2>3, <2>4
  <1> QED BY <1>6, <1>7, <1>8

-----------------------------------------------------------------------------
(* What is due.                                                            *)

\* A set of numbers from 1 to n that has, with a number, those before it is
\* the numbers up to some number.
LEMMA InitialSegment ==
  ASSUME NEW n \in Nat, NEW S \in SUBSET (1..n),
         \A k \in S : \A j \in 1..k : j \in S
  PROVE  \E d \in 0..n : S = 1..d
  <1> DEFINE T == (1..n+1) \ S
  <1>1. T \in SUBSET Nat /\ T # {}
    <2>1. n + 1 \in 1..n+1 /\ n + 1 \notin S
      OBVIOUS
    <2> QED BY <2>1
  <1>2. PICK m \in T : \A k \in T : m <= k
    <2> HIDE DEF T
    <2> QED BY <1>1, LeastExists
  <1>3. m \in 1..n+1 /\ m \notin S
    BY <1>2
  <1>4. ASSUME NEW j \in S PROVE j \in 1..m-1
    <2>1. ~(m <= j)
      <3>1. m <= j => m \in 1..j
        BY <1>3, <1>4
      <3> QED BY <1>3, <1>4, <3>1
    <2> QED BY <1>3, <1>4, <2>1
  <1>5. ASSUME NEW j \in 1..m-1 PROVE j \in S
    <2>1. j \in 1..n+1 /\ ~(m <= j)
      BY <1>3, <1>5
    <2> QED BY <1>2, <2>1
  <1>6. S = 1..m-1
    BY <1>4, <1>5
  <1>7. m - 1 \in 0..n
    BY <1>3
  <1> QED BY <1>6, <1>7

\* Requests to whose answers nothing stands in the way: those before them and
\* they themselves have been sent, have lines that fit, and the answers before
\* theirs are no errors.
Clear(c, m) ==
  /\ m \in 0..Len(script[c])
  /\ Mark(RequestTexts(script[c]), m) <= sent[c]
  /\ \A j \in 1..m : ~Promise!TooLong(script[c][j])
  /\ \A j \in 1..m-1 : ~Promise!IsError(Promise!Answer(script[c][j]))

\* After the first m requests of c, no other is due.
Last(c, m) ==
  \/ m = Len(script[c])
  \/ m > 0 /\ Promise!IsError(Promise!Answer(script[c][m]))
  \/ Promise!TooLong(script[c][m+1])
  \/ sent[c] < Mark(RequestTexts(script[c]), m+1)

\* A later request ends later.
LEMMA MarksGrow ==
  ASSUME NEW s \in Seq(Request), NEW k \in 0..Len(s), NEW m \in k..Len(s)
  PROVE  /\ Mark(RequestTexts(s), k) \in Nat /\ Mark(RequestTexts(s), m) \in Nat
         /\ Mark(RequestTexts(s), k) <= Mark(RequestTexts(s), m)
  <1> DEFINE t == RequestTexts(s)
  <1>1. t \in Seq(Seq(Chars)) /\ Len(t) = Len(s)
    BY RequestTextsTyped
  <1>2. k \in 0..Len(t) /\ m \in 0..Len(t)
    BY <1>1
  <1>3. Mark(t, k) \in Nat /\ Mark(t, m) \in Nat
    BY <1>1, <1>2, UptoTyped
  <1>4. CASE k = 0
    BY <1>1, <1>3, <1>4, UptoEnds
  <1>5. CASE k # 0
    <2>1. k \in 1..Len(t) /\ m \in k..Len(t)
      BY <1>1, <1>5
    <2>2. Mark(t, k) <= Mark(t, m)
      <3> HIDE DEF t
      <3> QED BY <1>1, <2>1, UptoHolds
    <2> QED BY <1>3, <2>2
  <1> QED BY <1>4, <1>5

\* The replies due are the answers to the requests up to some request, the last that is clear.
LEMMA DueIs ==
  ASSUME NEW c, script[c] \in Seq(Request), sent[c] \in Nat
  PROVE  \E d \in 0..Len(script[c]) :
           /\ Promise!Due(c) = [j \in 1..d |-> Promise!Answer(script[c][j])]
           /\ \A m : Clear(c, m) => m <= d
           /\ Clear(c, d)
  <1> DEFINE s == script[c]
             t == RequestTexts(s)
             due == {k \in 1..Len(s) : Clear(c, k)}
  <1>1. Len(s) \in Nat
    OBVIOUS
  <1>2. Promise!Due(c) = [k \in due |-> Promise!Answer(s[k])]
    <2> DEFINE D == {k \in 1..Len(s) :
                       /\ Len(Promise!Text(SubSeq(s, 1, k))) <= sent[c]
                       /\ \A j \in 1..k : ~Promise!TooLong(s[j])
                       /\ \A j \in 1..k-1 : ~Promise!IsError(Promise!Answer(s[j]))}
    <2>1. Promise!Due(c) = [k \in D |-> Promise!Answer(s[k])]
      BY DEF Promise!Due
    <2>2. ASSUME NEW k \in 1..Len(s)
          PROVE  k \in 0..Len(s) /\ Len(Promise!Text(SubSeq(s, 1, k))) = Mark(t, k)
      <3>1. k \in 0..Len(s)
        BY <1>1
      <3> QED BY <3>1, TextIs DEF Mark
    <2>3. D = due
      <3>1. ASSUME NEW k \in 1..Len(s) PROVE k \in D <=> Clear(c, k)
        BY <2>2 DEF Clear
      <3> QED BY <3>1
    <2> HIDE DEF D, due
    <2> QED BY <2>1, <2>3
  <1>3. ASSUME NEW k \in due, NEW j \in 1..k PROVE j \in due
    <2>1. k \in 1..Len(s) /\ Clear(c, k)
      BY <1>3
    <2>2. j \in 1..Len(s) /\ j \in 0..Len(s) /\ k \in j..Len(s) /\ j \in Nat /\ k \in Nat
      BY <1>1, <2>1
    <2>3. Mark(t, j) <= Mark(t, k) /\ Mark(t, j) \in Nat /\ Mark(t, k) \in Nat
      BY <2>2, MarksGrow
    <2>4. Mark(t, k) <= sent[c]
      BY <2>1 DEF Clear
    <2>5. Mark(t, j) <= sent[c]
      <3> HIDE DEF t
      <3> QED BY <2>3, <2>4
    <2>6. \A i \in 1..j : i \in 1..k
      BY <2>2
    <2>7. \A i \in 1..j-1 : i \in 1..k-1
      BY <2>2
    <2>8. Clear(c, j)
      <3>1. \A i \in 1..j : ~Promise!TooLong(s[i])
        BY <2>1, <2>6 DEF Clear
      <3>2. \A i \in 1..j-1 : ~Promise!IsError(Promise!Answer(s[i]))
        BY <2>1, <2>7 DEF Clear
      <3> QED BY <2>2, <2>5, <3>1, <3>2 DEF Clear
    <2> QED BY <2>2, <2>8
  <1>4. PICK d \in 0..Len(s) : due = 1..d
    <2>1. due \in SUBSET (1..Len(s))
      OBVIOUS
    <2> HIDE DEF due
    <2> QED BY <1>1, <1>3, <2>1, InitialSegment
  <1>5. Promise!Due(c) = [j \in 1..d |-> Promise!Answer(s[j])]
    <2> HIDE DEF due
    <2> QED BY <1>2, <1>4
  <1>6. ASSUME NEW m, Clear(c, m) PROVE m <= d
    <2>1. m \in 0..Len(s)
      BY <1>6 DEF Clear
    <2>2. CASE m = 0
      BY <2>2
    <2>3. CASE m # 0
      <3>1. m \in 1..Len(s)
        BY <1>1, <2>1, <2>3
      <3>2. m \in due
        BY <1>6, <3>1
      <3>3. m \in 1..d
        <4> HIDE DEF due
        <4> QED BY <1>4, <3>2
      <3> QED BY <3>3
    <2> QED BY <2>2, <2>3
  <1>7. Clear(c, d)
    <2>1. CASE d = 0
      <3>1. Mark(t, 0) = 0
        BY RequestTextsTyped, UptoEnds
      <3>2. 1..0 = {} /\ 1..0-1 = {} /\ 0 \in 0..Len(s) /\ 0 <= sent[c]
        BY <1>1
      <3> QED BY <2>1, <3>1, <3>2 DEF Clear
    <2>2. CASE d # 0
      <3>1. d \in 1..d
        BY <1>4, <2>2
      <3>2. d \in due
        <4> HIDE DEF due
        <4> QED BY <1>4, <3>1
      <3> QED BY <3>2
    <2> QED BY <2>1, <2>2
  <1> HIDE DEF due
  <1> QED BY <1>5, <1>6, <1>7

\* The first answers that are due, and all of them.
LEMMA DueAtLeast ==
  ASSUME NEW c, script[c] \in Seq(Request), sent[c] \in Nat, NEW m, Clear(c, m)
  PROVE  /\ m \in Nat /\ Len(Promise!Due(c)) \in Nat
         /\ m <= Len(Promise!Due(c))
         /\ \A n \in 1..m : SubSeq(Promise!Due(c), 1, n)
                              = [j \in 1..n |-> Promise!Answer(script[c][j])]
  <1>1. PICK d \in 0..Len(script[c]) :
           /\ Promise!Due(c) = [j \in 1..d |-> Promise!Answer(script[c][j])]
           /\ m <= d
    BY DueIs
  <1> DEFINE D == Promise!Due(c)
             A(j) == Promise!Answer(script[c][j])
  <1>2. m \in Nat /\ d \in Nat /\ m <= d
    BY <1>1 DEF Clear
  <1>3. D = [j \in 1..d |-> A(j)]
    BY <1>1
  <1>4. Len(D) = d
    <2> HIDE DEF D, A
    <2> QED BY <1>2, <1>3
  <1>5. ASSUME NEW n \in 1..m PROVE SubSeq(D, 1, n) = [j \in 1..n |-> A(j)]
    <2> HIDE DEF A, D
    <2>1. \A j \in 1..n : j \in 1..d
      BY <1>2
    <2>2. SubSeq(D, 1, n) = [j \in 1..n |-> D[j]]
      BY <1>2, <1>3
    <2>3. \A j \in 1..n : D[j] = A(j)
      BY <1>3, <2>1
    <2> QED BY <2>2, <2>3
  <1> QED BY <1>2, <1>4, <1>5

\* If no request after the first m is due an answer, they are the ones.
LEMMA DueExactly ==
  ASSUME NEW c, script[c] \in Seq(Request), sent[c] \in Nat, NEW m,
         Clear(c, m), Last(c, m)
  PROVE  Promise!Due(c) = [j \in 1..m |-> Promise!Answer(script[c][j])]
  <1>1. PICK d \in 0..Len(script[c]) :
           /\ Promise!Due(c) = [j \in 1..d |-> Promise!Answer(script[c][j])]
           /\ m <= d /\ Clear(c, d)
    BY DueIs
  <1>2. m \in Nat /\ d \in Nat /\ Len(script[c]) \in Nat /\ m \in 0..Len(script[c])
    BY <1>1 DEF Clear
  <1>3. ASSUME m < d PROVE FALSE
    <2>1. m + 1 \in 1..d /\ m + 1 \in 0..Len(script[c]) /\ d \in m+1..Len(script[c])
      BY <1>2, <1>3
    <2>2. CASE m = Len(script[c])
      BY <1>2, <1>3, <2>2
    <2>3. CASE m > 0 /\ Promise!IsError(Promise!Answer(script[c][m]))
      <3>1. m \in 1..d-1
        BY <1>2, <1>3, <2>3
      <3> QED BY <1>1, <2>3, <3>1 DEF Clear
    <2>4. CASE Promise!TooLong(script[c][m+1])
      BY <1>1, <2>1, <2>4 DEF Clear
    <2>5. CASE sent[c] < Mark(RequestTexts(script[c]), m+1)
      <3>1. PICK a \in Nat : a = Mark(RequestTexts(script[c]), m+1)
        BY <2>1, MarksGrow
      <3>2. PICK b \in Nat : b = Mark(RequestTexts(script[c]), d)
        BY <2>1, MarksGrow
      <3>3. a <= b
        BY <2>1, <3>1, <3>2, MarksGrow
      <3>4. b <= sent[c]
        BY <1>1, <3>2 DEF Clear
      <3> QED BY <2>5, <3>1, <3>3, <3>4
    <2> QED BY <2>2, <2>3, <2>4, <2>5 DEF Last
  <1>4. m = d
    BY <1>1, <1>2, <1>3
  <1> QED BY <1>1, <1>4

-----------------------------------------------------------------------------
(* Types and bounds.                                                       *)

\* What a client is going to send.
LEMMA ScriptTyped ==
  ASSUME ScriptsKept, NEW c \in Clients
  PROVE  /\ script[c] \in Seq(Request) /\ Len(script[c]) \in Nat
         /\ Promise!Text(script[c]) \in Seq(Chars)
         /\ Len(Promise!Text(script[c])) \in Nat
         /\ \A k \in 1..Len(script[c]) : script[c][k] \in Request /\ SiteCovers(script[c][k])
  <1>1. script[c] \in Scripts[c] /\ script[c] \in Seq(Request)
    BY ScriptAssumption DEF ScriptsKept
  <1>2. Promise!Text(script[c]) \in Seq(Chars)
    BY <1>1, TextIs
  <1>3. \A k \in 1..Len(script[c]) : script[c][k] \in Request
    BY <1>1
  <1>4. \A k \in 1..Len(script[c]) : SiteCovers(script[c][k])
    BY <1>1, SiteAssumption DEF SiteCovers
  <1> QED BY <1>1, <1>2, <1>3, <1>4

LEMMA NewRequestTyped == NewRequest \in RequestType
  BY DEF NewRequest, RequestType

\* What a connection starts with, and what is reset after it.
LEMMA EmptyTyped ==
  /\ <<>> \in Seq(Chars) /\ Len(<<>>) = 0
  /\ Len(<<>>) <= BuffSize /\ Len(<<>>) + 1 <= BuffSize
  /\ Timeout \in 0..Timeout /\ 0 \in 0..Timeout /\ 0 \in 0..4
  /\ NewRequest \in RequestType
  BY HttpAssumption, NewRequestTyped

\* The types at the start.
LEMMA InitIInv == Init => IInv
  <1> SUFFICES ASSUME Init
               PROVE  IInv
    OBVIOUS
  <1>1. ScriptsKept
    BY DEF Init, ScriptsKept
  <1>2. TypeOK
    BY EmptyTyped, HttpAssumption DEF Init, TypeOK
  <1> QED BY <1>1, <1>2 DEF IInv

\* The types after each action.
LEMMA AcceptTyped ==
  ASSUME TypeOK, Accept
  PROVE  TypeOK'
  <1>1. Head(queue) \in Clients /\ Tail(queue) \in Seq(Clients)
    BY DEF TypeOK, Accept
  <1>2. /\ buffer' \in Seq(Chars) /\ Len(buffer') <= BuffSize
        /\ line' \in Seq(Chars) /\ Len(line') + 1 <= BuffSize
        /\ newlines' \in 0..4 /\ req' \in RequestType
        /\ tv' \in 0..Timeout /\ waited' \in 0..Timeout
    BY EmptyTyped DEF Accept
  <1>3. /\ pc' = "read" /\ conn' \in Clients /\ queue' \in Seq(Clients)
    BY <1>1 DEF Accept
  <1> QED BY <1>2, <1>3 DEF TypeOK, Accept

LEMMA ReadCharTyped ==
  ASSUME TypeOK, ReadChar
  PROVE  TypeOK'
  <1>1. /\ Head(buffer) \in Chars /\ Tail(buffer) \in Seq(Chars)
        /\ Len(Tail(buffer)) <= BuffSize
    BY HttpAssumption DEF TypeOK, ReadChar
  <1>2. newlines' \in 0..4
    BY DEF TypeOK, ReadChar, Reading
  <1>3. line' \in Seq(Chars) /\ Len(line') + 1 <= BuffSize
    <2>1. line \in Seq(Chars) /\ Len(line) + 1 < BuffSize /\ Len(line) \in Nat
      BY HttpAssumption DEF TypeOK, ReadChar, Reading
    <2>2. line' \in {<<>>, line, Append(line, Head(buffer))}
      BY DEF ReadChar
    <2>3. CASE line' = Append(line, Head(buffer))
      BY <1>1, <2>1, <2>3, HttpAssumption
    <2>4. CASE line' = <<>>
      BY <2>4, EmptyTyped
    <2>5. CASE line' = line
      BY <2>1, <2>5, HttpAssumption
    <2> QED BY <2>2, <2>3, <2>4, <2>5
  <1>4. req' \in RequestType
    BY ParsedRequest DEF TypeOK, ReadChar
  <1> QED BY <1>1, <1>2, <1>3, <1>4
          DEF TypeOK, ReadChar, clientVars, timerVars

LEMMA FillTyped ==
  ASSUME TypeOK, Fill
  PROVE  TypeOK'
  <1>1. conn \in Clients /\ socket[conn] \in Seq(Chars)
    BY DEF TypeOK, Fill, NeedsInput, Reading
  <1> DEFINE n == IF Len(socket[conn]) < BuffSize THEN Len(socket[conn]) ELSE BuffSize
  <1>2. n \in Nat /\ n <= BuffSize /\ n <= Len(socket[conn])
    BY <1>1, HttpAssumption
  <1>3. /\ SubSeq(socket[conn], 1, n) \in Seq(Chars)
        /\ Len(SubSeq(socket[conn], 1, n)) = n
        /\ SubSeq(socket[conn], n + 1, Len(socket[conn])) \in Seq(Chars)
    BY <1>1, <1>2
  <1>4. /\ buffer' = SubSeq(socket[conn], 1, n)
        /\ socket' = [socket EXCEPT ![conn] = SubSeq(@, n + 1, Len(@))]
    BY DEF Fill
  <1>5. buffer' \in Seq(Chars) /\ Len(buffer') <= BuffSize
    BY <1>2, <1>3, <1>4
  <1>6. socket' \in [Clients -> Seq(Chars)]
    BY <1>3, <1>4 DEF TypeOK
  <1> QED BY <1>5, <1>6 DEF TypeOK, Fill, timerVars

\* The actions that only go on to another part of the loop.
LEMMA GoOnTyped ==
  ASSUME TypeOK, TooLong \/ EndOfInput \/ TimeOut \/ Fail
  PROVE  TypeOK'
  <1>1. CASE TooLong
    BY <1>1 DEF TypeOK, TooLong, requestVars, clientVars, timerVars
  <1>2. CASE EndOfInput
    BY <1>2 DEF TypeOK, EndOfInput, NeedsInput, Reading, requestVars, clientVars,
                timerVars
  <1>3. CASE TimeOut
    BY <1>3 DEF TypeOK, TimeOut, Idle, NeedsInput, Reading, requestVars, clientVars
  <1>4. CASE Fail
    BY <1>4 DEF TypeOK, Fail, requestVars, clientVars, timerVars
  <1> QED BY <1>1, <1>2, <1>3, <1>4

LEMMA EndRequestTyped ==
  ASSUME TypeOK, EndRequest
  PROVE  TypeOK'
  <1>1. req' \in RequestType
    BY DEF TypeOK, EndRequest, RequestType
  <1> QED BY <1>1 DEF TypeOK, EndRequest, clientVars, timerVars

LEMMA AfterReplyTyped ==
  ASSUME TypeOK, pc = "reply", AfterReply
  PROVE  TypeOK'
  <1>1. conn \in Clients
    BY DEF TypeOK
  <1>2. CASE pc' = "read"
    BY <1>1, <1>2, EmptyTyped DEF TypeOK, AfterReply, clientVars
  <1>3. CASE pc' = "close"
    BY <1>1, <1>3 DEF TypeOK, AfterReply, requestVars, clientVars, timerVars
  <1> QED BY <1>2, <1>3 DEF AfterReply

LEMMA SendTyped ==
  ASSUME TypeOK, SendReply \/ SendFails
  PROVE  TypeOK'
  <1>1. CASE AfterReply
    BY <1>1, AfterReplyTyped DEF SendReply, SendFails
  <1>2. CASE /\ pc' = "exited"
             /\ UNCHANGED <<conn, requestVars, clientVars, timerVars, served>>
    BY <1>2 DEF TypeOK, requestVars, clientVars, timerVars
  <1> QED BY <1>1, <1>2 DEF SendReply, SendFails

LEMMA CloseTyped ==
  ASSUME TypeOK, Close
  PROVE  TypeOK'
  <1>1. conn \in Clients
    BY DEF TypeOK, Close
  <1>2. socket' \in [Clients -> Seq(Chars)]
    BY EmptyTyped DEF TypeOK, Close
  <1> QED BY <1>1, <1>2, EmptyTyped DEF TypeOK, Close

LEMMA ClientTyped ==
  ASSUME IInv, NEW c \in Clients, Client(c)
  PROVE  TypeOK'
  <1>1. CASE Connect(c)
    <2>1. queue' \in Seq(Clients)
      BY <1>1 DEF IInv, TypeOK, Connect
    <2> QED BY <1>1, <2>1
            DEF IInv, TypeOK, Connect, serverVars, requestVars, timerVars
  <1>2. CASE Send(c)
    <2>1. Promise!Text(script[c]) \in Seq(Chars)
      BY ScriptTyped DEF IInv
    <2>2. /\ sent' \in [Clients -> Nat] /\ sent'[c] = sent[c] + 1
          /\ sent'[c] \in 1..Len(Promise!Text(script[c]))
      BY <1>2, <2>1 DEF IInv, TypeOK, Send
    <2>3. Promise!Text(script[c])[sent'[c]] \in Chars
      BY <2>1, <2>2
    <2>4. socket' \in [Clients -> Seq(Chars)]
      BY <1>2, <2>3 DEF IInv, TypeOK, Send
    <2> QED BY <1>2, <2>2, <2>4
            DEF IInv, TypeOK, Send, serverVars, requestVars, timerVars
  <1>3. CASE Finish(c)
    BY <1>3 DEF IInv, TypeOK, Finish, serverVars, requestVars, timerVars
  <1>4. CASE Reset(c)
    <2>1. socket' \in [Clients -> Seq(Chars)]
      BY <1>4, EmptyTyped DEF IInv, TypeOK, Reset
    <2> QED BY <1>4, <2>1
            DEF IInv, TypeOK, Reset, serverVars, requestVars, timerVars
  <1> QED BY <1>1, <1>2, <1>3, <1>4 DEF Client

\* Nobody changes a script.
LEMMA StepKeepsScripts ==
  ASSUME ScriptsKept, [Next]_vars
  PROVE  ScriptsKept'
  <1>1. script' = script
    <2>1. CASE Server
      BY <2>1 DEF Server, Accept, ReadChar, TooLong, Fill, EndOfInput, TimeOut,
                  EndRequest, SendReply, SendFails, AfterReply, Close, clientVars
    <2>2. CASE Fail \/ Tick
      BY <2>2 DEF Fail, Tick, clientVars
    <2>3. ASSUME NEW c \in Clients, Client(c)
          PROVE  script' = script
      BY <2>3 DEF Client, Connect, Send, Finish, Reset
    <2>4. CASE UNCHANGED vars
      BY <2>4 DEF vars, clientVars
    <2> QED BY <2>1, <2>2, <2>3, <2>4 DEF Next
  <1> QED BY <1>1 DEF ScriptsKept

\* Every step keeps the types.
LEMMA StepTyped ==
  ASSUME IInv, TimerHeld, [Next]_vars
  PROVE  TypeOK'
  <1> USE DEF IInv
  <1>1. CASE Server
    BY <1>1, AcceptTyped, ReadCharTyped, GoOnTyped, FillTyped, EndRequestTyped,
       SendTyped, CloseTyped DEF Server
  <1>2. CASE Fail
    BY <1>2, GoOnTyped
  <1>3. CASE Tick
    <2>1. tv' \in 0..Timeout /\ waited' \in 0..Timeout
      BY <1>3, HttpAssumption DEF Tick, TimerHeld
    <2> QED BY <1>3, <2>1 DEF Tick, TypeOK, requestVars, clientVars
  <1>4. ASSUME NEW c \in Clients, Client(c)
        PROVE  TypeOK'
    BY <1>4, ClientTyped
  <1>5. CASE UNCHANGED vars
    BY <1>5 DEF vars, requestVars, clientVars, timerVars, TypeOK
  <1> QED BY <1>1, <1>2, <1>3, <1>4, <1>5 DEF Next

\* Every variable keeps its type, recv stays within the buffer and a line
\* within its array, for any clients, requests, site, buffer size and timeout.
THEOREM TypeCorrect == Spec => []TypeOK
  <1>1. Init => IInv /\ TimerHeld
    BY InitIInv, InitTimer
  <1>2. IInv /\ TimerHeld /\ [Next]_vars => (IInv /\ TimerHeld)'
    BY StepTyped, StepKeepsScripts, StepKeepsTimer DEF IInv
  <1>3. IInv => TypeOK
    BY DEF IInv
  <1> QED BY <1>1, <1>2, <1>3, PTL DEF Spec

-----------------------------------------------------------------------------
(* Where the server is in the text of its client.                          *)

Reply == [code : {200, 301, 404, 501}, host : Chars \cup {NoValue},
          path : Chars \cup {NoValue}]

\* The requests that c has been answered, and the one after them.
Done(c) == Len(replies[c])
Current(c) == script[c][Done(c) + 1]

\* How much of its text the server has read.
Taken(c) == sent[c] - Len(buffer) - Len(socket[c])

\* What c has sent is the beginning of its text, and what is in its socket is
\* the end of that.
InSocket(c) ==
  /\ sent[c] <= Len(Promise!Text(script[c]))
  /\ Len(socket[c]) <= sent[c]
  /\ \A i \in 1..Len(socket[c]) :
       socket[c][i] = Promise!Text(script[c])[sent[c] - Len(socket[c]) + i]

\* What is in the buffer comes right before that.
InBuffer(c) ==
  /\ Taken(c) >= 0
  /\ \A i \in 1..Len(buffer) : buffer[i] = Promise!Text(script[c])[Taken(c) + i]

\* c has got the answers to its first requests, and the last of them was no
\* error.
Answered(c) ==
  /\ Clear(c, Done(c))
  /\ \A j \in 1..Done(c) : replies[c][j] = Promise!Answer(script[c][j])

NoError(c) == Done(c) > 0 => ~Promise!IsError(Promise!Answer(script[c][Done(c)]))

\* There is nothing left to read.
AtNoRequest(c) ==
  /\ Done(c) = Len(script[c])
  /\ Taken(c) = Len(Promise!Text(script[c]))
  /\ line = <<>> /\ newlines = 0

\* How many characters of line ends in a row there are up to the one at i of
\* the line l, which is n characters long.
EndsUpTo(l, i, n) ==
  IF i = n + 1 THEN IF n = 0 THEN 3 ELSE 1
  ELSE IF i > 0 \/ l = 1 THEN 0 ELSE 2

Fit(r, n) == \A j \in 1..n : Len(r[j]) < BuffSize - 1

\* The server has read i characters of line l of the current request.
AtPlace(c, l, i) ==
  LET r == Current(c)
      w == Lines(r)[l]
  IN  /\ Taken(c) = Place(script[c], Done(c) + 1, l, i)
      /\ i <= Len(w) => line = SubSeq(w, 1, i)
      /\ i = Len(w) + 1 => line = w
      /\ newlines = EndsUpTo(l, i, Len(w))
      /\ Said(r, l - 1, req)
      /\ Fit(r, l - 1)

AtSomePlace(c) ==
  /\ Done(c) < Len(script[c])
  /\ \E l \in 1..Len(Current(c))+1 : \E i \in 0..Len(Lines(Current(c))[l])+1 :
       AtPlace(c, l, i)

\* It has read all of it.
AtEnd(c) ==
  /\ Done(c) < Len(script[c])
  /\ Taken(c) = Mark(RequestTexts(script[c]), Done(c) + 1)
  /\ line = <<>> /\ newlines = 4
  /\ Said(Current(c), Len(Current(c)), req)
  /\ Fit(Current(c), Len(Current(c)))

AtReply(c) ==
  /\ Done(c) < Len(script[c])
  /\ Taken(c) = Mark(RequestTexts(script[c]), Done(c) + 1)
  /\ Checked(Current(c), req)
  /\ ~Promise!TooLong(Current(c))

\* c will not be due another answer.
Settled(c) ==
  /\ Answered(c)
  /\ \/ Done(c) = Len(script[c])
     \/ Done(c) > 0 /\ Promise!IsError(Promise!Answer(script[c][Done(c)]))
     \/ Promise!TooLong(Current(c))
     \/ c \in finished /\ sent[c] < Mark(RequestTexts(script[c]), Done(c) + 1)

\* The invariant, by parts.
RepliesTyped == replies \in [Clients -> Seq(Reply)]

QueueFresh ==
  /\ \A i, j \in 1..Len(queue) : queue[i] = queue[j] => i = j
  /\ \A i \in 1..Len(queue) : queue[i] \notin served /\ queue[i] # conn
  /\ pc = "accept" => conn = NoClient
  /\ conn \notin served

SocketsHold == \A c \in Clients \ gone : InSocket(c)

OthersWait ==
  \A c \in Clients \ served :
    c # conn => replies[c] = <<>> /\ (c \notin gone => Len(socket[c]) = sent[c])

\* The client that the server talks to.
Served(c) ==
  /\ pc \in {"read", "reply"} => Answered(c) /\ NoError(c) /\ InBuffer(c)
  /\ pc = "read" => AtNoRequest(c) \/ AtSomePlace(c) \/ AtEnd(c)
  /\ pc = "reply" => AtReply(c)

ServedRight == \A c \in Clients \ gone : c = conn => Served(c)

ClosedRight ==
  \A c \in Clients \ (gone \cup timedOut) :
    c \in served \/ (pc = "close" /\ c = conn) => Settled(c)

DueInv ==
  /\ RepliesTyped /\ QueueFresh /\ SocketsHold /\ OthersWait
  /\ ServedRight /\ ClosedRight

-----------------------------------------------------------------------------
\* What has been sent, received and read can be counted.
LEMMA CountsTyped ==
  ASSUME TypeOK, NEW c \in Clients
  PROVE  /\ sent[c] \in Nat /\ socket[c] \in Seq(Chars) /\ Len(socket[c]) \in Nat
         /\ buffer \in Seq(Chars) /\ Len(buffer) \in Nat /\ Taken(c) \in Int
  <1>1. sent[c] \in Nat /\ socket[c] \in Seq(Chars) /\ buffer \in Seq(Chars)
    BY DEF TypeOK
  <1> QED BY <1>1 DEF Taken

(* What stays as it is.                                                    *)

\* What has been answered stays so while the client sends on.
LEMMA AnsweredKept ==
  ASSUME NEW c, Answered(c), script' = script, replies'[c] = replies[c],
         script[c] \in Seq(Request),
         sent[c] \in Nat, sent'[c] \in Nat, sent[c] <= sent'[c]
  PROVE  Answered(c)'
  <1>1. Done(c)' = Done(c)
    BY DEF Done
  <1>2. Clear(c, Done(c))'
    <2>1. PICK m : m = Done(c)
      OBVIOUS
    <2>2. Clear(c, m)
      BY <2>1 DEF Answered
    <2>3. m \in 0..Len(script[c]) /\ Len(script[c]) \in m..Len(script[c])
      BY <2>2 DEF Clear
    <2>4. PICK a \in Nat : a = Mark(RequestTexts(script[c]), m)
      BY <2>3, MarksGrow
    <2>5. a <= sent'[c]
      <3>1. a <= sent[c]
        BY <2>2, <2>4 DEF Clear
      <3> QED BY <3>1
    <2> QED BY <1>1, <2>1, <2>2, <2>4, <2>5 DEF Clear
  <1> QED BY <1>1, <1>2 DEF Answered

\* The server stays where it is if it reads nothing and answers nothing.
LEMMA PlacesKept ==
  ASSUME NEW c, Taken(c)' = Taken(c), Done(c)' = Done(c), script' = script,
         line' = line, newlines' = newlines, req' = req
  PROVE  /\ AtNoRequest(c) => AtNoRequest(c)'
         /\ AtSomePlace(c) => AtSomePlace(c)'
         /\ AtEnd(c) => AtEnd(c)'
         /\ AtReply(c) => AtReply(c)'
  <1>1. Current(c)' = Current(c)
    BY DEF Current
  <1>2. ASSUME NEW l, NEW i, AtPlace(c, l, i) PROVE AtPlace(c, l, i)'
    BY <1>1, <1>2 DEF AtPlace
  <1>3. AtSomePlace(c) => AtSomePlace(c)'
    BY <1>1, <1>2 DEF AtSomePlace
  <1>4. AtNoRequest(c) => AtNoRequest(c)'
    BY DEF AtNoRequest
  <1>5. AtEnd(c) => AtEnd(c)'
    BY <1>1 DEF AtEnd
  <1>6. AtReply(c) => AtReply(c)'
    BY <1>1 DEF AtReply
  <1> QED BY <1>3, <1>4, <1>5, <1>6

\* Settled is for good: a client that has finished sends no more.
LEMMA SettledKept ==
  ASSUME NEW c, Settled(c), script' = script, replies'[c] = replies[c],
         script[c] \in Seq(Request),
         sent[c] \in Nat, sent'[c] \in Nat, sent[c] <= sent'[c],
         finished \subseteq finished', c \in finished => sent'[c] = sent[c]
  PROVE  Settled(c)'
  <1>1. Answered(c)'
    BY AnsweredKept DEF Settled
  <1>2. Done(c)' = Done(c) /\ Current(c)' = Current(c)
    BY DEF Done, Current
  <1> QED BY <1>1, <1>2 DEF Settled

\* What a client is left with when the connection is closed.
LEMMA SettledAnswers ==
  ASSUME NEW c, Settled(c), script[c] \in Seq(Request), sent[c] \in Nat,
         replies[c] \in Seq(Reply)
  PROVE  replies[c] = Promise!Due(c)
  <1>1. PICK m : m = Done(c)
    OBVIOUS
  <1>2. Clear(c, m) /\ Last(c, m)
    BY <1>1 DEF Settled, Answered, Last, Current
  <1>3. Promise!Due(c) = [j \in 1..m |-> Promise!Answer(script[c][j])]
    BY <1>2, DueExactly
  <1>4. Len(replies[c]) = m /\ \A j \in 1..m : replies[c][j] = Promise!Answer(script[c][j])
    BY <1>1 DEF Settled, Answered, Done
  <1>5. replies[c] = [j \in 1..m |-> replies[c][j]]
    BY <1>4
  <1> QED BY <1>3, <1>4, <1>5

-----------------------------------------------------------------------------
(* A character is read.                                                    *)

\* What it is, and that it is the next one.
LEMMA CharIsNext ==
  ASSUME TypeOK, ScriptsKept, NEW c \in Clients, c = conn, InSocket(c), InBuffer(c),
         ReadChar
  PROVE  /\ Taken(c) + 1 \in 1..Len(Promise!Text(script[c]))
         /\ Head(buffer) = Promise!Text(script[c])[Taken(c) + 1]
         /\ Taken(c)' = Taken(c) + 1
         /\ InBuffer(c)'
  <1>1. /\ sent[c] \in Nat /\ Len(socket[c]) \in Nat /\ Len(buffer) \in Nat
        /\ buffer \in Seq(Chars) /\ buffer # <<>> /\ Taken(c) \in Int
    BY CountsTyped DEF ReadChar
  <1>2. /\ Tail(buffer) \in Seq(Chars) /\ Len(Tail(buffer)) = Len(buffer) - 1
        /\ \A i \in 1..Len(Tail(buffer)) : Tail(buffer)[i] = buffer[i+1]
        /\ Len(buffer) >= 1 /\ Head(buffer) = buffer[1]
    BY <1>1, HeadTailProperties
  <1>3. /\ buffer' = Tail(buffer) /\ sent' = sent /\ socket' = socket /\ script' = script
    BY DEF ReadChar, clientVars
  <1>4. Taken(c)' = Taken(c) + 1
    BY <1>1, <1>2, <1>3 DEF Taken
  <1>5. PICK n \in Nat : n = Len(Promise!Text(script[c]))
    BY ScriptTyped
  <1>6. Taken(c) >= 0 /\ Taken(c) + 1 <= n
    <2>1. Taken(c) >= 0 /\ sent[c] <= n
      BY <1>5 DEF InBuffer, InSocket
    <2> QED BY <1>1, <1>2, <2>1 DEF Taken
  <1>7. Head(buffer) = Promise!Text(script[c])[Taken(c) + 1]
    <2>1. 1 \in 1..Len(buffer)
      BY <1>1, <1>2
    <2> QED BY <1>2, <2>1 DEF InBuffer
  <1>8. ASSUME NEW i \in 1..Len(buffer')
        PROVE  buffer'[i] = Promise!Text(script[c])[Taken(c)' + i]
    <2>1. i \in 1..Len(Tail(buffer)) /\ i + 1 \in 1..Len(buffer)
      BY <1>1, <1>2, <1>3, <1>8
    <2>2. buffer'[i] = buffer[i+1] /\ buffer[i+1] = Promise!Text(script[c])[Taken(c) + (i+1)]
      BY <1>2, <1>3, <2>1 DEF InBuffer
    <2>3. Taken(c)' + i = Taken(c) + (i+1)
      BY <1>1, <1>4, <2>1
    <2> QED BY <2>2, <2>3
  <1>9. Taken(c)' >= 0
    BY <1>1, <1>4, <1>6
  <1>10. InBuffer(c)'
    BY <1>3, <1>8, <1>9 DEF InBuffer
  <1> QED BY <1>1, <1>4, <1>5, <1>6, <1>7, <1>10

\* The places in a line, and the one after its end.
LEMMA PlacesFollow ==
  ASSUME NEW s \in Seq(Request), NEW k \in 1..Len(s), NEW l \in 1..Len(s[k])+1
  PROVE  /\ \A i \in Nat : /\ Place(s, k, l, i) \in Nat
                           /\ Place(s, k, l, i) + 1 = Place(s, k, l, i + 1)
         /\ l <= Len(s[k]) =>
              Place(s, k, l, Len(Lines(s[k])[l]) + 2) = Place(s, k, l + 1, 0)
         /\ l = Len(s[k])+1 =>
              Place(s, k, l, Len(Lines(s[k])[l]) + 2) = Mark(RequestTexts(s), k)
  <1> DEFINE r == s[k]
             t == LineTexts(r)
             u == RequestTexts(s)
  <1>1. r \in Request /\ l \in 1..Len(r)+1 /\ Len(s) \in Nat
    OBVIOUS
  <1>2. /\ t \in Seq(Seq(Chars)) /\ Len(t) = Len(r)+1 /\ Len(r) \in Nat
        /\ Len(Lines(r)[l]) \in Nat /\ Len(t[l]) = Len(Lines(r)[l]) + 2
    BY <1>1, LineTextsTyped, LinesTyped
  <1>3. u \in Seq(Seq(Chars)) /\ Len(u) = Len(s) /\ u[k] = Promise!TextOf(r)
    BY RequestTextsTyped
  <1>4. /\ l \in 1..Len(t) /\ l - 1 \in 0..Len(t) /\ l \in 0..Len(t)
        /\ k \in 1..Len(u) /\ k - 1 \in 0..Len(u)
    BY <1>1, <1>2, <1>3
  <1>5. PICK a \in Nat : a = Mark(u, k-1)
    <2> HIDE DEF u
    <2> QED BY <1>3, <1>4, UptoTyped
  <1>6. PICK b \in Nat : b = Mark(t, l-1)
    <2> HIDE DEF t
    <2> QED BY <1>2, <1>4, UptoTyped
  <1>7. PICK n \in Nat : n = Len(Lines(r)[l])
    BY <1>2
  <1>8. Mark(t, l) = b + (n + 2)
    <2> HIDE DEF t
    <2> QED BY <1>2, <1>4, <1>6, <1>7, UptoNext
  <1>9. \A i : Place(s, k, l, i) = a + b + i
    BY <1>5, <1>6 DEF Place
  <1>10. \A i \in Nat : /\ Place(s, k, l, i) \in Nat
                        /\ Place(s, k, l, i) + 1 = Place(s, k, l, i + 1)
    BY <1>9
  <1>11. Place(s, k, l, n + 2) = Place(s, k, l + 1, 0)
    <2>1. Place(s, k, l + 1, 0) = a + Mark(t, l) + 0
      <3>1. (l + 1) - 1 = l
        OBVIOUS
      <3> QED BY <1>5, <3>1 DEF Place
    <2> QED BY <1>8, <1>9, <2>1
  <1>12. ASSUME l = Len(r)+1 PROVE Place(s, k, l, n + 2) = Mark(u, k)
    <2>1. Len(u[k]) = Mark(t, l)
      BY <1>1, <1>3, <1>12, TextOfIs DEF Mark
    <2>2. Mark(u, k) = a + Mark(t, l)
      <3> HIDE DEF u, t
      <3> QED BY <1>3, <1>4, <1>5, <2>1, UptoNext
    <2> QED BY <1>8, <1>9, <2>2
  <1> QED BY <1>7, <1>10, <1>11, <1>12

\* A line grows by its next character.
LEMMA AppendNext ==
  ASSUME NEW S, NEW w \in Seq(S), NEW i \in 0..Len(w)-1
  PROVE  Append(SubSeq(w, 1, i), w[i+1]) = SubSeq(w, 1, i+1)
  <1>1. i + 1 \in 1..Len(w) /\ 1 \in 1..Len(w) /\ i + 1 \in 1..Len(w) /\ (i + 1) - 1 = i
    OBVIOUS
  <1>2. SubSeq(w, 1, i+1) = SubSeq(w, 1, i) \o <<w[i+1]>>
    BY <1>1, SubSeqRecursiveSecond
  <1>3. w[i+1] \in S /\ SubSeq(w, 1, i) \in Seq(S)
    <2>1. \A j \in 1..i : w[j] \in S
      OBVIOUS
    <2> QED BY <1>1, <2>1, SubSeqProperties
  <1> QED BY <1>2, <1>3, AppendIsConcat

\* From each place the next character leads to the next: within a line, to the
\* end of the line, to the next line, and to the end of the request.
LEMMA ReadCharPlaced ==
  ASSUME TypeOK, ScriptsKept, NEW c \in Clients, c = conn,
         InSocket(c), InBuffer(c), replies[c] \in Seq(Reply),
         AtNoRequest(c) \/ AtSomePlace(c) \/ AtEnd(c), ReadChar
  PROVE  AtSomePlace(c)' \/ AtEnd(c)'
  <1>1. PICK s : s = script[c]
    OBVIOUS
  <1>2. PICK T : T = Promise!Text(s)
    OBVIOUS
  <1>3. PICK k : k = Done(c) + 1
    OBVIOUS
  <1>4. PICK r : r = Current(c)
    OBVIOUS
  <1>5. PICK x : x = Head(buffer)
    OBVIOUS
  <1>6. /\ Taken(c) + 1 \in 1..Len(T) /\ x = T[Taken(c) + 1]
        /\ Taken(c)' = Taken(c) + 1 /\ Taken(c) \in Int /\ Len(T) \in Nat
    BY <1>1, <1>2, <1>5, CharIsNext, CountsTyped, ScriptTyped
  <1>7. /\ script' = script /\ replies' = replies
        /\ newlines' = IF x \in {CR, LF} THEN newlines + 1 ELSE 0
        /\ x = LF => line' = <<>> /\ req' = ParseLine(line, req)
        /\ x = CR => line' = line /\ req' = req
        /\ x \notin {CR, LF} => line' = Append(line, x) /\ req' = req
        /\ newlines \in Nat /\ newlines < 4 /\ Len(line) < BuffSize - 1
    <2>1. CR # LF
      BY LineEnd
    <2>2. newlines \in Nat
      BY DEF TypeOK
    <2> HIDE DEF CR, LF
    <2> QED BY <1>5, <2>1, <2>2 DEF ReadChar, Reading, clientVars
  <1>8. AtSomePlace(c)
    <2>1. ~AtNoRequest(c)
      <3>1. ASSUME Taken(c) = Len(T) PROVE FALSE
        BY <1>6, <3>1
      <3> QED BY <1>1, <1>2, <3>1 DEF AtNoRequest
    <2>2. ~AtEnd(c)
      BY <1>7 DEF AtEnd
    <2> QED BY <2>1, <2>2
  <1>9. /\ s \in Seq(Request) /\ Len(s) \in Nat /\ k \in 1..Len(s) /\ r = s[k]
        /\ r \in Request /\ Done(c) \in Nat
    <2>1. s \in Seq(Request) /\ Len(s) \in Nat /\ Done(c) \in Nat /\ Done(c) < Len(s)
      BY <1>1, <1>8, ScriptTyped DEF AtSomePlace, Done
    <2>2. k \in 1..Len(s)
      BY <1>3, <2>1
    <2> QED BY <1>1, <1>3, <1>4, <2>1, <2>2 DEF Current
  <1>10. PICK l \in 1..Len(r)+1 : \E i \in 0..Len(Lines(r)[l])+1 : AtPlace(c, l, i)
    BY <1>4, <1>8 DEF AtSomePlace
  <1>11. PICK i \in 0..Len(Lines(r)[l])+1 : AtPlace(c, l, i)
    BY <1>10
  <1>12. PICK w : w = Lines(r)[l]
    OBVIOUS
  <1>13. /\ w \in Seq(Chars \ {CR, LF}) /\ w \in Seq(Chars) /\ Len(w) \in Nat
         /\ l \in 1..Len(s[k])+1 /\ i \in Nat /\ i \in 0..Len(w)+1
         /\ Len(r) \in Nat
    <2>1. Lines(r)[l] \in Seq(Chars \ {CR, LF}) /\ Len(r) \in Nat
      <3> HIDE DEF CR, LF
      <3> QED BY <1>9, LinesTyped
    <2>2. Lines(r)[l] \in Seq(Chars) /\ Len(Lines(r)[l]) \in Nat
      BY <1>9, LineTextsTyped
    <2>3. i \in 0..Len(w)+1 /\ i \in Nat
      BY <1>11, <1>12, <2>2
    <2>4. l \in 1..Len(s[k])+1
      BY <1>9, <1>10
    <2> HIDE DEF CR, LF
    <2> QED BY <1>12, <2>1, <2>2, <2>3, <2>4
  <1>14. /\ Taken(c) = Place(s, k, l, i)
         /\ i <= Len(w) => line = SubSeq(w, 1, i)
         /\ i = Len(w) + 1 => line = w
         /\ newlines = EndsUpTo(l, i, Len(w))
         /\ Said(r, l - 1, req) /\ Fit(r, l - 1)
    BY <1>1, <1>3, <1>4, <1>11, <1>12 DEF AtPlace
  <1>15. Done(c)' = Done(c) /\ Current(c)' = r
    BY <1>4, <1>7 DEF Done, Current
  <1>16. /\ Done(c)' < Len(script'[c])
         /\ \A p, q : AtPlace(c, p, q)' <=>
              /\ Taken(c)' = Place(s, k, p, q)
              /\ q <= Len(Lines(r)[p]) => line' = SubSeq(Lines(r)[p], 1, q)
              /\ q = Len(Lines(r)[p]) + 1 => line' = Lines(r)[p]
              /\ newlines' = EndsUpTo(p, q, Len(Lines(r)[p]))
              /\ Said(r, p - 1, req') /\ Fit(r, p - 1)
    <2>1. Done(c)' < Len(script'[c])
      BY <1>7, <1>8, <1>15 DEF AtSomePlace
    <2>2. ASSUME NEW p, NEW q
          PROVE  AtPlace(c, p, q)' <=>
              /\ Taken(c)' = Place(s, k, p, q)
              /\ q <= Len(Lines(r)[p]) => line' = SubSeq(Lines(r)[p], 1, q)
              /\ q = Len(Lines(r)[p]) + 1 => line' = Lines(r)[p]
              /\ newlines' = EndsUpTo(p, q, Len(Lines(r)[p]))
              /\ Said(r, p - 1, req') /\ Fit(r, p - 1)
      BY <1>1, <1>3, <1>7, <1>15 DEF AtPlace
    <2> QED BY <2>1, <2>2
  <1>17. \A p \in 1..Len(r)+1 : \A q \in 0..Len(Lines(r)[p])+1 :
           AtPlace(c, p, q)' => AtSomePlace(c)'
    BY <1>15, <1>16 DEF AtSomePlace
  <1>18. Place(s, k, l, i + 1) = Taken(c) + 1
    BY <1>9, <1>13, <1>14, PlacesFollow
  <1>19. CASE i < Len(w)
    <2>1. i + 1 \in 1..Len(w) /\ i + 1 \in 1..Len(w) + 2 /\ i + 1 <= Len(w)
      BY <1>13, <1>19
    <2>2. x = w[i+1]
      BY <1>2, <1>6, <1>9, <1>12, <1>13, <1>18, <2>1, CharAtPlace
    <2>3. x \in Chars /\ x \notin {CR, LF}
      <3>1. w[i+1] \in Chars \ {CR, LF}
        <4> HIDE DEF CR, LF
        <4> QED BY <1>13, <2>1
      <3> QED BY <2>2, <3>1
    <2>4. line' = SubSeq(w, 1, i+1)
      <3>1. i \in 0..Len(w)-1 /\ i <= Len(w)
        BY <1>13, <1>19
      <3> QED BY <1>7, <1>13, <1>14, <2>2, <2>3, <3>1, AppendNext
    <2>5. newlines' = EndsUpTo(l, i+1, Len(w))
      <3>1. newlines' = 0
        BY <1>7, <2>3
      <3>2. i + 1 # Len(w) + 1 /\ i + 1 > 0
        BY <1>13, <1>19
      <3> QED BY <3>1, <3>2 DEF EndsUpTo
    <2>6. req' = req
      BY <1>7, <2>3
    <2>7. i + 1 # Len(w) + 1 /\ i + 1 \in 0..Len(w)+1
      BY <1>13, <1>19
    <2>8. AtPlace(c, l, i+1)'
      BY <1>6, <1>12, <1>14, <1>16, <1>18, <2>4, <2>5, <2>6, <2>7
    <2> QED BY <1>12, <1>17, <2>7, <2>8
  <1>20. CASE i = Len(w)
    <2>1. i + 1 \in 1..Len(w) + 2 /\ i + 1 = Len(w) + 1
      BY <1>13, <1>20
    <2>2. x = CR
      BY <1>2, <1>6, <1>9, <1>12, <1>13, <1>18, <2>1, CharAtPlace
    <2>3. line' = w
      <3>1. line = SubSeq(w, 1, Len(w))
        BY <1>13, <1>14, <1>20
      <3>2. SubSeq(w, 1, Len(w)) = w
        BY <1>13, SubSeqFull
      <3> QED BY <1>7, <2>2, <3>1, <3>2
    <2>4. newlines' = newlines + 1 /\ req' = req
      BY <1>7, <2>2
    <2>5. Len(w) = 0 => l # 1
      <3>1. ASSUME Len(w) = 0, l = 1 PROVE FALSE
        <4>1. 1 \in 1..Len(r)
          <5>1. Len(r) >= 1
            BY <1>9, LinesTyped
          <5> QED BY <1>13, <5>1
        <4>3. Lines(r)[1] = r[1] /\ r[1] # <<>>
          BY <1>9, <4>1, LinesTyped
        <4>2. w = <<>>
          BY <1>13, <3>1
        <4> QED BY <1>12, <3>1, <4>2, <4>3
      <3> QED BY <3>1
    <2>6. newlines' = EndsUpTo(l, i+1, Len(w))
      <3>1. EndsUpTo(l, i+1, Len(w)) = IF Len(w) = 0 THEN 3 ELSE 1
        BY <2>1 DEF EndsUpTo
      <3>2. i # Len(w) + 1
        BY <1>13, <1>20
      <3>3. CASE Len(w) = 0
        <4>1. newlines = 2
          BY <1>14, <1>20, <2>5, <3>2, <3>3 DEF EndsUpTo
        <4> QED BY <2>4, <3>1, <3>3, <4>1
      <3>4. CASE Len(w) # 0
        <4>1. i > 0
          BY <1>13, <1>20, <3>4
        <4>2. newlines = 0
          BY <1>14, <3>2, <4>1 DEF EndsUpTo
        <4> QED BY <2>4, <3>1, <3>4, <4>2
      <3> QED BY <3>3, <3>4
    <2>7. ~(i + 1 <= Len(w)) /\ i + 1 \in 0..Len(w)+1
      BY <1>13, <1>20
    <2>8. AtPlace(c, l, i+1)'
      BY <1>6, <1>12, <1>14, <1>16, <1>18, <2>3, <2>4, <2>6, <2>7
    <2> QED BY <1>12, <1>17, <2>7, <2>8
  <1>21. CASE i = Len(w) + 1
    <2>1. i + 1 \in 1..Len(w) + 2 /\ i + 1 = Len(w) + 2
      BY <1>13, <1>21
    <2>2. x = LF
      BY <1>2, <1>6, <1>9, <1>12, <1>13, <1>18, <2>1, CharAtPlace
    <2>3. /\ line = w /\ line' = <<>> /\ req' = ParseLine(w, req)
          /\ newlines' = newlines + 1 /\ newlines = IF Len(w) = 0 THEN 3 ELSE 1
          /\ Len(w) < BuffSize - 1
      BY <1>7, <1>14, <1>21, <2>2 DEF EndsUpTo
    <2>4. CASE l <= Len(r)
      <3>1. l \in 1..Len(r) /\ l + 1 \in 1..Len(r)+1 /\ (l + 1) - 1 = l /\ l - 1 \in Nat
            /\ (l - 1) + 1 = l
        BY <1>13, <2>4
      <3>2. w = r[l] /\ w # <<>> /\ Len(w) # 0
        <4>1. w = r[l] /\ w # <<>>
          BY <1>9, <1>12, <3>1, LinesTyped
        <4> QED BY <1>13, <4>1
      <3>3. Taken(c)' = Place(s, k, l + 1, 0)
        BY <1>6, <1>9, <1>12, <1>13, <1>18, <2>1, <2>4, PlacesFollow
      <3>4. Said(r, l, ParseLine(w, req))
        <4>1. r[l] \in Seq(Chars)
          BY <1>13, <3>2
        <4> QED BY <1>14, <3>1, <3>2, <4>1, ParseNext
      <3>5. Fit(r, l)
        <4>1. \A j \in 1..l : j \in 1..l-1 \/ j = l
          BY <3>1
        <4> QED BY <1>14, <2>3, <3>2, <4>1 DEF Fit
      <3>6. PICK v : v = Lines(r)[l + 1]
        OBVIOUS
      <3>7. v \in Seq(Chars) /\ Len(v) \in Nat
        BY <1>9, <3>1, <3>6, LineTextsTyped
      <3>8. newlines' = EndsUpTo(l + 1, 0, Len(v))
        <4>1. newlines' = 2
          BY <2>3, <3>2
        <4>2. 0 # Len(v) + 1 /\ l + 1 # 1
          BY <3>1, <3>7
        <4> QED BY <4>1, <4>2 DEF EndsUpTo
      <3>9. line' = SubSeq(v, 1, 0) /\ 0 # Len(v) + 1 /\ 0 \in 0..Len(v)+1
        BY <2>3, <3>7, SubSeqEmpty
      <3>10. AtPlace(c, l + 1, 0)'
        BY <1>16, <2>3, <3>1, <3>3, <3>4, <3>5, <3>6, <3>8, <3>9
      <3> QED BY <1>17, <3>1, <3>6, <3>9, <3>10
    <2>5. CASE ~(l <= Len(r))
      <3>1. l = Len(r) + 1 /\ l - 1 = Len(r)
        BY <1>13, <2>5
      <3>2. w = <<>> /\ Len(w) = 0
        BY <1>9, <1>12, <3>1, LinesTyped
      <3>3. Taken(c)' = Mark(RequestTexts(s), k)
        <4>1. Place(s, k, l, Len(w) + 2) = Mark(RequestTexts(s), k)
          <5>1. l = Len(s[k]) + 1 /\ w = Lines(s[k])[l]
            BY <1>9, <1>12, <3>1
          <5> QED BY <1>9, <1>13, <5>1, PlacesFollow
        <4> QED BY <1>6, <1>18, <2>1, <4>1
      <3>4. req' = req
        BY <2>3, <3>2, EmptyLineSaysNothing
      <3>5. newlines' = 4
        BY <2>3, <3>2
      <3>6. AtEnd(c)'
        BY <1>1, <1>3, <1>7, <1>14, <1>15, <1>16, <2>3, <3>1, <3>3, <3>4, <3>5 DEF AtEnd
      <3> QED BY <3>6
    <2> QED BY <2>4, <2>5
  <1>22. i < Len(w) \/ i = Len(w) \/ i = Len(w) + 1
    BY <1>13
  <1> QED BY <1>19, <1>20, <1>21, <1>22

-----------------------------------------------------------------------------
(* What steps do to the parts of the invariant.                            *)

\* Clients keep to their scripts, and what is done is not undone.
LEMMA OnlyGrows ==
  ASSUME TypeOK, [Next]_vars
  PROVE  /\ script' = script
         /\ gone \subseteq gone' /\ finished \subseteq finished'
         /\ timedOut \subseteq timedOut'
         /\ \A c \in Clients : /\ sent[c] <= sent'[c] /\ sent[c] \in Nat /\ sent'[c] \in Nat
                               /\ c \in finished => sent'[c] = sent[c]
  <1> DEFINE Grown == /\ script' = script
                      /\ gone \subseteq gone' /\ finished \subseteq finished'
                      /\ timedOut \subseteq timedOut'
                      /\ \A c \in Clients : /\ sent[c] <= sent'[c] /\ sent[c] \in Nat
                                            /\ sent'[c] \in Nat
                                            /\ c \in finished => sent'[c] = sent[c]
  <1>1. \A c \in Clients : sent[c] \in Nat
    BY DEF TypeOK
  <1>2. ASSUME UNCHANGED <<script, sent>>, gone \subseteq gone',
               finished \subseteq finished', timedOut \subseteq timedOut'
        PROVE  Grown
    BY <1>1, <1>2
  <1>3. CASE Server \/ Fail \/ Tick
    <2>1. /\ UNCHANGED <<script, sent, gone, finished>> /\ timedOut \subseteq timedOut'
      BY <1>3 DEF Server, Fail, Tick, Accept, ReadChar, TooLong, Fill, EndOfInput,
                  TimeOut, EndRequest, SendReply, SendFails, AfterReply, Close,
                  clientVars, timerVars
    <2> QED BY <1>2, <2>1
  <1>4. ASSUME NEW d \in Clients, Client(d) PROVE Grown
    <2>1. CASE Connect(d) \/ Finish(d) \/ Reset(d)
      <3>1. /\ UNCHANGED <<script, sent, timedOut>> /\ gone \subseteq gone'
            /\ finished \subseteq finished'
        BY <2>1 DEF Connect, Finish, Reset, serverVars, timerVars
      <3> QED BY <1>2, <3>1
    <2>2. CASE Send(d)
      <3>1. /\ sent' = [sent EXCEPT ![d] = @ + 1] /\ d \notin finished
            /\ UNCHANGED <<script, timedOut, gone, finished>>
        BY <2>2 DEF Send, serverVars, timerVars
      <3>2. sent \in [Clients -> Nat]
        BY DEF TypeOK
      <3>3. \A c \in Clients : sent'[c] = IF c = d THEN sent[c] + 1 ELSE sent[c]
        BY <3>1, <3>2
      <3> QED BY <1>1, <3>1, <3>3
    <2> QED BY <1>4, <2>1, <2>2 DEF Client
  <1>5. CASE UNCHANGED vars
    <2>1. UNCHANGED <<script, sent, gone, finished, timedOut>>
      BY <1>5 DEF vars, clientVars, timerVars
    <2> QED BY <1>2, <2>1
  <1> QED BY <1>3, <1>4, <1>5 DEF Next

\* Only SendReply sends something, and only to the client of the connection.
LEMMA RepliesStep ==
  ASSUME TypeOK, RepliesTyped, [Next]_vars
  PROVE  /\ RepliesTyped'
         /\ SendReply \/ replies' = replies
         /\ \A c \in Clients : c # conn => replies'[c] = replies[c]
  <1>1. ReplyOf(Code) \in Reply
    <2>1. Code \in {200, 301, 404, 501}
      BY DEF Code
    <2>2. req.host \in Chars \cup {NoValue} /\ req.path \in Chars \cup {NoValue}
      BY DEF TypeOK, RequestType
    <2> QED BY <2>1, <2>2 DEF ReplyOf, Reply
  <1>2. CASE SendReply
    <2>1. conn \in Clients /\ replies' = [replies EXCEPT ![conn] = Append(@, ReplyOf(Code))]
      BY <1>2 DEF SendReply, TypeOK
    <2>2. Append(replies[conn], ReplyOf(Code)) \in Seq(Reply)
      <3>1. replies[conn] \in Seq(Reply)
        BY <2>1 DEF RepliesTyped
      <3> QED BY <1>1, <3>1, AppendProperties
    <2> QED BY <1>2, <2>1, <2>2 DEF RepliesTyped
  <1>3. CASE replies' = replies
    BY <1>3 DEF RepliesTyped
  <1>4. SendReply \/ replies' = replies
    <2>1. CASE Server
      BY <2>1 DEF Server, Accept, ReadChar, TooLong, Fill, EndOfInput, TimeOut,
                  EndRequest, SendFails, Close
    <2>2. CASE Fail \/ Tick
      BY <2>2 DEF Fail, Tick
    <2>3. ASSUME NEW c \in Clients, Client(c) PROVE replies' = replies
      BY <2>3 DEF Client, Connect, Send, Finish, Reset, serverVars
    <2> QED BY <2>1, <2>2, <2>3 DEF Next, vars
  <1> QED BY <1>2, <1>3, <1>4

\* Nobody is in the queue twice, or after having been served.
LEMMA QueueStep ==
  ASSUME TypeOK, QueueFresh, [Next]_vars
  PROVE  QueueFresh'
  <1>1. NoClient \notin served /\ queue \in Seq(Clients) /\ Len(queue) \in Nat
    BY HttpAssumption DEF TypeOK
  <1>2. CASE Accept
    <2>1. /\ conn' = Head(queue) /\ queue' = Tail(queue) /\ served' = served
          /\ pc' = "read" /\ queue # <<>>
      BY <1>2 DEF Accept
    <2>2. /\ Len(Tail(queue)) = Len(queue) - 1 /\ Head(queue) = queue[1]
          /\ \A i \in 1..Len(Tail(queue)) : Tail(queue)[i] = queue[i+1]
          /\ Len(queue) >= 1
      BY <1>1, <2>1, HeadTailProperties
    <2>3. \A i \in 1..Len(queue') : i + 1 \in 1..Len(queue) /\ i + 1 # 1
      BY <1>1, <2>1, <2>2
    <2>4. 1 \in 1..Len(queue)
      BY <1>1, <2>2
    <2>5. ASSUME NEW i \in 1..Len(queue') PROVE queue'[i] \notin served' /\ queue'[i] # conn'
      <3>1. queue'[i] = queue[i+1] /\ conn' = queue[1]
        BY <2>1, <2>2
      <3> QED BY <2>1, <2>3, <2>4, <3>1 DEF QueueFresh
    <2>6. ASSUME NEW i \in 1..Len(queue'), NEW j \in 1..Len(queue'), queue'[i] = queue'[j]
          PROVE  i = j
      <3>1. queue[i+1] = queue[j+1]
        BY <2>1, <2>2, <2>6
      <3>2. i + 1 = j + 1
        BY <2>3, <3>1 DEF QueueFresh
      <3> QED BY <3>2
    <2>7. conn' \notin served'
      BY <2>1, <2>2, <2>4 DEF QueueFresh
    <2> QED BY <2>1, <2>5, <2>6, <2>7 DEF QueueFresh
  <1>3. CASE Close
    <2>1. /\ pc' = "accept" /\ conn' = NoClient /\ served' = served \cup {conn}
          /\ queue' = queue /\ conn \in Clients
      BY <1>3 DEF Close, TypeOK
    <2>2. \A i \in 1..Len(queue) : queue[i] # NoClient
      BY <1>1, HttpAssumption
    <2>3. NoClient # conn
      BY <2>1, HttpAssumption
    <2> QED BY <1>1, <2>1, <2>2, <2>3 DEF QueueFresh
  <1>4. ASSUME NEW c \in Clients, Connect(c) PROVE QueueFresh'
    <2>1. /\ queue' = Append(queue, c) /\ served' = served /\ conn' = conn /\ pc' = pc
          /\ c \notin served /\ c # conn /\ \A i \in 1..Len(queue) : queue[i] # c
      BY <1>4 DEF Connect, Connected, serverVars
    <2>2. /\ Len(queue') = Len(queue) + 1 /\ queue'[Len(queue) + 1] = c
          /\ \A i \in 1..Len(queue) : queue'[i] = queue[i]
      BY <1>1, <2>1, AppendProperties
    <2>3. \A i \in 1..Len(queue') : i \in 1..Len(queue) \/ i = Len(queue) + 1
      BY <1>1, <2>2
    <2>4. ASSUME NEW i \in 1..Len(queue') PROVE queue'[i] \notin served' /\ queue'[i] # conn'
      BY <2>1, <2>2, <2>3 DEF QueueFresh
    <2>5. ASSUME NEW i \in 1..Len(queue'), NEW j \in 1..Len(queue'), queue'[i] = queue'[j]
          PROVE  i = j
      <3>1. CASE i \in 1..Len(queue) /\ j \in 1..Len(queue)
        BY <2>2, <2>5, <3>1 DEF QueueFresh
      <3>2. CASE i = Len(queue) + 1 \/ j = Len(queue) + 1
        BY <2>1, <2>2, <2>3, <2>5, <3>2
      <3> QED BY <2>3, <3>1, <3>2
    <2> QED BY <2>1, <2>4, <2>5 DEF QueueFresh
  <1>5. CASE UNCHANGED <<queue, served, conn>> /\ (pc' = "accept" => pc = "accept")
    BY <1>5 DEF QueueFresh
  <1>6. CASE \/ ReadChar \/ TooLong \/ Fill \/ EndOfInput \/ TimeOut
             \/ EndRequest \/ SendReply \/ SendFails \/ Fail \/ Tick
    BY <1>5, <1>6 DEF ReadChar, TooLong, Fill, EndOfInput, TimeOut, EndRequest,
                      SendReply, SendFails, AfterReply, Fail, Tick, clientVars
  <1>7. ASSUME NEW c \in Clients, Send(c) \/ Finish(c) \/ Reset(c) PROVE QueueFresh'
    BY <1>5, <1>7 DEF Send, Finish, Reset, serverVars
  <1>8. CASE UNCHANGED vars
    BY <1>5, <1>8 DEF vars, clientVars
  <1> QED BY <1>2, <1>3, <1>4, <1>6, <1>7, <1>8 DEF Next, Server, Client

\* What recv takes, and what it leaves.
LEMMA FillMoves ==
  ASSUME TypeOK, Fill
  PROVE  /\ conn \in Clients /\ buffer = <<>>
         /\ \E n \in 0..Len(socket[conn]) :
              /\ buffer' \in Seq(Chars) /\ Len(buffer') = n
              /\ \A i \in 1..n : buffer'[i] = socket[conn][i]
              /\ Len(socket'[conn]) = Len(socket[conn]) - n
              /\ \A i \in 1..Len(socket[conn])-n : socket'[conn][i] = socket[conn][n + i]
         /\ \A c \in Clients : c # conn => socket'[c] = socket[c]
         /\ UNCHANGED <<sent, script, gone, replies>>
  <1>1. conn \in Clients /\ buffer = <<>> /\ socket \in [Clients -> Seq(Chars)]
    BY DEF Fill, NeedsInput, Reading, TypeOK
  <1>2. PICK q : q = socket[conn]
    OBVIOUS
  <1>3. q \in Seq(Chars) /\ Len(q) \in Nat
    BY <1>1, <1>2
  <1> DEFINE n == IF Len(q) < BuffSize THEN Len(q) ELSE BuffSize
  <1>4. n \in 0..Len(q)
    BY <1>3, HttpAssumption
  <1>5. /\ buffer' = SubSeq(q, 1, n)
        /\ socket' = [socket EXCEPT ![conn] = SubSeq(q, n + 1, Len(q))]
        /\ UNCHANGED <<sent, script, gone, replies>>
    BY <1>2 DEF Fill
  <1> HIDE DEF n
  <1>6. /\ SubSeq(q, 1, n) \in Seq(Chars) /\ Len(SubSeq(q, 1, n)) = n
        /\ \A i \in 1..n : SubSeq(q, 1, n)[i] = q[i]
    <2>1. \A i \in 1..n : q[i] \in Chars
      BY <1>3, <1>4
    <2>2. /\ SubSeq(q, 1, n) \in Seq(Chars)
          /\ Len(SubSeq(q, 1, n)) = IF 1 <= n THEN n-1+1 ELSE 0
          /\ \A i \in 1..n-1+1 : SubSeq(q, 1, n)[i] = q[1+i-1]
      BY <1>3, <1>4, <2>1, SubSeqProperties
    <2>3. n-1+1 = n /\ \A i \in 1..n : 1+i-1 = i
      BY <1>3, <1>4
    <2> QED BY <1>3, <1>4, <2>2, <2>3
  <1>7. /\ Len(SubSeq(q, n + 1, Len(q))) = Len(q) - n
        /\ \A i \in 1..Len(q)-n : SubSeq(q, n + 1, Len(q))[i] = q[n + i]
    <2>1. \A i \in n+1..Len(q) : q[i] \in Chars
      BY <1>3, <1>4
    <2>2. /\ Len(SubSeq(q, n + 1, Len(q))) = IF n+1 <= Len(q) THEN Len(q)-(n+1)+1 ELSE 0
          /\ \A i \in 1..Len(q)-(n+1)+1 : SubSeq(q, n+1, Len(q))[i] = q[(n+1)+i-1]
      BY <1>3, <1>4, <2>1, SubSeqProperties
    <2>3. Len(q)-(n+1)+1 = Len(q)-n /\ \A i \in 1..Len(q)-n : (n+1)+i-1 = n+i
      BY <1>3, <1>4
    <2> QED BY <1>3, <1>4, <2>2, <2>3
  <1>8. /\ socket'[conn] = SubSeq(q, n + 1, Len(q))
        /\ \A c \in Clients : c # conn => socket'[c] = socket[c]
    BY <1>1, <1>5
  <1> QED BY <1>1, <1>2, <1>4, <1>5, <1>6, <1>7, <1>8

\* What a client sends comes to the end of its socket.
LEMMA SendMoves ==
  ASSUME IInv, NEW d \in Clients, Send(d)
  PROVE  /\ sent'[d] = sent[d] + 1 /\ sent[d] + 1 <= Len(Promise!Text(script[d]))
         /\ Len(socket'[d]) = Len(socket[d]) + 1
         /\ \A i \in 1..Len(socket[d]) : socket'[d][i] = socket[d][i]
         /\ socket'[d][Len(socket[d]) + 1] = Promise!Text(script[d])[sent[d] + 1]
         /\ \A c \in Clients : c # d => socket'[c] = socket[c] /\ sent'[c] = sent[c]
         /\ UNCHANGED <<pc, conn, buffer, line, newlines, req, script, served, replies,
                        gone, finished, timedOut, queue>>
  <1>1. PICK T : T = Promise!Text(script[d])
    OBVIOUS
  <1>2. T \in Seq(Chars) /\ Len(T) \in Nat
    BY <1>1, ScriptTyped DEF IInv
  <1>3. sent \in [Clients -> Nat] /\ socket \in [Clients -> Seq(Chars)]
    BY DEF IInv, TypeOK
  <1>4. /\ sent' = [sent EXCEPT ![d] = @ + 1] /\ sent[d] < Len(T)
        /\ socket' = [socket EXCEPT ![d] = Append(@, T[sent'[d]])]
        /\ UNCHANGED <<pc, conn, buffer, line, newlines, req, script, served, replies,
                       gone, finished, timedOut, queue>>
    BY <1>1 DEF Send, serverVars, requestVars, timerVars
  <1>5. sent'[d] = sent[d] + 1 /\ sent[d] + 1 \in 1..Len(T)
    BY <1>2, <1>3, <1>4
  <1>6. socket'[d] = Append(socket[d], T[sent[d] + 1]) /\ T[sent[d] + 1] \in Chars
    BY <1>2, <1>3, <1>4, <1>5
  <1>7. /\ Len(Append(socket[d], T[sent[d] + 1])) = Len(socket[d]) + 1
        /\ \A i \in 1..Len(socket[d]) :
             Append(socket[d], T[sent[d] + 1])[i] = socket[d][i]
        /\ Append(socket[d], T[sent[d] + 1])[Len(socket[d]) + 1] = T[sent[d] + 1]
    BY <1>3, <1>6, AppendProperties
  <1>8. \A c \in Clients : c # d => socket'[c] = socket[c] /\ sent'[c] = sent[c]
    BY <1>3, <1>4
  <1>9. sent[d] + 1 <= Len(T)
    BY <1>5
  <1> QED BY <1>1, <1>4, <1>5, <1>6, <1>7, <1>8, <1>9

\* A socket always holds the end of what its client has sent.
LEMMA SocketsStep ==
  ASSUME IInv, SocketsHold, [Next]_vars
  PROVE  SocketsHold'
  <1> SUFFICES ASSUME NEW c \in Clients, c \notin gone' PROVE InSocket(c)'
    BY DEF SocketsHold
  <1>1. script' = script /\ c \notin gone /\ InSocket(c)
    BY OnlyGrows DEF IInv, SocketsHold
  <1>2. CASE socket'[c] = socket[c] /\ sent'[c] = sent[c]
    BY <1>1, <1>2 DEF InSocket
  <1>3. /\ sent[c] \in Nat /\ Len(socket[c]) \in Nat
        /\ sent[c] <= Len(Promise!Text(script[c])) /\ Len(socket[c]) <= sent[c]
        /\ Len(Promise!Text(script[c])) \in Nat
    BY <1>1, CountsTyped, ScriptTyped DEF IInv, InSocket
  <1>4. CASE Fill
    <2>1. CASE c = conn
      <3>1. PICK n \in 0..Len(socket[c]) :
              /\ Len(socket'[c]) = Len(socket[c]) - n
              /\ \A i \in 1..Len(socket[c])-n : socket'[c][i] = socket[c][n + i]
        BY <1>4, <2>1, FillMoves DEF IInv
      <3>2. sent' = sent
        BY <1>4 DEF Fill
      <3>3. ASSUME NEW i \in 1..Len(socket'[c])
            PROVE  socket'[c][i] = Promise!Text(script[c])[sent[c] - Len(socket'[c]) + i]
        <4>1. /\ i \in 1..Len(socket[c])-n /\ n + i \in 1..Len(socket[c])
              /\ sent[c] - Len(socket'[c]) + i = sent[c] - Len(socket[c]) + (n + i)
          BY <1>3, <3>1, <3>3
        <4> QED BY <1>1, <3>1, <4>1 DEF InSocket
      <3>4. Len(socket'[c]) <= sent[c]
        BY <1>3, <3>1
      <3> QED BY <1>1, <1>3, <3>2, <3>3, <3>4 DEF InSocket
    <2>2. CASE c # conn
      BY <1>2, <1>4, <2>2, FillMoves DEF IInv
    <2> QED BY <2>1, <2>2
  <1>5. CASE Close
    <2>1. CASE c = conn
      <3>1. socket'[c] = <<>> /\ sent' = sent
        BY <1>5, <2>1 DEF Close, IInv, TypeOK
      <3>2. Len(socket'[c]) = 0 /\ 1..0 = {}
        BY <3>1
      <3> QED BY <1>1, <1>3, <3>1, <3>2 DEF InSocket
    <2>2. CASE c # conn
      BY <1>2, <1>5, <2>2 DEF Close, IInv, TypeOK
    <2> QED BY <2>1, <2>2
  <1>6. CASE \/ Accept \/ ReadChar \/ TooLong \/ EndOfInput \/ TimeOut \/ EndRequest
             \/ SendReply \/ SendFails \/ Fail \/ Tick
    <2>1. socket' = socket /\ sent' = sent
      BY <1>6 DEF Accept, ReadChar, TooLong, EndOfInput, TimeOut, EndRequest,
                  SendReply, SendFails, AfterReply, Fail, Tick, clientVars
    <2> QED BY <1>2, <2>1
  <1>7. ASSUME NEW d \in Clients, Send(d) PROVE InSocket(c)'
    <2>1. CASE c = d
      <3>1. /\ sent'[c] = sent[c] + 1 /\ sent[c] + 1 <= Len(Promise!Text(script[c]))
            /\ Len(socket'[c]) = Len(socket[c]) + 1
            /\ \A i \in 1..Len(socket[c]) : socket'[c][i] = socket[c][i]
            /\ socket'[c][Len(socket[c]) + 1] = Promise!Text(script[c])[sent[c] + 1]
        BY <1>7, <2>1, SendMoves
      <3>2. ASSUME NEW i \in 1..Len(socket'[c])
            PROVE  socket'[c][i] = Promise!Text(script[c])[sent'[c] - Len(socket'[c]) + i]
        <4>1. sent'[c] - Len(socket'[c]) + i = sent[c] - Len(socket[c]) + i
          <5>1. PICK a \in Nat : a = sent[c]
            BY <1>3
          <5>2. PICK b \in Nat : b = Len(socket[c])
            BY <1>3
          <5>3. i \in 1..b+1 /\ sent'[c] = a + 1 /\ Len(socket'[c]) = b + 1
            BY <3>1, <3>2, <5>1, <5>2
          <5>4. (a + 1) - (b + 1) + i = a - b + i
            BY <5>3
          <5> QED BY <5>1, <5>2, <5>3, <5>4
        <4>2. CASE i = Len(socket[c]) + 1
          <5>1. sent[c] - Len(socket[c]) + i = sent[c] + 1
            BY <1>3, <4>2
          <5> QED BY <3>1, <4>1, <4>2, <5>1
        <4>3. CASE i # Len(socket[c]) + 1
          <5>1. i \in 1..Len(socket[c])
            BY <1>3, <3>1, <4>3
          <5> QED BY <1>1, <3>1, <4>1, <5>1 DEF InSocket
        <4> QED BY <4>2, <4>3
      <3>3. Len(socket'[c]) <= sent'[c]
        BY <1>3, <3>1
      <3> QED BY <1>1, <3>1, <3>2, <3>3 DEF InSocket
    <2>2. CASE c # d
      BY <1>2, <1>7, <2>2, SendMoves
    <2> QED BY <2>1, <2>2
  <1>8. ASSUME NEW d \in Clients, Connect(d) \/ Finish(d) \/ Reset(d) PROVE InSocket(c)'
    <2>1. sent' = sent
      BY <1>8 DEF Connect, Finish, Reset
    <2>2. socket'[c] = socket[c]
      BY <1>8 DEF Connect, Finish, Reset, IInv, TypeOK
    <2> QED BY <1>2, <2>1, <2>2
  <1>9. CASE UNCHANGED vars
    BY <1>2, <1>9 DEF vars, clientVars
  <1> QED BY <1>4, <1>5, <1>6, <1>7, <1>8, <1>9 DEF Next, Server, Client

\* Nobody is sent anything before its turn, and nothing of its text is read.
LEMMA OthersStep ==
  ASSUME IInv, RepliesTyped, QueueFresh, OthersWait, [Next]_vars
  PROVE  OthersWait'
  <1> SUFFICES ASSUME NEW c \in Clients, c \notin served', c # conn'
               PROVE  replies'[c] = <<>> /\ (c \notin gone' => Len(socket'[c]) = sent'[c])
    BY DEF OthersWait
  <1>1. gone \subseteq gone' /\ (c # conn => replies'[c] = replies[c])
    BY OnlyGrows, RepliesStep DEF IInv
  <1>2. sent[c] \in Nat /\ Len(socket[c]) \in Nat
    BY CountsTyped DEF IInv
  <1>3. ASSUME c # conn, c \notin served, c \notin gone' => socket'[c] = socket[c] /\ sent'[c] = sent[c]
        PROVE  replies'[c] = <<>> /\ (c \notin gone' => Len(socket'[c]) = sent'[c])
    BY <1>1, <1>3 DEF OthersWait
  <1>4. CASE Accept
    <2>1. c # conn /\ c \notin served /\ socket' = socket /\ sent' = sent
      BY <1>4, HttpAssumption DEF Accept, QueueFresh
    <2> QED BY <1>3, <2>1
  <1>5. CASE Close
    <2>1. c # conn /\ c \notin served /\ socket'[c] = socket[c] /\ sent' = sent
      BY <1>5 DEF Close, IInv, TypeOK
    <2> QED BY <1>3, <2>1
  <1>6. CASE Fill
    <2>1. c # conn /\ c \notin served
      BY <1>6 DEF Fill
    <2>2. socket'[c] = socket[c] /\ sent' = sent
      BY <1>6, <2>1, FillMoves DEF IInv
    <2> QED BY <1>3, <2>1, <2>2
  <1>7. CASE \/ ReadChar \/ TooLong \/ EndOfInput \/ TimeOut \/ EndRequest
             \/ SendReply \/ SendFails \/ Fail \/ Tick
    <2>1. socket' = socket /\ sent' = sent /\ c # conn /\ c \notin served
      BY <1>7 DEF ReadChar, TooLong, EndOfInput, TimeOut, EndRequest, SendReply,
                  SendFails, AfterReply, Fail, Tick, clientVars
    <2> QED BY <1>3, <2>1
  <1>8. ASSUME NEW d \in Clients, Send(d)
        PROVE  replies'[c] = <<>> /\ (c \notin gone' => Len(socket'[c]) = sent'[c])
    <2>1. /\ c # conn /\ c \notin served
          /\ c # d => socket'[c] = socket[c] /\ sent'[c] = sent[c]
          /\ c = d => Len(socket'[c]) = Len(socket[c]) + 1 /\ sent'[c] = sent[c] + 1
      BY <1>8, SendMoves
    <2> QED BY <1>1, <1>2, <2>1 DEF OthersWait
  <1>9. ASSUME NEW d \in Clients, Connect(d) \/ Finish(d) \/ Reset(d)
        PROVE  replies'[c] = <<>> /\ (c \notin gone' => Len(socket'[c]) = sent'[c])
    <2>1. sent' = sent /\ c # conn /\ c \notin served
      BY <1>9 DEF Connect, Finish, Reset, serverVars
    <2>2. c \notin gone' => socket'[c] = socket[c]
      BY <1>9 DEF Connect, Finish, Reset, IInv, TypeOK
    <2> QED BY <1>3, <2>1, <2>2
  <1>10. CASE UNCHANGED vars
    <2>1. socket' = socket /\ sent' = sent /\ c # conn /\ c \notin served
      BY <1>10 DEF vars, clientVars
    <2> QED BY <1>3, <2>1
  <1> QED BY <1>4, <1>5, <1>6, <1>7, <1>8, <1>9, <1>10 DEF Next, Server, Client

-----------------------------------------------------------------------------
(* The client that is served.                                              *)

\* A request begins where the one before it has ended.
LEMMA NextRequestPlaced ==
  ASSUME NEW s \in Seq(Request), NEW m \in 0..Len(s), NEW c,
         script' = script, script[c] = s, Done(c)' = m,
         Taken(c)' = Mark(RequestTexts(s), m),
         line' = <<>>, newlines' = 0, req' = NewRequest
  PROVE  AtNoRequest(c)' \/ AtSomePlace(c)'
  <1>1. Len(s) \in Nat
    OBVIOUS
  <1>2. CASE m = Len(s)
    <2>1. Len(Promise!Text(s)) = Mark(RequestTexts(s), m)
      BY <1>2, TextIs DEF Mark
    <2> QED BY <1>2, <2>1 DEF AtNoRequest
  <1>3. CASE m # Len(s)
    <2>1. m + 1 \in 1..Len(s) /\ m < Len(s) /\ (m + 1) - 1 = m /\ m \in 0..Len(s)
      BY <1>1, <1>3
    <2>2. PICK r : r = s[m + 1]
      OBVIOUS
    <2>3. Current(c)' = r
      BY <2>2 DEF Current
    <2>4. r \in Request /\ Len(r) \in Nat /\ 1 \in 1..Len(r)+1
      <3>1. r \in Request
        BY <2>1, <2>2
      <3>2. Len(r) \in Nat
        BY <3>1, LinesTyped
      <3> QED BY <3>1, <3>2
    <2>5. PICK w : w = Lines(r)[1]
      OBVIOUS
    <2>6. w \in Seq(Chars) /\ Len(w) \in Nat /\ 0 \in 0..Len(w)+1 /\ 0 # Len(w) + 1
      <3>1. w \in Seq(Chars) /\ Len(w) \in Nat
        BY <2>4, <2>5, LineTextsTyped
      <3> QED BY <3>1
    <2>7. Taken(c)' = Place(s, m + 1, 1, 0)
      <3>1. Mark(LineTexts(r), 0) = 0
        BY <2>4, LineTextsTyped, UptoEnds
      <3>2. Mark(RequestTexts(s), m) \in Nat
        <4>1. m \in 0..Len(s) /\ Len(s) \in m..Len(s)
          BY <1>1
        <4> QED BY <4>1, MarksGrow
      <3>3. Place(s, m + 1, 1, 0) = Mark(RequestTexts(s), m) + 0 + 0
        <4>1. (m + 1) - 1 = m /\ 1 - 1 = 0
          BY <2>1
        <4> QED BY <2>2, <3>1, <4>1 DEF Place
      <3> QED BY <3>2, <3>3
    <2>8. line' = SubSeq(w, 1, 0) /\ newlines' = EndsUpTo(1, 0, Len(w))
      BY <2>6, SubSeqEmpty DEF EndsUpTo
    <2>9. Said(r, 1 - 1, req') /\ Fit(r, 1 - 1)
      <3>1. 1 - 1 = 0 /\ 1..0 = {}
        OBVIOUS
      <3> QED BY <3>1, NothingSaid DEF Fit
    <2>10. AtPlace(c, 1, 0)'
      BY <2>3, <2>5, <2>6, <2>7, <2>8, <2>9 DEF AtPlace
    <2> QED BY <2>1, <2>3, <2>4, <2>5, <2>6, <2>10 DEF AtSomePlace
  <1> QED BY <1>2, <1>3

\* A connection starts at the beginning of the text of its client.
LEMMA AcceptServes ==
  ASSUME IInv, QueueFresh, OthersWait, SocketsHold, Accept,
         NEW c \in Clients, c \notin gone, c = conn'
  PROVE  Served(c)'
  <1>1. /\ conn = NoClient /\ c = Head(queue) /\ queue # <<>> /\ queue \in Seq(Clients)
        /\ buffer' = <<>> /\ line' = <<>> /\ newlines' = 0 /\ req' = NewRequest
        /\ pc' = "read"
        /\ UNCHANGED <<script, sent, socket, replies>>
    BY DEF Accept, QueueFresh, IInv, TypeOK
  <1>2. replies[c] = <<>> /\ Len(socket[c]) = sent[c]
    <2>1. 1 \in 1..Len(queue) /\ c = queue[1]
      <3>1. Len(queue) \in Nat /\ Len(queue) # 0 /\ Head(queue) = queue[1]
        BY <1>1
      <3> QED BY <1>1, <3>1
    <2>2. c \notin served /\ c # conn
      BY <1>1, <2>1, HttpAssumption DEF QueueFresh
    <2> QED BY <2>2 DEF OthersWait
  <1>3. PICK s : s = script[c]
    OBVIOUS
  <1>4. s \in Seq(Request) /\ Len(s) \in Nat /\ sent[c] \in Nat /\ 0 \in 0..Len(s)
    <2>1. s \in Seq(Request) /\ Len(s) \in Nat /\ sent[c] \in Nat
      BY <1>3, ScriptTyped, CountsTyped DEF IInv
    <2> QED BY <2>1
  <1>5. Done(c)' = 0 /\ Len(buffer') = 0
    BY <1>1, <1>2 DEF Done
  <1>6. Mark(RequestTexts(s), 0) = 0
    BY <1>4, RequestTextsTyped, UptoEnds
  <1>7. Taken(c)' = 0
    BY <1>1, <1>2, <1>4, <1>5 DEF Taken
  <1>8. AtNoRequest(c)' \/ AtSomePlace(c)'
    BY <1>1, <1>3, <1>4, <1>5, <1>6, <1>7, NextRequestPlaced
  <1>9. Answered(c)'
    <2>1. 1..0 = {} /\ 1..0-1 = {} /\ 0 <= sent[c]
      BY <1>4
    <2> QED BY <1>1, <1>3, <1>4, <1>5, <1>6, <2>1 DEF Answered, Clear
  <1>10. NoError(c)' /\ InBuffer(c)'
    <2>1. 1..0 = {}
      OBVIOUS
    <2> QED BY <1>5, <1>7, <2>1 DEF NoError, InBuffer
  <1> QED BY <1>1, <1>8, <1>9, <1>10 DEF Served

\* The buffer takes the beginning of what is in the socket.
LEMMA FillServes ==
  ASSUME IInv, NEW c \in Clients, c = conn, InSocket(c), Served(c), Fill
  PROVE  Served(c)'
  <1>1. /\ pc = "read" /\ pc' = "read"
        /\ UNCHANGED <<script, replies, sent, line, newlines, req>>
    BY DEF Fill, NeedsInput, Reading
  <1>2. PICK n \in 0..Len(socket[c]) :
          /\ buffer' \in Seq(Chars) /\ Len(buffer') = n
          /\ \A i \in 1..n : buffer'[i] = socket[c][i]
          /\ Len(socket'[c]) = Len(socket[c]) - n
    BY FillMoves DEF IInv
  <1>3. buffer = <<>> /\ Len(buffer) = 0 /\ sent[c] \in Nat /\ Len(socket[c]) \in Nat
    BY FillMoves, CountsTyped DEF IInv
  <1>4. Taken(c) = sent[c] - Len(socket[c]) /\ Taken(c)' = Taken(c)
    BY <1>1, <1>2, <1>3 DEF Taken
  <1>5. InBuffer(c)'
    <2>1. Taken(c)' >= 0
      BY <1>1, <1>4 DEF Served, InBuffer
    <2>2. ASSUME NEW i \in 1..Len(buffer')
          PROVE  buffer'[i] = Promise!Text(script[c])[Taken(c)' + i]
      <3>1. i \in 1..n /\ i \in 1..Len(socket[c])
        BY <1>2, <1>3
      <3> QED BY <1>2, <1>4, <3>1 DEF InSocket
    <2> QED BY <1>1, <2>1, <2>2 DEF InBuffer
  <1>6. Done(c)' = Done(c)
    BY <1>1 DEF Done
  <1>7. Answered(c)'
    <2>1. sent[c] <= sent'[c] /\ sent'[c] \in Nat /\ replies'[c] = replies[c] /\ script' = script
      BY <1>1, <1>3
    <2>2. Answered(c) /\ script[c] \in Seq(Request)
      BY <1>1, ScriptTyped DEF Served, IInv
    <2> QED BY <1>3, <2>1, <2>2, AnsweredKept
  <1>8. NoError(c)'
    BY <1>1, <1>6 DEF Served, NoError
  <1>9. AtNoRequest(c)' \/ AtSomePlace(c)' \/ AtEnd(c)'
    <2>1. AtNoRequest(c) \/ AtSomePlace(c) \/ AtEnd(c)
      BY <1>1 DEF Served
    <2> QED BY <1>1, <1>4, <1>6, <2>1, PlacesKept
  <1> QED BY <1>1, <1>5, <1>7, <1>8, <1>9 DEF Served

\* A character is taken from the buffer.
LEMMA ReadCharServes ==
  ASSUME IInv, RepliesTyped, NEW c \in Clients, c = conn, InSocket(c), Served(c), ReadChar
  PROVE  Served(c)'
  <1>1. pc = "read" /\ pc' = "read" /\ UNCHANGED <<script, replies, sent>>
    BY DEF ReadChar, Reading, clientVars
  <1>2. Answered(c) /\ NoError(c) /\ InBuffer(c)
        /\ (AtNoRequest(c) \/ AtSomePlace(c) \/ AtEnd(c))
    BY <1>1 DEF Served
  <1>3. InBuffer(c)'
    BY <1>2, CharIsNext DEF IInv
  <1>4. AtSomePlace(c)' \/ AtEnd(c)'
    BY <1>2, ReadCharPlaced DEF IInv, RepliesTyped
  <1>5. Answered(c)'
    <2>1. sent[c] \in Nat /\ script[c] \in Seq(Request) /\ sent[c] <= sent'[c] /\ sent'[c] \in Nat
      <3>1. sent[c] \in Nat /\ script[c] \in Seq(Request)
        BY CountsTyped, ScriptTyped DEF IInv
      <3> QED BY <1>1, <3>1
    <2> QED BY <1>1, <1>2, <2>1, AnsweredKept
  <1>6. NoError(c)'
    BY <1>1, <1>2 DEF NoError, Done
  <1> QED BY <1>1, <1>3, <1>4, <1>5, <1>6 DEF Served

\* A request whose lines have all fit is not too long.
LEMMA FitIsNotTooLong ==
  ASSUME NEW r \in Request, Fit(r, Len(r))
  PROVE  ~Promise!TooLong(r)
  <1>1. ASSUME NEW k \in 1..Len(r) PROVE ~(Len(r[k]) >= BuffSize - 1)
    <2>1. Len(r[k]) < BuffSize - 1
      BY DEF Fit
    <2>2. Len(r[k]) \in Nat
      <3>1. k \in 1..Len(r)+1 /\ Lines(r)[k] = r[k]
        BY LinesTyped
      <3> QED BY <3>1, LineTextsTyped
    <2> QED BY <2>1, <2>2, HttpAssumption
  <1> QED BY <1>1 DEF Promise!TooLong

\* Four line ends in a row are the end of the request, and req is what it says.
LEMMA EndRequestServes ==
  ASSUME IInv, RepliesTyped, NEW c \in Clients, c = conn, Served(c), EndRequest
  PROVE  Served(c)'
  <1>1. /\ pc = "read" /\ pc' = "reply" /\ newlines = 4
        /\ UNCHANGED <<script, replies, sent, socket, buffer>>
        /\ req' = [req EXCEPT !.get_flag =
                     @ /\ ~(/\ req.host \in DOMAIN Site
                            /\ Site[req.host][req.path] = "outside")]
    BY DEF EndRequest, clientVars
  <1>2. Answered(c) /\ NoError(c) /\ InBuffer(c)
        /\ (AtNoRequest(c) \/ AtSomePlace(c) \/ AtEnd(c))
    BY <1>1 DEF Served
  <1>3. AtEnd(c)
    <2>1. ~AtNoRequest(c)
      BY <1>1 DEF AtNoRequest
    <2>2. \A l, i, n : EndsUpTo(l, i, n) # 4
      BY DEF EndsUpTo
    <2>3. ~AtSomePlace(c)
      BY <1>1, <2>2 DEF AtSomePlace, AtPlace
    <2> QED BY <1>2, <2>1, <2>3
  <1>4. PICK r : r = Current(c)
    OBVIOUS
  <1>5. r \in Request
    <2>1. Done(c) + 1 \in 1..Len(script[c])
      <3>1. Done(c) \in Nat /\ Len(script[c]) \in Nat /\ Done(c) < Len(script[c])
        BY <1>3, ScriptTyped DEF AtEnd, Done, RepliesTyped, IInv
      <3> QED BY <3>1
    <2> QED BY <1>4, <2>1, ScriptTyped DEF Current, IInv
  <1>6. /\ req'.host = req.host /\ req'.path = req.path /\ req'.host_flag = req.host_flag
        /\ req'.get_flag <=> (/\ req.get_flag
                              /\ ~(/\ req.host \in DOMAIN Site
                                   /\ Site[req.host][req.path] = "outside"))
    <2>1. req \in RequestType
      BY DEF IInv, TypeOK
    <2> QED BY <1>1, <2>1 DEF RequestType
  <1>7. Checked(r, req')
    <2>1. Said(r, Len(r), req)
      BY <1>3, <1>4 DEF AtEnd
    <2> QED BY <1>6, <2>1 DEF Said, Checked
  <1>8. ~Promise!TooLong(r)
    BY <1>3, <1>4, <1>5, FitIsNotTooLong DEF AtEnd
  <1>9. Taken(c)' = Taken(c) /\ Done(c)' = Done(c) /\ Current(c)' = r
    BY <1>1, <1>4 DEF Taken, Done, Current
  <1>10. AtReply(c)'
    BY <1>1, <1>3, <1>7, <1>8, <1>9 DEF AtReply, AtEnd
  <1>11. Answered(c)' /\ NoError(c)' /\ InBuffer(c)'
    <2>1. sent[c] \in Nat /\ script[c] \in Seq(Request) /\ sent[c] <= sent'[c] /\ sent'[c] \in Nat
      <3>1. sent[c] \in Nat /\ script[c] \in Seq(Request)
        BY CountsTyped, ScriptTyped DEF IInv
      <3> QED BY <1>1, <3>1
    <2>2. Answered(c)'
      BY <1>1, <1>2, <2>1, AnsweredKept
    <2>3. NoError(c)' /\ InBuffer(c)'
      BY <1>1, <1>2, <1>9 DEF NoError, InBuffer
    <2> QED BY <2>2, <2>3
  <1> QED BY <1>1, <1>10, <1>11 DEF Served

\* The answer to the request the server has read is due.
LEMMA AnswerIsDue ==
  ASSUME IInv, RepliesTyped, NEW c \in Clients, c = conn, c \notin gone, pc = "reply", Served(c)
  PROVE  /\ ReplyOf(Code) = Promise!Answer(Current(c))
         /\ KeepConnection <=> ~Promise!IsError(Promise!Answer(Current(c)))
         /\ Done(c) + 1 \in 1..Len(script[c]) /\ Done(c) \in Nat
         /\ Clear(c, Done(c) + 1)
  <1>1. AtReply(c) /\ Answered(c) /\ NoError(c) /\ InBuffer(c)
    BY DEF Served
  <1>2. PICK m : m = Done(c)
    OBVIOUS
  <1>3. m \in Nat /\ m + 1 \in 1..Len(script[c]) /\ Len(script[c]) \in Nat
    <2>1. m \in Nat /\ Len(script[c]) \in Nat /\ m < Len(script[c])
      BY <1>1, <1>2, ScriptTyped DEF AtReply, Done, RepliesTyped, IInv
    <2> QED BY <2>1
  <1>4. Current(c) = script[c][m+1] /\ Current(c) \in Request /\ SiteCovers(Current(c))
    BY <1>2, <1>3, ScriptTyped DEF Current, IInv
  <1>5. /\ ReplyOf(Code) = Promise!Answer(Current(c))
        /\ KeepConnection <=> ~Promise!IsError(Promise!Answer(Current(c)))
    BY <1>1, <1>4, AnswerIs DEF AtReply
  <1>6. Clear(c, m + 1)
    <2>1. Mark(RequestTexts(script[c]), m+1) <= sent[c]
      <3>1. Taken(c) <= sent[c]
        BY CountsTyped DEF Taken, IInv
      <3> QED BY <1>1, <1>2, <3>1 DEF AtReply
    <2>2. Clear(c, m)
      BY <1>1, <1>2 DEF Answered
    <2>3. ASSUME NEW j \in 1..m+1 PROVE ~Promise!TooLong(script[c][j])
      <3>1. j \in 1..m \/ j = m + 1
        BY <1>3
      <3> QED BY <1>1, <1>4, <2>2, <3>1 DEF AtReply, Clear
    <2>4. ASSUME NEW j \in 1..(m+1)-1 PROVE ~Promise!IsError(Promise!Answer(script[c][j]))
      <3>1. j \in 1..m-1 \/ (j = m /\ m > 0)
        BY <1>3
      <3> QED BY <1>1, <1>2, <2>2, <3>1 DEF NoError, Clear
    <2>5. m + 1 \in 0..Len(script[c])
      BY <1>3
    <2> QED BY <2>1, <2>3, <2>4, <2>5 DEF Clear
  <1> QED BY <1>2, <1>3, <1>5, <1>6

\* The reply is the answer to the current request.
LEMMA ReplyAnswers ==
  ASSUME IInv, RepliesTyped, NEW c \in Clients, c = conn, c \notin gone, Served(c), SendReply
  PROVE  Answered(c)' /\ Done(c)' = Done(c) + 1 /\ Taken(c)' = Taken(c)
  <1>1. PICK m : m = Done(c)
    OBVIOUS
  <1>2. PICK a : a = Promise!Answer(Current(c))
    OBVIOUS
  <1>3. pc = "reply" /\ replies' = [replies EXCEPT ![c] = Append(@, ReplyOf(Code))]
    BY DEF SendReply
  <1>4. /\ ReplyOf(Code) = a /\ m + 1 \in 1..Len(script[c]) /\ m \in Nat /\ Clear(c, m + 1)
        /\ a = Promise!Answer(script[c][m+1])
    BY <1>1, <1>2, <1>3, AnswerIsDue DEF Current
  <1>5. UNCHANGED <<script, sent, socket, buffer>>
    BY DEF SendReply, AfterReply, requestVars, clientVars
  <1>6. replies[c] \in Seq(Reply) /\ Len(replies[c]) = m
        /\ replies'[c] = Append(replies[c], a)
    BY <1>1, <1>3, <1>4 DEF RepliesTyped, Done
  <1>7. /\ Len(replies'[c]) = m + 1 /\ replies'[c][m+1] = a
        /\ \A j \in 1..m : replies'[c][j] = replies[c][j]
    <2>1. Append(replies[c], a) = [j \in 1..m+1 |-> IF j = m + 1 THEN a ELSE replies[c][j]]
      BY <1>4, <1>6
    <2> QED BY <1>4, <1>6, <2>1
  <1>8. Done(c)' = m + 1 /\ Taken(c)' = Taken(c)
    BY <1>5, <1>7 DEF Done, Taken
  <1>9. ASSUME NEW j \in 1..m+1 PROVE replies'[c][j] = Promise!Answer(script[c][j])
    <2>1. j \in 1..m \/ j = m + 1
      BY <1>4
    <2>2. Answered(c)
      BY <1>3 DEF Served
    <2> QED BY <1>1, <1>4, <1>7, <2>1, <2>2 DEF Answered
  <1>10. Clear(c, m + 1)'
    BY <1>4, <1>5 DEF Clear
  <1> QED BY <1>1, <1>5, <1>8, <1>9, <1>10 DEF Answered

\* After a reply that keeps the connection the server is at the next request.
LEMMA ReplyServes ==
  ASSUME IInv, RepliesTyped, NEW c \in Clients, c = conn, c \notin gone, Served(c), SendReply
  PROVE  Served(c)'
  <1>1. CASE pc' = "close"
    BY <1>1 DEF Served
  <1>2. CASE pc' # "close"
    <2>1. /\ KeepConnection /\ pc' = "read" /\ line' = <<>> /\ newlines' = 0
          /\ req' = NewRequest /\ pc = "reply"
          /\ UNCHANGED <<script, sent, socket, buffer>>
      BY <1>2 DEF SendReply, AfterReply, clientVars
    <2>2. Answered(c)' /\ Done(c)' = Done(c) + 1 /\ Taken(c)' = Taken(c)
      BY ReplyAnswers
    <2>3. /\ ~Promise!IsError(Promise!Answer(Current(c)))
          /\ Done(c) + 1 \in 1..Len(script[c]) /\ Done(c) \in Nat
      BY <2>1, AnswerIsDue
    <2>4. NoError(c)'
      BY <2>1, <2>2, <2>3 DEF NoError, Current
    <2>5. InBuffer(c)'
      BY <2>1, <2>2 DEF InBuffer, Served
    <2>6. AtNoRequest(c)' \/ AtSomePlace(c)'
      <3>1. PICK m : m = Done(c) + 1
        OBVIOUS
      <3>2. script[c] \in Seq(Request) /\ m \in 0..Len(script[c])
        BY <2>3, <3>1, ScriptTyped DEF IInv
      <3>3. Taken(c)' = Mark(RequestTexts(script[c]), m)
        BY <2>1, <2>2, <3>1 DEF Served, AtReply
      <3> QED BY <2>1, <2>2, <3>1, <3>2, <3>3, NextRequestPlaced
    <2> QED BY <2>1, <2>2, <2>4, <2>5, <2>6 DEF Served
  <1> QED BY <1>1, <1>2

\* Steps that the server has no part in.
LEMMA FrameServes ==
  ASSUME IInv, NEW c \in Clients, Served(c), [Next]_vars,
         UNCHANGED <<pc, buffer, line, newlines, req, script, replies>>,
         Taken(c)' = Taken(c)
  PROVE  Served(c)'
  <1>1. Done(c)' = Done(c)
    BY DEF Done
  <1>2. Answered(c) => Answered(c)'
    <2>1. /\ script[c] \in Seq(Request) /\ sent[c] \in Nat /\ sent'[c] \in Nat
          /\ sent[c] <= sent'[c] /\ replies'[c] = replies[c]
      BY ScriptTyped, OnlyGrows DEF IInv
    <2> QED BY <2>1, AnsweredKept
  <1>3. NoError(c) => NoError(c)'
    BY <1>1 DEF NoError
  <1>4. InBuffer(c) => InBuffer(c)'
    BY DEF InBuffer
  <1>5. /\ AtNoRequest(c) => AtNoRequest(c)'
        /\ AtSomePlace(c) => AtSomePlace(c)'
        /\ AtEnd(c) => AtEnd(c)'
        /\ AtReply(c) => AtReply(c)'
    BY <1>1, PlacesKept
  <1> QED BY <1>2, <1>3, <1>4, <1>5 DEF Served

\* Every step leaves the server at some place of the text of its client.
LEMMA ServedStep ==
  ASSUME IInv, RepliesTyped, QueueFresh, SocketsHold, OthersWait, ServedRight,
         [Next]_vars
  PROVE  ServedRight'
  <1> SUFFICES ASSUME NEW c \in Clients, c \notin gone', c = conn'
               PROVE  Served(c)'
    BY DEF ServedRight
  <1>1. c \notin gone
    BY OnlyGrows DEF IInv
  <1>2. c # NoClient
    BY HttpAssumption
  <1>3. CASE Accept
    BY <1>1, <1>3, AcceptServes
  <1>4. CASE TooLong \/ EndOfInput \/ TimeOut \/ Fail
    <2>1. pc' \in {"close", "exited"}
      BY <1>4 DEF TooLong, EndOfInput, TimeOut, Fail
    <2> QED BY <2>1 DEF Served
  <1>5. CASE Close
    BY <1>2, <1>5 DEF Close
  <1>6. CASE SendFails
    BY <1>1, <1>6 DEF SendFails, AfterReply
  <1>7. ASSUME conn' = conn
        PROVE  Served(c) /\ InSocket(c) /\ c = conn
    BY <1>1, <1>7 DEF ServedRight, SocketsHold
  <1>8. CASE ReadChar
    <2>1. conn' = conn
      BY <1>8 DEF ReadChar
    <2> QED BY <1>7, <1>8, <2>1, ReadCharServes
  <1>9. CASE Fill
    <2>1. conn' = conn
      BY <1>9 DEF Fill
    <2> QED BY <1>7, <1>9, <2>1, FillServes
  <1>10. CASE EndRequest
    <2>1. conn' = conn
      BY <1>10 DEF EndRequest
    <2> QED BY <1>7, <1>10, <2>1, EndRequestServes
  <1>11. CASE SendReply
    <2>1. conn' = conn
      BY <1>11 DEF SendReply, AfterReply
    <2> QED BY <1>1, <1>7, <1>11, <2>1, ReplyServes
  <1>12. ASSUME UNCHANGED <<pc, conn, buffer, line, newlines, req, script, replies>>,
                sent'[c] = sent[c], socket'[c] = socket[c]
         PROVE  Served(c)'
    <2>1. Taken(c)' = Taken(c)
      BY <1>12 DEF Taken
    <2> QED BY <1>7, <1>12, <2>1, FrameServes
  <1>13. CASE Tick
    BY <1>12, <1>13 DEF Tick, requestVars, clientVars
  <1>14. CASE UNCHANGED vars
    BY <1>12, <1>14 DEF vars, requestVars, clientVars
  <1>15. ASSUME NEW d \in Clients, Connect(d) \/ Finish(d) \/ Reset(d)
         PROVE  Served(c)'
    <2>1. socket'[c] = socket[c]
      BY <1>15 DEF Connect, Finish, Reset, IInv, TypeOK
    <2> QED BY <1>12, <1>15, <2>1 DEF Connect, Finish, Reset, serverVars, requestVars
  <1>16. ASSUME NEW d \in Clients, Send(d)
         PROVE  Served(c)'
    <2>1. /\ UNCHANGED <<pc, conn, buffer, line, newlines, req, script, replies>>
          /\ c # d => socket'[c] = socket[c] /\ sent'[c] = sent[c]
          /\ c = d => sent'[c] = sent[c] + 1 /\ Len(socket'[c]) = Len(socket[c]) + 1
      BY <1>16, SendMoves
    <2>2. /\ sent[c] \in Nat /\ Len(socket[c]) \in Nat /\ Len(buffer) \in Nat
      BY CountsTyped DEF IInv
    <2>3. CASE c = d
      <3>1. PICK a \in Nat : a = sent[c]
        BY <2>2
      <3>2. PICK b \in Nat : b = Len(socket[c])
        BY <2>2
      <3>3. PICK n \in Nat : n = Len(buffer)
        BY <2>2
      <3>4. (a + 1) - n - (b + 1) = a - n - b
        OBVIOUS
      <3>5. Taken(c)' = Taken(c)
        BY <2>1, <2>3, <3>1, <3>2, <3>3, <3>4 DEF Taken
      <3> QED BY <1>7, <2>1, <3>5, FrameServes
    <2>4. CASE c # d
      BY <1>12, <2>1, <2>4
    <2> QED BY <2>3, <2>4
  <1> QED BY <1>3, <1>4, <1>5, <1>6, <1>8, <1>9, <1>10, <1>11, <1>13, <1>14, <1>15,
             <1>16 DEF Next, Server, Client

-----------------------------------------------------------------------------
(* The end of a connection.                                                *)

\* Within a request there is more of it to come.
LEMMA PlaceBefore ==
  ASSUME NEW s \in Seq(Request), NEW k \in 1..Len(s), NEW l \in 1..Len(s[k])+1,
         NEW i \in 0..Len(Lines(s[k])[l])+1
  PROVE  Place(s, k, l, i) < Mark(RequestTexts(s), k)
  <1> DEFINE r == s[k]
             t == LineTexts(r)
             u == RequestTexts(s)
  <1>1. r \in Request /\ l \in 1..Len(r)+1 /\ Len(s) \in Nat
    OBVIOUS
  <1>2. /\ t \in Seq(Seq(Chars)) /\ Len(t) = Len(r)+1 /\ Len(r) \in Nat
        /\ Len(Lines(r)[l]) \in Nat /\ Len(t[l]) = Len(Lines(r)[l]) + 2
    BY <1>1, LineTextsTyped, LinesTyped
  <1>3. u \in Seq(Seq(Chars)) /\ Len(u) = Len(s) /\ u[k] = Promise!TextOf(r)
    BY RequestTextsTyped
  <1>4. /\ l \in 1..Len(t) /\ l - 1 \in 0..Len(t) /\ Len(t) \in l..Len(t)
        /\ Len(t) \in 0..Len(t) /\ k \in 1..Len(u) /\ k - 1 \in 0..Len(u)
    <2>1. PICK d \in Nat : d = Len(r)
      BY <1>2
    <2>2. /\ l \in 1..d+1 /\ l - 1 \in 0..d+1 /\ d + 1 \in l..d+1 /\ d + 1 \in 0..d+1
      BY <1>1, <2>1
    <2>3. k - 1 \in 0..Len(s)
      BY <1>1
    <2> QED BY <1>2, <1>3, <2>1, <2>2, <2>3
  <1>5. PICK a \in Nat : a = Mark(u, k-1)
    <2> HIDE DEF u
    <2> QED BY <1>3, <1>4, UptoTyped
  <1>6. PICK b \in Nat : b = Mark(t, l-1)
    <2> HIDE DEF t
    <2> QED BY <1>2, <1>4, UptoTyped
  <1>7. PICK n \in Nat : n = Len(Lines(r)[l])
    BY <1>2
  <1>8. PICK m \in Nat : m = Mark(t, Len(t))
    <2> HIDE DEF t
    <2> QED BY <1>2, <1>4, UptoTyped
  <1>9. b + (n + 2) <= m
    <2>1. Mark(t, l) = b + (n + 2) /\ Mark(t, l) <= Mark(t, Len(t))
      <3> HIDE DEF t
      <3> QED BY <1>2, <1>4, <1>6, <1>7, UptoNext, UptoHolds
    <2> QED BY <1>8, <2>1
  <1>10. Mark(u, k) = a + m
    <2>1. Len(u[k]) = m
      BY <1>1, <1>2, <1>3, <1>8, TextOfIs DEF Mark
    <2> HIDE DEF u
    <2> QED BY <1>3, <1>4, <1>5, <2>1, UptoNext
  <1>11. i \in 0..n+1
    BY <1>7
  <1>12. a + b + i < a + m
    BY <1>9, <1>11
  <1> QED BY <1>5, <1>6, <1>10, <1>12 DEF Place

\* A line of the current request does not fit.
LEMMA TooLongSettles ==
  ASSUME IInv, RepliesTyped, NEW c \in Clients, c = conn, Served(c), TooLong
  PROVE  Settled(c)
  <1>1. /\ Answered(c) /\ (AtNoRequest(c) \/ AtSomePlace(c) \/ AtEnd(c))
        /\ newlines < 4 /\ Len(line) >= BuffSize - 1
    BY DEF Served, TooLong
  <1>2. CASE AtNoRequest(c)
    BY <1>1, <1>2 DEF AtNoRequest, Settled
  <1>3. CASE AtEnd(c)
    BY <1>1, <1>3 DEF AtEnd
  <1>4. CASE AtSomePlace(c)
    <2>1. PICK r : r = Current(c)
      OBVIOUS
    <2>2. r \in Request
      <3>1. Done(c) + 1 \in 1..Len(script[c])
        <4>1. Done(c) \in Nat /\ Len(script[c]) \in Nat /\ Done(c) < Len(script[c])
          BY <1>4, ScriptTyped DEF AtSomePlace, Done, RepliesTyped, IInv
        <4> QED BY <4>1
      <3> QED BY <2>1, <3>1, ScriptTyped DEF Current, IInv
    <2>3. PICK l \in 1..Len(r)+1 : \E i \in 0..Len(Lines(r)[l])+1 : AtPlace(c, l, i)
      BY <1>4, <2>1 DEF AtSomePlace
    <2>4. PICK i \in 0..Len(Lines(r)[l])+1 : AtPlace(c, l, i)
      BY <2>3
    <2>5. PICK w : w = Lines(r)[l]
      OBVIOUS
    <2>6. w \in Seq(Chars) /\ Len(w) \in Nat /\ Len(r) \in Nat /\ Len(r) >= 1
      BY <2>2, <2>3, <2>5, LineTextsTyped, LinesTyped
    <2>7. line = w \/ (i \in 0..Len(w) /\ line = SubSeq(w, 1, i))
      BY <2>1, <2>4, <2>5, <2>6 DEF AtPlace
    <2>8. Len(w) >= BuffSize - 1
      <3>1. CASE line = w
        BY <1>1, <3>1
      <3>2. CASE i \in 0..Len(w) /\ line = SubSeq(w, 1, i)
        <4>1. Len(SubSeq(w, 1, i)) = i
          BY <2>6, <3>2
        <4> QED BY <1>1, <2>6, <3>2, <4>1, HttpAssumption
      <3> QED BY <2>7, <3>1, <3>2
    <2>9. CASE l <= Len(r)
      <3>1. l \in 1..Len(r) /\ r[l] = w
        <4>1. l \in 1..Len(r)
          BY <2>3, <2>6, <2>9
        <4> QED BY <2>2, <2>5, <4>1, LinesTyped
      <3>2. Promise!TooLong(r)
        BY <2>8, <3>1 DEF Promise!TooLong
      <3> QED BY <1>1, <2>1, <3>2 DEF Settled
    <2>10. CASE ~(l <= Len(r))
      <3>1. l = Len(r) + 1
        BY <2>3, <2>6, <2>10
      <3>2. BuffSize - 1 <= 0
        BY <2>2, <2>5, <2>8, <3>1, LinesTyped, HttpAssumption
      <3>3. 1 \in 1..Len(r) /\ 1 \in 1..Len(r)+1
        BY <2>6
      <3>4. Len(r[1]) \in Nat
        BY <2>2, <3>3, LinesTyped, LineTextsTyped
      <3>5. Len(r[1]) >= BuffSize - 1
        BY <3>2, <3>4, HttpAssumption
      <3>6. Promise!TooLong(r)
        BY <3>3, <3>5 DEF Promise!TooLong
      <3> QED BY <1>1, <2>1, <3>6 DEF Settled
    <2> QED BY <2>9, <2>10
  <1> QED BY <1>1, <1>2, <1>3, <1>4

\* The client has ended its side within a request.
LEMMA EndOfInputSettles ==
  ASSUME IInv, RepliesTyped, NEW c \in Clients, c = conn, c \notin gone, Served(c),
         EndOfInput
  PROVE  Settled(c)
  <1>1. /\ Answered(c) /\ (AtNoRequest(c) \/ AtSomePlace(c) \/ AtEnd(c))
        /\ newlines < 4 /\ buffer = <<>> /\ socket[c] = <<>> /\ c \in finished
    BY DEF Served, EndOfInput, NeedsInput, Reading
  <1>2. CASE AtNoRequest(c)
    BY <1>1, <1>2 DEF AtNoRequest, Settled
  <1>3. CASE AtEnd(c)
    BY <1>1, <1>3 DEF AtEnd
  <1>4. CASE AtSomePlace(c)
    <2>1. PICK s : s = script[c]
      OBVIOUS
    <2>2. PICK k : k = Done(c) + 1
      OBVIOUS
    <2>3. s \in Seq(Request) /\ k \in 1..Len(s) /\ Current(c) = s[k]
      <3>1. /\ Done(c) \in Nat /\ Len(script[c]) \in Nat /\ Done(c) < Len(script[c])
            /\ script[c] \in Seq(Request)
        BY <1>4, ScriptTyped DEF AtSomePlace, Done, RepliesTyped, IInv
      <3>2. k \in 1..Len(s)
        BY <2>1, <2>2, <3>1
      <3> QED BY <2>1, <2>2, <3>1, <3>2 DEF Current
    <2>4. PICK l \in 1..Len(s[k])+1 : \E i \in 0..Len(Lines(s[k])[l])+1 : AtPlace(c, l, i)
      BY <1>4, <2>3 DEF AtSomePlace
    <2>5. PICK i \in 0..Len(Lines(s[k])[l])+1 : AtPlace(c, l, i)
      BY <2>4
    <2>6. Taken(c) = Place(s, k, l, i)
      BY <2>1, <2>2, <2>5 DEF AtPlace
    <2>7. sent[c] = Taken(c)
      <3>1. sent[c] \in Nat /\ Len(buffer) = 0 /\ Len(socket[c]) = 0
        BY <1>1, CountsTyped DEF IInv
      <3> QED BY <3>1 DEF Taken
    <2>8. Place(s, k, l, i) < Mark(RequestTexts(s), k)
      BY <2>3, <2>4, <2>5, PlaceBefore
    <2> QED BY <1>1, <2>1, <2>2, <2>6, <2>7, <2>8 DEF Settled
  <1> QED BY <1>1, <1>2, <1>3, <1>4

\* When the server is done with a client, that one has settled.
LEMMA ClosedStep ==
  ASSUME IInv, RepliesTyped, QueueFresh, ServedRight, ClosedRight, [Next]_vars
  PROVE  ClosedRight'
  <1> SUFFICES ASSUME NEW c \in Clients, c \notin gone', c \notin timedOut',
                      c \in served' \/ (pc' = "close" /\ c = conn')
               PROVE  Settled(c)'
    BY DEF ClosedRight
  <1>1. /\ c \notin gone /\ c \notin timedOut /\ script' = script
        /\ finished \subseteq finished'
        /\ sent[c] <= sent'[c] /\ sent[c] \in Nat /\ sent'[c] \in Nat
        /\ c \in finished => sent'[c] = sent[c]
    BY OnlyGrows DEF IInv
  <1>2. script[c] \in Seq(Request)
    BY ScriptTyped DEF IInv
  <1>3. ASSUME Settled(c), replies'[c] = replies[c]
        PROVE  Settled(c)'
    BY <1>1, <1>2, <1>3, SettledKept
  <1>4. SendReply \/ replies' = replies
    BY RepliesStep DEF IInv
  <1>5. CASE c \in served \/ (pc = "close" /\ c = conn)
    <2>1. Settled(c)
      BY <1>1, <1>5 DEF ClosedRight
    <2>2. replies'[c] = replies[c]
      <3>1. CASE c \in served
        BY <3>1, RepliesStep DEF IInv, QueueFresh
      <3>2. CASE pc = "close"
        BY <1>4, <3>2 DEF SendReply
      <3> QED BY <1>5, <3>1, <3>2
    <2> QED BY <1>3, <2>1, <2>2
  <1>6. CASE ~(c \in served \/ (pc = "close" /\ c = conn))
    <2>1. CASE Accept
      BY <1>6, <2>1 DEF Accept
    <2>2. CASE Close
      BY <1>6, <2>2 DEF Close
    <2>3. CASE SendFails
      BY <1>1, <1>6, <2>3 DEF SendFails, AfterReply
    <2>4. CASE ReadChar \/ Fill \/ EndRequest \/ Tick \/ Fail
      BY <1>6, <2>4 DEF ReadChar, Fill, NeedsInput, Reading, EndRequest, Tick, Idle, Fail
    <2>5. CASE TimeOut
      BY <1>6, <2>5 DEF TimeOut
    <2>6. ASSUME NEW d \in Clients, Client(d) PROVE FALSE
      BY <1>6, <2>6 DEF Client, Connect, Send, Finish, Reset, serverVars
    <2>7. CASE UNCHANGED vars
      BY <1>6, <2>7 DEF vars
    <2>8. CASE TooLong \/ EndOfInput
      <3>1. c = conn /\ replies' = replies
        BY <1>6, <2>8 DEF TooLong, EndOfInput
      <3>2. Served(c)
        BY <1>1, <3>1 DEF ServedRight
      <3>3. Settled(c)
        BY <1>1, <2>8, <3>1, <3>2, TooLongSettles, EndOfInputSettles
      <3> QED BY <1>3, <3>1, <3>3
    <2>9. CASE SendReply
      <3>1. c = conn /\ ~KeepConnection /\ pc = "reply"
        BY <1>6, <2>9 DEF SendReply, AfterReply
      <3>2. Served(c)
        BY <1>1, <3>1 DEF ServedRight
      <3>3. Answered(c)' /\ Done(c)' = Done(c) + 1
        BY <1>1, <2>9, <3>1, <3>2, ReplyAnswers
      <3>4. Promise!IsError(Promise!Answer(Current(c))) /\ Done(c) \in Nat
        BY <1>1, <3>1, <3>2, AnswerIsDue
      <3>5. Done(c)' > 0 /\ script'[c][Done(c)'] = Current(c)
        BY <1>1, <3>3, <3>4 DEF Current
      <3> QED BY <3>3, <3>4, <3>5 DEF Settled
    <2> QED BY <2>1, <2>2, <2>3, <2>4, <2>5, <2>6, <2>7, <2>8, <2>9 DEF Next, Server
  <1> QED BY <1>5, <1>6

-----------------------------------------------------------------------------
(* The answers.                                                            *)

\* The invariant holds at the start, and every step keeps it.
LEMMA InitDue ==
  ASSUME Init, IInv
  PROVE  DueInv
  <1>1. /\ pc = "accept" /\ conn = NoClient /\ queue = <<>> /\ served = {}
        /\ sent = [c \in Clients |-> 0] /\ socket = [c \in Clients |-> <<>>]
        /\ replies = [c \in Clients |-> <<>>]
    BY DEF Init
  <1>2. RepliesTyped
    <2>1. <<>> \in Seq(Reply)
      OBVIOUS
    <2> QED BY <1>1, <2>1 DEF RepliesTyped
  <1>3. QueueFresh
    <2>1. 1..Len(queue) = {}
      BY <1>1
    <2> QED BY <1>1, <2>1 DEF QueueFresh
  <1>4. ASSUME NEW c \in Clients PROVE InSocket(c)
    <2>1. sent[c] = 0 /\ Len(socket[c]) = 0 /\ 1..0 = {}
      BY <1>1
    <2>2. Len(Promise!Text(script[c])) \in Nat
      BY ScriptTyped DEF IInv
    <2> QED BY <2>1, <2>2 DEF InSocket
  <1>5. OthersWait
    BY <1>1 DEF OthersWait
  <1>6. ServedRight
    BY <1>1 DEF ServedRight, Served
  <1>7. ClosedRight
    BY <1>1 DEF ClosedRight
  <1> QED BY <1>2, <1>3, <1>4, <1>5, <1>6, <1>7 DEF DueInv, SocketsHold

LEMMA StepDue ==
  ASSUME IInv, DueInv, [Next]_vars
  PROVE  DueInv'
  <1>1. RepliesTyped'
    BY RepliesStep DEF IInv, DueInv
  <1>2. QueueFresh'
    BY QueueStep DEF IInv, DueInv
  <1>3. SocketsHold'
    BY SocketsStep DEF DueInv
  <1>4. OthersWait'
    BY OthersStep DEF DueInv
  <1>5. ServedRight'
    BY ServedStep DEF DueInv
  <1>6. ClosedRight'
    BY ClosedStep DEF DueInv
  <1> QED BY <1>1, <1>2, <1>3, <1>4, <1>5, <1>6 DEF DueInv

\* Whoever has settled has got all that is due.
LEMMA DueAnswers ==
  ASSUME IInv, DueInv
  PROVE  AllAnswered
  <1> SUFFICES ASSUME NEW c \in served, c \notin gone, c \notin timedOut
               PROVE  replies[c] = Promise!Due(c)
    BY DEF AllAnswered
  <1>1. c \in Clients
    BY DEF IInv, TypeOK
  <1>2. Settled(c)
    BY <1>1 DEF DueInv, ClosedRight
  <1>3. script[c] \in Seq(Request) /\ sent[c] \in Nat /\ replies[c] \in Seq(Reply)
    BY <1>1, ScriptTyped, CountsTyped DEF IInv, DueInv, RepliesTyped
  <1> QED BY <1>2, <1>3, SettledAnswers

\* A client whose connection the server has closed, and that has neither reset
\* it nor kept the server waiting, has got the answers to all the requests it
\* had sent, up to the first error.
THEOREM EveryoneAnswered == Spec => []AllAnswered
  <1>1. Init => IInv /\ TimerHeld /\ DueInv
    BY InitIInv, InitTimer, InitDue
  <1>2. IInv /\ TimerHeld /\ DueInv /\ [Next]_vars => (IInv /\ TimerHeld /\ DueInv)'
    BY StepTyped, StepKeepsScripts, StepKeepsTimer, StepDue DEF IInv
  <1>3. IInv /\ DueInv => AllAnswered
    BY DueAnswers
  <1> QED BY <1>1, <1>2, <1>3, PTL DEF Spec

-----------------------------------------------------------------------------
(* The refinement.                                                         *)

\* A reply is the next of those due.
LEMMA ReplyRefines ==
  ASSUME IInv, RepliesTyped, ServedRight, SendReply
  PROVE  Promise!Reply
  <1>1. PICK c \in Clients : c = conn
    BY DEF SendReply, IInv, TypeOK
  <1>2. pc = "reply" /\ c \notin gone /\ Served(c)
    BY <1>1 DEF SendReply, ServedRight
  <1>3. PICK m \in Nat : m = Done(c)
    BY <1>1, <1>2, AnswerIsDue
  <1>4. /\ ReplyOf(Code) = Promise!Answer(script[c][m+1])
        /\ m + 1 \in 1..Len(script[c]) /\ Clear(c, m + 1)
    BY <1>1, <1>2, <1>3, AnswerIsDue DEF Current
  <1>5. script[c] \in Seq(Request) /\ sent[c] \in Nat
    BY ScriptTyped, CountsTyped DEF IInv
  <1>6. /\ m + 1 <= Len(Promise!Due(c))
        /\ SubSeq(Promise!Due(c), 1, m + 1)
             = [j \in 1..m+1 |-> Promise!Answer(script[c][j])]
    <2>1. m + 1 \in 1..m+1
      OBVIOUS
    <2> QED BY <1>4, <1>5, <2>1, DueAtLeast
  <1>7. /\ replies[c] \in Seq(Reply) /\ Len(replies[c]) = m
        /\ \A j \in 1..m : replies[c][j] = Promise!Answer(script[c][j])
    BY <1>2, <1>3 DEF RepliesTyped, Done, Served, Answered
  <1>8. Append(replies[c], ReplyOf(Code)) = SubSeq(Promise!Due(c), 1, m + 1)
    <2>1. Append(replies[c], ReplyOf(Code))
            = [j \in 1..m+1 |-> IF j = m + 1 THEN ReplyOf(Code) ELSE replies[c][j]]
      BY <1>7
    <2>2. \A j \in 1..m+1 :
            (IF j = m + 1 THEN ReplyOf(Code) ELSE replies[c][j])
              = Promise!Answer(script[c][j])
      <3>1. \A j \in 1..m+1 : j = m + 1 \/ j \in 1..m
        OBVIOUS
      <3> QED BY <1>4, <1>7, <3>1
    <2> QED BY <1>6, <2>1, <2>2
  <1>9. replies' = [replies EXCEPT ![c] = SubSeq(Promise!Due(c), 1, m + 1)]
    <2>1. replies' = [replies EXCEPT ![c] = Append(replies[c], ReplyOf(Code))]
      BY <1>1 DEF SendReply
    <2> QED BY <1>8, <2>1
  <1>10. UNCHANGED <<script, sent, queue, conn, served>>
    BY DEF SendReply, AfterReply, clientVars
  <1>11. conn # NoClient
    BY <1>1, HttpAssumption
  <1> QED BY <1>1, <1>6, <1>7, <1>9, <1>10, <1>11 DEF Promise!Reply

\* The clients that the server has a connection to.
LEMMA ConnectedIs ==
  ASSUME IInv, NEW d
  PROVE  Connected(d) <=> d \in Promise!ToSet(queue) \cup {conn}
  <1>1. DOMAIN queue = 1..Len(queue)
    BY DEF IInv, TypeOK
  <1>2. d \in Promise!ToSet(queue) <=> \E k \in 1..Len(queue) : queue[k] = d
    BY <1>1 DEF Promise!ToSet
  <1> QED BY <1>2 DEF Connected

\* A client sends one character more.
LEMMA SendRefines ==
  ASSUME IInv, NEW d \in Clients, Send(d)
  PROVE  Promise!Send(d)
  <1>1. /\ sent' = [sent EXCEPT ![d] = @ + 1]
        /\ UNCHANGED <<script, queue, conn, served, replies>>
    BY DEF Send, serverVars
  <1>2. PICK n \in Nat : n = sent[d]
    BY CountsTyped DEF IInv
  <1>3. PICK m \in Nat : m = Len(Promise!Text(script[d]))
    BY ScriptTyped DEF IInv
  <1>4. n + 1 \in n+1..m
    BY <1>2, <1>3 DEF Send
  <1>5. sent' = [sent EXCEPT ![d] = n + 1]
    BY <1>1, <1>2
  <1>6. \E k \in sent[d]+1..Len(Promise!Text(script[d])) : sent' = [sent EXCEPT ![d] = k]
    BY <1>2, <1>3, <1>4, <1>5
  <1>7. d \in Promise!ToSet(queue) \cup {conn}
    BY ConnectedIs DEF Send
  <1> QED BY <1>1, <1>6, <1>7 DEF Promise!Send

\* A client connects.
LEMMA ConnectRefines ==
  ASSUME IInv, NEW d \in Clients, Connect(d)
  PROVE  Promise!Connect(d)
  <1>1. d \notin Promise!ToSet(queue) \cup served \cup {conn}
    BY ConnectedIs DEF Connect
  <1> QED BY <1>1 DEF Connect, serverVars, Promise!Connect

\* Every step is a step of the promise, or changes nothing it speaks of.
LEMMA StepRefines ==
  ASSUME IInv, DueInv, [Next]_vars
  PROVE  [Promise!Next]_(Promise!vars)
  <1>1. CASE Accept
    <2>1. conn = NoClient
      BY <1>1 DEF Accept, DueInv, QueueFresh
    <2>2. Promise!Accept
      BY <1>1, <2>1 DEF Accept, Promise!Accept
    <2> QED BY <2>2 DEF Promise!Next
  <1>2. CASE SendReply
    <2>1. Promise!Reply
      BY <1>2, ReplyRefines DEF DueInv
    <2> QED BY <2>1 DEF Promise!Next
  <1>3. CASE Close
    <2>1. conn # NoClient
      BY <1>3, HttpAssumption DEF Close, IInv, TypeOK
    <2>2. Promise!HangUp
      BY <1>3, <2>1 DEF Close, Promise!HangUp
    <2> QED BY <2>2 DEF Promise!Next
  <1>4. CASE \/ ReadChar \/ TooLong \/ Fill \/ EndOfInput \/ TimeOut \/ EndRequest
             \/ SendFails \/ Fail \/ Tick
    <2>1. UNCHANGED <<script, sent, queue, conn, served, replies>>
      BY <1>4 DEF ReadChar, TooLong, Fill, EndOfInput, TimeOut, EndRequest, SendFails,
                  AfterReply, Fail, Tick, clientVars
    <2> QED BY <2>1 DEF Promise!vars
  <1>5. ASSUME NEW d \in Clients, Client(d)
        PROVE  [Promise!Next]_(Promise!vars)
    <2>1. CASE Connect(d)
      <3>1. Promise!Connect(d)
        BY <2>1, ConnectRefines
      <3> QED BY <3>1 DEF Promise!Next
    <2>2. CASE Send(d)
      <3>1. Promise!Send(d)
        BY <2>2, SendRefines
      <3> QED BY <3>1 DEF Promise!Next
    <2>3. CASE Finish(d) \/ Reset(d)
      <3>1. UNCHANGED <<script, sent, queue, conn, served, replies>>
        BY <2>3 DEF Finish, Reset, serverVars
      <3> QED BY <3>1 DEF Promise!vars
    <2> QED BY <1>5, <2>1, <2>2, <2>3 DEF Client
  <1>6. CASE UNCHANGED vars
    BY <1>6 DEF vars, clientVars, Promise!vars
  <1> QED BY <1>1, <1>2, <1>3, <1>4, <1>5, <1>6 DEF Next, Server

\* The server implements its promise: clients are served in turn, and each is
\* sent the answers to its requests in their order, none before its request is
\* complete and none after an error.
THEOREM PromiseKept == Spec => KeepsPromise
  <1>1. Init => IInv /\ TimerHeld /\ DueInv
    BY InitIInv, InitTimer, InitDue
  <1>2. IInv /\ TimerHeld /\ DueInv /\ [Next]_vars => (IInv /\ TimerHeld /\ DueInv)'
    BY StepTyped, StepKeepsScripts, StepKeepsTimer, StepDue DEF IInv
  <1>3. Init => Promise!Init
    BY DEF Init, Promise!Init
  <1>4. IInv /\ DueInv /\ [Next]_vars => [Promise!Next]_(Promise!vars)
    BY StepRefines
  <1> QED BY <1>1, <1>2, <1>3, <1>4, PTL DEF Spec, KeepsPromise, Promise!Spec
=============================================================================

---------------------------- MODULE HttpService ----------------------------
(***************************************************************************)
(* What "Computer Networks/P4" promises, without sockets, buffers or       *)
(* timers: clients are served one after the other in the order they came,  *)
(* and each is sent the answers to its requests, in their order, none      *)
(* before its request is complete and none after an error.                 *)
(***************************************************************************)
EXTENDS Integers, Sequences, SequencesExt, FiniteSetsExt

CONSTANTS
  Clients,
  NoClient,    \* not one of them
  Site,        \* Site[h][p]: what is at path p of host h
  LineLimit    \* a line of so many characters is not read to its end

VARIABLES
  script,      \* script[c]: the requests that c is going to send
  sent,        \* sent[c]: how much of their text it has sent
  queue,       \* clients waiting for the server
  serving,     \* the client it talks to, or NoClient
  served,      \* those it has hung up on
  replies      \* replies[c]: what it has sent to c

vars == <<script, sent, queue, serving, served, replies>>

-----------------------------------------------------------------------------
(* A request is a sequence of lines, a line a sequence of characters.  The *)
(* first character of a line tells which field it is, and the second is    *)
(* the whole of its value; such a line counts as two characters.           *)

CR == "cr"
LF == "lf"

\* What goes over the connection: a line ends with CR LF, a request with an
\* empty line.
TextOf(request) ==
  FlattenSeq([k \in 1..Len(request) |-> request[k] \o <<CR, LF>>]) \o <<CR, LF>>
Text(requests) ==
  FlattenSeq([k \in 1..Len(requests) |-> TextOf(requests[k])])

\* The last value that a request gives to a field, and none if it gives none.
NoValue == ""
Given(request, field) ==
  {k \in 1..Len(request) : Len(request[k]) = 2 /\ request[k][1] = field}
Value(request, field) ==
  IF Given(request, field) = {} THEN NoValue
  ELSE request[Max(Given(request, field))][2]

ErrorReply(code) == [code |-> code, host |-> NoValue, path |-> NoValue]

\* The reply a request calls for.
Answer(request) ==
  LET h == Value(request, "Host")
      p == Value(request, "GET")
      At(code) == [code |-> code, host |-> h, path |-> p]
  IN  IF \E field \in {"Host", "GET"} : Given(request, field) = {} THEN ErrorReply(501)
      ELSE IF h \notin DOMAIN Site \/ Site[h][p] = "none" THEN ErrorReply(404)
      ELSE IF Site[h][p] = "outside" THEN ErrorReply(501)
      ELSE At(IF Site[h][p] = "folder" THEN 301 ELSE 200)

IsError(reply) == reply.code \notin {200, 301}

TooLong(request) == \E k \in 1..Len(request) : Len(request[k]) >= LineLimit

\* The replies due to c for the requests it has sent completely: if one is due,
\* those before it are.
Due(c) ==
  LET request(k) == script[c][k]
      Complete(k) == Len(Text(SubSeq(script[c], 1, k))) <= sent[c]
      Reached(k) ==
        /\ \A j \in 1..k : ~TooLong(request(j))
        /\ \A j \in 1..k-1 : ~IsError(Answer(request(j)))
      due == {k \in 1..Len(script[c]) : Complete(k) /\ Reached(k)}
  IN  [k \in due |-> Answer(request(k))]

-----------------------------------------------------------------------------
Init ==
  /\ sent = [c \in Clients |-> 0]
  /\ queue = <<>>
  /\ serving = NoClient
  /\ served = {}
  /\ replies = [c \in Clients |-> <<>>]

Connect(c) ==
  /\ c \notin ToSet(queue) \cup served \cup {serving}
  /\ queue' = Append(queue, c)
  /\ UNCHANGED <<script, sent, serving, served, replies>>

Send(c) ==
  /\ c \in ToSet(queue) \cup {serving}
  /\ \E n \in sent[c]+1..Len(Text(script[c])) : sent' = [sent EXCEPT ![c] = n]
  /\ UNCHANGED <<script, queue, serving, served, replies>>

Accept ==
  /\ serving = NoClient /\ queue # <<>>
  /\ serving' = Head(queue)
  /\ queue' = Tail(queue)
  /\ UNCHANGED <<script, sent, served, replies>>

Reply ==
  /\ serving # NoClient
  /\ LET n == Len(replies[serving]) + 1
     IN  /\ n <= Len(Due(serving))
         /\ replies' = [replies EXCEPT ![serving] = SubSeq(Due(serving), 1, n)]
  /\ UNCHANGED <<script, sent, queue, serving, served>>

HangUp ==
  /\ serving # NoClient
  /\ served' = served \cup {serving}
  /\ serving' = NoClient
  /\ UNCHANGED <<script, sent, queue, replies>>

Next ==
  \/ \E c \in Clients : Connect(c) \/ Send(c)
  \/ Accept \/ Reply \/ HangUp

Spec == Init /\ [][Next]_vars
=============================================================================

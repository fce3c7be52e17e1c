----------------------------- MODULE HttpServer -----------------------------
(***************************************************************************)
(* The HTTP server of "Computer Networks/P4": one connection at a time,    *)
(* requests read character by character from a buffer that recv fills with *)
(* whatever has arrived, a timer that select counts down, and replies that *)
(* keep the connection or close it.                                        *)
(***************************************************************************)
EXTENDS Integers, Sequences

CONSTANTS
  Clients, NoClient,
  Chars,       \* the characters that requests consist of
  Scripts,     \* Scripts[c]: the sequences of requests that c may send
  Site,        \* the files under the server's catalog, as in HttpService
  BuffSize,    \* BUFFSIZE, of the receive buffer and of a line
  Timeout      \* one second, in turns of the clock

ASSUME HttpAssumption ==
  /\ NoClient \notin Clients
  /\ BuffSize \in Nat \ {0}
  /\ Timeout \in Nat

VARIABLES
  pc,          \* where main() is
  conn,        \* conn_sockfd, the client at its other end
  buffer,      \* req_buf, from buffer_readen to buffer_len
  tv,          \* what select has left of the timer
  line,        \* line[0..line_chars-1]
  newlines,    \* newlines_in_a_row
  req,         \* the Request
  queue,       \* connections waiting for accept, the oldest first
  script, sent, socket,  \* the clients: what c sends, how much of it it has
                         \* sent, and what of that recv has not taken yet
  finished,    \* clients that have ended their side of the connection
  gone,        \* clients that have reset it
  served,      \* clients the server has closed the connection of
  replies      \* what the server has sent

\* Only for the properties: the turns of the clock the server has waited for
\* its client since it last had reason to reset the timer, and the clients it
\* has given up for their silence.
VARIABLES waited, timedOut

requestVars == <<buffer, line, newlines, req>>
clientVars  == <<queue, script, sent, socket, finished, gone>>
timerVars   == <<tv, waited, timedOut>>
vars == <<pc, conn, requestVars, clientVars, timerVars, served, replies>>

Promise == INSTANCE HttpService WITH serving <- conn, LineLimit <- BuffSize - 1

CR == Promise!CR
LF == Promise!LF
NoValue == Promise!NoValue

\* What a client sends is made of requests, a request of lines, and no line is
\* empty: an empty one ends the request.
Line == Seq(Chars \ {CR, LF}) \ {<<>>}
Request == Seq(Line) \ {<<>>}

ASSUME ScriptAssumption ==
  /\ {CR, LF} \subseteq Chars
  /\ \A c \in Clients : Scripts[c] \subseteq Seq(Request)

\* Whatever path a client asks for, each host has something to say of it.
ASSUME SiteAssumption ==
  \A c \in Clients : \A s \in Scripts[c] :
    \A k \in 1..Len(s) : \A l \in Promise!Given(s[k], "GET") :
      \A h \in DOMAIN Site : Site[h][s[k][l][2]] \in {"outside", "none", "folder", "file"}

-----------------------------------------------------------------------------
\* init_request
NewRequest ==
  [path |-> NoValue, host |-> NoValue, get_flag |-> FALSE, host_flag |-> FALSE]

Init ==
  /\ pc = "accept" /\ conn = NoClient
  /\ buffer = <<>> /\ line = <<>> /\ newlines = 0 /\ req = NewRequest
  /\ tv = Timeout /\ waited = 0 /\ timedOut = {}
  /\ script \in [Clients -> UNION {Scripts[c] : c \in Clients}]
  /\ \A c \in Clients : script[c] \in Scripts[c]
  /\ sent = [c \in Clients |-> 0] /\ socket = [c \in Clients |-> <<>>]
  /\ queue = <<>> /\ finished = {} /\ gone = {} /\ served = {}
  /\ replies = [c \in Clients |-> <<>>]

-----------------------------------------------------------------------------
(* The server.                                                             *)

\* A connection starts with an empty buffer and a whole second.
Accept ==
  /\ pc = "accept" /\ queue # <<>>
  /\ conn' = Head(queue) /\ queue' = Tail(queue)
  /\ buffer' = <<>> /\ line' = <<>> /\ newlines' = 0 /\ req' = NewRequest
  /\ tv' = Timeout /\ waited' = 0
  /\ pc' = "read"
  /\ UNCHANGED <<script, sent, socket, finished, gone, timedOut, served, replies>>

\* read_request is to read another character.
Reading == pc = "read" /\ newlines < 4 /\ Len(line) < BuffSize - 1

\* A GET line or a Host line with both its parts sets the field; of a line
\* with less, and of other lines, nothing is kept that a reply depends on.
ParseLine(text, r) ==
  IF Len(text) # 2 THEN r
  ELSE CASE text[1] = "GET"  -> [r EXCEPT !.path = text[2], !.get_flag = TRUE]
         [] text[1] = "Host" -> [r EXCEPT !.host = text[2], !.host_flag = TRUE]
         [] OTHER -> r

\* Faulty variant: only the ends of lines are counted, so that a request with
\* two lines is taken to end before its empty line.
ReadCharCountsAll ==
  /\ Reading /\ buffer # <<>>
  /\ buffer' = Tail(buffer)
  /\ LET c == Head(buffer)
     IN  /\ newlines' = IF c \in {CR, LF} THEN newlines + 1 ELSE newlines
         /\ line' = CASE c = LF -> <<>> [] c = CR -> line [] OTHER -> Append(line, c)
         /\ req' = IF c = LF THEN ParseLine(line, req) ELSE req
  /\ UNCHANGED <<pc, conn, clientVars, timerVars, served, replies>>

ReadChar ==
  /\ Reading /\ buffer # <<>>
  /\ buffer' = Tail(buffer)
  /\ LET c == Head(buffer)
     IN  /\ newlines' = IF c \in {CR, LF} THEN newlines + 1 ELSE 0
         /\ line' = CASE c = LF -> <<>> [] c = CR -> line [] OTHER -> Append(line, c)
         /\ req' = IF c = LF THEN ParseLine(line, req) ELSE req
  /\ UNCHANGED <<pc, conn, clientVars, timerVars, served, replies>>

\* The line does not fit: read_request returns 0.
TooLong ==
  /\ pc = "read" /\ newlines < 4 /\ Len(line) >= BuffSize - 1
  /\ pc' = "close"
  /\ UNCHANGED <<conn, requestVars, clientVars, timerVars, served, replies>>

\* fill_buffer is called, and there is nothing to receive yet.
NeedsInput == Reading /\ buffer = <<>>
Idle == NeedsInput /\ socket[conn] = <<>> /\ conn \notin finished \cup gone

\* Faulty variant: recv is allowed more than the buffer holds.
FillUnbounded ==
  /\ NeedsInput /\ socket[conn] # <<>>
  /\ buffer' = socket[conn]
  /\ socket' = [socket EXCEPT ![conn] = <<>>]
  /\ UNCHANGED <<pc, conn, line, newlines, req, queue, script, sent, finished, gone>>
  /\ UNCHANGED <<timerVars, served, replies>>

\* Faulty variant: every piece of a request starts the second anew.
FillRestartsTimer ==
  /\ NeedsInput /\ socket[conn] # <<>>
  /\ LET n == IF Len(socket[conn]) < BuffSize THEN Len(socket[conn]) ELSE BuffSize
     IN  /\ buffer' = SubSeq(socket[conn], 1, n)
         /\ socket' = [socket EXCEPT ![conn] = SubSeq(@, n + 1, Len(@))]
  /\ tv' = Timeout
  /\ UNCHANGED <<pc, conn, line, newlines, req, queue, script, sent, finished, gone>>
  /\ UNCHANGED <<waited, timedOut, served, replies>>

\* select and recv: what has arrived, as far as the buffer goes.
Fill ==
  /\ NeedsInput /\ socket[conn] # <<>>
  /\ LET n == IF Len(socket[conn]) < BuffSize THEN Len(socket[conn]) ELSE BuffSize
     IN  /\ buffer' = SubSeq(socket[conn], 1, n)
         /\ socket' = [socket EXCEPT ![conn] = SubSeq(@, n + 1, Len(@))]
  /\ UNCHANGED <<pc, conn, line, newlines, req, queue, script, sent, finished, gone>>
  /\ UNCHANGED <<timerVars, served, replies>>

\* recv returns 0: the client has sent all it is going to send.
EndOfInput ==
  /\ NeedsInput /\ socket[conn] = <<>> /\ conn \in finished \cup gone
  /\ pc' = "close"
  /\ UNCHANGED <<conn, requestVars, clientVars, timerVars, served, replies>>

\* Faulty variant: select waits forever once the timer is used up.
TimeOutNever ==
  /\ Idle /\ tv < 0
  /\ timedOut' = timedOut \cup {conn}
  /\ pc' = "close"
  /\ UNCHANGED <<conn, requestVars, clientVars, tv, waited, served, replies>>

\* select returns 0: the timer of the connection has run out.
TimeOut ==
  /\ Idle /\ tv = 0
  /\ timedOut' = timedOut \cup {conn}
  /\ pc' = "close"
  /\ UNCHANGED <<conn, requestVars, clientVars, tv, waited, served, replies>>

\* A request is complete.  A path outside of its host is as good as none.
EndRequest ==
  /\ pc = "read" /\ newlines = 4
  /\ req' = [req EXCEPT !.get_flag =
               @ /\ ~(/\ req.host \in DOMAIN Site
                      /\ Site[req.host][req.path] = "outside")]
  /\ pc' = "reply"
  /\ UNCHANGED <<conn, buffer, line, newlines, clientVars, timerVars, served, replies>>

\* What send_reply finds in the catalog, as the code of the reply.
Code ==
  IF ~req.get_flag \/ ~req.host_flag THEN 501
  ELSE IF req.host \notin DOMAIN Site \/ Site[req.host][req.path] = "none" THEN 404
  ELSE IF Site[req.host][req.path] = "folder" THEN 301 ELSE 200

KeepConnection == Code \in {200, 301}

ReplyOf(code) ==
  IF KeepConnection THEN [code |-> code, host |-> req.host, path |-> req.path]
  ELSE [code |-> code, host |-> NoValue, path |-> NoValue]

\* Faulty variant: the buffer is emptied for the next request.
AfterReplyDropsBuffer ==
  \/ /\ KeepConnection
     /\ buffer' = <<>> /\ line' = <<>> /\ newlines' = 0 /\ req' = NewRequest
     /\ tv' = Timeout /\ waited' = 0
     /\ pc' = "read"
     /\ UNCHANGED <<conn, clientVars, timedOut, served>>
  \/ /\ ~KeepConnection
     /\ pc' = "close"
     /\ UNCHANGED <<conn, requestVars, clientVars, timerVars, served>>

\* Back to the top of the loop of the connection, with the timer set again,
\* or out of it.
AfterReply ==
  \/ /\ KeepConnection
     /\ line' = <<>> /\ newlines' = 0 /\ req' = NewRequest
     /\ tv' = Timeout /\ waited' = 0
     /\ pc' = "read"
     /\ UNCHANGED <<conn, buffer, clientVars, timedOut, served>>
  \/ /\ ~KeepConnection
     /\ pc' = "close"
     /\ UNCHANGED <<conn, requestVars, clientVars, timerVars, served>>

SendReply ==
  /\ pc = "reply" /\ conn \notin gone
  /\ replies' = [replies EXCEPT ![conn] = Append(@, ReplyOf(Code))]
  /\ AfterReply

\* send fails.  reply() returns 0, which nobody looks at, unless the signal
\* of the broken connection ends the program.
SendFails ==
  /\ pc = "reply" /\ conn \in gone
  /\ \/ AfterReply /\ UNCHANGED replies
     \/ /\ pc' = "exited"
        /\ UNCHANGED <<conn, requestVars, clientVars, timerVars, served, replies>>

\* The locals of the connection go out of scope.
Close ==
  /\ pc = "close"
  /\ served' = served \cup {conn}
  /\ socket' = [socket EXCEPT ![conn] = <<>>]
  /\ conn' = NoClient
  /\ buffer' = <<>> /\ line' = <<>> /\ newlines' = 0 /\ req' = NewRequest
  /\ tv' = Timeout /\ waited' = 0
  /\ pc' = "accept"
  /\ UNCHANGED <<queue, script, sent, finished, gone, timedOut, replies>>

\* accept, select, recv or close fails: the wrapper ends the program.
Fail ==
  /\ pc \in {"accept", "close"} \/ NeedsInput
  /\ pc' = "exited"
  /\ UNCHANGED <<conn, requestVars, clientVars, timerVars, served, replies>>

Server ==
  \/ Accept \/ ReadChar \/ TooLong \/ Fill \/ EndOfInput \/ TimeOut
  \/ EndRequest \/ SendReply \/ SendFails \/ Close

-----------------------------------------------------------------------------
(* The clock and the clients.                                              *)

serverVars == <<pc, conn, requestVars, timerVars, served, replies>>

\* Time passes while select waits, and select takes it off the timer.
Tick ==
  /\ Idle /\ tv > 0
  /\ tv' = tv - 1 /\ waited' = waited + 1
  /\ UNCHANGED <<pc, conn, requestVars, clientVars, timedOut, served, replies>>

Connected(c) == c = conn \/ \E k \in 1..Len(queue) : queue[k] = c

Connect(c) ==
  /\ ~Connected(c) /\ c \notin served
  /\ queue' = Append(queue, c)
  /\ UNCHANGED <<serverVars, script, sent, socket, finished, gone>>

\* A client sends when it likes, also before it is accepted, and stops
\* wherever it likes.
Send(c) ==
  /\ Connected(c) /\ c \notin finished \cup gone
  /\ sent[c] < Len(Promise!Text(script[c]))
  /\ sent' = [sent EXCEPT ![c] = @ + 1]
  /\ socket' = [socket EXCEPT ![c] = Append(@, Promise!Text(script[c])[sent'[c]])]
  /\ UNCHANGED <<serverVars, queue, script, finished, gone>>

Finish(c) ==
  /\ Connected(c) /\ c \notin finished \cup gone
  /\ finished' = finished \cup {c}
  /\ UNCHANGED <<serverVars, queue, script, sent, socket, gone>>

\* The connection is reset; what the server has not received may be lost.
Reset(c) ==
  /\ Connected(c) /\ c \notin gone
  /\ gone' = gone \cup {c}
  /\ \/ UNCHANGED socket
     \/ socket' = [socket EXCEPT ![c] = <<>>]
  /\ UNCHANGED <<serverVars, queue, script, sent, finished>>

Client(c) == Connect(c) \/ Send(c) \/ Finish(c) \/ Reset(c)

Next == Server \/ Fail \/ Tick \/ \E c \in Clients : Client(c)

Spec == Init /\ [][Next]_vars

\* The server runs on, and time passes while it waits.
Fairness == WF_vars(Server) /\ WF_vars(Tick)

FairSpec == Spec /\ Fairness

-----------------------------------------------------------------------------
RequestType ==
  [path : Chars \cup {NoValue}, host : Chars \cup {NoValue},
   get_flag : BOOLEAN, host_flag : BOOLEAN]

\* The type of every variable, with the bounds of the two character arrays:
\* recv stays within the buffer, and a line leaves room for "\n" and 0.
TypeOK ==
  /\ pc \in {"accept", "read", "reply", "close", "exited"}
  /\ conn \in Clients \cup {NoClient}
  /\ pc \in {"read", "reply", "close"} => conn \in Clients
  /\ buffer \in Seq(Chars) /\ Len(buffer) <= BuffSize
  /\ line \in Seq(Chars) /\ Len(line) + 1 <= BuffSize
  /\ newlines \in 0..4
  /\ req \in RequestType
  /\ tv \in 0..Timeout /\ waited \in 0..Timeout
  /\ queue \in Seq(Clients)
  /\ sent \in [Clients -> Nat]
  /\ socket \in [Clients -> Seq(Chars)]
  /\ finished \subseteq Clients /\ gone \subseteq Clients
  /\ served \subseteq Clients /\ timedOut \subseteq Clients

\* Clients are served in turn, and each gets the answers to its requests, in
\* order, as if they had come one by one: however the text is cut into pieces
\* and requests share a buffer, and whatever an earlier request has said.
KeepsPromise == Promise!Spec

\* A client whose connection the server has closed has got the answers to all
\* the requests it had sent, up to the first error; unless it reset the
\* connection or kept the server waiting.
AllAnswered ==
  \A c \in served \ (gone \cup timedOut) : replies[c] = Promise!Due(c)

\* A silent client is given up when the server has waited for it one second
\* in all since it was accepted or last answered, no sooner and no later,
\* however many pieces its request comes in.
OneSecondInAll ==
  [][ /\ waited' <= Timeout
      /\ timedOut' # timedOut => waited = Timeout ]_vars

\* Nobody in the queue is kept from the server for good by those before it,
\* unless the server has ended: Recv exits when a client resets its connection.
EveryoneServed ==
  \A c \in Clients :
    (\E k \in 1..Len(queue) : queue[k] = c) ~> (c \in served \/ pc = "exited")
=============================================================================

---------------------------- MODULE MCHttpServer ----------------------------
(* Instances of HttpServer small enough for TLC.                           *)
EXTENDS HttpServer, TLC

CONSTANTS c1, c2

OneSite == [dom |-> [page |-> "file", dir |-> "folder", up |-> "outside", no |-> "none"]]

Get(p)  == <<"GET", p>>
Host(h) == <<"Host", h>>
Other   == <<"Field", "x">>
Long    == <<"Field", "x", "y">>

Letters == {Promise!CR, Promise!LF, "GET", "Host", "Field", "x", "y",
            "dom", "other", "page", "dir", "up", "no"}

\* c1 sends one or two requests.  A second one lacks, repeats or spoils what the
\* first one gave, or the first one ends the connection.  c2 is silent.
SomeScripts ==
  c1 :> { << <<Host("dom"), Get("dir")>>, <<Get("page"), Host("dom")>> >>,
          << <<Get("page"), Host("dom")>>, <<Host("dom"), Other>> >>,
          << <<Get("page"), Host("dom")>>, <<Get("page"), <<"Host">> >> >>,
          << <<Get("page"), Get("no"), Host("dom")>>, << <<"Field">> >> >>,
          << <<Get("no"), Get("page"), Host("dom")>>, <<Long>> >>,
          << <<Get("up"), Host("dom")>> >>,
          << <<Get("page"), Host("other")>> >> }
  @@ c2 :> { <<>> }

\* Fewer interleavings.  While the server works on what is in its buffer,
\* which no client can see, nothing else happens; and a client that waits to be
\* accepted, whose socket the server does not look at, sends nothing yet: what
\* it would send comes between accept and the first recv.
Local == ReadChar \/ TooLong \/ EndRequest
InBuffer == pc = "read" /\ ~NeedsInput

EagerNext ==
  \/ InBuffer /\ Local
  \/ /\ ~InBuffer
     /\ \/ Server \/ Fail \/ Tick
        \/ \E c \in Clients : Connect(c) \/ (c = conn /\ Client(c))

EagerSpec == Init /\ [][EagerNext]_vars /\ Fairness
=============================================================================

----------------------------- MODULE LampServer -----------------------------
(***************************************************************************)
(* The web server sketch (Server.ino): the board is an access point, takes *)
(* one client at a time and looks in its request lines for the commands    *)
(* that switch the lamps of the RGB LED.  A request is a sequence of       *)
(* tokens: "GET" for the text "GET /", a command, "text" for anything      *)
(* else, "nl" and "cr".                                                    *)
(*                                                                         *)
(* WiFiServer and WiFiClient are what WifiSockets promises of them with    *)
(* one client per socket; devices and radio are external.                  *)
(***************************************************************************)
EXTENDS Sequences, Naturals

CONSTANTS
  Clients,    \* devices that may open a connection
  Requests,   \* what a client may send on one connection
  MaxVisits   \* bound on the connections made

ServerAssumption == Requests \subseteq Seq(STRING) /\ MaxVisits \in Nat

\* The commands of two of the three lamps; the third has the same code.
Lamps    == {"red", "green"}
Commands == [RH |-> <<"red", TRUE>>, RL |-> <<"red", FALSE>>,
             GH |-> <<"green", TRUE>>, GL |-> <<"green", FALSE>>]

VARIABLES
  pc,         \* "setup", "loop", "serve" or "halted" (the sketch's while (true))
  client,     \* whom the sketch serves, in "serve"
  currentLine,
  lamps,
  open,       \* the client's end of the connection is open
  unsent,     \* what the client has still to send
  unread,     \* what has come and is not read
  taken,      \* history: what the sketch read on this connection, "cr" left out
  answered,   \* the page was sent on this connection
  visits

sketch == <<pc, client, currentLine, lamps>>
net    == <<open, unsent, unread, taken, answered, visits>>
vars   == <<sketch, net>>

-----------------------------------------------------------------------------
Init ==
  /\ pc = "setup" /\ client \in Clients /\ currentLine = <<>>
  /\ lamps = [l \in Lamps |-> FALSE]
  /\ open = [c \in Clients |-> FALSE]   /\ unsent = [c \in Clients |-> <<>>]
  /\ unread = [c \in Clients |-> <<>>]  /\ taken = [c \in Clients |-> <<>>]
  /\ answered = [c \in Clients |-> FALSE]
  /\ visits = 0

\* setup(): without a WiFi module or an access point the sketch stops for ever.
Setup ==
  /\ pc = "setup"
  /\ pc' \in {"halted", "loop"}
  /\ UNCHANGED <<client, currentLine, lamps, net>>

\* (a bug to be caught: the line of the client before is still there)
AvailableKeepsLine(c) ==
  /\ pc = "loop" /\ unread[c] # <<>>
  /\ pc' = "serve" /\ client' = c /\ currentLine' = currentLine
  /\ UNCHANGED <<lamps, net>>

\* loop(): server.available() hands out a client that has sent something.
Available(c) ==
  /\ pc = "loop" /\ unread[c] # <<>>
  /\ pc' = "serve" /\ client' = c /\ currentLine' = <<>>
  /\ UNCHANGED <<lamps, net>>

\* The line after one more token: "cr" is dropped.
Line(tok) == CASE tok = "nl" -> <<>> [] tok = "cr" -> currentLine [] OTHER -> Append(currentLine, tok)

\* The command the line ends with, tested after every byte.
Ordered(line) ==
  {k \in DOMAIN Commands :
     Len(line) > 1 /\ line[Len(line)] = k /\ line[Len(line) - 1] = "GET"}

\* stop(): what the client sent beyond is lost with the socket.
Stop(c) ==
  /\ pc' = "loop"
  /\ open' = [open EXCEPT ![c] = FALSE]
  /\ unsent' = [unsent EXCEPT ![c] = <<>>]
  /\ unread' = [unread EXCEPT ![c] = <<>>]

\* A blank line ends the request: the page is sent and the connection closed.
Answer ==
  /\ pc = "serve" /\ unread[client] # <<>>
  /\ Head(unread[client]) = "nl" /\ currentLine = <<>>
  /\ answered' = [answered EXCEPT ![client] = open[client]]
  /\ Stop(client)
  /\ UNCHANGED <<client, currentLine, lamps, taken, visits>>

ReadByte ==
  /\ pc = "serve" /\ unread[client] # <<>>
  /\ LET tok == Head(unread[client])
     IN  /\ ~(tok = "nl" /\ currentLine = <<>>)
         /\ currentLine' = Line(tok)
         /\ lamps' = [l \in Lamps |->
                        IF \E k \in Ordered(Line(tok)) : Commands[k][1] = l
                        THEN \E k \in Ordered(Line(tok)) : Commands[k] = <<l, TRUE>>
                        ELSE lamps[l]]
         /\ taken' = IF tok = "cr" THEN taken ELSE [taken EXCEPT ![client] = Append(@, tok)]
  /\ unread' = [unread EXCEPT ![client] = Tail(@)]
  /\ UNCHANGED <<pc, client, open, unsent, answered, visits>>

\* (a bug to be caught: only the answer ends the loop)
OverNever(c) == FALSE
\* connected() is false: closed by the client and read to the end.
Over(c) == ~open[c] /\ unread[c] = <<>>

ClientGone ==
  /\ pc = "serve" /\ Over(client)
  /\ Stop(client)
  /\ UNCHANGED <<client, currentLine, lamps, taken, answered, visits>>

Sketch == Setup \/ (\E c \in Clients : Available(c)) \/ Answer \/ ReadByte \/ ClientGone

-----------------------------------------------------------------------------
\* External: a client connects, sends its request piece by piece, may go away.
Visit(c) ==
  /\ pc # "setup" /\ ~open[c] /\ unread[c] = <<>> /\ visits < MaxVisits
  /\ ~(pc = "serve" /\ client = c)
  /\ \E r \in Requests : unsent' = [unsent EXCEPT ![c] = r]
  /\ open' = [open EXCEPT ![c] = TRUE]
  /\ taken' = [taken EXCEPT ![c] = <<>>]
  /\ answered' = [answered EXCEPT ![c] = FALSE]
  /\ visits' = visits + 1
  /\ UNCHANGED <<sketch, unread>>

Send(c) ==
  /\ open[c] /\ unsent[c] # <<>>
  /\ unread' = [unread EXCEPT ![c] = Append(@, Head(unsent[c]))]
  /\ unsent' = [unsent EXCEPT ![c] = Tail(@)]
  /\ UNCHANGED <<sketch, open, taken, answered, visits>>

Leave(c) ==
  /\ open[c]
  /\ open' = [open EXCEPT ![c] = FALSE]
  /\ unsent' = [unsent EXCEPT ![c] = <<>>]
  /\ UNCHANGED <<sketch, unread, taken, answered, visits>>

Next == Sketch \/ \E c \in Clients : Visit(c) \/ Send(c) \/ Leave(c)

Spec == Init /\ [][Next]_vars

\* The sketch runs; a client sends all it has to send and then waits for the
\* page or leaves: the sketch has no limit of its own on a client that is silent.
Fairness ==
  /\ WF_vars(Sketch)
  /\ \A c \in Clients :
       WF_vars(Send(c)) /\ WF_vars(Leave(c) /\ unsent[c] = <<>> /\ unread[c] = <<>>)

FairSpec == Spec /\ Fairness

-----------------------------------------------------------------------------
(* Types; and while a client is served, the line is the end of what this   *)
(* client sent, without line ends.                                         *)
TypeOK ==
  /\ pc \in {"setup", "loop", "serve", "halted"} /\ client \in Clients
  /\ lamps \in [Lamps -> BOOLEAN] /\ open \in [Clients -> BOOLEAN]
  /\ answered \in [Clients -> BOOLEAN] /\ visits \in 0 .. MaxVisits
  /\ pc = "serve" =>
       LET t == taken[client]  n == Len(currentLine)
       IN  /\ n <= Len(t) /\ currentLine = SubSeq(t, Len(t) - n + 1, Len(t))
           /\ n < Len(t) => t[Len(t) - n] = "nl"

(* A lamp changes only for a command that one client sent whole, behind    *)
(* "GET /" on one line of its own connection, whoever was served before.   *)
LampsObey ==
  [][\A l \in Lamps : lamps'[l] # lamps[l] =>
       LET t == taken'[client]
       IN  Len(t) > 1 /\ t[Len(t) - 1] = "GET" /\ t[Len(t)] \in DOMAIN Commands
           /\ Commands[t[Len(t)]] = <<l, lamps'[l]>>]_vars

(* A client whose request has come whole has its page, or has left, in     *)
(* the end: no client before it, however it broke off, keeps the server.   *)
BlankLine(s) == \E i \in 1 .. Len(s) : s[i] = "nl" /\ (i = 1 \/ s[i - 1] = "nl")
NobodyKeepsTheServer ==
  \A c \in Clients :
    (open[c] /\ BlankLine(taken[c] \o unread[c])) ~> (answered[c] \/ ~open[c] \/ pc = "halted")
=============================================================================

------------------------------ MODULE WsRelay ------------------------------
(***************************************************************************)
(* The relay server of src/site/relay-server.js and the pages of           *)
(* src/site/demo.html that reach the mesh through it.  Both are single     *)
(* JavaScript threads.  A socket is a pair of FIFO streams with two ends;  *)
(* each learns for itself, and whichever is first, that the connection is  *)
(* over, and a failure loses what was under way.                           *)
(*                                                                         *)
(* The handlers of a page are closures over the page's variable ws, not    *)
(* over the socket they were registered on: onclose of a socket that was   *)
(* replaced clears the ws and the devices of the one that replaced it.     *)
(* Not modelled: Web Bluetooth, and with it the relaying of a page (a      *)
(* device of the server has no txChar, demo.html:478).                     *)
(***************************************************************************)
EXTENDS Integers, Sequences, FiniteSets

CONSTANTS
    Page,       \* browser pages
    MaxSockets, \* bound on the WebSocket objects they make
    NoPage,     \* "no page"
    Msg         \* packets, by id

ASSUME WsAssumption ==
    /\ MaxSockets \in Nat
    /\ NoPage \notin Page

VARIABLES
    owner,      \* owner[s]: the page that made socket s, or NoPage
    sock,       \* sock[s]: "connecting", "open", "closing" or "closed"
    ws,         \* ws[g]: the variable ws of page g
    button,     \* pages whose connect button is enabled
    devices,    \* devices[g]: state.devices of page g, sockets of other clients
    idSeen,     \* idSeen[g]: the ids in state.seen
    stale,      \* stale[g]: those of them that were set more than 60 seconds ago
    shown,      \* shown[g]: the packets page g has shown
    end,        \* end[s]: readyState of the server's end of s, "none" before 'connection'
    up, down,   \* up[s], down[s]: what is on its way to the server, to the page
    author,     \* author[m]: the page that sent m; history
    late        \* the packets sent more than 60 seconds ago; history

wsVars == <<owner, sock, ws, button, devices, idSeen, stale, shown, end, up, down,
            author, late>>

histories == <<author, late>>

\* WebSocket objects, in the order in which they are made; 0 is null.
Socket == 1 .. MaxSockets

NoSocket == 0

seenVars == <<idSeen, stale, shown>>

pageVars == <<ws, button, devices, seenVars>>

\* The Map clients: a socket is in it from its 'connection' to its 'close'.
clients == {s \in Socket : end[s] \in {"open", "closing"}}

\* Frames from the server.
Notice(kind, x) == [kind |-> kind, about |-> x]

\* The ends of pages that still deliver what they get, or will.
Listening == {s \in Socket : sock[s] \in {"connecting", "open"}}

\* broadcast(data, exclude), and the loop of ws.on('message').
Served(S) == {s \in S : end[s] = "open"} \cap Listening

ToClients(S, f) ==
    [s \in Socket |-> IF s \in Served(S) THEN Append(down[s], f) ELSE down[s]]

(***************************************************************************)
(* A page.                                                                 *)
(***************************************************************************)

\* connectWS, while the button is enabled.
ConnectWS(g, s) ==
    /\ g \in button
    /\ owner[s] = NoPage
    /\ \A r \in 1 .. s - 1 : owner[r] # NoPage
    /\ owner' = [owner EXCEPT ![s] = g]
    /\ sock' = [sock EXCEPT ![s] = "connecting"]
    /\ ws' = [ws EXCEPT ![g] = s]
    /\ button' = button \ {g}
    /\ UNCHANGED <<devices, seenVars, end, up, down, histories>>

OnOpen(s) ==
    /\ sock[s] = "connecting"
    /\ end[s] # "none"
    /\ sock' = [sock EXCEPT ![s] = "open"]
    /\ UNCHANGED <<owner, pageVars, end, up, down, histories>>

WsKept(g) == ws                         \* mutant: onclose without ws = null

WsNull(g) == [ws EXCEPT ![g] = NoSocket]

\* stopAll: only the socket in ws is closed, and delivers nothing any more.
StopAll(g) ==
    /\ sock' = [s \in Socket |-> IF s = ws[g] THEN "closing" ELSE sock[s]]
    /\ ws' = [ws EXCEPT ![g] = NoSocket]
    /\ devices' = [devices EXCEPT ![g] = {}]
    /\ button' = button \cup {g}
    /\ down' = [s \in Socket |-> IF s = ws[g] THEN <<>> ELSE down[s]]
    /\ UNCHANGED <<owner, seenVars, end, up, histories>>

DevicesKept(g) == devices               \* mutant: the list survives the socket

DevicesCleared(g) == [devices EXCEPT ![g] = {}]

(* onclose: after stopAll, or because the page's end found the connection  *)
(* broken.  What the page sent before may still reach the server.          *)
OnClose(s) ==
    LET g == owner[s]
    IN  /\ sock[s] \in {"connecting", "open", "closing"}
        /\ sock' = [sock EXCEPT ![s] = "closed"]
        /\ ws' = WsNull(g)
        /\ button' = button \cup {g}
        /\ devices' = DevicesCleared(g)
        /\ down' = [down EXCEPT ![s] = <<>>]
        /\ UNCHANGED <<owner, seenVars, end, up, histories>>

\* state.seen after encodePacket.
SeenMarked(g, m) == [idSeen EXCEPT ![g] = @ \cup {m}]

SendMessage(g, m) ==
    /\ author[m] = NoPage
    /\ ws[g] # NoSocket
    /\ sock[ws[g]] = "open"
    /\ author' = [author EXCEPT ![m] = g]
    /\ idSeen' = SeenMarked(g, m)
    /\ up' = [up EXCEPT ![ws[g]] = Append(@, m)]
    /\ UNCHANGED <<owner, sock, ws, button, devices, stale, shown, end, down, late>>

(* 60 seconds have passed since page g set the id of m.                    *)
Age(g, m) ==
    /\ m \in idSeen[g] \ stale[g]
    /\ stale' = [stale EXCEPT ![g] = @ \cup {m}]
    /\ late' = IF author[m] = g THEN late \cup {m} ELSE late
    /\ UNCHANGED <<owner, sock, ws, button, devices, idSeen, shown, end, up, down, author>>

EvictedAll(g) == {}                     \* mutant: the cutoff spares nothing

\* What isDuplicate keeps beside a new id: the entries up to 60 seconds old.
Kept(g) == idSeen[g] \ stale[g]

(* isDuplicate and what follows for packet m: a known id is a duplicate    *)
(* however old its entry is, and only a new one evicts the stale ones.     *)
Incoming(g, m) ==
    \/ m \in idSeen[g] /\ UNCHANGED seenVars
    \/ /\ m \notin idSeen[g]
       /\ idSeen' = [idSeen EXCEPT ![g] = Kept(g) \cup {m}]
       /\ stale' = [stale EXCEPT ![g] = {}]
       /\ shown' = [shown EXCEPT ![g] = @ \cup {m}]

\* onmessage
OnMessage(s) ==
    LET g == owner[s]
        f == Head(down[s])
    IN  /\ sock[s] = "open"
        /\ down[s] # <<>>
        /\ down' = [down EXCEPT ![s] = Tail(@)]
        /\ \/ /\ f.kind = "packet"
              /\ Incoming(g, f.about)
              /\ UNCHANGED devices
           \/ /\ f.kind = "joined"
              /\ devices' = [devices EXCEPT ![g] = @ \cup {f.about}]
              /\ UNCHANGED seenVars
           \/ /\ f.kind = "left"
              /\ devices' = [devices EXCEPT ![g] = @ \ {f.about}]
              /\ UNCHANGED seenVars
        /\ UNCHANGED <<owner, sock, ws, button, end, up, histories>>

(***************************************************************************)
(* The server.                                                             *)
(***************************************************************************)

\* 'connection'; the page may have given the socket up by then.
Join(s) ==
    /\ owner[s] # NoPage
    /\ end[s] = "none"
    /\ end' = [end EXCEPT ![s] = "open"]
    /\ down' = ToClients(clients, Notice("joined", s))
    /\ UNCHANGED <<owner, sock, pageVars, up, histories>>

\* 'message' with a packet.
RelayMessage(s) ==
    /\ s \in clients
    /\ up[s] # <<>>
    /\ up' = [up EXCEPT ![s] = Tail(@)]
    /\ down' = ToClients(clients \ {s}, Notice("packet", Head(up[s])))
    /\ UNCHANGED <<owner, sock, pageVars, end, histories>>

(* The server's end is not OPEN any more: the page closes, or the          *)
(* connection fails, which the page may not have noticed.                  *)
Ending(s) ==
    /\ end[s] = "open"
    /\ end' = [end EXCEPT ![s] = "closing"]
    /\ UNCHANGED <<owner, sock, pageVars, up, down, histories>>

\* 'close'; a failed connection loses what the page had sent.
Leave(s) ==
    /\ end[s] = "closing"
    /\ end' = [end EXCEPT ![s] = "closed"]
    /\ up' = [up EXCEPT ![s] = <<>>]
    /\ down' = ToClients(clients \ {s}, Notice("left", s))
    /\ UNCHANGED <<owner, sock, pageVars, histories>>

WsInit ==
    /\ owner = [s \in Socket |-> NoPage]
    /\ sock = [s \in Socket |-> "closed"]
    /\ ws = [g \in Page |-> NoSocket]
    /\ button = Page
    /\ devices = [g \in Page |-> {}]
    /\ idSeen = [g \in Page |-> {}] /\ stale = [g \in Page |-> {}]
    /\ shown = [g \in Page |-> {}]
    /\ end = [s \in Socket |-> "none"]
    /\ up = [s \in Socket |-> <<>>]
    /\ down = [s \in Socket |-> <<>>]
    /\ author = [m \in Msg |-> NoPage]
    /\ late = {}

WsNext ==
    \/ \E s \in Socket : \/ OnOpen(s) \/ OnClose(s) \/ OnMessage(s)
                         \/ Join(s) \/ RelayMessage(s) \/ Ending(s) \/ Leave(s)
    \/ \E g \in Page : \/ StopAll(g)
                       \/ \E s \in Socket : ConnectWS(g, s)
                       \/ \E m \in Msg : SendMessage(g, m) \/ Age(g, m)

WsSpec == WsInit /\ [][WsNext]_wsVars

(***************************************************************************)
(* Properties.                                                             *)
(***************************************************************************)
WsTypeOK ==
    /\ owner \in [Socket -> Page \cup {NoPage}]
    /\ sock \in [Socket -> {"connecting", "open", "closing", "closed"}]
    /\ end \in [Socket -> {"none", "open", "closing", "closed"}]
    /\ ws \in [Page -> Socket \cup {NoSocket}]
    /\ \A g \in Page : ws[g] # NoSocket => owner[ws[g]] = g /\ g \notin button
    /\ devices \in [Page -> SUBSET Socket]
    /\ idSeen \in [Page -> SUBSET Msg] /\ shown \in [Page -> SUBSET Msg]
    /\ stale \in [Page -> SUBSET Msg] /\ \A g \in Page : stale[g] \subseteq idSeen[g]
    /\ author \in [Msg -> Page \cup {NoPage}] /\ late \subseteq Msg
    /\ \A s \in Socket : /\ up[s] \in Seq(Msg)
                         /\ down[s] # <<>> => s \in Listening

(* Whatever a page lists is a client of the server, or the page has an     *)
(* open socket through which the news that it left is on its way, or one   *)
(* that is broken and whose onclose, still to come, clears the list; also  *)
(* when sockets of the page overlap, a stale onclose clears the list, and  *)
(* the server finds a connection broken before the page does               *)
(* (demo.html:320, :332; relay-server.js:61).                              *)
ListedAreLive ==
    \A g \in Page : \A x \in devices[g] \ clients :
      \E s \in Socket : /\ owner[s] = g /\ sock[s] = "open"
                        /\ \/ end[s] # "open"
                           \/ \E i \in DOMAIN down[s] : down[s][i] = Notice("left", x)

(* A page that has lost sight of an open socket is to the server two       *)
(* clients, and gets its own packets back through the other one; it shows  *)
(* none of them that is not under way for more than 60 seconds, whatever   *)
(* other packets make it forget meanwhile (demo.html:246, :264, :449;      *)
(* relay-server.js:43).                                                    *)
NotBackToAuthor ==
    \A m \in Msg \ late : author[m] # NoPage => m \notin shown[author[m]]

=============================================================================

-------------------------- MODULE OtherNodesProofs --------------------------
(***************************************************************************)
(* The programs beside the C node and the app.                             *)
(*                                                                         *)
(* The pages and the server of WsRelay: no page is shown its own packet,   *)
(* and what a page lists is connected or about to be taken off the list,   *)
(* for every number of pages, sockets and packets.                         *)
(*                                                                         *)
(* The cache of AndroidSeenCache: no packet is forgotten early, for every  *)
(* limit and age and any number of packets.                                *)
(***************************************************************************)
EXTENDS WsRelay, AndroidSeenCache, FiniteSetTheorems, SequenceTheorems, TLAPS

(***************************************************************************)
(* WsRelay: what the sockets are and hold.                                 *)
(***************************************************************************)
WsFrame == [kind : {"packet"}, about : Msg] \cup [kind : {"joined", "left"}, about : Socket]

(* The types, with those of the streams; a socket nobody made is closed    *)
(* and the server does not know it; and it knows an open socket, and one   *)
(* it has written to.                                                      *)
WsOK ==
    /\ WsTypeOK
    /\ down \in [Socket -> Seq(WsFrame)]
    /\ up \in [Socket -> Seq(Msg)]
    /\ \A s \in Socket : /\ owner[s] = NoPage => sock[s] = "closed" /\ end[s] = "none"
                         /\ sock[s] = "open" \/ down[s] # <<>> => end[s] # "none"

\* The types one by one.
LEMMA WsTypes ==
    ASSUME WsOK
    PROVE  /\ owner \in [Socket -> Page \cup {NoPage}]
           /\ sock \in [Socket -> {"connecting", "open", "closing", "closed"}]
           /\ ws \in [Page -> Socket \cup {NoSocket}]
           /\ \A g \in Page : ws[g] # NoSocket => owner[ws[g]] = g /\ g \notin button
           /\ devices \in [Page -> SUBSET Socket]
           /\ end \in [Socket -> {"none", "open", "closing", "closed"}]
           /\ idSeen \in [Page -> SUBSET Msg] /\ shown \in [Page -> SUBSET Msg]
           /\ stale \in [Page -> SUBSET Msg] /\ \A g \in Page : stale[g] \subseteq idSeen[g]
           /\ author \in [Msg -> Page \cup {NoPage}] /\ late \subseteq Msg
           /\ clients \subseteq Socket
           /\ \A s \in Socket : down[s] # <<>> => s \in Listening
           /\ NoSocket \notin Socket
           /\ NoPage \notin Page
<1>1. NoSocket \notin Socket /\ NoPage \notin Page
  BY WsAssumption DEF NoSocket, Socket
<1> QED BY <1>1 DEF WsOK, WsTypeOK, clients

(* A frame from the server goes to the sockets of S whose ends both live.  *)
LEMMA ToClientsFrames ==
    ASSUME WsOK, NEW S, NEW f \in WsFrame
    PROVE  /\ ToClients(S, f) \in [Socket -> Seq(WsFrame)]
           /\ \A s \in Socket :
                /\ s \in Served(S) => ToClients(S, f)[s] = Append(down[s], f)
                /\ s \notin Served(S) => ToClients(S, f)[s] = down[s]
<1>1. down \in [Socket -> Seq(WsFrame)]
  BY DEF WsOK
<1>2. \A s \in Socket : down[s] \in Seq(WsFrame) /\ Append(down[s], f) \in Seq(WsFrame)
  BY <1>1, AppendProperties
<1> QED BY <1>2 DEF ToClients

(* What the server writes reaches sockets it knows, and listening ones.    *)
LEMMA ToClientsOK ==
    ASSUME WsOK, NEW S, NEW f \in WsFrame, down' = ToClients(S, f),
           UNCHANGED <<owner, sock, pageVars, histories>>,
           up' \in [Socket -> Seq(Msg)],
           end' \in [Socket -> {"none", "open", "closing", "closed"}],
           \A s \in Socket : /\ end[s] # "none" => end'[s] # "none"
                             /\ owner[s] = NoPage => end'[s] = "none"
    PROVE  WsOK'
<1>0. \A s \in Socket : /\ down[s] # <<>> => s \in Listening
                        /\ owner[s] = NoPage => sock[s] = "closed"
                        /\ sock[s] = "open" \/ down[s] # <<>> => end[s] # "none"
  BY WsTypes DEF WsOK
<1>1. /\ down' \in [Socket -> Seq(WsFrame)]
      /\ \A s \in Socket : s \notin Served(S) => down'[s] = down[s]
  BY ToClientsFrames
<1>2. Listening' = Listening
  BY DEF Listening
<1>3. ASSUME NEW s \in Socket, down'[s] # <<>>
      PROVE  s \in Listening /\ end'[s] # "none"
  BY <1>0, <1>1, <1>3 DEF Served
<1>4. WsTypeOK'
  BY <1>2, <1>3 DEF WsOK, WsTypeOK, pageVars, seenVars, histories
<1> QED BY <1>0, <1>1, <1>3, <1>4 DEF WsOK

(* A page drops a socket of its own: nothing is delivered through it any   *)
(* more, the page's ws is null and its list empty.                         *)
LEMMA DroppedOK ==
    ASSUME WsOK, NEW g \in Page, NEW s \in Socket, owner[s] = g,
           NEW state \in {"closing", "closed"},
           sock' = [sock EXCEPT ![s] = state],
           down' = [down EXCEPT ![s] = <<>>],
           ws' = [ws EXCEPT ![g] = NoSocket],
           devices' = [devices EXCEPT ![g] = {}],
           button' = button \cup {g},
           up' \in [Socket -> Seq(Msg)],
           UNCHANGED <<owner, seenVars, end, histories>>
    PROVE  WsOK'
<1>0. /\ owner \in [Socket -> Page \cup {NoPage}]
      /\ sock \in [Socket -> {"connecting", "open", "closing", "closed"}]
      /\ ws \in [Page -> Socket \cup {NoSocket}]
      /\ \A h \in Page : ws[h] # NoSocket => owner[ws[h]] = h /\ h \notin button
      /\ devices \in [Page -> SUBSET Socket]
      /\ \A r \in Socket : down[r] # <<>> => r \in Listening
      /\ NoPage \notin Page
      /\ down \in [Socket -> Seq(WsFrame)]
      /\ \A r \in Socket : /\ owner[r] = NoPage => sock[r] = "closed" /\ end[r] = "none"
                           /\ sock[r] = "open" \/ down[r] # <<>> => end[r] # "none"
  BY WsTypes DEF WsOK
<1>1. \A r \in Socket : /\ r # s => sock'[r] = sock[r] /\ down'[r] = down[r]
                        /\ r = s => sock'[r] = state /\ down'[r] = <<>>
  BY <1>0
<1>2. sock' \in [Socket -> {"connecting", "open", "closing", "closed"}]
  BY <1>0
<1>3. <<>> \in Seq(WsFrame) /\ down' \in [Socket -> Seq(WsFrame)]
  <2>1. <<>> \in Seq(WsFrame)
    BY EmptySeq
  <2> QED BY <1>0, <2>1
<1>4. /\ ws' \in [Page -> Socket \cup {NoSocket}]
      /\ devices' \in [Page -> SUBSET Socket]
      /\ \A h \in Page : h # g => ws'[h] = ws[h]
      /\ ws'[g] = NoSocket
  BY <1>0
<1>5. \A h \in Page : ws'[h] # NoSocket => owner[ws'[h]] = h /\ h \notin button'
  BY <1>0, <1>4
<1>6. \A r \in Socket : down'[r] # <<>> => r \in Listening'
  BY <1>0, <1>1 DEF Listening
<1>7. \A r \in Socket : /\ owner[r] = NoPage => sock'[r] = "closed" /\ end[r] = "none"
                        /\ sock'[r] = "open" \/ down'[r] # <<>> => end[r] # "none"
  BY <1>0, <1>1
<1>8. WsTypeOK'
  <2>1. \A r \in Socket : up'[r] \in Seq(Msg)
    OBVIOUS
  <2> QED BY <1>2, <1>4, <1>5, <1>6, <2>1 DEF WsOK, WsTypeOK, seenVars, histories
<1> QED BY <1>3, <1>7, <1>8 DEF WsOK

(* Frames are taken from an open socket, or nothing is.                    *)
LEMMA OnMessageOK ==
    ASSUME WsOK, NEW s \in Socket, OnMessage(s)
    PROVE  WsOK'
<1> DEFINE g == owner[s]
           f == Head(down[s])
<1>0. /\ owner \in [Socket -> Page \cup {NoPage}]
      /\ devices \in [Page -> SUBSET Socket]
      /\ idSeen \in [Page -> SUBSET Msg] /\ shown \in [Page -> SUBSET Msg]
      /\ stale \in [Page -> SUBSET Msg] /\ \A h \in Page : stale[h] \subseteq idSeen[h]
      /\ \A r \in Socket : down[r] # <<>> => r \in Listening
      /\ down \in [Socket -> Seq(WsFrame)]
      /\ \A r \in Socket : /\ owner[r] = NoPage => sock[r] = "closed" /\ end[r] = "none"
                           /\ sock[r] = "open" \/ down[r] # <<>> => end[r] # "none"
  BY WsTypes DEF WsOK
<1>1. /\ sock[s] = "open" /\ down[s] # <<>>
      /\ down' = [down EXCEPT ![s] = Tail(@)]
      /\ UNCHANGED <<owner, sock, ws, button, end, up, author, late>>
  BY DEF OnMessage, histories
<1>2. g \in Page
  BY <1>0, <1>1
<1>3. f \in WsFrame /\ Tail(down[s]) \in Seq(WsFrame)
  BY <1>0, <1>1, HeadTailProperties
<1>4. /\ down' \in [Socket -> Seq(WsFrame)]
      /\ \A r \in Socket : down'[r] # <<>> => down[r] # <<>>
  BY <1>0, <1>1, <1>3
<1>5. /\ devices' \in [Page -> SUBSET Socket]
      /\ idSeen' \in [Page -> SUBSET Msg] /\ shown' \in [Page -> SUBSET Msg]
      /\ stale' \in [Page -> SUBSET Msg] /\ \A h \in Page : stale'[h] \subseteq idSeen'[h]
  <2>1. CASE f.kind = "packet" /\ Incoming(g, f.about) /\ UNCHANGED devices
    <3>1. f.about \in Msg
      BY <1>3, <2>1 DEF WsFrame
    <3> HIDE DEF f, g
    <3>2. CASE UNCHANGED seenVars
      BY <1>0, <2>1, <3>2 DEF seenVars
    <3>3. CASE /\ idSeen' = [idSeen EXCEPT ![g] = Kept(g) \cup {f.about}]
               /\ stale' = [stale EXCEPT ![g] = {}]
               /\ shown' = [shown EXCEPT ![g] = @ \cup {f.about}]
      <4>1. Kept(g) \subseteq Msg
        BY <1>0, <1>2 DEF Kept
      <4>2. \A h \in Page : stale'[h] = {} \/ (h # g /\ stale'[h] = stale[h])
        BY <1>0, <3>3
      <4> QED BY <1>0, <2>1, <3>1, <3>3, <4>1, <4>2
    <3> QED BY <2>1, <3>2, <3>3 DEF Incoming
  <2>2. CASE /\ f.kind = "joined"
             /\ devices' = [devices EXCEPT ![g] = @ \cup {f.about}]
             /\ UNCHANGED seenVars
    <3>1. f.about \in Socket
      BY <1>3, <2>2 DEF WsFrame
    <3> HIDE DEF f, g
    <3> QED BY <1>0, <2>2, <3>1 DEF seenVars
  <2>3. CASE /\ f.kind = "left"
             /\ devices' = [devices EXCEPT ![g] = @ \ {f.about}]
             /\ UNCHANGED seenVars
    BY <1>0, <2>3 DEF seenVars
  <2> QED BY <2>1, <2>2, <2>3 DEF OnMessage
<1> HIDE DEF f, g
<1>6. \A r \in Socket : down'[r] # <<>> => r \in Listening'
  BY <1>0, <1>1, <1>4 DEF Listening
<1>7. WsTypeOK'
  BY <1>1, <1>5, <1>6 DEF WsOK, WsTypeOK
<1> QED BY <1>0, <1>1, <1>4, <1>7 DEF WsOK

\* connectWS.
LEMMA ConnectOK ==
    ASSUME WsOK, NEW g \in Page, NEW s \in Socket, ConnectWS(g, s)
    PROVE  WsOK'
<1>0. /\ owner \in [Socket -> Page \cup {NoPage}]
      /\ sock \in [Socket -> {"connecting", "open", "closing", "closed"}]
      /\ ws \in [Page -> Socket \cup {NoSocket}]
      /\ \A h \in Page : ws[h] # NoSocket => owner[ws[h]] = h /\ h \notin button
      /\ \A r \in Socket : down[r] # <<>> => r \in Listening
      /\ NoPage \notin Page /\ NoSocket \notin Socket
      /\ \A r \in Socket : /\ owner[r] = NoPage => sock[r] = "closed" /\ end[r] = "none"
                           /\ sock[r] = "open" \/ down[r] # <<>> => end[r] # "none"
  BY WsTypes DEF WsOK
<1>1. /\ owner[s] = NoPage
      /\ owner' = [owner EXCEPT ![s] = g]
      /\ sock' = [sock EXCEPT ![s] = "connecting"]
      /\ ws' = [ws EXCEPT ![g] = s]
      /\ button' = button \ {g}
      /\ UNCHANGED <<devices, idSeen, stale, shown, end, up, down, author, late>>
  BY DEF ConnectWS, histories, seenVars
<1>2. /\ owner' \in [Socket -> Page \cup {NoPage}]
      /\ sock' \in [Socket -> {"connecting", "open", "closing", "closed"}]
      /\ \A r \in Socket : /\ r # s => owner'[r] = owner[r] /\ sock'[r] = sock[r]
                           /\ r = s => owner'[r] = g /\ sock'[r] = "connecting"
  BY <1>0, <1>1
<1>3. /\ ws' \in [Page -> Socket \cup {NoSocket}]
      /\ \A h \in Page : ws'[h] = IF h = g THEN s ELSE ws[h]
  BY <1>0, <1>1
<1>4. ASSUME NEW h \in Page, ws'[h] # NoSocket
      PROVE  owner'[ws'[h]] = h /\ h \notin button'
  <2>1. CASE h = g
    BY <1>1, <1>2, <1>3, <2>1
  <2>2. CASE h # g
    <3>1. ws'[h] = ws[h] /\ ws[h] \in Socket /\ owner[ws[h]] = h /\ h \notin button
      BY <1>0, <1>3, <1>4, <2>2
    <3>2. ws[h] # s
      BY <1>0, <1>1, <3>1
    <3> QED BY <1>1, <1>2, <3>1, <3>2
  <2> QED BY <2>1, <2>2
<1>5. \A r \in Socket : down'[r] # <<>> => r \in Listening'
  BY <1>0, <1>1, <1>2 DEF Listening
<1>6. WsTypeOK'
  BY <1>1, <1>2, <1>3, <1>4, <1>5 DEF WsOK, WsTypeOK
<1>7. \A r \in Socket : /\ owner'[r] = NoPage => sock'[r] = "closed" /\ end'[r] = "none"
                        /\ sock'[r] = "open" \/ down'[r] # <<>> => end'[r] # "none"
  BY <1>0, <1>1, <1>2
<1> QED BY <1>1, <1>6, <1>7 DEF WsOK

\* stopAll, of a page with a socket in ws or without.
LEMMA StopAllOK ==
    ASSUME WsOK, NEW g \in Page, StopAll(g)
    PROVE  WsOK'
<1>0. /\ sock \in [Socket -> {"connecting", "open", "closing", "closed"}]
      /\ ws \in [Page -> Socket \cup {NoSocket}]
      /\ \A h \in Page : ws[h] # NoSocket => owner[ws[h]] = h /\ h \notin button
      /\ devices \in [Page -> SUBSET Socket]
      /\ NoSocket \notin Socket
      /\ down \in [Socket -> Seq(WsFrame)]
      /\ up \in [Socket -> Seq(Msg)]
  BY WsTypes DEF WsOK
<1>1. /\ sock' = [s \in Socket |-> IF s = ws[g] THEN "closing" ELSE sock[s]]
      /\ ws' = [ws EXCEPT ![g] = NoSocket]
      /\ devices' = [devices EXCEPT ![g] = {}]
      /\ button' = button \cup {g}
      /\ down' = [s \in Socket |-> IF s = ws[g] THEN <<>> ELSE down[s]]
      /\ UNCHANGED <<owner, seenVars, end, up, histories>>
  BY DEF StopAll
<1>2. CASE ws[g] = NoSocket
  <2>1. sock' = sock /\ down' = down
    BY <1>0, <1>1, <1>2
  <2>2. /\ devices' \in [Page -> SUBSET Socket]
        /\ ws' \in [Page -> Socket \cup {NoSocket}]
        /\ \A h \in Page : ws'[h] = ws[h]
    BY <1>0, <1>1, <1>2
  <2>3. \A h \in Page : ws'[h] # NoSocket => owner[ws'[h]] = h /\ h \notin button'
    BY <1>0, <1>1, <1>2, <2>2
  <2>4. WsTypeOK'
    BY <1>1, <2>1, <2>2, <2>3 DEF WsOK, WsTypeOK, Listening, seenVars, histories
  <2> QED BY <1>1, <2>1, <2>4 DEF WsOK
<1>3. CASE ws[g] # NoSocket
  <2>1. PICK s \in Socket : s = ws[g]
    BY <1>0, <1>3
  <2>2. owner[s] = g
    BY <1>0, <1>3, <2>1
  <2>3. sock' = [sock EXCEPT ![s] = "closing"] /\ down' = [down EXCEPT ![s] = <<>>]
    BY <1>0, <1>1, <2>1
  <2> QED BY <1>0, <1>1, <2>2, <2>3, DroppedOK
<1> QED BY <1>2, <1>3

\* onclose, of any socket of a page.
LEMMA OnCloseOK ==
    ASSUME WsOK, NEW s \in Socket, OnClose(s)
    PROVE  WsOK'
<1>0. /\ owner \in [Socket -> Page \cup {NoPage}]
      /\ sock[s] # "closed" /\ owner[s] # NoPage
      /\ up \in [Socket -> Seq(Msg)]
  BY WsTypes DEF WsOK, OnClose
<1>1. PICK g \in Page : g = owner[s]
  BY <1>0
<1>2. /\ sock' = [sock EXCEPT ![s] = "closed"]
      /\ ws' = [ws EXCEPT ![g] = NoSocket]
      /\ devices' = [devices EXCEPT ![g] = {}]
      /\ button' = button \cup {g}
      /\ down' = [down EXCEPT ![s] = <<>>]
      /\ UNCHANGED <<owner, seenVars, end, up, histories>>
  BY <1>1 DEF OnClose, DevicesCleared, WsNull
<1> QED BY <1>0, <1>1, <1>2, DroppedOK

\* onopen: the server has taken the connection.
LEMMA OnOpenOK ==
    ASSUME WsOK, NEW s \in Socket, OnOpen(s)
    PROVE  WsOK'
<1>0. /\ sock \in [Socket -> {"connecting", "open", "closing", "closed"}]
      /\ \A r \in Socket : down[r] # <<>> => r \in Listening
      /\ \A r \in Socket : /\ owner[r] = NoPage => sock[r] = "closed" /\ end[r] = "none"
                           /\ sock[r] = "open" \/ down[r] # <<>> => end[r] # "none"
  BY WsTypes DEF WsOK
<1>1. /\ sock[s] = "connecting" /\ end[s] # "none"
      /\ sock' = [sock EXCEPT ![s] = "open"]
      /\ UNCHANGED <<owner, ws, button, devices, idSeen, stale, shown, end, up, down, author, late>>
  BY DEF OnOpen, histories, pageVars, seenVars
<1>2. /\ sock' \in [Socket -> {"connecting", "open", "closing", "closed"}]
      /\ \A r \in Socket : /\ r # s => sock'[r] = sock[r]
                           /\ r = s => sock'[r] = "open"
  BY <1>0, <1>1
<1>3. \A r \in Socket : down'[r] # <<>> => r \in Listening'
  BY <1>0, <1>1, <1>2 DEF Listening
<1>4. WsTypeOK'
  BY <1>1, <1>2, <1>3 DEF WsOK, WsTypeOK
<1>5. \A r \in Socket : /\ owner[r] = NoPage => sock'[r] = "closed" /\ end[r] = "none"
                        /\ sock'[r] = "open" \/ down[r] # <<>> => end[r] # "none"
  BY <1>0, <1>1, <1>2
<1> QED BY <1>1, <1>4, <1>5 DEF WsOK

\* sendMessage, through the socket in ws.
LEMMA SendMessageOK ==
    ASSUME WsOK, NEW g \in Page, NEW m \in Msg, SendMessage(g, m)
    PROVE  WsOK'
<1>0. /\ ws \in [Page -> Socket \cup {NoSocket}]
      /\ author \in [Msg -> Page \cup {NoPage}]
      /\ idSeen \in [Page -> SUBSET Msg]
      /\ stale \in [Page -> SUBSET Msg] /\ \A h \in Page : stale[h] \subseteq idSeen[h]
      /\ up \in [Socket -> Seq(Msg)]
  BY WsTypes DEF WsOK
<1>1. /\ ws[g] # NoSocket
      /\ author' = [author EXCEPT ![m] = g]
      /\ idSeen' = [idSeen EXCEPT ![g] = @ \cup {m}]
      /\ up' = [up EXCEPT ![ws[g]] = Append(@, m)]
      /\ UNCHANGED <<owner, sock, ws, button, devices, stale, shown, end, down, late>>
  BY DEF SendMessage, SeenMarked
<1>2. up' \in [Socket -> Seq(Msg)]
  <2>1. ws[g] \in Socket
    BY <1>0, <1>1
  <2>2. Append(up[ws[g]], m) \in Seq(Msg)
    BY <1>0, <2>1, AppendProperties
  <2> QED BY <1>0, <1>1, <2>2
<1>3. /\ author' \in [Msg -> Page \cup {NoPage}]
      /\ idSeen' \in [Page -> SUBSET Msg]
      /\ \A h \in Page : stale'[h] \subseteq idSeen'[h]
  BY <1>0, <1>1
<1>4. WsTypeOK'
  BY <1>1, <1>2, <1>3 DEF WsOK, WsTypeOK, Listening
<1> QED BY <1>1, <1>2, <1>4 DEF WsOK

\* An entry of a page gets old.
LEMMA AgeOK ==
    ASSUME WsOK, NEW g \in Page, NEW m \in Msg, Age(g, m)
    PROVE  WsOK'
<1>0. /\ idSeen \in [Page -> SUBSET Msg] /\ stale \in [Page -> SUBSET Msg]
      /\ \A h \in Page : stale[h] \subseteq idSeen[h]
      /\ late \subseteq Msg
  BY WsTypes
<1>1. /\ m \in idSeen[g]
      /\ stale' = [stale EXCEPT ![g] = @ \cup {m}]
      /\ late' \subseteq late \cup {m}
      /\ UNCHANGED <<owner, sock, ws, button, devices, idSeen, shown, end, up, down, author>>
  BY DEF Age
<1>2. /\ stale' \in [Page -> SUBSET Msg] /\ late' \subseteq Msg
      /\ \A h \in Page : stale'[h] \subseteq idSeen'[h]
  BY <1>0, <1>1
<1>3. WsTypeOK'
  BY <1>1, <1>2 DEF WsOK, WsTypeOK, Listening
<1> QED BY <1>1, <1>3 DEF WsOK

\* The handlers of the server, and the end of one of its sockets.
LEMMA ServerOK ==
    ASSUME WsOK, NEW s \in Socket, Join(s) \/ RelayMessage(s) \/ Ending(s) \/ Leave(s)
    PROVE  WsOK'
<1>0. /\ up \in [Socket -> Seq(Msg)]
      /\ end \in [Socket -> {"none", "open", "closing", "closed"}]
      /\ \A r \in Socket : owner[r] = NoPage => end[r] = "none"
  BY WsTypes DEF WsOK
<1>1. CASE Join(s)
  <2>1. Notice("joined", s) \in WsFrame
    BY DEF Notice, WsFrame
  <2>2. /\ owner[s] # NoPage
        /\ down' = ToClients(clients, Notice("joined", s))
        /\ end' = [end EXCEPT ![s] = "open"]
        /\ UNCHANGED <<owner, sock, pageVars, up, histories>>
    BY <1>1 DEF Join
  <2> QED BY <1>0, <2>1, <2>2, ToClientsOK
<1>2. CASE RelayMessage(s)
  <2>1. /\ up[s] # <<>>
        /\ up' = [up EXCEPT ![s] = Tail(@)]
        /\ down' = ToClients(clients \ {s}, Notice("packet", Head(up[s])))
        /\ UNCHANGED <<owner, sock, pageVars, end, histories>>
    BY <1>2 DEF RelayMessage
  <2>2. Head(up[s]) \in Msg /\ Tail(up[s]) \in Seq(Msg)
    BY <1>0, <2>1, HeadTailProperties
  <2>3. Notice("packet", Head(up[s])) \in WsFrame /\ up' \in [Socket -> Seq(Msg)]
    BY <1>0, <2>1, <2>2 DEF Notice, WsFrame
  <2> QED BY <1>0, <2>1, <2>3, ToClientsOK
<1>3. CASE Leave(s)
  <2>1. /\ end[s] = "closing"
        /\ end' = [end EXCEPT ![s] = "closed"]
        /\ up' = [up EXCEPT ![s] = <<>>]
        /\ down' = ToClients(clients \ {s}, Notice("left", s))
        /\ UNCHANGED <<owner, sock, pageVars, histories>>
    BY <1>3 DEF Leave
  <2>2. Notice("left", s) \in WsFrame
    BY DEF Notice, WsFrame
  <2>3. <<>> \in Seq(Msg)
    BY EmptySeq
  <2>4. up' \in [Socket -> Seq(Msg)]
    BY <1>0, <2>1, <2>3
  <2> QED BY <1>0, <2>1, <2>2, <2>4, ToClientsOK
<1>4. CASE Ending(s)
  <2>1. /\ end[s] = "open"
        /\ end' = [end EXCEPT ![s] = "closing"]
        /\ UNCHANGED <<owner, sock, pageVars, up, down, histories>>
    BY <1>4 DEF Ending
  <2>2. /\ end' \in [Socket -> {"none", "open", "closing", "closed"}]
        /\ \A r \in Socket : end'[r] = "none" <=> end[r] = "none"
    BY <1>0, <2>1
  <2>3. WsTypeOK'
    BY <2>1, <2>2 DEF WsOK, WsTypeOK, Listening, pageVars, seenVars, histories
  <2> QED BY <2>1, <2>2, <2>3 DEF WsOK
<1> QED BY <1>1, <1>2, <1>3, <1>4

\* The start.
LEMMA InitWsOK == WsInit => WsOK
<1> SUFFICES ASSUME WsInit PROVE WsOK
  OBVIOUS
<1>1. NoSocket \notin Socket
  BY WsAssumption DEF NoSocket, Socket
<1>2. <<>> \in Seq(WsFrame) /\ <<>> \in Seq(Msg)
  BY EmptySeq
<1>3. WsTypeOK
  BY <1>1, <1>2 DEF WsInit, WsTypeOK
<1> QED BY <1>2, <1>3 DEF WsInit, WsOK

\* Every handler.
LEMMA NextWsOK == WsOK /\ [WsNext]_wsVars => WsOK'
<1> SUFFICES ASSUME WsOK, [WsNext]_wsVars PROVE WsOK'
  OBVIOUS
<1>1. ASSUME NEW s \in Socket,
             \/ OnOpen(s) \/ OnClose(s) \/ OnMessage(s)
             \/ Join(s) \/ RelayMessage(s) \/ Ending(s) \/ Leave(s)
      PROVE  WsOK'
  BY <1>1, OnOpenOK, OnCloseOK, OnMessageOK, ServerOK
<1>2. ASSUME NEW g \in Page, StopAll(g) PROVE WsOK'
  BY <1>2, StopAllOK
<1>3. ASSUME NEW g \in Page, NEW s \in Socket, ConnectWS(g, s) PROVE WsOK'
  BY <1>3, ConnectOK
<1>4. ASSUME NEW g \in Page, NEW m \in Msg, SendMessage(g, m) PROVE WsOK'
  BY <1>4, SendMessageOK
<1>5. ASSUME NEW g \in Page, NEW m \in Msg, Age(g, m) PROVE WsOK'
  BY <1>5, AgeOK
<1>6. ASSUME UNCHANGED wsVars PROVE WsOK'
  BY <1>6 DEF wsVars, WsOK, WsTypeOK, Listening
<1> QED BY <1>1, <1>2, <1>3, <1>4, <1>5, <1>6 DEF WsNext

(***************************************************************************)
(* WsRelay: what is written, shown and remembered, and by whom.            *)
(***************************************************************************)

\* What is under way in stream q.
Carried(q) == {q[i] : i \in DOMAIN q}

(* A stream after a write, and after a read.                               *)
LEMMA CarriedSteps ==
    ASSUME NEW S, NEW q \in Seq(S), NEW e \in S
    PROVE  /\ Carried(Append(q, e)) = Carried(q) \cup {e}
           /\ q # <<>> => /\ Head(q) \in Carried(q) /\ Head(q) \in S
                          /\ Tail(q) \in Seq(S)
                          /\ Carried(Tail(q)) \subseteq Carried(q)
           /\ Carried(q) \subseteq S
           /\ Carried(<<>>) = {}
<1>1. Len(q) \in Nat /\ DOMAIN q = 1 .. Len(q)
  BY LenProperties
<1>2. Carried(Append(q, e)) = Carried(q) \cup {e}
  <2>1. /\ DOMAIN Append(q, e) = 1 .. Len(q) + 1
        /\ \A i \in 1 .. Len(q) : Append(q, e)[i] = q[i]
        /\ Append(q, e)[Len(q) + 1] = e
    BY <1>1, AppendProperties, LenProperties
  <2>2. \A i \in 1 .. Len(q) + 1 : i \in 1 .. Len(q) \/ i = Len(q) + 1
    BY <1>1
  <2> QED BY <1>1, <2>1, <2>2 DEF Carried
<1>3. ASSUME q # <<>>
      PROVE  /\ Head(q) \in Carried(q) /\ Head(q) \in S
             /\ Tail(q) \in Seq(S)
             /\ Carried(Tail(q)) \subseteq Carried(q)
  <2>1. /\ Head(q) \in S
        /\ Tail(q) \in Seq(S)
        /\ Len(Tail(q)) = Len(q) - 1
        /\ \A i \in 1 .. Len(Tail(q)) : Tail(q)[i] = q[i + 1]
    BY <1>3, HeadTailProperties
  <2>2. Len(q) > 0 /\ DOMAIN Tail(q) = 1 .. Len(q) - 1
    BY <1>1, <1>3, <2>1, EmptySeq, LenProperties
  <2>3. 1 \in DOMAIN q /\ Head(q) = q[1]
    BY <1>1, <2>2
  <2>4. \A i \in 1 .. Len(q) - 1 : i + 1 \in DOMAIN q
    BY <1>1
  <2> QED BY <2>1, <2>2, <2>3, <2>4 DEF Carried
<1>4. Carried(q) \subseteq S /\ Carried(<<>>) = {}
  BY <1>1 DEF Carried
<1> QED BY <1>2, <1>3, <1>4

(* Whatever is under way, shown or known has an author, and for 60 seconds *)
(* its author knows it by an entry that nothing evicts.                    *)
Authored ==
    /\ \A s \in Socket : \A m \in Carried(up[s]) : author[m] # NoPage
    /\ \A s \in Socket : \A f \in Carried(down[s]) : f.kind = "packet" => author[f.about] # NoPage
    /\ \A g \in Page : \A m \in shown[g] \cup idSeen[g] : author[m] # NoPage
    /\ \A m \in Msg \ late : author[m] # NoPage => m \in idSeen[author[m]] \ stale[author[m]]
    /\ NotBackToAuthor

(* Handlers that only move on what has an author.                          *)
LEMMA NothingNew ==
    ASSUME Authored, UNCHANGED <<seenVars, histories>>,
           \A s \in Socket : Carried(up'[s]) \subseteq Carried(up[s]),
           \A s \in Socket : \A f \in Carried(down'[s]) :
             f.kind = "packet" => f \in Carried(down[s]) \/ author[f.about] # NoPage
    PROVE  Authored'
<1>1. \A s \in Socket : \A m \in Carried(up'[s]) : author[m] # NoPage
  BY DEF Authored
<1>2. \A s \in Socket : \A f \in Carried(down'[s]) : f.kind = "packet" => author[f.about] # NoPage
  BY DEF Authored
<1>3. UNCHANGED <<idSeen, stale, shown, author, late>>
  BY DEF seenVars, histories
<1>4. NotBackToAuthor'
  BY <1>3 DEF Authored, NotBackToAuthor
<1> QED BY <1>1, <1>2, <1>3, <1>4 DEF Authored

\* A page sends: what it has sent it knows, and nobody has been shown it.
LEMMA SendAuthored ==
    ASSUME WsOK, Authored, NEW g \in Page, NEW m \in Msg, SendMessage(g, m)
    PROVE  Authored'
<1>0. /\ ws \in [Page -> Socket \cup {NoSocket}]
      /\ author \in [Msg -> Page \cup {NoPage}]
      /\ idSeen \in [Page -> SUBSET Msg] /\ shown \in [Page -> SUBSET Msg]
      /\ \A h \in Page : stale[h] \subseteq idSeen[h]
      /\ up \in [Socket -> Seq(Msg)] /\ down \in [Socket -> Seq(WsFrame)]
      /\ NoPage \notin Page
  BY WsTypes DEF WsOK
<1>1. /\ author[m] = NoPage
      /\ ws[g] \in Socket
      /\ author' = [author EXCEPT ![m] = g]
      /\ idSeen' = [idSeen EXCEPT ![g] = @ \cup {m}]
      /\ up' = [up EXCEPT ![ws[g]] = Append(@, m)]
      /\ UNCHANGED <<stale, shown, down, late>>
  BY <1>0 DEF SendMessage, SeenMarked
<1>2. /\ \A x \in Msg : author'[x] = IF x = m THEN g ELSE author[x]
      /\ \A h \in Page : idSeen'[h] = IF h = g THEN idSeen[h] \cup {m} ELSE idSeen[h]
      /\ m \notin idSeen[g]
  BY <1>0, <1>1 DEF Authored
<1>3. ASSUME NEW s \in Socket, NEW x \in Carried(up'[s]) PROVE author'[x] # NoPage
  <2>1. x \in Carried(up[s]) \cup {m}
    <3>1. Carried(Append(up[s], m)) = Carried(up[s]) \cup {m}
      BY <1>0, CarriedSteps
    <3>2. up'[s] = up[s] \/ up'[s] = Append(up[s], m)
      BY <1>0, <1>1
    <3> QED BY <3>1, <3>2
  <2>2. Carried(up[s]) \subseteq Msg
    BY <1>0, CarriedSteps
  <2> QED BY <1>0, <1>2, <2>1, <2>2 DEF Authored
<1>4. ASSUME NEW s \in Socket, NEW f \in Carried(down[s]), f.kind = "packet"
      PROVE  author'[f.about] # NoPage
  <2>1. f \in WsFrame
    <3>1. down[s] \in Seq(WsFrame)
      BY <1>0
    <3> QED BY <3>1, LenProperties DEF Carried
  <2>2. f.about \in Msg
    BY <1>4, <2>1 DEF WsFrame
  <2> QED BY <1>0, <1>2, <1>4, <2>2 DEF Authored
<1>5. ASSUME NEW h \in Page, NEW x \in shown[h] \cup idSeen'[h] PROVE author'[x] # NoPage
  <2>1. x = m \/ x \in shown[h] \cup idSeen[h]
    BY <1>2
  <2>2. shown[h] \subseteq Msg /\ idSeen[h] \subseteq Msg
    BY <1>0
  <2>3. x \in Msg
    BY <2>1, <2>2
  <2>4. x # m => author[x] # NoPage
    BY <2>1 DEF Authored
  <2> QED BY <1>0, <1>2, <2>3, <2>4
<1>6. ASSUME NEW x \in Msg \ late, author'[x] # NoPage
      PROVE  x \in idSeen'[author'[x]] \ stale'[author'[x]]
  <2>1. CASE x = m
    <3>1. author'[x] = g /\ m \in idSeen'[g]
      BY <1>2, <2>1
    <3>2. m \notin stale[g] /\ stale' = stale
      BY <1>0, <1>1, <1>2
    <3> QED BY <2>1, <3>1, <3>2
  <2>2. CASE x # m
    <3>1. author'[x] = author[x] /\ author[x] \in Page /\ x \in idSeen[author[x]] \ stale[author[x]]
      BY <1>0, <1>2, <1>6, <2>2 DEF Authored, Kept
    <3> QED BY <1>1, <1>2, <3>1 DEF Kept
  <2> QED BY <2>1, <2>2
<1>7. \A x \in Msg \ late : author'[x] # NoPage => x \notin shown[author'[x]]
  BY <1>0, <1>1, <1>2 DEF Authored, NotBackToAuthor
<1> QED BY <1>1, <1>3, <1>4, <1>5, <1>6, <1>7 DEF Authored, NotBackToAuthor

\* An entry gets old: of its author's, or of another page.
LEMMA AgeAuthored ==
    ASSUME WsOK, Authored, NEW g \in Page, NEW m \in Msg, Age(g, m)
    PROVE  Authored'
<1>1. /\ stale' = [stale EXCEPT ![g] = @ \cup {m}]
      /\ late' = IF author[m] = g THEN late \cup {m} ELSE late
      /\ UNCHANGED <<idSeen, shown, up, down, author>>
  BY DEF Age
<1>2. \A h \in Page : stale'[h] = IF h = g THEN stale[h] \cup {m} ELSE stale[h]
  BY <1>1, WsTypes
<1>3. ASSUME NEW x \in Msg \ late', author[x] # NoPage
      PROVE  x \in idSeen'[author[x]] \ stale'[author[x]]
  <2>1. x \notin late /\ author[x] \in Page /\ x \in idSeen[author[x]] \ stale[author[x]]
    BY <1>1, <1>3, WsTypes DEF Authored
  <2>2. ~(x = m /\ author[x] = g)
    BY <1>1, <1>3
  <2> QED BY <1>1, <1>2, <2>1, <2>2 DEF Kept
<1>4. NotBackToAuthor'
  BY <1>1 DEF Authored, NotBackToAuthor
<1> QED BY <1>1, <1>3, <1>4 DEF Authored

\* A page gets a frame: a packet it does not know is not its own.
LEMMA MessageAuthored ==
    ASSUME WsOK, Authored, NEW s \in Socket, OnMessage(s)
    PROVE  Authored'
<1> DEFINE g == owner[s]
           f == Head(down[s])
<1>0. /\ author \in [Msg -> Page \cup {NoPage}]
      /\ idSeen \in [Page -> SUBSET Msg] /\ shown \in [Page -> SUBSET Msg]
      /\ down \in [Socket -> Seq(WsFrame)]
      /\ owner \in [Socket -> Page \cup {NoPage}]
      /\ sock[s] = "open" => owner[s] # NoPage
  BY WsTypes DEF WsOK
<1>1. /\ sock[s] = "open" /\ down[s] # <<>>
      /\ down' = [down EXCEPT ![s] = Tail(@)]
      /\ UNCHANGED <<up, author, late>>
  BY DEF OnMessage, histories
<1>2. g \in Page
  BY <1>0, <1>1
<1>3. /\ f \in Carried(down[s]) /\ f \in WsFrame
      /\ \A r \in Socket : Carried(down'[r]) \subseteq Carried(down[r])
  <2>1. /\ f \in WsFrame /\ f \in Carried(down[s])
        /\ Carried(Tail(down[s])) \subseteq Carried(down[s])
    BY <1>0, <1>1, CarriedSteps
  <2> HIDE DEF f
  <2> QED BY <1>0, <1>1, <2>1
<1>4. CASE /\ f.kind = "packet"
           /\ f.about \notin idSeen[g]
           /\ idSeen' = [idSeen EXCEPT ![g] = Kept(g) \cup {f.about}]
           /\ stale' = [stale EXCEPT ![g] = {}]
           /\ shown' = [shown EXCEPT ![g] = @ \cup {f.about}]
  <2>1. f.about \in Msg /\ author[f.about] # NoPage
    BY <1>3, <1>4 DEF Authored, WsFrame
  <2> HIDE DEF f, g
  <2>2. /\ \A h \in Page : /\ h = g => idSeen'[h] = Kept(h) \cup {f.about} /\ stale'[h] = {}
                           /\ h # g => idSeen'[h] = idSeen[h] /\ stale'[h] = stale[h]
        /\ \A h \in Page : \A x \in shown'[h] :
             \/ x \in shown[h]
             \/ h = g /\ x = f.about /\ x \notin idSeen[g]
    BY <1>0, <1>2, <1>4, WsTypes
  <2>3. \A h \in Page : \A x \in shown'[h] \cup idSeen'[h] : author[x] # NoPage
    BY <2>1, <2>2 DEF Authored, Kept
  <2>4. ASSUME NEW x \in Msg \ late, author[x] # NoPage
        PROVE  x \in idSeen'[author[x]] \ stale'[author[x]]
    <3>1. author[x] \in Page /\ x \in idSeen[author[x]] \ stale[author[x]]
      BY <1>0, <2>4 DEF Authored
    <3> QED BY <2>2, <3>1 DEF Kept
  <2>5. ASSUME NEW x \in Msg \ late, author[x] # NoPage PROVE x \notin shown'[author[x]]
    <3>1. author[x] \in Page /\ x \in idSeen[author[x]] /\ x \notin shown[author[x]]
      BY <1>0, <2>5 DEF Authored, NotBackToAuthor
    <3> QED BY <2>2, <3>1 DEF Kept
  <2>6. /\ \A r \in Socket : \A h \in Carried(down'[r]) :
             h.kind = "packet" => author[h.about] # NoPage
        /\ \A r \in Socket : \A x \in Carried(up[r]) : author[x] # NoPage
    BY <1>3 DEF Authored
  <2> QED BY <1>1, <2>3, <2>4, <2>5, <2>6 DEF Authored, NotBackToAuthor
<1>5. CASE UNCHANGED seenVars
  BY <1>1, <1>3, <1>5, NothingNew DEF histories
<1> QED BY <1>4, <1>5 DEF OnMessage, Incoming

\* What the server writes to its clients: the news, or a packet it has read.
LEMMA ServerAuthored ==
    ASSUME WsOK, Authored, NEW s \in Socket, Join(s) \/ RelayMessage(s) \/ Ending(s) \/ Leave(s)
    PROVE  Authored'
<1>0. up \in [Socket -> Seq(Msg)] /\ down \in [Socket -> Seq(WsFrame)]
  BY DEF WsOK
<1>1. ASSUME NEW S, NEW f \in WsFrame, NEW r \in Socket
      PROVE  Carried(ToClients(S, f)[r]) \subseteq Carried(down[r]) \cup {f}
  <2>1. Carried(Append(down[r], f)) = Carried(down[r]) \cup {f}
    BY <1>0, CarriedSteps
  <2>2. ToClients(S, f)[r] = Append(down[r], f) \/ ToClients(S, f)[r] = down[r]
    BY ToClientsFrames
  <2> QED BY <2>1, <2>2
<1>2. CASE Join(s) \/ Leave(s)
  <2>1. PICK kind \in {"joined", "left"}, S \in SUBSET Socket :
          down' = ToClients(S, Notice(kind, s))
    BY <1>2, WsTypes DEF Join, Leave
  <2>5. \A r \in Socket : Carried(up'[r]) \subseteq Carried(up[r])
    <3>1. \A r \in Socket : up'[r] = up[r] \/ up'[r] = <<>>
      BY <1>0, <1>2 DEF Join, Leave
    <3> QED BY <3>1 DEF Carried
  <2>2. Notice(kind, s) \in WsFrame /\ Notice(kind, s).kind # "packet"
    BY DEF Notice, WsFrame
  <2>3. UNCHANGED <<seenVars, histories>>
    BY <1>2 DEF Join, Leave, pageVars
  <2>4. ASSUME NEW r \in Socket, NEW f \in Carried(down'[r]), f.kind = "packet"
        PROVE  f \in Carried(down[r])
    BY <1>1, <2>1, <2>2, <2>4
  <2> QED BY <2>3, <2>4, <2>5, NothingNew
<1>3. CASE RelayMessage(s)
  <2>1. /\ up[s] # <<>>
        /\ up' = [up EXCEPT ![s] = Tail(@)]
        /\ down' = ToClients(clients \ {s}, Notice("packet", Head(up[s])))
        /\ UNCHANGED <<seenVars, histories>>
    BY <1>3 DEF RelayMessage, pageVars
  <2>2. /\ Head(up[s]) \in Msg /\ Head(up[s]) \in Carried(up[s])
        /\ Carried(Tail(up[s])) \subseteq Carried(up[s])
    BY <1>0, <2>1, CarriedSteps
  <2>3. PICK m \in Msg : m = Head(up[s]) /\ author[m] # NoPage
    BY <2>2 DEF Authored
  <2>4. Notice("packet", m) \in WsFrame /\ Notice("packet", m).about = m
    BY DEF Notice, WsFrame
  <2>5. ASSUME NEW r \in Socket, NEW f \in Carried(down'[r]), f.kind = "packet"
        PROVE  f \in Carried(down[r]) \/ author[f.about] # NoPage
    BY <1>1, <2>1, <2>3, <2>4
  <2>6. \A r \in Socket : Carried(up'[r]) \subseteq Carried(up[r])
    BY <1>0, <2>1, <2>2
  <2> QED BY <2>1, <2>5, <2>6, NothingNew
<1>4. CASE Ending(s)
  <2>1. UNCHANGED <<up, down, seenVars, histories>>
    BY <1>4 DEF Ending, pageVars
  <2> QED BY <2>1, NothingNew
<1> QED BY <1>2, <1>3, <1>4

\* Closing a socket only loses what was under way.
LEMMA CloseAuthored ==
    ASSUME WsOK, Authored,
           \/ \E s \in Socket : OnClose(s) \/ OnOpen(s)
           \/ \E g \in Page : StopAll(g) \/ \E s \in Socket : ConnectWS(g, s)
    PROVE  Authored'
<1>0. up \in [Socket -> Seq(Msg)] /\ down \in [Socket -> Seq(WsFrame)]
  BY DEF WsOK
<1>1. UNCHANGED <<seenVars, histories>>
  BY DEF OnClose, OnOpen, StopAll, ConnectWS, pageVars
<1>2. \A r \in Socket : /\ down'[r] = down[r] \/ down'[r] = <<>>
                        /\ up'[r] = up[r] \/ up'[r] = <<>>
  BY <1>0 DEF OnClose, OnOpen, StopAll, ConnectWS
<1>3. Carried(<<>>) = {}
  BY DEF Carried
<1>4. \A r \in Socket : /\ Carried(up'[r]) \subseteq Carried(up[r])
                        /\ Carried(down'[r]) \subseteq Carried(down[r])
  BY <1>2, <1>3
<1> QED BY <1>1, <1>4, NothingNew

\* Every handler keeps it.
LEMMA NextAuthored == WsOK /\ Authored /\ [WsNext]_wsVars => Authored'
<1> SUFFICES ASSUME WsOK, Authored, [WsNext]_wsVars PROVE Authored'
  OBVIOUS
<1>1. ASSUME NEW s \in Socket, OnOpen(s) \/ OnClose(s) PROVE Authored'
  BY <1>1, CloseAuthored
<1>2. ASSUME NEW s \in Socket, OnMessage(s) PROVE Authored'
  BY <1>2, MessageAuthored
<1>3. ASSUME NEW s \in Socket, Join(s) \/ RelayMessage(s) \/ Ending(s) \/ Leave(s)
      PROVE  Authored'
  BY <1>3, ServerAuthored
<1>4. ASSUME NEW g \in Page, StopAll(g) \/ \E s \in Socket : ConnectWS(g, s) PROVE Authored'
  BY <1>4, CloseAuthored
<1>5. ASSUME NEW g \in Page, NEW m \in Msg, SendMessage(g, m) PROVE Authored'
  BY <1>5, SendAuthored
<1>6. ASSUME NEW g \in Page, NEW m \in Msg, Age(g, m) PROVE Authored'
  BY <1>6, AgeAuthored
<1>7. ASSUME UNCHANGED wsVars PROVE Authored'
  BY <1>7 DEF wsVars, Authored, NotBackToAuthor, Kept
<1> QED BY <1>1, <1>2, <1>3, <1>4, <1>5, <1>6, <1>7 DEF WsNext

(***************************************************************************)
(* WsRelay: the list of a page.  Each page that lists x has an open socket *)
(* of its own; and if the server sees that socket open too, x is a client  *)
(* or the socket is about to deliver that x left.  The order of the news   *)
(* matters for it: whoever joined, as a frame under way says, is a client  *)
(* or a later frame of the same stream says that it left.                  *)
(***************************************************************************)
SaysLeft(q, x) == \E i \in DOMAIN q : q[i] = Notice("left", x)

\* The news of q is not the end of the story.
NewsInOrder(q, C) ==
    \A i \in DOMAIN q :
      q[i].kind = "joined" =>
        q[i].about \in C \/ \E j \in DOMAIN q : j > i /\ q[j] = Notice("left", q[i].about)

\* Socket s is why page g lists x.
Witness(s, g, x) ==
    /\ owner[s] = g /\ sock[s] = "open"
    /\ end[s] = "open" => x \in clients \/ SaysLeft(down[s], x)

Listed ==
    /\ \A s \in Socket : end[s] = "open" => NewsInOrder(down[s], clients)
    /\ \A g \in Page : \A x \in devices[g] : \E s \in Socket : Witness(s, g, x)

(* News after a write: of somebody who joins and is a client, of somebody  *)
(* who leaves, or a packet.                                                *)
LEMMA NewsAppended ==
    ASSUME NEW q \in Seq(WsFrame), NEW C, NEW f \in WsFrame, NEW D,
           NewsInOrder(q, C),
           f.kind = "joined" => f.about \in D,
           \A x \in C : x \in D \/ f = Notice("left", x)
    PROVE  NewsInOrder(Append(q, f), D)
<1>1. /\ Len(q) \in Nat /\ DOMAIN q = 1 .. Len(q)
      /\ DOMAIN Append(q, f) = 1 .. Len(q) + 1
      /\ \A i \in 1 .. Len(q) : Append(q, f)[i] = q[i]
      /\ Append(q, f)[Len(q) + 1] = f
  BY AppendProperties, LenProperties
<1> DEFINE a == Append(q, f)
           L == Len(q)
<1> HIDE DEF a, L
<1>2. ASSUME NEW i \in 1 .. L + 1, a[i].kind = "joined"
      PROVE  a[i].about \in D \/ \E j \in 1 .. L + 1 : j > i /\ a[j] = Notice("left", a[i].about)
  <2>1. CASE i = L + 1
    BY <1>1, <1>2, <2>1 DEF a, L
  <2>2. CASE i # L + 1
    <3>1. i \in 1 .. L /\ a[i] = q[i] /\ L \in Nat
      BY <1>1, <2>2 DEF a, L
    <3>2. q[i].about \in C \/ \E j \in 1 .. L : j > i /\ q[j] = Notice("left", q[i].about)
      BY <1>1, <1>2, <3>1 DEF NewsInOrder, L
    <3>3. CASE q[i].about \in C
      <4>1. CASE q[i].about \in D
        BY <3>1, <3>2, <4>1
      <4>2. CASE f = Notice("left", q[i].about)
        <5>1. a[L + 1] = Notice("left", a[i].about)
          BY <1>1, <3>1, <4>2 DEF a, L
        <5>2. L + 1 \in 1 .. L + 1 /\ L + 1 > i
          BY <3>1
        <5> QED BY <3>1, <3>2, <5>1, <5>2
      <4> QED BY <3>3, <4>1, <4>2
    <3>4. CASE \E j \in 1 .. L : j > i /\ q[j] = Notice("left", q[i].about)
      <4>1. PICK j \in 1 .. L : j > i /\ q[j] = Notice("left", q[i].about)
        BY <3>4
      <4>2. j \in 1 .. L + 1 /\ a[j] = q[j]
        BY <1>1, <3>1 DEF a, L
      <4> QED BY <3>1, <3>2, <4>1, <4>2
    <3> QED BY <3>2, <3>3, <3>4
  <2> QED BY <2>1, <2>2
<1>3. DOMAIN a = 1 .. L + 1
  BY <1>1 DEF a, L
<1>4. NewsInOrder(a, D)
  BY <1>2, <1>3 DEF NewsInOrder
<1> QED BY <1>4 DEF a

(* News after a read.                                                      *)
LEMMA NewsRead ==
    ASSUME NEW q \in Seq(WsFrame), q # <<>>, NEW C, NewsInOrder(q, C)
    PROVE  /\ NewsInOrder(Tail(q), C)
           /\ \A x : SaysLeft(q, x) => Head(q) = Notice("left", x) \/ SaysLeft(Tail(q), x)
           /\ Head(q).kind = "joined" =>
                Head(q).about \in C \/ SaysLeft(Tail(q), Head(q).about)
<1> DEFINE L == Len(q)
           t == Tail(q)
<1>1. /\ L \in Nat /\ L > 0 /\ DOMAIN q = 1 .. L
      /\ DOMAIN t = 1 .. L - 1
      /\ \A i \in 1 .. L - 1 : t[i] = q[i + 1]
      /\ Head(q) = q[1]
  <2>1. L \in Nat /\ DOMAIN q = 1 .. L
    BY LenProperties
  <2>2. t \in Seq(WsFrame) /\ Len(t) = L - 1 /\ \A i \in 1 .. L - 1 : t[i] = q[i + 1]
    BY HeadTailProperties
  <2>3. L > 0
    BY <2>1, EmptySeq
  <2>4. DOMAIN t = 1 .. L - 1
    BY <2>2, LenProperties
  <2> QED BY <2>1, <2>2, <2>3, <2>4
<1> HIDE DEF L, t
<1>2. ASSUME NEW j \in 1 .. L, j > 1 PROVE j - 1 \in 1 .. L - 1 /\ t[j - 1] = q[j]
  <2>1. j - 1 \in 1 .. L - 1 /\ j - 1 + 1 = j
    BY <1>1, <1>2
  <2> QED BY <1>1, <2>1
<1>3. ASSUME NEW i \in 1 .. L - 1, t[i].kind = "joined"
      PROVE  t[i].about \in C \/ \E j \in 1 .. L - 1 : j > i /\ t[j] = Notice("left", t[i].about)
  <2>1. i + 1 \in 1 .. L /\ t[i] = q[i + 1]
    BY <1>1
  <2>2. \/ q[i + 1].about \in C
        \/ \E j \in 1 .. L : j > i + 1 /\ q[j] = Notice("left", q[i + 1].about)
    BY <1>1, <1>3, <2>1 DEF NewsInOrder
  <2>3. ASSUME NEW j \in 1 .. L, j > i + 1, q[j] = Notice("left", q[i + 1].about)
        PROVE  \E k \in 1 .. L - 1 : k > i /\ t[k] = Notice("left", t[i].about)
    <3>1. j > 1 /\ j - 1 > i
      BY <1>1, <2>3
    <3> QED BY <1>2, <2>1, <2>3, <3>1
  <2> QED BY <2>1, <2>2, <2>3
<1>4. NewsInOrder(t, C)
  BY <1>1, <1>3 DEF NewsInOrder
<1>5. ASSUME NEW x, SaysLeft(q, x) PROVE Head(q) = Notice("left", x) \/ SaysLeft(t, x)
  <2>1. PICK j \in 1 .. L : q[j] = Notice("left", x)
    BY <1>1, <1>5 DEF SaysLeft
  <2>2. CASE j = 1
    BY <1>1, <2>1, <2>2
  <2>3. CASE j # 1
    <3>1. j > 1
      BY <1>1, <2>3
    <3> QED BY <1>1, <1>2, <2>1, <3>1 DEF SaysLeft
  <2> QED BY <2>2, <2>3
<1>6. ASSUME Head(q).kind = "joined"
      PROVE  Head(q).about \in C \/ SaysLeft(t, Head(q).about)
  <2>1. 1 \in 1 .. L /\ q[1].kind = "joined"
    BY <1>1, <1>6
  <2>2. q[1].about \in C \/ \E j \in 1 .. L : j > 1 /\ q[j] = Notice("left", q[1].about)
    BY <1>1, <2>1 DEF NewsInOrder
  <2> QED BY <1>1, <1>2, <2>2 DEF SaysLeft
<1> QED BY <1>4, <1>5, <1>6 DEF t

\* More clients, and an empty stream, leave no story open.
LEMMA NewsMore ==
    ASSUME NEW q, NEW C, NEW D, NewsInOrder(q, C), C \subseteq D
    PROVE  NewsInOrder(q, D) /\ NewsInOrder(<<>>, D)
BY DEF NewsInOrder

\* What was said is said after a write too.
LEMMA SaysLeftAppended ==
    ASSUME NEW q \in Seq(WsFrame), NEW f \in WsFrame, NEW x
    PROVE  SaysLeft(Append(q, f), x) <=> SaysLeft(q, x) \/ f = Notice("left", x)
<1>1. /\ Len(q) \in Nat /\ DOMAIN q = 1 .. Len(q)
      /\ DOMAIN Append(q, f) = 1 .. Len(q) + 1
      /\ \A i \in 1 .. Len(q) : Append(q, f)[i] = q[i]
      /\ Append(q, f)[Len(q) + 1] = f
  BY AppendProperties, LenProperties
<1>2. \A i \in 1 .. Len(q) + 1 : i \in 1 .. Len(q) \/ i = Len(q) + 1
  BY <1>1
<1>3. Len(q) + 1 \in 1 .. Len(q) + 1 /\ \A i \in 1 .. Len(q) : i \in 1 .. Len(q) + 1
  BY <1>1
<1> QED BY <1>1, <1>2, <1>3 DEF SaysLeft

(* The server writes f to its clients in S: everybody stays a client, or   *)
(* one leaves and f says so to all the others.                             *)
LEMMA ServerListed ==
    ASSUME WsOK, Listed, NEW S \in SUBSET clients, NEW f \in WsFrame,
           down' = ToClients(S, f), UNCHANGED <<owner, sock, devices>>,
           \A s \in Socket : end'[s] = "open" => end[s] \in {"none", "open"},
           f.kind = "joined" => f.about \in clients',
           \/ clients \subseteq clients'
           \/ \E x \in Socket : /\ f = Notice("left", x) /\ end[x] # "open"
                                /\ clients' = clients \ {x} /\ S = clients \ {x}
    PROVE  Listed'
<1>0. /\ \A s \in Socket : /\ down[s] # <<>> => s \in Listening
                           /\ sock[s] = "open" \/ down[s] # <<>> => end[s] # "none"
                           /\ down[s] \in Seq(WsFrame)
      /\ devices \in [Page -> SUBSET Socket]
  BY WsTypes DEF WsOK
<1>1. \A s \in Socket : /\ s \in Served(S) => down'[s] = Append(down[s], f)
                        /\ s \notin Served(S) => down'[s] = down[s]
  BY ToClientsFrames
<1>2. PICK D : D = clients'
  OBVIOUS
<1>3. ASSUME NEW s \in Socket, end[s] = "open", s \notin Served(S), down[s] # <<>>
      PROVE  clients \subseteq D
  <2>1. s \in clients /\ s \in Listening
    BY <1>0, <1>3 DEF clients
  <2>2. s \notin S
    BY <1>3, <2>1 DEF Served
  <2> QED BY <1>2, <1>3, <2>1, <2>2
<1>4. ASSUME NEW s \in Socket, end'[s] = "open" PROVE NewsInOrder(down'[s], D)
  <2>1. CASE end[s] = "none"
    <3>1. down'[s] = <<>>
      BY <1>0, <1>1, <2>1 DEF Served
    <3> QED BY <3>1 DEF NewsInOrder
  <2>2. CASE end[s] = "open" /\ s \in Served(S)
    <3>1. NewsInOrder(down[s], clients)
      BY <2>2 DEF Listed
    <3>2. \A x \in clients : x \in D \/ f = Notice("left", x)
      BY <1>2
    <3>3. NewsInOrder(Append(down[s], f), D)
      BY <1>0, <1>2, <3>1, <3>2, NewsAppended
    <3> QED BY <1>1, <2>2, <3>3
  <2>3. CASE end[s] = "open" /\ s \notin Served(S)
    <3>1. down'[s] = down[s] /\ NewsInOrder(down[s], clients)
      BY <1>1, <2>3 DEF Listed
    <3>2. CASE down[s] = <<>>
      BY <3>1, <3>2 DEF NewsInOrder
    <3>3. CASE clients \subseteq D
      BY <3>1, <3>3, NewsMore
    <3> QED BY <1>3, <2>3, <3>2, <3>3
  <2> QED BY <1>4, <2>1, <2>2, <2>3
<1>5. ASSUME NEW g \in Page, NEW x \in devices[g]
      PROVE  \E s \in Socket : Witness(s, g, x)'
  <2>1. PICK s \in Socket : Witness(s, g, x)
    BY DEF Listed
  <2>2. /\ owner[s] = g /\ sock[s] = "open"
        /\ end[s] # "none" /\ s \in Listening
    BY <1>0, <2>1 DEF Witness, Listening
  <2>3. ASSUME end'[s] = "open" PROVE x \in D \/ SaysLeft(down'[s], x)
    <3>1. end[s] = "open" /\ s \in clients
      BY <2>2, <2>3 DEF clients
    <3>2. x \in clients \/ SaysLeft(down[s], x)
      BY <2>1, <3>1 DEF Witness
    <3>3. SaysLeft(Append(down[s], f), x) <=> SaysLeft(down[s], x) \/ f = Notice("left", x)
      BY <1>0, SaysLeftAppended
    <3>4. CASE SaysLeft(down[s], x)
      BY <1>1, <3>3, <3>4
    <3>5. CASE x \in clients /\ x \notin D
      <4>1. f = Notice("left", x) /\ s \in Served(S)
        BY <1>2, <2>2, <3>1, <3>5 DEF Served
      <4> QED BY <1>1, <3>3, <4>1
    <3> QED BY <3>2, <3>4, <3>5
  <2>4. Witness(s, g, x)'
    BY <1>2, <2>2, <2>3 DEF Witness, SaysLeft
  <2> QED BY <2>4
<1> QED BY <1>2, <1>4, <1>5 DEF Listed

\* The three handlers of the server.
LEMMA ServerListedSteps ==
    ASSUME WsOK, Listed, NEW s \in Socket, Join(s) \/ RelayMessage(s) \/ Leave(s)
    PROVE  Listed'
<1>0. end \in [Socket -> {"none", "open", "closing", "closed"}]
  BY WsTypes
<1>1. CASE Join(s)
  <2>1. /\ Notice("joined", s) \in WsFrame
        /\ Notice("joined", s).about = s
    BY DEF Notice, WsFrame
  <2>2. /\ end[s] = "none"
        /\ down' = ToClients(clients, Notice("joined", s))
        /\ end' = [end EXCEPT ![s] = "open"]
        /\ UNCHANGED <<owner, sock, devices>>
    BY <1>1 DEF Join, pageVars
  <2>3. clients' = clients \cup {s}
    BY <1>0, <2>2 DEF clients
  <2>4. \A r \in Socket : end'[r] = "open" => end[r] \in {"none", "open"}
    BY <1>0, <2>2
  <2> QED BY <2>1, <2>2, <2>3, <2>4, ServerListed
<1>2. CASE RelayMessage(s)
  <2>1. /\ up[s] # <<>>
        /\ down' = ToClients(clients \ {s}, Notice("packet", Head(up[s])))
        /\ UNCHANGED <<owner, sock, devices, end>>
    BY <1>2 DEF RelayMessage, pageVars
  <2>2. Head(up[s]) \in Msg
    BY <2>1, HeadTailProperties DEF WsOK
  <2>3. /\ Notice("packet", Head(up[s])) \in WsFrame
        /\ Notice("packet", Head(up[s])).kind # "joined"
    BY <2>2 DEF Notice, WsFrame
  <2>4. clients \ {s} \in SUBSET clients /\ clients' = clients
    BY <2>1 DEF clients
  <2> QED BY <2>1, <2>3, <2>4, ServerListed
<1>3. CASE Leave(s)
  <2>1. /\ end[s] = "closing"
        /\ end' = [end EXCEPT ![s] = "closed"]
        /\ down' = ToClients(clients \ {s}, Notice("left", s))
        /\ UNCHANGED <<owner, sock, devices>>
    BY <1>3 DEF Leave, pageVars
  <2>2. Notice("left", s) \in WsFrame /\ Notice("left", s).kind # "joined"
    BY DEF Notice, WsFrame
  <2>3. clients' = clients \ {s} /\ clients \ {s} \in SUBSET clients
    BY <1>0, <2>1 DEF clients
  <2>4. \A r \in Socket : end'[r] = "open" => end[r] \in {"none", "open"}
    BY <1>0, <2>1
  <2> QED BY <2>1, <2>2, <2>3, <2>4, ServerListed
<1> QED BY <1>1, <1>2, <1>3

(* Steps that take nobody off the server, write nothing to a page, and     *)
(* either keep an open socket and the list of its page, or empty the list. *)
LEMMA PageListed ==
    ASSUME WsOK, Listed, UNCHANGED clients,
           \A s \in Socket : end'[s] = "open" => end[s] = "open",
           \A s \in Socket : down'[s] = down[s] \/ down'[s] = <<>>,
           \A g \in Page :
             \/ devices'[g] = {}
             \/ /\ devices'[g] = devices[g]
                /\ \A s \in Socket : owner[s] = g /\ sock[s] = "open" =>
                     owner'[s] = g /\ sock'[s] = "open" /\ down'[s] = down[s]
    PROVE  Listed'
<1>1. \A s \in Socket : end'[s] = "open" => NewsInOrder(down'[s], clients)
  BY DEF Listed, NewsInOrder
<1>2. ASSUME NEW g \in Page, NEW x \in devices'[g]
      PROVE  \E s \in Socket : Witness(s, g, x)'
  <2>1. /\ devices'[g] = devices[g]
        /\ \A s \in Socket : owner[s] = g /\ sock[s] = "open" =>
             owner'[s] = g /\ sock'[s] = "open" /\ down'[s] = down[s]
    BY <1>2
  <2>2. PICK s \in Socket : Witness(s, g, x)
    BY <1>2, <2>1 DEF Listed
  <2>3. Witness(s, g, x)'
    BY <2>1, <2>2 DEF Witness, SaysLeft
  <2> QED BY <2>3
<1> QED BY <1>1, <1>2 DEF Listed

\* A page reads: the news it had waited for, or others.
LEMMA MessageListed ==
    ASSUME WsOK, Listed, NEW s \in Socket, OnMessage(s)
    PROVE  Listed'
<1> DEFINE g == owner[s]
           f == Head(down[s])
<1>0. /\ devices \in [Page -> SUBSET Socket]
      /\ down \in [Socket -> Seq(WsFrame)]
      /\ owner \in [Socket -> Page \cup {NoPage}]
      /\ sock[s] = "open" => owner[s] # NoPage
  BY WsTypes DEF WsOK
<1>1. /\ sock[s] = "open" /\ down[s] # <<>>
      /\ down' = [down EXCEPT ![s] = Tail(@)]
      /\ UNCHANGED <<owner, sock, end>>
  BY DEF OnMessage
<1>2. g \in Page /\ f \in WsFrame /\ down[s] \in Seq(WsFrame)
  <2>1. g \in Page
    BY <1>0, <1>1
  <2> QED BY <1>0, <1>1, <2>1, HeadTailProperties
<1>3. /\ end[s] = "open" => NewsInOrder(Tail(down[s]), clients)
      /\ \A x : SaysLeft(down[s], x) => f = Notice("left", x) \/ SaysLeft(Tail(down[s]), x)
      /\ end[s] = "open" /\ f.kind = "joined" =>
           f.about \in clients \/ SaysLeft(Tail(down[s]), f.about)
  <2>1. end[s] = "open" => NewsInOrder(down[s], clients)
    BY DEF Listed
  <2>2. NewsInOrder(down[s], Socket)
    <3>1. \A i \in DOMAIN down[s] : down[s][i] \in WsFrame
      BY <1>2, LenProperties
    <3> QED BY <3>1 DEF NewsInOrder, WsFrame
  <2> HIDE DEF g
  <2> QED BY <1>1, <1>2, <2>1, <2>2, NewsRead
<1>4. \A r \in Socket : /\ r # s => down'[r] = down[r]
                        /\ r = s => down'[r] = Tail(down[s])
  BY <1>0, <1>1
<1>5. clients' = clients /\ \A r \in Socket : end[r] = "open" => NewsInOrder(down'[r], clients)
  BY <1>1, <1>3, <1>4 DEF Listed, clients
<1>6. \/ devices' = devices /\ f.kind = "packet"
      \/ f.kind = "joined" /\ devices' = [devices EXCEPT ![g] = @ \cup {f.about}]
      \/ f.kind = "left" /\ devices' = [devices EXCEPT ![g] = @ \ {f.about}]
  BY DEF OnMessage
<1> HIDE DEF f, g
<1>7. ASSUME NEW h \in Page, NEW x \in devices'[h]
      PROVE  \E r \in Socket : Witness(r, h, x)'
  <2>1. CASE x \in devices[h] /\ ~(h = g /\ f = Notice("left", x))
    <3>1. PICK r \in Socket : Witness(r, h, x)
      BY <2>1 DEF Listed
    <3>2. SaysLeft(down[r], x) => SaysLeft(down'[r], x)
      <4>1. CASE r = s
        <5>1. h = g
          BY <3>1, <4>1 DEF Witness, g
        <5> QED BY <1>3, <1>4, <2>1, <4>1, <5>1
      <4>2. CASE r # s
        BY <1>4, <4>2
      <4> QED BY <4>1, <4>2
    <3>3. Witness(r, h, x)'
      BY <1>1, <1>5, <3>1, <3>2 DEF Witness, SaysLeft
    <3> QED BY <3>3
  <2>2. CASE h = g /\ f.kind = "joined" /\ x = f.about
    <3>1. end[s] = "open" => x \in clients \/ SaysLeft(down'[s], x)
      BY <1>3, <1>4, <2>2
    <3>2. owner[s] = h
      BY <2>2 DEF g
    <3>3. Witness(s, h, x)'
      BY <1>1, <1>5, <3>1, <3>2 DEF Witness, SaysLeft
    <3> QED BY <3>3
  <2>3. \/ x \in devices[h] /\ ~(h = g /\ f = Notice("left", x))
        \/ h = g /\ f.kind = "joined" /\ x = f.about
    <3>1. f = Notice("left", x) => f.kind = "left" /\ f.about = x
      BY DEF Notice
    <3> QED BY <1>0, <1>2, <1>6, <1>7, <3>1
  <2> QED BY <2>1, <2>2, <2>3
<1> QED BY <1>1, <1>5, <1>7 DEF Listed

\* Every handler keeps it.
LEMMA NextListed == WsOK /\ Listed /\ [WsNext]_wsVars => Listed'
<1> SUFFICES ASSUME WsOK, Listed, [WsNext]_wsVars PROVE Listed'
  OBVIOUS
<1>0. /\ owner \in [Socket -> Page \cup {NoPage}]
      /\ sock \in [Socket -> {"connecting", "open", "closing", "closed"}]
      /\ ws \in [Page -> Socket \cup {NoSocket}]
      /\ \A h \in Page : ws[h] # NoSocket => owner[ws[h]] = h
      /\ devices \in [Page -> SUBSET Socket]
      /\ NoPage \notin Page
      /\ down \in [Socket -> Seq(WsFrame)]
      /\ \A r \in Socket : owner[r] = NoPage => sock[r] = "closed"
  BY WsTypes DEF WsOK
<1>1. ASSUME NEW s \in Socket, OnOpen(s) PROVE Listed'
  <2>1. \A r \in Socket : sock[r] = "open" => sock'[r] = "open"
    BY <1>0, <1>1 DEF OnOpen
  <2>2. UNCHANGED <<owner, devices, down, end>>
    BY <1>1 DEF OnOpen, pageVars
  <2> QED BY <2>1, <2>2, PageListed DEF clients
<1>2. ASSUME NEW s \in Socket, OnClose(s) PROVE Listed'
  <2>1. /\ sock' = [sock EXCEPT ![s] = "closed"]
        /\ devices' = [devices EXCEPT ![owner[s]] = {}]
        /\ down' = [down EXCEPT ![s] = <<>>]
        /\ UNCHANGED <<owner, end>>
    BY <1>2 DEF OnClose, DevicesCleared
  <2>2. \A r \in Socket : down'[r] = down[r] \/ down'[r] = <<>>
    BY <1>0, <2>1
  <2>3. ASSUME NEW g \in Page
        PROVE  \/ devices'[g] = {}
               \/ /\ devices'[g] = devices[g]
                  /\ \A r \in Socket : owner[r] = g /\ sock[r] = "open" =>
                       owner'[r] = g /\ sock'[r] = "open" /\ down'[r] = down[r]
    BY <1>0, <2>1
  <2> QED BY <2>1, <2>2, <2>3, PageListed DEF clients
<1>3. ASSUME NEW g \in Page, StopAll(g) PROVE Listed'
  <2>1. /\ sock' = [s \in Socket |-> IF s = ws[g] THEN "closing" ELSE sock[s]]
        /\ devices' = [devices EXCEPT ![g] = {}]
        /\ down' = [s \in Socket |-> IF s = ws[g] THEN <<>> ELSE down[s]]
        /\ UNCHANGED <<owner, end>>
    BY <1>3 DEF StopAll
  <2>2. \A r \in Socket : down'[r] = down[r] \/ down'[r] = <<>>
    BY <2>1
  <2>3. ASSUME NEW h \in Page
        PROVE  \/ devices'[h] = {}
               \/ /\ devices'[h] = devices[h]
                  /\ \A r \in Socket : owner[r] = h /\ sock[r] = "open" =>
                       owner'[r] = h /\ sock'[r] = "open" /\ down'[r] = down[r]
    <3>1. CASE h = g
      BY <1>0, <2>1, <3>1
    <3>2. CASE h # g
      <4>1. devices'[h] = devices[h]
        BY <1>0, <2>1, <3>2
      <4>2. \A r \in Socket : owner[r] = h => r # ws[g]
        <5>1. \A r \in Socket : r # NoSocket
          BY WsTypes
        <5> QED BY <1>0, <3>2, <5>1
      <4> QED BY <2>1, <4>1, <4>2
    <3> QED BY <3>1, <3>2
  <2> QED BY <2>1, <2>2, <2>3, PageListed DEF clients
<1>4. ASSUME NEW g \in Page, NEW s \in Socket, ConnectWS(g, s) PROVE Listed'
  <2>1. /\ owner[s] = NoPage
        /\ owner' = [owner EXCEPT ![s] = g]
        /\ sock' = [sock EXCEPT ![s] = "connecting"]
        /\ UNCHANGED <<devices, down, end>>
    BY <1>4 DEF ConnectWS
  <2>2. \A h \in Page : \A r \in Socket : owner[r] = h /\ sock[r] = "open" =>
          owner'[r] = h /\ sock'[r] = "open"
    BY <1>0, <2>1
  <2> QED BY <2>1, <2>2, PageListed DEF clients
<1>5. ASSUME NEW s \in Socket, OnMessage(s) PROVE Listed'
  BY <1>5, MessageListed
<1>6. ASSUME NEW s \in Socket, Join(s) \/ RelayMessage(s) \/ Leave(s) PROVE Listed'
  BY <1>6, ServerListedSteps
<1>7. ASSUME NEW g \in Page, NEW m \in Msg, SendMessage(g, m) PROVE Listed'
  <2>1. UNCHANGED <<owner, sock, devices, down, end>>
    BY <1>7 DEF SendMessage
  <2> QED BY <2>1, PageListed DEF clients
<1>8. ASSUME NEW s \in Socket, Ending(s) PROVE Listed'
  <2>1. /\ end[s] = "open"
        /\ end' = [end EXCEPT ![s] = "closing"]
        /\ UNCHANGED <<owner, sock, devices, down>>
    BY <1>8 DEF Ending, pageVars
  <2>2. clients' = clients /\ \A r \in Socket : end'[r] = "open" => end[r] = "open"
    BY <2>1, WsTypes DEF clients
  <2> QED BY <2>1, <2>2, PageListed
<1>9. ASSUME NEW g \in Page, NEW m \in Msg, Age(g, m) PROVE Listed'
  <2>1. UNCHANGED <<owner, sock, devices, down, end>>
    BY <1>9 DEF Age
  <2> QED BY <2>1, PageListed DEF clients
<1>10. ASSUME UNCHANGED wsVars PROVE Listed'
  <2>1. UNCHANGED <<owner, sock, devices, down, end>>
    BY <1>10 DEF wsVars
  <2> QED BY <2>1, PageListed DEF clients
<1> QED BY <1>1, <1>2, <1>3, <1>4, <1>5, <1>6, <1>7, <1>8, <1>9, <1>10 DEF WsNext

(***************************************************************************)
(* WsRelay: the theorems.                                                  *)
(***************************************************************************)

(* The pages and the server: sockets, streams and lists have their types,  *)
(* and a page's ws is a socket it made (demo.html:277-340).                *)
THEOREM WsTypesTheorem == WsSpec => []WsTypeOK
<1>1. WsSpec => []WsOK
  BY InitWsOK, NextWsOK, PTL DEF WsSpec
<1> QED BY <1>1, PTL DEF WsOK

(* A packet that comes back to its page through a second socket of that    *)
(* page is not shown: encodePacket has marked it, and decoding tests the   *)
(* mark (demo.html:246, :449).                                             *)
THEOREM AuthorTheorem == WsSpec => []NotBackToAuthor
<1>1. WsInit => Authored
  <2> SUFFICES ASSUME WsInit PROVE Authored
    OBVIOUS
  <2>1. \A s \in Socket : Carried(up[s]) = {} /\ Carried(down[s]) = {}
    BY DEF WsInit, Carried
  <2>2. \A g \in Page : shown[g] = {} /\ idSeen[g] = {}
    BY DEF WsInit
  <2>3. \A m \in Msg : author[m] = NoPage
    BY DEF WsInit
  <2> QED BY <2>1, <2>2, <2>3 DEF Authored, NotBackToAuthor
<1>2. WsSpec => [](WsOK /\ Authored)
  BY <1>1, InitWsOK, NextWsOK, NextAuthored, PTL DEF WsSpec
<1> QED BY <1>2, PTL DEF Authored

(* Whatever a page lists is a client, or the news that it left is on its   *)
(* way to the page (demo.html:320, :332; relay-server.js:61), however      *)
(* sockets of one page overlap and whichever of them fails.                *)
THEOREM ListedTheorem == WsSpec => []ListedAreLive
<1>1. WsInit => Listed
  <2> SUFFICES ASSUME WsInit PROVE Listed
    OBVIOUS
  <2>1. \A s \in Socket : down[s] = <<>>
    BY DEF WsInit
  <2>2. \A g \in Page : devices[g] = {}
    BY DEF WsInit
  <2>3. \A s \in Socket : NewsInOrder(down[s], clients)
    BY <2>1 DEF NewsInOrder
  <2> QED BY <2>2, <2>3 DEF Listed
<1>2. WsSpec => [](WsOK /\ Listed)
  BY <1>1, InitWsOK, NextWsOK, NextListed, PTL DEF WsSpec
<1>3. Listed => ListedAreLive
  BY DEF Listed, Witness, SaysLeft, ListedAreLive
<1> QED BY <1>2, <1>3, PTL

(***************************************************************************)
(* AndroidSeenCache.  What follows is about a log L, a cache S and a time  *)
(* t, so that a step is one set of facts about two of each.                *)
(***************************************************************************)
Stored == [id : Key, at : Nat]

\* The ids stored at t or later.
Younger(L, t) == {L[j].id : j \in {k \in DOMAIN L : L[k].at >= t}}

\* KnownUnlessCrowded, of L, S and the time.
Recalls(L, S, time) ==
    \A i \in DOMAIN L :
      time - L[i].at <= MaxAge /\ Cardinality(Younger(L, L[i].at)) <= CacheMax
        => \E e \in S : e.id = L[i].id

(* The cache holds, for some of the ids stored, the last record of each.   *)
LastOfEach(L, S, time) ==
    /\ L \in Seq(Stored) /\ S \in SUBSET Stored /\ IsFiniteSet(S) /\ time \in Nat
    /\ \A i \in DOMAIN L : L[i].at <= time
    /\ \A e \in S : \E j \in DOMAIN L : L[j] = e
    /\ \A e, f \in S : e.id = f.id => e = f
    /\ \A e \in S : \A i \in DOMAIN L : L[i].id = e.id => L[i].at <= e.at

\* Records have their fields.
LEMMA StoredFields ==
    ASSUME NEW L, NEW S, NEW time, LastOfEach(L, S, time)
    PROVE  /\ DOMAIN L = 1 .. Len(L) /\ Len(L) \in Nat
           /\ \A i \in DOMAIN L : L[i] \in Stored /\ L[i].id \in Key /\ L[i].at \in Nat
           /\ \A e \in S : e \in Stored /\ e.id \in Key /\ e.at \in Nat
<1>1. L \in Seq(Stored) /\ S \in SUBSET Stored
  BY DEF LastOfEach
<1>2. DOMAIN L = 1 .. Len(L) /\ Len(L) \in Nat /\ \A i \in DOMAIN L : L[i] \in Stored
  BY <1>1, LenProperties, ElementOfSeq
<1>3. \A r \in Stored : r.id \in Key /\ r.at \in Nat
  BY DEF Stored
<1> QED BY <1>1, <1>2, <1>3

\* A log is finite, and so are the ids in it.
LEMMA YoungerFinite ==
    ASSUME NEW L, NEW S, NEW time, LastOfEach(L, S, time), NEW t \in Nat
    PROVE  IsFiniteSet(Younger(L, t)) /\ Cardinality(Younger(L, t)) \in Nat
<1> DEFINE D == {k \in DOMAIN L : L[k].at >= t}
           f == [k \in D |-> L[k].id]
<1>1. IsFiniteSet(D)
  <2>1. IsFiniteSet(1 .. Len(L))
    BY StoredFields, FS_Interval
  <2> QED BY <2>1, StoredFields, FS_Subset
<1>2. f \in Surjection(D, Younger(L, t))
  BY DEF Surjection, Younger
<1>3. IsFiniteSet(Younger(L, t))
  <2> HIDE DEF D, f
  <2> QED BY <1>1, <1>2, FS_Surjection
<1> QED BY <1>3, FS_CardinalityType

(* Evicting an oldest entry of a cache over the limit forgets no id that   *)
(* is owed: every entry of the cache, of another id each, is as young.     *)
LEMMA EvictedAreOwedNothing ==
    ASSUME NEW L, NEW S, NEW time, LastOfEach(L, S, time), Cardinality(S) > CacheMax,
           NEW victim \in S, \A e \in S : victim.at <= e.at,
           NEW i \in DOMAIN L, L[i].id = victim.id
    PROVE  Cardinality(Younger(L, L[i].at)) > CacheMax
<1> DEFINE Y == Younger(L, L[i].at)
           f == [e \in S |-> e.id]
<1>1. L[i].at \in Nat /\ L[i].at <= victim.at /\ victim.at \in Nat
  BY StoredFields DEF LastOfEach
<1>2. f \in [S -> Y]
  <2> SUFFICES ASSUME NEW e \in S PROVE e.id \in Y
    OBVIOUS
  <2>1. PICK j \in DOMAIN L : L[j] = e
    BY DEF LastOfEach
  <2>2. L[j].at >= L[i].at
    <3>1. e.at \in Nat /\ victim.at <= e.at
      BY StoredFields
    <3> QED BY <1>1, <2>1, <3>1
  <2> QED BY <2>1, <2>2 DEF Younger
<1>3. \A e, g \in S : f[e] = f[g] => e = g
  BY DEF LastOfEach
<1>4. IsFiniteSet(S) /\ Cardinality(S) \in Nat
  BY FS_CardinalityType DEF LastOfEach
<1>5. IsFiniteSet(Y) /\ Cardinality(Y) \in Nat
  BY <1>1, YoungerFinite
<1> HIDE DEF Y, f
<1>6. ~(Cardinality(Y) < Cardinality(S))
  BY <1>2, <1>3, <1>4, <1>5, FS_PigeonHole
<1>7. Cardinality(Y) > CacheMax
  BY <1>4, <1>5, <1>6, AndroidAssumption
<1> QED BY <1>7 DEF Y

(* The last records stay such in a smaller cache, at a later time.         *)
LEMMA FewerRecords ==
    ASSUME NEW L, NEW S, NEW time, LastOfEach(L, S, time),
           NEW T \in SUBSET S, NEW later \in Nat, time <= later
    PROVE  LastOfEach(L, T, later)
<1>1. IsFiniteSet(T)
  BY FS_Subset DEF LastOfEach
<1>2. \A i \in DOMAIN L : L[i].at <= later
  <2> TAKE i \in DOMAIN L
  <2>1. L[i].at \in Nat /\ L[i].at <= time /\ time \in Nat
    BY StoredFields DEF LastOfEach
  <2> QED BY <2>1
<1> QED BY <1>1, <1>2 DEF LastOfEach

\* Time only makes more ids outdated.
LEMMA LaterRecalls ==
    ASSUME NEW L, NEW S, NEW time, LastOfEach(L, S, time), Recalls(L, S, time)
    PROVE  Recalls(L, S, time + 1)
<1> DEFINE later == time + 1
<1>1. ASSUME NEW i \in DOMAIN L, later - L[i].at <= MaxAge,
             Cardinality(Younger(L, L[i].at)) <= CacheMax
      PROVE  \E e \in S : e.id = L[i].id
  <2>1. time \in Nat /\ L[i].at \in Nat /\ MaxAge \in Nat
    BY StoredFields, AndroidAssumption DEF LastOfEach
  <2>2. time - L[i].at <= MaxAge
    BY <1>1, <2>1
  <2> QED BY <1>1, <2>2 DEF Recalls
<1>2. Recalls(L, S, later)
  <2> HIDE DEF later
  <2> QED BY <1>1 DEF Recalls
<1> QED BY <1>2

(* The outdated go: an id that is owed has a record as young.              *)
LEMMA OutdatedRecalls ==
    ASSUME NEW L, NEW S, NEW time, LastOfEach(L, S, time), Recalls(L, S, time)
    PROVE  Recalls(L, {e \in S : ~(time - e.at > MaxAge)}, time)
<1> DEFINE T == {e \in S : ~(time - e.at > MaxAge)}
<1>1. ASSUME NEW i \in DOMAIN L, time - L[i].at <= MaxAge,
             Cardinality(Younger(L, L[i].at)) <= CacheMax
      PROVE  \E e \in T : e.id = L[i].id
  <2>1. PICK e \in S : e.id = L[i].id
    BY <1>1 DEF Recalls
  <2>2. L[i].at <= e.at
    BY <2>1 DEF LastOfEach
  <2>3. time \in Nat /\ L[i].at \in Nat /\ e.at \in Nat /\ MaxAge \in Nat
    BY StoredFields, AndroidAssumption DEF LastOfEach
  <2>4. ~(time - e.at > MaxAge)
    BY <1>1, <2>2, <2>3
  <2> QED BY <2>1, <2>4
<1>2. Recalls(L, T, time)
  <2> HIDE DEF T
  <2> QED BY <1>1 DEF Recalls
<1> QED BY <1>2

\* One turn of the loop over the limit.
LEMMA EvictedRecalls ==
    ASSUME NEW L, NEW S, NEW time, LastOfEach(L, S, time), Recalls(L, S, time),
           Cardinality(S) > CacheMax, NEW victim \in S, \A e \in S : victim.at <= e.at
    PROVE  Recalls(L, S \ {victim}, time)
<1> DEFINE T == S \ {victim}
<1>1. ASSUME NEW i \in DOMAIN L, time - L[i].at <= MaxAge,
             Cardinality(Younger(L, L[i].at)) <= CacheMax
      PROVE  \E e \in T : e.id = L[i].id
  <2>1. PICK e \in S : e.id = L[i].id
    BY <1>1 DEF Recalls
  <2>2. L[i].id # victim.id
    <3> SUFFICES ASSUME L[i].id = victim.id PROVE FALSE
      OBVIOUS
    <3>1. Cardinality(Younger(L, L[i].at)) > CacheMax
      BY EvictedAreOwedNothing
    <3>2. L[i].at \in Nat
      BY StoredFields
    <3>3. Cardinality(Younger(L, L[i].at)) \in Nat
      BY <3>2, YoungerFinite
    <3> QED BY <1>1, <3>1, <3>3, AndroidAssumption
  <2> QED BY <2>1, <2>2
<1>2. Recalls(L, T, time)
  <2> HIDE DEF T
  <2> QED BY <1>1 DEF Recalls
<1> QED BY <1>2

(* A record put now takes the place of an older one of its id.             *)
LEMMA PutRecords ==
    ASSUME NEW L, NEW S, NEW time, LastOfEach(L, S, time), NEW id \in Key
    PROVE  LET new == [id |-> id, at |-> time]
               T == {e \in S : e.id # id} \cup {new}
           IN  /\ LastOfEach(Append(L, new), T, time)
               /\ Recalls(L, S, time) => Recalls(Append(L, new), T, time)
<1> DEFINE new == [id |-> id, at |-> time]
           T == {e \in S : e.id # id} \cup {new}
           M == Append(L, new)
<1>1. /\ L \in Seq(Stored) /\ time \in Nat /\ new \in Stored
      /\ new.id = id /\ new.at = time
  BY DEF LastOfEach, Stored
<1> HIDE DEF new
<1>2. /\ M \in Seq(Stored) /\ Len(M) = Len(L) + 1 /\ Len(L) \in Nat
      /\ DOMAIN M = 1 .. Len(M) /\ DOMAIN L = 1 .. Len(L)
      /\ \A j \in 1 .. Len(L) : M[j] = L[j]
      /\ M[Len(L) + 1] = new
  BY <1>1, AppendProperties, LenProperties
<1> HIDE DEF M
<1>3. /\ \A j \in DOMAIN L : j \in DOMAIN M /\ M[j] = L[j]
      /\ Len(L) + 1 \in DOMAIN M
      /\ \A j \in DOMAIN M : j \in DOMAIN L \/ j = Len(L) + 1
  BY <1>2
<1>4. \A j \in DOMAIN M : M[j].at <= time
  <2>1. time <= time
    BY <1>1
  <2> QED BY <1>1, <1>2, <1>3, <2>1 DEF LastOfEach
<1>5. IsFiniteSet(T) /\ T \in SUBSET Stored
  <2>1. IsFiniteSet({e \in S : e.id # id})
    BY FS_Subset DEF LastOfEach
  <2> QED BY <1>1, <2>1, FS_AddElement DEF LastOfEach
<1>6. LastOfEach(M, T, time)
  <2>1. \A e \in T : \E j \in DOMAIN M : M[j] = e
    <3> TAKE e \in T
    <3>1. CASE e = new
      BY <1>2, <1>3, <3>1
    <3>2. CASE e \in S
      BY <1>3, <3>2 DEF LastOfEach
    <3> QED BY <3>1, <3>2
  <2>2. \A e, f \in T : e.id = f.id => e = f
    BY <1>1 DEF LastOfEach
  <2>3. ASSUME NEW e \in T, NEW j \in DOMAIN M, M[j].id = e.id PROVE M[j].at <= e.at
    <3>1. CASE e = new
      BY <1>1, <1>4, <3>1
    <3>2. CASE e # new
      BY <1>1, <1>2, <1>3, <2>3, <3>2 DEF LastOfEach
    <3> QED BY <3>1, <3>2
  <2> HIDE DEF T
  <2> QED BY <1>1, <1>2, <1>4, <1>5, <2>1, <2>2, <2>3 DEF LastOfEach
<1>7. ASSUME Recalls(L, S, time) PROVE Recalls(M, T, time)
  <2> SUFFICES ASSUME NEW i \in DOMAIN M, time - M[i].at <= MaxAge,
                      Cardinality(Younger(M, M[i].at)) <= CacheMax
               PROVE  \E e \in T : e.id = M[i].id
    BY DEF Recalls
  <2>1. CASE M[i].id = id
    BY <1>1, <2>1
  <2>2. CASE M[i].id # id
    <3>1. i \in DOMAIN L /\ M[i] = L[i]
      BY <1>1, <1>2, <1>3, <2>2
    <3>2. L[i].at \in Nat
      BY <3>1, StoredFields
    <3>3. Younger(L, L[i].at) \in SUBSET Younger(M, L[i].at)
      BY <1>3 DEF Younger
    <3>4. IsFiniteSet(Younger(M, L[i].at)) /\ Cardinality(Younger(M, L[i].at)) \in Nat
      <4> HIDE DEF T
      <4> QED BY <1>6, <3>2, YoungerFinite
    <3>5. /\ Cardinality(Younger(L, L[i].at)) \in Nat
          /\ Cardinality(Younger(L, L[i].at)) <= Cardinality(Younger(M, L[i].at))
      BY <3>2, <3>3, <3>4, YoungerFinite, FS_Subset
    <3>6. Cardinality(Younger(L, L[i].at)) <= CacheMax
      BY <3>1, <3>4, <3>5, AndroidAssumption
    <3>7. PICK e \in S : e.id = L[i].id
      BY <1>7, <3>1, <3>6 DEF Recalls
    <3> QED BY <2>2, <3>1, <3>7
  <2> QED BY <2>1, <2>2
<1> QED BY <1>6, <1>7 DEF new, M

\* Entry e of S is as old as any.
IsOldest(e, S) == e \in S /\ \A f \in S : e.at <= f.at

(* The types, and what the cache is to the log; and until the service is   *)
(* destroyed: what is recalled; the id a callback is about to put is not   *)
(* in the cache; while the thread looks for an oldest entry the cache is   *)
(* over the limit, and then the id it has found is still that of one.      *)
AndroidInv ==
    /\ AndroidTypeOK
    /\ LastOfEach(log, seenCache, clock)
    /\ service # "destroyed" =>
         /\ Recalls(log, seenCache, clock)
         /\ \A e \in seenCache : e.id # asked
         /\ cleaner \in {"finding", "removing"} => Cardinality(seenCache) > CacheMax
         /\ cleaner = "removing" => \E e \in seenCache : IsOldest(e, seenCache) /\ e.id = oldest

\* No packet has come.
LEMMA InitAndroid == AndroidInit => AndroidInv
<1> SUFFICES ASSUME AndroidInit PROVE AndroidInv
  OBVIOUS
<1>1. log = <<>> /\ seenCache = {} /\ clock = 0 /\ DOMAIN log = {}
  BY EmptySeq, LenProperties DEF AndroidInit
<1>2. LastOfEach(log, seenCache, clock) /\ Recalls(log, seenCache, clock)
  BY <1>1, FS_EmptySet DEF LastOfEach, Recalls
<1>4. cleaner = "none"
  BY DEF AndroidInit
<1>3. AndroidTypeOK
  <2>1. clock \in 0 .. MaxClock
    BY <1>1, AndroidAssumption
  <2>2. /\ service = "created" /\ isRunning = FALSE /\ cleaner = "none" /\ oldest = NoKey
        /\ seenCache = {} /\ asked = NoKey
    BY DEF AndroidInit
  <2> QED BY <2>1, <2>2 DEF AndroidTypeOK
<1> QED BY <1>1, <1>2, <1>3, <1>4 DEF AndroidInv

\* The types after a step; a record is never newer than the clock.
LEMMA NextAndroidTypes == AndroidInv /\ [AndroidNext]_androidVars => AndroidTypeOK'
<1> SUFFICES ASSUME AndroidInv, [AndroidNext]_androidVars PROVE AndroidTypeOK'
  OBVIOUS
<1>0. AndroidTypeOK /\ AndroidAssumption
  BY AndroidAssumption DEF AndroidInv
<1>1. CASE UNCHANGED androidVars
  BY <1>0, <1>1 DEF AndroidTypeOK, androidVars
<1>2. CASE StartMesh \/ SetRunning \/ StopMesh
  BY <1>0, <1>2 DEF AndroidTypeOK, StartMesh, SetRunning, StopMesh
<1>3. CASE \E id \in Key : ContainsKey(id)
  BY <1>0, <1>3 DEF AndroidTypeOK, ContainsKey
<1>4. CASE PutKey
  <2>1. [id |-> asked, at |-> clock] \in [id : Key, at : 0 .. clock]
    BY <1>0, <1>4 DEF AndroidTypeOK, PutKey
  <2> QED BY <1>0, <1>4, <2>1 DEF AndroidTypeOK, PutKey
<1>5. CASE TestRunning
  <2>1. cleaner' \in {"asleep", "ended"}
    BY <1>5 DEF TestRunning
  <2> QED BY <1>0, <1>5, <2>1 DEF AndroidTypeOK, TestRunning
<1>6. CASE RemoveOutdated
  BY <1>0, <1>6 DEF AndroidTypeOK, RemoveOutdated
<1>7. CASE TestSize \/ FindOldest \/ RemoveOldest
  <2>1. /\ seenCache' \subseteq seenCache
        /\ UNCHANGED <<service, isRunning, asked, clock, log>>
    BY <1>7 DEF TestSize, FindOldest, RemoveOldest
  <2>2. cleaner' \in {"testing", "finding", "removing", "evicting"}
    BY <1>7 DEF TestSize, FindOldest, RemoveOldest
  <2>3. oldest' \in Key \cup {NoKey}
    BY <1>0, <1>7 DEF AndroidTypeOK, TestSize, FindOldest, RemoveOldest
  <2> QED BY <1>0, <2>1, <2>2, <2>3 DEF AndroidTypeOK
<1>8. CASE ClockTick
  <2>1. clock' \in 0 .. MaxClock /\ 0 .. clock \subseteq 0 .. clock'
    BY <1>0, <1>8 DEF AndroidTypeOK, ClockTick
  <2>2. [id : Key, at : 0 .. clock] \subseteq [id : Key, at : 0 .. clock']
    BY <2>1
  <2> QED BY <1>0, <1>8, <2>1, <2>2 DEF AndroidTypeOK, ClockTick
<1> QED BY <1>1, <1>2, <1>3, <1>4, <1>5, <1>6, <1>7, <1>8 DEF AndroidNext

(* A record put beside the search and the removal: the cache grows, and    *)
(* what was its oldest entry still is.                                     *)
LEMMA PutBeside ==
    ASSUME NEW L, NEW S, NEW time, LastOfEach(L, S, time), NEW new \in Stored, new.at = time,
           \A e \in S : e.id # new.id
    PROVE  /\ Cardinality(S) > CacheMax => Cardinality(S \cup {new}) > CacheMax
           /\ \A e \in S : IsOldest(e, S) => IsOldest(e, S \cup {new})
<1>1. new \notin S /\ IsFiniteSet(S)
  BY DEF LastOfEach
<1>2. Cardinality(S \cup {new}) = Cardinality(S) + 1 /\ Cardinality(S) \in Nat
  BY <1>1, FS_AddElement, FS_CardinalityType
<1>3. \A e \in S : e.at <= time
  <2> TAKE e \in S
  <2>1. PICK j \in DOMAIN L : L[j] = e
    BY DEF LastOfEach
  <2> QED BY <2>1 DEF LastOfEach
<1> QED BY <1>2, <1>3, AndroidAssumption DEF IsOldest

\* What the cache is to the log, after the callbacks, the thread and onDestroy.
LEMMA NextRecords == AndroidInv /\ [AndroidNext]_androidVars => LastOfEach(log', seenCache', clock')
<1> SUFFICES ASSUME AndroidInv, [AndroidNext]_androidVars
             PROVE  LastOfEach(log', seenCache', clock')
  OBVIOUS
<1>0. LastOfEach(log, seenCache, clock) /\ clock \in Nat
  BY DEF AndroidInv, LastOfEach
<1>1. CASE /\ seenCache' \subseteq seenCache /\ log' = log
           /\ clock' \in {clock, clock + 1}
  <2>1. clock' \in Nat /\ clock <= clock'
    BY <1>0, <1>1
  <2> QED BY <1>0, <1>1, <2>1, FewerRecords
<1>2. CASE StopMesh
  <2>1. log' = <<>> /\ seenCache' = {} /\ clock' = clock /\ DOMAIN log' = {}
    BY <1>2, EmptySeq, LenProperties DEF StopMesh
  <2> QED BY <1>0, <2>1, FS_EmptySet DEF LastOfEach
<1>3. CASE PutKey
  <2>1. /\ asked \in Key /\ clock' = clock
        /\ log' = Append(log, [id |-> asked, at |-> clock])
        /\ seenCache' = {e \in seenCache : e.id # asked} \cup {[id |-> asked, at |-> clock]}
    BY <1>3 DEF AndroidInv, AndroidTypeOK, PutKey
  <2> QED BY <1>0, <2>1, PutRecords
<1>4. CASE \/ UNCHANGED androidVars \/ StartMesh \/ SetRunning
           \/ \E id \in Key : ContainsKey(id)
           \/ TestRunning \/ TestSize \/ FindOldest
  <2>1. UNCHANGED <<seenCache, log, clock>>
    BY <1>4 DEF androidVars, StartMesh, SetRunning, ContainsKey, TestRunning, TestSize, FindOldest
  <2> QED BY <1>1, <2>1
<1>5. CASE RemoveOutdated \/ RemoveOldest \/ ClockTick
  BY <1>1, <1>5 DEF RemoveOutdated, RemoveOldest, ClockTick
<1> QED BY <1>2, <1>3, <1>4, <1>5 DEF AndroidNext

\* The callbacks and the thread, each beside the other.
LEMMA NextAndroid == AndroidInv /\ [AndroidNext]_androidVars => AndroidInv'
<1> SUFFICES ASSUME AndroidInv, [AndroidNext]_androidVars PROVE AndroidInv'
  OBVIOUS
<1>0. AndroidTypeOK' /\ LastOfEach(log', seenCache', clock')
  BY NextAndroidTypes, NextRecords
<1> SUFFICES ASSUME service' # "destroyed"
             PROVE  /\ Recalls(log', seenCache', clock')
                    /\ \A e \in seenCache' : e.id # asked'
                    /\ cleaner' \in {"finding", "removing"} => Cardinality(seenCache') > CacheMax
                    /\ cleaner' = "removing" =>
                         \E e \in seenCache' : IsOldest(e, seenCache') /\ e.id = oldest'
  BY <1>0 DEF AndroidInv, IsOldest
<1>1. service # "destroyed"
  BY DEF AndroidNext, androidVars, StartMesh, SetRunning, StopMesh, ContainsKey, PutKey,
         TestRunning, RemoveOutdated, TestSize, FindOldest, RemoveOldest, ClockTick
<1>2. /\ LastOfEach(log, seenCache, clock) /\ Recalls(log, seenCache, clock)
      /\ \A e \in seenCache : e.id # asked
      /\ cleaner \in {"finding", "removing"} => Cardinality(seenCache) > CacheMax
      /\ cleaner = "removing" => \E e \in seenCache : IsOldest(e, seenCache) /\ e.id = oldest
      /\ \A e \in seenCache : e.id \in Key
      /\ clock \in Nat
  BY <1>1 DEF AndroidInv, AndroidTypeOK, LastOfEach
<1>3. CASE UNCHANGED androidVars \/ SetRunning
  BY <1>2, <1>3 DEF androidVars, SetRunning
<1>4. CASE StartMesh \/ TestRunning
  <2>1. /\ cleaner' \notin {"finding", "removing"}
        /\ UNCHANGED <<seenCache, asked, clock, log>>
    BY <1>4 DEF StartMesh, TestRunning
  <2> QED BY <1>2, <2>1
<1>5. CASE \E id \in Key : ContainsKey(id)
  BY <1>2, <1>5 DEF ContainsKey
<1>6. CASE PutKey
  <2>1. PICK new : new = [id |-> asked, at |-> clock]
    OBVIOUS
  <2>2. /\ asked \in Key /\ asked' = NoKey
        /\ log' = Append(log, new)
        /\ seenCache' = {e \in seenCache : e.id # asked} \cup {new}
        /\ UNCHANGED <<cleaner, oldest, clock>>
    BY <1>6, <2>1 DEF AndroidInv, AndroidTypeOK, PutKey
  <2>3. Recalls(log', seenCache', clock')
    BY <1>2, <2>1, <2>2, PutRecords
  <2>4. new \in Stored /\ new.at = clock /\ new.id = asked
    BY <1>2, <2>1, <2>2 DEF Stored
  <2>5. seenCache' = seenCache \cup {new}
    BY <1>2, <2>2
  <2>6. /\ Cardinality(seenCache) > CacheMax => Cardinality(seenCache') > CacheMax
        /\ \A e \in seenCache : IsOldest(e, seenCache) => IsOldest(e, seenCache')
    BY <1>2, <2>4, <2>5, PutBeside
  <2>7. \A e \in seenCache' : e.id # asked'
    BY <1>2, <2>2, <2>4, <2>5, AndroidAssumption
  <2> QED BY <1>2, <2>2, <2>3, <2>5, <2>6, <2>7
<1>7. CASE RemoveOutdated
  <2>1. /\ seenCache' = {e \in seenCache : ~(clock - e.at > MaxAge)}
        /\ cleaner' = "evicting" /\ UNCHANGED <<asked, clock, log>>
    BY <1>7 DEF RemoveOutdated, Outdated
  <2> QED BY <1>2, <2>1, OutdatedRecalls
<1>8. CASE TestSize
  <2>1. /\ cleaner' = "finding" => Cardinality(seenCache) > CacheMax
        /\ cleaner' # "removing" /\ UNCHANGED <<seenCache, asked, clock, log>>
    BY <1>8 DEF TestSize
  <2> QED BY <1>2, <2>1
<1>9. CASE FindOldest
  <2>1. cleaner = "finding" /\ UNCHANGED <<seenCache, asked, clock, log>>
    BY <1>9 DEF FindOldest
  <2>2. seenCache # {}
    BY <1>2, <2>1, FS_EmptySet, AndroidAssumption
  <2>3. \E e \in seenCache : IsOldest(e, seenCache) /\ e.id = oldest'
    BY <1>9, <2>2 DEF FindOldest, IsOldest
  <2> QED BY <1>2, <2>1, <2>3
<1>10. CASE RemoveOldest
  <2>1. /\ cleaner = "removing" /\ cleaner' = "evicting"
        /\ seenCache' = {e \in seenCache : e.id # oldest}
        /\ UNCHANGED <<asked, clock, log>>
    BY <1>10 DEF RemoveOldest
  <2>2. PICK e \in seenCache : IsOldest(e, seenCache) /\ e.id = oldest
    BY <1>2, <2>1
  <2>3. seenCache' = seenCache \ {e}
    BY <1>2, <2>1, <2>2 DEF LastOfEach
  <2>4. Recalls(log, seenCache \ {e}, clock)
    BY <1>2, <2>1, <2>2, EvictedRecalls DEF IsOldest
  <2> QED BY <1>2, <2>1, <2>3, <2>4
<1>11. CASE ClockTick
  <2>1. clock' = clock + 1 /\ UNCHANGED <<cleaner, oldest, seenCache, asked, log>>
    BY <1>11 DEF ClockTick
  <2> QED BY <1>2, <2>1, LaterRecalls
<1>12. CASE StopMesh
  BY <1>12 DEF StopMesh
<1> QED BY <1>3, <1>4, <1>5, <1>6, <1>7, <1>8, <1>9, <1>10, <1>11, <1>12 DEF AndroidNext

(* The Android service: its types, for every cache limit, age and clock;   *)
(* no record is from the future (MeshService.java:357-372, :402-418).      *)
THEOREM AndroidTypesTheorem == AndroidSpec => []AndroidTypeOK
<1>1. AndroidInv => AndroidTypeOK
  BY DEF AndroidInv
<1> QED BY <1>1, InitAndroid, NextAndroid, PTL DEF AndroidSpec

(* A packet that came in the last MaxAge is known to the service, until it *)
(* is destroyed, unless more than CacheMax ids came with it or after it,   *)
(* whatever the cleanup thread does beside the callbacks                   *)
(* (MeshService.java:360, :402-418).                                       *)
THEOREM KnownTheorem == AndroidSpec => []KnownUnlessCrowded
<1>1. AndroidInv => KnownUnlessCrowded
  BY DEF AndroidInv, Recalls, Younger, KnownUnlessCrowded
<1> QED BY <1>1, InitAndroid, NextAndroid, PTL DEF AndroidSpec

=============================================================================

------------------------------ MODULE VexNode ------------------------------
(***************************************************************************)
(* One node process: main of src/src/main.c, step by step, with the peer   *)
(* slots of transport_unix.c and the message path of mesh.c.  The process  *)
(* is one thread; the terminal, the signals and the remote processes act   *)
(* between any two of its steps.                                           *)
(*                                                                         *)
(* stdin has two buffers.  poll (main.c:201) looks at the one of the       *)
(* kernel, `typed`; fgets (main.c:207) takes from the one of stdio, `buf`, *)
(* and reads from the kernel only when buf has no whole line, waiting for  *)
(* as long as it takes: signal() (main.c:140) restarts that read.          *)
(*                                                                         *)
(* Whether a packet is new is SeenCache's business, and frames torn on the *)
(* wire are UnixStream's: here a packet may be either, and frames come     *)
(* whole.                                                                  *)
(***************************************************************************)
EXTENDS WireFormat, FiniteSets

CONSTANTS
    Remote,     \* the processes at the other ends
    Dialled,    \* the --peer options that answer, in their order
    Empty,      \* an inactive slot
    MaxPeers,   \* VEX_MAX_PEERS
    InputSize,  \* sizeof(input), 512
    Terminal,   \* stdin is a terminal: one read returns one line at most
    Line,       \* the lines that may be typed
    MaxLines,   \* bound on the lines waiting in typed, and on those typed but commands
    MaxFrames   \* bound on the frames the remote processes write

(* A line is a record: its length without the newline, whether it ends     *)
(* in one (a line can be handed over in two pieces: Ctrl-D, or a pipe),    *)
(* and whether it is a command, or what fgets has left of a longer line.   *)
InputLine == [len : Nat, whole : BOOLEAN, word : {"text", "rest", "command", "quit"}]

Text(n) == [len |-> n, whole |-> TRUE, word |-> "text"]
Piece(n) == [len |-> n, whole |-> FALSE, word |-> "text"]
Command == [len |-> 6, whole |-> TRUE, word |-> "command"]
Quit == [len |-> 5, whole |-> TRUE, word |-> "quit"]

ASSUME NodeAssumption ==
    /\ Empty \notin Remote
    /\ Dialled \in Seq(Remote) /\ Len(Dialled) <= MaxPeers
    /\ \A i, j \in DOMAIN Dialled : Dialled[i] = Dialled[j] => i = j
    /\ MaxPeers \in Nat \ {0} /\ InputSize \in Nat \ {0, 1}
    /\ Terminal \in BOOLEAN
    /\ Line \subseteq InputLine
    /\ MaxLines \in Nat /\ MaxFrames \in Nat

VARIABLES
    pc,         \* "start", "loop", "stdin", "accept", "peers", "over", "killed"
    running,    \* node.running
    pollin,     \* POLLIN of the listening socket, local to a turn
    turn,       \* the next slot of the loop over the peers, local to that loop
    slots,      \* slots[i]: the remote process of peer slot i, or Empty
    backlog,    \* connections that wait for accept, the oldest first
    typed,      \* the lines in the kernel's buffer of stdin
    buf,        \* the lines in stdio's buffer
    remote,     \* remote[r]: "new", "open" or "closed", r's end
    frames,     \* frames[r]: the frames r has written and the node has not read
    lines, written,     \* how many lines but commands were typed, and frames written
    broadcast   \* history: the last message sent, and the length of its frame

inputVars == <<typed, buf, lines>>
remoteVars == <<remote, frames, written>>
vars == <<pc, running, pollin, turn, slots, backlog, inputVars, remoteVars, broadcast>>

DialledPeers == {Dialled[i] : i \in DOMAIN Dialled}

Slot == 1 .. MaxPeers

Active == {i \in Slot : slots[i] # Empty}

Alive == pc \notin {"over", "killed"}

(***************************************************************************)
(* The terminal, the signals and the remote processes.                     *)
(***************************************************************************)

\* The last line of q goes on with x, if it has not ended.
Joined(q, x) ==
    LET n == Len(q)
    IN  IF n > 0 /\ ~q[n].whole
          THEN [q EXCEPT ![n] = [x EXCEPT !.len = @ + q[n].len, !.word = "text"]]
          ELSE Append(q, x)

\* Commands may come for ever, each before the loop is back at poll.
Type(x) ==
    /\ Alive
    /\ IF x.word = "command"
         THEN Len(typed) < MaxLines /\ UNCHANGED lines
         ELSE lines < MaxLines /\ lines' = lines + 1
    /\ typed' = Joined(typed, x)
    /\ UNCHANGED <<pc, running, pollin, turn, slots, backlog, buf, remoteVars, broadcast>>

(* handle_signal.  vex_mesh_init sets running to 1 after the handlers are  *)
(* installed, so a signal before it is lost.                               *)
Signal ==
    /\ Alive
    /\ running' = FALSE
    /\ UNCHANGED <<pc, pollin, turn, slots, backlog, inputVars, remoteVars, broadcast>>

\* r connects to the listening socket.
RemoteDial(r) ==
    /\ pc \notin {"start", "over", "killed"}
    /\ remote[r] = "new"
    /\ r \notin DialledPeers
    /\ remote' = [remote EXCEPT ![r] = "open"]
    /\ backlog' = Append(backlog, r)
    /\ UNCHANGED <<pc, running, pollin, turn, slots, inputVars, frames, written, broadcast>>

RemoteWrite(r) ==
    /\ Alive
    /\ remote[r] = "open"
    /\ written < MaxFrames
    /\ written' = written + 1
    /\ frames' = [frames EXCEPT ![r] = @ + 1]
    /\ UNCHANGED <<pc, running, pollin, turn, slots, backlog, inputVars, remote, broadcast>>

RemoteClose(r) ==
    /\ Alive
    /\ remote[r] = "open"
    /\ remote' = [remote EXCEPT ![r] = "closed"]
    /\ UNCHANGED <<pc, running, pollin, turn, slots, backlog, inputVars, frames, written,
                   broadcast>>

(***************************************************************************)
(* Broadcast: vex_transport_send_to_all.                                   *)
(***************************************************************************)
(* The slots of `to` are served in order.  One whose buffer is full is     *)
(* closed; at the first whose remote end is closed the process is killed   *)
(* by SIGPIPE.                                                             *)
Broadcast(to, next) ==
    \/ /\ \E i \in to : remote[slots[i]] = "closed"
       /\ pc' = "killed"
       /\ slots' = [i \in Slot |-> Empty]
    \/ /\ \A i \in to : remote[slots[i]] # "closed"
       /\ pc' = next
       /\ \E full \in SUBSET to :
            slots' = [i \in Slot |-> IF i \in full THEN Empty ELSE slots[i]]

(***************************************************************************)
(* Start.                                                                  *)
(***************************************************************************)
(* vex_mesh_init, the listener, and the --peer paths, which take the first *)
(* slots.                                                                  *)
Startup ==
    /\ pc = "start"
    /\ \/ /\ pc' = "over"               \* no listener
          /\ UNCHANGED <<running, slots, remote>>
       \/ /\ pc' = "loop"
          /\ running' = TRUE
          /\ slots' = [i \in Slot |-> IF i \in DOMAIN Dialled THEN Dialled[i] ELSE Empty]
          /\ remote' = [r \in Remote |-> IF r \in DialledPeers THEN "open" ELSE "new"]
    /\ UNCHANGED <<pollin, turn, backlog, inputVars, frames, written, broadcast>>

(***************************************************************************)
(* The head of the loop and poll.                                          *)
(***************************************************************************)
GoesOnWithPeers == running \/ Active # {}      \* mutant: peers are to leave first
GoesOn == running       \* while (node.running)

\* mutant: the listening socket is polled only while a slot is free
PendingWithRoom == backlog # <<>> /\ Active # Slot
Pending == backlog # <<>>

\* Nothing to do may time out; a signal makes poll fail, and the loop starts over.
Poll ==
    /\ pc = "loop"
    /\ GoesOn
    /\ pc' = IF typed # <<>> THEN "stdin" ELSE "accept"
    /\ pollin' = Pending
    /\ UNCHANGED <<running, turn, slots, backlog, inputVars, remoteVars, broadcast>>

\* The end of main closes all that is open.
Exit ==
    /\ pc = "loop"
    /\ ~GoesOn
    /\ pc' = "over"
    /\ slots' = [i \in Slot |-> Empty]
    /\ UNCHANGED <<running, pollin, turn, backlog, inputVars, remoteVars, broadcast>>

(***************************************************************************)
(* A line of input.                                                        *)
(***************************************************************************)
\* fgets can return: a whole line, or all that fits before the zero byte.
Returns == buf # <<>> /\ (Head(buf).whole \/ Head(buf).len >= InputSize - 1)

(* read() into the buffer of stdio: one line from a terminal, and all      *)
(* there is from a pipe.  fgets comes back for more until it can return.   *)
FetchAll == /\ buf' = Joined(buf, Head(typed)) \o Tail(typed)     \* mutant: as from a pipe
            /\ typed' = <<>>
Fetch ==
    IF Terminal
      THEN buf' = Joined(buf, Head(typed)) /\ typed' = Tail(typed)
      ELSE buf' = Joined(buf, Head(typed)) \o Tail(typed) /\ typed' = <<>>

Fill ==
    /\ pc = "stdin"
    /\ ~Returns
    /\ typed # <<>>
    /\ Fetch
    /\ UNCHANGED <<pc, running, pollin, turn, slots, backlog, lines, remoteVars, broadcast>>

\* What fgets has returned: the line without its newline, or the part that fits.
Input == [Head(buf) EXCEPT !.len = IF @ < InputSize - 1 THEN @ ELSE InputSize - 1]

\* What it leaves: the newline alone, if that is all that did not fit.
Left ==
    LET x == Head(buf)
        rest == [x EXCEPT !.len = @ - (InputSize - 1), !.word = "rest"]
    IN  IF x.len < InputSize - 1 \/ (rest.len = 0 /\ ~x.whole)
          THEN Tail(buf)
          ELSE <<rest>> \o Tail(buf)

TakeLine(words) ==
    /\ pc = "stdin"
    /\ Returns
    /\ Input.word \in words
    /\ buf' = Left
    /\ UNCHANGED <<turn, backlog, typed, lines, remoteVars>>

\* The rest of a line is a line of its own to the loop.
Message == {"text", "rest"}

\* An empty line, /peers or /stats: `continue`, past accept, the peers and the timers.
TakeIdle ==
    /\ \/ TakeLine({"command"})
       \/ TakeLine(Message) /\ Input.len = 0
    /\ pc' = "loop"
    /\ pollin' = FALSE
    /\ UNCHANGED <<running, slots, broadcast>>

TakeQuit ==
    /\ TakeLine({"quit"})
    /\ pc' = "loop"
    /\ pollin' = FALSE
    /\ running' = FALSE
    /\ UNCHANGED <<slots, broadcast>>

\* vex_mesh_send turns a message down that is too long.
TakeLong ==
    /\ TakeLine(Message)
    /\ ~Sendable(Input.len)
    /\ pc' = "accept"
    /\ UNCHANGED <<running, pollin, slots, broadcast>>

TakeMessage ==
    /\ TakeLine(Message)
    /\ Input.len > 0
    /\ Sendable(Input.len)
    /\ broadcast' = [message |-> Input.len, frame |-> WireLen(Input.len)]
    /\ Broadcast(Active, "accept")
    /\ UNCHANGED <<running, pollin>>

(***************************************************************************)
(* One new connection, and one frame of each peer.                         *)
(***************************************************************************)
\* mutant: the loop for a free slot runs one too far
SeatedPast(r) ==
    IF Active = Slot THEN Append(slots, r)
    ELSE [slots EXCEPT ![CHOOSE i \in Slot \ Active : \A j \in Slot \ Active : i <= j] = r]

\* The first inactive slot for r, or none and the connection is closed.
Seated(r) ==
    IF Active = Slot THEN slots
    ELSE [slots EXCEPT ![CHOOSE i \in Slot \ Active : \A j \in Slot \ Active : i <= j] = r]

SecondSlot == 2         \* mutant: the loop starts past the first slot
FirstSlot == 1

Accept ==
    /\ pc = "accept"
    /\ pc' = "peers"
    /\ turn' = FirstSlot
    /\ IF pollin
         THEN slots' = Seated(Head(backlog)) /\ backlog' = Tail(backlog)
         ELSE UNCHANGED <<slots, backlog>>
    /\ pollin' = FALSE
    /\ UNCHANGED <<running, inputVars, remoteVars, broadcast>>

\* The loop over the slots comes to an active one.
AtSlot(i) ==
    /\ pc = "peers"
    /\ i \in Active
    /\ turn <= i
    /\ \A j \in Active : turn <= j => i <= j
    /\ turn' = i + 1
    /\ UNCHANGED <<running, pollin, backlog, inputVars, remote, written, broadcast>>

\* A frame that is dropped, or shown and not relayed.
ReadKeep(i) ==
    /\ AtSlot(i)
    /\ frames[slots[i]] > 0
    /\ frames' = [frames EXCEPT ![slots[i]] = @ - 1]
    /\ UNCHANGED <<pc, slots>>

ReadRelay(i) ==
    /\ AtSlot(i)
    /\ frames[slots[i]] > 0
    /\ frames' = [frames EXCEPT ![slots[i]] = @ - 1]
    /\ Broadcast(Active \ {i}, "peers")

\* Nothing to read: EAGAIN, or the end of the connection.
ReadNone(i) ==
    /\ AtSlot(i)
    /\ frames[slots[i]] = 0
    /\ slots' = IF remote[slots[i]] = "closed" THEN [slots EXCEPT ![i] = Empty] ELSE slots
    /\ UNCHANGED <<pc, frames>>

\* Past the last active slot; vex_seen_prune is in SeenCache.
EndTurn ==
    /\ pc = "peers"
    /\ \A i \in Active : i < turn
    /\ pc' = "loop"
    /\ turn' = FirstSlot
    /\ UNCHANGED <<running, pollin, slots, backlog, inputVars, remoteVars, broadcast>>

Init ==
    /\ pc = "start"
    /\ running = FALSE
    /\ pollin = FALSE
    /\ turn = FirstSlot
    /\ slots = [i \in Slot |-> Empty]
    /\ backlog = <<>>
    /\ typed = <<>> /\ buf = <<>> /\ lines = 0
    /\ remote = [r \in Remote |-> "new"]
    /\ frames = [r \in Remote |-> 0]
    /\ written = 0
    /\ broadcast = [message |-> Failed, frame |-> Failed]

\* A step of the process.
Step ==
    \/ Startup \/ Poll \/ Exit
    \/ Fill \/ TakeIdle \/ TakeQuit \/ TakeLong \/ TakeMessage
    \/ Accept \/ EndTurn
    \/ \E i \in Slot : ReadKeep(i) \/ ReadRelay(i) \/ ReadNone(i)

Next ==
    \/ Step
    \/ Signal
    \/ \E x \in Line : Type(x)
    \/ \E r \in Remote : RemoteDial(r) \/ RemoteWrite(r) \/ RemoteClose(r)

Spec == Init /\ [][Next]_vars

(* The process is scheduled, and poll returns after a second at the        *)
(* latest.  Nobody has to type, finish a line, write or close.             *)
FairSpec == Spec /\ WF_vars(Step)

(***************************************************************************)
(* Properties.                                                             *)
(***************************************************************************)
NodeTypeOK ==
    /\ pc \in {"start", "loop", "stdin", "accept", "peers", "over", "killed"}
    /\ running \in BOOLEAN
    /\ pollin \in BOOLEAN
    /\ turn \in 1 .. MaxPeers + 1
    /\ slots \in [Slot -> Remote \cup {Empty}]
    /\ backlog \in Seq(Remote)
    /\ typed \in Seq(InputLine) /\ buf \in Seq(InputLine)
    /\ remote \in [Remote -> {"new", "open", "closed"}]
    /\ frames \in [Remote -> Nat]
    /\ lines \in Nat /\ written \in Nat

(* A message of mesh.c:45 that is sent can be read: its frame, through its *)
(* two header bytes, decoding and decryption, is shown as long as typed.   *)
SentIsReadable ==
    broadcast.message # Failed =>
      /\ broadcast.frame \in HeaderSize .. MaxPacket
      /\ ShownLen(HeaderLen(FrameHeader(broadcast.frame))) = broadcast.message

\* fgets waits for the rest of a line, and everything with it.
HalfLine == pc = "stdin" /\ typed = <<>> /\ ~Returns

Connected(r) == \E i \in Slot : slots[i] = r

(* Commands or empty lines keep coming, each before the loop is back at    *)
(* poll: then `continue` (main.c:211, :221, :226) goes past accept and the *)
(* peers for ever.                                                         *)
KeptBusy == []<><<TakeIdle>>_vars /\ <>[][Poll => typed # <<>>]_vars

(* Every frame of a peer is read while its slot is active, whatever is     *)
(* dialled and broadcast meanwhile (main.c:246): nothing holds the loop up *)
(* for ever but the rest of a line that does not come, or commands that    *)
(* come so fast that no poll finds stdin empty.                            *)
FramesAreRead ==
    \/ KeptBusy
    \/ \A r \in Remote :
         Connected(r) /\ frames[r] > 0 ~> frames[r] = 0 \/ ~Connected(r) \/ HalfLine

(* Every connection is accepted or rejected (main.c:237), one in a turn,   *)
(* although commands and empty lines skip it: one poll that finds stdin    *)
(* empty is enough.                                                        *)
WaitersAreAccepted ==
    \/ KeptBusy
    \/ \A r \in Remote :
         (\E k \in DOMAIN backlog : backlog[k] = r)
           ~> (\A k \in DOMAIN backlog : backlog[k] # r) \/ ~Alive \/ HalfLine

(* /quit, Ctrl-C and SIGTERM end the node (main.c:25), unless it waits for *)
(* the rest of a line: the read is restarted after the handler.            *)
StopIsHonoured == pc # "start" /\ ~running ~> ~Alive \/ HalfLine

\* A line of q that is not a command.
SomeLine(q) == \E k \in DOMAIN q : q[k].word # "command"

(* "Type a message and press Enter to broadcast" (main.c:167): each line,  *)
(* however many commands come with it, is taken without another one having *)
(* to be typed, but for the rest of a line longer than input[512], which   *)
(* fgets leaves where poll does not see it.                                *)
LinesAreTaken ==
    SomeLine(typed) \/ SomeLine(buf)
      ~> \/ ~SomeLine(typed) /\ (SomeLine(buf) => Head(buf).word = "rest")
         \/ ~Alive \/ HalfLine

=============================================================================

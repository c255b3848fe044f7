------------------------------ MODULE LogStream ------------------------------
(***************************************************************************)
(* `osdctl rhobs logs --follow`: one goroutine connects a websocket, again *)
(* after it breaks, and prints what comes; another waits for the SRE to    *)
(* interrupt the command and then closes the websocket.  They share, under *)
(* a mutex, the websocket and whether the loop goes on.                    *)
(***************************************************************************)
EXTENDS Integers

CONSTANTS
    MaxSockets,           \* bound: websockets ever made
    MaxDials              \* attempts of the backoff before it gives up
ASSUME StreamAssumption == MaxSockets \in Nat \ {0} /\ MaxDials \in Nat \ {0}

NoSocket == 0

VARIABLES
    socket,       \* of each websocket: unmade, open, broken, closed
    isLooping, webSocket,  \* the shared context
    spc,          \* the loop: step
    dials,        \* attempts in this turn
    newSocket, currentSocket, \* its locals
    abnormal,     \* how the websocket it reads broke
    toClose,      \* websocket that each goroutine has taken out of the context
    ipc           \* the goroutine of the interrupt: step

streamVars == <<socket, isLooping, webSocket, spc, dials, newSocket, currentSocket, abnormal, toClose, ipc>>

StreamInit ==
    /\ socket = [w \in 1..MaxSockets |-> "unmade"]
    /\ isLooping = TRUE /\ webSocket = NoSocket
    /\ spc = "loop" /\ dials = 0 /\ newSocket = NoSocket /\ currentSocket = NoSocket /\ abnormal = FALSE
    /\ toClose = [g \in {"loop", "interrupt"} |-> NoSocket] /\ ipc = "waiting"
-----------------------------------------------------------------------------
StreamStep(from, to) == spc = from /\ spc' = to

\* closeWebSocketInContext: the websocket is taken out under the mutex, closed after it.
TakeSocket(g, canContinue) ==
    /\ isLooping' = (isLooping /\ canContinue)
    /\ toClose' = [toClose EXCEPT ![g] = webSocket] /\ webSocket' = NoSocket

CloseSocket(w) == socket' = IF w = NoSocket THEN socket ELSE [socket EXCEPT ![w] = "closed"]

TestLoop ==
    /\ StreamStep("loop", IF isLooping THEN "dial" ELSE "ended") /\ dials' = 0
    /\ UNCHANGED <<socket, isLooping, webSocket, newSocket, currentSocket, abnormal, toClose, ipc>>

\* One attempt of the backoff; it does nothing if there is a websocket or the loop is
\* to end.
Dial ==
    /\ \/ (~isLooping \/ webSocket # NoSocket) /\ StreamStep("dial", "pick") /\ UNCHANGED <<socket, dials, newSocket>>
       \/ /\ isLooping /\ webSocket = NoSocket /\ dials < MaxDials /\ StreamStep("dial", "dial")
          /\ dials' = dials + 1 /\ UNCHANGED <<socket, newSocket>>
       \/ /\ isLooping /\ webSocket = NoSocket /\ dials = MaxDials /\ StreamStep("dial", "ended")
          /\ UNCHANGED <<socket, dials, newSocket>>
       \/ /\ isLooping /\ webSocket = NoSocket /\ StreamStep("dial", "store")
          /\ \E w \in 1..MaxSockets :
                /\ socket[w] = "unmade" /\ \A v \in 1..(w - 1) : socket[v] # "unmade"
                /\ socket' = [socket EXCEPT ![w] = "open"] /\ newSocket' = w
          /\ UNCHANGED dials
    /\ UNCHANGED <<isLooping, webSocket, currentSocket, abnormal, toClose, ipc>>

\* Mutant: the loop is not looked at.
StoreAlways ==
    /\ StreamStep("store", "pick") /\ webSocket' = newSocket /\ newSocket' = NoSocket
    /\ UNCHANGED <<socket, isLooping, dials, currentSocket, abnormal, toClose, ipc>>

\* An interrupt may have come while it was connecting: then it is closed again.
Store ==
    /\ StreamStep("store", "pick") /\ newSocket' = NoSocket
    /\ IF isLooping THEN webSocket' = newSocket /\ UNCHANGED socket ELSE CloseSocket(newSocket) /\ UNCHANGED webSocket
    /\ UNCHANGED <<isLooping, dials, currentSocket, abnormal, toClose, ipc>>

Pick ==
    /\ StreamStep("pick", IF webSocket = NoSocket THEN "ended" ELSE "read") /\ currentSocket' = webSocket
    /\ UNCHANGED <<socket, isLooping, webSocket, dials, newSocket, abnormal, toClose, ipc>>

\* Lines come and are printed, or the read ends with an error.
ReadLines ==
    /\ spc = "read" /\ socket[currentSocket] = "open" /\ StreamStep("read", "loop")
    /\ UNCHANGED <<socket, isLooping, webSocket, dials, newSocket, currentSocket, abnormal, toClose, ipc>>

ReadError ==
    /\ spc = "read" /\ socket[currentSocket] \in {"closed", "broken"} /\ StreamStep("read", "error")
    /\ UNCHANGED <<socket, isLooping, webSocket, dials, newSocket, currentSocket, abnormal, toClose, ipc>>

\* After an abnormal closure it connects again, after any other error the run fails.
HandleError ==
    /\ IF ~isLooping
       THEN StreamStep("error", "ended") /\ UNCHANGED <<isLooping, webSocket, toClose>>
       ELSE StreamStep("error", IF abnormal THEN "closeAndLoop" ELSE "closeAndFail") /\ TakeSocket("loop", abnormal)
    /\ UNCHANGED <<socket, dials, newSocket, currentSocket, abnormal, ipc>>

CloseBroken ==
    /\ StreamStep("closeAndLoop", "loop") \/ StreamStep("closeAndFail", "ended")
    /\ CloseSocket(toClose["loop"]) /\ toClose' = [toClose EXCEPT !["loop"] = NoSocket]
    /\ UNCHANGED <<isLooping, webSocket, dials, newSocket, currentSocket, abnormal, ipc>>
-----------------------------------------------------------------------------
\* Ctrl+C or SIGTERM.
Signal ==
    /\ ipc = "waiting" /\ ipc' = "signalled"
    /\ UNCHANGED <<socket, isLooping, webSocket, spc, dials, newSocket, currentSocket, abnormal, toClose>>

EndLoop ==
    /\ ipc = "signalled" /\ ipc' = "closing" /\ TakeSocket("interrupt", FALSE)
    /\ UNCHANGED <<socket, spc, dials, newSocket, currentSocket, abnormal>>

CloseOnSignal ==
    /\ ipc = "closing" /\ ipc' = "ended"
    /\ CloseSocket(toClose["interrupt"]) /\ toClose' = [toClose EXCEPT !["interrupt"] = NoSocket]
    /\ UNCHANGED <<isLooping, webSocket, spc, dials, newSocket, currentSocket, abnormal>>

\* The network or the server.
SocketBreaks ==
    /\ \E w \in 1..MaxSockets : socket[w] = "open" /\ socket' = [socket EXCEPT ![w] = "broken"]
    /\ abnormal' \in BOOLEAN
    /\ UNCHANGED <<isLooping, webSocket, spc, dials, newSocket, currentSocket, toClose, ipc>>

\* Lines need not come: no fairness for them.
StreamLoop == TestLoop \/ Dial \/ Store \/ Pick \/ ReadError \/ HandleError \/ CloseBroken
OnInterrupt == EndLoop \/ CloseOnSignal

StreamNext == StreamLoop \/ ReadLines \/ OnInterrupt \/ Signal \/ SocketBreaks

StreamSpec == StreamInit /\ [][StreamNext]_streamVars /\ WF_streamVars(StreamLoop) /\ WF_streamVars(OnInterrupt)
-----------------------------------------------------------------------------
\* When both goroutines have come to their end no websocket is open, whenever the
\* interrupt came; and one that is open is known to one of them.
NoSocketLeft ==
    /\ \A w \in 1..MaxSockets : socket[w] = "open" => w \in {webSocket, newSocket, toClose["loop"], toClose["interrupt"]}
    /\ spc = "ended" /\ ipc \in {"waiting", "ended"} => \A w \in 1..MaxSockets : socket[w] # "open"

\* The interrupt ends the command, even one that waits for lines or is connecting.
InterruptEnds == ipc = "signalled" ~> spc = "ended"
=============================================================================

---------------------------- MODULE PageConnection ----------------------------
(***************************************************************************)
(* The socket of a browser page (useWebSocket): one attempt after another  *)
(* to authenticate and open a WebSocket, each with its generation, the     *)
(* reconnect timer, and the commands that wait for a connection.  Fetches, *)
(* sockets and the component's mounting end in any order, so every         *)
(* callback first asks whether it still speaks for the page.               *)
(*                                                                         *)
(* A command is its number in the order the user gave them, with the key   *)
(* by which the queue recognises a duplicate.                              *)
(***************************************************************************)
EXTENDS Integers, Sequences

CONSTANTS
    CommandKeys,      \* the keys of commands (outboundKey)
    MaxCommands,      \* bound: commands the user gives
    MaxDisturbances,  \* bound: unmounts, lost sockets, failed fetches, stale sockets
    QueueLimit        \* MAX_OUTBOUND_QUEUE

ASSUME PageAssumption ==
    MaxCommands \in Nat /\ MaxDisturbances \in Nat /\ QueueLimit \in Nat \ {0}

VARIABLES
    mounted,          \* runtime.mounted
    opening,          \* runtime.opening: a fetch or a constructor is under way
    attempts,         \* the generations whose bootstrap fetch is in flight
    generation,       \* connectionGeneration of the store
    connection,       \* connectionStatus of the store
    socket,           \* runtime.socket: the generation of the socket, 0 for null
    readyState,       \* of every socket ever constructed, by generation
    reconnectTimer,   \* runtime.reconnectTimer is set
    firstConnect,     \* runtime.firstConnect
    outboundQueue,    \* the commands that wait for a connection
    sent,             \* the commands handed to a socket, in that order
    commands,         \* how many commands the user gave
    disturbances      \* how many disturbances happened

pageVars == <<mounted, opening, attempts, generation, connection, socket, readyState,
              reconnectTimer, firstConnect, outboundQueue, sent, commands, disturbances>>

MaxGenerations == 2 * MaxDisturbances + MaxCommands + 2
Generations == 1..MaxGenerations
Alive == {"connecting", "open"}

PageInit ==
    /\ mounted = FALSE /\ opening = FALSE /\ attempts = {}
    /\ generation = 0 /\ connection = "disconnected"
    /\ socket = 0 /\ readyState = [g \in Generations |-> "none"]
    /\ reconnectTimer = FALSE /\ firstConnect = FALSE
    /\ outboundQueue = <<>> /\ sent = <<>>
    /\ commands = 0 /\ disturbances = 0

Disturbed == disturbances < MaxDisturbances /\ disturbances' = disturbances + 1

(* socket?.close(): a socket that is alive begins to close.                *)
Closed(s) == [g \in Generations |->
                IF g = s /\ readyState[g] \in Alive THEN "closing" ELSE readyState[g]]

(* connect(), seen with the given socket: a new generation begins its      *)
(* fetch, unless one is on its way or alive.  Every caller has just        *)
(* cleared the timer.                                                      *)
Connect(isMounted, seen) ==
    /\ reconnectTimer' = FALSE
    /\ IF isMounted /\ ~opening /\ (seen # 0 => readyState[seen] \notin Alive)
       THEN /\ opening' = TRUE
            /\ generation' = generation + 1
            /\ connection' = "connecting"
            /\ attempts' = attempts \cup {generation + 1}
       ELSE UNCHANGED <<opening, generation, connection, attempts>>

ForceReconnect ==
    IF socket # 0 /\ readyState[socket] = "connecting"
    THEN /\ reconnectTimer' = FALSE
         /\ UNCHANGED <<opening, generation, connection, attempts, socket, readyState>>
    ELSE /\ socket' = 0
         /\ readyState' = Closed(socket)
         /\ Connect(mounted, 0)

(* The callback of generation g still speaks for the page.                 *)
Speaks(g) == mounted /\ generation = g

Mount ==
    /\ ~mounted
    /\ mounted' = TRUE
    /\ Connect(TRUE, socket)
    /\ UNCHANGED <<socket, readyState, firstConnect, outboundQueue, sent, commands, disturbances>>

(* The cleanup of the effect.                                              *)
Unmount ==
    /\ mounted /\ Disturbed
    /\ mounted' = FALSE /\ opening' = FALSE /\ reconnectTimer' = FALSE
    /\ socket' = 0 /\ readyState' = Closed(socket)
    /\ connection' = "disconnected" /\ generation' = generation + 1
    /\ outboundQueue' = <<>>
    /\ UNCHANGED <<attempts, firstConnect, sent, commands>>

(* The fetch has succeeded: the socket is made, if it is still wanted.     *)
Authenticated(g) ==
    /\ g \in attempts
    /\ attempts' = attempts \ {g}
    /\ opening' = FALSE
    /\ IF Speaks(g)
       THEN socket' = g /\ readyState' = [readyState EXCEPT ![g] = "connecting"]
       ELSE UNCHANGED <<socket, readyState>>
    /\ UNCHANGED <<mounted, generation, connection, reconnectTimer, firstConnect,
                   outboundQueue, sent, commands, disturbances>>

(* The fetch was refused or failed.                                        *)
\* Mutant: a failed attempt is still taken to be under way.
NotAuthenticated_StillOpening(g) ==
    /\ g \in attempts /\ Disturbed
    /\ attempts' = attempts \ {g}
    /\ IF Speaks(g)
       THEN connection' = "disconnected" /\ reconnectTimer' = TRUE
       ELSE UNCHANGED <<connection, reconnectTimer>>
    /\ UNCHANGED <<mounted, opening, generation, socket, readyState, firstConnect,
                   outboundQueue, sent, commands>>
NotAuthenticated(g) ==
    /\ g \in attempts /\ Disturbed
    /\ attempts' = attempts \ {g}
    /\ opening' = FALSE
    /\ IF Speaks(g)
       THEN connection' = "disconnected" /\ reconnectTimer' = TRUE
       ELSE UNCHANGED <<connection, reconnectTimer>>
    /\ UNCHANGED <<mounted, generation, socket, readyState, firstConnect, outboundQueue,
                   sent, commands>>

(* onopen sends the queue front to back and takes every command out of it  *)
(* that a socket accepted, up to the first it did not.                     *)
\* Mutant: what was sent stays in the queue.
Flush_NotAcknowledged(n) ==
    /\ sent' = sent \o [i \in 1..n |-> outboundQueue[i].number]
    /\ UNCHANGED outboundQueue
Flush(n) ==
    /\ sent' = sent \o [i \in 1..n |-> outboundQueue[i].number]
    /\ outboundQueue' = SubSeq(outboundQueue, n + 1, Len(outboundQueue))

Opens(g) ==
    /\ readyState[g] = "connecting"
    /\ IF Speaks(g) /\ socket = g
       THEN /\ connection' = "connected" /\ firstConnect' = TRUE
            /\ \E n \in 0..Len(outboundQueue) :
                 /\ Flush(n)
                 /\ IF n = Len(outboundQueue)
                    THEN /\ readyState' = [readyState EXCEPT ![g] = "open"]
                         /\ UNCHANGED disturbances
                    ELSE readyState' = [readyState EXCEPT ![g] = "closing"] /\ Disturbed
       ELSE /\ readyState' = [readyState EXCEPT ![g] = "closing"]
            /\ UNCHANGED <<connection, firstConnect, outboundQueue, sent, disturbances>>
    /\ UNCHANGED <<mounted, opening, attempts, generation, socket, reconnectTimer, commands>>

(* The close event, of a socket the page closed or the network lost.       *)
Closes(g) ==
    /\ \/ readyState[g] = "closing" /\ UNCHANGED disturbances
       \/ readyState[g] \in Alive /\ Disturbed
    /\ readyState' = [readyState EXCEPT ![g] = "closed"]
    /\ IF Speaks(g) /\ socket = g
       THEN socket' = 0 /\ connection' = "disconnected" /\ reconnectTimer' = TRUE
       ELSE UNCHANGED <<socket, connection, reconnectTimer>>
    /\ UNCHANGED <<mounted, opening, attempts, generation, firstConnect, outboundQueue, sent,
                   commands>>

TimerFires ==
    /\ reconnectTimer
    /\ Connect(mounted, socket)
    /\ UNCHANGED <<mounted, socket, readyState, firstConnect, outboundQueue, sent, commands,
                   disturbances>>

(* enqueueClientMessage: a waiting command with the same key stands for    *)
(* this one too; a full queue drops its oldest.                            *)
Enqueue(number, key) ==
    outboundQueue' =
        IF \E i \in DOMAIN outboundQueue : outboundQueue[i].key = key THEN outboundQueue
        ELSE LET longer == Append(outboundQueue, [number |-> number, key |-> key]) IN
             IF Len(longer) > QueueLimit THEN Tail(longer) ELSE longer

(* send(): at once on a socket that is open and was heard lately, else     *)
(* into the queue with a reconnect.                                        *)
SendCommand(key) ==
    /\ mounted /\ commands < MaxCommands
    /\ commands' = commands + 1
    /\ \/ /\ socket # 0 /\ readyState[socket] = "open"
          /\ sent' = Append(sent, commands + 1)
          /\ UNCHANGED <<opening, attempts, generation, connection, socket, readyState,
                         reconnectTimer, outboundQueue, disturbances>>
       \/ /\ IF socket # 0 /\ readyState[socket] = "open" THEN Disturbed ELSE UNCHANGED disturbances
          /\ Enqueue(commands + 1, key)
          /\ ForceReconnect
          /\ UNCHANGED sent
    /\ UNCHANGED <<mounted, firstConnect>>

(* The page becomes visible with a socket that is gone, or was not heard   *)
(* lately.                                                                 *)
BecomesVisible ==
    /\ mounted /\ firstConnect /\ Disturbed
    /\ ForceReconnect
    /\ UNCHANGED <<mounted, firstConnect, outboundQueue, sent, commands>>

(* boundaryCleanup, clearMessages: another session is chosen or cleared.   *)
SessionBoundary ==
    /\ mounted /\ outboundQueue # <<>>
    /\ outboundQueue' = <<>>
    /\ UNCHANGED <<mounted, opening, attempts, generation, connection, socket, readyState,
                   reconnectTimer, firstConnect, sent, commands, disturbances>>

PageNext ==
    \/ Mount \/ Unmount \/ TimerFires \/ BecomesVisible \/ SessionBoundary
    \/ \E g \in Generations :
         Authenticated(g) \/ NotAuthenticated(g) \/ Opens(g) \/ Closes(g)
    \/ \E key \in CommandKeys : SendCommand(key)

(* What the browser does in the end: fetches return, sockets open or       *)
(* close, timers fire.                                                     *)
PageStep ==
    \/ TimerFires
    \/ \E g \in Generations :
         \/ Authenticated(g) \/ Opens(g)
         \/ readyState[g] = "closing" /\ Closes(g)

PageFairness == WF_pageVars(PageStep)
PageSpec == PageInit /\ [][PageNext]_pageVars /\ PageFairness

----------------------------------------------------------------------------
PageTypeOK ==
    /\ mounted \in BOOLEAN /\ opening \in BOOLEAN /\ reconnectTimer \in BOOLEAN
    /\ firstConnect \in BOOLEAN
    /\ attempts \subseteq Generations /\ generation \in 0..MaxGenerations
    /\ connection \in {"connecting", "connected", "disconnected"}
    /\ socket \in 0..MaxGenerations
    /\ readyState \in [Generations -> {"none", "connecting", "open", "closing", "closed"}]
    /\ commands \in 0..MaxCommands /\ disturbances \in 0..MaxDisturbances
    /\ Len(outboundQueue) <= QueueLimit
    /\ \A i \in DOMAIN outboundQueue :
         outboundQueue[i] \in [number : 1..MaxCommands, key : CommandKeys]
    /\ \A i \in DOMAIN sent : sent[i] \in 1..MaxCommands

(* Across lost sockets, failed fetches, remounts and queues that are sent  *)
(* half, no command reaches a socket twice and none overtakes an earlier   *)
(* one, whether it waited in the queue or went out at once                 *)
(* (websocket.ts:100-110, 178-191).                                        *)
CommandsKeepOrder == \A i \in 1..(Len(sent) - 1) : sent[i] < sent[i + 1]

(* A mounted page ends up connected with nothing left in its queue, in     *)
(* whatever order the callbacks of superseded attempts arrive: no path     *)
(* leaves it without a socket, a fetch or a timer (websocket.ts:46-176).   *)
PageReconnects ==
    mounted ~> \/ ~mounted
               \/ /\ connection = "connected" /\ socket # 0 /\ readyState[socket] = "open"
                  /\ outboundQueue = <<>>
=============================================================================

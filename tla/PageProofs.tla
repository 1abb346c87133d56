------------------------------ MODULE PageProofs ------------------------------
(***************************************************************************)
(* Theorems about a browser page.  PageConnection, for any commands, any   *)
(* limit of the queue and any number of lost sockets: commands reach the   *)
(* sockets in the order they were given, each at most once.  PageSync, for *)
(* any sessions, changes, choices and losses: what is shown never gets     *)
(* older.                                                                  *)
(***************************************************************************)
EXTENDS PageConnection, PageSync, TLAPS

Queued == [number : Nat \ {0}, key : CommandKeys]

(* What was sent and what waits, in one order: no number twice, and all    *)
(* that was sent before all that waits.                                    *)
Ordered(out, waiting, given) ==
    /\ out \in Seq(Nat \ {0}) /\ waiting \in Seq(Queued) /\ given \in Nat
    /\ \A i, j \in 1..Len(out) : i < j => out[i] < out[j]
    /\ \A i \in 1..Len(out) : out[i] <= given
    /\ \A i, j \in 1..Len(waiting) : i < j => waiting[i].number < waiting[j].number
    /\ \A i \in 1..Len(waiting) : waiting[i].number <= given
    /\ \A i \in 1..Len(out), j \in 1..Len(waiting) : out[i] < waiting[j].number

SocketOpen == socket # 0 /\ readyState[socket] = "open"

(* While a socket is open nothing waits, so that a command that goes out   *)
(* at once overtakes none.                                                 *)
PageInv ==
    /\ Ordered(sent, outboundQueue, commands)
    /\ socket \in 0..MaxGenerations
    /\ readyState \in [Generations -> {"none", "connecting", "open", "closing", "closed"}]
    /\ SocketOpen => outboundQueue = <<>>

-----------------------------------------------------------------------------
LEMMA GenerationsNat == MaxGenerations \in Nat /\ 0 \notin Generations
BY PageAssumption DEF MaxGenerations, Generations

LEMMA QueuedNumber ==
    ASSUME NEW waiting \in Seq(Queued)
    PROVE  \A i \in 1..Len(waiting) : waiting[i].number \in Nat \ {0}
<1>1. \A i \in 1..Len(waiting) : waiting[i] \in Queued  OBVIOUS
<1>2. \A q \in Queued : q.number \in Nat \ {0}  BY DEF Queued
<1> QED  BY <1>1, <1>2

\* Nothing waits: any order of what was sent stands.
LEMMA OrderedDrop ==
    ASSUME NEW out, NEW waiting, NEW given, Ordered(out, waiting, given)
    PROVE  Ordered(out, <<>>, given)
BY DEF Ordered

\* The first n of the queue are sent.
LEMMA OrderedFlush ==
    ASSUME NEW out, NEW waiting, NEW given, Ordered(out, waiting, given),
           NEW n \in 0..Len(waiting)
    PROVE  Ordered(out \o [i \in 1..n |-> waiting[i].number],
                   SubSeq(waiting, n + 1, Len(waiting)), given)
<1> DEFINE front == [i \in 1..n |-> waiting[i].number]
<1> DEFINE all == out \o front
<1> DEFINE rest == SubSeq(waiting, n + 1, Len(waiting))
<1>0. out \in Seq(Nat \ {0}) /\ waiting \in Seq(Queued) /\ given \in Nat  BY DEF Ordered
<1>1. \A i \in 1..Len(waiting) : waiting[i].number \in Nat \ {0}  BY QueuedNumber, <1>0
<1>2. front \in Seq(Nat \ {0}) /\ Len(front) = n  BY <1>0, <1>1
<1>3. all \in Seq(Nat \ {0}) /\ Len(all) = Len(out) + n  BY <1>0, <1>2
<1>4. \A i \in 1..Len(all) :
         all[i] = IF i <= Len(out) THEN out[i] ELSE waiting[i - Len(out)].number
  BY <1>0, <1>2, <1>3
<1>5. rest \in Seq(Queued) /\ Len(rest) = Len(waiting) - n  BY <1>0
<1>6. \A i \in 1..Len(rest) : rest[i] = waiting[i + n] /\ i + n \in 1..Len(waiting)
  <2> HIDE DEF front, all
  <2>1. Len(waiting) \in Nat /\ n \in Nat /\ n <= Len(waiting)  BY <1>0
  <2>2. \A i \in 1..(Len(waiting) - n) :
           SubSeq(waiting, n + 1, Len(waiting))[i] = waiting[(n + 1) + i - 1]
    BY <1>0, <2>1
  <2> SUFFICES ASSUME NEW i \in 1..Len(rest)
               PROVE  rest[i] = waiting[i + n] /\ i + n \in 1..Len(waiting)
    OBVIOUS
  <2>3. rest[i] = waiting[(n + 1) + i - 1]  BY <2>2, <1>5
  <2> HIDE DEF rest
  <2>4. i \in Nat /\ i >= 1 /\ i <= Len(waiting) - n  BY <1>5, <2>1
  <2>5. (n + 1) + i - 1 = i + n /\ i + n \in 1..Len(waiting)  BY <2>1, <2>4
  <2> QED  BY <2>3, <2>5
<1>7. \A i \in 1..Len(all) : i <= Len(out) => i \in 1..Len(out)  BY <1>3, <1>0
<1>8. \A i \in 1..Len(all) : i > Len(out) => i - Len(out) \in 1..Len(waiting) /\ i - Len(out) <= n
  BY <1>3, <1>0
<1> HIDE DEF all, rest, front
<1>9. \A i, j \in 1..Len(all) : i < j => all[i] < all[j]
  <2> SUFFICES ASSUME NEW i \in 1..Len(all), NEW j \in 1..Len(all), i < j PROVE all[i] < all[j]
    OBVIOUS
  <2>1. CASE j <= Len(out)  BY <2>1, <1>0, <1>4, <1>7 DEF Ordered
  <2>2. CASE i > Len(out)
    <3>1. i - Len(out) \in 1..Len(waiting) /\ j - Len(out) \in 1..Len(waiting)
          /\ i - Len(out) < j - Len(out)
      BY <2>2, <1>0, <1>3, <1>8, SMTT(30)
    <3>2. all[i] = waiting[i - Len(out)].number /\ all[j] = waiting[j - Len(out)].number
      <4>1. ~(i <= Len(out)) /\ ~(j <= Len(out))  BY <2>2, <1>0, <1>3
      <4> QED  BY <4>1, <1>4
    <3>3. \A p, q \in 1..Len(waiting) : p < q => waiting[p].number < waiting[q].number
      BY DEF Ordered
    <3> QED  BY <3>1, <3>2, <3>3
  <2>3. CASE i <= Len(out) /\ j > Len(out)
    BY <2>3, <1>0, <1>4, <1>7, <1>8 DEF Ordered
  <2> QED  BY <2>1, <2>2, <2>3, <1>0, <1>3, SMTT(30)
<1>10. \A i \in 1..Len(all) : all[i] <= given
  <2> SUFFICES ASSUME NEW i \in 1..Len(all) PROVE all[i] <= given  OBVIOUS
  <2>1. CASE i <= Len(out)  BY <2>1, <1>4, <1>7 DEF Ordered
  <2>2. CASE i > Len(out)
    <3>1. i - Len(out) \in 1..Len(waiting)  BY <2>2, <1>8
    <3>2. all[i] = waiting[i - Len(out)].number  BY <2>2, <1>4, <1>0, <1>3
    <3> QED  BY <3>1, <3>2 DEF Ordered
  <2> QED  BY <2>1, <2>2, <1>0, <1>3
<1>11. \A i, j \in 1..Len(rest) : i < j => rest[i].number < rest[j].number
  <2> SUFFICES ASSUME NEW i \in 1..Len(rest), NEW j \in 1..Len(rest), i < j
               PROVE  rest[i].number < rest[j].number
    OBVIOUS
  <2>1. i + n \in 1..Len(waiting) /\ j + n \in 1..Len(waiting) /\ i + n < j + n
    BY <1>5, <1>6, <1>0
  <2>2. waiting[i + n].number < waiting[j + n].number  BY <2>1 DEF Ordered
  <2> QED  BY <2>2, <1>6
<1>12. \A i \in 1..Len(rest) : rest[i].number <= given
  BY <1>0, <1>5, <1>6 DEF Ordered
<1>13. \A i \in 1..Len(all), j \in 1..Len(rest) : all[i] < rest[j].number
  <2> SUFFICES ASSUME NEW i \in 1..Len(all), NEW j \in 1..Len(rest)
               PROVE  all[i] < rest[j].number
    OBVIOUS
  <2>1. rest[j] = waiting[j + n] /\ j + n \in 1..Len(waiting) /\ j + n > n
    BY <1>5, <1>6, <1>0
  <2>2. CASE i <= Len(out)  BY <2>1, <2>2, <1>4, <1>7 DEF Ordered
  <2>3. CASE i > Len(out)
    <3>1. i - Len(out) \in 1..Len(waiting) /\ i - Len(out) < j + n
      BY <2>1, <2>3, <1>8, <1>0, <1>3
    <3>2. all[i] = waiting[i - Len(out)].number  BY <2>3, <1>4, <1>0, <1>3, SMTT(30)
    <3> QED  BY <3>1, <3>2, <2>1 DEF Ordered
  <2> QED  BY <2>2, <2>3, <1>0, <1>3
<1>14. Ordered(all, rest, given)
  BY <1>0, <1>3, <1>5, <1>9, <1>10, <1>11, <1>12, <1>13 DEF Ordered
<1> QED  BY <1>14 DEF all, rest, front

\* A command that goes out at once, with nothing waiting.
LEMMA OrderedSend ==
    ASSUME NEW out, NEW given, Ordered(out, <<>>, given)
    PROVE  Ordered(Append(out, given + 1), <<>>, given + 1)
BY DEF Ordered

\* A command that waits: behind the others, or it stands for one of them, or
\* the oldest is dropped for it.
LEMMA OrderedLater ==
    ASSUME NEW out, NEW waiting, NEW given, Ordered(out, waiting, given)
    PROVE  Ordered(out, waiting, given + 1)
<1>1. out \in Seq(Nat \ {0}) /\ waiting \in Seq(Queued) /\ given \in Nat  BY DEF Ordered
<1>2. \A i \in 1..Len(out) : out[i] \in Nat /\ out[i] <= given  BY <1>1 DEF Ordered
<1>3. \A i \in 1..Len(waiting) : waiting[i].number \in Nat /\ waiting[i].number <= given
  BY <1>1, QueuedNumber DEF Ordered
<1>4. \A i \in 1..Len(out) : out[i] <= given + 1  BY <1>1, <1>2
<1>5. \A i \in 1..Len(waiting) : waiting[i].number <= given + 1  BY <1>1, <1>3
<1>6. given + 1 \in Nat  BY <1>1
<1> QED  BY <1>4, <1>5, <1>6 DEF Ordered

LEMMA OrderedAppend ==
    ASSUME NEW out, NEW waiting, NEW given, NEW key \in CommandKeys,
           Ordered(out, waiting, given)
    PROVE  Ordered(out, Append(waiting, [number |-> given + 1, key |-> key]), given + 1)
<1> DEFINE entry == [number |-> given + 1, key |-> key]
<1> DEFINE longer == Append(waiting, entry)
<1>1. out \in Seq(Nat \ {0}) /\ waiting \in Seq(Queued) /\ given \in Nat  BY DEF Ordered
<1>2. entry \in Queued /\ entry.number = given + 1  BY <1>1 DEF Queued
<1> HIDE DEF entry
<1>3. longer \in Seq(Queued) /\ Len(longer) = Len(waiting) + 1  BY <1>1, <1>2
<1>4. \A i \in 1..Len(waiting) : longer[i] = waiting[i]  BY <1>1, <1>2
<1>5. longer[Len(waiting) + 1] = entry  BY <1>1, <1>2
<1>6. \A i \in 1..Len(longer) : i \in 1..Len(waiting) \/ i = Len(waiting) + 1  BY <1>3, <1>1
<1> HIDE DEF longer
<1>7. \A i \in 1..Len(waiting) : waiting[i].number \in Nat /\ waiting[i].number < given + 1
  BY <1>1, QueuedNumber DEF Ordered
<1>8. \A i \in 1..Len(out) : out[i] \in Nat /\ out[i] < given + 1  BY <1>1 DEF Ordered
<1>9. \A i, j \in 1..Len(longer) : i < j => longer[i].number < longer[j].number
  <2> SUFFICES ASSUME NEW i \in 1..Len(longer), NEW j \in 1..Len(longer), i < j
               PROVE  longer[i].number < longer[j].number
    OBVIOUS
  <2>1. i \in 1..Len(waiting)  BY <1>6, <1>3, <1>1
  <2>2. CASE j \in 1..Len(waiting)  BY <2>1, <2>2, <1>4 DEF Ordered
  <2>3. CASE j = Len(waiting) + 1  BY <2>1, <2>3, <1>4, <1>5, <1>2, <1>7
  <2> QED  BY <2>2, <2>3, <1>6
<1>10. \A i \in 1..Len(longer) : longer[i].number <= given + 1
  <2> SUFFICES ASSUME NEW i \in 1..Len(longer) PROVE longer[i].number <= given + 1
    OBVIOUS
  <2>1. given \in Nat  BY <1>1
  <2>2. CASE i \in 1..Len(waiting)
    <3>1. longer[i].number \in Nat /\ longer[i].number < given + 1  BY <2>2, <1>4, <1>7
    <3> QED  BY <3>1, <2>1
  <2>3. CASE i = Len(waiting) + 1
    <3>1. longer[i].number = given + 1  BY <2>3, <1>5, <1>2
    <3> QED  BY <3>1, <2>1
  <2> QED  BY <2>2, <2>3, <1>6
<1>11. \A i \in 1..Len(out), j \in 1..Len(longer) : out[i] < longer[j].number
  <2> SUFFICES ASSUME NEW i \in 1..Len(out), NEW j \in 1..Len(longer)
               PROVE  out[i] < longer[j].number
    OBVIOUS
  <2>1. CASE j \in 1..Len(waiting)  BY <2>1, <1>4 DEF Ordered
  <2>2. CASE j = Len(waiting) + 1  BY <2>2, <1>5, <1>2, <1>8
  <2> QED  BY <2>1, <2>2, <1>6
<1>12. \A i \in 1..Len(out) : out[i] <= given + 1  BY <1>8, <1>1
<1>13. given + 1 \in Nat  BY <1>1
<1>14. Ordered(out, longer, given + 1)
  BY <1>1, <1>3, <1>9, <1>10, <1>11, <1>12, <1>13 DEF Ordered
<1> QED  BY <1>14 DEF longer, entry

LEMMA OrderedTail ==
    ASSUME NEW out, NEW waiting, NEW given, Ordered(out, waiting, given), Len(waiting) > 0
    PROVE  Ordered(out, Tail(waiting), given)
<1> DEFINE rest == Tail(waiting)
<1>1. out \in Seq(Nat \ {0}) /\ waiting \in Seq(Queued) /\ given \in Nat  BY DEF Ordered
<1>2. rest \in Seq(Queued) /\ Len(rest) = Len(waiting) - 1  BY <1>1
<1>3. \A i \in 1..Len(rest) : rest[i] = waiting[i + 1]  BY <1>1, <1>2
<1>4. Len(waiting) \in Nat  BY <1>1
<1> HIDE DEF rest
<1>5. \A i \in 1..Len(rest) : i + 1 \in 1..Len(waiting)  BY <1>2, <1>4
<1>6. \A i, j \in 1..Len(rest) : i < j => rest[i].number < rest[j].number
  <2> SUFFICES ASSUME NEW i \in 1..Len(rest), NEW j \in 1..Len(rest), i < j
               PROVE  rest[i].number < rest[j].number
    OBVIOUS
  <2>1. i + 1 \in 1..Len(waiting) /\ j + 1 \in 1..Len(waiting) /\ i + 1 < j + 1
    BY <1>5, <1>2, <1>4
  <2>2. waiting[i + 1].number < waiting[j + 1].number  BY <2>1 DEF Ordered
  <2> QED  BY <2>2, <1>3
<1>7. \A i \in 1..Len(rest) : rest[i].number <= given  BY <1>3, <1>5 DEF Ordered
<1>8. \A i \in 1..Len(out), j \in 1..Len(rest) : out[i] < rest[j].number
  BY <1>3, <1>5 DEF Ordered
<1>9. Ordered(out, rest, given)
  <2>1. \A i, j \in 1..Len(out) : i < j => out[i] < out[j]  BY DEF Ordered
  <2>2. \A i \in 1..Len(out) : out[i] <= given  BY DEF Ordered
  <2> QED  BY <1>1, <1>2, <1>6, <1>7, <1>8, <2>1, <2>2 DEF Ordered
<1> QED  BY <1>9 DEF rest

-----------------------------------------------------------------------------
\* Closing a socket opens none.
LEMMA ClosedType ==
    ASSUME PageInv
    PROVE  Closed(socket) \in [Generations -> {"none", "connecting", "open", "closing", "closed"}]
BY DEF PageInv, Closed

\* A forced reconnection leaves the page without an open socket.
LEMMA ReconnectCloses ==
    ASSUME PageInv, ForceReconnect
    PROVE  /\ socket' \in 0..MaxGenerations
           /\ readyState' \in [Generations -> {"none", "connecting", "open", "closing", "closed"}]
           /\ ~SocketOpen'
<1>1. CASE socket # 0 /\ readyState[socket] = "connecting"
  BY <1>1 DEF PageInv, ForceReconnect, SocketOpen
<1>2. CASE ~(socket # 0 /\ readyState[socket] = "connecting")
  <2>1. socket' = 0 /\ readyState' = Closed(socket)  BY <1>2 DEF ForceReconnect
  <2> QED  BY <2>1, ClosedType, GenerationsNat DEF SocketOpen
<1> QED  BY <1>1, <1>2

LEMMA PageStepInv ==
    ASSUME PageInv, [PageNext]_pageVars
    PROVE  PageInv'
<1>0. PageInv /\ [PageNext]_pageVars  OBVIOUS
<1>1. CASE Mount  BY <1>0, <1>1 DEF Mount, PageInv, SocketOpen
<1>2. CASE Unmount
  <2>1. socket' = 0 /\ readyState' = Closed(socket) /\ outboundQueue' = <<>>
        /\ UNCHANGED <<sent, commands>>
    BY <1>2 DEF Unmount
  <2>2. Ordered(sent, <<>>, commands)  BY <1>0, OrderedDrop DEF PageInv
  <2> QED  BY <2>1, <2>2, <1>0, ClosedType, GenerationsNat DEF PageInv, SocketOpen
<1>3. CASE TimerFires  BY <1>0, <1>3 DEF TimerFires, PageInv, SocketOpen
<1>4. CASE BecomesVisible
  <2>1. UNCHANGED <<outboundQueue, sent, commands>> /\ ForceReconnect
    BY <1>4 DEF BecomesVisible
  <2> QED  BY <2>1, <1>0, ReconnectCloses DEF PageInv
<1>5. CASE SessionBoundary
  <2>1. outboundQueue' = <<>> /\ UNCHANGED <<socket, readyState, sent, commands>>
    BY <1>5 DEF SessionBoundary
  <2>2. Ordered(sent, <<>>, commands)  BY <1>0, OrderedDrop DEF PageInv
  <2> QED  BY <2>1, <2>2, <1>0 DEF PageInv, SocketOpen
<1>6. ASSUME NEW g \in Generations, Authenticated(g)
      PROVE  PageInv'
  <2>1. UNCHANGED <<outboundQueue, sent, commands>>  BY <1>6 DEF Authenticated
  <2>2. CASE Speaks(g)
    <3>1. socket' = g /\ readyState' = [readyState EXCEPT ![g] = "connecting"]
      BY <1>6, <2>2 DEF Authenticated
    <3> QED  BY <3>1, <2>1, <1>0, GenerationsNat DEF PageInv, SocketOpen, Generations
  <2>3. CASE ~Speaks(g)
    BY <1>6, <2>1, <2>3, <1>0 DEF Authenticated, PageInv, SocketOpen
  <2> QED  BY <2>2, <2>3
<1>7. ASSUME NEW g \in Generations, NotAuthenticated(g)
      PROVE  PageInv'
  BY <1>7, <1>0 DEF NotAuthenticated, PageInv, SocketOpen
<1>8. ASSUME NEW g \in Generations, Opens(g)
      PROVE  PageInv'
  <2>1. UNCHANGED <<socket, commands>> /\ readyState[g] = "connecting"  BY <1>8 DEF Opens
  <2>2. CASE Speaks(g) /\ socket = g
    <3>1. PICK n \in 0..Len(outboundQueue) :
             /\ Flush(n)
             /\ IF n = Len(outboundQueue)
                THEN readyState' = [readyState EXCEPT ![g] = "open"]
                ELSE readyState' = [readyState EXCEPT ![g] = "closing"]
      BY <1>8, <2>2 DEF Opens
    <3>2. Ordered(sent', outboundQueue', commands)
      BY <3>1, <1>0, OrderedFlush DEF Flush, PageInv
    <3>3. n = Len(outboundQueue) => outboundQueue' = <<>>
      BY <3>1, <1>0 DEF Flush, PageInv, Ordered
    <3>4. readyState' \in [Generations -> {"none", "connecting", "open", "closing", "closed"}]
      BY <3>1, <1>0 DEF PageInv
    <3>5. n # Len(outboundQueue) => ~SocketOpen'
      BY <3>1, <2>1, <2>2, <1>0 DEF PageInv, SocketOpen
    <3> QED  BY <3>2, <3>3, <3>4, <3>5, <2>1, <1>0 DEF PageInv
  <2>3. CASE ~(Speaks(g) /\ socket = g)
    <3>1. /\ readyState' = [readyState EXCEPT ![g] = "closing"]
          /\ UNCHANGED <<outboundQueue, sent>>
      BY <1>8, <2>3 DEF Opens
    <3>2. SocketOpen' => SocketOpen
      BY <3>1, <2>1, <1>0, GenerationsNat DEF PageInv, SocketOpen, Generations
    <3> QED  BY <3>1, <3>2, <2>1, <1>0 DEF PageInv
  <2> QED  BY <2>2, <2>3
<1>9. ASSUME NEW g \in Generations, Closes(g)
      PROVE  PageInv'
  <2>1. /\ readyState' = [readyState EXCEPT ![g] = "closed"]
        /\ UNCHANGED <<outboundQueue, sent, commands>>
        /\ socket' \in {0, socket}
    BY <1>9 DEF Closes
  <2>2. SocketOpen' => SocketOpen
    BY <2>1, <1>0, GenerationsNat DEF PageInv, SocketOpen, Generations
  <2> QED  BY <2>1, <2>2, <1>0, GenerationsNat DEF PageInv
<1>10. ASSUME NEW key \in CommandKeys, SendCommand(key)
       PROVE  PageInv'
  <2>1. commands' = commands + 1  BY <1>10 DEF SendCommand
  <2>2. CASE /\ SocketOpen
             /\ sent' = Append(sent, commands + 1)
             /\ UNCHANGED <<socket, readyState, outboundQueue>>
    <3>1. outboundQueue = <<>>  BY <2>2, <1>0 DEF PageInv
    <3>2. Ordered(sent', <<>>, commands')
      BY <2>1, <2>2, <3>1, <1>0, OrderedSend DEF PageInv
    <3> QED  BY <3>1, <3>2, <2>2, <1>0 DEF PageInv, SocketOpen
  <2>3. CASE Enqueue(commands + 1, key) /\ ForceReconnect /\ UNCHANGED sent
    <3> DEFINE longer == Append(outboundQueue, [number |-> commands + 1, key |-> key])
    <3>1. Ordered(sent, outboundQueue, commands)  BY <1>0 DEF PageInv
    <3>2. Ordered(sent, longer, commands + 1)  BY <3>1, OrderedAppend
    <3>3. Ordered(sent, outboundQueue, commands + 1)  BY <3>1, OrderedLater
    <3>4. Len(longer) > QueueLimit => Ordered(sent, Tail(longer), commands + 1)
      <4>1. Len(longer) > 0  BY <3>1 DEF Ordered
      <4> HIDE DEF longer
      <4> QED  BY <3>2, <4>1, OrderedTail
    <3>5. \/ outboundQueue' = outboundQueue
          \/ outboundQueue' = longer
          \/ Len(longer) > QueueLimit /\ outboundQueue' = Tail(longer)
      BY <2>3 DEF Enqueue
    <3>6. Ordered(sent', outboundQueue', commands')
      <4> HIDE DEF longer
      <4> QED  BY <3>2, <3>3, <3>4, <3>5, <2>1, <2>3
    <3> QED  BY <3>6, <2>3, <1>0, ReconnectCloses DEF PageInv
  <2> QED  BY <1>10, <2>2, <2>3 DEF SendCommand, SocketOpen
<1>11. CASE UNCHANGED pageVars  BY <1>0, <1>11 DEF pageVars, PageInv, SocketOpen
<1> QED
  BY <1>0, <1>1, <1>2, <1>3, <1>4, <1>5, <1>6, <1>7, <1>8, <1>9, <1>10, <1>11 DEF PageNext

\* However sockets are lost, fetches fail and the page is mounted again: the
\* commands a page hands to its sockets are in the order the user gave them
\* and none goes out twice (websocket.ts:100-110, 178-191).
THEOREM CommandsGoOutInOrder == PageSpec => []CommandsKeepOrder
<1>1. PageInit => PageInv
  BY GenerationsNat DEF PageInit, PageInv, Ordered, SocketOpen, Queued
<1>2. PageInv /\ [PageNext]_pageVars => PageInv'  BY PageStepInv
<1>3. PageInv => CommandsKeepOrder
  <2> SUFFICES ASSUME PageInv, NEW i \in 1..(Len(sent) - 1) PROVE sent[i] < sent[i + 1]
    BY DEF CommandsKeepOrder
  <2>1. sent \in Seq(Nat \ {0}) /\ \A j, k \in 1..Len(sent) : j < k => sent[j] < sent[k]
    BY DEF PageInv, Ordered
  <2>2. Len(sent) \in Nat  BY <2>1
  <2>3. i \in 1..Len(sent) /\ i + 1 \in 1..Len(sent) /\ i < i + 1  BY <2>2
  <2> QED  BY <2>1, <2>3
<1> QED  BY <1>1, <1>2, <1>3, PTL DEF PageSpec

-----------------------------------------------------------------------------
(* The generations of a page are numbers from a bounded range because each *)
(* attempt to connect is owed to something: to the first mount, to a       *)
(* command, or to a disturbance, which can owe it two (an unmount and the  *)
(* mount behind it).  An attempt is still owed while the page is not       *)
(* mounted, while the timer runs, and while the socket of the page is      *)
(* closing under it.                                                       *)
Owed(b) == IF b THEN 1 ELSE 0
SocketLost == socket # 0 /\ readyState[socket] = "closing"
AttemptsOwed ==
    generation + Owed(~mounted) + Owed(reconnectTimer) + Owed(SocketLost)
        <= 2 * disturbances + commands + 1

\* Only the socket of the newest generation is alive and the page's.
LiveIsNewest ==
    socket # 0 /\ readyState[socket] \in Alive => mounted /\ generation = socket

SocketShapes ==
    /\ mounted \in BOOLEAN /\ opening \in BOOLEAN /\ reconnectTimer \in BOOLEAN
    /\ firstConnect \in BOOLEAN
    /\ generation \in Nat /\ attempts \subseteq 1..generation
    /\ connection \in {"connecting", "connected", "disconnected"}
    /\ commands \in 0..MaxCommands /\ disturbances \in 0..MaxDisturbances
    /\ Len(outboundQueue) <= QueueLimit

PageTyped == PageInv /\ SocketShapes /\ LiveIsNewest /\ AttemptsOwed

LEMMA DisturbedCounts ==
    ASSUME disturbances \in 0..MaxDisturbances, Disturbed
    PROVE  disturbances' \in 0..MaxDisturbances /\ disturbances' = disturbances + 1
BY PageAssumption DEF Disturbed

\* connect() counts one generation or none, and none over a live socket.
LEMMA ConnectCounts ==
    ASSUME NEW isMounted \in BOOLEAN, NEW known, SocketShapes, Connect(isMounted, known)
    PROVE  /\ reconnectTimer' = FALSE /\ opening' \in BOOLEAN
           /\ generation' \in Nat /\ attempts' \subseteq 1..generation'
           /\ connection' \in {"connecting", "connected", "disconnected"}
           /\ generation' <= generation + 1
           /\ \/ generation' = generation
              \/ isMounted /\ (known # 0 => readyState[known] \notin Alive)
<1>1. generation \in Nat /\ attempts \subseteq 1..generation /\ opening \in BOOLEAN
      /\ connection \in {"connecting", "connected", "disconnected"}
  BY DEF SocketShapes
<1>2. CASE UNCHANGED <<opening, generation, connection, attempts>> /\ reconnectTimer' = FALSE
  BY <1>1, <1>2
<1>3. CASE /\ isMounted /\ (known # 0 => readyState[known] \notin Alive)
           /\ opening' = TRUE /\ generation' = generation + 1 /\ connection' = "connecting"
           /\ attempts' = attempts \cup {generation + 1} /\ reconnectTimer' = FALSE
  BY <1>1, <1>3
<1> QED  BY <1>2, <1>3 DEF Connect

\* A forced reconnection leaves a connecting socket alone or none at all.
LEMMA ReconnectCounts ==
    ASSUME PageTyped, ForceReconnect
    PROVE  /\ reconnectTimer' = FALSE /\ opening' \in BOOLEAN
           /\ generation' \in Nat /\ attempts' \subseteq 1..generation'
           /\ connection' \in {"connecting", "connected", "disconnected"}
           /\ generation' <= generation + 1 /\ ~SocketLost'
           /\ \/ socket' = 0
              \/ generation' = generation /\ UNCHANGED <<socket, readyState>>
<1>1. SocketShapes  BY DEF PageTyped
<1>2. CASE socket # 0 /\ readyState[socket] = "connecting"
  <2>1. /\ reconnectTimer' = FALSE
        /\ UNCHANGED <<opening, generation, connection, attempts, socket, readyState>>
    BY <1>2 DEF ForceReconnect
  <2>2. ~SocketLost'  BY <2>1, <1>2 DEF SocketLost
  <2> QED  BY <2>1, <2>2, <1>1 DEF SocketShapes
<1>3. CASE ~(socket # 0 /\ readyState[socket] = "connecting")
  <2>1. socket' = 0 /\ Connect(mounted, 0)  BY <1>3 DEF ForceReconnect
  <2>2. mounted \in BOOLEAN  BY <1>1 DEF SocketShapes
  <2> QED  BY <2>1, <2>2, <1>1, ConnectCounts DEF SocketLost
<1> QED  BY <1>2, <1>3

LEMMA PageTypedInit == PageInit => PageTyped
<1> SUFFICES ASSUME PageInit PROVE PageTyped  OBVIOUS
<1>1. PageInv
  BY GenerationsNat DEF PageInit, PageInv, Ordered, SocketOpen, Queued
<1>2. SocketShapes
  <2>1. Len(<<>>) <= QueueLimit /\ 0 \in 0..MaxCommands /\ 0 \in 0..MaxDisturbances
    BY PageAssumption
  <2> QED  BY <2>1 DEF PageInit, SocketShapes
<1>3. LiveIsNewest  BY DEF PageInit, LiveIsNewest
<1>4. AttemptsOwed  BY DEF PageInit, AttemptsOwed, Owed, SocketLost
<1> QED  BY <1>1, <1>2, <1>3, <1>4 DEF PageTyped

\* The page mounts, its timer fires, it is cleaned up.
LEMMA PageTypedLife ==
    ASSUME PageTyped, Mount \/ Unmount \/ TimerFires \/ BecomesVisible \/ SessionBoundary
    PROVE  SocketShapes' /\ LiveIsNewest' /\ AttemptsOwed'
<1>0. /\ SocketShapes /\ LiveIsNewest /\ AttemptsOwed
      /\ socket \in 0..MaxGenerations /\ readyState \in [Generations -> {"none", "connecting", "open", "closing", "closed"}]
  BY DEF PageTyped, PageInv
<1>1. /\ mounted \in BOOLEAN /\ reconnectTimer \in BOOLEAN /\ generation \in Nat
      /\ disturbances \in Nat /\ commands \in Nat
  BY <1>0, PageAssumption DEF SocketShapes
<1>2. CASE Mount
  <2>1. /\ ~mounted /\ mounted' = TRUE /\ Connect(TRUE, socket)
        /\ UNCHANGED <<socket, readyState, firstConnect, outboundQueue, sent, commands, disturbances>>
    BY <1>2 DEF Mount
  <2>2. /\ reconnectTimer' = FALSE /\ opening' \in BOOLEAN
        /\ generation' \in Nat /\ attempts' \subseteq 1..generation'
        /\ connection' \in {"connecting", "connected", "disconnected"}
        /\ generation' <= generation + 1
    BY <2>1, <1>0, ConnectCounts
  <2>3. SocketShapes'  BY <2>1, <2>2, <1>0 DEF SocketShapes
  <2>4. LiveIsNewest'  BY <2>1, <1>0 DEF LiveIsNewest
  <2>5. AttemptsOwed'
    <3>1. UNCHANGED SocketLost  BY <2>1 DEF SocketLost
    <3>2. /\ Owed(~mounted) = 1 /\ Owed(~mounted') = 0 /\ Owed(reconnectTimer') = 0
          /\ Owed(SocketLost') = Owed(SocketLost)
          /\ Owed(reconnectTimer) \in 0..1 /\ Owed(SocketLost) \in 0..1
      BY <2>1, <2>2, <3>1 DEF Owed
    <3> QED  BY <2>1, <2>2, <3>2, <1>0, <1>1 DEF AttemptsOwed
  <2> QED  BY <2>3, <2>4, <2>5
<1>3. CASE Unmount
  <2>1. /\ mounted /\ Disturbed /\ mounted' = FALSE /\ opening' = FALSE /\ reconnectTimer' = FALSE
        /\ socket' = 0 /\ connection' = "disconnected" /\ generation' = generation + 1
        /\ outboundQueue' = <<>> /\ UNCHANGED <<attempts, firstConnect, sent, commands>>
    BY <1>3 DEF Unmount
  <2>2. disturbances' \in 0..MaxDisturbances /\ disturbances' = disturbances + 1
    BY <2>1, <1>0, DisturbedCounts DEF SocketShapes
  <2>3. SocketShapes'
    <3>1. attempts \subseteq 1..(generation + 1)  BY <1>0, <1>1 DEF SocketShapes
    <3>2. Len(<<>>) <= QueueLimit  BY PageAssumption
    <3>3. mounted' \in BOOLEAN /\ opening' \in BOOLEAN /\ reconnectTimer' \in BOOLEAN  BY <2>1
    <3>4. firstConnect' \in BOOLEAN /\ commands' \in 0..MaxCommands  BY <2>1, <1>0 DEF SocketShapes
    <3>5. generation' \in Nat /\ attempts' \subseteq 1..generation'  BY <2>1, <3>1, <1>1
    <3> QED  BY <2>1, <2>2, <3>2, <3>3, <3>4, <3>5 DEF SocketShapes
  <2>4. LiveIsNewest'  BY <2>1 DEF LiveIsNewest
  <2>5. AttemptsOwed'  BY <2>1, <2>2, <1>0, <1>1 DEF AttemptsOwed, Owed, SocketLost
  <2> QED  BY <2>3, <2>4, <2>5
<1>4. CASE TimerFires
  <2>1. /\ reconnectTimer /\ Connect(mounted, socket)
        /\ UNCHANGED <<mounted, socket, readyState, firstConnect, outboundQueue, sent, commands,
                       disturbances>>
    BY <1>4 DEF TimerFires
  <2>2. /\ reconnectTimer' = FALSE /\ opening' \in BOOLEAN
        /\ generation' \in Nat /\ attempts' \subseteq 1..generation'
        /\ connection' \in {"connecting", "connected", "disconnected"}
        /\ generation' <= generation + 1
        /\ \/ generation' = generation
           \/ mounted /\ (socket # 0 => readyState[socket] \notin Alive)
    BY <2>1, <1>0, <1>1, ConnectCounts
  <2>3. SocketShapes'  BY <2>1, <2>2, <1>0 DEF SocketShapes
  <2>4. LiveIsNewest'  BY <2>1, <2>2, <1>0 DEF LiveIsNewest
  <2>5. AttemptsOwed'
    <3>1. UNCHANGED SocketLost  BY <2>1 DEF SocketLost
    <3>2. /\ Owed(~mounted') = Owed(~mounted) /\ Owed(SocketLost') = Owed(SocketLost)
          /\ Owed(reconnectTimer) = 1 /\ Owed(reconnectTimer') = 0
          /\ Owed(~mounted) \in 0..1 /\ Owed(SocketLost) \in 0..1
      BY <2>1, <2>2, <3>1 DEF Owed
    <3>3. /\ generation' \in Nat /\ generation' <= generation + 1
          /\ UNCHANGED <<commands, disturbances>>
      BY <2>1, <2>2
    <3> QED  BY <3>2, <3>3, <1>0, <1>1 DEF AttemptsOwed
  <2> QED  BY <2>3, <2>4, <2>5
<1>5. CASE BecomesVisible
  <2>1. /\ mounted /\ Disturbed /\ ForceReconnect
        /\ UNCHANGED <<mounted, firstConnect, outboundQueue, sent, commands>>
    BY <1>5 DEF BecomesVisible
  <2>2. /\ reconnectTimer' = FALSE /\ opening' \in BOOLEAN
        /\ generation' \in Nat /\ attempts' \subseteq 1..generation'
        /\ connection' \in {"connecting", "connected", "disconnected"}
        /\ generation' <= generation + 1 /\ ~SocketLost'
        /\ \/ socket' = 0
           \/ generation' = generation /\ UNCHANGED <<socket, readyState>>
    BY <2>1, ReconnectCounts
  <2>3. disturbances' \in 0..MaxDisturbances /\ disturbances' = disturbances + 1
    BY <2>1, <1>0, DisturbedCounts DEF SocketShapes
  <2>4. SocketShapes'  BY <2>1, <2>2, <2>3, <1>0 DEF SocketShapes
  <2>5. LiveIsNewest'  BY <2>1, <2>2, <1>0 DEF LiveIsNewest
  <2>6. AttemptsOwed'
    <3>1. /\ Owed(~mounted') = 0 /\ Owed(reconnectTimer') = 0 /\ Owed(SocketLost') = 0
          /\ Owed(~mounted) = 0 /\ Owed(reconnectTimer) \in 0..1 /\ Owed(SocketLost) \in 0..1
      BY <2>1, <2>2 DEF Owed
    <3> QED  BY <2>1, <2>2, <2>3, <3>1, <1>0, <1>1 DEF AttemptsOwed
  <2> QED  BY <2>4, <2>5, <2>6
<1>6. CASE SessionBoundary
  <2>1. Len(<<>>) <= QueueLimit  BY PageAssumption
  <2>2. /\ outboundQueue' = <<>>
        /\ UNCHANGED <<mounted, opening, attempts, generation, connection, socket, readyState,
                       reconnectTimer, firstConnect, commands, disturbances>>
    BY <1>6 DEF SessionBoundary
  <2> QED  BY <2>1, <2>2, <1>0 DEF SocketShapes, LiveIsNewest, AttemptsOwed, SocketLost
<1> QED  BY <1>2, <1>3, <1>4, <1>5, <1>6

\* The callbacks of one generation.
LEMMA PageTypedCallback ==
    ASSUME PageTyped, NEW g \in Generations,
           Authenticated(g) \/ NotAuthenticated(g) \/ Opens(g) \/ Closes(g)
    PROVE  SocketShapes' /\ LiveIsNewest' /\ AttemptsOwed'
<1>0. /\ SocketShapes /\ LiveIsNewest /\ AttemptsOwed
      /\ socket \in 0..MaxGenerations /\ readyState \in [Generations -> {"none", "connecting", "open", "closing", "closed"}]
  BY DEF PageTyped, PageInv
<1>1. /\ mounted \in BOOLEAN /\ reconnectTimer \in BOOLEAN /\ generation \in Nat
      /\ disturbances \in Nat /\ commands \in Nat /\ g # 0
  BY <1>0, PageAssumption, GenerationsNat DEF SocketShapes
<1>2. socket = 0 \/ socket \in Generations  BY <1>0, GenerationsNat DEF Generations
<1>3. CASE Authenticated(g)
  <2>1. /\ attempts' = attempts \ {g} /\ opening' = FALSE
        /\ UNCHANGED <<mounted, generation, connection, reconnectTimer, firstConnect,
                       outboundQueue, sent, commands, disturbances>>
    BY <1>3 DEF Authenticated
  <2>2. SocketShapes'  BY <2>1, <1>0 DEF SocketShapes
  <2>3. CASE Speaks(g)
    <3>1. socket' = g /\ readyState' = [readyState EXCEPT ![g] = "connecting"]
      BY <1>3, <2>3 DEF Authenticated
    <3>2. mounted /\ generation = g  BY <2>3 DEF Speaks
    <3>3. ~SocketLost'  BY <3>1, <1>0 DEF SocketLost
    <3>4. LiveIsNewest'  BY <3>1, <3>2, <2>1 DEF LiveIsNewest
    <3>5. AttemptsOwed'  BY <3>3, <2>1, <1>0, <1>1 DEF AttemptsOwed, Owed
    <3> QED  BY <2>2, <3>4, <3>5
  <2>4. CASE ~Speaks(g)
    <3>1. UNCHANGED <<socket, readyState>>  BY <1>3, <2>4 DEF Authenticated
    <3> QED  BY <3>1, <2>1, <2>2, <1>0 DEF LiveIsNewest, AttemptsOwed, SocketLost
  <2> QED  BY <2>3, <2>4
<1>4. CASE NotAuthenticated(g)
  <2>1. /\ attempts' = attempts \ {g} /\ opening' = FALSE /\ Disturbed
        /\ reconnectTimer' \in BOOLEAN
        /\ connection' \in {connection, "disconnected"}
        /\ UNCHANGED <<mounted, generation, socket, readyState, firstConnect, outboundQueue, sent,
                       commands>>
    BY <1>4, <1>1 DEF NotAuthenticated
  <2>2. disturbances' \in 0..MaxDisturbances /\ disturbances' = disturbances + 1
    BY <2>1, <1>0, DisturbedCounts DEF SocketShapes
  <2>3. SocketShapes'  BY <2>1, <2>2, <1>0 DEF SocketShapes
  <2>4. LiveIsNewest'  BY <2>1, <1>0 DEF LiveIsNewest
  <2>5. AttemptsOwed'
    <3>1. UNCHANGED SocketLost  BY <2>1 DEF SocketLost
    <3> QED  BY <2>1, <2>2, <3>1, <1>0, <1>1 DEF AttemptsOwed, Owed
  <2> QED  BY <2>3, <2>4, <2>5
<1>5. CASE Opens(g)
  <2>1. /\ readyState[g] = "connecting"
        /\ UNCHANGED <<mounted, opening, attempts, generation, socket, reconnectTimer, commands>>
    BY <1>5 DEF Opens
  <2>2. CASE Speaks(g) /\ socket = g
    <3>1. PICK n \in 0..Len(outboundQueue) :
             /\ Flush(n)
             /\ IF n = Len(outboundQueue)
                THEN /\ readyState' = [readyState EXCEPT ![g] = "open"]
                     /\ UNCHANGED disturbances
                ELSE readyState' = [readyState EXCEPT ![g] = "closing"] /\ Disturbed
      BY <1>5, <2>2 DEF Opens
    <3>2. connection' = "connected" /\ firstConnect' = TRUE  BY <1>5, <2>2 DEF Opens
    <3>3. mounted /\ generation = g  BY <2>2 DEF Speaks
    <3>4. Len(outboundQueue') <= QueueLimit
      <4>1. outboundQueue \in Seq(Queued) /\ Len(outboundQueue) <= QueueLimit
        BY <1>0 DEF PageTyped, PageInv, Ordered, SocketShapes
      <4>2. outboundQueue' = SubSeq(outboundQueue, n + 1, Len(outboundQueue))  BY <3>1 DEF Flush
      <4>3. Len(outboundQueue') = Len(outboundQueue) - n  BY <4>1, <4>2
      <4> QED  BY <4>1, <4>3, PageAssumption
    <3>5. LiveIsNewest'  BY <2>1, <3>3, <2>2 DEF LiveIsNewest
    <3>6. CASE n = Len(outboundQueue)
      <4>1. readyState' = [readyState EXCEPT ![g] = "open"] /\ UNCHANGED disturbances
        BY <3>1, <3>6
      <4>2. ~SocketLost'  BY <4>1, <2>1, <2>2, <1>0 DEF SocketLost
      <4>3. SocketShapes'  BY <4>1, <3>2, <3>4, <2>1, <1>0 DEF SocketShapes
      <4>4. AttemptsOwed'  BY <4>1, <4>2, <2>1, <1>0, <1>1 DEF AttemptsOwed, Owed
      <4> QED  BY <4>3, <4>4, <3>5
    <3>7. CASE n # Len(outboundQueue)
      <4>1. Disturbed  BY <3>1, <3>7
      <4>2. disturbances' \in 0..MaxDisturbances /\ disturbances' = disturbances + 1
        BY <4>1, <1>0, DisturbedCounts DEF SocketShapes
      <4>3. SocketShapes'  BY <4>2, <3>2, <3>4, <2>1, <1>0 DEF SocketShapes
      <4>4. AttemptsOwed'  BY <4>2, <2>1, <1>0, <1>1 DEF AttemptsOwed, Owed
      <4> QED  BY <4>3, <4>4, <3>5
    <3> QED  BY <3>6, <3>7
  <2>3. CASE ~(Speaks(g) /\ socket = g)
    <3>1. /\ readyState' = [readyState EXCEPT ![g] = "closing"]
          /\ UNCHANGED <<connection, firstConnect, outboundQueue, sent, disturbances>>
      BY <1>5, <2>3 DEF Opens
    <3>2. socket # g  BY <2>1, <2>3, <1>0, <1>1 DEF LiveIsNewest, Alive, Speaks
    <3>3. socket # 0 => readyState'[socket] = readyState[socket]  BY <3>1, <3>2, <1>0, <1>2
    <3>4. SocketShapes'  BY <3>1, <2>1, <1>0 DEF SocketShapes
    <3> QED  BY <3>1, <3>3, <3>4, <2>1, <1>0 DEF LiveIsNewest, AttemptsOwed, SocketLost
  <2> QED  BY <2>2, <2>3
<1>6. CASE Closes(g)
  <2>1. /\ \/ readyState[g] = "closing" /\ UNCHANGED disturbances
           \/ readyState[g] \in Alive /\ Disturbed
        /\ readyState' = [readyState EXCEPT ![g] = "closed"]
        /\ UNCHANGED <<mounted, opening, attempts, generation, firstConnect, outboundQueue, sent,
                       commands>>
    BY <1>6 DEF Closes
  <2>2. disturbances' \in 0..MaxDisturbances /\ disturbances' \in {disturbances, disturbances + 1}
    BY <2>1, <1>0, DisturbedCounts DEF SocketShapes
  <2>3. CASE Speaks(g) /\ socket = g
    <3>1. socket' = 0 /\ connection' = "disconnected" /\ reconnectTimer' = TRUE
      BY <1>6, <2>3 DEF Closes
    <3>2. SocketShapes'  BY <3>1, <2>1, <2>2, <1>0 DEF SocketShapes
    <3>3. LiveIsNewest'  BY <3>1 DEF LiveIsNewest
    <3>4. ~SocketLost'  BY <3>1 DEF SocketLost
    <3>5. SocketLost \/ disturbances' = disturbances + 1
      BY <2>1, <2>3, <1>0, <1>1, DisturbedCounts DEF SocketLost, SocketShapes
    <3>6. AttemptsOwed'
      <4>1. /\ Owed(~mounted') = Owed(~mounted) /\ Owed(~mounted) \in 0..1
            /\ Owed(reconnectTimer') = 1 /\ Owed(reconnectTimer) \in 0..1
            /\ Owed(SocketLost') = 0 /\ Owed(SocketLost) \in 0..1
            /\ Owed(SocketLost) = 1 \/ disturbances' = disturbances + 1
        BY <3>1, <3>4, <3>5, <2>1 DEF Owed
      <4> QED  BY <4>1, <2>1, <2>2, <1>0, <1>1 DEF AttemptsOwed
    <3> QED  BY <3>2, <3>3, <3>6
  <2>4. CASE ~(Speaks(g) /\ socket = g)
    <3>1. UNCHANGED <<socket, connection, reconnectTimer>>  BY <1>6, <2>4 DEF Closes
    <3>2. SocketShapes'  BY <3>1, <2>1, <2>2, <1>0 DEF SocketShapes
    <3>3. socket # 0 => readyState'[socket] \in {readyState[socket], "closed"}
      BY <2>1, <1>0, <1>2
    <3>4. LiveIsNewest'  BY <3>1, <3>3, <2>1, <1>0 DEF LiveIsNewest, Alive
    <3>5. SocketLost' => SocketLost  BY <3>1, <3>3 DEF SocketLost
    <3>6. AttemptsOwed'
      <4>1. /\ Owed(~mounted') = Owed(~mounted) /\ Owed(~mounted) \in 0..1
            /\ Owed(reconnectTimer') = Owed(reconnectTimer) /\ Owed(reconnectTimer) \in 0..1
            /\ Owed(SocketLost') <= Owed(SocketLost)
            /\ Owed(SocketLost') \in 0..1 /\ Owed(SocketLost) \in 0..1
        BY <3>1, <3>5, <2>1 DEF Owed
      <4> QED  BY <4>1, <2>1, <2>2, <1>0, <1>1 DEF AttemptsOwed
    <3> QED  BY <3>2, <3>4, <3>6
  <2> QED  BY <2>3, <2>4
<1> QED  BY <1>3, <1>4, <1>5, <1>6

\* A command goes out or waits.
LEMMA PageTypedCommand ==
    ASSUME PageTyped, NEW key \in CommandKeys, SendCommand(key)
    PROVE  SocketShapes' /\ LiveIsNewest' /\ AttemptsOwed'
<1>0. SocketShapes /\ LiveIsNewest /\ AttemptsOwed  BY DEF PageTyped
<1>1. /\ mounted \in BOOLEAN /\ reconnectTimer \in BOOLEAN /\ generation \in Nat
      /\ disturbances \in Nat /\ commands \in Nat
  BY <1>0, PageAssumption DEF SocketShapes
<1>2. /\ mounted /\ commands' = commands + 1 /\ commands < MaxCommands
      /\ UNCHANGED <<mounted, firstConnect>>
  BY DEF SendCommand
<1>3. commands' \in 0..MaxCommands  BY <1>2, <1>1, PageAssumption
<1>4. CASE UNCHANGED <<opening, attempts, generation, connection, socket, readyState,
                       reconnectTimer, outboundQueue, disturbances>>
  <2>1. SocketShapes'  BY <1>4, <1>2, <1>3, <1>0 DEF SocketShapes
  <2>2. LiveIsNewest'  BY <1>4, <1>2, <1>0 DEF LiveIsNewest
  <2>3. UNCHANGED SocketLost  BY <1>4 DEF SocketLost
  <2>4. AttemptsOwed'  BY <2>3, <1>4, <1>2, <1>0, <1>1 DEF AttemptsOwed, Owed
  <2> QED  BY <2>1, <2>2, <2>4
<1>5. CASE /\ Disturbed \/ UNCHANGED disturbances
           /\ Enqueue(commands + 1, key) /\ ForceReconnect
  <2>1. /\ reconnectTimer' = FALSE /\ opening' \in BOOLEAN
        /\ generation' \in Nat /\ attempts' \subseteq 1..generation'
        /\ connection' \in {"connecting", "connected", "disconnected"}
        /\ generation' <= generation + 1 /\ ~SocketLost'
        /\ \/ socket' = 0
           \/ generation' = generation /\ UNCHANGED <<socket, readyState>>
    BY <1>5, ReconnectCounts
  <2>2. disturbances' \in 0..MaxDisturbances /\ disturbances' \in {disturbances, disturbances + 1}
    BY <1>5, <1>0, DisturbedCounts DEF SocketShapes
  <2>3. Len(outboundQueue') <= QueueLimit
    <3> DEFINE longer == Append(outboundQueue, [number |-> commands + 1, key |-> key])
    <3>1. outboundQueue \in Seq(Queued) /\ Len(outboundQueue) <= QueueLimit
      BY <1>0 DEF PageTyped, PageInv, Ordered, SocketShapes
    <3>2. [number |-> commands + 1, key |-> key] \in Queued  BY <1>1 DEF Queued
    <3>3. longer \in Seq(Queued) /\ Len(longer) = Len(outboundQueue) + 1  BY <3>1, <3>2
    <3>4. \/ outboundQueue' = outboundQueue
          \/ outboundQueue' = longer /\ ~(Len(longer) > QueueLimit)
          \/ Len(longer) > QueueLimit /\ outboundQueue' = Tail(longer)
      BY <1>5 DEF Enqueue
    <3> HIDE DEF longer
    <3>5. Len(longer) > 0 => Len(Tail(longer)) = Len(longer) - 1  BY <3>3
    <3>6. Len(outboundQueue) \in Nat /\ QueueLimit \in Nat  BY <3>1, PageAssumption
    <3> QED  BY <3>1, <3>3, <3>4, <3>5, <3>6
  <2>4. SocketShapes'  BY <2>1, <2>2, <2>3, <1>2, <1>3, <1>0 DEF SocketShapes
  <2>5. LiveIsNewest'  BY <2>1, <1>2, <1>0 DEF LiveIsNewest
  <2>6. AttemptsOwed'
    <3>1. /\ Owed(~mounted') = 0 /\ Owed(reconnectTimer') = 0 /\ Owed(SocketLost') = 0
          /\ Owed(~mounted) = 0 /\ Owed(reconnectTimer) \in 0..1 /\ Owed(SocketLost) \in 0..1
      BY <2>1, <1>2 DEF Owed
    <3> QED  BY <2>1, <2>2, <3>1, <1>2, <1>0, <1>1 DEF AttemptsOwed
  <2> QED  BY <2>4, <2>5, <2>6
<1> QED  BY <1>4, <1>5 DEF SendCommand

LEMMA PageTypedStep == PageTyped /\ [PageNext]_pageVars => PageTyped'
<1> SUFFICES ASSUME PageTyped, [PageNext]_pageVars PROVE PageTyped'  OBVIOUS
<1>1. PageInv'  BY PageStepInv DEF PageTyped
<1>2. CASE UNCHANGED pageVars
  <2>1. SocketShapes' /\ LiveIsNewest' /\ AttemptsOwed'
    BY <1>2 DEF pageVars, PageTyped, SocketShapes, LiveIsNewest, AttemptsOwed, SocketLost
  <2> QED  BY <2>1, <1>1 DEF PageTyped
<1>3. CASE PageNext
  <2>1. SocketShapes' /\ LiveIsNewest' /\ AttemptsOwed'
    BY <1>3, PageTypedLife, PageTypedCallback, PageTypedCommand DEF PageNext
  <2> QED  BY <2>1, <1>1 DEF PageTyped
<1> QED  BY <1>2, <1>3

LEMMA PageTypedTypes == PageTyped => PageTypeOK
<1> SUFFICES ASSUME PageTyped PROVE PageTypeOK  OBVIOUS
<1>0. PageInv /\ SocketShapes /\ AttemptsOwed  BY DEF PageTyped
<1>1. generation <= MaxGenerations
  <2>1. generation + Owed(~mounted) + Owed(reconnectTimer) + Owed(SocketLost)
          <= 2 * disturbances + commands + 1
    BY <1>0 DEF AttemptsOwed
  <2>2. /\ Owed(~mounted) \in 0..1 /\ Owed(reconnectTimer) \in 0..1 /\ Owed(SocketLost) \in 0..1
    BY DEF Owed
  <2>3. /\ generation \in Nat /\ disturbances \in 0..MaxDisturbances /\ commands \in 0..MaxCommands
    BY <1>0 DEF SocketShapes
  <2>4. generation <= 2 * disturbances + commands + 1  BY <2>1, <2>2, <2>3
  <2> QED  BY <2>3, <2>4, PageAssumption DEF MaxGenerations
<1>2. attempts \subseteq Generations /\ generation \in 0..MaxGenerations
  BY <1>0, <1>1, GenerationsNat DEF SocketShapes, Generations
<1>3. \A i \in DOMAIN outboundQueue :
         outboundQueue[i] \in [number : 1..MaxCommands, key : CommandKeys]
  <2> SUFFICES ASSUME NEW i \in DOMAIN outboundQueue
               PROVE  outboundQueue[i] \in [number : 1..MaxCommands, key : CommandKeys]
    OBVIOUS
  <2>1. outboundQueue \in Seq(Queued) /\ i \in 1..Len(outboundQueue)
    BY <1>0 DEF PageInv, Ordered
  <2>2. outboundQueue[i] \in Queued  BY <2>1
  <2>3. outboundQueue[i].number <= commands  BY <1>0, <2>1 DEF PageInv, Ordered
  <2>4. outboundQueue[i].number \in 1..MaxCommands
    BY <2>2, <2>3, <1>0, PageAssumption DEF Queued, SocketShapes
  <2> QED  BY <2>2, <2>4 DEF Queued
<1>4. \A i \in DOMAIN sent : sent[i] \in 1..MaxCommands
  <2> SUFFICES ASSUME NEW i \in DOMAIN sent PROVE sent[i] \in 1..MaxCommands  OBVIOUS
  <2>1. sent \in Seq(Nat \ {0}) /\ i \in 1..Len(sent)  BY <1>0 DEF PageInv, Ordered
  <2>2. sent[i] \in Nat \ {0} /\ sent[i] <= commands  BY <2>1, <1>0 DEF PageInv, Ordered
  <2> QED  BY <2>2, <1>0, PageAssumption DEF SocketShapes
<1> QED  BY <1>0, <1>2, <1>3, <1>4 DEF PageTypeOK, PageInv, SocketShapes

\* The socket, its generations and the queue of a page keep their shape, and the
\* generations stay within what mounts, commands and disturbances can ask for: each
\* of these asks for one attempt to connect (websocket.ts:46-176).
THEOREM PageTypes == PageSpec => []PageTypeOK
<1> QED  BY PageTypedInit, PageTypedStep, PageTypedTypes, PTL DEF PageSpec

-----------------------------------------------------------------------------
(* PageSync.  A snapshot under way is as far behind its session's          *)
(* transcript in versions as it is in revisions, both having been counted  *)
(* by one server; and if the page would take it for newer, it is not older *)
(* than what the page has shown, unless the page was misled.               *)
Numbers == Nat \cup {-1}
SessionOrNone == PageSessions \cup {NoSession}
Snapshots == [revision : Numbers, version : Numbers]
Syncs == [name : SessionOrNone, of : SessionOrNone, snapshot : Snapshots]
Frames ==
    [kind : {"messages_loaded", "info"}, session : PageSessions, of : SessionOrNone,
     revision : Numbers, version : Numbers]
HandlerPlaces ==
    {"idle", "connect", "handshake", "open", "opened", "moved", "loaded", "clear", "cleared"}

SyncShapes ==
    /\ transcript \in [PageSessions -> [revision : Nat, version : Nat]]
    /\ work \in [PageSessions -> {"free", "working", "listed", "read", "clearing"}]
    /\ peers \subseteq PageSessions /\ selected \in SessionOrNone
    /\ syncing \in [PageSessions -> Syncs]
    /\ handler \in [at : HandlerPlaces, target : SessionOrNone, snapshot : Snapshots]
    /\ request \in [kind : {"none", "open", "clear"}, session : SessionOrNone]
    /\ wire \in Seq(Frames)
    /\ page \in [session : SessionOrNone, sessionRevision : Numbers, snapshotRevision : Numbers,
                 awaitingSnapshot : BOOLEAN, shown : Numbers]
    /\ page.snapshotRevision <= page.sessionRevision
    /\ seen \in Numbers /\ misled \in BOOLEAN
    /\ changes \in 0..MaxChanges /\ choices \in 0..MaxChoices /\ losses \in 0..MaxLosses

\* Whatever is about to be read, listed or sent is a session.
TargetsKnown ==
    /\ handler.at # "connect" => selected \in PageSessions
    /\ handler.at # "idle" => handler.target \in PageSessions
    /\ request.kind # "none" => request.session \in PageSessions

Fair(s, snapshot) ==
    /\ snapshot.revision <= transcript[s].revision
    /\ transcript[s].version - snapshot.version = transcript[s].revision - snapshot.revision
    /\ ~misled /\ s = page.session /\ snapshot.revision > page.snapshotRevision
          => snapshot.version >= seen

\* What is sent under the name of the session it was read from.
SyncsOwn(s) ==
    work[s] = "read" /\ syncing[s].name \in PageSessions /\ syncing[s].of = syncing[s].name
Genuine(frame) == frame.kind = "messages_loaded" /\ frame.of = frame.session

SyncsFair == \A s \in PageSessions : SyncsOwn(s) => Fair(syncing[s].name, syncing[s].snapshot)
HandlerFair ==
    handler.at \in {"opened", "moved", "cleared"} => Fair(handler.target, handler.snapshot)
WireFair == \A i \in 1..Len(wire) : Genuine(wire[i]) => Fair(wire[i].session, wire[i])

\* The page shows the newest it has seen, or nothing; the server has that and more.
PageFollows ==
    /\ ~misled => page.shown \in {-1, seen}
    /\ ~misled /\ page.session \in PageSessions => seen <= transcript[page.session].version
    /\ page.session = NoSession => ~misled /\ seen = -1

SyncInv == SyncShapes /\ TargetsKnown /\ SyncsFair /\ HandlerFair /\ WireFair /\ PageFollows

LEMMA SyncInvInit == SyncInit => SyncInv
<1> SUFFICES ASSUME SyncInit PROVE SyncInv  OBVIOUS
<1>1. PICK s \in PageSessions : handler = Handling("connect", s, Nothing)  BY DEF SyncInit
<1>2. /\ transcript = [t \in PageSessions |-> [revision |-> 0, version |-> 0]]
      /\ work = [t \in PageSessions |-> "free"]
      /\ peers = {} /\ syncing = [t \in PageSessions |-> NotSyncing]
      /\ selected = NoSession /\ request = Nobody /\ wire = <<>>
      /\ page = Shows(NoSession, -1, FALSE, -1)
      /\ seen = -1 /\ misled = FALSE /\ changes = 0 /\ choices = 0 /\ losses = 0
  BY DEF SyncInit
<1>3. Nothing \in Snapshots /\ NotSyncing \in Syncs
  BY DEF Nothing, NotSyncing, Snapshots, Syncs, SessionOrNone, Numbers
<1>4. SyncShapes
  <2>1. /\ transcript \in [PageSessions -> [revision : Nat, version : Nat]]
        /\ syncing \in [PageSessions -> Syncs]
        /\ wire \in Seq(Frames)
    BY <1>2, <1>3
  <2>2. handler \in [at : HandlerPlaces, target : SessionOrNone, snapshot : Snapshots]
    BY <1>1, <1>3 DEF Handling, HandlerPlaces, SessionOrNone
  <2>3. page \in [session : SessionOrNone, sessionRevision : Numbers, snapshotRevision : Numbers,
                  awaitingSnapshot : BOOLEAN, shown : Numbers]
        /\ page.snapshotRevision <= page.sessionRevision
    BY <1>2 DEF Shows, SessionOrNone, Numbers
  <2>4. request \in [kind : {"none", "open", "clear"}, session : SessionOrNone]
    BY <1>2 DEF Nobody, SessionOrNone
  <2>5. /\ work \in [PageSessions -> {"free", "working", "listed", "read", "clearing"}]
        /\ peers \subseteq PageSessions /\ selected \in SessionOrNone /\ seen \in Numbers
        /\ changes \in 0..MaxChanges /\ choices \in 0..MaxChoices /\ losses \in 0..MaxLosses
    BY <1>2, SyncAssumption DEF SessionOrNone, Numbers
  <2>6. misled \in BOOLEAN  BY <1>2
  <2> QED  BY <2>1, <2>2, <2>3, <2>4, <2>5, <2>6 DEF SyncShapes
<1>5. TargetsKnown /\ SyncsFair /\ HandlerFair /\ WireFair /\ PageFollows
  BY <1>1, <1>2, SyncAssumption
  DEF TargetsKnown, SyncsOwn, SyncsFair, HandlerFair, WireFair, PageFollows, Handling, Nobody, Shows
<1> QED  BY <1>4, <1>5 DEF SyncInv

(* Shapes.                                                                 *)
LEMMA FrameShapes ==
    /\ \A s \in PageSessions, of \in SessionOrNone, snapshot \in Snapshots :
          Loaded(s, of, snapshot) \in Frames
    /\ \A s \in PageSessions : Info(s) \in Frames
    /\ \A entry \in [revision : Nat, version : Nat] : entry \in Snapshots
    /\ Nothing \in Snapshots /\ NotSyncing \in Syncs
BY DEF Loaded, Info, Frames, Snapshots, Numbers, Nothing, NotSyncing, Syncs, SessionOrNone

LEMMA WireShapes ==
    ASSUME wire \in Seq(Frames)
    PROVE  /\ \A frame \in Frames : Append(wire, frame) \in Seq(Frames)
           /\ wire # <<>> => Head(wire) \in Frames /\ Tail(wire) \in Seq(Frames)
           /\ <<>> \in Seq(Frames)
OBVIOUS

LEMMA HandlingShapes ==
    ASSUME NEW at \in HandlerPlaces, NEW s \in SessionOrNone, NEW snapshot \in Snapshots
    PROVE  Handling(at, s, snapshot) \in
               [at : HandlerPlaces, target : SessionOrNone, snapshot : Snapshots]
BY DEF Handling

\* The runs and the syncs of the server, which leave the page alone.
LEMMA RunsShapes ==
    ASSUME SyncInv, NEW s \in PageSessions,
           Change(s) \/ EndsUnsynced(s) \/ SyncLists(s) \/ SyncReads(s) \/ SyncSends(s)
    PROVE  SyncShapes'
<1>0. SyncShapes  BY DEF SyncInv
<1>1. transcript \in [PageSessions -> [revision : Nat, version : Nat]]
      /\ syncing \in [PageSessions -> Syncs]
      /\ work \in [PageSessions -> {"free", "working", "listed", "read", "clearing"}]
      /\ wire \in Seq(Frames) /\ changes \in 0..MaxChanges
  BY <1>0 DEF SyncShapes
<1> USE DEF PageIdle
<1>2. CASE Change(s)
  <2>1. transcript' \in [PageSessions -> [revision : Nat, version : Nat]]
    BY <1>1, <1>2 DEF Change
  <2>2. changes' \in 0..MaxChanges  BY <1>1, <1>2, SyncAssumption DEF Change
  <2>3. work' \in [PageSessions -> {"free", "working", "listed", "read", "clearing"}]
    BY <1>1, <1>2 DEF Change
  <2> QED  BY <1>0, <1>2, <2>1, <2>2, <2>3 DEF Change, SyncShapes
<1>3. CASE EndsUnsynced(s)
  <2>1. work' \in [PageSessions -> {"free", "working", "listed", "read", "clearing"}]
    BY <1>1, <1>3 DEF EndsUnsynced
  <2> QED  BY <1>0, <1>3, <2>1 DEF EndsUnsynced, SyncShapes
<1>4. CASE SyncLists(s)
  <2>1. work' \in [PageSessions -> {"free", "working", "listed", "read", "clearing"}]
    BY <1>1, <1>4 DEF SyncLists
  <2>2. PICK name \in peers : syncing' = [syncing EXCEPT ![s].name = name]
    BY <1>4 DEF SyncLists
  <2>3. name \in SessionOrNone  BY <1>0, <2>2 DEF SyncShapes, SessionOrNone
  <2>4. syncing' \in [PageSessions -> Syncs]  BY <1>1, <2>2, <2>3 DEF Syncs
  <2> QED  BY <1>0, <1>4, <2>1, <2>4 DEF SyncLists, SyncShapes
<1>5. CASE SyncReads(s)
  <2>1. work' \in [PageSessions -> {"free", "working", "listed", "read", "clearing"}]
    BY <1>1, <1>5 DEF SyncReads
  <2>2. PICK u \in PageSessions :
          syncing' = [syncing EXCEPT ![s].of = u, ![s].snapshot = transcript[u]]
    BY <1>5 DEF SyncReads
  <2>3. transcript[u] \in Snapshots /\ u \in SessionOrNone
    BY <1>1, FrameShapes DEF SessionOrNone
  <2>4. syncing' \in [PageSessions -> Syncs]  BY <1>1, <2>2, <2>3 DEF Syncs
  <2> QED  BY <1>0, <1>5, <2>1, <2>4 DEF SyncReads, SyncShapes
<1>6. CASE SyncSends(s)
  <2>1. work' \in [PageSessions -> {"free", "working", "listed", "read", "clearing"}]
    BY <1>1, <1>6 DEF SyncSends
  <2>2. syncing' \in [PageSessions -> Syncs]
    BY <1>1, <1>6, FrameShapes DEF SyncSends
  <2>3. syncing[s].name # NoSession =>
            Loaded(syncing[s].name, syncing[s].of, syncing[s].snapshot) \in Frames
    BY <1>1, FrameShapes DEF Syncs, SessionOrNone
  <2>4. wire' \in Seq(Frames)  BY <1>1, <1>6, <2>3, WireShapes DEF SyncSends, Sends
  <2> QED  BY <1>0, <1>6, <2>1, <2>2, <2>4 DEF SyncSends, SyncShapes
<1> QED  BY <1>2, <1>3, <1>4, <1>5, <1>6

HandlerStep ==
    \/ Registers \/ Takes \/ Clears \/ SendsCleared
    \/ Reads \/ NotOpened \/ Moves \/ SendsLoaded \/ SendsInfo

LEMMA HandlerShapes ==
    ASSUME SyncInv, HandlerStep
    PROVE  SyncShapes' /\ TargetsKnown'
<1>0. SyncShapes /\ TargetsKnown  BY DEF SyncInv
<1>1. /\ transcript \in [PageSessions -> [revision : Nat, version : Nat]]
      /\ handler \in [at : HandlerPlaces, target : SessionOrNone, snapshot : Snapshots]
      /\ work \in [PageSessions -> {"free", "working", "listed", "read", "clearing"}]
      /\ wire \in Seq(Frames) /\ peers \subseteq PageSessions
      /\ request \in [kind : {"none", "open", "clear"}, session : SessionOrNone]
      /\ handler.target \in SessionOrNone /\ handler.snapshot \in Snapshots
  BY <1>0 DEF SyncShapes
<1>2. /\ handler.at # "connect" => selected \in PageSessions
      /\ handler.at # "idle" => handler.target \in PageSessions
      /\ request.kind # "none" => request.session \in PageSessions
  BY <1>0 DEF TargetsKnown
<1>3. NoSession \in SessionOrNone /\ PageSessions \subseteq SessionOrNone  BY DEF SessionOrNone
<1>4. Idling \in [at : HandlerPlaces, target : SessionOrNone, snapshot : Snapshots]
      /\ Idling.at = "idle"
  BY <1>3, FrameShapes DEF Idling, Handling, HandlerPlaces
<1>5. \A s \in PageSessions, at \in HandlerPlaces, snapshot \in Snapshots :
          /\ Handling(at, s, snapshot) \in
                [at : HandlerPlaces, target : SessionOrNone, snapshot : Snapshots]
          /\ Handling(at, s, snapshot).at = at /\ Handling(at, s, snapshot).target = s
  BY <1>3, HandlingShapes DEF Handling
<1>6. \A at \in HandlerPlaces :
          /\ [handler EXCEPT !.at = at] \in
                [at : HandlerPlaces, target : SessionOrNone, snapshot : Snapshots]
          /\ [handler EXCEPT !.at = at].at = at
          /\ [handler EXCEPT !.at = at].target = handler.target
  BY <1>1
<1> USE DEF PageIdle
<1>7. CASE Registers
  <2>1. "handshake" \in HandlerPlaces  BY DEF HandlerPlaces
  <2>2. handler.target \in PageSessions  BY <1>2, <1>7 DEF Registers
  <2> QED  BY <1>0, <1>1, <1>2, <1>3, <1>6, <1>7, <2>1, <2>2 DEF Registers, SyncShapes, TargetsKnown
<1>8. CASE Takes
  <2>1. request.session \in PageSessions /\ selected \in PageSessions  BY <1>2, <1>8 DEF Takes
  <2>2. PICK at \in {"clear", "open"}, u \in PageSessions : handler' = Handling(at, u, Nothing)
    BY <1>8, <2>1 DEF Takes
  <2>3. at \in HandlerPlaces  BY <2>2 DEF HandlerPlaces
  <2>4. handler' \in [at : HandlerPlaces, target : SessionOrNone, snapshot : Snapshots]
        /\ handler'.target \in PageSessions
    BY <1>5, <2>1, <2>2, <2>3, FrameShapes
  <2>5. request' \in [kind : {"none", "open", "clear"}, session : SessionOrNone]
        /\ request'.kind = "none"
    BY <1>3, <1>8 DEF Takes, Nobody
  <2>6. UNCHANGED <<transcript, work, peers, syncing, selected, wire, page, seen, misled,
                    changes, choices, losses>>
    BY <1>8 DEF Takes
  <2> QED  BY <1>0, <2>1, <2>4, <2>5, <2>6 DEF SyncShapes, TargetsKnown
<1>9. CASE Clears
  <2> DEFINE s == handler.target
  <2>1. s \in PageSessions /\ selected \in PageSessions  BY <1>2, <1>9 DEF Clears
  <2>2. UNCHANGED <<peers, syncing, selected, wire, changes, page, seen, misled, request, choices,
                    losses>>
    BY <1>9 DEF Clears
  <2>3. CASE /\ transcript' = [transcript EXCEPT ![s] = [revision |-> @.revision + 1,
                                                        version |-> @.version + 1]]
             /\ work' = [work EXCEPT ![s] = "clearing"]
             /\ handler' = Handling("cleared", s, transcript'[s])
    <3>1. transcript' \in [PageSessions -> [revision : Nat, version : Nat]]
      BY <1>1, <2>1, <2>3
    <3>2. transcript'[s] \in Snapshots  BY <2>1, <3>1, FrameShapes
    <3>3. handler' \in [at : HandlerPlaces, target : SessionOrNone, snapshot : Snapshots]
          /\ handler'.target \in PageSessions
      BY <1>5, <2>1, <2>3, <3>2 DEF HandlerPlaces
    <3>4. work' \in [PageSessions -> {"free", "working", "listed", "read", "clearing"}]
      BY <1>1, <2>3
    <3> QED  BY <1>0, <1>2, <2>1, <2>2, <3>1, <3>3, <3>4 DEF SyncShapes, TargetsKnown
  <2>4. CASE UNCHANGED <<transcript, work>> /\ handler' = Idling
    BY <1>0, <1>2, <1>4, <2>1, <2>2, <2>4 DEF SyncShapes, TargetsKnown
  <2> QED  BY <1>9, <2>3, <2>4 DEF Clears
<1>10. CASE SendsCleared
  <2>1. handler.target \in PageSessions /\ selected \in PageSessions
    BY <1>2, <1>10 DEF SendsCleared
  <2>2. Loaded(handler.target, handler.target, handler.snapshot) \in Frames
    BY <1>1, <2>1, FrameShapes
  <2>3. wire' \in Seq(Frames)  BY <1>1, <1>10, <2>2, WireShapes DEF SendsCleared, Sends
  <2>4. work' \in [PageSessions -> {"free", "working", "listed", "read", "clearing"}]
    BY <1>1, <1>10 DEF SendsCleared
  <2>5. handler' = Idling /\ UNCHANGED <<transcript, peers, syncing, selected, changes, page, seen,
                                         misled, request, choices, losses>>
    BY <1>10 DEF SendsCleared
  <2> QED  BY <1>0, <1>4, <2>1, <2>3, <2>4, <2>5 DEF SyncShapes, TargetsKnown
<1>11. CASE Reads
  <2>1. selected \in PageSessions  BY <1>2, <1>11 DEF Reads
  <2>3. PICK s \in PageSessions : handler' = Handling("opened", s, transcript[s])
    BY <1>11 DEF Reads
  <2>2. transcript[s] \in Snapshots
        /\ UNCHANGED <<transcript, work, peers, syncing, selected, wire, changes, page, seen,
                       misled, request, choices, losses>>
    BY <1>1, <1>11, FrameShapes DEF Reads
  <2>4. handler' \in [at : HandlerPlaces, target : SessionOrNone, snapshot : Snapshots]
        /\ handler'.target \in PageSessions
    BY <1>5, <2>1, <2>2, <2>3 DEF HandlerPlaces
  <2> QED  BY <1>0, <2>1, <2>2, <2>4 DEF SyncShapes, TargetsKnown
<1>12. CASE NotOpened
  <2>1. selected \in PageSessions  BY <1>2, <1>12 DEF NotOpened
  <2> QED  BY <1>0, <1>4, <1>12, <2>1 DEF NotOpened, SyncShapes, TargetsKnown
<1>13. CASE Moves
  <2>1. handler.target \in PageSessions /\ "moved" \in HandlerPlaces
    BY <1>2, <1>13 DEF Moves, HandlerPlaces
  <2>2. /\ peers' \subseteq PageSessions /\ selected' = handler.target
        /\ handler' = [handler EXCEPT !.at = "moved"]
        /\ UNCHANGED <<transcript, work, syncing, wire, changes, page, seen, misled, request,
                       choices, losses>>
    BY <1>1, <1>13, <2>1 DEF Moves
  <2>3. handler' \in [at : HandlerPlaces, target : SessionOrNone, snapshot : Snapshots]
        /\ handler'.target \in PageSessions
    BY <1>6, <2>1, <2>2
  <2> QED  BY <1>0, <1>3, <2>1, <2>2, <2>3 DEF SyncShapes, TargetsKnown
<1>14. CASE SendsLoaded
  <2>1. handler.target \in PageSessions /\ selected \in PageSessions /\ "loaded" \in HandlerPlaces
    BY <1>2, <1>14 DEF SendsLoaded, HandlerPlaces
  <2>2. Loaded(handler.target, handler.target, handler.snapshot) \in Frames
    BY <1>1, <2>1, FrameShapes
  <2>3. wire' \in Seq(Frames)  BY <1>1, <1>14, <2>2, WireShapes DEF SendsLoaded, Sends
  <2>4. handler' \in [at : HandlerPlaces, target : SessionOrNone, snapshot : Snapshots]
        /\ handler'.target \in PageSessions
    BY <1>6, <1>14, <2>1 DEF SendsLoaded
  <2>5. UNCHANGED <<transcript, work, peers, syncing, selected, changes, page, seen, misled,
                    request, choices, losses>>
    BY <1>14 DEF SendsLoaded
  <2> QED  BY <1>0, <2>1, <2>3, <2>4, <2>5 DEF SyncShapes, TargetsKnown
<1>15. CASE SendsInfo
  <2>1. handler.target \in PageSessions /\ selected \in PageSessions
    BY <1>2, <1>15 DEF SendsInfo
  <2>2. wire' \in Seq(Frames)  BY <1>1, <1>15, <2>1, FrameShapes, WireShapes DEF SendsInfo, Sends
  <2>3. handler' = Idling /\ UNCHANGED <<transcript, work, peers, syncing, selected, changes, page,
                                         seen, misled, request, choices, losses>>
    BY <1>15 DEF SendsInfo
  <2> QED  BY <1>0, <1>4, <2>1, <2>2, <2>3 DEF SyncShapes, TargetsKnown
<1> QED
  BY <1>7, <1>8, <1>9, <1>10, <1>11, <1>12, <1>13, <1>14, <1>15 DEF HandlerStep

PageStepOf ==
    ClearsPage \/ Receives \/ \E s \in PageSessions : Chooses(s)

LEMMA LostShapes ==
    ASSUME SyncInv, NEW s \in PageSessions, NEW isRestart \in BOOLEAN, Lost(s, isRestart)
    PROVE  SyncShapes' /\ TargetsKnown'
<1>0. SyncShapes /\ TargetsKnown  BY DEF SyncInv
<1>1. /\ transcript \in [PageSessions -> [revision : Nat, version : Nat]]
      /\ syncing \in [PageSessions -> Syncs]
      /\ work \in [PageSessions -> {"free", "working", "listed", "read", "clearing"}]
      /\ peers \subseteq PageSessions /\ losses \in 0..MaxLosses
  BY <1>0 DEF SyncShapes
<1>2. /\ losses' = losses + 1 /\ losses < MaxLosses
      /\ selected' = NoSession /\ request' = Nobody /\ wire' = <<>>
      /\ handler' = Handling("connect", s, Nothing)
      /\ UNCHANGED <<page, seen, misled, changes, choices>>
  BY DEF Lost
<1>3. losses' \in 0..MaxLosses  BY <1>1, <1>2, SyncAssumption
<1>4. /\ handler' \in [at : HandlerPlaces, target : SessionOrNone, snapshot : Snapshots]
      /\ handler'.at = "connect" /\ handler'.target = s
  BY <1>2, FrameShapes DEF Handling, HandlerPlaces, SessionOrNone
<1>5. /\ request' \in [kind : {"none", "open", "clear"}, session : SessionOrNone]
      /\ request'.kind = "none" /\ selected' \in SessionOrNone
  BY <1>2 DEF Nobody, SessionOrNone
<1>6. /\ transcript' \in [PageSessions -> [revision : Nat, version : Nat]]
      /\ syncing' \in [PageSessions -> Syncs]
      /\ work' \in [PageSessions -> {"free", "working", "listed", "read", "clearing"}]
      /\ peers' \subseteq PageSessions
  <2>1. CASE isRestart
    <3>1. PICK t \in PageSessions :
             transcript' = [transcript EXCEPT ![t].revision = IF @ > 0 THEN @ - 1 ELSE @]
      BY <2>1 DEF Lost
    <3>2. /\ work' = [u \in PageSessions |-> "free"]
          /\ syncing' = [u \in PageSessions |-> NotSyncing] /\ peers' = {}
      BY <2>1 DEF Lost
    <3>3. NotSyncing \in Syncs  BY FrameShapes
    <3>4. transcript' \in [PageSessions -> [revision : Nat, version : Nat]]
      <4>1. (IF transcript[t].revision > 0 THEN transcript[t].revision - 1
             ELSE transcript[t].revision) \in Nat
        BY <1>1
      <4>2. \A r \in Nat : [transcript EXCEPT ![t].revision = r] \in
                             [PageSessions -> [revision : Nat, version : Nat]]
        BY <1>1
      <4> QED  BY <3>1, <4>1, <4>2
    <3> QED  BY <3>2, <3>3, <3>4
  <2>2. CASE ~isRestart
    <3>1. /\ syncing' = [t \in PageSessions |-> [syncing[t] EXCEPT !.name = NoSession]]
          /\ peers' = peers \ {selected} /\ UNCHANGED <<work, transcript>>
      BY <2>2 DEF Lost
    <3>2. \A t \in PageSessions : [syncing[t] EXCEPT !.name = NoSession] \in Syncs
      BY <1>1 DEF Syncs, SessionOrNone
    <3> QED  BY <1>1, <3>1, <3>2
  <2> QED  BY <2>1, <2>2
<1> QED  BY <1>0, <1>2, <1>3, <1>4, <1>5, <1>6, SMTT(30) DEF SyncShapes, TargetsKnown

LEMMA PageShapes ==
    ASSUME SyncInv, PageStepOf
    PROVE  SyncShapes' /\ TargetsKnown'
<1>0. SyncShapes /\ TargetsKnown  BY DEF SyncInv
<1> DEFINE PageShape ==
        [session : SessionOrNone, sessionRevision : Numbers, snapshotRevision : Numbers,
         awaitingSnapshot : BOOLEAN, shown : Numbers]
<1> DEFINE Sound(p) == p \in PageShape /\ p.snapshotRevision <= p.sessionRevision
<1>1. /\ Sound(page)
      /\ page.session \in SessionOrNone
      /\ seen \in Numbers /\ misled \in BOOLEAN /\ choices \in 0..MaxChoices /\ wire \in Seq(Frames)
      /\ -1 \in Numbers
  BY <1>0 DEF SyncShapes, Numbers
<1>2. \A s \in PageSessions, n \in Numbers, shown \in Numbers, waits \in BOOLEAN :
          Sound(Shows(s, n, waits, shown))
  BY DEF Shows, SessionOrNone, Numbers
<1>3. Sound([page EXCEPT !.awaitingSnapshot = TRUE, !.shown = -1])
  BY <1>1
<1>a. \A s \in PageSessions : Sound([page EXCEPT !.session = s])
  BY <1>1 DEF SessionOrNone
<1>b. ASSUME Sound(page')
      PROVE  /\ page' \in [session : SessionOrNone, sessionRevision : Numbers,
                           snapshotRevision : Numbers, awaitingSnapshot : BOOLEAN, shown : Numbers]
             /\ page'.snapshotRevision <= page'.sessionRevision
  BY <1>b
<1> HIDE DEF Sound, PageShape
<1>4. CASE ClearsPage
  <2>1. /\ request' = [kind |-> "clear", session |-> page.session]
        /\ page.session \in PageSessions
    BY <1>1, <1>4 DEF ClearsPage, SessionOrNone
  <2>2. choices' \in 0..MaxChoices  BY <1>1, <1>4, SyncAssumption DEF ClearsPage
  <2>3. request' \in [kind : {"none", "open", "clear"}, session : SessionOrNone]
        /\ request'.session \in PageSessions
    BY <2>1 DEF SessionOrNone
  <2>4. /\ page' = [page EXCEPT !.awaitingSnapshot = TRUE, !.shown = -1]
        /\ UNCHANGED <<seen, misled, wire, changes>> /\ ServerIdle
    BY <1>4 DEF ClearsPage
  <2>5. Sound(page')  BY <1>3, <2>4
  <2> QED  BY <1>0, <1>b, <2>2, <2>3, <2>4, <2>5 DEF ServerIdle, SyncShapes, TargetsKnown
<1>5. ASSUME NEW s \in PageSessions, Chooses(s)
      PROVE  SyncShapes' /\ TargetsKnown'
  <2>1. request' \in [kind : {"none", "open", "clear"}, session : SessionOrNone]
        /\ request'.session \in PageSessions
    BY <1>5 DEF Chooses, SessionOrNone
  <2>2. choices' \in 0..MaxChoices  BY <1>1, <1>5, SyncAssumption DEF Chooses
  <2>3. \/ page' = [page EXCEPT !.awaitingSnapshot = TRUE, !.shown = -1]
        \/ page' = Shows(s, -1, TRUE, -1)
    BY <1>5 DEF Chooses
  <2>4. Sound(page')  BY <1>1, <1>2, <1>3, <2>3
  <2>5. seen' \in Numbers /\ misled' \in BOOLEAN  BY <1>1, <1>5 DEF Chooses
  <2>6. UNCHANGED <<wire, changes>> /\ ServerIdle  BY <1>5 DEF Chooses
  <2> QED  BY <1>0, <1>b, <2>1, <2>2, <2>4, <2>5, <2>6 DEF ServerIdle, SyncShapes, TargetsKnown
<1>6. CASE Receives
  <2> DEFINE frame == Head(wire)
  <2>1. frame \in Frames /\ Tail(wire) \in Seq(Frames)
    BY <1>1, <1>6, WireShapes DEF Receives
  <2>2. /\ wire' = Tail(wire) /\ UNCHANGED <<request, changes, choices>> /\ ServerIdle
        /\ SetInfo(frame) \/ AcceptSnapshot(frame)
    BY <1>6 DEF Receives
  <2> HIDE DEF frame
  <2>3. frame.session \in PageSessions /\ frame.revision \in Numbers /\ frame.version \in Numbers
    BY <2>1 DEF Frames
  <2>4. \/ page' = page
        \/ page' = [page EXCEPT !.session = frame.session]
        \/ page' = Shows(frame.session, -1, TRUE, -1)
        \/ page' = Shows(frame.session, frame.revision, FALSE, frame.version)
    BY <2>2 DEF SetInfo, AcceptSnapshot
  <2>6. Sound(page')  BY <1>1, <1>2, <1>a, <2>3, <2>4
  <2>7. seen' \in Numbers /\ misled' \in BOOLEAN
    BY <1>1, <2>2, <2>3 DEF SetInfo, AcceptSnapshot
  <2> QED  BY <1>0, <1>b, <2>1, <2>2, <2>6, <2>7 DEF ServerIdle, SyncShapes, TargetsKnown
<1> QED  BY <1>4, <1>5, <1>6 DEF PageStepOf

-----------------------------------------------------------------------------
(* Snapshots.                                                              *)
Carried == Snapshots \cup Frames
Keeping == \A s \in PageSessions, snapshot \in Carried : Fair(s, snapshot) => Fair(s, snapshot)'

LEMMA CarriedNumbers ==
    ASSUME NEW snapshot \in Carried
    PROVE  snapshot.revision \in Int /\ snapshot.version \in Int /\ snapshot.version >= -1
<1>1. \A n \in Numbers : n \in Int /\ n >= -1  BY DEF Numbers
<1>2. snapshot.revision \in Numbers /\ snapshot.version \in Numbers
  BY DEF Carried, Snapshots, Frames
<1> QED  BY <1>1, <1>2

LEMMA KeepingStill == ASSUME UNCHANGED <<transcript, page, seen, misled>> PROVE Keeping
BY DEF Keeping, Fair

\* A change moves the revision and the version of a transcript on together.
LEMMA KeepingChange ==
    ASSUME SyncInv, NEW s \in PageSessions, UNCHANGED <<page, seen, misled>>,
           transcript' = [transcript EXCEPT ![s] = [revision |-> @.revision + 1,
                                                    version |-> @.version + 1]]
    PROVE  Keeping /\ PageFollows'
<1>1. transcript \in [PageSessions -> [revision : Nat, version : Nat]] /\ PageFollows
      /\ seen \in Int
  BY DEF SyncInv, SyncShapes, Numbers
<1>2. \A t \in PageSessions :
         /\ transcript[t].revision \in Nat /\ transcript[t].version \in Nat
         /\ \/ transcript'[t] = transcript[t]
            \/ /\ transcript'[t].revision = transcript[t].revision + 1
               /\ transcript'[t].version = transcript[t].version + 1
  BY <1>1
<1>3. Keeping
  <2> SUFFICES ASSUME NEW t \in PageSessions, NEW snapshot \in Carried, Fair(t, snapshot)
               PROVE  Fair(t, snapshot)'
    BY DEF Keeping
  <2>1. snapshot.revision \in Int /\ snapshot.version \in Int  BY CarriedNumbers
  <2> QED  BY <1>2, <2>1 DEF Fair
<1>4. PageFollows'  BY <1>1, <1>2 DEF PageFollows
<1> QED  BY <1>3, <1>4

\* A transcript read now is no older than what the page shows.
LEMMA TranscriptFair ==
    ASSUME SyncInv, NEW s \in PageSessions
    PROVE  Fair(s, transcript[s]) /\ transcript[s] \in Snapshots
<1>1. transcript[s] \in [revision : Nat, version : Nat] /\ PageFollows
  BY DEF SyncInv, SyncShapes
<1>2. transcript[s].revision \in Nat /\ transcript[s].version \in Nat /\ transcript[s] \in Snapshots
  BY <1>1, FrameShapes
<1> QED  BY <1>1, <1>2 DEF Fair, PageFollows

LEMMA SyncsKept ==
    ASSUME SyncInv, Keeping,
           \A s \in PageSessions : SyncsOwn(s)' =>
               /\ SyncsOwn(s)
               /\ syncing'[s].name = syncing[s].name /\ syncing'[s].snapshot = syncing[s].snapshot
    PROVE  SyncsFair'
<1>1. \A s \in PageSessions : syncing[s].snapshot \in Carried
  BY DEF SyncInv, SyncShapes, Carried, Syncs
<1> SUFFICES ASSUME NEW s \in PageSessions, SyncsOwn(s)'
             PROVE  Fair(syncing[s].name, syncing[s].snapshot)'
  BY DEF SyncsFair
<1>2. Fair(syncing[s].name, syncing[s].snapshot) /\ syncing[s].name \in PageSessions
  BY DEF SyncInv, SyncsFair, SyncsOwn
<1>3. PICK snapshot \in Carried, t \in PageSessions :
          snapshot = syncing[s].snapshot /\ t = syncing[s].name
  BY <1>1, <1>2
<1>4. Fair(t, snapshot)'  BY <1>2, <1>3 DEF Keeping
<1>5. snapshot = syncing'[s].snapshot /\ t = syncing'[s].name  BY <1>3
<1> QED  BY <1>4, <1>5 DEF Fair

LEMMA HandlerKept ==
    ASSUME SyncInv, Keeping,
           handler'.at \in {"opened", "moved", "cleared"} =>
               /\ handler.at \in {"opened", "moved", "cleared"}
               /\ handler'.target = handler.target /\ handler'.snapshot = handler.snapshot
    PROVE  HandlerFair'
<1> SUFFICES ASSUME handler'.at \in {"opened", "moved", "cleared"}
             PROVE  Fair(handler.target, handler.snapshot)'
  BY DEF HandlerFair
<1>1. handler.snapshot \in Carried /\ handler.target \in PageSessions
  BY DEF SyncInv, SyncShapes, TargetsKnown, Carried
<1>2. Fair(handler.target, handler.snapshot)  BY DEF SyncInv, HandlerFair
<1>3. PICK snapshot \in Carried, s \in PageSessions :
          snapshot = handler.snapshot /\ s = handler.target
  BY <1>1
<1>4. Fair(s, snapshot)'  BY <1>2, <1>3 DEF Keeping
<1>5. snapshot = handler'.snapshot /\ s = handler'.target  BY <1>3
<1> QED  BY <1>4, <1>5 DEF Fair

LEMMA WireKept ==
    ASSUME SyncInv, Keeping,
           \/ wire' = wire
           \/ wire' = <<>>
           \/ wire # <<>> /\ wire' = Tail(wire)
           \/ \E frame \in Frames :
                 /\ wire' = Append(wire, frame)
                 /\ Genuine(frame) => Fair(frame.session, frame)
    PROVE  WireFair'
<1>1. wire \in Seq(Frames) /\ WireFair  BY DEF SyncInv, SyncShapes
<1>2. ASSUME NEW frame \in Frames, Genuine(frame) => Fair(frame.session, frame)
      PROVE  Genuine(frame) => Fair(frame.session, frame)'
  <2>1. frame.session \in PageSessions /\ frame \in Carried  BY DEF Frames, Carried
  <2> QED  BY <1>2, <2>1 DEF Keeping
<1>3. \A i \in 1..Len(wire) :
         /\ wire[i] \in Frames
         /\ Genuine(wire[i]) => Fair(wire[i].session, wire[i])
  BY <1>1 DEF WireFair
<1>4. ASSUME NEW i \in 1..Len(wire')
      PROVE  \E frame \in Frames :
                 /\ frame = wire'[i]
                 /\ Genuine(frame) => Fair(frame.session, frame)
  <2>1. CASE wire' = wire  BY <1>3, <2>1
  <2>2. CASE wire' = <<>>  BY <2>2
  <2>3. CASE wire # <<>> /\ wire' = Tail(wire)
    <3>1. wire'[i] = wire[i + 1] /\ i + 1 \in 1..Len(wire)  BY <1>1, <2>3
    <3> QED  BY <1>3, <3>1
  <2>4. ASSUME NEW frame \in Frames, wire' = Append(wire, frame),
               Genuine(frame) => Fair(frame.session, frame)
        PROVE  \E f \in Frames :
                 /\ f = wire'[i]
                 /\ Genuine(f) => Fair(f.session, f)
    <3>1. \/ i \in 1..Len(wire) /\ wire'[i] = wire[i]
          \/ wire'[i] = frame
      BY <1>1, <2>4
    <3> QED  BY <1>3, <2>4, <3>1
  <2> QED  BY <2>1, <2>2, <2>3, <2>4
<1> SUFFICES ASSUME NEW i \in 1..Len(wire'), Genuine(wire'[i])
             PROVE  Fair(wire[i].session, wire[i])'
  BY DEF WireFair
<1>5. PICK frame \in Frames :
          frame = wire'[i] /\ (Genuine(frame) => Fair(frame.session, frame))
  BY <1>4
<1>6. Fair(frame.session, frame)'  BY <1>2, <1>5
<1> QED  BY <1>5, <1>6 DEF Fair

\* The page takes a frame that is newer, or of another session: whatever is still
\* under way is compared with that frame from now on.
LEMMA AcceptKeeps ==
    ASSUME SyncInv, NEW frame \in Frames, Genuine(frame), Fair(frame.session, frame),
           UNCHANGED transcript, AcceptSnapshot(frame)
    PROVE  Keeping /\ PageFollows'
<1>1. /\ SyncShapes /\ PageFollows /\ seen \in Int
      /\ frame.session \in PageSessions /\ frame.revision \in Int /\ frame.version \in Int
      /\ page.snapshotRevision \in Int
      /\ frame.version <= transcript[frame.session].version
  <2>1. /\ SyncShapes /\ PageFollows /\ seen \in Int
        /\ frame.session \in PageSessions /\ frame.revision \in Int /\ frame.version \in Int
        /\ page.snapshotRevision \in Int
    BY DEF SyncInv, SyncShapes, Frames, Numbers
  <2>2. transcript[frame.session].revision \in Int /\ transcript[frame.session].version \in Int
    BY <2>1 DEF SyncShapes
  <2> QED  BY <2>1, <2>2 DEF Fair
<1>2. CASE frame.session # page.session \/ IsNewer(frame)
  <2>1. page' = Shows(frame.session, frame.revision, FALSE, frame.version)
        /\ misled' = (misled /\ frame.session = page.session)
    BY <1>2 DEF AcceptSnapshot, Genuine
  <2>2. ~misled' => seen' = frame.version
    <3>1. CASE frame.session # page.session  BY <3>1 DEF AcceptSnapshot
    <3>2. CASE frame.session = page.session /\ ~misled
      <4>1. frame.version >= seen  BY <1>2, <3>2 DEF IsNewer, Fair
      <4> QED  BY <1>1, <1>2, <3>2, <4>1 DEF AcceptSnapshot
    <3> QED  BY <2>1, <3>1, <3>2
  <2>3. /\ page'.session = frame.session /\ page'.snapshotRevision = frame.revision
        /\ page'.shown = frame.version
    BY <2>1 DEF Shows
  <2>4. Keeping
    <3> SUFFICES ASSUME NEW s \in PageSessions, NEW snapshot \in Carried, Fair(s, snapshot)
                 PROVE  Fair(s, snapshot)'
      BY DEF Keeping
    <3>1. snapshot.revision \in Int /\ snapshot.version \in Int  BY CarriedNumbers
    <3>2. transcript[s].revision \in Int /\ transcript[s].version \in Int
      BY <1>1 DEF SyncShapes
    <3>3. s = frame.session /\ snapshot.revision > frame.revision
              => snapshot.version >= frame.version
      BY <1>1, <3>1, <3>2 DEF Fair
    <3> QED  BY <2>2, <2>3, <3>3 DEF Fair
  <2>5. PageFollows'
    BY <1>1, <2>2, <2>3, SyncAssumption DEF PageFollows
  <2> QED  BY <2>4, <2>5
<1>3. CASE ~(frame.session # page.session \/ IsNewer(frame))
  <2>1. UNCHANGED <<page, seen, misled>>  BY <1>3 DEF AcceptSnapshot
  <2> QED  BY <1>1, <2>1, KeepingStill DEF PageFollows
<1> QED  BY <1>2, <1>3

\* The page takes what is not its session's: nothing is compared from now on.
LEMMA MisleadKeeps ==
    ASSUME SyncInv, NEW frame \in Frames, frame.of # frame.session, UNCHANGED transcript,
           AcceptSnapshot(frame)
    PROVE  Keeping /\ PageFollows'
<1>1. CASE frame.session # page.session \/ IsNewer(frame)
  <2>1. /\ page' = Shows(frame.session, frame.revision, FALSE, frame.version)
        /\ misled' = (frame.of # frame.session \/ (misled /\ frame.session = page.session))
    BY <1>1 DEF AcceptSnapshot
  <2>2. misled' = TRUE  BY <2>1, Zenon
  <2>3. page'.session = frame.session  BY <2>1 DEF Shows
  <2>4. frame.session # NoSession  BY SyncAssumption DEF Frames
  <2>5. Keeping
    <3> SUFFICES ASSUME NEW s \in PageSessions, NEW snapshot \in Carried, Fair(s, snapshot)
                 PROVE  Fair(s, snapshot)'
      BY DEF Keeping
    <3> QED  BY <2>2 DEF Fair
  <2> QED  BY <2>2, <2>3, <2>4, <2>5 DEF PageFollows
<1>2. CASE ~(frame.session # page.session \/ IsNewer(frame))
  <2>1. UNCHANGED <<page, seen, misled>> /\ PageFollows
    BY <1>2 DEF AcceptSnapshot, SyncInv
  <2> QED  BY <2>1, KeepingStill DEF PageFollows
<1> QED  BY <1>1, <1>2

\* The page forgets what it has shown.
LEMMA ForgetKeeps ==
    ASSUME SyncInv, NEW s \in PageSessions, UNCHANGED transcript, seen' = -1, ~misled',
           page'.session = s, page'.shown = -1
    PROVE  Keeping /\ PageFollows'
<1>1. Keeping
  <2> SUFFICES ASSUME NEW t \in PageSessions, NEW snapshot \in Carried, Fair(t, snapshot)
               PROVE  Fair(t, snapshot)'
    BY DEF Keeping
  <2>1. snapshot.version >= -1  BY CarriedNumbers
  <2> QED  BY <2>1 DEF Fair
<1>2. PageFollows'
  <2>1. transcript[s].version \in Nat  BY DEF SyncInv, SyncShapes
  <2> QED  BY <2>1, SyncAssumption DEF PageFollows
<1> QED  BY <1>1, <1>2

\* The page waits for the transcript it has chosen again.
LEMMA AwaitKeeps ==
    ASSUME SyncInv, UNCHANGED <<transcript, seen, misled>>,
           page' = [page EXCEPT !.awaitingSnapshot = TRUE, !.shown = -1]
    PROVE  Keeping /\ PageFollows'
<1>1. /\ page'.session = page.session /\ page'.snapshotRevision = page.snapshotRevision
      /\ page'.shown = -1
  BY DEF SyncInv, SyncShapes
<1> QED  BY <1>1 DEF Keeping, Fair, SyncInv, PageFollows

LEMMA PageOrder ==
    ASSUME SyncInv, PageStepOf
    PROVE  Keeping /\ PageFollows'
<1>0. SyncShapes  BY DEF SyncInv
<1>1. CASE ClearsPage  BY <1>1, AwaitKeeps DEF ClearsPage, ServerIdle
<1>2. ASSUME NEW s \in PageSessions, Chooses(s)
      PROVE  Keeping /\ PageFollows'
  <2>1. CASE s = page.session
    <3>1. misled' = misled  BY <1>0, <1>2, <2>1 DEF Chooses, SyncShapes
    <3> QED  BY <1>2, <2>1, <3>1, AwaitKeeps DEF Chooses, ServerIdle
  <2>2. CASE s # page.session
    <3>1. page' = Shows(s, -1, TRUE, -1) /\ seen' = -1 /\ ~misled' /\ UNCHANGED transcript
      BY <1>2, <2>2 DEF Chooses, ServerIdle
    <3>2. page'.session = s /\ page'.shown = -1  BY <3>1 DEF Shows
    <3> QED  BY <3>1, <3>2, ForgetKeeps
  <2> QED  BY <2>1, <2>2
<1>3. CASE Receives
  <2> DEFINE frame == Head(wire)
  <2>1. wire # <<>> /\ wire \in Seq(Frames)  BY <1>0, <1>3 DEF Receives, SyncShapes
  <2>2. frame \in Frames /\ frame = wire[1] /\ 1 \in 1..Len(wire)  BY <2>1
  <2>3. /\ UNCHANGED transcript
        /\ IF frame.kind = "info" THEN SetInfo(frame) ELSE AcceptSnapshot(frame)
    BY <1>3 DEF Receives, ServerIdle
  <2>4. Genuine(frame) => Fair(frame.session, frame)  BY <2>2 DEF SyncInv, WireFair
  <2>5. frame.session \in PageSessions /\ frame.kind \in {"messages_loaded", "info"}
    BY <2>2 DEF Frames
  <2> HIDE DEF frame
  <2>6. CASE frame.kind = "info"
    <3>1. CASE frame.session = page.session
      BY <2>3, <2>6, <3>1, KeepingStill DEF SetInfo, SyncInv, PageFollows
    <3>2. CASE frame.session # page.session
      <4>1. UNCHANGED transcript /\ seen' = -1 /\ ~misled'
        BY <2>3, <2>6, <3>2 DEF SetInfo, SyncInv, PageFollows
      <4>2. page'.session = frame.session /\ page'.shown = -1
        <5>1. CASE page.session = NoSession
          <6>1. page' = [page EXCEPT !.session = frame.session]
            BY <2>3, <2>6, <3>2, <5>1 DEF SetInfo
          <6>2. page.shown = -1  BY <5>1 DEF SyncInv, PageFollows
          <6> QED  BY <1>0, <6>1, <6>2 DEF SyncShapes
        <5>2. CASE page.session # NoSession
          BY <2>3, <2>6, <3>2, <5>2 DEF SetInfo, Shows
        <5> QED  BY <5>1, <5>2
      <4> QED  BY <2>5, <4>1, <4>2, ForgetKeeps
    <3> QED  BY <3>1, <3>2
  <2>7. CASE frame.kind = "messages_loaded"
    BY <2>2, <2>3, <2>4, <2>7, AcceptKeeps, MisleadKeeps DEF Genuine
  <2> QED  BY <2>5, <2>6, <2>7
<1> QED  BY <1>1, <1>2, <1>3 DEF PageStepOf

LEMMA PageKeepsInv ==
    ASSUME SyncInv, PageStepOf
    PROVE  SyncInv'
<1>1. SyncShapes' /\ TargetsKnown'  BY PageShapes
<1>2. Keeping /\ PageFollows'  BY PageOrder
<1>3. /\ UNCHANGED <<work, syncing, handler>>
      /\ wire' = wire \/ (wire # <<>> /\ wire' = Tail(wire))
  BY DEF PageStepOf, ClearsPage, Receives, Chooses, ServerIdle
<1>4. SyncsFair' /\ HandlerFair' /\ WireFair'
  BY <1>2, <1>3, SyncsKept, HandlerKept, WireKept DEF SyncsOwn
<1> QED  BY <1>1, <1>2, <1>4 DEF SyncInv

LEMMA RunsKeepInv ==
    ASSUME SyncInv, NEW s \in PageSessions,
           Change(s) \/ EndsUnsynced(s) \/ SyncLists(s) \/ SyncReads(s) \/ SyncSends(s)
    PROVE  SyncInv'
<1>0. /\ work \in [PageSessions -> {"free", "working", "listed", "read", "clearing"}]
      /\ syncing \in [PageSessions -> Syncs]
      /\ TargetsKnown /\ PageFollows
  BY DEF SyncInv, SyncShapes
<1>1. SyncShapes'  BY RunsShapes
<1>2. UNCHANGED <<selected, handler, request, page, seen, misled>>
  BY DEF Change, EndsUnsynced, SyncLists, SyncReads, SyncSends, PageIdle
<1>3. TargetsKnown'  BY <1>0, <1>2 DEF TargetsKnown
<1>4. Keeping /\ PageFollows'
  <2>1. CASE Change(s)  BY <1>2, <2>1, KeepingChange DEF Change
  <2>2. CASE ~Change(s)
    <3>1. UNCHANGED transcript  BY <2>2 DEF EndsUnsynced, SyncLists, SyncReads, SyncSends
    <3> QED  BY <1>0, <1>2, <3>1, KeepingStill DEF PageFollows
  <2> QED  BY <2>1, <2>2
<1>5. HandlerFair'  BY <1>2, <1>4, HandlerKept
<1>6. WireFair'
  <2>1. CASE SyncSends(s) /\ syncing[s].name # NoSession
    <3> DEFINE frame == Loaded(syncing[s].name, syncing[s].of, syncing[s].snapshot)
    <3>1. wire' = Append(wire, frame) /\ work[s] = "read" /\ syncing[s].name \in PageSessions
      BY <1>0, <2>1 DEF SyncSends, Sends, Syncs, SessionOrNone
    <3>2. Genuine(frame) => Fair(syncing[s].name, syncing[s].snapshot)
      BY <3>1 DEF SyncInv, SyncsFair, SyncsOwn, Genuine, Loaded
    <3>3. frame \in Frames  BY <1>0, <3>1, FrameShapes DEF Syncs
    <3>4. Genuine(frame) => Fair(frame.session, frame)  BY <3>2 DEF Fair, Loaded
    <3> HIDE DEF frame
    <3> QED  BY <1>4, <3>1, <3>3, <3>4, WireKept
  <2>2. CASE ~(SyncSends(s) /\ syncing[s].name # NoSession)
    <3>1. wire' = wire
      BY <2>2 DEF Change, EndsUnsynced, SyncLists, SyncReads, SyncSends
    <3> QED  BY <1>4, <3>1, WireKept
  <2> QED  BY <2>1, <2>2
<1>7. SyncsFair'
  <2>1. CASE SyncReads(s)
    <3>1. PICK u \in PageSessions :
             syncing' = [syncing EXCEPT ![s].of = u, ![s].snapshot = transcript[u]]
      BY <2>1 DEF SyncReads
    <3>2. /\ work' = [work EXCEPT ![s] = "read"] /\ UNCHANGED <<transcript, page, seen, misled>>
      BY <1>2, <2>1 DEF SyncReads
    <3>3. /\ syncing'[s].snapshot = transcript[u] /\ syncing'[s].of = u
          /\ \A t \in PageSessions \ {s} : work'[t] = work[t] /\ syncing'[t] = syncing[t]
      BY <1>0, <3>1, <3>2 DEF Syncs
    <3>4. Fair(u, transcript[u])  BY TranscriptFair
    <3>5. ASSUME NEW t \in PageSessions, SyncsOwn(t)'
          PROVE  Fair(syncing'[t].name, syncing'[t].snapshot)
      <4>1. CASE t = s  BY <3>3, <3>4, <3>5, <4>1 DEF SyncsOwn
      <4>2. CASE t # s  BY <3>3, <3>5, <4>2 DEF SyncInv, SyncsFair, SyncsOwn
      <4> QED  BY <4>1, <4>2
    <3> QED  BY <3>2, <3>5 DEF SyncsFair, Fair
  <2>2. CASE ~SyncReads(s)
    <3>1. ASSUME NEW t \in PageSessions, SyncsOwn(t)'
          PROVE  /\ SyncsOwn(t)
                 /\ syncing'[t].name = syncing[t].name
                 /\ syncing'[t].snapshot = syncing[t].snapshot
      <4>1. work'[t] = "read"  BY <3>1 DEF SyncsOwn
      <4>2. CASE t = s
        BY <1>0, <2>2, <4>1, <4>2 DEF Change, EndsUnsynced, SyncLists, SyncSends
      <4>3. CASE t # s
        <5>1. work'[t] = work[t] /\ syncing'[t] = syncing[t]
          BY <1>0, <2>2, <4>3 DEF Change, EndsUnsynced, SyncLists, SyncSends
        <5> QED  BY <3>1, <5>1 DEF SyncsOwn
      <4> QED  BY <4>2, <4>3
    <3> QED  BY <1>4, <3>1, SyncsKept
  <2> QED  BY <2>1, <2>2
<1> QED  BY <1>1, <1>3, <1>4, <1>5, <1>6, <1>7 DEF SyncInv

LEMMA HandlerKeepsInv ==
    ASSUME SyncInv, HandlerStep
    PROVE  SyncInv'
<1>0. /\ work \in [PageSessions -> {"free", "working", "listed", "read", "clearing"}]
      /\ handler \in [at : HandlerPlaces, target : SessionOrNone, snapshot : Snapshots]
      /\ TargetsKnown /\ PageFollows
  BY DEF SyncInv, SyncShapes
<1>1. SyncShapes' /\ TargetsKnown'  BY HandlerShapes
<1>2. UNCHANGED <<syncing, page, seen, misled>>
  BY DEF HandlerStep, Registers, Takes, Clears, SendsCleared, Reads, NotOpened, Moves,
         SendsLoaded, SendsInfo, PageIdle
<1> DEFINE s == handler.target
<1>3. CASE /\ Clears
           /\ transcript' = [transcript EXCEPT ![s] = [revision |-> @.revision + 1,
                                                       version |-> @.version + 1]]
           /\ work' = [work EXCEPT ![s] = "clearing"]
           /\ handler' = Handling("cleared", s, transcript'[s])
  <2>1. s \in PageSessions /\ UNCHANGED wire  BY <1>0, <1>3 DEF Clears, TargetsKnown
  <2>2. Keeping /\ PageFollows'  BY <1>2, <1>3, <2>1, KeepingChange
  <2>3. \A t \in PageSessions : SyncsOwn(t)' => SyncsOwn(t)
    BY <1>0, <1>2, <1>3 DEF SyncsOwn
  <2>4. SyncsFair' /\ WireFair'  BY <1>2, <2>1, <2>2, <2>3, SyncsKept, WireKept
  <2>5. HandlerFair'
    <3>1. Fair(s, transcript[s])  BY <2>1, TranscriptFair
    <3>2. /\ handler'.target = s /\ handler'.snapshot = transcript'[s]
      BY <1>3 DEF Handling
    <3>3. transcript'[s].revision \in Nat /\ transcript'[s].version \in Nat
      BY <1>1, <2>1 DEF SyncShapes
    <3>4. ~misled /\ s = page.session => transcript'[s].version >= seen
      BY <1>2, <2>1, <2>2 DEF PageFollows
    <3> QED  BY <1>2, <3>2, <3>3, <3>4 DEF HandlerFair, Fair
  <2> QED  BY <1>1, <2>2, <2>4, <2>5 DEF SyncInv
<1>4. CASE UNCHANGED transcript
  <2>1. Keeping /\ PageFollows'  BY <1>0, <1>2, <1>4, KeepingStill DEF PageFollows
  <2>2. SyncsFair'
    <3>1. \A t \in PageSessions : work'[t] = "read" => work[t] = "read"
      BY <1>0, <1>4
      DEF HandlerStep, Registers, Takes, Clears, SendsCleared, Reads, NotOpened, Moves,
          SendsLoaded, SendsInfo
    <3>2. \A t \in PageSessions : SyncsOwn(t)' => SyncsOwn(t)  BY <1>2, <3>1 DEF SyncsOwn
    <3> QED  BY <1>2, <2>1, <3>2, SyncsKept
  <2>3. HandlerFair'
    <3>1. CASE Reads
      <4>1. PICK t \in PageSessions : handler' = Handling("opened", t, transcript[t])
        BY <3>1 DEF Reads
      <4>2. Fair(t, transcript[t])  BY TranscriptFair
      <4>3. handler'.target = t /\ handler'.snapshot = transcript[t]  BY <4>1 DEF Handling
      <4> QED  BY <1>2, <1>4, <4>2, <4>3 DEF HandlerFair, Fair
    <3>2. CASE ~Reads
      <4>1. handler'.at \in {"opened", "moved", "cleared"} =>
               /\ handler.at \in {"opened", "moved", "cleared"}
               /\ handler'.target = handler.target /\ handler'.snapshot = handler.snapshot
        <5>1. CASE Registers  BY <1>0, <5>1 DEF Registers
        <5>2. CASE Takes  BY <5>2 DEF Takes, Handling
        <5>3. CASE Clears
          <6>1. s \in PageSessions  BY <1>0, <5>3 DEF Clears, TargetsKnown
          <6>2. CASE transcript' = [transcript EXCEPT
                        ![s] = [revision |-> @.revision + 1, version |-> @.version + 1]]
            <7>1. transcript[s].revision \in Nat
                  /\ transcript \in [PageSessions -> [revision : Nat, version : Nat]]
              BY <6>1 DEF SyncInv, SyncShapes
            <7>2. transcript'[s].revision = transcript[s].revision + 1
              BY <6>1, <6>2, <7>1
            <7> QED  BY <1>4, <7>1, <7>2
          <6>3. CASE handler' = Idling  BY <6>3 DEF Idling, Handling
          <6> QED  BY <5>3, <6>2, <6>3 DEF Clears
        <5>4. CASE SendsCleared \/ NotOpened \/ SendsInfo
          BY <5>4 DEF SendsCleared, NotOpened, SendsInfo, Idling, Handling
        <5>5. CASE Moves \/ SendsLoaded  BY <1>0, <5>5 DEF Moves, SendsLoaded
        <5> QED  BY <3>2, <5>1, <5>2, <5>3, <5>4, <5>5 DEF HandlerStep
      <4> QED  BY <2>1, <4>1, HandlerKept
    <3> QED  BY <3>1, <3>2
  <2>4. WireFair'
    <3>1. CASE SendsCleared \/ SendsLoaded
      <4> DEFINE frame == Loaded(handler.target, handler.target, handler.snapshot)
      <4>1. wire' = Append(wire, frame) /\ handler.at \in {"cleared", "moved"}
        BY <3>1 DEF SendsCleared, SendsLoaded, Sends
      <4>2. handler.target \in PageSessions  BY <1>0, <4>1 DEF TargetsKnown
      <4>3. frame \in Frames  BY <1>0, <4>2, FrameShapes
      <4>4. Fair(handler.target, handler.snapshot)  BY <4>1 DEF SyncInv, HandlerFair
      <4>5. Fair(frame.session, frame)  BY <4>4 DEF Fair, Loaded
      <4> HIDE DEF frame
      <4> QED  BY <2>1, <4>1, <4>3, <4>5, WireKept
    <3>2. CASE SendsInfo
      <4>1. wire' = Append(wire, Info(handler.target)) /\ handler.target \in PageSessions
        BY <1>0, <3>2 DEF SendsInfo, Sends, TargetsKnown
      <4>2. Info(handler.target) \in Frames /\ ~Genuine(Info(handler.target))
        BY <4>1, FrameShapes DEF Info, Genuine
      <4> QED  BY <2>1, <4>1, <4>2, WireKept
    <3>3. CASE ~(SendsCleared \/ SendsLoaded \/ SendsInfo)
      <4>1. wire' = wire
        BY <3>3 DEF HandlerStep, Registers, Takes, Clears, Reads, NotOpened, Moves
      <4> QED  BY <2>1, <4>1, WireKept
    <3> QED  BY <3>1, <3>2, <3>3
  <2> QED  BY <1>1, <2>1, <2>2, <2>3, <2>4 DEF SyncInv
<1>5. \/ UNCHANGED transcript
      \/ /\ Clears
         /\ transcript' = [transcript EXCEPT ![s] = [revision |-> @.revision + 1,
                                                     version |-> @.version + 1]]
         /\ work' = [work EXCEPT ![s] = "clearing"]
         /\ handler' = Handling("cleared", s, transcript'[s])
  BY DEF HandlerStep, Registers, Takes, Clears, SendsCleared, Reads, NotOpened, Moves,
         SendsLoaded, SendsInfo
<1> QED  BY <1>3, <1>4, <1>5

\* Nothing is under way after a loss, or it is still of the same server; the versions
\* of a restarted server are no lower.
LEMMA LostKeepsInv ==
    ASSUME SyncInv, NEW s \in PageSessions, NEW isRestart \in BOOLEAN, Lost(s, isRestart)
    PROVE  SyncInv'
<1>0. /\ transcript \in [PageSessions -> [revision : Nat, version : Nat]]
      /\ syncing \in [PageSessions -> Syncs]
      /\ PageFollows
  BY DEF SyncInv, SyncShapes
<1>1. SyncShapes' /\ TargetsKnown'  BY LostShapes
<1>2. /\ wire' = <<>> /\ handler' = Handling("connect", s, Nothing)
      /\ UNCHANGED <<page, seen, misled>>
  BY DEF Lost
<1>3. WireFair' /\ HandlerFair'  BY <1>2 DEF WireFair, HandlerFair, Handling
<1>4. PageFollows' /\ SyncsFair'
  <2>1. CASE isRestart
    <3>1. PICK t \in PageSessions :
             transcript' = [transcript EXCEPT ![t].revision = IF @ > 0 THEN @ - 1 ELSE @]
      BY <2>1 DEF Lost
    <3>2. \A u \in PageSessions : transcript'[u].version = transcript[u].version
      BY <1>0, <3>1
    <3>3. work' = [u \in PageSessions |-> "free"]  BY <2>1 DEF Lost
    <3> QED  BY <1>0, <1>2, <3>2, <3>3 DEF PageFollows, SyncsFair, SyncsOwn
  <2>2. CASE ~isRestart
    <3>1. /\ syncing' = [t \in PageSessions |-> [syncing[t] EXCEPT !.name = NoSession]]
          /\ UNCHANGED <<work, transcript>>
      BY <2>2 DEF Lost
    <3>2. \A t \in PageSessions : syncing'[t].name = NoSession  BY <1>0, <3>1 DEF Syncs
    <3>3. Keeping /\ PageFollows'  BY <1>0, <1>2, <3>1, KeepingStill DEF PageFollows
    <3> QED  BY <3>2, <3>3, SyncAssumption DEF SyncsFair, SyncsOwn
  <2> QED  BY <2>1, <2>2
<1> QED  BY <1>1, <1>3, <1>4 DEF SyncInv

LEMMA SyncInvStep ==
    ASSUME SyncInv, [SyncNext]_syncVars
    PROVE  SyncInv'
<1>1. CASE UNCHANGED syncVars
  BY <1>1 DEF syncVars, SyncInv, SyncShapes, TargetsKnown, SyncsOwn, SyncsFair, HandlerFair,
     WireFair, Fair, PageFollows
<1>2. CASE SyncNext
  <2>1. \/ \E s \in PageSessions :
             \/ Change(s) \/ EndsUnsynced(s) \/ SyncLists(s) \/ SyncReads(s) \/ SyncSends(s)
             \/ \E isRestart \in BOOLEAN : Lost(s, isRestart)
        \/ HandlerStep \/ PageStepOf
    BY <1>2 DEF SyncNext, HandlerStep, PageStepOf
  <2> QED  BY <2>1, RunsKeepInv, LostKeepsInv, HandlerKeepsInv, PageKeepsInv
<1> QED  BY <1>1, <1>2

\* Shapes of what the server and the page know of one another.
THEOREM SyncTypes == SyncSpec => []SyncTypeOK
<1>1. SyncInit => SyncInv  BY SyncInvInit
<1>2. SyncInv /\ [SyncNext]_syncVars => SyncInv'  BY SyncInvStep
<1>3. SyncInv => SyncTypeOK
  BY DEF SyncInv, SyncShapes, SyncTypeOK, HandlerPlaces, SessionOrNone
<1> QED  BY <1>1, <1>2, <1>3, PTL DEF SyncSpec

\* Whoever reads first and sends last, however often the socket is lost and even if
\* a restarted server counts revisions lower: what the page shows of a session it
\* has chosen never goes back, until it takes another session's transcript that was
\* sent under this one's name, through the handle the connections share
\* (transitions.ts:192-222, connection.rs:1377-1494, session_hub.rs:317).
THEOREM PageNeverGoesBack == SyncSpec => []ShownNeverOlder
<1>1. SyncInit => SyncInv  BY SyncInvInit
<1>2. SyncInv /\ [SyncNext]_syncVars => SyncInv'  BY SyncInvStep
<1>3. SyncInv => ShownNeverOlder
  BY DEF SyncInv, SyncShapes, Numbers, PageFollows, ShownNeverOlder
<1> QED  BY <1>1, <1>2, <1>3, PTL DEF SyncSpec
=============================================================================

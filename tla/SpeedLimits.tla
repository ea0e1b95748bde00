---------------------------- MODULE SpeedLimits ----------------------------
(***************************************************************************)
(* The rate limiter a connection of the sing-box kernel is given, shared   *)
(* by all connections of its user and created by the first, while the list *)
(* of users changes; and the bytes such a connection moves and counts.     *)
(*                                                                         *)
(* Source: internal/limiter/speedtracker.go, UpdateUsers of limiter.go,    *)
(* and trackedConn and trackedPacketConn of                                *)
(* internal/kernel/singbox/conntracker.go.                                 *)
(*                                                                         *)
(* Users do not interact, so this is one of them.  A lock section is a     *)
(* step.  A *rate.Limiter is named by the connection that created it; what *)
(* it allows at a given time is left open.  A transfer is one byte.        *)
(***************************************************************************)
EXTENDS Integers

CONSTANTS
    MaxConns,    \* bound: connections, numbered in order
    MaxSpeed,    \* bound: speed limits of the list
    MaxUpdates,  \* bound: lists applied
    MaxBytes     \* bound: bytes moved

VARIABLES
    speed,    \* Limiter.users: the user's speed limit, 0 is none, Absent no user
    syncing,  \* has the service updated the limiter but not yet the buckets?
    mapped,   \* is the UUID in SpeedTracker.uuidMap?
    bucket,   \* SpeedTracker.buckets: the user's limiter, or NoLimiter
    rate,     \* the rate of every limiter
    dropped,  \* limiters UpdateBuckets removed (history)
    flow,     \* the connections
    up,       \* userStats.upload
    down,     \* userStats.download
    fromUser, \* bytes read from the user (history)
    toUser,   \* bytes written to the user (history)
    lists     \* lists applied so far (bound only)

limitVars == <<speed, syncing, mapped, bucket, rate, dropped, lists>>
byteVars == <<up, down, fromUser, toUser>>
speedVars == <<limitVars, flow, byteVars>>

Flows == 1..MaxConns
NoLimiter == 0
Absent == -1

Init ==
    /\ speed \in 0..MaxSpeed
    /\ mapped = TRUE
    /\ syncing = FALSE
    /\ bucket = NoLimiter
    /\ rate = [c \in Flows |-> 0]
    /\ dropped = {}
    /\ flow = [c \in Flows |-> [pc |-> "new", udp |-> FALSE, speed |-> 0, lim |-> NoLimiter]]
    /\ up = 0 /\ down = 0 /\ fromUser = 0 /\ toUser = 0
    /\ lists = 0

-----------------------------------------------------------------------------
(***************************************************************************)
(* The list: updateUserState of the service.                               *)
(***************************************************************************)

\* Limiter.UpdateUsers.
UpdateUsers(n) ==
    /\ ~syncing /\ lists < MaxUpdates
    /\ n # speed
    /\ lists' = lists + 1
    /\ speed' = n
    /\ syncing' = TRUE
    /\ UNCHANGED <<mapped, bucket, rate, dropped, flow, byteVars>>

\* UpdateBuckets: an existing limiter follows the list or is removed.
UpdateBuckets ==
    /\ syncing
    /\ syncing' = FALSE
    /\ mapped' = (speed # Absent)
    /\ IF bucket # NoLimiter /\ speed > 0
       THEN rate' = [rate EXCEPT ![bucket] = speed] /\ UNCHANGED <<bucket, dropped>>
       ELSE /\ bucket' = NoLimiter
            /\ dropped' = dropped \union ({bucket} \ {NoLimiter})
            /\ UNCHANGED rate
    /\ UNCHANGED <<speed, lists, flow, byteVars>>

-----------------------------------------------------------------------------
(***************************************************************************)
(* GetLimiter, called when a connection is routed.                         *)
(***************************************************************************)

Opened(c, lim) == flow' = [flow EXCEPT ![c].pc = "open", ![c].lim = lim, ![c].speed = 0]

\* The first section: the mapping and the user's limiter.
Lookup(c, udp) ==
    /\ flow[c].pc = "new"
    /\ \A d \in Flows : d < c => flow[d].pc # "new"
    /\ flow' = [flow EXCEPT ![c] =
           [pc |-> IF mapped /\ bucket = NoLimiter THEN "looked" ELSE "open", udp |-> udp,
            speed |-> 0, lim |-> IF mapped THEN bucket ELSE NoLimiter]]
    /\ UNCHANGED <<limitVars, byteVars>>

\* The second: the speed limit of the list.
ReadSpeed(c) ==
    /\ flow[c].pc = "looked"
    /\ IF speed > 0
       THEN flow' = [flow EXCEPT ![c].pc = "read", ![c].speed = speed]
       ELSE Opened(c, NoLimiter)
    /\ UNCHANGED <<limitVars, byteVars>>

\* Mutant: the table is not looked at again.
InstallOver(c) ==
    /\ bucket' = c
    /\ rate' = [rate EXCEPT ![c] = flow[c].speed]
    /\ Opened(c, c)

\* The third: the new limiter is stored, unless there is one by now.
Install(c) ==
    IF bucket # NoLimiter
    THEN Opened(c, bucket) /\ UNCHANGED <<bucket, rate>>
    ELSE /\ bucket' = c
         /\ rate' = [rate EXCEPT ![c] = flow[c].speed]
         /\ Opened(c, c)

InstallLimiter(c) ==
    /\ flow[c].pc = "read"
    /\ Install(c)
    /\ UNCHANGED <<speed, syncing, mapped, dropped, lists, byteVars>>

-----------------------------------------------------------------------------
(***************************************************************************)
(* Transfers.  A connection copies by Read and Write (ReadPacket and       *)
(* WritePacket), or, unwrapped, without copying; then the loop below calls *)
(* the count functions, and for packets each of these has the counter of   *)
(* the other direction.                                                    *)
(***************************************************************************)

Moving == fromUser + toUser < MaxBytes

CountUp == up' = up + 1 /\ UNCHANGED down
CountDown == down' = down + 1 /\ UNCHANGED up

\* The tokens of a limiter may have to be waited for.
TokensOrWait(c, pc) == \/ UNCHANGED flow
                       \/ flow[c].lim # NoLimiter /\ flow' = [flow EXCEPT ![c].pc = pc]

\* Mutant: a read is counted after the tokens, and not if the wait is cut short.
ReceiveLate(c, unwrapped) ==
    /\ flow[c].pc = "open" /\ Moving
    /\ fromUser' = fromUser + 1
    /\ \/ CountUp /\ UNCHANGED flow
       \/ /\ flow[c].lim # NoLimiter
          /\ flow' = [flow EXCEPT ![c].pc = "waiting"]
          /\ UNCHANGED <<up, down>>
    /\ UNCHANGED <<limitVars, toUser>>

\* Read, ReadPacket or the count function of the reader: counted, then limited.
Receive(c, unwrapped) ==
    /\ flow[c].pc = "open" /\ Moving
    /\ fromUser' = fromUser + 1
    /\ IF flow[c].udp /\ unwrapped THEN CountDown ELSE CountUp
    /\ TokensOrWait(c, "waiting")
    /\ UNCHANGED <<limitVars, toUser>>

\* The count function of the writer: written, counted, then limited.
SendUnwrapped(c) ==
    /\ flow[c].pc = "open" /\ Moving
    /\ toUser' = toUser + 1
    /\ IF flow[c].udp THEN CountUp ELSE CountDown
    /\ TokensOrWait(c, "waiting")
    /\ UNCHANGED <<limitVars, fromUser>>

\* Write or WritePacket: limited, then written and counted; a wait that the
\* context ends writes nothing.
SendLimited(c) ==
    /\ flow[c].pc = "open" /\ flow[c].lim # NoLimiter
    /\ flow' = [flow EXCEPT ![c].pc = "sending"]
    /\ UNCHANGED <<limitVars, byteVars>>

Send(c) ==
    /\ flow[c].pc = "sending" \/ (flow[c].pc = "open" /\ flow[c].lim = NoLimiter)
    /\ Moving
    /\ flow' = [flow EXCEPT ![c].pc = "open"]
    /\ toUser' = toUser + 1
    /\ CountDown
    /\ UNCHANGED <<limitVars, fromUser>>

\* The timer of a wait.
Proceed(c) ==
    /\ flow[c].pc = "waiting"
    /\ flow' = [flow EXCEPT ![c].pc = "open"]
    /\ UNCHANGED <<limitVars, byteVars>>

\* The context ends, in a wait or between transfers.
Cancel(c) ==
    /\ flow[c].pc \in {"open", "waiting", "sending"}
    /\ flow' = [flow EXCEPT ![c].pc = "closed"]
    /\ UNCHANGED <<limitVars, byteVars>>

Next ==
    \/ \E n \in Absent..MaxSpeed : UpdateUsers(n)
    \/ UpdateBuckets
    \/ \E c \in Flows :
          \/ \E udp \in BOOLEAN : Lookup(c, udp)
          \/ ReadSpeed(c) \/ InstallLimiter(c)
          \/ \E unwrapped \in BOOLEAN : Receive(c, unwrapped)
          \/ SendUnwrapped(c) \/ SendLimited(c) \/ Send(c)
          \/ Proceed(c) \/ Cancel(c)

Spec == Init /\ [][Next]_speedVars

-----------------------------------------------------------------------------
(***************************************************************************)
(* Properties.                                                             *)
(***************************************************************************)

\* Every variable has its type.
TypeOK ==
    /\ speed \in Absent..MaxSpeed /\ syncing \in BOOLEAN /\ mapped \in BOOLEAN
    /\ bucket \in {NoLimiter} \union Flows /\ dropped \subseteq Flows
    /\ rate \in [Flows -> 0..MaxSpeed]
    /\ {up, down, fromUser, toUser} \subseteq 0..MaxBytes

\* "userID -> shared rate limiter": a connection is never left with a limiter
\* of its own beside the one its user's other connections share, however many
\* are routed at once: what it holds is the user's limiter or one the list
\* has since removed.
SharedLimiter ==
    \A c \in Flows : flow[c].lim \in {NoLimiter, bucket} \union dropped

\* Every byte moved over a connection of the user is counted once, also when
\* the wait for its tokens is cut short and the call reports an error.
BytesCounted == up + down = fromUser + toUser
=============================================================================

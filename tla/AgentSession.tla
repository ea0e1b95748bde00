---------------------------- MODULE AgentSession ----------------------------
(***************************************************************************)
(* One direction of an encrypted session between agent and panel: the      *)
(* sender numbers its envelopes, the receiver opens each of them once.     *)
(* Requests run concurrently, so envelopes overtake each other, are lost,  *)
(* arrive twice, or arrive damaged.                                        *)
(*                                                                         *)
(* Source: internal/agentv2/protocol.go (Seal, Open, replayWindow). The    *)
(* 64-bit bitmap is the set of its bit positions 0 .. W - 1.               *)
(***************************************************************************)
EXTENDS Integers

CONSTANTS
    W,          \* width of the bitmap (64 in the code)
    MaxSeq      \* bound: sequence numbers

ASSUME SessionAssumption == W \in Nat \ {0} /\ MaxSeq \in Nat

VARIABLES
    sendSeq,    \* the last sequence number sealed
    wire,       \* envelopes on the network; they may be delivered again
    maxSeq,     \* recvWindow.maxSeq
    bitmap,     \* recvWindow.bitmap
    opens       \* history: how often each number was opened

vars == <<sendSeq, wire, maxSeq, bitmap, opens>>

Seqs == 1 .. MaxSeq

Init ==
    /\ sendSeq = 0
    /\ wire = {}
    /\ maxSeq = 0
    /\ bitmap = {}
    /\ opens = [s \in Seqs |-> 0]

Seal ==
    /\ sendSeq < MaxSeq
    /\ sendSeq' = sendSeq + 1
    /\ wire' = wire \cup {[seq |-> sendSeq + 1, authentic |-> TRUE]}
    /\ UNCHANGED <<maxSeq, bitmap, opens>>

\* An envelope whose contents do not authenticate, under any number.
Damage(s) ==
    /\ wire' = wire \cup {[seq |-> s, authentic |-> FALSE]}
    /\ UNCHANGED <<sendSeq, maxSeq, bitmap, opens>>

\* replayWindow.accept: does the window let s pass?
Accepts(s) ==
    \/ s > maxSeq
    \/ maxSeq - s < W /\ maxSeq - s \notin bitmap

\* Mutant: a jump forward does not move the old bits.
ShiftedInPlace(s) == bitmap \cup {0}

\* The bitmap after s became the maximum: bits move up, the last ones fall out.
Shifted(s) ==
    {d \in 0 .. W - 1 : d = 0 \/ \E b \in bitmap : d = b + (s - maxSeq)}

Slide(s) ==
    /\ maxSeq' = IF s > maxSeq THEN s ELSE maxSeq
    /\ bitmap' = IF s > maxSeq THEN Shifted(s) ELSE bitmap \cup {maxSeq - s}

\* Mutant: the window moves before the contents are authenticated.
OpenEager(e) ==
    /\ Accepts(e.seq)
    /\ Slide(e.seq)
    /\ opens' = IF e.authentic THEN [opens EXCEPT ![e.seq] = @ + 1] ELSE opens
    /\ UNCHANGED <<sendSeq, wire>>

\* Open works on a copy of the window and stores it once the contents were
\* authenticated; ErrReplay and ErrInvalidEnvelope change nothing.
Open(e) ==
    /\ Accepts(e.seq)
    /\ e.authentic
    /\ Slide(e.seq)
    /\ opens' = [opens EXCEPT ![e.seq] = @ + 1]
    /\ UNCHANGED <<sendSeq, wire>>

Next ==
    \/ Seal
    \/ \E s \in Seqs : Damage(s)
    \/ \E e \in wire : Open(e)

Spec == Init /\ [][Next]_vars

(***************************************************************************)
(* Properties                                                              *)
(***************************************************************************)

\* Every variable has its type; the bitmap fits into its width.
TypeOK ==
    /\ sendSeq \in 0 .. MaxSeq
    /\ wire \subseteq [seq : Seqs, authentic : BOOLEAN]
    /\ maxSeq \in 0 .. MaxSeq
    /\ bitmap \subseteq 0 .. W - 1
    /\ opens \in [Seqs -> Nat]

\* No envelope is opened twice, whatever is duplicated, reordered, damaged or
\* delayed past the window (ErrReplay).
NoReplay == \A s \in Seqs : opens[s] <= 1

\* The window costs nothing it need not: a genuine envelope that has not been
\* opened and is less than W behind the newest opened one still passes, so
\* damaged traffic cannot push good envelopes out.
FreshPasses ==
    \A e \in wire : e.authentic /\ opens[e.seq] = 0 /\ maxSeq < e.seq + W => Accepts(e.seq)

Channel == INSTANCE SecureChannel WITH
    Numbers <- Seqs, sealed <- sendSeq, delivered <- opens

\* Seal, the wire and Open together are a channel that hands over what was
\* sealed, and each message at most once, although the wire repeats, reorders
\* and damages envelopes and the window is only W wide.
ImplementsChannel == Channel!Spec
=============================================================================

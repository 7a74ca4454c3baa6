----------------------------- MODULE DmaChannel -----------------------------
(***************************************************************************)
(* What a DMA driver promises to its clients, as include/linux/dmaengine.h *)
(* has it: each channel is a queue of descriptors.  A submitted descriptor *)
(* joins the queue under the next cookie; once the channel is going, the   *)
(* oldest descriptor completes, and only that one; terminating a channel   *)
(* empties its queue.  There are no physical channels here, no interrupt   *)
(* handler and no waiting.  Pl08x implements this specification.           *)
(***************************************************************************)
EXTENDS Integers, Sequences

CONSTANTS
    Chan,        \* the channels
    MaxCookie    \* the largest dma_cookie_t

Txd == [cookie : 1..MaxCookie, signal : BOOLEAN]

VARIABLES
    queue,           \* the descriptors submitted and not completed, oldest first
    going,           \* the channel works on the oldest one
    last_used,       \* the cookie submitted last
    last_complete    \* the cookie completed last

vars == <<queue, going, last_used, last_complete>>

NextCookie(k) == IF k = MaxCookie THEN 1 ELSE k + 1

\* A client submits fewer than MaxCookie descriptors between two completions.
CookieFree(c, k) ==
    k # last_complete[c] /\ (last_complete[c] = 0 => k > last_used[c])

Init ==
    /\ queue = [c \in Chan |-> <<>>]
    /\ going = [c \in Chan |-> FALSE]
    /\ last_used = [c \in Chan |-> 0]
    /\ last_complete = [c \in Chan |-> 0]

Submit(c, signal) ==
    LET k == NextCookie(last_used[c]) IN
    /\ CookieFree(c, k)
    /\ last_used' = [last_used EXCEPT ![c] = k]
    /\ queue' = [queue EXCEPT ![c] = Append(queue[c], [cookie |-> k, signal |-> signal])]
    /\ UNCHANGED <<going, last_complete>>

Start(c) ==
    /\ ~going[c] /\ queue[c] # <<>>
    /\ going' = [going EXCEPT ![c] = TRUE]
    /\ UNCHANGED <<queue, last_used, last_complete>>

\* The oldest descriptor completes and the next one follows.
Complete(c) ==
    /\ going[c]
    /\ last_complete' = [last_complete EXCEPT ![c] = Head(queue[c]).cookie]
    /\ queue' = [queue EXCEPT ![c] = Tail(queue[c])]
    /\ UNCHANGED last_used

CompleteAlone(c) ==
    /\ Complete(c)
    /\ going' = [going EXCEPT ![c] = Tail(queue[c]) # <<>>]

\* The queue runs empty, and another channel that was waiting starts.
CompleteAndStart(c, w) ==
    /\ w # c /\ ~going[w] /\ queue[w] # <<>>
    /\ Complete(c)
    /\ Tail(queue[c]) = <<>>
    /\ going' = [going EXCEPT ![c] = FALSE, ![w] = TRUE]

\* The client terminates the channel, or is refused another descriptor before
\* the channel is going and loses those it has submitted.
Discard(c) ==
    /\ going' = [going EXCEPT ![c] = FALSE]
    /\ queue' = [queue EXCEPT ![c] = <<>>]
    /\ UNCHANGED <<last_used, last_complete>>

Next ==
    \E c \in Chan :
        \/ Discard(c) \/ Start(c) \/ CompleteAlone(c)
        \/ \E signal \in BOOLEAN : Submit(c, signal)
        \/ \E w \in Chan : CompleteAndStart(c, w)

Spec == Init /\ [][Next]_vars

-----------------------------------------------------------------------------
\* dma_async_is_complete (dmaengine.h), by which a client is answered.
dma_async_is_complete(cookie, last_complete_k, last_used_k) ==
    IF last_complete_k <= last_used_k
    THEN cookie <= last_complete_k \/ cookie > last_used_k
    ELSE cookie <= last_complete_k /\ cookie > last_used_k

(* The queue of a channel holds, oldest first, the last descriptors          *)
(* submitted: none is lost, duplicated or reordered.                         *)
QueueInOrder ==
    \A c \in Chan : LET q == queue[c] IN
        /\ \A i \in 1..(Len(q) - 1) : q[i + 1].cookie = NextCookie(q[i].cookie)
        /\ q # <<>> => q[Len(q)].cookie = last_used[c]

(* No descriptor in the queue counts as complete, across the wrap of the     *)
(* cookie too.                                                               *)
NoFalseSuccess ==
    \A c \in Chan : \A i \in DOMAIN queue[c] :
        ~dma_async_is_complete(queue[c][i].cookie, last_complete[c], last_used[c])
=============================================================================

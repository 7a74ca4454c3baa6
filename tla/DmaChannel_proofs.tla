-------------------------- MODULE DmaChannel_proofs --------------------------
(***************************************************************************)
(* Proofs about DmaChannel, for every number of channels and every largest *)
(* cookie: the cookies in a queue are the last ones given out, in order,   *)
(* and none of them is taken for complete.                                 *)
(***************************************************************************)
EXTENDS DmaChannel, TLAPS

TypeOK ==
    /\ queue \in [Chan -> Seq(Txd)]
    /\ going \in [Chan -> BOOLEAN]
    /\ last_used \in [Chan -> 0..MaxCookie]
    /\ last_complete \in [Chan -> 0..MaxCookie]

\* The cookie given out n submissions before cookie u.
Back(u, n) == IF u - n >= 1 THEN u - n ELSE u - n + MaxCookie

\* The number of cookies given out since cookie l, up to and with cookie u.
Since(l, u) == IF l <= u THEN u - l ELSE u - l + MaxCookie

\* Queue q holds the last cookies up to u, and no more than were given out since l.
Recent(q, l, u) ==
    /\ u = 0 => l = 0
    /\ Len(q) <= Since(l, u)
    /\ \A i \in 1..Len(q) : q[i].cookie = Back(u, Len(q) - i)

IInv ==
    /\ TypeOK
    /\ \A c \in Chan :
          /\ going[c] => queue[c] # <<>>
          /\ Recent(queue[c], last_complete[c], last_used[c])

Cookies == 0..MaxCookie

(* A submitted descriptor gets the cookie after the last one, which is free. *)
LEMMA RecentAppend ==
    ASSUME MaxCookie \in Nat \ {0}, NEW q \in Seq(Txd), NEW l \in Cookies, NEW u \in Cookies,
           Recent(q, l, u), NEW s \in BOOLEAN,
           NextCookie(u) # l, l = 0 => NextCookie(u) > u
    PROVE  Recent(Append(q, [cookie |-> NextCookie(u), signal |-> s]), l, NextCookie(u))
<1> DEFINE k == NextCookie(u)
           t == [cookie |-> k, signal |-> s]
           r == Append(q, t)
<1>1. Len(q) \in Nat /\ Len(r) = Len(q) + 1 /\ k \in 1..MaxCookie
  BY DEF NextCookie, Cookies
<1>2. Since(l, k) = Since(l, u) + 1
  BY DEF NextCookie, Since, Cookies
<1>3. Since(l, u) < MaxCookie /\ Since(l, u) \in Nat
  BY DEF NextCookie, Since, Cookies
<1>4. ASSUME NEW i \in 1..Len(r) PROVE r[i].cookie = Back(k, Len(r) - i)
  <2>1. CASE i = Len(r)
    BY <1>1, <2>1 DEF Back
  <2>2. CASE i # Len(r)
    <3>1. i \in 1..Len(q) /\ r[i] = q[i]  BY <1>1, <2>2
    <3>2. q[i].cookie = Back(u, Len(q) - i)  BY <3>1 DEF Recent
    <3>3. Len(q) <= Since(l, u)  BY DEF Recent
    <3> HIDE DEF r
    <3>4. Back(u, Len(q) - i) = Back(k, Len(q) + 1 - i)
      <4> DEFINE n == Len(q) - i
      <4>1. n \in Nat /\ n < Since(l, u) /\ Len(q) + 1 - i = n + 1  BY <1>1, <1>3, <3>1, <3>3
      <4> HIDE DEF n
      <4>2. Back(u, n) = Back(k, n + 1)
        BY <4>1, <1>3 DEF Back, NextCookie, Since, Cookies
      <4>3. QED  BY <4>1, <4>2 DEF n
    <3>5. QED  BY <1>1, <3>1, <3>2, <3>4
  <2>3. QED  BY <2>1, <2>2
<1>5. Len(r) <= Since(l, k)
  BY <1>1, <1>2, <1>3 DEF Recent
<1> HIDE DEF r
<1>6. k # 0  BY <1>1
<1>7. QED  BY <1>4, <1>5, <1>6 DEF Recent, r

(* The oldest descriptor completes. *)
LEMMA RecentTail ==
    ASSUME MaxCookie \in Nat \ {0}, NEW q \in Seq(Txd), NEW l \in Cookies, NEW u \in Cookies,
           Recent(q, l, u), q # <<>>
    PROVE  Recent(Tail(q), Head(q).cookie, u) /\ Head(q).cookie \in Cookies
<1> DEFINE k == Head(q).cookie
           r == Tail(q)
<1>1. Len(q) \in Nat \ {0} /\ Len(r) = Len(q) - 1 /\ k = q[1].cookie /\ k \in 1..MaxCookie
  <2>1. Len(q) \in Nat \ {0} /\ Len(r) = Len(q) - 1  OBVIOUS
  <2>2. Head(q) = q[1] /\ q[1] \in Txd  BY <2>1
  <2>3. QED  BY <2>1, <2>2 DEF Txd
<1>2. k = Back(u, Len(q) - 1) /\ Len(q) <= Since(l, u)
  BY <1>1 DEF Recent
<1>3. Since(l, u) \in 0..MaxCookie /\ (l # 0 => Since(l, u) < MaxCookie) /\ (l = 0 => Since(l, u) = u)
  BY DEF Since, Cookies
<1>4. Since(k, u) = Len(q) - 1
  <2> DEFINE n == Len(q) - 1
  <2>1. n \in Nat /\ n < Since(l, u) /\ k = Back(u, n)  BY <1>1, <1>2, <1>3
  <2> HIDE DEF n, k
  <2>2. Since(k, u) = n  BY <2>1, <1>3 DEF Since, Back, Cookies
  <2>3. QED  BY <2>2 DEF n
<1>5. ASSUME NEW i \in 1..Len(r) PROVE r[i].cookie = Back(u, Len(r) - i)
  <2>1. r[i] = q[i + 1] /\ i + 1 \in 1..Len(q)  BY <1>1
  <2>2. q[i + 1].cookie = Back(u, Len(q) - (i + 1))  BY <2>1 DEF Recent
  <2>3. Len(q) - (i + 1) = Len(r) - i  BY <1>1
  <2>4. QED  BY <2>1, <2>2, <2>3
<1> HIDE DEF r, k
<1>6. u # 0  BY <1>1, <1>2, <1>3 DEF Recent
<1>7. Recent(r, k, u)  BY <1>1, <1>4, <1>5, <1>6 DEF Recent
<1>8. QED  BY <1>1, <1>7 DEF r, k, Cookies

(* Initially every queue is empty. *)
LEMMA InitInv == ASSUME MaxCookie \in Nat \ {0} PROVE Init => IInv
<1> SUFFICES ASSUME Init PROVE IInv  OBVIOUS
<1>1. TypeOK  BY DEF Init, TypeOK
<1>2. ASSUME NEW c \in Chan
      PROVE (going[c] => queue[c] # <<>>) /\ Recent(queue[c], last_complete[c], last_used[c])
  BY DEF Init, Recent, Since
<1>3. QED  BY <1>1, <1>2 DEF IInv

(* Every step keeps the invariant. *)
LEMMA NextInv == ASSUME MaxCookie \in Nat \ {0} PROVE IInv /\ [Next]_vars => IInv'
<1> SUFFICES ASSUME IInv, [Next]_vars PROVE IInv'  OBVIOUS
<1> USE DEF TypeOK, IInv, Cookies
<1>1. ASSUME NEW c \in Chan, NEW s \in BOOLEAN, Submit(c, s) PROVE IInv'
  <2> DEFINE k == NextCookie(last_used[c])
             t == [cookie |-> k, signal |-> s]
  <2>1. k \in 1..MaxCookie /\ t \in Txd  BY DEF NextCookie, Txd
  <2>2. Append(queue[c], t) \in Seq(Txd) /\ Append(queue[c], t) # <<>>
    <3> HIDE DEF t
    <3>1. Append(queue[c], t) \in Seq(Txd) /\ Len(Append(queue[c], t)) = Len(queue[c]) + 1
      BY <2>1
    <3>2. Len(queue[c]) + 1 # 0  OBVIOUS
    <3>3. QED  BY <3>1, <3>2
  <2>3. Recent(Append(queue[c], t), last_complete[c], k)
    BY <1>1, RecentAppend DEF Submit, CookieFree
  <2>4. /\ last_used' = [last_used EXCEPT ![c] = k]
        /\ queue' = [queue EXCEPT ![c] = Append(queue[c], t)]
        /\ UNCHANGED <<going, last_complete>>
    BY <1>1 DEF Submit
  <2> HIDE DEF k, t
  <2>5. QED  BY <2>1, <2>2, <2>3, <2>4
<1>2. ASSUME NEW c \in Chan, Start(c) PROVE IInv'
  BY <1>2 DEF Start
<1>3. ASSUME NEW c \in Chan, Complete(c), going' \in [Chan -> BOOLEAN],
             \A d \in Chan \ {c} : going'[d] => queue[d] # <<>>,
             going'[c] => Tail(queue[c]) # <<>>
      PROVE IInv'
  <2>1. queue[c] # <<>> /\ Tail(queue[c]) \in Seq(Txd)  BY <1>3 DEF Complete
  <2>2. /\ Recent(Tail(queue[c]), Head(queue[c]).cookie, last_used[c])
        /\ Head(queue[c]).cookie \in Cookies
    BY <2>1, RecentTail
  <2>3. QED  BY <1>3, <2>1, <2>2 DEF Complete
<1>4. ASSUME NEW c \in Chan, CompleteAlone(c) PROVE IInv'
  <2>1. going' \in [Chan -> BOOLEAN] /\ (going'[c] => Tail(queue[c]) # <<>>)
    BY <1>4 DEF CompleteAlone
  <2>2. \A d \in Chan \ {c} : going'[d] => queue[d] # <<>>  BY <1>4 DEF CompleteAlone
  <2>3. QED  BY <1>3, <1>4, <2>1, <2>2 DEF CompleteAlone
<1>5. ASSUME NEW c \in Chan, NEW w \in Chan, CompleteAndStart(c, w) PROVE IInv'
  <2>1. going' \in [Chan -> BOOLEAN] /\ ~going'[c]  BY <1>5 DEF CompleteAndStart
  <2>2. \A d \in Chan \ {c} : going'[d] => queue[d] # <<>>  BY <1>5 DEF CompleteAndStart
  <2>3. QED  BY <1>3, <1>5, <2>1, <2>2 DEF CompleteAndStart
<1>6. ASSUME NEW c \in Chan, Discard(c) PROVE IInv'
  <2>1. Recent(<<>>, last_complete[c], last_used[c])  BY DEF Recent, Since
  <2>2. QED  BY <1>6, <2>1 DEF Discard
<1>8. CASE UNCHANGED vars  BY <1>8 DEF vars
<1>9. QED  BY <1>1, <1>2, <1>4, <1>5, <1>6, <1>8 DEF Next

(* What the invariant says of the cookies of a queue. *)
LEMMA RecentInOrder ==
    ASSUME MaxCookie \in Nat \ {0}, NEW q \in Seq(Txd), NEW l \in Cookies, NEW u \in Cookies,
           Recent(q, l, u)
    PROVE  /\ \A i \in 1..(Len(q) - 1) : q[i + 1].cookie = NextCookie(q[i].cookie)
           /\ q # <<>> => q[Len(q)].cookie = u
           /\ \A i \in DOMAIN q : ~dma_async_is_complete(q[i].cookie, l, u)
<1>0. Len(q) \in Nat /\ Len(q) <= Since(l, u) /\ Since(l, u) <= MaxCookie
  BY DEF Recent, Since, Cookies
<1>1. ASSUME NEW i \in 1..(Len(q) - 1) PROVE q[i + 1].cookie = NextCookie(q[i].cookie)
  <2> DEFINE n == Len(q) - i
  <2>1. /\ n \in Nat \ {0} /\ n < Since(l, u)
        /\ q[i].cookie = Back(u, n) /\ q[i + 1].cookie = Back(u, n - 1)
    <3>1. n \in Nat \ {0} /\ n < Since(l, u) /\ Len(q) - (i + 1) = n - 1
      BY <1>0 DEF Since, Cookies
    <3>2. i \in 1..Len(q) /\ i + 1 \in 1..Len(q)  BY <1>0
    <3>3. q[i].cookie = Back(u, Len(q) - i) /\ q[i + 1].cookie = Back(u, Len(q) - (i + 1))
      BY <3>2 DEF Recent
    <3>4. QED  BY <3>1, <3>3
  <2> HIDE DEF n
  <2>2. Back(u, n - 1) = NextCookie(Back(u, n))
    BY <1>0, <2>1 DEF Back, NextCookie, Since, Cookies
  <2>3. QED  BY <2>1, <2>2
<1>2. ASSUME q # <<>> PROVE q[Len(q)].cookie = u
  <2>1. Len(q) \in 1..Len(q)
    <3>1. Len(q) # 0  BY <1>2
    <3>2. QED  BY <1>0, <3>1
  <2>2. q[Len(q)].cookie = Back(u, Len(q) - Len(q))  BY <2>1 DEF Recent
  <2>3. Len(q) - Len(q) = 0 /\ Since(l, u) >= 1  BY <1>0, <2>1 DEF Since, Cookies
  <2>4. Back(u, 0) = u  BY <2>3 DEF Recent, Back, Since, Cookies
  <2>5. QED  BY <2>2, <2>3, <2>4
<1>3. ASSUME NEW i \in DOMAIN q PROVE ~dma_async_is_complete(q[i].cookie, l, u)
  <2> DEFINE n == Len(q) - i
  <2>1. n \in Nat /\ n < Since(l, u) /\ q[i].cookie = Back(u, n)
    <3>1. i \in 1..Len(q)  OBVIOUS
    <3>2. n \in Nat /\ n < Since(l, u)  BY <1>0, <3>1 DEF Since, Cookies
    <3>3. QED  BY <3>1, <3>2 DEF Recent
  <2> HIDE DEF n
  <2>2. ~dma_async_is_complete(Back(u, n), l, u)
    BY <1>0, <2>1 DEF Back, Since, Cookies, dma_async_is_complete
  <2>3. QED  BY <2>1, <2>2
<1>4. QED  BY <1>1, <1>2, <1>3

(* For every number of channels and every largest cookie: the queues hold    *)
(* the last descriptors submitted, in order, and a client that polls is      *)
(* never told that one of them is complete, across the wrap of the cookie    *)
(* too (dma_async_is_complete).                                              *)
THEOREM CookiesInOrder ==
    ASSUME MaxCookie \in Nat \ {0} PROVE Spec => [](QueueInOrder /\ NoFalseSuccess)
<1>1. IInv => QueueInOrder /\ NoFalseSuccess
  <2> SUFFICES ASSUME IInv PROVE QueueInOrder /\ NoFalseSuccess  OBVIOUS
  <2>1. \A c \in Chan : /\ queue[c] \in Seq(Txd) /\ last_complete[c] \in Cookies
                        /\ last_used[c] \in Cookies
                        /\ Recent(queue[c], last_complete[c], last_used[c])
    BY DEF IInv, TypeOK, Cookies
  <2>2. QED  BY <2>1, RecentInOrder DEF QueueInOrder, NoFalseSuccess
<1>2. QED  BY InitInv, NextInv, <1>1, PTL DEF Spec
=============================================================================

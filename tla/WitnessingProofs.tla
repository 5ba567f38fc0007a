-------------------------- MODULE WitnessingProofs --------------------------
(***************************************************************************)
(* Proofs about module Witnessing, for any logs, witnesses and heads, any  *)
(* number of restarts, and whether or not requests are lost, the operator  *)
(* rewrites what it has published and strangers post.                      *)
(*                                                                         *)
(* Three arguments.  A witness's memory bounds what it has signed: every     *)
(* head signed is a prefix of the last one, and two prefixes of one head   *)
(* are prefixes of one another.  The relay's cache only grows: what a      *)
(* worker has in hand is what the relay still holds or is smaller, so a    *)
(* countersignature of the cached size is over the cached checkpoint.  And *)
(* what the relay has under a witness's key is garbage or a signature that *)
(* witness made, so one that verifies was made for the checkpoint at hand. *)
(***************************************************************************)
EXTENDS Witnessing, TLAPS

-----------------------------------------------------------------------------
(* Heads and their prefixes. *)

\* A head is a sequence, and what it commits is what it holds at each index.
LEMMA HeadFacts ==
    ASSUME NEW h \in Heads
    PROVE  /\ Len(h) \in Nat
           /\ h \in Seq(Range(h))
           /\ DOMAIN h = 1..Len(h)
BY HeadsAssumption

LEMMA PrefixPoints ==
    ASSUME NEW g \in Heads, NEW h \in Heads
    PROVE  IsPrefix(g, h) <=> Len(g) <= Len(h) /\ \A i \in 1..Len(g) : g[i] = h[i]
<1>1. /\ g \in Seq(Range(g) \cup Range(h)) /\ h \in Seq(Range(g) \cup Range(h))
      /\ Len(g) \in Nat /\ Len(h) \in Nat
  BY HeadFacts
<1>2. ASSUME Len(g) <= Len(h)
      PROVE  /\ SubSeq(g, 1, Len(g)) = [i \in 1..Len(g) |-> g[i]]
             /\ SubSeq(h, 1, Len(g)) = [i \in 1..Len(g) |-> h[i]]
  BY <1>1, <1>2
<1>3. QED
  BY <1>1, <1>2 DEF IsPrefix

LEMMA PrefixReflexive ==
    ASSUME NEW h \in Heads
    PROVE  IsPrefix(h, h)
BY PrefixPoints, HeadFacts

LEMMA PrefixTransitive ==
    ASSUME NEW f \in Heads, NEW g \in Heads, NEW h \in Heads, IsPrefix(f, g), IsPrefix(g, h)
    PROVE  IsPrefix(f, h)
<1>1. Len(f) \in Nat /\ Len(g) \in Nat /\ Len(h) \in Nat
  BY HeadFacts
<1>2. /\ Len(f) <= Len(g) /\ \A i \in 1..Len(f) : f[i] = g[i]
      /\ Len(g) <= Len(h) /\ \A i \in 1..Len(g) : g[i] = h[i]
  BY PrefixPoints
<1>3. Len(f) <= Len(h) /\ \A i \in 1..Len(f) : f[i] = h[i]
  BY <1>1, <1>2
<1>4. QED
  BY <1>3, PrefixPoints

\* Two prefixes of one head are prefixes of one another.
LEMMA PrefixesAgree ==
    ASSUME NEW f \in Heads, NEW g \in Heads, NEW h \in Heads, IsPrefix(f, h), IsPrefix(g, h)
    PROVE  IsPrefix(f, g) \/ IsPrefix(g, f)
<1>1. Len(f) \in Nat /\ Len(g) \in Nat
  BY HeadFacts
<1>2. /\ \A i \in 1..Len(f) : f[i] = h[i]
      /\ \A i \in 1..Len(g) : g[i] = h[i]
  BY PrefixPoints
<1>3. CASE Len(f) <= Len(g)
  BY <1>1, <1>2, <1>3, PrefixPoints
<1>4. CASE Len(g) <= Len(f)
  BY <1>1, <1>2, <1>4, PrefixPoints
<1>5. QED
  BY <1>1, <1>3, <1>4

\* The empty log is a prefix of every log.
LEMMA EmptyPrefix ==
    ASSUME NEW g \in Heads, NEW h \in Heads, Len(g) = 0
    PROVE  IsPrefix(g, h)
BY PrefixPoints, HeadFacts

\* What a consistency proof shows: whatever was a prefix of the old head is one of
\* the new head.
LEMMA ConsistentExtends ==
    ASSUME NEW prev \in Checkpoints, NEW m \in Messages, Consistent(prev, m),
           NEW g \in Heads, IsPrefix(g, prev.head)
    PROVE  IsPrefix(g, m.cp.head)
<1>1. prev.head \in Heads /\ m.cp.head \in Heads
  BY DEF Checkpoints, Messages
<1>2. CASE Size(prev) = 0
  <2>1. Len(g) = 0
    BY <1>1, <1>2, PrefixPoints, HeadFacts DEF Size
  <2>2. QED
    BY <1>1, <2>1, EmptyPrefix
<1>3. CASE prev.head = m.cp.head
  BY <1>3
<1>4. CASE IsPrefix(prev.head, m.cp.head)
  BY <1>1, <1>4, PrefixTransitive
<1>5. QED
  BY <1>2, <1>3, <1>4 DEF Consistent

-----------------------------------------------------------------------------
(* Type correctness. *)

Typed == TypeOK /\ \A w \in Witnesses : got[w] # None => cur[w] \in Logs

LEMMA InitTyped == Init => Typed
<1> SUFFICES ASSUME Init PROVE Typed
  OBVIOUS
<1>1. /\ [k \in Keys |-> None] \in [Keys -> Signatures \cup {None}]
      /\ [l \in Logs |-> None] \in [Logs -> Checkpoints \cup {None}]
      /\ [l \in Logs |-> {}] \in [Logs -> SUBSET Checkpoints]
  OBVIOUS
<1>2. /\ published \in [Logs -> Heads]
      /\ cosigned \in [Logs -> [Keys -> Signatures \cup {None}]]
      /\ last \in [Witnesses -> [Logs -> Checkpoints \cup {None}]]
      /\ {signed, older} \subseteq [Witnesses -> [Logs -> SUBSET Checkpoints]]
  BY <1>1, HeadsAssumption DEF Init
<1>3. /\ restarts \in 0..MaxRestarts
      /\ todo \in [Witnesses -> SUBSET Logs]
  BY BoundsAssumption DEF Init
<1>4. QED
  BY <1>2, <1>3 DEF Init, Typed, TypeOK

\* The proof of a published head starts at the size of a head.
LEMMA FromIsASize ==
    ASSUME NEW h \in Heads, NEW at \in Instants, NEW v \in BOOLEAN, NEW n \in 0..Len(h)
    PROVE  [cp |-> [head |-> h, at |-> at], valid |-> v, from |-> n] \in Messages
<1>1. SubSeq(h, 1, n) \in Heads
  BY HeadsAssumption
<1>2. Len(SubSeq(h, 1, n)) = n
  BY HeadFacts
<1>3. QED
  BY <1>1, <1>2 DEF Messages, Checkpoints

LEMMA PublishTyped ==
    ASSUME Typed, NEW l \in Logs, NEW m \in Messages, handlePublish(l, m)
    PROVE  /\ relay' \in [Logs -> Messages \cup {None}]
           /\ cosigned' \in [Logs -> [Keys -> Signatures \cup {None}]]
<1>1. [k \in Keys |-> None] \in [Keys -> Signatures \cup {None}]
  OBVIOUS
<1>2. CASE UNCHANGED cache
  BY <1>2 DEF Typed, TypeOK, cache
<1>3. CASE /\ relay' = [relay EXCEPT ![l] = m]
           /\ cosigned' = [cosigned EXCEPT ![l] = [k \in Keys |-> None]]
  BY <1>1, <1>3 DEF Typed, TypeOK
<1>4. QED
  BY <1>2, <1>3 DEF handlePublish

LEMMA CountersigTyped ==
    ASSUME Typed, NEW l \in Logs, NEW k \in Keys, NEW n, NEW sig \in Signatures,
           handleCountersig(l, k, n, sig) \/ UNCHANGED cache
    PROVE  relay' = relay /\ cosigned' \in [Logs -> [Keys -> Signatures \cup {None}]]
<1>1. [cosigned[l] EXCEPT ![k] = sig] \in [Keys -> Signatures \cup {None}]
  BY DEF Typed, TypeOK
<1>2. \/ cosigned' = cosigned
      \/ cosigned' = [cosigned EXCEPT ![l] = [cosigned[l] EXCEPT ![k] = sig]]
  BY DEF handleCountersig, cache, Typed, TypeOK
<1>3. cosigned' \in [Logs -> [Keys -> Signatures \cup {None}]]
  BY <1>1, <1>2 DEF Typed, TypeOK
<1>4. QED
  BY <1>3 DEF handleCountersig, cache

LEMMA NextTyped ==
    ASSUME Typed, [Next]_vars
    PROVE  Typed'
<1> USE DEF Typed, TypeOK, cache, worker, memory
<1>1. ASSUME NEW l \in Logs, NEW h \in Heads, NEW at \in Instants, Publish(l, h, at)
      PROVE  Typed'
  <2> DEFINE m == [cp |-> [head |-> h, at |-> at], valid |-> TRUE, from |-> Len(published[l])]
  <2>1. Len(published[l]) \in 0..Len(h)
    BY <1>1, PrefixPoints, HeadFacts DEF Publish
  <2>2. m \in Messages
    BY <2>1, FromIsASize
  <2>3. handlePublish(l, m) /\ UNCHANGED <<worker, memory>>
    BY <1>1 DEF Publish
  <2>4. /\ relay' \in [Logs -> Messages \cup {None}]
        /\ cosigned' \in [Logs -> [Keys -> Signatures \cup {None}]]
    BY <2>2, <2>3, PublishTyped
  <2>5. published' \in [Logs -> Heads]
    BY <1>1 DEF Publish
  <2>6. QED
    BY <2>3, <2>4, <2>5
<1>2. ASSUME NEW l \in Logs, NEW h \in Heads, NEW at \in Instants, PublishRewritten(l, h, at)
      PROVE  Typed'
  <2>1. PICK from \in 0..Len(h) : handlePublish(l, [cp |-> [head |-> h, at |-> at], valid |-> TRUE, from |-> from])
    BY <1>2 DEF PublishRewritten
  <2>2. /\ relay' \in [Logs -> Messages \cup {None}]
        /\ cosigned' \in [Logs -> [Keys -> Signatures \cup {None}]]
    BY <2>1, FromIsASize, PublishTyped
  <2>3. QED
    BY <1>2, <2>2 DEF PublishRewritten
<1>2a. ASSUME NEW l \in Logs, NEW h \in Heads, NEW at \in Instants, PublishForged(l, h, at)
       PROVE  Typed'
  <2>1. Len(h) \in 0..Len(h)
    BY HeadFacts
  <2>2. /\ relay' \in [Logs -> Messages \cup {None}]
        /\ cosigned' \in [Logs -> [Keys -> Signatures \cup {None}]]
    BY <1>2a, <2>1, FromIsASize, PublishTyped DEF PublishForged
  <2>3. QED
    BY <1>2a, <2>2 DEF PublishForged
<1>3. ASSUME NEW w \in Witnesses, List(w)
      PROVE  Typed'
  BY <1>3 DEF List
<1>4. ASSUME NEW w \in Witnesses, Done(w)
      PROVE  Typed'
  BY <1>4 DEF Done
<1>5. ASSUME NEW w \in Witnesses, Refuse(w)
      PROVE  Typed'
  BY <1>5, NoneAssumption DEF Refuse, NextLog
<1>6. ASSUME NEW w \in Witnesses, Countersign(w)
      PROVE  Typed'
  <2>1. cur[w] \in Logs /\ got[w] \in Messages /\ got[w].cp \in Checkpoints
    BY <1>6 DEF Countersign, Messages
  <2>2. last' \in [Witnesses -> [Logs -> Checkpoints \cup {None}]]
    BY <1>6, <2>1 DEF Countersign
  <2>3. signed' \in [Witnesses -> [Logs -> SUBSET Checkpoints]]
    <3>1. signed[w][cur[w]] \cup {got[w].cp} \in SUBSET Checkpoints
      BY <2>1
    <3>2. signed' = [signed EXCEPT ![w] = [signed[w] EXCEPT ![cur[w]] = signed[w][cur[w]] \cup {got[w].cp}]]
      BY <1>6, <2>1 DEF Countersign
    <3>3. QED
      BY <2>1, <3>1, <3>2
  <2>4. QED
    BY <1>6, <2>2, <2>3 DEF Countersign
<1>7. ASSUME NEW w \in Witnesses, Post(w)
      PROVE  Typed'
  <2>1. cur[w] \in Logs /\ got[w] \in Messages /\ got[w].cp \in Signatures /\ w \in Keys
    BY <1>7 DEF Post, Messages, Signatures, Keys
  <2>2. relay' = relay /\ cosigned' \in [Logs -> [Keys -> Signatures \cup {None}]]
    BY <1>7, <2>1, CountersigTyped DEF Post
  <2>3. QED
    BY <1>7, <2>2, NoneAssumption DEF Post, NextLog
<1>7a. ASSUME NEW k \in Keys, NEW l \in Logs, PostUnder(k, l)
       PROVE  Typed'
  <2>1. PICK sig \in Postable(k, l), n \in {Len(h) : h \in Heads} : handleCountersig(l, k, n, sig)
    BY <1>7a DEF PostUnder
  <2>2. sig \in Signatures
    BY DEF Postable, Signatures
  <2>3. relay' = relay /\ cosigned' \in [Logs -> [Keys -> Signatures \cup {None}]]
    BY <2>1, <2>2, CountersigTyped
  <2>4. QED
    BY <1>7a, <2>3 DEF PostUnder
<1>8. ASSUME NEW w \in Witnesses, NEW l \in Logs, Fetch(w, l)
      PROVE  Typed'
  <2>1. todo' \in [Witnesses -> SUBSET Logs]
    <3>1. todo[w] \ {l} \in SUBSET Logs
      OBVIOUS
    <3>2. QED
      BY <1>8, <3>1 DEF Fetch
  <2>2. CASE relay[l] # None /\ pc' = [pc EXCEPT ![w] = "sign"] /\ cur' = [cur EXCEPT ![w] = l]
             /\ got' = [got EXCEPT ![w] = relay[l]]
    BY <1>8, <2>1, <2>2, NoneAssumption DEF Fetch
  <2>3. CASE UNCHANGED <<pc, cur, got>>
    BY <1>8, <2>1, <2>3 DEF Fetch
  <2>4. QED
    BY <1>8, <2>2, <2>3 DEF Fetch
<1>9. ASSUME NEW w \in Witnesses, Restart(w)
      PROVE  Typed'
  <2>1. [l \in Logs |-> older[w][l] \cup signed[w][l]] \in [Logs -> SUBSET Checkpoints]
    OBVIOUS
  <2>2. older' \in [Witnesses -> [Logs -> SUBSET Checkpoints]]
    BY <1>9, <2>1 DEF Restart
  <2>3. signed' \in [Witnesses -> [Logs -> SUBSET Checkpoints]]
    BY <1>9 DEF Restart
  <2>4. QED
    BY <1>9, <2>2, <2>3, BoundsAssumption DEF Restart
<1>10. CASE RestartRelay
  BY <1>10, BoundsAssumption DEF RestartRelay
<1>11. CASE UNCHANGED vars
  BY <1>11 DEF vars
<1>12. QED
  BY <1>1, <1>2, <1>2a, <1>3, <1>4, <1>5, <1>6, <1>7, <1>7a, <1>8, <1>9, <1>10, <1>11 DEF Next, Step

\* The caches and the memories of the workers keep their shape, and a worker has a
\* message in hand exactly while it is signing or posting one.
THEOREM TypeCorrect == Spec => []TypeOK
<1>1. Typed => TypeOK
  BY DEF Typed
<1>2. Typed /\ [Next]_vars => Typed'
  BY NextTyped
<1>3. QED
  BY <1>1, <1>2, InitTyped, PTL DEF Spec

-----------------------------------------------------------------------------
(* The inductive invariant. *)

\* Every checkpoint a running witness has signed of a log is over a prefix of what it
\* remembers, and what it is about to post it has signed.
Remembered ==
    /\ \A w \in Witnesses, l \in Logs : \A c \in signed[w][l] :
          last[w][l] # None /\ IsPrefix(c.head, last[w][l].head)
    /\ \A w \in Witnesses : pc[w] = "post" => got[w].cp \in signed[w][cur[w]]

\* What a worker has in hand is what a relay that kept its cache holds, or is smaller.
InHand ==
    ~lost => \A w \in Witnesses : got[w] # None =>
        /\ relay[cur[w]] # None
        /\ got[w] = relay[cur[w]] \/ Size(got[w].cp) < Size(relay[cur[w]].cp)

\* A countersignature is of a log the relay holds.
OfALog == \A l \in Logs, k \in Keys : cosigned[l][k] # None => relay[l] # None

\* What the relay has under the key of a witness that is not the operator is garbage or
\* was made by that witness.
Genuine ==
    \A l \in Logs, w \in Witnesses \ {Operator} :
        cosigned[l][w] \in {None, Garbage} \cup signed[w][l] \cup older[w][l]

Views == Remembered /\ InHand /\ OfALog /\ Genuine

IInv == Typed /\ Views

LEMMA InitInv == Init => IInv
<1> SUFFICES ASSUME Init PROVE IInv
  OBVIOUS
<1>1. \A l \in Logs, k \in Keys : cosigned[l][k] = None
  BY DEF Init
<1>2. Remembered /\ InHand
  BY DEF Init, Remembered, InHand
<1>3. OfALog /\ Genuine
  BY <1>1 DEF OfALog, Genuine, Keys
<1>4. QED
  BY <1>2, <1>3, InitTyped DEF IInv, Views

\* Steps that leave the workers alone and only let the cache of one log grow.
LEMMA PublishInv ==
    ASSUME IInv, NEW l \in Logs, NEW m \in Messages, handlePublish(l, m), UNCHANGED <<worker, memory>>
    PROVE  Views'
<1> USE DEF worker, memory
<1>1. CASE UNCHANGED cache
  BY <1>1 DEF cache, IInv, Views, Remembered, InHand, OfALog, Genuine
<1>2. CASE /\ relay[l] = None \/ Size(m.cp) > Size(relay[l].cp)
           /\ relay' = [relay EXCEPT ![l] = m]
           /\ cosigned' = [cosigned EXCEPT ![l] = [k \in Keys |-> None]]
  <2>1. m # None /\ Size(m.cp) \in Nat /\ (relay[l] # None => Size(relay[l].cp) \in Nat)
    BY NoneAssumption, HeadFacts DEF IInv, Typed, TypeOK, Messages, Checkpoints, Size
  <2>2. /\ relay'[l] = m /\ \A j \in Logs \ {l} : relay'[j] = relay[j]
        /\ \A k \in Keys : cosigned'[l][k] = None
        /\ \A j \in Logs \ {l} : cosigned'[j] = cosigned[j]
    BY <1>2 DEF IInv, Typed, TypeOK
  <2>3. Remembered'
    BY DEF IInv, Views, Remembered
  <2>4. InHand'
    <3> SUFFICES ASSUME ~lost, NEW w \in Witnesses, got[w] # None
                 PROVE  /\ relay'[cur[w]] # None
                        /\ got[w] = relay'[cur[w]] \/ Size(got[w].cp) < Size(relay'[cur[w]].cp)
      BY DEF InHand
    <3>1. /\ cur[w] \in Logs /\ relay[cur[w]] # None
          /\ got[w] = relay[cur[w]] \/ Size(got[w].cp) < Size(relay[cur[w]].cp)
      BY DEF IInv, Views, InHand, Typed
    <3>2. Size(got[w].cp) \in Nat
      BY HeadFacts DEF IInv, Typed, TypeOK, Messages, Checkpoints, Size
    <3>3. QED
      BY <3>1, <3>2, <2>1, <2>2, <1>2
  <2>5. OfALog'
    BY <2>1, <2>2 DEF IInv, Views, OfALog
  <2>6. Genuine'
    BY <2>2 DEF IInv, Views, Genuine, Keys
  <2>7. QED
    BY <2>3, <2>4, <2>5, <2>6 DEF Views
<1>3. QED
  BY <1>1, <1>2 DEF handlePublish

LEMMA CountersignInv ==
    ASSUME IInv, NEW w \in Witnesses, Countersign(w)
    PROVE  Views'
<1>1. /\ cur[w] \in Logs /\ got[w] \in Messages /\ got[w].cp \in Checkpoints
      /\ got[w].cp.head \in Heads /\ got[w].cp # None
  BY NoneAssumption DEF Countersign, IInv, Typed, TypeOK, Messages, Checkpoints, Signatures
<1>2. /\ last'[w][cur[w]] = got[w].cp
      /\ \A v \in Witnesses, l \in Logs : <<v, l>> # <<w, cur[w]>> =>
            last'[v][l] = last[v][l] /\ signed'[v][l] = signed[v][l]
      /\ signed'[w][cur[w]] = signed[w][cur[w]] \cup {got[w].cp}
      /\ got' = got /\ cur' = cur /\ older' = older /\ lost' = lost
      /\ pc' = [pc EXCEPT ![w] = "post"]
      /\ relay' = relay /\ cosigned' = cosigned
  BY <1>1 DEF Countersign, cache, IInv, Typed, TypeOK
<1>3. ASSUME NEW c \in signed[w][cur[w]]
      PROVE  IsPrefix(c.head, got[w].cp.head)
  <2>1. last[w][cur[w]] # None /\ IsPrefix(c.head, last[w][cur[w]].head)
    BY <1>1 DEF IInv, Views, Remembered
  <2>2. c.head \in Heads /\ last[w][cur[w]] \in Checkpoints
    BY <1>1, <2>1 DEF IInv, Typed, TypeOK, Checkpoints
  <2>3. QED
    BY <1>1, <2>1, <2>2, ConsistentExtends DEF Countersign, Accepts
<1>4. \A v \in Witnesses, l \in Logs : signed[v][l] \subseteq signed'[v][l]
  BY <1>2
<1>5. Remembered'
  <2>1. ASSUME NEW v \in Witnesses, NEW l \in Logs, NEW c \in signed'[v][l]
        PROVE  last'[v][l] # None /\ IsPrefix(c.head, last'[v][l].head)
    <3>1. CASE <<v, l>> = <<w, cur[w]>>
      BY <1>1, <1>2, <1>3, <2>1, <3>1, PrefixReflexive
    <3>2. CASE <<v, l>> # <<w, cur[w]>>
      BY <1>2, <2>1, <3>2 DEF IInv, Views, Remembered
    <3>3. QED
      BY <3>1, <3>2
  <2>2. ASSUME NEW v \in Witnesses, pc'[v] = "post"
        PROVE  got'[v].cp \in signed'[v][cur'[v]]
    <3>1. CASE v = w
      BY <1>1, <1>2, <3>1
    <3>2. CASE v # w
      <4>1. pc[v] = "post"
        BY <1>2, <2>2, <3>2 DEF IInv, Typed, TypeOK
      <4>2. cur[v] \in Logs /\ got[v].cp \in signed[v][cur[v]]
        BY <4>1 DEF IInv, Views, Remembered, Typed, TypeOK
      <4>3. QED
        BY <1>2, <1>4, <4>2
    <3>3. QED
      BY <3>1, <3>2
  <2>3. QED
    BY <2>1, <2>2 DEF Remembered
<1>6. InHand' /\ OfALog'
  BY <1>2 DEF IInv, Views, InHand, OfALog
<1>7. Genuine'
  BY <1>2, <1>4 DEF IInv, Views, Genuine
<1>8. QED
  BY <1>5, <1>6, <1>7 DEF Views

\* What handleCountersig takes, it takes under one key, and only for a log it holds.
LEMMA CountersigInv ==
    ASSUME IInv, NEW l \in Logs, NEW k \in Keys, NEW n,
           NEW sig \in {Garbage} \cup (IF k \in Witnesses THEN signed[k][l] \cup older[k][l] ELSE {})
                                 \cup (IF k = Operator THEN Checkpoints ELSE {}),
           handleCountersig(l, k, n, sig) \/ UNCHANGED cache,
           UNCHANGED <<signed, older>>
    PROVE  OfALog' /\ Genuine'
<1>1. relay' = relay
  BY DEF handleCountersig, cache
<1>2. \A j \in Logs, v \in Keys :
        \/ cosigned'[j][v] = cosigned[j][v]
        \/ j = l /\ v = k /\ cosigned'[j][v] = sig /\ relay[l] # None
  BY DEF handleCountersig, cache, IInv, Typed, TypeOK
<1>3. OfALog'
  BY <1>1, <1>2 DEF IInv, Views, OfALog
<1>4. Genuine'
  <2> SUFFICES ASSUME NEW j \in Logs, NEW w \in Witnesses \ {Operator}
               PROVE  cosigned'[j][w] \in {None, Garbage} \cup signed[w][j] \cup older[w][j]
    BY DEF Genuine
  <2>1. CASE cosigned'[j][w] = cosigned[j][w]
    BY <2>1 DEF IInv, Views, Genuine
  <2>2. CASE j = l /\ w = k /\ cosigned'[j][w] = sig
    BY <2>2
  <2>3. QED
    BY <1>2, <2>1, <2>2 DEF Keys
<1>5. QED
  BY <1>3, <1>4

LEMMA PostInv ==
    ASSUME IInv, NEW w \in Witnesses, Post(w)
    PROVE  Views'
<1>1. cur[w] \in Logs /\ got[w].cp \in signed[w][cur[w]] /\ w \in Keys
  BY DEF Post, IInv, Views, Remembered, Typed, TypeOK, Keys
<1>2. /\ relay' = relay /\ last' = last /\ signed' = signed /\ older' = older /\ lost' = lost
      /\ pc' = [pc EXCEPT ![w] = "next"]
      /\ got'[w] = None
      /\ \A v \in Witnesses \ {w} : got'[v] = got[v] /\ cur'[v] = cur[v]
  BY DEF Post, NextLog, handleCountersig, cache, memory, IInv, Typed, TypeOK
<1>3. Remembered'
  <2>1. \A v \in Witnesses : pc'[v] = "post" => v # w /\ pc[v] = "post"
    BY <1>2 DEF IInv, Typed, TypeOK
  <2>2. QED
    BY <1>2, <2>1 DEF IInv, Views, Remembered
<1>4. InHand'
  BY <1>2 DEF IInv, Views, InHand
<1>5. OfALog' /\ Genuine'
  BY <1>1, <1>2, CountersigInv DEF Post
<1>6. QED
  BY <1>3, <1>4, <1>5 DEF Views

LEMMA NextInv ==
    ASSUME IInv, [Next]_vars
    PROVE  IInv'
<1>1. Typed'
  BY NextTyped DEF IInv
<1> SUFFICES Views'
  BY <1>1 DEF IInv
<1>2. ASSUME NEW l \in Logs, NEW h \in Heads, NEW at \in Instants, Publish(l, h, at)
      PROVE  Views'
  <2>1. Len(published[l]) \in 0..Len(h)
    BY <1>2, PrefixPoints, HeadFacts DEF Publish, IInv, Typed, TypeOK
  <2>2. QED
    BY <1>2, <2>1, FromIsASize, PublishInv DEF Publish
<1>3. ASSUME NEW l \in Logs, NEW h \in Heads, NEW at \in Instants, PublishRewritten(l, h, at)
      PROVE  Views'
  BY <1>3, FromIsASize, PublishInv DEF PublishRewritten
<1>4. ASSUME NEW l \in Logs, NEW h \in Heads, NEW at \in Instants, PublishForged(l, h, at)
      PROVE  Views'
  <2>1. Len(h) \in 0..Len(h)
    BY HeadFacts
  <2>2. QED
    BY <1>4, <2>1, FromIsASize, PublishInv DEF PublishForged
<1>5. ASSUME NEW w \in Witnesses, List(w) \/ Done(w) \/ Refuse(w)
      PROVE  Views'
  <2>1. /\ UNCHANGED <<relay, cosigned, last, signed, older, lost>>
        /\ \A v \in Witnesses : pc'[v] = "post" => pc[v] = "post"
        /\ \A v \in Witnesses : \/ got'[v] = got[v] /\ cur'[v] = cur[v]
                                \/ got'[v] = None /\ pc'[v] # "post"
    BY <1>5 DEF List, Done, Refuse, NextLog, cache, memory, IInv, Typed, TypeOK
  <2>2. Remembered' /\ InHand'
    BY <2>1 DEF IInv, Views, Remembered, InHand
  <2>3. OfALog' /\ Genuine'
    BY <2>1 DEF IInv, Views, OfALog, Genuine
  <2>4. QED
    BY <2>2, <2>3 DEF Views
<1>6. ASSUME NEW w \in Witnesses, Countersign(w)
      PROVE  Views'
  BY <1>6, CountersignInv
<1>7. ASSUME NEW w \in Witnesses, Post(w)
      PROVE  Views'
  BY <1>7, PostInv
<1>8. ASSUME NEW k \in Keys, NEW l \in Logs, PostUnder(k, l)
      PROVE  Views'
  <2>1. PICK sig \in Postable(k, l), n \in {Len(h) : h \in Heads} : handleCountersig(l, k, n, sig)
    BY <1>8 DEF PostUnder
  <2>2. relay' = relay /\ UNCHANGED <<worker, memory>>
    BY <1>8, <2>1 DEF PostUnder, handleCountersig
  <2>3. OfALog' /\ Genuine'
    BY <2>1, <2>2, CountersigInv DEF Postable, memory
  <2>4. Remembered' /\ InHand'
    BY <2>2 DEF worker, memory, IInv, Views, Remembered, InHand
  <2>5. QED
    BY <2>3, <2>4 DEF Views
<1>9. ASSUME NEW w \in Witnesses, NEW l \in Logs, Fetch(w, l)
      PROVE  Views'
  <2>1. /\ UNCHANGED <<relay, cosigned, last, signed, older, lost>>
        /\ \A v \in Witnesses : pc'[v] = "post" => pc[v] = "post" /\ got'[v] = got[v] /\ cur'[v] = cur[v]
    BY <1>9 DEF Fetch, cache, memory, IInv, Typed, TypeOK
  <2>2. \A v \in Witnesses : \/ got'[v] = got[v] /\ cur'[v] = cur[v]
                             \/ got'[v] = relay[l] /\ cur'[v] = l /\ relay[l] # None
    BY <1>9 DEF Fetch, IInv, Typed, TypeOK
  <2>3. Remembered'
    BY <2>1 DEF IInv, Views, Remembered
  <2>4. InHand'
    BY <2>1, <2>2 DEF IInv, Views, InHand
  <2>5. OfALog' /\ Genuine'
    BY <2>1 DEF IInv, Views, OfALog, Genuine
  <2>6. QED
    BY <2>3, <2>4, <2>5 DEF Views
<1>10. ASSUME NEW w \in Witnesses, Restart(w)
       PROVE  Views'
  <2>1. /\ UNCHANGED <<relay, cosigned, lost>>
        /\ pc'[w] = "idle" /\ got'[w] = None
        /\ \A v \in Witnesses \ {w} : pc'[v] = pc[v] /\ got'[v] = got[v] /\ cur'[v] = cur[v]
                                      /\ last'[v] = last[v] /\ signed'[v] = signed[v] /\ older'[v] = older[v]
        /\ \A l \in Logs : signed'[w][l] = {} /\ older'[w][l] = older[w][l] \cup signed[w][l]
    BY <1>10 DEF Restart, cache, IInv, Typed, TypeOK
  <2>2. Remembered'
    BY <2>1 DEF IInv, Views, Remembered
  <2>3. InHand' /\ OfALog'
    BY <2>1 DEF IInv, Views, InHand, OfALog
  <2>4. \A v \in Witnesses, l \in Logs : signed[v][l] \cup older[v][l] = signed'[v][l] \cup older'[v][l]
    BY <2>1
  <2>5. Genuine'
    BY <2>1, <2>4 DEF IInv, Views, Genuine
  <2>6. QED
    BY <2>2, <2>3, <2>5 DEF Views
<1>11. CASE RestartRelay
  <2>1. \A l \in Logs, k \in Keys : cosigned'[l][k] = None
    BY <1>11 DEF RestartRelay
  <2>2. Remembered' /\ InHand'
    BY <1>11 DEF RestartRelay, worker, IInv, Views, Remembered, InHand
  <2>3. OfALog' /\ Genuine'
    BY <2>1 DEF OfALog, Genuine, Keys
  <2>4. QED
    BY <2>2, <2>3 DEF Views
<1>12. CASE UNCHANGED vars
  BY <1>12 DEF vars, cache, worker, memory, IInv, Views, Remembered, InHand, OfALog, Genuine
<1>13. QED
  BY <1>2, <1>3, <1>4, <1>5, <1>6, <1>7, <1>8, <1>9, <1>10, <1>11, <1>12 DEF Next, Step

-----------------------------------------------------------------------------
(* What follows from it. *)

\* Whatever the operator publishes and strangers post, in whatever order it arrives, the
\* heads one running witness signs for a log are prefixes of one another.
THEOREM NoWitnessSplitsTheView == Spec => []NoSplitView
<1>1. IInv => NoSplitView
  <2> SUFFICES ASSUME IInv, NEW w \in Witnesses, NEW l \in Logs,
                      NEW c \in signed[w][l], NEW d \in signed[w][l]
               PROVE  IsPrefix(c.head, d.head) \/ IsPrefix(d.head, c.head)
    BY DEF NoSplitView
  <2>1. c.head \in Heads /\ d.head \in Heads
    BY DEF IInv, Typed, TypeOK, Checkpoints
  <2>2. last[w][l] # None /\ IsPrefix(c.head, last[w][l].head) /\ IsPrefix(d.head, last[w][l].head)
    BY DEF IInv, Views, Remembered
  <2>3. last[w][l].head \in Heads
    BY <2>2 DEF IInv, Typed, TypeOK, Checkpoints
  <2>4. QED
    BY <2>1, <2>2, <2>3, PrefixesAgree
<1>2. IInv /\ [Next]_vars => IInv'
  BY NextInv
<1>3. QED
  BY <1>1, <1>2, InitInv, PTL DEF Spec

\* Matching by size is enough for a worker: in a relay that kept its cache, a worker's
\* POST of the cached size is over the cached checkpoint.
THEOREM WorkersPostsVerify == Spec => []TakenPostsVerify
<1>1. IInv => TakenPostsVerify
  <2> SUFFICES ASSUME IInv, ~lost, NEW w \in Witnesses, pc[w] = "post",
                      Size(got[w].cp) = Size(relay[cur[w]].cp)
               PROVE  got[w].cp = relay[cur[w]].cp
    BY DEF TakenPostsVerify
  <2>1. got[w] \in Messages /\ got[w] # None
    BY DEF IInv, Typed, TypeOK
  <2>2. Size(got[w].cp) \in Nat
    BY <2>1, HeadFacts DEF Messages, Checkpoints, Size
  <2>3. got[w] = relay[cur[w]]
    BY <2>1, <2>2 DEF IInv, Views, InHand
  <2>4. QED
    BY <2>3
<1>2. IInv /\ [Next]_vars => IInv'
  BY NextInv
<1>3. QED
  BY <1>1, <1>2, InitInv, PTL DEF Spec

\* Whatever strangers and the operator post, and under whatever names: each witness
\* StandIn counts in a bundle has countersigned the bundle's own checkpoint.
THEOREM OnlySignersCounted == Spec => []CountedHaveSigned
<1>1. IInv => CountedHaveSigned
  <2> SUFFICES ASSUME IInv, NEW l \in Logs, NEW w \in Counted(l)
               PROVE  w # Operator /\ w \in Witnesses /\ relay[l].cp \in signed[w][l] \cup older[w][l]
    BY DEF CountedHaveSigned
  <2>1. w \in Witnesses \ {Operator} /\ relay[l] # None /\ cosigned[l][w] = relay[l].cp
    BY DEF Counted, Keys
  <2>2. relay[l].cp \in Checkpoints
    BY <2>1 DEF IInv, Typed, TypeOK, Messages
  <2>3. relay[l].cp # None /\ relay[l].cp # Garbage
    BY <2>2, NoneAssumption DEF Signatures
  <2>4. QED
    BY <2>1, <2>3 DEF IInv, Views, Genuine
<1>2. IInv /\ [Next]_vars => IInv'
  BY NextInv
<1>3. QED
  BY <1>1, <1>2, InitInv, PTL DEF Spec

\* A name that has a countersignature in a bundle keeps one until a larger checkpoint
\* takes its place or the whole cache goes: re-publishing undoes nothing.
THEOREM WitnessingKept == Spec => WitnessingIsKept
<1> DEFINE Kept(l, k) == cosigned[l][k] # None /\ cosigned'[l][k] = None
                             => relay'[l] = None \/ Size(relay'[l].cp) > Size(relay[l].cp)
<1>1. ASSUME IInv, [Next]_vars, NEW l \in Logs, NEW k \in Keys
      PROVE  Kept(l, k)
  <2>1. ASSUME NEW j \in Logs, NEW m \in Messages, handlePublish(j, m)
        PROVE  Kept(l, k)
    BY <1>1, <2>1 DEF handlePublish, cache, IInv, Views, Typed, TypeOK, OfALog
  <2>2. ASSUME NEW j \in Logs, NEW v \in Keys, NEW n, NEW sig \in Signatures,
               handleCountersig(j, v, n, sig)
        PROVE  Kept(l, k)
    BY <1>1, <2>2, NoneAssumption DEF handleCountersig, IInv, Typed, TypeOK
  <2>3. CASE cosigned' = cosigned
    BY <2>3
  <2>4. CASE RestartRelay
    BY <2>4 DEF RestartRelay
  <2>5. ASSUME NEW j \in Logs, NEW h \in Heads, NEW at \in Instants, Publish(j, h, at)
        PROVE  Kept(l, k)
    <3>1. Len(published[j]) \in 0..Len(h)
      BY <1>1, <2>5, PrefixPoints, HeadFacts DEF Publish, IInv, Typed, TypeOK
    <3>2. QED
      BY <2>1, <2>5, <3>1, FromIsASize DEF Publish
  <2>6. ASSUME NEW j \in Logs, NEW h \in Heads, NEW at \in Instants,
               PublishRewritten(j, h, at) \/ PublishForged(j, h, at)
        PROVE  Kept(l, k)
    <3>1. Len(h) \in 0..Len(h)
      BY HeadFacts
    <3>2. QED
      BY <2>1, <2>6, <3>1, FromIsASize DEF PublishRewritten, PublishForged
  <2>7. ASSUME NEW v \in Witnesses, Post(v)
        PROVE  Kept(l, k)
    <3>1. cur[v] \in Logs /\ got[v].cp \in Signatures /\ v \in Keys
      BY <1>1, <2>7 DEF Post, IInv, Typed, TypeOK, Messages, Signatures, Keys
    <3>2. QED
      BY <2>2, <2>3, <2>7, <3>1 DEF Post, cache
  <2>8. ASSUME NEW v \in Keys, NEW j \in Logs, PostUnder(v, j)
        PROVE  Kept(l, k)
    <3>1. Postable(v, j) \subseteq Signatures
      BY <1>1 DEF Postable, Signatures, IInv, Typed, TypeOK
    <3>2. QED
      BY <2>2, <2>8, <3>1 DEF PostUnder
  <2> HIDE DEF Kept
  <2>9. QED
    BY <1>1, <2>3, <2>4, <2>5, <2>6, <2>7, <2>8
       DEF Next, Step, List, Done, Refuse, Countersign, Fetch, Restart, vars, cache
<1>2. IInv /\ [Next]_vars => IInv'
  BY NextInv
<1>3. IInv /\ [Next]_vars => [\A l \in Logs, k \in Keys : Kept(l, k)]_vars
  BY <1>1
<1>4. QED
  BY <1>2, <1>3, InitInv, PTL DEF Spec, WitnessingIsKept
=============================================================================

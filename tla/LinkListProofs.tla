--------------------------- MODULE LinkListProofs ---------------------------
(***************************************************************************)
(* The safety of AcMpscLinkList for any number of lists, messages and      *)
(* producers: the conjunction IInv of LinkList is inductive.               *)
(***************************************************************************)
EXTENDS LinkList, SequenceTheorems, TLAPS

-----------------------------------------------------------------------------
(* Facts about one state                                                   *)

\* A producer inside AcMpscLinkList_add has a list, a message and its node.
LEMMA ProducerArgs ==
  ASSUME TypeOK, LinkPending, NEW p \in Producers, pc[p] # "idle"
  PROVE  /\ List(p) \in Lists
         /\ Msg(p) \in Msgs
         /\ Node(p) \in Nodes
         /\ Live(List(p))
BY DEF TypeOK, LinkPending, List, Msg, Node

\* A message is unqueued when a user holds it or a producer has not yet
\* exchanged head for its node.
Unqueued(m) == m \in free \/ \E p \in Producers : pc[p] = "xchg" /\ Msg(p) = m

\* The node of an unqueued message is in no chain: writing it is safe.
LEMMA UnqueuedNodeIsPrivate ==
  ASSUME TypeOK, ChainsApart, NodesNotShared,
         NEW m \in Msgs, Unqueued(m),
         NEW l \in Lists, NEW i \in 1 .. Len(chain[l])
  PROVE  nextPtr[m] # chain[l][i]
<1>1. Live(l)
  BY DEF TypeOK, ChainsApart
<1>2. CASE i = 1
  BY <1>1, <1>2 DEF ChainsApart, NodesNotShared
<1>3. CASE i # 1
  <2>1. i \in 2 .. Len(chain[l])
    BY <1>3 DEF TypeOK
  <2>2. SUFFICES ASSUME nextPtr[m] = chain[l][i] PROVE FALSE
    OBVIOUS
  <2>3. m = nodeMsg[chain[l][i]]
    BY <2>1, <2>2 DEF NodesNotShared
  <2>4. QED
    BY <2>1, <2>3 DEF NodesNotShared, Unqueued
<1>4. QED
  BY <1>2, <1>3

\* The ends of a live list's chain are its tail and its head.
LEMMA ChainEnds ==
  ASSUME TypeOK, ChainsApart, NEW l \in Lists, Live(l)
  PROVE  /\ chain[l] \in Seq(Nodes)
         /\ Len(chain[l]) \in Nat
         /\ Len(chain[l]) >= 1
         /\ tail[l] = chain[l][1]
         /\ head[l] = chain[l][Len(chain[l])]
         /\ head[l] \in Nodes
         /\ tail[l] \in Nodes
<1>1. chain[l] \in Seq(Nodes) /\ chain[l] # <<>>
  BY DEF TypeOK, ChainsApart
<1>2. Len(chain[l]) \in Nat /\ Len(chain[l]) >= 1
  BY <1>1
<1>3. QED
  BY <1>1, <1>2 DEF ChainsApart

-----------------------------------------------------------------------------
(* The initial states                                                      *)

LEMMA InitIInv == Init => IInv
<1> SUFFICES ASSUME Init PROVE IInv
  OBVIOUS
<1> USE ListAssumption DEF Init, Nodes, Live
<1>1. \A l \in Lists : chain[l] = <<l>> /\ Len(chain[l]) = 1 /\ chain[l][1] = l
  OBVIOUS
<1>2. TypeOK
  BY <1>1 DEF TypeOK
<1>3. ChainsApart
  BY <1>1 DEF ChainsApart
<1>4. NodesNotShared
  BY <1>1 DEF NodesNotShared
<1>5. LinkPending
  BY DEF LinkPending
<1>6. CutHasProducer
  BY <1>1 DEF CutHasProducer
<1>7. TakesOldest
  BY DEF TakesOldest
<1>8. QED
  BY <1>2, <1>3, <1>4, <1>5, <1>6, <1>7 DEF IInv

-----------------------------------------------------------------------------
(* AcMpscLinkList_add                                                      *)

LEMMA AddPrepareIInv ==
  ASSUME IInv, NEW p \in Producers, NEW l \in Lists, NEW m \in Msgs,
         AddPrepare(p, l, m)
  PROVE  IInv'
<1> USE ListAssumption DEF AddPrepare, PrepareNode, consVars, IInv
<1> DEFINE n == nextPtr[m]
<1>1. TypeOK'
  BY DEF TypeOK
<1>2. \A q \in Producers : pc[q] # "idle" =>
        /\ q # p
        /\ List(q)' = List(q) /\ Msg(q)' = Msg(q) /\ Node(q)' = Node(q)
        /\ List(q) \in Lists /\ Msg(q) \in Msgs /\ Node(q) \in Nodes
  BY ProducerArgs DEF List, Msg, Node, TypeOK
<1>3. List(p)' = l /\ Msg(p)' = m /\ Node(p)' = n
  BY DEF List, Msg, Node, TypeOK
<1>4. n \in Nodes /\ \A k \in Lists : \A i \in 1 .. Len(chain[k]) : n # chain[k][i]
  BY UnqueuedNodeIsPrivate DEF Unqueued, TypeOK
<1>5. ChainsApart'
  BY DEF ChainsApart, Live
<1>6. NodesNotShared'
  <2>1. \A k \in Lists : \A i \in 2 .. Len(chain[k]) :
           nodeMsg'[chain[k][i]] = nodeMsg[chain[k][i]]
    BY <1>4 DEF TypeOK
  <2>2. \A k \in Lists : \A i \in 2 .. Len(chain[k]) : m # nodeMsg[chain[k][i]]
    BY DEF NodesNotShared
  <2>3. \A q \in Producers, k \in Lists : \A i \in 2 .. Len(chain[k]) :
           pc'[q] = "xchg" => Msg(q)' # nodeMsg[chain[k][i]]
    BY <1>2, <1>3, <2>2 DEF NodesNotShared, TypeOK
  <2>4. QED
    BY <2>1, <2>2, <2>3 DEF NodesNotShared
<1>7. LinkPending'
  <2>1. \A q \in Producers : pc'[q] = "idle" <=> arg'[q] = NULL
    BY DEF LinkPending, TypeOK
  <2>2. \A q \in Producers : pc'[q] # "idle" => Live(List(q))'
    BY <1>2, <1>3 DEF LinkPending, TypeOK, Live
  <2>3. ASSUME NEW q \in Producers, pc'[q] = "xchg" PROVE HasMsg(q)'
    <3>1. CASE q = p
      <4>1. \A r \in Producers \ {p} : pc'[r] = "xchg" => Msg(r)' # m
        BY <1>2 DEF HasMsg, LinkPending, TypeOK
      <4>2. QED
        BY <1>3, <1>4, <3>1, <4>1 DEF HasMsg, TypeOK
    <3>2. CASE q # p
      <4>1. pc[q] = "xchg"
        BY <2>3, <3>2 DEF TypeOK
      <4>2. HasMsg(q)
        BY <4>1 DEF LinkPending
      <4>3. Msg(q)' = Msg(q) /\ Node(q)' = Node(q) /\ Msg(q) \in Msgs /\ Node(q) \in Nodes
        BY <1>2, <4>1
      <4>4. Msg(q) # m
        BY <4>2 DEF HasMsg
      <4>5. Node(q) # n
        BY <4>3, <4>4 DEF NodesNotShared, Node
      <4>6. next'[Node(q)] = NULL /\ nodeMsg'[Node(q)] = Msg(q)
        BY <4>2, <4>3, <4>5 DEF HasMsg, TypeOK
      <4>7. \A r \in Producers \ {q} : pc'[r] = "xchg" => Msg(r)' # Msg(q)
        BY <1>2, <1>3, <4>2, <4>4 DEF HasMsg, TypeOK
      <4>8. QED
        BY <4>2, <4>3, <4>6, <4>7 DEF HasMsg
    <3>3. QED
      BY <3>1, <3>2
  <2>4. ASSUME NEW q \in Producers, pc'[q] = "link" PROVE HasLink(q)'
    <3>1. pc[q] = "link" /\ q # p
      BY <2>4 DEF TypeOK
    <3>2. HasLink(q)
      BY <3>1 DEF LinkPending
    <3>3. List(q)' = List(q) /\ Node(q)' = Node(q) /\ prev'[q] = prev[q]
      BY <1>2, <3>1
    <3>4. next'[prev[q]] = NULL
      BY <3>2 DEF HasLink, TypeOK
    <3>5. \A r \in Producers : pc'[r] = "link" => pc[r] = "link"
      BY DEF TypeOK
    <3>6. QED
      BY <3>2, <3>3, <3>4, <3>5 DEF HasLink
  <2>5. QED
    BY <2>1, <2>2, <2>3, <2>4 DEF LinkPending
<1>8. CutHasProducer'
  <2>1. \A k \in Lists : \A i \in 1 .. Len(chain[k]) : next'[chain[k][i]] = next[chain[k][i]]
    BY <1>4 DEF TypeOK
  <2>2. ASSUME NEW k \in Lists, Live(k) PROVE next'[head[k]] = next[head[k]]
    BY <2>1, <2>2, ChainEnds
  <2>3. \A q \in Producers : pc[q] = "link" => pc'[q] = "link" /\ prev'[q] = prev[q]
    BY DEF TypeOK
  <2>4. QED
    BY <2>1, <2>2, <2>3 DEF CutHasProducer, Live
<1>9. TakesOldest'
  <2>1. ASSUME NEW k \in Lists, cpc[k] = "take"
        PROVE  next'[tail[k]] = next[tail[k]]
    <3>1. Live(k)
      BY <2>1 DEF ChainsApart
    <3>2. n # tail[k] /\ tail[k] \in Nodes
      BY <1>4, <3>1, ChainEnds
    <3>3. QED
      BY <3>2 DEF TypeOK
  <2>2. QED
    BY <2>1 DEF TakesOldest
<1>10. QED
  BY <1>1, <1>5, <1>6, <1>7, <1>8, <1>9

LEMMA AddXchgIInv ==
  ASSUME IInv, NEW p \in Producers, AddXchg(p)
  PROVE  IInv'
<1> USE ListAssumption DEF AddXchg, consVars, IInv
<1> DEFINE l == List(p)
           m == Msg(p)
           n == Node(p)
           L == Len(chain[l])
<1>1. /\ l \in Lists /\ m \in Msgs /\ n \in Nodes /\ Live(l)
      /\ HasMsg(p)
  BY ProducerArgs DEF LinkPending
<1>2. /\ chain[l] \in Seq(Nodes) /\ L \in Nat /\ L >= 1
      /\ head[l] = chain[l][L] /\ head[l] \in Nodes
      /\ tail[l] = chain[l][1]
  BY <1>1, ChainEnds
<1>3. /\ chain'[l] \in Seq(Nodes)
      /\ Len(chain'[l]) = L + 1
      /\ \A i \in 1 .. L : chain'[l][i] = chain[l][i]
      /\ chain'[l][L + 1] = n
      /\ \A k \in Lists \ {l} : chain'[k] = chain[k]
  BY <1>1, <1>2 DEF TypeOK
<1>4. \A k \in Lists : \A i \in 1 .. Len(chain[k]) : n # chain[k][i]
  BY <1>1, UnqueuedNodeIsPrivate DEF Unqueued, Node
<1>5. \A q \in Producers : pc[q] # "idle" =>
        /\ List(q)' = List(q) /\ Msg(q)' = Msg(q) /\ Node(q)' = Node(q)
        /\ List(q) \in Lists /\ Msg(q) \in Msgs /\ Node(q) \in Nodes
  BY ProducerArgs DEF List, Msg, Node
<1>6. head'[l] = n /\ \A k \in Lists \ {l} : head'[k] = head[k]
  BY <1>1 DEF TypeOK
<1>7. \A k \in Lists : Live(k)' <=> Live(k)
  BY <1>1, <1>6 DEF Live, Nodes
<1>8. TypeOK'
  BY <1>1, <1>2, <1>3 DEF TypeOK
<1>9. ChainsApart'
  <2>1. ASSUME NEW k \in Lists
        PROVE  IF Live(k)'
                 THEN /\ chain'[k] # <<>>
                      /\ tail'[k] = chain'[k][1]
                      /\ head'[k] = chain'[k][Len(chain'[k])]
                 ELSE /\ chain'[k] = <<>>
                      /\ tail'[k] = NULL
                      /\ cpc'[k] = "idle"
    BY <1>1, <1>2, <1>3, <1>6, <1>7 DEF ChainsApart
  <2>2. ASSUME NEW k1 \in Lists, NEW k2 \in Lists,
               NEW i \in 1 .. Len(chain'[k1]), NEW j \in 1 .. Len(chain'[k2]),
               chain'[k1][i] = chain'[k2][j]
        PROVE  k1 = k2 /\ i = j
    <3>1. CASE k1 # l /\ k2 # l
      BY <1>3, <2>2, <3>1 DEF ChainsApart
    <3>2. CASE k1 = l /\ k2 # l
      BY <1>1, <1>2, <1>3, <1>4, <2>2, <3>2 DEF ChainsApart
    <3>3. CASE k1 # l /\ k2 = l
      BY <1>1, <1>2, <1>3, <1>4, <2>2, <3>3 DEF ChainsApart
    <3>4. CASE k1 = l /\ k2 = l
      BY <1>1, <1>2, <1>3, <1>4, <2>2, <3>4 DEF ChainsApart
    <3>5. QED
      BY <3>1, <3>2, <3>3, <3>4
  <2>3. QED
    BY <2>1, <2>2 DEF ChainsApart
<1>10. NodesNotShared'
  <2>1. \A q \in Producers : pc'[q] = "xchg" =>
          pc[q] = "xchg" /\ Msg(q)' = Msg(q) /\ Msg(q) # m
    BY <1>1, <1>5 DEF HasMsg, TypeOK
  <2>2. ASSUME NEW k \in Lists, NEW i \in 2 .. Len(chain'[k])
        PROVE  /\ nodeMsg'[chain'[k][i]] \in Msgs \ free'
               /\ nextPtr'[nodeMsg'[chain'[k][i]]] = chain'[k][i]
               /\ \A q \in Producers : pc'[q] = "xchg" => Msg(q)' # nodeMsg'[chain'[k][i]]
    <3>1. CASE k = l /\ i = L + 1
      BY <1>1, <1>3, <2>1, <3>1 DEF HasMsg, Node
    <3>2. CASE ~(k = l /\ i = L + 1)
      <4>1. i \in 2 .. Len(chain[k]) /\ chain'[k][i] = chain[k][i]
        BY <1>2, <1>3, <2>2, <3>2
      <4>2. /\ nodeMsg[chain[k][i]] \in Msgs \ free
            /\ nextPtr[nodeMsg[chain[k][i]]] = chain[k][i]
            /\ \A q \in Producers : pc[q] = "xchg" => Msg(q) # nodeMsg[chain[k][i]]
        BY <4>1 DEF NodesNotShared
      <4>3. QED
        BY <2>1, <4>1, <4>2
    <3>3. QED
      BY <3>1, <3>2
  <2>3. /\ \A m1, m2 \in Msgs : nextPtr'[m1] = nextPtr'[m2] => m1 = m2
        /\ \A m1 \in Msgs, k \in Lists : nextPtr'[m1] # tail'[k]
    BY DEF NodesNotShared
  <2>4. QED
    BY <2>2, <2>3 DEF NodesNotShared
<1>11. LinkPending'
  <2>1. \A q \in Producers : /\ pc'[q] = "idle" <=> arg'[q] = NULL
                             /\ pc'[q] # "idle" => Live(List(q))'
    BY <1>1, <1>5, <1>7 DEF LinkPending, TypeOK, Live
  <2>2. ASSUME NEW q \in Producers, pc'[q] = "xchg" PROVE HasMsg(q)'
    BY <2>2, <1>5 DEF LinkPending, HasMsg, TypeOK
  <2>3. \A q \in Producers \ {p} : pc[q] = "link" => prev[q] # head[l]
    <3> SUFFICES ASSUME NEW q \in Producers, pc[q] = "link", prev[q] = head[l]
                 PROVE  FALSE
      OBVIOUS
    <3>1. PICK i \in 1 .. Len(chain[List(q)]) - 1 : chain[List(q)][i] = prev[q]
      BY DEF LinkPending, HasLink
    <3>2. List(q) \in Lists /\ Len(chain[List(q)]) \in Nat
      BY <1>5 DEF TypeOK
    <3>3. List(q) = l /\ i = L
      BY SMTT(30), <1>1, <1>2, <3>1, <3>2 DEF ChainsApart
    <3>4. QED
      BY <3>1, <3>3, <1>2
  <2>4. ASSUME NEW q \in Producers, pc'[q] = "link" PROVE HasLink(q)'
    <3>1. CASE q = p
      <4>1. prev'[p] = head[l] /\ next'[prev'[p]] = NULL
        BY <1>1 DEF TypeOK, CutHasProducer
      <4>2. chain'[l][L] = prev'[p] /\ chain'[l][L + 1] = n /\ L \in 1 .. Len(chain'[l]) - 1
        BY <1>2, <1>3, <4>1
      <4>3. \A r \in Producers \ {p} : pc'[r] = "link" => prev'[r] # prev'[p]
        BY <2>3, <4>1 DEF TypeOK
      <4>4. List(p)' = l /\ Node(p)' = n
        BY <1>5
      <4>5. QED
        BY <3>1, <4>1, <4>2, <4>3, <4>4 DEF HasLink
    <3>2. CASE q # p
      <4>1. pc[q] = "link" /\ HasLink(q) /\ prev'[q] = prev[q]
        BY <2>4, <3>2 DEF LinkPending, TypeOK
      <4>2. PICK i \in 1 .. Len(chain[List(q)]) - 1 :
               chain[List(q)][i] = prev[q] /\ chain[List(q)][i + 1] = Node(q)
        BY <4>1 DEF HasLink
      <4>3. /\ i \in 1 .. Len(chain'[List(q)]) - 1
            /\ chain'[List(q)][i] = prev[q]
            /\ chain'[List(q)][i + 1] = Node(q)
        BY <1>2, <1>3, <1>5, <4>1, <4>2 DEF TypeOK
      <4>4. \A r \in Producers \ {q} : pc'[r] = "link" => prev'[r] # prev[q]
        BY <2>3, <3>2, <4>1 DEF HasLink, TypeOK
      <4>5. QED
        BY <1>5, <4>1, <4>3, <4>4 DEF HasLink
    <3>3. QED
      BY <3>1, <3>2
  <2>5. QED
    BY <2>1, <2>2, <2>4 DEF LinkPending
<1>12. CutHasProducer'
  <2>1. \A k \in Lists : Live(k)' => next'[head'[k]] = NULL
    BY <1>1, <1>6, <1>7 DEF CutHasProducer, HasMsg
  <2>2. \A q \in Producers : pc[q] = "link" => pc'[q] = "link" /\ prev'[q] = prev[q]
    BY DEF TypeOK
  <2>3. ASSUME NEW k \in Lists, NEW i \in 1 .. Len(chain'[k]) - 1
        PROVE  \/ next[chain'[k][i]] = chain'[k][i + 1]
               \/ /\ next[chain'[k][i]] = NULL
                  /\ \E q \in Producers : pc'[q] = "link" /\ prev'[q] = chain'[k][i]
    <3>1. CASE k = l /\ i = L
      <4>1. pc'[p] = "link" /\ prev'[p] = chain'[k][i]
        BY <1>2, <1>3, <3>1 DEF TypeOK
      <4>2. QED
        BY <1>1, <1>2, <1>3, <3>1, <4>1 DEF CutHasProducer
    <3>2. CASE ~(k = l /\ i = L)
      <4>1. /\ i \in 1 .. Len(chain[k]) - 1
            /\ chain'[k][i] = chain[k][i] /\ chain'[k][i + 1] = chain[k][i + 1]
        BY <1>2, <1>3, <2>3, <3>2 DEF TypeOK
      <4>2. QED
        BY <2>2, <4>1 DEF CutHasProducer
    <3>3. QED
      BY <3>1, <3>2
  <2>4. QED
    BY <2>1, <2>3 DEF CutHasProducer
<1>13. TakesOldest'
  BY <1>1, <1>2, <1>3 DEF TakesOldest, TypeOK
<1>14. QED
  BY <1>8, <1>9, <1>10, <1>11, <1>12, <1>13

LEMMA AddLinkIInv ==
  ASSUME IInv, NEW p \in Producers, AddLink(p)
  PROVE  IInv'
<1> USE ListAssumption DEF AddLink, consVars, IInv
<1> DEFINE l == List(p)
           n == Node(p)
<1>1. /\ l \in Lists /\ n \in Nodes /\ Live(l)
      /\ HasLink(p)
  BY ProducerArgs DEF LinkPending
<1>2. PICK i \in 1 .. Len(chain[l]) - 1 : chain[l][i] = prev[p] /\ chain[l][i + 1] = n
  BY <1>1 DEF HasLink
<1>3. /\ Len(chain[l]) \in Nat
      /\ i \in 1 .. Len(chain[l])
      /\ prev[p] \in Nodes
  BY <1>1, <1>2 DEF TypeOK
<1>4. \A q \in Producers : pc'[q] # "idle" =>
        /\ q # p /\ pc'[q] = pc[q]
        /\ List(q)' = List(q) /\ Msg(q)' = Msg(q) /\ Node(q)' = Node(q)
        /\ List(q) \in Lists /\ Msg(q) \in Msgs /\ Node(q) \in Nodes
        /\ prev'[q] = prev[q]
  BY ProducerArgs DEF List, Msg, Node, TypeOK
<1>5. \A k \in Lists, j \in Nat : j \in 1 .. Len(chain[k]) /\ ~(k = l /\ j = i)
        => next'[chain[k][j]] = next[chain[k][j]]
  BY <1>1, <1>2, <1>3 DEF ChainsApart, TypeOK
<1>6. next'[chain[l][i]] = chain[l][i + 1]
  BY <1>2, <1>3 DEF TypeOK
<1>7. TypeOK'
  BY <1>1 DEF TypeOK
<1>8. ChainsApart' /\ NodesNotShared'
  BY <1>4 DEF ChainsApart, NodesNotShared, Live, TypeOK
<1>9. LinkPending'
  <2>1. \A q \in Producers : /\ pc'[q] = "idle" <=> arg'[q] = NULL
                             /\ pc'[q] # "idle" => Live(List(q))'
    BY <1>4 DEF LinkPending, TypeOK, Live
  <2>2. ASSUME NEW q \in Producers, pc'[q] = "xchg" PROVE HasMsg(q)'
    <3>1. pc[q] = "xchg" /\ HasMsg(q) /\ q # p
      BY <2>2, <1>4 DEF LinkPending
    <3>2. Node(q) # prev[p]
      BY <1>1, <1>2, <1>3, <1>4, <2>2, <3>1, UnqueuedNodeIsPrivate DEF Unqueued, Node
    <3>3. next'[Node(q)] = NULL
      BY <1>4, <2>2, <3>1, <3>2 DEF HasMsg, TypeOK
    <3>4. QED
      BY <1>4, <2>2, <3>1, <3>3 DEF HasMsg
  <2>3. ASSUME NEW q \in Producers, pc'[q] = "link" PROVE HasLink(q)'
    <3>1. pc[q] = "link" /\ HasLink(q) /\ q # p
      BY <2>3, <1>4 DEF LinkPending
    <3>2. next'[prev[q]] = NULL
      BY <1>1, <3>1 DEF HasLink, TypeOK
    <3>3. QED
      BY <1>4, <2>3, <3>1, <3>2 DEF HasLink
  <2>4. QED
    BY <2>1, <2>2, <2>3 DEF LinkPending
<1>10. CutHasProducer'
  <2>1. ASSUME NEW k \in Lists, Live(k) PROVE next'[head[k]] = NULL
    <3>1. /\ Len(chain[k]) \in 1 .. Len(chain[k]) /\ Len(chain[k]) \in Nat
          /\ head[k] = chain[k][Len(chain[k])]
      BY <2>1, ChainEnds
    <3>2. ~(k = l /\ Len(chain[k]) = i)
      BY <1>2, <1>3
    <3>3. QED
      BY <1>5, <2>1, <3>1, <3>2 DEF CutHasProducer
  <2>2. ASSUME NEW k \in Lists, NEW j \in 1 .. Len(chain[k]) - 1
        PROVE  \/ next'[chain[k][j]] = chain[k][j + 1]
               \/ /\ next'[chain[k][j]] = NULL
                  /\ \E q \in Producers : pc'[q] = "link" /\ prev'[q] = chain[k][j]
    <3>1. CASE k = l /\ j = i
      BY <1>6, <3>1
    <3>2. CASE ~(k = l /\ j = i)
      <4>1. j \in Nat /\ j \in 1 .. Len(chain[k]) /\ Len(chain[k]) \in Nat
        BY <2>2 DEF TypeOK
      <4>2. next'[chain[k][j]] = next[chain[k][j]] /\ chain[k][j] # chain[l][i]
        BY <1>1, <1>3, <1>5, <3>2, <4>1 DEF ChainsApart
      <4>3. \A q \in Producers : pc[q] = "link" /\ prev[q] = chain[k][j]
              => pc'[q] = "link" /\ prev'[q] = chain[k][j]
        BY <1>2, <4>2 DEF TypeOK
      <4>4. QED
        BY <4>2, <4>3 DEF CutHasProducer
    <3>3. QED
      BY <3>1, <3>2
  <2>3. QED
    BY <2>1, <2>2 DEF CutHasProducer, Live
<1>11. TakesOldest'
  <2>1. ASSUME NEW k \in Lists, cpc[k] = "take"
        PROVE  next'[tail[k]] = next[tail[k]]
    <3>1. Live(k)
      BY <2>1 DEF ChainsApart
    <3>2. tail[k] \in Nodes /\ next[tail[k]] # NULL
      <4>1. chain[k] \in Seq(Nodes) /\ 2 \in 1 .. Len(chain[k])
        BY <2>1 DEF TakesOldest, TypeOK
      <4>2. chain[k][2] \in Nodes
        BY <4>1
      <4>3. QED
        BY <2>1, <3>1, <4>2, ChainEnds DEF TakesOldest, Nodes
    <3>3. QED
      BY <1>1, <3>2 DEF HasLink, TypeOK
  <2>2. QED
    BY <2>1 DEF TakesOldest
<1>12. QED
  BY <1>7, <1>8, <1>9, <1>10, <1>11

-----------------------------------------------------------------------------
(* AcMpscLinkList_rmv                                                      *)

\* What a step must leave alone for the invariants of lists and producers to
\* be left alone.
LEMMA UnchangedLists ==
  ASSUME ChainsApart, NodesNotShared, LinkPending, CutHasProducer,
         UNCHANGED <<listVars, free, prodVars>>,
         \A l \in Lists : cpc'[l] # cpc[l] => Live(l)
  PROVE  ChainsApart' /\ NodesNotShared' /\ LinkPending' /\ CutHasProducer'
<1> USE DEF listVars, prodVars, Live, List, Msg, Node
<1>1. ChainsApart'
  BY DEF ChainsApart
<1>2. NodesNotShared'
  BY DEF NodesNotShared
<1>3. LinkPending'
  BY DEF LinkPending, HasMsg, HasLink
<1>4. CutHasProducer'
  BY DEF CutHasProducer
<1>5. QED
  BY <1>1, <1>2, <1>3, <1>4

\* A dummy with a successor was linked to the second node of the chain.
LEMMA SuccessorIsSecond ==
  ASSUME TypeOK, ChainsApart, CutHasProducer, NEW l \in Lists, Live(l),
         next[tail[l]] # NULL
  PROVE  /\ Len(chain[l]) >= 2
         /\ next[tail[l]] = chain[l][2]
<1>1. /\ Len(chain[l]) \in Nat /\ Len(chain[l]) >= 1
      /\ tail[l] = chain[l][1] /\ head[l] = chain[l][Len(chain[l])]
  BY ChainEnds
<1>2. Len(chain[l]) # 1
  BY <1>1 DEF CutHasProducer
<1>3. \A n \in Nat : n >= 1 /\ n # 1 => n >= 2 /\ 1 \in 1 .. n - 1
  OBVIOUS
<1>4. Len(chain[l]) >= 2 /\ 1 \in 1 .. Len(chain[l]) - 1
  BY <1>1, <1>2, <1>3
<1>5. next[chain[l][1]] = chain[l][1 + 1]
  BY <1>1, <1>4 DEF CutHasProducer
<1>6. QED
  BY <1>1, <1>4, <1>5

LEMMA RmvLoadIInv ==
  ASSUME IInv, NEW l \in Lists, RmvLoad(l)
  PROVE  IInv'
<1> USE DEF RmvLoad, IInv
<1>1. tail[l] \in Nodes
  BY ChainEnds
<1>2. TypeOK'
  BY <1>1 DEF TypeOK, listVars, prodVars
<1>3. ChainsApart' /\ NodesNotShared' /\ LinkPending' /\ CutHasProducer'
  BY UnchangedLists DEF TypeOK
<1>4. TakesOldest'
  BY SuccessorIsSecond DEF TakesOldest, TypeOK, listVars
<1>5. QED
  BY <1>2, <1>3, <1>4

LEMMA RmvCheckIInv ==
  ASSUME IInv, NEW l \in Lists, RmvCheck(l)
  PROVE  IInv'
<1> USE DEF RmvCheck, IsEmpty, IInv
<1>1. Live(l)
  BY DEF ChainsApart
<1>2. TypeOK'
  BY DEF TypeOK, listVars, prodVars
<1>3. ChainsApart' /\ NodesNotShared' /\ LinkPending' /\ CutHasProducer'
  BY <1>1, UnchangedLists DEF TypeOK
<1>4. tail[l] # head[l] => Len(chain[l]) >= 2
  BY <1>1, ChainEnds
<1>5. TakesOldest'
  BY <1>4 DEF TakesOldest, TypeOK, listVars
<1>6. QED
  BY <1>2, <1>3, <1>5

LEMMA RmvSpinIInv ==
  ASSUME IInv, NEW l \in Lists, RmvSpin(l)
  PROVE  IInv'
<1> USE DEF RmvSpin, IInv
<1>1. Live(l) /\ tail[l] \in Nodes
  BY ChainEnds DEF ChainsApart
<1>2. TypeOK'
  BY <1>1 DEF TypeOK, listVars, prodVars
<1>3. ChainsApart' /\ NodesNotShared' /\ LinkPending' /\ CutHasProducer'
  BY <1>1, UnchangedLists DEF TypeOK
<1>4. TakesOldest'
  BY <1>1, SuccessorIsSecond DEF TakesOldest, TypeOK, listVars
<1>5. QED
  BY <1>2, <1>3, <1>4

LEMMA RmvTakeIInv ==
  ASSUME IInv, NEW l \in Lists, RmvTake(l)
  PROVE  IInv'
<1> USE ListAssumption DEF RmvTake, SwapNode, prodVars, IInv
<1> DEFINE m == nodeMsg[cnext[l]]
           L == Len(chain[l])
<1>1. /\ chain[l] \in Seq(Nodes) /\ L \in Nat /\ L >= 2
      /\ tail[l] = chain[l][1] /\ tail[l] \in Nodes
      /\ head[l] = chain[l][L] /\ Live(l)
      /\ cnext[l] = chain[l][2] /\ next[tail[l]] = cnext[l]
      /\ cnext[l] \in Nodes
  <2>1. Live(l) /\ L >= 2 /\ cnext[l] = chain[l][2] /\ next[tail[l]] = cnext[l]
    BY DEF ChainsApart, TakesOldest
  <2>2. QED
    BY <2>1, ChainEnds
<1>2. m \in Msgs /\ m \notin free /\ nextPtr[m] = cnext[l]
  BY <1>1 DEF NodesNotShared
<1>3. \A p \in Producers : pc[p] = "xchg" => Msg(p) # m
  BY <1>1 DEF NodesNotShared
<1>4. /\ chain'[l] \in Seq(Nodes)
      /\ Len(chain'[l]) = L - 1
      /\ \A i \in 1 .. L - 1 : chain'[l][i] = chain[l][i + 1]
      /\ \A k \in Lists \ {l} : chain'[k] = chain[k]
  BY <1>1 DEF TypeOK
<1>5. /\ tail'[l] = cnext[l]
      /\ \A k \in Lists \ {l} : tail'[k] = tail[k]
      /\ nextPtr'[m] = tail[l]
      /\ \A x \in Msgs \ {m} : nextPtr'[x] = nextPtr[x]
  BY <1>2 DEF TypeOK
<1>6. \A p \in Producers : pc[p] = "link" => Msg(p) # m
  <2> SUFFICES ASSUME NEW p \in Producers, pc[p] = "link", Msg(p) = m
               PROVE  FALSE
    OBVIOUS
  <2>1. /\ HasLink(p) /\ List(p) \in Lists
        /\ Node(p) = cnext[l]
    BY <1>2, ProducerArgs DEF LinkPending, Node
  <2>2. PICK i \in 1 .. Len(chain[List(p)]) - 1 :
           chain[List(p)][i] = prev[p] /\ chain[List(p)][i + 1] = Node(p)
    BY <2>1 DEF HasLink
  <2>3. Len(chain[List(p)]) \in Nat /\ i + 1 \in 1 .. Len(chain[List(p)])
    BY <2>1, <2>2 DEF TypeOK
  <2>4. List(p) = l /\ i + 1 = 2
    <3>1. 2 \in 1 .. L /\ chain[List(p)][i + 1] = chain[l][2]
      BY <1>1, <2>1, <2>2
    <3>2. \A j \in 1 .. Len(chain[List(p)]) :
            chain[List(p)][j] = chain[l][2] => List(p) = l /\ j = 2
      BY SMTT(30), <2>1, <3>1 DEF ChainsApart
    <3>3. QED
      BY <2>3, <3>1, <3>2
  <2>5. prev[p] = tail[l]
    BY <1>1, <2>2, <2>4
  <2>6. QED
    BY <1>1, <2>1, <2>5 DEF HasLink, Nodes
<1>7. \A p \in Producers : pc[p] # "idle" =>
        /\ List(p)' = List(p) /\ Msg(p)' = Msg(p) /\ Node(p)' = Node(p)
        /\ List(p) \in Lists /\ Msg(p) \in Msgs /\ Msg(p) # m
  <2> SUFFICES ASSUME NEW p \in Producers, pc[p] # "idle"
               PROVE  /\ List(p)' = List(p) /\ Msg(p)' = Msg(p) /\ Node(p)' = Node(p)
                      /\ List(p) \in Lists /\ Msg(p) \in Msgs /\ Msg(p) # m
    OBVIOUS
  <2>1. List(p) \in Lists /\ Msg(p) \in Msgs
    BY ProducerArgs
  <2>2. Msg(p) # m
    BY <1>3, <1>6 DEF TypeOK
  <2>3. List(p)' = List(p) /\ Msg(p)' = Msg(p)
    BY DEF List, Msg
  <2>4. nextPtr'[Msg(p)] = nextPtr[Msg(p)]
    BY <1>5, <2>1, <2>2
  <2>5. QED
    BY <2>1, <2>2, <2>3, <2>4 DEF Node
<1>8. TypeOK'
  BY <1>1, <1>2, <1>4 DEF TypeOK
<1>9. ChainsApart'
  <2>1. ASSUME NEW k \in Lists
        PROVE  IF Live(k)'
                 THEN /\ chain'[k] # <<>>
                      /\ tail'[k] = chain'[k][1]
                      /\ head'[k] = chain'[k][Len(chain'[k])]
                 ELSE /\ chain'[k] = <<>>
                      /\ tail'[k] = NULL
                      /\ cpc'[k] = "idle"
    <3>1. CASE k = l
      <4>1. L - 1 >= 1 /\ 1 \in 1 .. L - 1 /\ L - 1 \in 1 .. L - 1 /\ (L - 1) + 1 = L
        BY <1>1
      <4>2. chain'[l] # <<>>
        <5>1. Len(<<>>) = 0 /\ ~(0 >= 1)
          OBVIOUS
        <5>2. QED
          BY <1>4, <4>1, <5>1
      <4>3. chain'[l][1] = chain[l][2] /\ chain'[l][L - 1] = chain[l][L]
        BY <1>4, <4>1
      <4>4. QED
        BY <1>1, <1>4, <1>5, <3>1, <4>2, <4>3 DEF Live
    <3>2. CASE k # l
      BY <1>4, <1>5, <3>2 DEF ChainsApart, TypeOK, Live
    <3>3. QED
      BY <3>1, <3>2
  <2>2. \A k \in Lists : \A i \in 1 .. Len(chain'[k]) :
          \E j \in 1 .. Len(chain[k]) :
             chain'[k][i] = chain[k][j] /\ j = (IF k = l THEN i + 1 ELSE i)
    BY <1>1, <1>4
  <2>3. ASSUME NEW k1 \in Lists, NEW k2 \in Lists,
               NEW i \in 1 .. Len(chain'[k1]), NEW j \in 1 .. Len(chain'[k2]),
               chain'[k1][i] = chain'[k2][j]
        PROVE  k1 = k2 /\ i = j
    <3>1. PICK i1 \in 1 .. Len(chain[k1]) :
             chain'[k1][i] = chain[k1][i1] /\ i1 = (IF k1 = l THEN i + 1 ELSE i)
      BY <2>2
    <3>2. PICK j1 \in 1 .. Len(chain[k2]) :
             chain'[k2][j] = chain[k2][j1] /\ j1 = (IF k2 = l THEN j + 1 ELSE j)
      BY <2>2
    <3>3. k1 = k2 /\ i1 = j1
      BY <2>3, <3>1, <3>2 DEF ChainsApart
    <3>4. QED
      BY <3>1, <3>2, <3>3
  <2>4. QED
    BY <2>1, <2>3 DEF ChainsApart
<1>10. NodesNotShared'
  <2>1. \A x \in Msgs \ {m} : nextPtr[x] # tail[l] /\ nextPtr[x] # cnext[l]
    BY <1>2 DEF NodesNotShared
  <2>2. \A m1, m2 \in Msgs : nextPtr'[m1] = nextPtr'[m2] => m1 = m2
    BY <1>5, <2>1 DEF NodesNotShared
  <2>3. \A k \in Lists \ {l} : tail[k] # tail[l]
    BY <1>1, ChainEnds DEF ChainsApart, Nodes
  <2>4. \A x \in Msgs, k \in Lists : nextPtr'[x] # tail'[k]
    <3>1. tail[l] # cnext[l]
      BY <1>1, <1>2 DEF NodesNotShared
    <3>2. QED
      BY <1>5, <2>1, <2>3, <3>1 DEF NodesNotShared
  <2>5. ASSUME NEW k \in Lists, NEW i \in 2 .. Len(chain'[k])
        PROVE  /\ nodeMsg'[chain'[k][i]] \in Msgs \ free'
               /\ nextPtr'[nodeMsg'[chain'[k][i]]] = chain'[k][i]
               /\ \A q \in Producers : pc'[q] = "xchg" => Msg(q)' # nodeMsg'[chain'[k][i]]
    <3>1. PICK j \in 2 .. Len(chain[k]) : chain'[k][i] = chain[k][j] /\ (k = l => j > 2)
      <4>1. CASE k = l
        <5>1. i + 1 \in 2 .. Len(chain[k]) /\ chain'[k][i] = chain[k][i + 1] /\ i + 1 > 2
          BY <1>1, <1>4, <4>1
        <5>2. QED
          BY <5>1
      <4>2. CASE k # l
        BY <1>4, <4>2
      <4>3. QED
        BY <4>1, <4>2
    <3>2. /\ nodeMsg[chain[k][j]] \in Msgs \ free
          /\ nextPtr[nodeMsg[chain[k][j]]] = chain[k][j]
          /\ \A q \in Producers : pc[q] = "xchg" => Msg(q) # nodeMsg[chain[k][j]]
      BY DEF NodesNotShared
    <3>3. chain[k][j] # cnext[l]
      BY <1>1, <3>1 DEF ChainsApart, TypeOK
    <3>4. nodeMsg[chain[k][j]] # m
      BY <1>2, <3>2, <3>3
    <3>5. nextPtr'[nodeMsg[chain[k][j]]] = chain[k][j]
      BY <1>5, <3>2, <3>4
    <3>6. \A q \in Producers : pc[q] = "xchg" => Msg(q)' = Msg(q)
      BY <1>7
    <3>7. nodeMsg[chain[k][j]] \notin free'
      BY <3>2, <3>4
    <3>8. \A q \in Producers : pc'[q] = "xchg" => Msg(q)' # nodeMsg[chain[k][j]]
      BY <3>2, <3>6
    <3>9. QED
      BY <3>1, <3>2, <3>5, <3>7, <3>8
  <2>6. QED
    BY <2>2, <2>4, <2>5 DEF NodesNotShared
<1>11. LinkPending'
  <2>1. \A q \in Producers : /\ pc'[q] = "idle" <=> arg'[q] = NULL
                             /\ pc'[q] # "idle" => Live(List(q))'
    BY <1>7 DEF LinkPending, Live
  <2>2. ASSUME NEW q \in Producers, pc'[q] = "xchg" PROVE HasMsg(q)'
    BY <2>2, <1>7 DEF LinkPending, HasMsg
  <2>3. ASSUME NEW q \in Producers, pc'[q] = "link" PROVE HasLink(q)'
    <3>1. HasLink(q) /\ List(q) \in Lists
      BY <2>3, <1>7 DEF LinkPending
    <3>2. PICK i \in 1 .. Len(chain[List(q)]) - 1 :
             chain[List(q)][i] = prev[q] /\ chain[List(q)][i + 1] = Node(q)
      BY <3>1 DEF HasLink
    <3>3. \E j \in 1 .. Len(chain'[List(q)]) - 1 :
             chain'[List(q)][j] = prev[q] /\ chain'[List(q)][j + 1] = Node(q)
      <4>1. CASE List(q) = l
        <5>1. i # 1
          BY <1>1, <3>1, <3>2, <4>1 DEF HasLink, Nodes
        <5>2. /\ i - 1 \in 1 .. Len(chain'[l]) - 1
              /\ chain'[l][i - 1] = prev[q]
              /\ chain'[l][(i - 1) + 1] = Node(q)
          BY <1>1, <1>4, <3>2, <4>1, <5>1
        <5>3. QED
          BY <4>1, <5>2
      <4>2. CASE List(q) # l
        BY <1>4, <3>1, <3>2, <4>2
      <4>3. QED
        BY <4>1, <4>2
    <3>4. QED
      BY <2>3, <1>7, <3>1, <3>3 DEF HasLink
  <2>4. QED
    BY <2>1, <2>2, <2>3 DEF LinkPending
<1>12. CutHasProducer'
  <2>1. ASSUME NEW k \in Lists, NEW i \in 1 .. Len(chain'[k]) - 1
        PROVE  \/ next[chain'[k][i]] = chain'[k][i + 1]
               \/ /\ next[chain'[k][i]] = NULL
                  /\ \E q \in Producers : pc[q] = "link" /\ prev[q] = chain'[k][i]
    <3>1. CASE k = l
      <4>1. /\ i + 1 \in 1 .. L - 1
            /\ chain'[k][i] = chain[l][i + 1]
            /\ chain'[k][i + 1] = chain[l][(i + 1) + 1]
        BY <1>1, <1>4, <2>1, <3>1
      <4>2. QED
        BY <4>1 DEF CutHasProducer
    <3>2. CASE k # l
      BY <1>4, <3>2 DEF CutHasProducer
    <3>3. QED
      BY <3>1, <3>2
  <2>2. QED
    BY <2>1 DEF CutHasProducer, Live
<1>13. TakesOldest'
  BY <1>4, <1>5 DEF TakesOldest, TypeOK
<1>14. QED
  BY <1>8, <1>9, <1>10, <1>11, <1>12, <1>13

-----------------------------------------------------------------------------
(* AcMpscLinkList_deinit                                                   *)

LEMMA DeinitIInv ==
  ASSUME IInv, NEW l \in Lists, Deinit(l)
  PROVE  IInv'
<1> USE ListAssumption DEF Deinit, prodVars, consVars, IInv
<1>1. head[l] \in Nodes /\ head[l] = chain[l][1] /\ tail[l] = head[l] /\ Len(chain[l]) = 1
  BY ChainEnds
<1>2. /\ next' = next
      /\ next[head[l]] = NULL
  BY <1>1 DEF CutHasProducer, TypeOK
<1>3. \A k \in Lists : k # l => chain'[k] = chain[k] /\ head'[k] = head[k] /\ tail'[k] = tail[k]
  BY DEF TypeOK
<1>4. chain'[l] = <<>> /\ Len(chain'[l]) = 0 /\ head'[l] = NULL /\ tail'[l] = NULL
  BY DEF TypeOK
<1>5. \A p \in Producers : pc[p] # "idle" =>
        /\ List(p)' = List(p) /\ Msg(p)' = Msg(p) /\ Node(p)' = Node(p)
        /\ List(p) \in Lists /\ List(p) # l
  BY ProducerArgs DEF List, Msg, Node
<1>6. TypeOK'
  <2>1. chain' \in [Lists -> Seq(Nodes)]
    BY <1>3, <1>4 DEF TypeOK
  <2>2. QED
    BY <1>2, <2>1 DEF TypeOK
<1>7. ChainsApart'
  BY <1>3, <1>4 DEF ChainsApart, Live
<1>8. NodesNotShared'
  <2>1. \A m \in Msgs, k \in Lists : nextPtr[m] # tail'[k]
    BY <1>3, <1>4 DEF NodesNotShared, TypeOK, Nodes
  <2>2. QED
    BY <1>3, <1>4, <1>5, <2>1 DEF NodesNotShared
<1>9. LinkPending'
  BY <1>2, <1>3, <1>5 DEF LinkPending, HasMsg, HasLink, Live
<1>10. CutHasProducer'
  BY <1>2, <1>3, <1>4 DEF CutHasProducer, Live
<1>11. TakesOldest'
  BY <1>2, <1>3, <1>4 DEF TakesOldest
<1>12. QED
  BY <1>6, <1>7, <1>8, <1>9, <1>10, <1>11

-----------------------------------------------------------------------------
(* The theorems                                                            *)

LEMMA NextIInv == IInv /\ [Next]_vars => IInv'
<1> SUFFICES ASSUME IInv, [Next]_vars PROVE IInv'
  OBVIOUS
<1>1. ASSUME NEW p \in Producers, Producer(p) PROVE IInv'
  BY <1>1, AddPrepareIInv, AddXchgIInv, AddLinkIInv DEF Producer
<1>2. ASSUME NEW l \in Lists, Consumer(l) PROVE IInv'
  BY <1>2, RmvLoadIInv, RmvCheckIInv, RmvSpinIInv, RmvTakeIInv DEF Consumer
<1>3. ASSUME NEW l \in Lists, Deinit(l) PROVE IInv'
  BY <1>3, DeinitIInv
<1>4. CASE UNCHANGED vars
  <2>1. UNCHANGED <<listVars, free, prodVars>> /\ UNCHANGED consVars
    BY <1>4 DEF vars
  <2>2. TypeOK'
    BY <2>1 DEF IInv, TypeOK, listVars, prodVars, consVars
  <2>3. ChainsApart' /\ NodesNotShared' /\ LinkPending' /\ CutHasProducer'
    BY <2>1, UnchangedLists DEF IInv, consVars
  <2>4. TakesOldest'
    BY <2>1 DEF IInv, TakesOldest, listVars, consVars
  <2>5. QED
    BY <2>2, <2>3, <2>4 DEF IInv
<1>5. QED
  BY <1>1, <1>2, <1>3, <1>4 DEF Next

\* However the adds of any number of producers, the removes of the consumers
\* and the exchange of nodes among messages and lists interleave, the chains,
\* the ownership of nodes and links, and the consumers' view stay consistent.
THEOREM LinkListSafe == Spec => []IInv
  BY InitIInv, NextIInv, PTL DEF Spec

\* No AcNextPtr is ever shared: two messages never have the same node, nor a
\* message the dummy of a list.
THEOREM NodesNeverShared == Spec => []NodesNotShared
<1>1. IInv => NodesNotShared
  BY DEF IInv
<1>2. QED
  BY <1>1, LinkListSafe, PTL

\* A producer preempted inside AcMpscLinkList_add finds its message, its node
\* and the link it owes as it left them.
THEOREM LinksStayPending == Spec => []LinkPending
<1>1. IInv => LinkPending
  BY DEF IInv
<1>2. QED
  BY <1>1, LinkListSafe, PTL

\* Every node of a list is linked to the next, or a producer is about to link
\* it: no message becomes unreachable.
THEOREM CutsHaveProducers == Spec => []CutHasProducer
<1>1. IInv => CutHasProducer
  BY DEF IInv
<1>2. QED
  BY <1>1, LinkListSafe, PTL

\* AcMpscLinkList_rmv takes the oldest node, and never waits for a link in a list
\* that has no message.
THEOREM OldestIsTaken == Spec => []TakesOldest
<1>1. IInv => TakesOldest
  BY DEF IInv
<1>2. QED
  BY <1>1, LinkListSafe, PTL

-----------------------------------------------------------------------------
(* The refinement of MsgQueue                                              *)

\* The mapping of queue and its shape: the messages after the dummy.
QueueBar == [l \in Lists |-> Queue(l)]
OpenBar == {l \in Lists : Live(l)}

LEMMA QueueShape ==
  ASSUME IInv, NEW l \in Lists
  PROVE  /\ Queue(l) \in Seq(Msgs)
         /\ \A i \in 1 .. Len(Queue(l)) : Queue(l)[i] = nodeMsg[chain[l][i + 1]]
         /\ Live(l) => Len(Queue(l)) = Len(chain[l]) - 1
         /\ ~Live(l) => Len(Queue(l)) = 0 /\ chain[l] = <<>>
<1>1. CASE Live(l)
  <2>1. Len(chain[l]) \in Nat /\ Len(chain[l]) >= 1
    BY <1>1, ChainEnds DEF IInv
  <2>2. \A i \in 1 .. Len(chain[l]) - 1 : nodeMsg[chain[l][i + 1]] \in Msgs
    BY <2>1 DEF IInv, NodesNotShared
  <2>3. Queue(l) \in Seq(Msgs) /\ Len(Queue(l)) = Len(chain[l]) - 1
    BY <2>1, <2>2 DEF Queue
  <2>4. QED
    BY <1>1, <2>1, <2>3 DEF Queue
<1>2. CASE ~Live(l)
  <2>1. chain[l] = <<>> /\ Len(chain[l]) = 0
    BY <1>2 DEF IInv, ChainsApart
  <2>2. Queue(l) = <<>>
    BY <2>1 DEF Queue
  <2>3. QED
    BY <1>2, <2>1, <2>2
<1>3. QED
  BY <1>1, <1>2

LEMMA FunctionIsSeq ==
  ASSUME NEW S, NEW n \in Nat, NEW f \in [1 .. n -> S]
  PROVE  f \in Seq(S) /\ Len(f) = n
OBVIOUS

\* Queues change only with the chain and the messages of its nodes.
LEMMA QueueUnchanged ==
  ASSUME IInv, NEW l \in Lists, chain'[l] = chain[l],
         \A i \in 2 .. Len(chain[l]) : nodeMsg'[chain[l][i]] = nodeMsg[chain[l][i]]
  PROVE  Queue(l)' = Queue(l)
<1>1. Len(chain[l]) \in Nat
  BY DEF IInv, TypeOK
<1>2. \A i \in 1 .. Len(chain[l]) - 1 : i + 1 \in 2 .. Len(chain[l])
  BY <1>1
<1>3. QED
  BY <1>2 DEF Queue

\* The exchange of head is where an add takes effect.
LEMMA XchgIsAdd ==
  ASSUME IInv, NEW p \in Producers, AddXchg(p),
         NEW l, NEW m, l = List(p), m = Msg(p)
  PROVE  Abstract!Add(l, m)
<1> DEFINE L == Len(chain[l])
<1> USE DEF AddXchg, IInv
<1>1. l \in Lists /\ m \in Msgs /\ Live(l) /\ HasMsg(p) /\ Node(p) \in Nodes
  BY ProducerArgs DEF LinkPending
<1>2. /\ chain[l] \in Seq(Nodes) /\ L \in Nat /\ L >= 1
      /\ chain' = [chain EXCEPT ![l] = Append(chain[l], Node(p))]
  BY <1>1, ChainEnds
<1>3. \A k \in Lists : Live(k)' <=> Live(k)
  BY <1>1, ListAssumption DEF Live, Nodes, TypeOK
<1>4. OpenBar' = OpenBar /\ l \in OpenBar
  BY <1>1, <1>3 DEF OpenBar
<1>5. ASSUME NEW k \in Lists, NEW i \in 1 .. Len(Queue(k)), Queue(k)[i] = m
      PROVE  FALSE
  <2>1. i + 1 \in 2 .. Len(chain[k]) /\ Queue(k)[i] = nodeMsg[chain[k][i + 1]]
    BY <1>5, QueueShape DEF TypeOK
  <2>2. \A j \in 2 .. Len(chain[k]) : nodeMsg[chain[k][j]] # m
    BY DEF NodesNotShared
  <2>3. QED
    BY <1>5, <2>1, <2>2
<1>6. Queue(l)' = Append(Queue(l), m)
  <2>1. /\ Len(chain'[l]) = L + 1
        /\ \A i \in 1 .. L : chain'[l][i] = chain[l][i]
        /\ chain'[l][L + 1] = Node(p)
        /\ Len(Queue(l)) = L - 1 /\ Queue(l) \in Seq(Msgs)
        /\ \A i \in 1 .. L - 1 : Queue(l)[i] = nodeMsg[chain[l][i + 1]]
    <3>1. chain'[l] = Append(chain[l], Node(p))
      BY <1>1, <1>2 DEF TypeOK
    <3>2. /\ Len(chain'[l]) = L + 1
          /\ \A i \in 1 .. L : chain'[l][i] = chain[l][i]
          /\ chain'[l][L + 1] = Node(p)
      BY <1>1, <1>2, <3>1
    <3>3. /\ Len(Queue(l)) = L - 1 /\ Queue(l) \in Seq(Msgs)
          /\ \A i \in 1 .. Len(Queue(l)) : Queue(l)[i] = nodeMsg[chain[l][i + 1]]
      BY <1>1, QueueShape
    <3>4. QED
      BY <3>2, <3>3
  <2>2. nodeMsg'[Node(p)] = m
    BY <1>1 DEF HasMsg
  <2>3. Queue(l)' = [i \in 1 .. L |-> nodeMsg'[chain'[l][i + 1]]]
    <3>1. Queue(l)' = [i \in 1 .. Len(chain'[l]) - 1 |-> nodeMsg'[chain'[l][i + 1]]]
      BY DEF Queue
    <3>2. Len(chain'[l]) - 1 = L
      BY <1>2, <2>1
    <3>3. QED
      BY <3>1, <3>2
  <2>4. ASSUME NEW i \in 1 .. L
        PROVE  nodeMsg'[chain'[l][i + 1]] = IF i = L THEN m ELSE Queue(l)[i]
    <3>1. CASE i = L
      BY <2>1, <2>2, <3>1
    <3>2. CASE i # L
      <4>1. i \in 1 .. L - 1 /\ i + 1 \in 1 .. L
        BY <1>2, <3>2
      <4>2. QED
        BY <2>1, <3>2, <4>1
    <3>3. QED
      BY <3>1, <3>2
  <2>5. DEFINE s == [i \in 1 .. L |-> nodeMsg'[chain'[l][i + 1]]]
               t == Append(Queue(l), m)
  <2>6. /\ t \in Seq(Msgs) /\ Len(t) = L
        /\ \A i \in 1 .. L : t[i] = IF i = L THEN m ELSE Queue(l)[i]
    BY <1>1, <1>2, <2>1
  <2>7. s \in Seq(Msgs) /\ Len(s) = L
    <3>1. \A i \in 1 .. L : nodeMsg'[chain'[l][i + 1]] \in Msgs
      <4>1. \A i \in 1 .. L - 1 : Queue(l)[i] \in Msgs
        BY <2>1, ElementOfSeq
      <4>2. \A i \in 1 .. L : i = L \/ i \in 1 .. L - 1
        BY <1>2
      <4>3. QED
        BY <1>1, <2>4, <4>1, <4>2
    <3>2. QED
      BY <1>2, <3>1
  <2>8. s = t
    <3>1. \A i \in 1 .. L : s[i] = t[i]
      BY <2>4, <2>6
    <3> HIDE DEF s, t
    <3>2. QED
      BY <2>6, <2>7, <3>1, SeqEqual
  <2>9. QED
    BY <2>3, <2>8
<1>7. ASSUME NEW k \in Lists, k # l PROVE Queue(k)' = Queue(k)
  BY <1>2, <1>7, QueueUnchanged DEF TypeOK
<1>8. QueueBar' = [QueueBar EXCEPT ![l] = Append(@, m)]
  <2> SUFFICES ASSUME NEW k \in Lists
               PROVE  QueueBar'[k] = [QueueBar EXCEPT ![l] = Append(@, m)][k]
    BY DEF QueueBar
  <2>1. CASE k = l
    <3>1. QueueBar'[k] = Append(Queue(l), m)
      BY <1>6, <2>1 DEF QueueBar
    <3>2. QueueBar[l] = Queue(l)
      BY <1>1 DEF QueueBar
    <3>3. QED
      BY <2>1, <3>1, <3>2 DEF QueueBar
  <2>2. CASE k # l
    BY <1>7, <2>2 DEF QueueBar
  <2>3. QED
    BY <2>1, <2>2
<1>9. QED
  BY <1>4, <1>5, <1>8 DEF Abstract!Add, Abstract!IsQueued, QueueBar, OpenBar, consVars

\* The update of tail is where a remove takes effect.
LEMMA TakeIsRmv ==
  ASSUME IInv, NEW l \in Lists, RmvTake(l)
  PROVE  Abstract!Rmv(l)
<1> DEFINE m == nodeMsg[cnext[l]]
           L == Len(chain[l])
<1> USE DEF RmvTake, SwapNode, IInv
<1>1. Live(l) /\ L \in Nat /\ L >= 2 /\ cnext[l] = chain[l][2] /\ chain[l] \in Seq(Nodes)
  BY ChainEnds DEF ChainsApart, TakesOldest
<1>2. /\ Len(Queue(l)) = L - 1 /\ Queue(l) \in Seq(Msgs)
      /\ \A i \in 1 .. L - 1 : Queue(l)[i] = nodeMsg[chain[l][i + 1]]
  BY <1>1, QueueShape
<1>3. Queue(l) # <<>> /\ Head(Queue(l)) = m
  BY <1>1, <1>2
<1>4. /\ Len(chain'[l]) = L - 1
      /\ \A i \in 1 .. L - 1 : chain'[l][i] = chain[l][i + 1]
      /\ \A k \in Lists \ {l} : chain'[k] = chain[k]
  BY <1>1 DEF TypeOK
<1>5. Queue(l)' = Tail(Queue(l))
  <2>1. Queue(l)' = [i \in 1 .. L - 2 |-> nodeMsg[chain'[l][i + 1]]]
    BY <1>1, <1>4 DEF Queue
  <2>2. ASSUME NEW i \in 1 .. L - 2
        PROVE  nodeMsg[chain'[l][i + 1]] = Queue(l)[i + 1]
    <3>1. i + 1 \in 1 .. L - 1
      BY <1>1, <2>2
    <3>2. QED
      BY <1>2, <1>4, <3>1
  <2>3. DEFINE s == [i \in 1 .. L - 2 |-> nodeMsg[chain'[l][i + 1]]]
               t == Tail(Queue(l))
  <2>4. /\ t \in Seq(Msgs) /\ Len(t) = L - 2
        /\ \A i \in 1 .. L - 2 : t[i] = Queue(l)[i + 1]
    BY <1>1, <1>2, <1>3, HeadTailProperties
  <2>5. s \in Seq(Msgs) /\ Len(s) = L - 2
    <3>1. \A i \in 1 .. L - 2 : t[i] \in Msgs
      BY <2>4, ElementOfSeq
    <3>2. L - 2 \in Nat
      BY <1>1
    <3>3. \A i \in 1 .. L - 2 : nodeMsg[chain'[l][i + 1]] \in Msgs
      BY <2>2, <2>4, <3>1
    <3>4. s \in [1 .. L - 2 -> Msgs]
      BY <3>3
    <3> HIDE DEF s
    <3>5. QED
      BY <3>2, <3>4, FunctionIsSeq
  <2>6. s = t
    <3>1. \A i \in 1 .. L - 2 : s[i] = t[i]
      BY <2>2, <2>4
    <3> HIDE DEF s, t
    <3>2. QED
      BY <2>4, <2>5, <3>1, SeqEqual
  <2>7. QED
    BY <2>1, <2>6
<1>6. ASSUME NEW k \in Lists, k # l PROVE Queue(k)' = Queue(k)
  BY <1>4, <1>6, QueueUnchanged
<1>7. QueueBar' = [QueueBar EXCEPT ![l] = Tail(@)]
  BY <1>5, <1>6 DEF QueueBar
<1>8. OpenBar' = OpenBar /\ l \in OpenBar
  BY <1>1 DEF OpenBar, Live
<1>9. QED
  BY <1>3, <1>7, <1>8 DEF Abstract!Rmv, QueueBar, OpenBar

\* A remove that returns NULL found the list empty.
LEMMA CheckIsRmvEmpty ==
  ASSUME IInv, NEW l \in Lists, RmvCheck(l)
  PROVE  Abstract!RmvEmpty(l) \/ UNCHANGED Abstract!vars
<1> USE DEF RmvCheck, IsEmpty, IInv
<1>1. UNCHANGED <<head, nodeMsg, chain>>
  BY DEF listVars
<1>2. QueueBar' = QueueBar /\ OpenBar' = OpenBar
  BY <1>1 DEF QueueBar, OpenBar, Queue, Live
<1>3. CASE tail[l] = head[l]
  <2>1. /\ Live(l) /\ Len(chain[l]) \in Nat /\ Len(chain[l]) >= 1
        /\ chain[l][1] = chain[l][Len(chain[l])]
    BY <1>3, ChainEnds DEF ChainsApart
  <2>2. 1 \in 1 .. Len(chain[l]) /\ Len(chain[l]) \in 1 .. Len(chain[l])
    BY <2>1
  <2>3. \A i, j \in 1 .. Len(chain[l]) : chain[l][i] = chain[l][j] => i = j
    BY DEF ChainsApart
  <2>4. Len(chain[l]) = 1
    BY <2>1, <2>2, <2>3
  <2>5. Queue(l) = <<>>
    BY <2>1, <2>4, QueueShape
  <2>6. QED
    BY <1>2, <1>3, <2>1, <2>5 DEF Abstract!RmvEmpty, QueueBar, OpenBar
<1>4. CASE tail[l] # head[l]
  BY <1>2, <1>4 DEF Abstract!vars, QueueBar, OpenBar
<1>5. QED
  BY <1>3, <1>4

LEMMA DeinitIsDeinit ==
  ASSUME IInv, NEW l \in Lists, Deinit(l)
  PROVE  Abstract!Deinit(l)
<1> USE DEF Deinit, IInv
<1>1. Queue(l) = <<>> /\ Queue(l)' = <<>>
  BY QueueShape DEF Queue, TypeOK
<1>2. ASSUME NEW k \in Lists, k # l PROVE Queue(k)' = Queue(k)
  BY <1>2, QueueUnchanged DEF TypeOK
<1>3. QueueBar' = QueueBar
  BY <1>1, <1>2 DEF QueueBar
<1>4. OpenBar' = OpenBar \ {l} /\ l \in OpenBar
  BY DEF OpenBar, Live, TypeOK
<1>5. QED
  BY <1>1, <1>3, <1>4 DEF Abstract!Deinit, QueueBar, OpenBar, consVars

\* The other steps are invisible.
LEMMA OthersStutter ==
  ASSUME IInv,
         \/ \E p \in Producers :
              \/ \E l \in Lists, m \in Msgs : AddPrepare(p, l, m)
              \/ AddLink(p)
         \/ \E l \in Lists : RmvLoad(l) \/ RmvSpin(l)
         \/ UNCHANGED vars
  PROVE  UNCHANGED Abstract!vars
<1>1. /\ UNCHANGED <<head, chain, ret>>
      /\ \A l \in Lists : \A i \in 2 .. Len(chain[l]) :
           nodeMsg'[chain[l][i]] = nodeMsg[chain[l][i]]
  <2>1. ASSUME NEW p \in Producers, NEW l \in Lists, NEW m \in Msgs, AddPrepare(p, l, m)
        PROVE  <1>1
    <3>1. \A k \in Lists : \A i \in 1 .. Len(chain[k]) : nextPtr[m] # chain[k][i]
      BY <2>1, UnqueuedNodeIsPrivate DEF AddPrepare, PrepareNode, Unqueued, IInv
    <3>2. QED
      BY <2>1, <3>1 DEF AddPrepare, PrepareNode, consVars, IInv, TypeOK
  <2>2. ASSUME NEW p \in Producers, AddLink(p) PROVE <1>1
    BY <2>2 DEF AddLink, consVars
  <2>3. ASSUME NEW l \in Lists, RmvLoad(l) \/ RmvSpin(l) PROVE <1>1
    BY <2>3 DEF RmvLoad, RmvSpin, listVars
  <2>4. ASSUME UNCHANGED vars PROVE <1>1
    BY <2>4 DEF vars, listVars, consVars
  <2>5. QED
    BY <2>1, <2>2, <2>3, <2>4
<1>2. \A l \in Lists : Queue(l)' = Queue(l)
  BY <1>1, QueueUnchanged
<1>3. QED
  BY <1>1, <1>2 DEF Abstract!vars, Live

\* AcMpscLinkList implements the first in first out queue its header promises.
THEOREM LinkListIsMsgQueue == Spec => ImplementsMsgQueue
<1>1. Init => Abstract!Init
  BY ListAssumption DEF Init, Abstract!Init, Queue, Live, Nodes
<1>2. IInv /\ [Next]_vars => [Abstract!Next]_(Abstract!vars)
  <2> SUFFICES ASSUME IInv, [Next]_vars
               PROVE  Abstract!Next \/ UNCHANGED Abstract!vars
    OBVIOUS
  <2>1. ASSUME NEW p \in Producers, AddXchg(p) PROVE Abstract!Next
    <3>1. List(p) \in Lists /\ Msg(p) \in Msgs
      BY <2>1, ProducerArgs DEF AddXchg, IInv
    <3>2. QED
      BY <2>1, <3>1, XchgIsAdd DEF Abstract!Next
  <2>2. ASSUME NEW l \in Lists, RmvTake(l) PROVE Abstract!Next
    BY <2>2, TakeIsRmv DEF Abstract!Next
  <2>3. ASSUME NEW l \in Lists, RmvCheck(l) PROVE Abstract!Next \/ UNCHANGED Abstract!vars
    BY <2>3, CheckIsRmvEmpty DEF Abstract!Next
  <2>4. ASSUME NEW l \in Lists, Deinit(l) PROVE Abstract!Next
    BY <2>4, DeinitIsDeinit DEF Abstract!Next
  <2>5. QED
    BY <2>1, <2>2, <2>3, <2>4, OthersStutter DEF Next, Producer, Consumer
<1>3. QED
  BY <1>1, <1>2, LinkListSafe, PTL DEF Spec, ImplementsMsgQueue, Abstract!Spec
=============================================================================

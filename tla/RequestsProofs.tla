--------------------------- MODULE RequestsProofs ---------------------------
(***************************************************************************)
(* Proofs about Requests, for any connections, addresses, workers and      *)
(* messages, any critical load, any longest body and any number of         *)
(* failures.  First the queue it rests on (TaskQueue): the list never      *)
(* loses its shape, no descriptor is closed twice or forgotten, and the    *)
(* workers see a first-in-first-out queue.  Then what is done with a       *)
(* connection: what is carried out is what was sent, and requests are      *)
(* stored whole or not at all and answered truthfully.                     *)
(***************************************************************************)
EXTENDS Requests, TLAPS

\* What the other parts lean on: an allocated element owns a descriptor, and
\* the destructor starts when no worker has a task.
Owners ==
    /\ \A c \in live : cell[c].task \in Tasks
    /\ phase # "open" => taken = {}

Inv == TypeOK /\ ListIsQueue /\ ClosedOnce /\ Owners

\* The queue is a list at the start.
LEMMA InitInv == ASSUME QueueAssumption, Init PROVE Inv
<1>1. TypeOK BY DEF QueueAssumption, Init, TypeOK
<1>2. ListIsQueue BY DEF QueueAssumption, Init, ListIsQueue, Start, IsInjective
<1>3. ClosedOnce BY DEF QueueAssumption, Init, ClosedOnce, Queued
<1>4. Owners BY DEF Init, Owners
<1> QED BY <1>1, <1>2, <1>3, <1>4 DEF Inv

-----------------------------------------------------------------------------
(* push_back *)

\* push_back keeps the list in order.
LEMMA PushInv ==
    ASSUME QueueAssumption, Inv, NEW t \in Tasks, push_back(t)
    PROVE  Inv'
<1> USE DEF QueueAssumption
<1>1. PICK el \in Cells \ live :
        /\ live' = live \cup {el}
        /\ cell' = [c \in Cells |->
                IF c = el THEN [task |-> t, nxt |-> NULL]
                ELSE IF c = afterLastPtr THEN [cell[c] EXCEPT !.nxt = el]
                ELSE cell[c]]
        /\ first' = IF afterLastPtr = HEAD THEN el ELSE first
        /\ afterLastPtr' = el
        /\ order' = Append(order, el)
  BY DEF push_back
<1>2. /\ phase = "open" /\ t \in fresh
      /\ sz' = sz + 1
      /\ fresh' = fresh \ {t}
      /\ UNCHANGED <<taken, closed, cur, phase>>
  BY DEF push_back
<1>3. TypeOK /\ ListIsQueue /\ ClosedOnce /\ Owners
  BY DEF Inv
<1>4. \A c \in Cells : cell[c] \in [task : Tasks \cup {NoTask}, nxt : Cells \cup {NULL}]
  BY <1>3 DEF TypeOK
<1>5. \A c \in Cells :
        /\ cell'[c] \in [task : Tasks \cup {NoTask}, nxt : Cells \cup {NULL}]
        /\ cell'[c].task = IF c = el THEN t ELSE cell[c].task
        /\ cell'[c].nxt = IF c = el THEN NULL
                          ELSE IF c = afterLastPtr THEN el ELSE cell[c].nxt
  BY <1>1, <1>4
<1>6. TypeOK'
  BY <1>1, <1>2, <1>3, <1>5 DEF TypeOK
<1> DEFINE n == Len(order)
<1>7. /\ n \in Nat /\ Len(order') = n + 1
      /\ \A i \in 1 .. n : order'[i] = order[i] /\ order[i] \in live
      /\ order'[n + 1] = el
      /\ DOMAIN order = 1 .. n /\ DOMAIN order' = 1 .. n + 1
  BY <1>1, <1>3 DEF TypeOK, ListIsQueue
<1>8. ListIsQueue'
  <2>1. IsInjective(order')
    BY <1>1, <1>3, <1>7 DEF ListIsQueue, IsInjective
  <2>2. live' = {order'[i] : i \in 1 .. n + 1}
    BY <1>1, <1>3, <1>7 DEF ListIsQueue
  <2>3. first' = order'[1]
    BY <1>1, <1>2, <1>3, <1>7 DEF ListIsQueue, Start, TypeOK
  <2>4. ASSUME NEW i \in 1 .. n + 1
        PROVE  cell'[order'[i]].nxt = IF i = n + 1 THEN NULL ELSE order'[i + 1]
    <3>1. CASE i = n + 1 BY <3>1, <1>5, <1>7, <1>1
    <3>2. CASE i \in 1 .. n /\ i = n
      <4>1. afterLastPtr = order[i] /\ order[i] # el /\ order[i] \in Cells
        BY <3>2, <1>1, <1>2, <1>3, <1>7 DEF ListIsQueue, TypeOK
      <4> QED BY <4>1, <3>2, <1>5, <1>7
    <3>3. CASE i \in 1 .. n /\ i # n
      <4>1. afterLastPtr = order[n] /\ n \in 1 .. n
        BY <3>3, <1>2, <1>3, <1>7 DEF ListIsQueue
      <4>2. order[i] # order[n] /\ order[i] # el /\ order[i] \in Cells
        BY SMTT(30), <3>3, <4>1, <1>1, <1>3, <1>7 DEF ListIsQueue, IsInjective, TypeOK
      <4>3. cell[order[i]].nxt = order[i + 1]
        BY <3>3, <1>3, <1>7 DEF ListIsQueue
      <4>4. /\ i + 1 \in 1 .. n /\ i # n + 1
            /\ order'[i] = order[i] /\ order'[i + 1] = order[i + 1]
        <5>1. n \in Nat /\ i \in 1 .. n /\ i # n BY <3>3, <1>7
        <5>2. i + 1 \in 1 .. n /\ i # n + 1 BY <5>1
        <5> QED BY <5>1, <5>2, <1>7
      <4>5. cell'[order[i]].nxt = cell[order[i]].nxt
        BY <4>1, <4>2, <1>5
      <4> QED BY <4>3, <4>4, <4>5
    <3> QED BY <3>1, <3>2, <3>3, <1>7
  <2>5. sz' = n + 1 /\ afterLastPtr' = order'[n + 1]
    BY <1>1, <1>2, <1>3, <1>7 DEF ListIsQueue
  <2> QED BY <2>1, <2>2, <2>3, <2>4, <2>5, <1>7, <1>2 DEF ListIsQueue, Start
<1>9. Queued' = Queued \cup {t}
  <2>1. \A c \in live : c \in Cells /\ cell'[c].task = cell[c].task
    BY <1>1, <1>3, <1>5 DEF TypeOK
  <2>2. cell'[el].task = t BY <1>1, <1>5
  <2>3. ASSUME NEW x PROVE x \in Queued' <=> x \in Queued \cup {t}
    <3>1. x \in Queued' <=> \E c \in live \cup {el} : x = cell'[c].task
      BY <1>1 DEF Queued
    <3>2. x \in Queued <=> \E c \in live : x = cell[c].task
      BY DEF Queued
    <3> QED BY <3>1, <3>2, <2>1, <2>2
  <2> QED BY <2>3
<1>10. ClosedOnce'
  <2> SUFFICES ASSUME NEW s \in Tasks
               PROVE  /\ closed[s] = IF s \in fresh' \cup taken \cup Queued' THEN 0 ELSE 1
                      /\ s \in fresh' => s \notin taken \cup Queued'
                      /\ s \in taken => s \notin Queued'
                      /\ \A c, e \in live' :
                            cell'[c].task = s /\ cell'[e].task = s => c = e
    BY <1>2 DEF ClosedOnce
  <2>1. /\ closed[s] = IF s \in fresh \cup taken \cup Queued THEN 0 ELSE 1
        /\ s \in fresh => s \notin taken \cup Queued
        /\ s \in taken => s \notin Queued
        /\ \A c, e \in live : cell[c].task = s /\ cell[e].task = s => c = e
    BY <1>3 DEF ClosedOnce
  <2>2. t \notin taken \cup Queued
    BY <1>2, <1>3 DEF ClosedOnce
  <2>3. \A c \in live : cell'[c].task = cell[c].task /\ cell[c].task # t
    BY <2>2, <1>1, <1>3, <1>5 DEF Queued, TypeOK
  <2>4. cell'[el].task = t BY <1>1, <1>5
  <2> QED BY <2>1, <2>2, <2>3, <2>4, <1>1, <1>2, <1>9
<1>11. Owners'
  BY <1>1, <1>2, <1>3, <1>5 DEF Owners, TypeOK
<1> QED BY <1>6, <1>8, <1>10, <1>11 DEF Inv

-----------------------------------------------------------------------------
(* Steps that leave the list alone *)

\* Turning a connection away leaves the list alone.
LEMMA TurnAwayInv ==
    ASSUME QueueAssumption, Inv, NEW t \in Tasks, Turn_away(t)
    PROVE  Inv'
<1> USE DEF QueueAssumption
<1>1. TypeOK /\ ListIsQueue /\ ClosedOnce /\ Owners BY DEF Inv
<1>2. closed' = [closed EXCEPT ![t] = @ + 1] /\ closed[t] = 0
  BY <1>1 DEF Turn_away, Close, ClosedOnce
<1>3. TypeOK' BY <1>1, <1>2 DEF TypeOK, Turn_away
<1>4. ListIsQueue' BY <1>1 DEF ListIsQueue, Start, Turn_away
<1>5. Queued' = Queued BY DEF Queued, Turn_away
<1>6. ClosedOnce'
  BY <1>1, <1>2, <1>5 DEF ClosedOnce, Turn_away, TypeOK
<1>7. Owners' BY <1>1 DEF Owners, Turn_away
<1> QED BY <1>3, <1>4, <1>6, <1>7 DEF Inv

\* So does closing a connection.
LEMMA EndTaskInv ==
    ASSUME QueueAssumption, Inv, NEW t \in Tasks, EndTask(t)
    PROVE  Inv'
<1> USE DEF QueueAssumption
<1>1. TypeOK /\ ListIsQueue /\ ClosedOnce /\ Owners BY DEF Inv
<1>2. closed' = [closed EXCEPT ![t] = @ + 1] /\ closed[t] = 0
  BY <1>1 DEF EndTask, Close, ClosedOnce
<1>3. TypeOK' BY <1>1, <1>2 DEF TypeOK, EndTask
<1>4. ListIsQueue' BY <1>1 DEF ListIsQueue, Start, EndTask
<1>5. Queued' = Queued BY DEF Queued, EndTask
<1>6. ClosedOnce'
  BY <1>1, <1>2, <1>5 DEF ClosedOnce, EndTask, TypeOK
<1>7. Owners' BY <1>1 DEF Owners, EndTask
<1> QED BY <1>3, <1>4, <1>6, <1>7 DEF Inv

\* So does entering or leaving the destructor.
LEMMA PhaseInv ==
    ASSUME Inv, Destroy \/ Destroyed
    PROVE  Inv'
<1>1. TypeOK /\ ListIsQueue /\ ClosedOnce /\ Owners BY DEF Inv
<1>2. TypeOK' BY <1>1 DEF TypeOK, Destroy, Destroyed
<1>3. ListIsQueue' BY <1>1 DEF ListIsQueue, Start, Destroy, Destroyed
<1>4. ClosedOnce' BY <1>1 DEF ClosedOnce, Queued, Destroy, Destroyed
<1>5. Owners' BY <1>1 DEF Owners, Destroy, Destroyed
<1> QED BY <1>2, <1>3, <1>4, <1>5 DEF Inv

-----------------------------------------------------------------------------
(* Taking the first element away: pop_first, and a step of the destructor *)

DropsFirst ==
    /\ order # <<>>
    /\ cell' = [cell EXCEPT ![Start].task = NoTask]
    /\ live' = live \ {Start}
    /\ order' = Tail(order)

\* What is left is a list again, and the element's nxt is its new start.
LEMMA ShorterList ==
    ASSUME QueueAssumption, TypeOK, ListIsQueue, DropsFirst
    PROVE  /\ Start = order[1] /\ Start \in live /\ Start \in Cells
           /\ Len(order) \in Nat /\ Len(order) >= 1
           /\ Len(order') = Len(order) - 1
           /\ \A i \in 1 .. Len(order') : order'[i] = order[i + 1]
           /\ IsInjective(order')
           /\ live' = {order'[i] : i \in 1 .. Len(order')}
           /\ \A i \in 1 .. Len(order') :
                cell'[order'[i]].nxt =
                    IF i = Len(order') THEN NULL ELSE order'[i + 1]
           /\ cell[Start].nxt = IF Len(order) = 1 THEN NULL ELSE order'[1]
<1> DEFINE n == Len(order)
<1>1. /\ n \in Nat /\ n >= 1 /\ DOMAIN order = 1 .. n
      /\ order' \in Seq(Cells) /\ Len(order') = n - 1
      /\ DOMAIN order' = 1 .. n - 1
      /\ \A i \in 1 .. n - 1 : order'[i] = order[i + 1]
  BY DEF DropsFirst, TypeOK
<1>2. Start = order[1] /\ 1 \in 1 .. n
  <2>1. 1 \in 1 .. n /\ n # 0 BY <1>1
  <2>2. Start = IF n = 0 THEN NULL ELSE order[1] BY DEF ListIsQueue
  <2> QED BY <2>1, <2>2
<1>3. \A i \in 1 .. n : order[i] \in live /\ order[i] \in Cells
  BY <1>1 DEF ListIsQueue, TypeOK
<1>4. \A i, j \in 1 .. n : order[i] = order[j] => i = j
  BY <1>1 DEF ListIsQueue, IsInjective
<1>5. IsInjective(order')
  <2> SUFFICES ASSUME NEW i \in 1 .. n - 1, NEW j \in 1 .. n - 1,
                      order'[i] = order'[j]
               PROVE  i = j
    BY <1>1 DEF IsInjective
  <2>1. i + 1 \in 1 .. n /\ j + 1 \in 1 .. n BY <1>1
  <2> QED BY <2>1, <1>1, <1>4
<1>6. live' = {order'[i] : i \in 1 .. n - 1}
  <2>1. ASSUME NEW c \in live' PROVE \E i \in 1 .. n - 1 : c = order'[i]
    <3>1. PICK k \in 1 .. n : c = order[k]
      BY DEF DropsFirst, ListIsQueue
    <3>2. k # 1 BY <3>1, <1>2 DEF DropsFirst
    <3>3. k - 1 \in 1 .. n - 1 /\ (k - 1) + 1 = k BY <3>2, <1>1
    <3> QED BY <3>1, <3>3, <1>1
  <2>2. ASSUME NEW i \in 1 .. n - 1 PROVE order'[i] \in live'
    <3>1. i + 1 \in 1 .. n /\ i + 1 # 1 BY <1>1
    <3>2. order[i + 1] \in live /\ order[i + 1] # order[1]
      BY <3>1, <1>2, <1>3, <1>4
    <3> QED BY <3>2, <1>1, <1>2 DEF DropsFirst
  <2> QED BY <2>1, <2>2
<1>7. ASSUME NEW i \in 1 .. n - 1
      PROVE  cell'[order'[i]].nxt = IF i = n - 1 THEN NULL ELSE order'[i + 1]
  <2>1. i + 1 \in 1 .. n BY <1>1
  <2>2. cell[order[i + 1]].nxt = IF i + 1 = n THEN NULL ELSE order[(i + 1) + 1]
    BY <2>1 DEF ListIsQueue
  <2>3. cell'[order[i + 1]].nxt = cell[order[i + 1]].nxt
    BY <2>1, <1>3 DEF DropsFirst, TypeOK
  <2>4. order'[i] = order[i + 1] BY <1>1
  <2>5. CASE i = n - 1
    <3>1. i + 1 = n BY <2>5, <1>1
    <3> QED BY <2>2, <2>3, <2>4, <2>5, <3>1
  <2>6. CASE i # n - 1
    <3>1. n \in Nat /\ i \in 1 .. n - 1 BY <1>1
    <3>2. i + 1 \in 1 .. n - 1 /\ i + 1 # n BY <3>1, <2>6
    <3>3. order'[i + 1] = order[(i + 1) + 1] BY <3>2, <1>1
    <3> QED BY <2>2, <2>3, <2>4, <3>2, <3>3, <2>6
  <2> QED BY <2>5, <2>6
<1>8. cell[Start].nxt = IF n = 1 THEN NULL ELSE order'[1]
  <2>1. cell[order[1]].nxt = IF 1 = n THEN NULL ELSE order[1 + 1]
    BY <1>2 DEF ListIsQueue
  <2>2. n # 1 => order'[1] = order[1 + 1] BY <1>1
  <2> QED BY <2>1, <2>2, <1>2
<1> QED BY <1>1, <1>2, <1>3, <1>5, <1>6, <1>7, <1>8

\* The owner of the element's descriptor t is the only thing that changes.
LEMMA OneOwnerLess ==
    ASSUME QueueAssumption, Inv, DropsFirst
    PROVE  LET t == cell[Start].task
           IN  /\ t \in Tasks /\ t \in Queued
               /\ t \notin fresh \cup taken /\ closed[t] = 0
               /\ Queued' = Queued \ {t}
               /\ \A c \in live' : c \in live /\ cell'[c].task = cell[c].task
<1>1. TypeOK /\ ListIsQueue /\ ClosedOnce /\ Owners BY DEF Inv
<1>2. Start \in live /\ Start \in Cells BY <1>1, ShorterList
<1> DEFINE t == cell[Start].task
<1>3. t \in Tasks /\ t \in Queued BY <1>1, <1>2 DEF Owners, Queued
<1>4. t \notin fresh \cup taken /\ closed[t] = 0
  BY <1>1, <1>3 DEF ClosedOnce
<1>5. \A c \in live' : c \in live /\ c # Start /\ cell'[c].task = cell[c].task
  BY <1>1, <1>2 DEF DropsFirst, TypeOK
<1>6. \A c \in live : cell[c].task = t => c = Start
  BY <1>1, <1>2, <1>3 DEF ClosedOnce
<1>7. ASSUME NEW x PROVE x \in Queued' <=> x \in Queued \ {t}
  <2>1. x \in Queued' <=> \E c \in live \ {Start} : x = cell'[c].task
    BY DEF Queued, DropsFirst
  <2>2. x \in Queued <=> \E c \in live : x = cell[c].task
    BY DEF Queued
  <2>3. live' = live \ {Start} BY DEF DropsFirst
  <2> QED BY <2>1, <2>2, <2>3, <1>5, <1>6
<1>8. Queued' = Queued \ {t} BY <1>7
<1> QED BY <1>3, <1>4, <1>5, <1>8

\* Both branches of pop_first take the first element away.
LEMMA PopDropsFirst ==
    ASSUME QueueAssumption, Inv, pop_first_single \/ pop_first_several
    PROVE  /\ DropsFirst
           /\ phase = "open" /\ phase' = "open" /\ Start = first
           /\ taken' = taken \cup {cell[Start].task}
           /\ closed' = closed
           /\ UNCHANGED <<fresh, cur>>
           /\ sz' = sz - 1 /\ sz = Len(order)
           /\ first' = IF sz = 1 THEN NULL ELSE cell[Start].nxt
           /\ afterLastPtr' = IF sz = 1 THEN HEAD ELSE afterLastPtr
<1>1. TypeOK /\ ListIsQueue BY DEF Inv
<1>2. phase = "open" /\ MoveOutAndDelete /\ sz >= 1
  BY <1>1 DEF pop_first_single, pop_first_several, TypeOK
<1>3. Start = first /\ sz = Len(order)
  BY <1>1, <1>2 DEF ListIsQueue, Start
<1>4. order # <<>> BY <1>1, <1>2, <1>3 DEF TypeOK
<1>5. first \in Cells
  BY <1>1, <1>2, <1>3 DEF ListIsQueue, TypeOK
<1>6. cell'[first].task = NoTask
  BY <1>1, <1>2, <1>5 DEF MoveOutAndDelete, TypeOK
<1>7. DropsFirst
  BY <1>2, <1>3, <1>4 DEF DropsFirst, MoveOutAndDelete
<1>8. closed' = closed
  BY <1>2, <1>6 DEF MoveOutAndDelete, Close
<1>9. /\ sz' = sz - 1
      /\ first' = IF sz = 1 THEN NULL ELSE cell[first].nxt
      /\ afterLastPtr' = IF sz = 1 THEN HEAD ELSE afterLastPtr
  BY <1>1 DEF pop_first_single, pop_first_several, TypeOK
<1> QED BY <1>2, <1>3, <1>7, <1>8, <1>9 DEF MoveOutAndDelete

\* pop_first keeps the list in order.
LEMMA PopInv ==
    ASSUME QueueAssumption, Inv, pop_first_single \/ pop_first_several
    PROVE  Inv'
<1> USE DEF QueueAssumption
<1>1. TypeOK /\ ListIsQueue /\ ClosedOnce /\ Owners BY DEF Inv
<1>2. DropsFirst /\ phase = "open" /\ phase' = "open" /\ Start = first
  BY PopDropsFirst
<1>3. /\ taken' = taken \cup {cell[Start].task} /\ closed' = closed
      /\ UNCHANGED <<fresh, cur>>
      /\ sz' = sz - 1 /\ sz = Len(order)
      /\ first' = IF sz = 1 THEN NULL ELSE cell[Start].nxt
      /\ afterLastPtr' = IF sz = 1 THEN HEAD ELSE afterLastPtr
  BY PopDropsFirst
<1> DEFINE t == cell[Start].task
<1>4. /\ t \in Tasks /\ t \in Queued
      /\ t \notin fresh \cup taken /\ closed[t] = 0
      /\ Queued' = Queued \ {t}
      /\ \A c \in live' : c \in live /\ cell'[c].task = cell[c].task
  BY <1>2, OneOwnerLess
<1>5. Start \in Cells BY <1>1, <1>2, ShorterList
<1>6. cell[Start].nxt \in Cells \cup {NULL}
  BY <1>1, <1>5 DEF TypeOK
<1>7. cell' \in [Cells -> [task : Tasks \cup {NoTask}, nxt : Cells \cup {NULL}]]
  BY ZenonT(30), <1>1, <1>2, <1>5 DEF TypeOK, DropsFirst
<1>8. order' \in Seq(Cells) BY <1>1, <1>2 DEF DropsFirst, TypeOK
<1>9. TypeOK'
  BY <1>1, <1>2, <1>3, <1>4, <1>6, <1>7, <1>8, ShorterList DEF TypeOK, DropsFirst
<1>10. ListIsQueue'
  <2>1. first' = IF Len(order') = 0 THEN NULL ELSE order'[1]
    BY <1>1, <1>2, <1>3, ShorterList
  <2>2. afterLastPtr' = IF Len(order') = 0 THEN HEAD ELSE order'[Len(order')]
    <3>1. CASE sz = 1 BY <3>1, <1>1, <1>2, <1>3, ShorterList
    <3>2. CASE sz # 1
      <4>1. afterLastPtr = order[Len(order)]
        BY <3>2, <1>1, <1>2, <1>3, ShorterList DEF ListIsQueue
      <4>2. Len(order') = Len(order) - 1 /\ Len(order') >= 1 /\ Len(order') \in Nat
        BY <3>2, <1>1, <1>2, <1>3, ShorterList
      <4>3. order'[Len(order')] = order[Len(order') + 1]
        BY <4>2, <1>1, <1>2, ShorterList
      <4>4. Len(order') + 1 = Len(order) BY <4>2, <1>1, <1>2, ShorterList
      <4> QED BY <4>1, <4>2, <4>3, <4>4, <3>2, <1>3
    <3> QED BY <3>1, <3>2
  <2>3. sz' = Len(order') BY <1>1, <1>2, <1>3, ShorterList
  <2> QED BY <2>1, <2>2, <2>3, <1>1, <1>2, ShorterList DEF ListIsQueue, Start
<1>11. ClosedOnce'
  BY <1>1, <1>3, <1>4 DEF ClosedOnce
<1>12. Owners' BY <1>1, <1>2, <1>4 DEF Owners
<1> QED BY <1>9, <1>10, <1>11, <1>12 DEF Inv

\* A step of the destructor takes the first element away too.
LEMMA DestroyElementDropsFirst ==
    ASSUME QueueAssumption, Inv, DestroyElement
    PROVE  DropsFirst /\ Start = cur
<1>1. TypeOK /\ ListIsQueue BY DEF Inv
<1>2. Start = cur BY DEF DestroyElement, Start
<1>3. order # <<>>
  BY <1>1, <1>2 DEF DestroyElement, ListIsQueue, TypeOK
<1> QED BY <1>2, <1>3 DEF DestroyElement, DropsFirst

\* The destructor keeps the list in order.
LEMMA DestroyElementInv ==
    ASSUME QueueAssumption, Inv, DestroyElement
    PROVE  Inv'
<1> USE DEF QueueAssumption
<1>1. TypeOK /\ ListIsQueue /\ ClosedOnce /\ Owners BY DEF Inv
<1>2. DropsFirst /\ Start = cur BY DestroyElementDropsFirst
<1> DEFINE t == cell[Start].task
<1>3. /\ t \in Tasks /\ t \in Queued
      /\ t \notin fresh \cup taken /\ closed[t] = 0
      /\ Queued' = Queued \ {t}
      /\ \A c \in live' : c \in live /\ cell'[c].task = cell[c].task
  BY <1>2, OneOwnerLess
<1>4. closed' = [closed EXCEPT ![t] = @ + 1]
  BY <1>2, <1>3 DEF DestroyElement, Close
<1>5. Start \in Cells BY <1>1, <1>2, ShorterList
<1>6. cell[Start].nxt \in Cells \cup {NULL}
  BY <1>1, <1>5 DEF TypeOK
<1>7. cell' \in [Cells -> [task : Tasks \cup {NoTask}, nxt : Cells \cup {NULL}]]
  BY ZenonT(30), <1>1, <1>2, <1>5 DEF TypeOK, DropsFirst
<1>8. order' \in Seq(Cells) BY <1>1, <1>2 DEF DropsFirst, TypeOK
<1>9. closed' \in [Tasks -> Nat] BY <1>1, <1>3, <1>4 DEF TypeOK
<1>10. TypeOK'
  BY <1>1, <1>2, <1>6, <1>7, <1>8, <1>9 DEF TypeOK, DestroyElement
<1>11. ListIsQueue'
  <2>1. cur' = IF Len(order') = 0 THEN NULL ELSE order'[1]
    <3>1. cell[Start].nxt = IF Len(order) = 1 THEN NULL ELSE order'[1]
      BY <1>1, <1>2, ShorterList
    <3>2. cur' = cell[Start].nxt BY <1>2 DEF DestroyElement
    <3>3. Len(order') = 0 <=> Len(order) = 1
      BY <1>1, <1>2, ShorterList
    <3> QED BY <3>1, <3>2, <3>3
  <2>2. phase' = "draining" BY DEF DestroyElement
  <2> QED BY <2>1, <2>2, <1>1, <1>2, ShorterList DEF ListIsQueue, Start
<1>12. ClosedOnce'
  BY <1>1, <1>3, <1>4 DEF ClosedOnce, DestroyElement, TypeOK
<1>13. Owners' BY <1>1, <1>3 DEF Owners, DestroyElement
<1> QED BY <1>10, <1>11, <1>12, <1>13 DEF Inv

-----------------------------------------------------------------------------

\* Every operation of the queue keeps its invariant.
LEMMA NextInv ==
    ASSUME QueueAssumption, Inv, [Next]_vars
    PROVE  Inv'
<1>1. CASE \E t \in Tasks : push_back(t) BY <1>1, PushInv
<1>2. CASE \E t \in Tasks : Turn_away(t) BY <1>2, TurnAwayInv
<1>3. CASE \E t \in Tasks : EndTask(t) BY <1>3, EndTaskInv
<1>4. CASE pop_first_single \/ pop_first_several BY <1>4, PopInv
<1>5. CASE Destroy \/ Destroyed BY <1>5, PhaseInv
<1>6. CASE DestroyElement BY <1>6, DestroyElementInv
<1>7. CASE Gone \/ UNCHANGED vars
  <2>1. UNCHANGED vars BY <1>7 DEF Gone
  <2>2. TypeOK' BY <2>1 DEF vars, Inv, TypeOK
  <2>3. ListIsQueue' BY <2>1 DEF vars, Inv, ListIsQueue, Start
  <2>4. ClosedOnce' BY <2>1 DEF vars, Inv, ClosedOnce, Queued
  <2>5. Owners' BY <2>1 DEF vars, Inv, Owners
  <2> QED BY <2>2, <2>3, <2>4, <2>5 DEF Inv
<1> QED BY <1>1, <1>2, <1>3, <1>4, <1>5, <1>6, <1>7 DEF Next

\* The invariant of the queue.
LEMMA Invariance == Spec => []Inv
<1>1. Init => Inv BY InitInv, QueueAssumption
<1>2. Inv /\ [Next]_vars => Inv' BY NextInv, QueueAssumption
<1> QED BY <1>1, <1>2, PTL DEF Spec

\* WorkersTaskQueue's fields keep their types.
THEOREM Typing == Spec => []TypeOK
<1>1. Inv => TypeOK BY DEF Inv
<1> QED BY <1>1, Invariance, PTL

\* push_back and pop_first, in any order, leave a well-formed list, and
\* afterLastPtr is never left in an element that was deleted.
THEOREM ListNeverBreaks == Spec => []ListIsQueue
<1>1. Inv => ListIsQueue BY DEF Inv
<1> QED BY <1>1, Invariance, PTL

\* Every accepted connection is closed once: by the acceptor that turned it
\* away, the worker that served it, or the destructor that found it queued.
THEOREM DescriptorsClosedOnce == Spec => []ClosedOnce
<1>1. Inv => ClosedOnce BY DEF Inv
<1> QED BY <1>1, Invariance, PTL

-----------------------------------------------------------------------------
(* Refinement *)

\* push_back puts a task in at the end.
LEMMA PushPuts ==
    ASSUME QueueAssumption, Inv, NEW t \in Tasks, push_back(t)
    PROVE  Fifo!Put(t)
<1> USE DEF QueueAssumption
<1>1. TypeOK /\ ListIsQueue BY DEF Inv
<1>2. PICK el \in Cells \ live :
        /\ cell' = [c \in Cells |->
                IF c = el THEN [task |-> t, nxt |-> NULL]
                ELSE IF c = afterLastPtr THEN [cell[c] EXCEPT !.nxt = el]
                ELSE cell[c]]
        /\ order' = Append(order, el)
  BY DEF push_back
<1> DEFINE n == Len(order)
<1>3. /\ n \in Nat /\ Len(order') = n + 1 /\ order'[n + 1] = el
      /\ \A i \in 1 .. n : order'[i] = order[i] /\ order[i] \in live
                             /\ order[i] \in Cells
  BY <1>1, <1>2 DEF TypeOK, ListIsQueue
<1>4. \A c \in live : c \in Cells => cell'[c].task = cell[c].task
  BY <1>1, <1>2 DEF TypeOK
<1>5. cell'[el].task = t BY <1>2
<1>6. Contents' = Append(Contents, t)
  <2>1. Contents' = [i \in 1 .. n + 1 |-> cell'[order'[i]].task]
    BY <1>3 DEF Contents
  <2>2. Contents = [i \in 1 .. n |-> cell[order[i]].task] BY DEF Contents
  <2>3. Len(Contents) = n BY <2>2, <1>3
  <2>4. Append(Contents, t) =
            [i \in 1 .. n + 1 |-> IF i = n + 1 THEN t ELSE Contents[i]]
    BY <2>2, <2>3, <1>3
  <2>5. \A i \in 1 .. n + 1 :
            cell'[order'[i]].task = IF i = n + 1 THEN t ELSE Contents[i]
    BY <2>2, <1>3, <1>4, <1>5
  <2> QED BY <2>1, <2>4, <2>5
<1>7. Len(Contents) < CriticalLoad2
  <2>1. Len(Contents) = n BY <1>3 DEF Contents
  <2> QED BY <2>1, <1>1 DEF push_back, ListIsQueue
<1> QED BY <1>6, <1>7 DEF Fifo!Put, push_back

\* Taking the first element away leaves the tail.
LEMMA DropIsTail ==
    ASSUME QueueAssumption, Inv, DropsFirst
    PROVE  /\ Contents # <<>>
           /\ Contents' = Tail(Contents)
           /\ Head(Contents) = cell[Start].task
<1>1. TypeOK /\ ListIsQueue BY DEF Inv
<1> DEFINE n == Len(order)
<1>2. /\ Start = order[1] /\ n \in Nat /\ n >= 1 /\ Len(order') = n - 1
      /\ \A i \in 1 .. n - 1 : order'[i] = order[i + 1]
      /\ live' = {order'[i] : i \in 1 .. n - 1}
  BY <1>1, ShorterList
<1>3. \A c \in live' : cell'[c].task = cell[c].task BY OneOwnerLess
<1>4. Contents = [i \in 1 .. n |-> cell[order[i]].task] BY DEF Contents
<1>5. Contents' = [i \in 1 .. n - 1 |-> cell'[order'[i]].task]
  BY <1>2 DEF Contents
<1>6. Len(Contents) = n /\ Contents # <<>> BY <1>2, <1>4
<1>7. Tail(Contents) = [i \in 1 .. n - 1 |-> Contents[i + 1]]
  BY <1>2, <1>4, <1>6
<1>8. ASSUME NEW i \in 1 .. n - 1
      PROVE  cell'[order'[i]].task = Contents[i + 1]
  <2>1. order'[i] \in live' /\ order'[i] = order[i + 1] BY <1>2
  <2>2. i + 1 \in 1 .. n BY <1>2
  <2> QED BY <2>1, <2>2, <1>3, <1>4
<1>9. Contents' = Tail(Contents) BY <1>5, <1>7, <1>8
<1>10. Head(Contents) = cell[order[1]].task BY <1>2, <1>4, <1>6
<1> QED BY <1>2, <1>6, <1>9, <1>10

\* Every operation of the list is one of a FIFO queue, or none.
LEMMA StepRefines ==
    ASSUME QueueAssumption, Inv, [Next]_vars
    PROVE  [Fifo!Next]_<<Contents, taken>>
<1>1. CASE \E t \in Tasks : push_back(t)
  BY <1>1, PushPuts DEF Fifo!Next
<1>2. CASE \E t \in Tasks : Turn_away(t)
  BY <1>2 DEF Turn_away, Contents
<1>3. CASE \E t \in Tasks : EndTask(t)
  <2>1. PICK t \in Tasks : EndTask(t) BY <1>3
  <2>2. Contents' = Contents BY <2>1 DEF EndTask, Contents
  <2>3. Fifo!Finish(t) BY <2>1, <2>2 DEF EndTask, Fifo!Finish
  <2> QED BY <2>3 DEF Fifo!Next
<1>4. CASE pop_first_single \/ pop_first_several
  <2>1. DropsFirst /\ taken' = taken \cup {cell[Start].task}
    BY <1>4, PopDropsFirst
  <2>2. Fifo!Take BY <2>1, DropIsTail DEF Fifo!Take
  <2> QED BY <2>2 DEF Fifo!Next
<1>5. CASE Destroy \/ Destroyed \/ Gone \/ UNCHANGED vars
  BY <1>5 DEF Destroy, Destroyed, Gone, vars, Contents
<1>6. CASE DestroyElement
  <2>1. DropsFirst BY <1>6, DestroyElementDropsFirst
  <2>2. taken = {} /\ taken' = taken
    BY <1>6 DEF DestroyElement, Inv, Owners
  <2>3. Fifo!Discard BY <2>1, <2>2, DropIsTail DEF Fifo!Discard
  <2> QED BY <2>3 DEF Fifo!Next
<1> QED BY <1>1, <1>2, <1>3, <1>4, <1>5, <1>6 DEF Next

\* Whoever pushes, pops and destroys the linked list sees a bounded
\* first-in-first-out queue.
THEOREM ListImplementsFifo == Spec => QueueIsFifo
<1>1. Init => Fifo!Init BY DEF Init, Fifo!Init, Contents
<1>2. Inv /\ [Next]_vars => [Fifo!Next]_<<Contents, taken>>
  BY StepRefines, QueueAssumption
<1> QED BY <1>1, <1>2, Invariance, PTL DEF Spec, QueueIsFifo, Fifo!Spec

-----------------------------------------------------------------------------
(* A connection from the queue to its answer *)

Answers == {"none", "ok", "sorry", "error"}

Stages == {"idle", "reading", "handling", "leaving", "answering", "closing", "dead"}

Parsers ==
    [header : Nat, body : Nat, size : Nat, collecting : BOOLEAN, status : {-1, 0, 1}]

RTypeOK ==
    /\ message \in [Tasks -> Messages \cup {NoMessage}]
    /\ vm \in [Workers -> SUBSET Nat] /\ worker \in Workers
    /\ parser \in Parsers
    /\ stage \in Stages
    /\ stored \in SUBSET (Tasks \X Nat)
    /\ tx \in {"open", "none"} /\ rollback \in BOOLEAN
    /\ answer \in Answers
    /\ told \in [Tasks -> Answers \cup {"nothing"}]

\* Between requests nothing is left of the one before but its machine; a busy
\* worker has one connection, which has sent something.
InHands ==
    /\ stage = "idle" =>
        taken = {} /\ parser = NewParser /\ at = 1 /\ ~rollback /\ answer = "none"
    /\ stage \notin {"idle", "dead"} =>
        \E t \in Tasks : taken = {t} /\ message[t] \in Messages

NothingStored(t) == \A change \in stored : change[1] # t

\* Nothing is known of a connection before it is taken.
Untouched ==
    \A t \in fresh \cup Queued :
        message[t] = NoMessage /\ told[t] = "nothing" /\ NothingStored(t)

ReadWhole(m) ==
    /\ m.whole /\ parser.header = m.header
    /\ parser.body = IF m.lengths = <<>> THEN 0 ELSE Head(m.lengths)

\* The machine has one thread, at the last byte of the header.
InHeader ==
    stage = "reading" /\ parser.status = 0 /\ ~parser.collecting =>
        parser.body = 0 /\ vm[worker] = {parser.header}

InBody(m) ==
    stage = "reading" /\ parser.status = 0 /\ parser.collecting =>
        /\ m.whole /\ parser.header = m.header
        /\ m.lengths # <<>> /\ parser.size = Head(m.lengths)
        /\ parser.body < parser.size

WasRead(m) ==
    /\ stage \in {"reading", "handling"} /\ parser.status = 1 => ReadWhole(m)
    /\ stage = "handling" => parser.status = 1

\* What the open transaction has done of the script, and SQLite keeps.
InTransaction(t, m) ==
    /\ stage \in {"reading", "handling", "leaving"} => NothingStored(t)
    /\ stage \in {"reading", "handling"} => ~rollback /\ answer = "none"
    /\ stage = "reading" => at = 1
    /\ stage \in {"handling", "leaving"} =>
        /\ at \in 1 .. Len(m.script) + 1
        /\ \A i \in 1 .. at - 1 : m.script[i] = "update"
        /\ tx = "open" => work = stored \cup ({t} \X (1 .. at - 1))

\* How a handler can have been left.
HowLeft(m) ==
    stage = "leaving" =>
        /\ answer = "ok" => at = Len(m.script) + 1 /\ ~rollback
        /\ answer = "error" => rollback /\ m.handler = "command"
        /\ answer = "sorry" => ~rollback /\ m.handler = "form" /\ at <= Len(m.script)
        /\ answer = "none" /\ ~rollback => at = 1

Truth(t, m) ==
    /\ answer = "ok" => \A i \in 1 .. Len(m.script) : <<t, i>> \in stored
    /\ answer = "error" => NothingStored(t) /\ m.handler = "command"
    /\ answer = "sorry" =>
        /\ m.handler = "form"
        /\ \E i \in 1 .. Len(m.script) : <<t, i>> \notin stored

AnswerIsTrue(t, m) ==
    /\ stage \in {"reading", "handling", "leaving", "answering"} => told[t] = "nothing"
    /\ stage = "answering" => answer # "none" /\ Truth(t, m)

Reads(t) == InBody(message[t]) /\ WasRead(message[t])

Works(t) ==
    /\ InTransaction(t, message[t])
    /\ HowLeft(message[t])
    /\ AnswerIsTrue(t, message[t])

RInv ==
    /\ RTypeOK
    /\ InHands
    /\ Untouched
    /\ InHeader
    /\ \A t \in taken : Reads(t) /\ Works(t)

-----------------------------------------------------------------------------
(* The queue below *)

\* A busy worker's task is the one that is taken.
LEMMA TaskInHands ==
    ASSUME RequestsAssumption, InHands, stage \notin {"idle", "dead"}
    PROVE  /\ task \in Tasks /\ taken = {task}
           /\ request = message[task] /\ request \in Messages /\ IsMessage(request)
<1>1. PICK t \in Tasks : taken = {t} /\ message[t] \in Messages BY DEF InHands
<1>2. task = t BY <1>1 DEF task
<1> QED BY <1>1, <1>2 DEF request, RequestsAssumption

\* Every step is one of the queue's, or leaves it alone.
LEMMA QueueStep ==
    ASSUME RequestsAssumption, InHands, [RNext]_<<qvars, rvars>>
    PROVE  [Next]_vars
<1>1. CASE Accept BY <1>1 DEF Accept, Next
<1>2. CASE \E w \in Workers : TakeConnection(w)
  BY <1>2 DEF TakeConnection, Next
<1>3. CASE CloseConnection
  <2>1. task \in Tasks BY <1>3, TaskInHands DEF CloseConnection
  <2>2. EndTask(task) BY <1>3 DEF CloseConnection
  <2> QED BY <2>1, <2>2 DEF Next
<1>4. CASE Stop BY <1>4 DEF Stop, Next
<1>5. CASE \/ Recv \/ feedCharacter \/ RecvEnds \/ Begin \/ BeginFails
           \/ Update \/ Refuse \/ StatementFails \/ ApologyFails \/ Return
           \/ End \/ Rollback \/ Terminate \/ SendAnswer \/ SendFails
           \/ Crash \/ Dead
  BY <1>5 DEF Recv, feedCharacter, RecvEnds, Begin, BeginFails, Update, Refuse,
              StatementFails, ApologyFails, Return, End, Rollback, Terminate,
              SendAnswer, SendFails, Crash, Dead, qvars
<1>6. CASE UNCHANGED <<qvars, rvars>> BY <1>6 DEF qvars
<1> QED BY <1>1, <1>2, <1>3, <1>4, <1>5, <1>6 DEF RNext

\* What is still to be accepted or queued was so before the step.
LEMMA NotBackAgain ==
    ASSUME QueueAssumption, Inv, Inv', [Next]_vars,
           NEW t \in Tasks, t \in fresh' \cup Queued'
    PROVE  t \in fresh \cup Queued
<1>1. TypeOK /\ ClosedOnce /\ ClosedOnce' BY DEF Inv
<1>2. closed'[t] = 0 /\ t \notin taken' BY <1>1 DEF ClosedOnce
<1>3. closed[t] = 0 => t \in fresh \cup taken \cup Queued
  BY <1>1 DEF ClosedOnce
<1>4. \A x : \A count \in [Tasks -> Nat] :
        Close(count, x)[t] = 0 => count[t] = 0 /\ (x = t => t = NoTask)
  BY DEF Close
<1>5. closed[t] \in Nat /\ closed \in [Tasks -> Nat] /\ t # NoTask
  BY <1>1 DEF TypeOK, QueueAssumption
<1>6. closed[t] = 0 /\ t \notin taken
  <2>1. CASE \E s \in Tasks : push_back(s)
    BY <2>1, <1>2 DEF push_back
  <2>2. CASE \E s \in Tasks : Turn_away(s)
    BY <2>2, <1>2, <1>4, <1>5 DEF Turn_away
  <2>3. CASE \E s \in Tasks : EndTask(s)
    BY <2>3, <1>2, <1>4, <1>5 DEF EndTask
  <2>4. CASE pop_first_single \/ pop_first_several
    BY <2>4, <1>2, <1>4, <1>5
       DEF pop_first_single, pop_first_several, MoveOutAndDelete
  <2>5. CASE DestroyElement
    BY <2>5, <1>2, <1>4, <1>5 DEF DestroyElement
  <2>6. CASE Destroy \/ Destroyed \/ Gone \/ UNCHANGED vars
    BY <2>6, <1>2 DEF Destroy, Destroyed, Gone, vars
  <2> QED BY <2>1, <2>2, <2>3, <2>4, <2>5, <2>6 DEF Next
<1> QED BY <1>3, <1>6
-----------------------------------------------------------------------------
(* The invariant: the start, and the steps of the queue *)

\* The invariant of the workers holds at the start.
LEMMA RInitInv ==
    ASSUME QueueAssumption, RequestsAssumption, RInit
    PROVE  RInv
<1>1. RTypeOK
  <2>1. vm \in [Workers -> SUBSET Nat] BY DEF RInit
  <2>2. parser \in Parsers BY DEF RInit, Parsers, NewParser
  <2>3. message \in [Tasks -> Messages \cup {NoMessage}] BY DEF RInit
  <2>4. told \in [Tasks -> Answers \cup {"nothing"}] BY DEF RInit
  <2> QED BY <2>1, <2>2, <2>3, <2>4 DEF RInit, RTypeOK, Stages, Answers
<1>2. InHands BY DEF RInit, Init, InHands
<1>3. Untouched BY DEF RInit, Init, Untouched, Queued, NothingStored
<1>4. InHeader BY DEF RInit, InHeader
<1>5. taken = {} BY DEF RInit, Init
<1> QED BY <1>1, <1>2, <1>3, <1>4, <1>5 DEF RInv

\* Steps that change nothing but the list and the destructor's progress
LEMMA QueueOnlyInv ==
    ASSUME QueueAssumption, RequestsAssumption, Inv, Inv', RInv,
           [Next]_vars, taken' = taken, UNCHANGED rvars
    PROVE  RInv'
<1> USE DEF rvars, inputs, database, control
<1>1. RTypeOK' BY DEF RInv, RTypeOK
<1>2. InHands' BY DEF RInv, InHands
<1>3. Untouched'
  <2> SUFFICES ASSUME NEW t \in fresh' \cup Queued'
               PROVE  message[t] = NoMessage /\ told[t] = "nothing" /\ NothingStored(t)
    BY DEF Untouched, NothingStored
  <2>1. t \in Tasks BY DEF Inv, TypeOK, Owners, Queued
  <2>2. t \in fresh \cup Queued BY <2>1, NotBackAgain
  <2> QED BY <2>2 DEF RInv, Untouched
<1>4. InHeader' BY DEF RInv, InHeader
<1>5. ASSUME NEW t \in taken PROVE (Reads(t) /\ Works(t))'
  <2>1. Reads(t) /\ Works(t) BY DEF RInv
  <2>2. Reads(t)' BY <2>1 DEF Reads, InBody, WasRead, ReadWhole
  <2>3. Works(t)'
    BY <2>1 DEF Works, InTransaction, HowLeft, AnswerIsTrue, Truth, NothingStored
  <2> QED BY <2>2, <2>3
<1> QED BY <1>1, <1>2, <1>3, <1>4, <1>5 DEF RInv

\* Accepting keeps it.
LEMMA AcceptInv ==
    ASSUME QueueAssumption, RequestsAssumption, Inv, Inv', RInv, Accept \/ Stop
    PROVE  RInv'
<1>1. UNCHANGED rvars BY DEF Accept, Stop
<1>2. taken' = taken
  BY DEF Accept, Stop, push_back, Turn_away, Destroy, DestroyElement, Destroyed,
         Gone, vars
<1>3. [Next]_vars BY DEF Accept, Stop, Next
<1> QED BY <1>1, <1>2, <1>3, QueueOnlyInv

-----------------------------------------------------------------------------
(* Taking a connection and giving it back *)

\* Taking a connection out of the queue keeps it.
LEMMA TakeConnectionInv ==
    ASSUME QueueAssumption, RequestsAssumption, Inv, Inv', RInv,
           NEW w \in Workers, TakeConnection(w)
    PROVE  RInv'
<1>1. /\ stage = "idle" /\ taken = {} /\ parser = NewParser /\ at = 1 /\ ~rollback
      /\ answer = "none"
  BY DEF TakeConnection, RInv, InHands
<1>2. pop_first_single \/ pop_first_several BY DEF TakeConnection
<1>3. DropsFirst /\ taken' = {cell[Start].task} /\ UNCHANGED fresh
  BY <1>1, <1>2, PopDropsFirst
<1>4. PICK t \in Tasks :
        taken' = {t} /\ t \in Queued /\ t \notin fresh /\ Queued' = Queued \ {t}
  BY <1>3, OneOwnerLess
<1>5. PICK m \in Messages : message' = [message EXCEPT ![t] = m]
  BY <1>4 DEF TakeConnection
<1>6. /\ worker' = w /\ vm' = [vm EXCEPT ![w] = {0}] /\ stage' = "reading"
      /\ UNCHANGED <<database, sent, parser, at, rollback, answer, told, faults>>
  BY DEF TakeConnection, WipedAndStarted
<1>7. message \in [Tasks -> Messages \cup {NoMessage}] /\ vm \in [Workers -> SUBSET Nat]
  BY DEF RInv, RTypeOK
<1>8. message[t] = NoMessage /\ told[t] = "nothing" /\ NothingStored(t)
  BY <1>4 DEF RInv, Untouched
<1>9. RTypeOK'
  <2>1. message' \in [Tasks -> Messages \cup {NoMessage}] BY <1>5, <1>7
  <2>2. vm' \in [Workers -> SUBSET Nat]
    <3>1. {0} \in SUBSET Nat OBVIOUS
    <3> QED BY <3>1, <1>6, <1>7
  <2> QED BY <2>1, <2>2, <1>6 DEF RInv, RTypeOK, Stages, database
<1>10. InHands' BY <1>4, <1>5, <1>6, <1>7 DEF InHands
<1>11. Untouched'
  BY <1>3, <1>4, <1>5, <1>6, <1>7 DEF RInv, Untouched, NothingStored, database
<1>12. InHeader' BY <1>1, <1>6, <1>7 DEF InHeader, NewParser
<1>13. (Reads(t) /\ Works(t))'
  BY <1>1, <1>6, <1>8 DEF Reads, Works, InBody, WasRead, InTransaction, HowLeft,
                          AnswerIsTrue, NothingStored, NewParser, database
<1> QED BY <1>4, <1>9, <1>10, <1>11, <1>12, <1>13 DEF RInv

\* Closing one keeps it.
LEMMA CloseConnectionInv ==
    ASSUME QueueAssumption, RequestsAssumption, Inv, Inv', RInv, CloseConnection
    PROVE  RInv'
<1>1. task \in Tasks /\ taken = {task} BY TaskInHands DEF RInv, CloseConnection
<1>2. /\ EndTask(task) /\ taken' = {}
      /\ stage' = "idle" /\ parser' = NewParser /\ at' = 1
      /\ rollback' = FALSE /\ answer' = "none"
      /\ UNCHANGED <<message, vm, worker, database, told, faults>>
  BY <1>1 DEF CloseConnection, EndTask
<1>3. RTypeOK'
  <2>1. parser' \in Parsers BY <1>2 DEF Parsers, NewParser
  <2> QED BY <2>1, <1>2 DEF RInv, RTypeOK, Stages, Answers, database
<1>4. InHands' BY <1>2 DEF InHands
<1>5. Untouched'
  <2>1. UNCHANGED <<fresh, Queued>> BY <1>2 DEF EndTask, Queued
  <2> QED BY <2>1, <1>2 DEF RInv, Untouched, NothingStored, database
<1>6. InHeader' BY <1>2 DEF InHeader
<1> QED BY <1>2, <1>3, <1>4, <1>5, <1>6 DEF RInv

-----------------------------------------------------------------------------
(* Steps of a busy worker *)

\* Whatever a worker does with its connection, it keeps it.
LEMMA KeepsConnection ==
    ASSUME RInv, stage \notin {"idle", "dead"}, stage' \in Stages \ {"idle"},
           UNCHANGED <<qvars, message>>
    PROVE  InHands'
<1>1. taken' = taken BY DEF qvars, vars
<1> QED BY <1>1 DEF RInv, InHands, Stages

\* Nothing becomes known of a connection that nobody has taken.
LEMMA OthersUntouched ==
    ASSUME RInv, UNCHANGED <<qvars, message, told, stored>>
    PROVE  Untouched'
<1>1. UNCHANGED <<fresh, Queued>> BY DEF qvars, vars, Queued
<1> QED BY <1>1 DEF RInv, Untouched, NothingStored

\* The worker turns to closing the connection, or the process dies.
GivesUp ==
    /\ \/ stage' = "dead"
       \/ stage' = "closing" /\ stage \notin {"idle", "dead"}
    /\ UNCHANGED <<qvars, inputs, database, at, rollback, answer, told>>

\* A peer that gives up keeps it.
LEMMA GivesUpInv ==
    ASSUME RequestsAssumption, RInv, GivesUp
    PROVE  RInv'
<1> USE DEF inputs, database
<1>1. RTypeOK' BY DEF GivesUp, RInv, RTypeOK, Stages
<1>2. InHands' BY KeepsConnection DEF GivesUp, InHands, Stages
<1>3. Untouched' BY OthersUntouched DEF GivesUp
<1>4. InHeader' BY DEF GivesUp, InHeader
<1>5. \A t \in taken' : (Reads(t) /\ Works(t))'
  BY DEF GivesUp, Reads, Works, InBody, WasRead, InTransaction, HowLeft, AnswerIsTrue
<1> QED BY <1>1, <1>2, <1>3, <1>4, <1>5 DEF RInv

\* Receiving bytes keeps it.
LEMMA RecvInv ==
    ASSUME RInv, Recv
    PROVE  RInv'
<1> USE DEF database, control
<1>1. UNCHANGED <<qvars, database, control, message, vm, worker, parser>> BY DEF Recv
<1>2. taken' = taken BY <1>1 DEF qvars, vars
<1>3. RTypeOK' BY <1>1 DEF RInv, RTypeOK
<1>4. InHands' BY <1>1, <1>2 DEF RInv, InHands
<1>5. Untouched' BY <1>1, OthersUntouched
<1>6. InHeader' BY <1>1 DEF RInv, InHeader
<1>7. ASSUME NEW t \in taken PROVE (Reads(t) /\ Works(t))'
  <2>1. Reads(t) /\ Works(t) BY DEF RInv
  <2>2. Reads(t)' BY <1>1, <2>1 DEF Reads, InBody, WasRead, ReadWhole
  <2>3. Works(t)'
    BY <1>1, <2>1 DEF Works, InTransaction, HowLeft, AnswerIsTrue, Truth, NothingStored
  <2> QED BY <2>2, <2>3
<1> QED BY <1>2, <1>3, <1>4, <1>5, <1>6, <1>7 DEF RInv

\* What holds of a busy worker's connection
LEMMA Busy ==
    ASSUME RequestsAssumption, RInv, stage \notin {"idle", "dead"}
    PROVE  \E t \in Tasks :
                /\ t = task /\ taken = {t} /\ request = message[t]
                /\ message[t] \in Messages /\ IsMessage(message[t])
                /\ Reads(t) /\ Works(t)
BY TaskInHands DEF RInv

\* A byte of the body keeps it.
LEMMA feedBodyInv ==
    ASSUME RequestsAssumption, RInv, feedCharacter, parser.collecting
    PROVE  RInv'
<1> USE DEF database, control
<1>1. /\ stage = "reading" /\ parser.status = 0
      /\ UNCHANGED <<qvars, database, control, message, sent, worker, vm>>
      /\ parser' = [parser EXCEPT !.body = @ + 1,
                        !.status = IF parser.body + 1 >= parser.size THEN 1 ELSE 0]
  BY DEF feedCharacter, feedBody
<1>2. PICK t \in Tasks :
        /\ t = task /\ taken = {t} /\ request = message[t]
        /\ IsMessage(message[t]) /\ Reads(t) /\ Works(t)
  BY <1>1, Busy
<1>3. parser \in Parsers BY DEF RInv, RTypeOK
<1>4. /\ parser'.header = parser.header /\ parser'.size = parser.size
      /\ parser'.collecting /\ parser'.body = parser.body + 1
      /\ parser'.status = IF parser.body + 1 >= parser.size THEN 1 ELSE 0
      /\ parser' \in Parsers
  <2> DEFINE status == IF parser.body + 1 >= parser.size THEN 1 ELSE 0
  <2>1. status \in {-1, 0, 1} OBVIOUS
  <2>2. parser.body + 1 \in Nat BY <1>3 DEF Parsers
  <2>3. parser' = [parser EXCEPT !.body = @ + 1, !.status = status] BY <1>1
  <2> HIDE DEF status
  <2>4. /\ parser'.header = parser.header /\ parser'.size = parser.size
        /\ parser'.collecting /\ parser'.body = parser.body + 1
        /\ parser'.status = status
    BY <2>3, <1>3 DEF Parsers
  <2>5. parser' \in Parsers BY <2>1, <2>2, <2>3, <1>3 DEF Parsers
  <2> QED BY <2>4, <2>5 DEF status
<1>5. RTypeOK' BY <1>1, <1>4 DEF RInv, RTypeOK
<1>6. InHands' BY <1>1, KeepsConnection DEF Stages
<1>7. Untouched' BY <1>1, OthersUntouched
<1>8. InHeader' BY <1>4 DEF InHeader
<1>9. Reads(t)'
  <2>1. /\ message[t].whole /\ parser.header = message[t].header
        /\ message[t].lengths # <<>> /\ parser.size = Head(message[t].lengths)
        /\ parser.body < parser.size
    BY <1>1, <1>2 DEF Reads, InBody
  <2>2. InBody(message[t])' BY <1>1, <1>3, <1>4, <2>1 DEF InBody, Parsers
  <2>3. WasRead(message[t])'
    BY <1>1, <1>3, <1>4, <2>1 DEF WasRead, ReadWhole, Parsers
  <2> QED BY <2>2, <2>3 DEF Reads
<1>10. Works(t)'
  BY <1>1, <1>2 DEF Works, InTransaction, HowLeft, AnswerIsTrue, NothingStored
<1>11. taken' = {t} BY <1>1, <1>2 DEF qvars, vars
<1> QED BY <1>5, <1>6, <1>7, <1>8, <1>9, <1>10, <1>11 DEF RInv

\* A byte of the header keeps it.
LEMMA feedHeaderInv ==
    ASSUME RequestsAssumption, RInv, feedCharacter, ~parser.collecting
    PROVE  RInv'
<1> USE DEF database, control
<1>1. /\ stage = "reading" /\ parser.status = 0 /\ feedHeader
      /\ UNCHANGED <<qvars, database, control, message, sent, worker>>
  BY DEF feedCharacter
<1>2. PICK t \in Tasks :
        /\ t = task /\ taken = {t} /\ request = message[t]
        /\ IsMessage(message[t]) /\ Reads(t) /\ Works(t)
  BY <1>1, Busy
<1> DEFINE threads == IF fed < request.header THEN {n + 1 : n \in vm[worker]} ELSE {}
<1>3. /\ parser \in Parsers /\ vm \in [Workers -> SUBSET Nat] /\ worker \in Workers
      /\ parser.body = 0 /\ vm[worker] = {parser.header} /\ fed = parser.header
  BY <1>1 DEF RInv, RTypeOK, InHeader, fed, Parsers
<1>4. /\ threads = IF parser.header < request.header THEN {parser.header + 1} ELSE {}
      /\ threads \in SUBSET Nat
  <2>1. parser.header + 1 \in Nat BY <1>3 DEF Parsers
  <2>2. {n + 1 : n \in vm[worker]} = {parser.header + 1} BY <1>3
  <2> QED BY <2>1, <2>2, <1>3
<1>5. /\ vm' = [vm EXCEPT ![worker] = threads]
      /\ parser' = IF request.whole /\ request.header \in threads
                   THEN HeaderEnds([parser EXCEPT !.header = @ + 1], request.lengths)
                   ELSE [parser EXCEPT !.header = @ + 1,
                                       !.status = IF threads = {} THEN -1 ELSE 0]
  BY <1>1 DEF feedHeader
<1>6. vm' \in [Workers -> SUBSET Nat] /\ vm'[worker'] = threads
  BY <1>1, <1>3, <1>4, <1>5
<1> HIDE DEF threads
<1> DEFINE m == message[t]
<1>7. /\ parser' \in Parsers /\ parser'.body = 0
      /\ parser'.status = 1 => ReadWhole(m)'
      /\ parser'.status = 0 /\ parser'.collecting =>
            /\ m.whole /\ parser'.header = m.header
            /\ m.lengths # <<>> /\ parser'.size = Head(m.lengths)
            /\ parser'.body < parser'.size
      /\ parser'.status = 0 /\ ~parser'.collecting => threads = {parser'.header}
  <2>0. parser.header + 1 \in Nat BY <1>3 DEF Parsers
  <2>1. CASE request.whole /\ request.header \in threads
    <3>1. /\ m.whole /\ m.header = parser.header + 1
      BY <2>1, <1>2, <1>4
    <3>2. /\ m.lengths \in Seq(Nat \cup {Junk}) /\ Junk \notin Nat
          /\ m.lengths # <<>> => Head(m.lengths) \in Nat \cup {Junk}
      BY <1>2 DEF IsMessage, RequestsAssumption
    <3>3. CASE m.lengths = <<>>
      <4>1. parser' = [parser EXCEPT !.header = @ + 1, !.status = 1]
        BY <2>1, <3>3, <1>2, <1>5 DEF HeaderEnds
      <4>2. parser' \in Parsers /\ parser'.header = m.header
            /\ parser'.body = 0 /\ parser'.status = 1
        BY <4>1, <3>1, <1>3, <2>0 DEF Parsers
      <4>3. message' = message BY <1>1
      <4> QED BY <4>2, <4>3, <3>1, <3>3 DEF ReadWhole
    <3>4. CASE m.lengths # <<>> /\ Head(m.lengths) = Junk
      <4>1. parser' = [parser EXCEPT !.header = @ + 1, !.status = -1]
        BY <2>1, <3>4, <1>2, <1>5 DEF HeaderEnds
      <4>2. parser' \in Parsers /\ parser'.body = 0 /\ parser'.status = -1
        BY <4>1, <1>3, <2>0 DEF Parsers
      <4> QED BY <4>2
    <3>5. CASE m.lengths # <<>> /\ Head(m.lengths) # Junk
      <4>1. Head(m.lengths) \in Nat BY <3>2, <3>5
      <4>2. parser' = [parser EXCEPT !.header = @ + 1, !.collecting = TRUE,
                            !.size = Head(m.lengths),
                            !.status = IF Head(m.lengths) > MaxBody THEN -1
                                       ELSE IF Head(m.lengths) = 0 THEN 1 ELSE 0]
        BY <2>1, <3>5, <1>2, <1>5 DEF HeaderEnds
      <4> DEFINE s == IF Head(m.lengths) > MaxBody THEN -1
                      ELSE IF Head(m.lengths) = 0 THEN 1 ELSE 0
      <4>3. s \in {-1, 0, 1} /\ (s = 1 => Head(m.lengths) = 0)
            /\ (s = 0 => Head(m.lengths) > 0)
        BY <4>1
      <4> HIDE DEF s
      <4>4. /\ parser' \in Parsers /\ parser'.body = 0 /\ parser'.status = s
            /\ parser'.header = m.header /\ parser'.collecting
            /\ parser'.size = Head(m.lengths)
        <5>1. parser' = [parser EXCEPT !.header = @ + 1, !.collecting = TRUE,
                                       !.size = Head(m.lengths), !.status = s]
          BY <4>2 DEF s
        <5>2. parser' \in Parsers BY <5>1, <4>1, <4>3, <1>3, <2>0 DEF Parsers
        <5>3. /\ parser'.header = parser.header + 1 /\ parser'.body = parser.body
              /\ parser'.status = s /\ parser'.size = Head(m.lengths)
              /\ parser'.collecting
          BY <5>1, <1>3 DEF Parsers
        <5> QED BY <5>2, <5>3, <3>1, <1>3
      <4>5. message' = message BY <1>1
      <4> QED BY <4>1, <4>3, <4>4, <4>5, <3>1, <3>5 DEF ReadWhole
    <3> QED BY <3>3, <3>4, <3>5
  <2>2. CASE ~(request.whole /\ request.header \in threads)
    <3>1. parser' = [parser EXCEPT !.header = @ + 1,
                                   !.status = IF threads = {} THEN -1 ELSE 0]
      BY <2>2, <1>5
    <3> DEFINE s == IF threads = {} THEN -1 ELSE 0
    <3>2. s \in {-1, 0, 1} /\ s # 1 /\ (s = 0 => threads # {}) OBVIOUS
    <3> HIDE DEF s
    <3>3. /\ parser' \in Parsers /\ parser'.body = 0 /\ ~parser'.collecting
          /\ parser'.header = parser.header + 1 /\ parser'.status = s
      <4>1. parser' = [parser EXCEPT !.header = @ + 1, !.status = s] BY <3>1 DEF s
      <4>2. parser' \in Parsers BY <4>1, <3>2, <1>3, <2>0 DEF Parsers
      <4>3. /\ parser'.header = parser.header + 1 /\ parser'.body = parser.body
            /\ parser'.status = s /\ ~parser'.collecting
        BY <4>1, <1>3 DEF Parsers
      <4> QED BY <4>2, <4>3, <1>3
    <3> QED BY <3>2, <3>3, <1>4
  <2> QED BY <2>1, <2>2
<1>8. RTypeOK' BY <1>1, <1>6, <1>7 DEF RInv, RTypeOK
<1>9. InHands' BY <1>1, KeepsConnection DEF Stages
<1>10. Untouched' BY <1>1, OthersUntouched
<1>11. InHeader' BY <1>6, <1>7 DEF InHeader
<1>12. Reads(t)'
  BY <1>1, <1>7 DEF Reads, InBody, WasRead, ReadWhole
<1>13. Works(t)'
  BY <1>1, <1>2 DEF Works, InTransaction, HowLeft, AnswerIsTrue, NothingStored
<1>14. taken' = {t} BY <1>1, <1>2 DEF qvars, vars
<1> QED BY <1>8, <1>9, <1>10, <1>11, <1>12, <1>13, <1>14 DEF RInv
\* The request has been read.
LEMMA BeginInv ==
    ASSUME RequestsAssumption, RInv, Begin
    PROVE  RInv'
<1> USE DEF inputs
<1>1. /\ stage = "reading" /\ parser.status = 1 /\ stage' = "handling"
      /\ tx' = "open" /\ work' = stored
      /\ UNCHANGED <<qvars, inputs, stored, at, rollback, answer, told, faults>>
  BY DEF Begin
<1>2. PICK t \in Tasks :
        taken = {t} /\ IsMessage(message[t]) /\ Reads(t) /\ Works(t)
  BY <1>1, Busy
<1>3. RTypeOK' BY <1>1 DEF RInv, RTypeOK, Stages
<1>4. InHands' BY <1>1, KeepsConnection DEF Stages
<1>5. Untouched' BY <1>1, OthersUntouched
<1>6. InHeader' BY <1>1 DEF InHeader
<1>7. Reads(t)' BY <1>1, <1>2 DEF Reads, InBody, WasRead, ReadWhole
<1>8. InTransaction(t, message[t])'
  <2>1. /\ at = 1 /\ ~rollback /\ answer = "none" /\ NothingStored(t)
    BY <1>1, <1>2 DEF Works, InTransaction
  <2>2. Len(message[t].script) \in Nat BY <1>2 DEF IsMessage
  <2>3. 1 .. at - 1 = {} BY <2>1
  <2>4. stored = stored \cup ({t} \X (1 .. at - 1)) BY <2>3
  <2>5. at \in 1 .. Len(message[t].script) + 1 BY <2>1, <2>2
  <2> QED BY <1>1, <2>1, <2>3, <2>4, <2>5 DEF InTransaction, NothingStored
<1>9. Works(t)'
  BY <1>1, <1>2, <1>8 DEF Works, HowLeft, AnswerIsTrue
<1>10. taken' = {t} BY <1>1, <1>2 DEF qvars, vars
<1> QED BY <1>3, <1>4, <1>5, <1>6, <1>7, <1>9, <1>10 DEF RInv

-----------------------------------------------------------------------------
(* The transaction *)

\* What a step from "handling" or "leaving" leaves to be shown
LEMMA HandlerStep ==
    ASSUME RequestsAssumption, RInv, stage \in {"handling", "leaving"},
           stage' \in {"handling", "leaving", "answering", "closing"},
           stage' = "handling" => stage = "handling",
           UNCHANGED <<qvars, inputs, told>>, Untouched',
           stored' \in SUBSET (Tasks \X Nat),
           tx' \in {"open", "none"}, rollback' \in BOOLEAN, answer' \in Answers,
           NEW t \in Tasks, taken = {t},
           InTransaction(t, message[t])', HowLeft(message[t])',
           stage' = "answering" => (answer # "none" /\ Truth(t, message[t]))'
    PROVE  RInv'
<1> USE DEF inputs
<1>1. RTypeOK' BY DEF RInv, RTypeOK, Stages
<1>2. InHands' BY KeepsConnection DEF Stages
<1>3. InHeader' BY DEF InHeader
<1>4. Reads(t) /\ Works(t) BY DEF RInv
<1>5. Reads(t)' BY <1>4 DEF Reads, InBody, WasRead, ReadWhole
<1>6. Works(t)' BY <1>4 DEF Works, AnswerIsTrue
<1>7. taken' = {t} BY DEF qvars, vars
<1> QED BY <1>1, <1>2, <1>3, <1>5, <1>6, <1>7 DEF RInv

\* A statement that is carried out keeps it.
LEMMA UpdateInv ==
    ASSUME RequestsAssumption, RInv, Update
    PROVE  RInv'
<1>1. PICK t \in Tasks :
        /\ t = task /\ taken = {t} /\ request = message[t]
        /\ IsMessage(message[t]) /\ Works(t)
  BY Busy DEF Update
<1> DEFINE m == message[t]
<1>2. /\ stage = "handling" /\ at <= Len(m.script) /\ m.script[at] = "update"
      /\ work' = work \cup {<<t, at>>} /\ at' = at + 1
      /\ UNCHANGED <<qvars, inputs, stage, stored, tx, rollback, answer, told>>
  BY <1>1 DEF Update
<1>3. /\ at \in 1 .. Len(m.script) + 1
      /\ \A i \in 1 .. at - 1 : m.script[i] = "update"
      /\ tx = "open" => work = stored \cup ({t} \X (1 .. at - 1))
      /\ NothingStored(t) /\ ~rollback /\ answer = "none"
  BY <1>1, <1>2 DEF Works, InTransaction
<1>4. Len(m.script) \in Nat BY <1>1 DEF IsMessage
<1>5. at \in Nat /\ at' \in 1 .. Len(m.script) + 1 /\ at' - 1 = at BY <1>2, <1>3, <1>4
<1>6. \A i \in 1 .. at : i = at \/ i \in 1 .. at - 1 BY <1>5
<1>7. {t} \X (1 .. at) = ({t} \X (1 .. at - 1)) \cup {<<t, at>>}
  BY <1>3, <1>4, <1>5, <1>6
<1>8. message' = message BY <1>2 DEF inputs
<1>9. InTransaction(t, m)'
  <2>1. \A i \in 1 .. at' - 1 : m.script[i] = "update"
    BY <1>2, <1>3, <1>5, <1>6
  <2>2. tx' = "open" => work' = stored' \cup ({t} \X (1 .. at' - 1))
    BY <1>2, <1>3, <1>5, <1>7
  <2> QED BY <1>2, <1>3, <1>5, <1>8, <2>1, <2>2 DEF InTransaction, NothingStored
<1>10. HowLeft(m)' BY <1>2 DEF HowLeft
<1>11. Untouched' BY <1>2, <1>8, OthersUntouched
<1> QED BY <1>1, <1>2, <1>9, <1>10, <1>11, HandlerStep DEF RInv, RTypeOK

\* Whoever catches it
LEMMA ThrowLeaves ==
    ASSUME RequestsAssumption, NEW m \in Messages, at \in 1 .. Len(m.script),
           \A i \in 1 .. at - 1 : m.script[i] = "update",
           Throw(m.handler)
    PROVE  /\ stage' = "leaving" /\ answer' \in Answers /\ rollback' \in BOOLEAN
           /\ answer' # "ok"
           /\ answer' = "error" => rollback' /\ m.handler = "command"
           /\ answer' = "sorry" => ~rollback' /\ m.handler = "form"
           /\ answer' = "none" /\ ~rollback' => at = 1
<1>1. IsMessage(m) /\ (m.handler = "locale" => m.script = <<"refuse">>)
  BY DEF RequestsAssumption
<1>2. m.handler = "locale" => at = 1 BY <1>1
<1>3. m.handler \in {"core", "locale", "form", "command"} BY <1>1 DEF IsMessage
<1>4. CASE m.handler = "core" BY <1>4 DEF Throw, OnException, Caught, Answers
<1>5. CASE m.handler = "locale" BY <1>5, <1>2 DEF Throw, OnException, Caught, Answers
<1>6. CASE m.handler = "form" BY <1>6 DEF Throw, OnException, Caught, Answers
<1>7. CASE m.handler = "command" BY <1>7 DEF Throw, OnException, Caught, Answers
<1> QED BY <1>3, <1>4, <1>5, <1>6, <1>7

\* An exception of a handler keeps it.
LEMMA ThrowInv ==
    ASSUME RequestsAssumption, RInv, Refuse \/ StatementFails
    PROVE  RInv'
<1>1. PICK t \in Tasks :
        /\ t = task /\ taken = {t} /\ request = message[t]
        /\ message[t] \in Messages /\ IsMessage(message[t]) /\ Works(t)
  BY Busy DEF Refuse, StatementFails
<1> DEFINE m == message[t]
<1>2. /\ stage = "handling" /\ at <= Len(m.script) /\ Throw(m.handler)
      /\ UNCHANGED <<qvars, inputs, at, stored, told>>
      /\ UNCHANGED <<tx, work>> \/ tx' = "none"
  BY <1>1 DEF Refuse, StatementFails, database
<1>3. /\ at \in 1 .. Len(m.script) + 1
      /\ \A i \in 1 .. at - 1 : m.script[i] = "update"
      /\ tx = "open" => work = stored \cup ({t} \X (1 .. at - 1))
      /\ NothingStored(t)
  BY <1>1, <1>2 DEF Works, InTransaction
<1>4. Len(m.script) \in Nat BY <1>1 DEF IsMessage
<1>5. at \in 1 .. Len(m.script) BY <1>2, <1>3, <1>4
<1>6. /\ stage' = "leaving" /\ answer' \in Answers /\ rollback' \in BOOLEAN
      /\ answer' # "ok"
      /\ answer' = "error" => rollback' /\ m.handler = "command"
      /\ answer' = "sorry" => ~rollback' /\ m.handler = "form"
      /\ answer' = "none" /\ ~rollback' => at = 1
  BY <1>1, <1>2, <1>3, <1>5, ThrowLeaves
<1>7. message' = message BY <1>2 DEF inputs
<1>8. InTransaction(t, m)'
  BY <1>2, <1>3, <1>6, <1>7 DEF InTransaction, NothingStored
<1>9. HowLeft(m)' BY <1>2, <1>5, <1>6, <1>7 DEF HowLeft
<1>10. Untouched' BY <1>2, <1>7, OthersUntouched
<1>11. stored' \in SUBSET (Tasks \X Nat) /\ tx' \in {"open", "none"}
  BY <1>2 DEF RInv, RTypeOK
<1> QED BY <1>1, <1>2, <1>6, <1>8, <1>9, <1>10, <1>11, HandlerStep

\* So does one while the apology is rendered.
LEMMA ApologyFailsInv ==
    ASSUME RequestsAssumption, RInv, ApologyFails
    PROVE  RInv'
<1>1. PICK t \in Tasks :
        taken = {t} /\ IsMessage(message[t]) /\ Works(t)
  BY Busy DEF ApologyFails
<1>2. /\ stage = "leaving" /\ stage' = "leaving" /\ rollback' = TRUE /\ answer' = "none"
      /\ UNCHANGED <<qvars, inputs, at, database, told>>
  BY DEF ApologyFails, Throw, OnException, Caught
<1>3. UNCHANGED <<message, stored, work, tx>> BY <1>2 DEF inputs, database
<1>4. InTransaction(t, message[t])'
  BY <1>1, <1>2, <1>3 DEF Works, InTransaction, NothingStored
<1>5. HowLeft(message[t])' BY <1>2 DEF HowLeft
<1>6. Untouched' BY <1>2, <1>3, OthersUntouched
<1>7. /\ stored' \in SUBSET (Tasks \X Nat) /\ tx' \in {"open", "none"}
      /\ rollback' \in BOOLEAN /\ answer' \in Answers
  BY <1>2, <1>3 DEF RInv, RTypeOK, Answers
<1> QED BY <1>1, <1>2, <1>4, <1>5, <1>6, <1>7, HandlerStep

\* A handler that returns keeps it.
LEMMA ReturnInv ==
    ASSUME RequestsAssumption, RInv, Return
    PROVE  RInv'
<1>1. PICK t \in Tasks :
        /\ t = task /\ taken = {t} /\ request = message[t]
        /\ IsMessage(message[t]) /\ Works(t)
  BY Busy DEF Return
<1> DEFINE m == message[t]
<1>2. /\ stage = "handling" /\ at > Len(m.script)
      /\ stage' = "leaving" /\ answer' = "ok"
      /\ UNCHANGED <<qvars, inputs, at, database, rollback, told>>
  BY <1>1 DEF Return
<1>3. UNCHANGED <<message, stored, work, tx>> BY <1>2 DEF inputs, database
<1>4. at \in 1 .. Len(m.script) + 1 /\ ~rollback
  BY <1>1, <1>2 DEF Works, InTransaction
<1>5. at = Len(m.script) + 1
  <2>1. Len(m.script) \in Nat BY <1>1 DEF IsMessage
  <2> QED BY <2>1, <1>2, <1>4
<1>6. InTransaction(t, m)'
  BY <1>1, <1>2, <1>3 DEF Works, InTransaction, NothingStored
<1>7. HowLeft(m)' BY <1>2, <1>3, <1>4, <1>5 DEF HowLeft
<1>8. Untouched' BY <1>2, <1>3, OthersUntouched
<1>9. /\ stored' \in SUBSET (Tasks \X Nat) /\ tx' \in {"open", "none"}
      /\ rollback' \in BOOLEAN /\ answer' \in Answers
  BY <1>2, <1>3 DEF RInv, RTypeOK, Answers
<1> QED BY <1>1, <1>2, <1>6, <1>7, <1>8, <1>9, HandlerStep

\* What END stores
LEMMA EndStores ==
    ASSUME RequestsAssumption, RInv, End
    PROVE  \E t \in Tasks :
                /\ t = task /\ taken = {t} /\ message[t] \in Messages
                /\ at \in 1 .. Len(message[t].script) + 1
                /\ Len(message[t].script) \in Nat
                /\ \A i \in 1 .. at - 1 : message[t].script[i] = "update"
                /\ NothingStored(t)
                /\ stored' = stored \cup ({t} \X (1 .. at - 1))
                /\ answer # "error"
                /\ answer = "ok" => at = Len(message[t].script) + 1
                /\ answer = "sorry" => /\ message[t].handler = "form"
                                       /\ at <= Len(message[t].script)
                /\ answer = "none" => at = 1
                /\ told[t] = "nothing"
<1>1. PICK t \in Tasks :
        /\ t = task /\ taken = {t} /\ message[t] \in Messages
        /\ IsMessage(message[t]) /\ Works(t)
  BY Busy DEF End
<1>2. /\ InTransaction(t, message[t]) /\ HowLeft(message[t])
      /\ AnswerIsTrue(t, message[t])
  BY <1>1 DEF Works
<1>3. stage = "leaving" /\ tx = "open" /\ ~rollback /\ stored' = work
  BY DEF End
<1>4. Len(message[t].script) \in Nat BY <1>1 DEF IsMessage
<1> QED BY <1>1, <1>2, <1>3, <1>4 DEF InTransaction, HowLeft, AnswerIsTrue

\* END keeps it: what was written becomes what is stored.
LEMMA EndInv ==
    ASSUME QueueAssumption, RequestsAssumption, Inv, RInv, End
    PROVE  RInv'
<1>1. PICK t \in Tasks :
        /\ t = task /\ taken = {t}
        /\ at \in 1 .. Len(message[t].script) + 1
        /\ Len(message[t].script) \in Nat
        /\ NothingStored(t)
        /\ stored' = stored \cup ({t} \X (1 .. at - 1))
        /\ answer # "error"
        /\ answer = "ok" => at = Len(message[t].script) + 1
        /\ answer = "sorry" => /\ message[t].handler = "form"
                               /\ at <= Len(message[t].script)
  BY EndStores
<1>2. /\ stage = "leaving" /\ tx' = "none" /\ Left
      /\ UNCHANGED <<qvars, inputs, at, rollback, answer, told>>
  BY DEF End
<1>3. /\ stage' \in {"closing", "answering"}
      /\ stage' = "answering" => answer # "none"
  BY <1>2 DEF Left
<1>4. message' = message BY <1>2 DEF inputs
<1>5. stored' \in SUBSET (Tasks \X Nat)
  <2>1. 1 .. at - 1 \in SUBSET Nat BY <1>1
  <2> QED BY <2>1, <1>1 DEF RInv, RTypeOK
<1>6. Untouched'
  <2>1. UNCHANGED <<fresh, Queued>> BY <1>2 DEF qvars, vars, Queued
  <2>2. t \notin fresh \cup Queued BY <1>1 DEF Inv, ClosedOnce
  <2>3. ASSUME NEW s \in fresh \cup Queued, NEW change \in stored'
        PROVE  change[1] # s
    BY <2>2, <1>1 DEF RInv, Untouched, NothingStored
  <2> QED BY <2>1, <2>3, <1>2, <1>4 DEF RInv, Untouched, NothingStored
<1>7. Truth(t, message[t])'
  <2> DEFINE m == message[t]
  <2>1. answer = "ok" => \A i \in 1 .. Len(m.script) : <<t, i>> \in stored'
    BY <1>1
  <2>2. answer = "sorry" =>
            m.handler = "form" /\ \E i \in 1 .. Len(m.script) : <<t, i>> \notin stored'
    <3> SUFFICES ASSUME answer = "sorry"
                 PROVE  at \in 1 .. Len(m.script) /\ <<t, at>> \notin stored'
      BY <1>1
    <3>1. at \in 1 .. Len(m.script) /\ at \notin 1 .. at - 1 BY <1>1
    <3>2. <<t, at>> \notin stored BY <1>1 DEF NothingStored
    <3> QED BY <3>1, <3>2, <1>1
  <2> QED BY <2>1, <2>2, <1>1, <1>2, <1>4 DEF Truth
<1>8. InTransaction(t, message[t])' /\ HowLeft(message[t])'
  BY <1>3 DEF InTransaction, HowLeft
<1>9. rollback' \in BOOLEAN /\ answer' \in Answers BY <1>2 DEF RInv, RTypeOK
<1> QED BY <1>1, <1>2, <1>3, <1>5, <1>6, <1>7, <1>8, <1>9, HandlerStep

\* ROLLBACK keeps it: what was written is gone.
LEMMA RollbackInv ==
    ASSUME RequestsAssumption, RInv, Rollback
    PROVE  RInv'
<1>1. PICK t \in Tasks : taken = {t} /\ Works(t)
  BY Busy DEF Rollback
<1>2. /\ stage = "leaving" /\ rollback /\ tx' = "none" /\ Left
      /\ UNCHANGED <<qvars, inputs, at, stored, rollback, answer, told>>
  BY DEF Rollback
<1>3. /\ stage' \in {"closing", "answering"}
      /\ stage' = "answering" => answer # "none"
  BY <1>2 DEF Left
<1>4. message' = message BY <1>2 DEF inputs
<1>5. answer \notin {"ok", "sorry"} /\ NothingStored(t)
  BY <1>1, <1>2 DEF Works, InTransaction, HowLeft
<1>6. answer = "error" => message[t].handler = "command"
  BY <1>1, <1>2 DEF Works, HowLeft
<1>7. Truth(t, message[t])' BY <1>2, <1>4, <1>5, <1>6 DEF Truth, NothingStored
<1>8. InTransaction(t, message[t])' /\ HowLeft(message[t])'
  BY <1>3 DEF InTransaction, HowLeft
<1>9. Untouched' BY <1>2, <1>4, OthersUntouched
<1>10. /\ stored' \in SUBSET (Tasks \X Nat)
       /\ rollback' \in BOOLEAN /\ answer' \in Answers
  BY <1>2 DEF RInv, RTypeOK
<1> QED BY <1>1, <1>2, <1>3, <1>7, <1>8, <1>9, <1>10, HandlerStep

\* Sending the answer keeps it.
LEMMA SendAnswerInv ==
    ASSUME QueueAssumption, RequestsAssumption, Inv, RInv, SendAnswer
    PROVE  RInv'
<1> USE DEF inputs, database
<1>1. PICK t \in Tasks : t = task /\ taken = {t} BY Busy DEF SendAnswer
<1>2. /\ stage = "answering" /\ stage' = "closing"
      /\ told' = [told EXCEPT ![t] = answer]
      /\ UNCHANGED <<qvars, inputs, at, database, rollback, answer>>
  BY <1>1 DEF SendAnswer
<1>3. RTypeOK' BY <1>2 DEF RInv, RTypeOK, Stages
<1>4. InHands' BY <1>2, KeepsConnection DEF Stages
<1>5. Untouched'
  <2>1. UNCHANGED <<fresh, Queued>> BY <1>2 DEF qvars, vars, Queued
  <2>2. t \notin fresh \cup Queued BY <1>1 DEF Inv, ClosedOnce
  <2>3. fresh \cup Queued \in SUBSET Tasks
    BY DEF Inv, TypeOK, Owners, Queued
  <2> QED BY <2>1, <2>2, <2>3, <1>2 DEF RInv, RTypeOK, Untouched, NothingStored
<1>6. InHeader' BY <1>2 DEF InHeader
<1>7. \A s \in taken' : (Reads(s) /\ Works(s))'
  BY <1>2 DEF Reads, Works, InBody, WasRead, InTransaction, HowLeft, AnswerIsTrue
<1> QED BY <1>3, <1>4, <1>5, <1>6, <1>7 DEF RInv

-----------------------------------------------------------------------------

\* Every step of a worker or of the acceptor keeps both invariants.
LEMMA RNextInv ==
    ASSUME QueueAssumption, RequestsAssumption, Inv, RInv, [RNext]_<<qvars, rvars>>
    PROVE  Inv' /\ RInv'
<1>1. [Next]_vars BY QueueStep DEF RInv
<1>2. Inv' BY <1>1, NextInv
<1>3. RInv'
  <2>1. CASE Accept \/ Stop BY <2>1, <1>2, AcceptInv
  <2>2. CASE \E w \in Workers : TakeConnection(w)
    BY <2>2, <1>2, TakeConnectionInv
  <2>3. CASE Recv BY <2>3, RecvInv
  <2>4. CASE feedCharacter BY <2>4, feedBodyInv, feedHeaderInv
  <2>5. CASE RecvEnds \/ BeginFails \/ SendFails \/ Terminate \/ Crash
    <3>1. CASE RecvEnds BY <3>1, GivesUpInv DEF GivesUp, RecvEnds
    <3>2. CASE BeginFails BY <3>2, GivesUpInv DEF GivesUp, BeginFails
    <3>3. CASE SendFails BY <3>3, GivesUpInv DEF GivesUp, SendFails
    <3>4. CASE Terminate
      <4>1. /\ stage' = "dead"
            /\ UNCHANGED <<qvars, inputs, database, at, rollback, answer, told>>
        BY <3>4 DEF Terminate
      <4> QED BY <4>1, GivesUpInv DEF GivesUp
    <3>5. CASE Crash BY <3>5, GivesUpInv DEF GivesUp, Crash
    <3> QED BY <2>5, <3>1, <3>2, <3>3, <3>4, <3>5
  <2>6. CASE Begin BY <2>6, BeginInv
  <2>7. CASE Update BY <2>7, UpdateInv
  <2>8. CASE Refuse \/ StatementFails BY <2>8, ThrowInv
  <2>9. CASE ApologyFails BY <2>9, ApologyFailsInv
  <2>10. CASE Return BY <2>10, ReturnInv
  <2>11. CASE End BY <2>11, EndInv
  <2>12. CASE Rollback BY <2>12, RollbackInv
  <2>13. CASE SendAnswer BY <2>13, SendAnswerInv
  <2>14. CASE CloseConnection BY <2>14, <1>2, CloseConnectionInv
  <2>15. CASE Dead \/ UNCHANGED <<qvars, rvars>>
    <3>1. UNCHANGED <<vars, rvars>> BY <2>15 DEF Dead, qvars
    <3>2. taken' = taken BY <3>1 DEF vars
    <3> QED BY <3>1, <3>2, <1>1, <1>2, QueueOnlyInv
  <2> QED BY <2>1, <2>2, <2>3, <2>4, <2>5, <2>6, <2>7, <2>8, <2>9, <2>10, <2>11,
             <2>12, <2>13, <2>14, <2>15 DEF RNext
<1> QED BY <1>2, <1>3

\* Both invariants, of queue and workers.
LEMMA RequestsInvariance == RSpec => [](Inv /\ RInv)
<1>1. RInit => Inv /\ RInv
  BY InitInv, RInitInv, QueueAssumption, RequestsAssumption DEF RInit
<1>2. (Inv /\ RInv) /\ [RNext]_<<qvars, rvars>> => (Inv /\ RInv)'
  BY RNextInv, QueueAssumption, RequestsAssumption
<1> QED BY <1>1, <1>2, PTL DEF RSpec

\* However requests are read, carried out and cut off, and wherever the
\* process dies, the queue below them is the one of TaskQueue, ...
LEMMA QueueBelow == RSpec => Spec
<1>1. RInit => Init BY DEF RInit
<1>2. RInv /\ [RNext]_<<qvars, rvars>> => [Next]_vars
  BY QueueStep, RequestsAssumption DEF RInv
<1> QED BY <1>1, <1>2, RequestsInvariance, PTL DEF RSpec, Spec

\* ... first in, first out, ...
THEOREM RequestsAreQueued == RSpec => QueueIsFifo
BY QueueBelow, ListImplementsFifo

\* ... and every descriptor is closed once.
THEOREM RequestsCloseOnce == RSpec => []ClosedOnce
BY QueueBelow, DescriptorsClosedOnce

\* A worker carries out what the client has sent: it never takes bytes of one
\* request for another's, and no byte of the body is missing or too many.
THEOREM WholeRequests == RSpec => []RequestIsReadWhole
<1>1. RequestsAssumption /\ RInv => RequestIsReadWhole
  <2> SUFFICES ASSUME RequestsAssumption, RInv, stage = "handling"
               PROVE  ReadWhole(request)
    BY DEF RequestIsReadWhole, ReadWhole
  <2>1. PICK t \in Tasks : request = message[t] /\ Reads(t) BY Busy
  <2> QED BY <2>1 DEF Reads, WasRead
<1> QED BY <1>1, RequestsInvariance, RequestsAssumption, PTL

-----------------------------------------------------------------------------
(* Whole or not at all, and answered truthfully *)

\* What the abstract specification sees of a step
seen == <<message, stored, told>>

\* To the peers, taking a connection is the request's being sent.
LEMMA TakeIsSend ==
    ASSUME QueueAssumption, RequestsAssumption, Inv, RInv,
           NEW w \in Workers, TakeConnection(w)
    PROVE  Atomic!Next
<1>1. stage = "idle" /\ taken = {} /\ (pop_first_single \/ pop_first_several)
  BY DEF TakeConnection
<1>2. DropsFirst /\ taken' = {cell[Start].task} BY <1>1, PopDropsFirst
<1>3. PICK t \in Tasks : taken' = {t} /\ t \in Queued
  BY <1>2, OneOwnerLess
<1>4. PICK m \in Messages : message' = [message EXCEPT ![t] = m]
  BY <1>3 DEF TakeConnection
<1>5. message[t] = NoMessage BY <1>3 DEF RInv, Untouched
<1>6. UNCHANGED <<stored, told>> BY DEF TakeConnection, database
<1>7. Atomic!Send(t) BY <1>4, <1>5, <1>6 DEF Atomic!Send
<1> QED BY <1>7 DEF Atomic!Next

\* ... END its being carried out, at once and as a whole, if it wrote.
LEMMA EndIsCarryOut ==
    ASSUME RequestsAssumption, RInv, End
    PROVE  Atomic!Next \/ UNCHANGED seen
<1>1. PICK t \in Tasks :
        /\ message[t] \in Messages
        /\ at \in 1 .. Len(message[t].script) + 1
        /\ Len(message[t].script) \in Nat
        /\ \A i \in 1 .. at - 1 : message[t].script[i] = "update"
        /\ NothingStored(t)
        /\ stored' = stored \cup ({t} \X (1 .. at - 1))
        /\ answer # "error"
        /\ answer = "ok" => at = Len(message[t].script) + 1
        /\ answer = "sorry" => /\ message[t].handler = "form"
                               /\ at <= Len(message[t].script)
        /\ answer = "none" => at = 1
        /\ told[t] = "nothing"
  BY EndStores
<1> DEFINE m == message[t]
<1>2. UNCHANGED <<message, told>> BY DEF End, inputs
<1>3. IsMessage(m) BY <1>1 DEF RequestsAssumption
<1>4. Atomic!Changes(t) = 1 .. Len(m.script)
  BY <1>3 DEF IsMessage, Atomic!Changes
<1>5. Atomic!Open(t) BY <1>1 DEF Atomic!Open, RequestsAssumption
<1>6. Atomic!Done(t) = {} BY <1>1 DEF Atomic!Done, NothingStored
<1>7. Atomic!Store(t, 1 .. at - 1) BY <1>1, <1>2 DEF Atomic!Store
<1>8. CASE answer = "ok"
  <2>1. 1 .. at - 1 = Atomic!Changes(t) BY <1>1, <1>4, <1>8
  <2>2. Atomic!CarryOut(t) BY <2>1, <1>5, <1>6, <1>7 DEF Atomic!CarryOut
  <2> QED BY <2>2 DEF Atomic!Next
<1>9. CASE answer = "sorry"
  <2>1. at \in Atomic!Changes(t) /\ m.handler = "form" BY <1>1, <1>4, <1>9
  <2>2. Atomic!CarryOutPart(t) BY <2>1, <1>5, <1>6, <1>7 DEF Atomic!CarryOutPart
  <2> QED BY <2>2 DEF Atomic!Next
<1>10. CASE answer = "none"
  <2>1. 1 .. at - 1 = {} BY <1>1, <1>10
  <2>2. stored' = stored BY <2>1, <1>1
  <2> QED BY <2>2, <1>2 DEF seen
<1>11. answer \in Answers BY DEF RInv, RTypeOK
<1> QED BY <1>1, <1>8, <1>9, <1>10, <1>11 DEF Answers

\* ... and sending the answer their being told.
LEMMA SendAnswerIsTell ==
    ASSUME RequestsAssumption, RInv, SendAnswer
    PROVE  Atomic!Next
<1>1. PICK t \in Tasks :
        /\ t = task /\ message[t] \in Messages /\ IsMessage(message[t]) /\ Works(t)
  BY Busy DEF SendAnswer
<1> DEFINE m == message[t]
<1>2. stage = "answering" /\ told' = [told EXCEPT ![t] = answer]
      /\ UNCHANGED <<message, stored>>
  BY <1>1 DEF SendAnswer, inputs, database
<1>3. told[t] = "nothing" /\ answer # "none" /\ Truth(t, m)
  BY <1>1, <1>2 DEF Works, AnswerIsTrue
<1>4. Atomic!Open(t) BY <1>1, <1>3 DEF Atomic!Open, RequestsAssumption
<1>5. answer \in {"ok", "error", "sorry"} BY <1>3 DEF RInv, RTypeOK, Answers
<1>6. Atomic!Changes(t) = 1 .. Len(m.script)
  BY <1>1 DEF IsMessage, Atomic!Changes
<1>7. answer = "ok" => Atomic!Done(t) = Atomic!Changes(t)
  BY <1>3, <1>6 DEF Truth, Atomic!Done
<1>8. answer = "error" => Atomic!Done(t) = {} /\ m.handler = "command"
  BY <1>3 DEF Truth, NothingStored, Atomic!Done
<1>9. answer = "sorry" => Atomic!Done(t) # Atomic!Changes(t) /\ m.handler = "form"
  BY <1>3, <1>6 DEF Truth, Atomic!Done
<1>10. Atomic!Tell(t)
  BY <1>2, <1>4, <1>5, <1>7, <1>8, <1>9 DEF Atomic!Tell
<1> QED BY <1>10 DEF Atomic!Next

\* Every step is one of atomic requests, or nothing the peers see.
LEMMA StepIsAtomic ==
    ASSUME QueueAssumption, RequestsAssumption, Inv, RInv, [RNext]_<<qvars, rvars>>
    PROVE  [Atomic!Next]_seen
<1>1. CASE \E w \in Workers : TakeConnection(w) BY <1>1, TakeIsSend
<1>2. CASE End BY <1>2, EndIsCarryOut
<1>3. CASE SendAnswer BY <1>3, SendAnswerIsTell
<1>4. CASE Accept \/ Stop \/ Dead \/ UNCHANGED <<qvars, rvars>>
  BY <1>4 DEF Accept, Stop, Dead, rvars, inputs, database, control, seen
<1>5. CASE Recv \/ feedCharacter \/ RecvEnds \/ CloseConnection
  BY <1>5 DEF Recv, feedCharacter, RecvEnds, CloseConnection, inputs, database,
              control, seen
<1>6. CASE Begin \/ BeginFails \/ Update \/ Refuse \/ StatementFails
  BY <1>6 DEF Begin, BeginFails, Update, Refuse, StatementFails, inputs, database, seen
<1>7. CASE ApologyFails \/ Return \/ Rollback \/ Terminate \/ SendFails \/ Crash
  BY <1>7 DEF ApologyFails, Return, Rollback, Terminate, SendFails, Crash, inputs,
              database, seen
<1> QED BY <1>1, <1>2, <1>3, <1>4, <1>5, <1>6, <1>7 DEF RNext

\* Through refusals, failing statements, rollbacks of SQLite's own, a server that
\* terminates in the guard's destructor, and crashes at any step: a request is
\* stored whole or not at all (the profile form up to some field), nothing after
\* its answer, and the answer is true.
THEOREM RequestsImplementAtomic == RSpec => RequestsAreAtomic
<1>1. RInit => Atomic!Init BY DEF RInit, Atomic!Init
<1>2. Inv /\ RInv /\ [RNext]_<<qvars, rvars>> => [Atomic!Next]_(Atomic!vars)
  BY StepIsAtomic, QueueAssumption, RequestsAssumption DEF seen, Atomic!vars
<1> QED
  BY <1>1, <1>2, RequestsInvariance, PTL DEF RSpec, RequestsAreAtomic, Atomic!Spec
=============================================================================

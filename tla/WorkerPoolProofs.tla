-------------------------- MODULE WorkerPoolProofs --------------------------
(***************************************************************************)
(* The safety of the engine's threads, for any number of workers,          *)
(* connections and any capacity of the queue; and that they implement one  *)
(* server with one queue.                                                  *)
(*                                                                         *)
(* The invariant has three layers, each inductive on top of the one below: *)
(* types with what a thread holds where (Held), who has the mutex and what *)
(* follows for a worker about to sleep (Beds), and the two properties that *)
(* speak of all the threads together.                                      *)
(***************************************************************************)
EXTENDS WorkerPool, TLAPS, SequenceTheorems

USE DEF Threads

\* What a thread holds depends on where it is.
Held ==
    /\ \A w \in Workers : pc[w] = "serving" => task[w] \in Conns
    /\ pc[Main] \in {"accepted", "pushing"} => task[Main] \in Conns
    /\ \A w \in Workers : pc[w] = "finished" => termination

Types == TypeOK /\ Held

\* A worker that lies down has seen the empty queue and nobody fills it.
Beds ==
    /\ BedDiscipline
    /\ \A w \in Workers : pc[w] = "lying_down" => queue = <<>>

Inv == Types /\ Beds /\ ServedInOrder /\ NoTaskSleptOver

-----------------------------------------------------------------------------
(* Types *)

\* The types at the start.
LEMMA TypesInit == Init => Types
<1> SUFFICES ASSUME Init PROVE Types
  OBVIOUS
<1> USE PoolAssumption DEF Init, WorkerPlaces, MainPlaces
<1>1. <<>> \in Seq(Conns)
  BY EmptySeq
<1>2. pc \in [Threads -> WorkerPlaces \cup MainPlaces]
  OBVIOUS
<1>3. \A w \in Workers : pc[w] = "starting"
  OBVIOUS
<1>4. QED
  BY <1>1, <1>2, <1>3 DEF Types, TypeOK, Held

\* A worker's step keeps the types.
LEMMA TypesWorker ==
    ASSUME Types, NEW w \in Workers, Worker(w)
    PROVE  Types'
<1> USE PoolAssumption DEF Types, TypeOK, Held, WorkerPlaces, MainPlaces, Goto
<1>1. CASE TakeBed(w)
  BY <1>1 DEF TakeBed, Acquire
<1>2. CASE SeeTermination(w)
  BY <1>2 DEF SeeTermination, Move, Release
<1>3. CASE SeeNoTermination(w)
  BY <1>3 DEF SeeNoTermination, Move
<1>4. CASE FindNothing(w)
  BY <1>4 DEF FindNothing, Move
<1>5. CASE FallAsleep(w)
  BY <1>5 DEF FallAsleep, Move, Release
<1>6. CASE SpuriousWakeup(w)
  BY <1>6 DEF SpuriousWakeup, Move
<1>7. CASE TakeTask(w)
  <2>1. Head(queue) \in Conns /\ Tail(queue) \in Seq(Conns)
    BY <1>7, HeadTailProperties DEF TakeTask
  <2>2. QED
    BY <1>7, <2>1 DEF TakeTask, Move
<1>8. CASE Serve(w)
  BY <1>8 DEF Serve, Move
<1>9. CASE EndRound(w)
  BY <1>9 DEF EndRound, Move, Release
<1>10. QED
  BY <1>1, <1>2, <1>3, <1>4, <1>5, <1>6, <1>7, <1>8, <1>9 DEF Worker

\* The acceptor's step keeps the types.
LEMMA TypesAcceptor ==
    ASSUME Types, Acceptor
    PROVE  Types'
<1> USE PoolAssumption DEF Types, TypeOK, Held, WorkerPlaces, MainPlaces, Goto
<1>1. CASE SetupSockets
  BY <1>1 DEF SetupSockets, Move
<1>2. CASE SetupFails
  BY <1>2 DEF SetupFails, Move
<1>3. CASE CheckTermination
  BY <1>3 DEF CheckTermination, Move
<1>4. ASSUME NEW c \in Conns, AcceptConn(c) PROVE Types'
  BY <1>4 DEF AcceptConn, Move
<1>5. ASSUME NEW c \in Conns, AcceptFails(c) PROVE Types'
  BY <1>5 DEF AcceptFails
<1>6. CASE RoundOver
  BY <1>6 DEF RoundOver, Move
<1>7. CASE LockForPush
  BY <1>7 DEF LockForPush, Move, Acquire
<1>8. CASE PushTask
  <2>1. /\ Append(queue, task[Main]) \in Seq(Conns)
        /\ Append(admitted, task[Main]) \in Seq(Conns)
    BY <1>8 DEF PushTask, Move
  <2>2. queue' \in Seq(Conns) /\ admitted' \in Seq(Conns)
    BY <1>8, <2>1 DEF PushTask
  <2>3. QED
    BY <1>8, <2>2 DEF PushTask, Move, Release
<1>9. CASE DinDon
  BY <1>9 DEF DinDon, Sleepers
<1>10. ASSUME NEW from, NEW to \in MainPlaces \ {"accepted", "pushing"},
              WakeThemAll(from, to)
       PROVE Types'
  BY <1>10 DEF WakeThemAll, Sleepers
<1>11. CASE SetTermination
  BY <1>11 DEF SetTermination, Move
<1>12. CASE JoinAll
  BY <1>12 DEF JoinAll, Move
<1>13. QED
  BY <1>1, <1>2, <1>3, <1>4, <1>5, <1>6, <1>7, <1>8, <1>9, <1>10, <1>11,
     <1>12 DEF Acceptor

\* Every step keeps the types.
LEMMA TypesNext ==
    ASSUME Types, [Next]_vars
    PROVE  Types'
<1>1. CASE Signal
  BY <1>1 DEF Signal, Types, TypeOK, Held, WorkerPlaces, MainPlaces
<1>2. CASE Exited
  BY <1>2 DEF Exited, vars, Types, TypeOK, Held, WorkerPlaces, MainPlaces
<1>3. CASE UNCHANGED vars
  BY <1>3 DEF vars, Types, TypeOK, Held, WorkerPlaces, MainPlaces
<1>4. QED
  BY <1>1, <1>2, <1>3, TypesWorker, TypesAcceptor DEF Next

-----------------------------------------------------------------------------
(* The mutex *)

\* Nobody sleeps at the start.
LEMMA BedsInit == Init => Beds
BY PoolAssumption DEF Init, Beds, BedDiscipline, HoldsBed

\* A worker's step keeps the discipline of the beds.
LEMMA BedsWorker ==
    ASSUME Types, Beds, NEW w \in Workers, Worker(w)
    PROVE  Beds'
<1> USE PoolAssumption DEF Types, TypeOK, Beds, BedDiscipline, HoldsBed, Goto
<1>1. CASE TakeBed(w)
  BY <1>1 DEF TakeBed, Acquire
<1>2. CASE SeeTermination(w)
  BY <1>2 DEF SeeTermination, Move, Release
<1>3. CASE SeeNoTermination(w)
  BY <1>3 DEF SeeNoTermination, Move
<1>4. CASE FindNothing(w)
  BY <1>4 DEF FindNothing, Move
<1>5. CASE FallAsleep(w)
  BY <1>5 DEF FallAsleep, Move, Release
<1>6. CASE SpuriousWakeup(w)
  BY <1>6 DEF SpuriousWakeup, Move
<1>7. CASE TakeTask(w)
  BY <1>7 DEF TakeTask, Move
<1>8. CASE Serve(w)
  BY <1>8 DEF Serve, Move
<1>9. CASE EndRound(w)
  BY <1>9 DEF EndRound, Move, Release
<1>10. QED
  BY <1>1, <1>2, <1>3, <1>4, <1>5, <1>6, <1>7, <1>8, <1>9 DEF Worker

\* The acceptor's step keeps the discipline of the beds.
LEMMA BedsAcceptor ==
    ASSUME Types, Beds, Acceptor
    PROVE  Beds'
<1> USE PoolAssumption DEF Types, TypeOK, Beds, BedDiscipline, HoldsBed, Goto
<1>1. CASE SetupSockets
  BY <1>1 DEF SetupSockets, Move
<1>2. CASE SetupFails
  BY <1>2 DEF SetupFails, Move
<1>3. CASE CheckTermination
  BY <1>3 DEF CheckTermination, Move
<1>4. ASSUME NEW c \in Conns, AcceptConn(c) PROVE Beds'
  BY <1>4 DEF AcceptConn, Move
<1>5. ASSUME NEW c \in Conns, AcceptFails(c) PROVE Beds'
  BY <1>5 DEF AcceptFails
<1>6. CASE RoundOver
  BY <1>6 DEF RoundOver, Move
<1>7. CASE LockForPush
  BY <1>7 DEF LockForPush, Move, Acquire
<1>8. CASE PushTask
  BY <1>8 DEF PushTask, Move, Release
<1>9. CASE DinDon
  BY <1>9 DEF DinDon, Sleepers
<1>10. ASSUME NEW from \in {"failed_waking", "waking"},
              NEW to \in {"stopping", "joining"},
              WakeThemAll(from, to)
       PROVE Beds'
  BY <1>10 DEF WakeThemAll, Sleepers
<1>11. CASE SetTermination
  BY <1>11 DEF SetTermination, Move
<1>12. CASE JoinAll
  BY <1>12 DEF JoinAll, Move
<1>13. QED
  BY <1>1, <1>2, <1>3, <1>4, <1>5, <1>6, <1>7, <1>8, <1>9, <1>10, <1>11,
     <1>12 DEF Acceptor

\* Every step keeps the discipline of the beds.
LEMMA BedsNext ==
    ASSUME Types, Beds, [Next]_vars
    PROVE  Beds'
<1>1. CASE Signal
  BY <1>1 DEF Signal, Beds, BedDiscipline, HoldsBed
<1>2. CASE Exited \/ UNCHANGED vars
  BY <1>2 DEF Exited, vars, Beds, BedDiscipline, HoldsBed
<1>3. QED
  BY <1>1, <1>2, BedsWorker, BedsAcceptor DEF Next

-----------------------------------------------------------------------------
(* What is being served, before and after a step *)

\* One worker serves at a time: the critical section's is what is in service.
LEMMA ServingIs ==
    ASSUME Beds, NEW w \in Workers, pc[w] = "serving"
    PROVE  InService = <<task[w]>>
<1>1. \A v \in Workers : pc[v] = "serving" => v = w
  BY DEF Beds, BedDiscipline, HoldsBed
<1>2. (CHOOSE v \in Workers : pc[v] = "serving") = w
  BY <1>1
<1>3. QED
  BY <1>2 DEF InService

\* ... after the step too.
LEMMA ServingIsNext ==
    ASSUME Beds', NEW w \in Workers, pc'[w] = "serving"
    PROVE  InService' = <<task'[w]>>
<1>1. \A v \in Workers : pc'[v] = "serving" => v = w
  BY DEF Beds, BedDiscipline, HoldsBed
<1>2. (CHOOSE v \in Workers : pc'[v] = "serving") = w
  BY <1>1
<1>3. QED
  BY <1>2 DEF InService

\* A step that changes nothing about who is serving what.
Quiet ==
    \A w \in Workers :
        /\ pc'[w] = "serving" <=> pc[w] = "serving"
        /\ pc[w] = "serving" => task'[w] = task[w]

\* It leaves what is in service.
LEMMA QuietService ==
    ASSUME Beds, Beds', Quiet
    PROVE  InService' = InService
<1>1. CASE \E w \in Workers : pc[w] = "serving"
  <2>1. PICK w \in Workers : pc[w] = "serving"
    BY <1>1
  <2>2. pc'[w] = "serving" /\ task'[w] = task[w]
    BY <2>1 DEF Quiet
  <2>3. QED
    BY <2>1, <2>2, ServingIs, ServingIsNext
<1>2. CASE \A w \in Workers : pc[w] # "serving"
  BY <1>2 DEF Quiet, InService
<1>3. QED
  BY <1>1, <1>2

(* The four things a step of any thread can be to the outside. *)

Still == InService' = InService /\ UNCHANGED <<queue, served, admitted>>

Takes ==
    /\ queue # <<>> /\ InService = <<>>
    /\ InService' = <<Head(queue)>> /\ queue' = Tail(queue)
    /\ UNCHANGED <<served, admitted>>

Ends(c) ==
    /\ InService = <<c>> /\ InService' = <<>>
    /\ served' = Append(served, c)
    /\ UNCHANGED <<queue, admitted>>

Admits(c) ==
    /\ Len(queue) < CriticalLoad2
    /\ queue' = Append(queue, c) /\ admitted' = Append(admitted, c)
    /\ InService' = InService /\ served' = served

Shape == Still \/ Takes \/ \E c \in Conns : Ends(c) \/ Admits(c)

\* If it leaves the queue as well, nothing is seen of it.
LEMMA QuietShape ==
    ASSUME Beds, Beds', Quiet, UNCHANGED <<queue, served, admitted>>
    PROVE  Shape
BY QuietService DEF Shape, Still

\* What a worker's step does to queue and service.
LEMMA ShapeWorker ==
    ASSUME Types, Beds, Beds', NEW w \in Workers, Worker(w)
    PROVE  Shape
<1> USE PoolAssumption DEF Types, TypeOK, Held, Goto, Quiet
<1>1. CASE TakeBed(w)
  BY <1>1, QuietShape DEF TakeBed
<1>2. CASE SeeTermination(w)
  BY <1>2, QuietShape DEF SeeTermination, Move
<1>3. CASE SeeNoTermination(w)
  BY <1>3, QuietShape DEF SeeNoTermination, Move
<1>4. CASE FindNothing(w)
  BY <1>4, QuietShape DEF FindNothing, Move
<1>5. CASE FallAsleep(w)
  BY <1>5, QuietShape DEF FallAsleep, Move
<1>6. CASE SpuriousWakeup(w)
  BY <1>6, QuietShape DEF SpuriousWakeup, Move
<1>7. CASE TakeTask(w)
  <2>1. lock = w /\ pc[w] = "looking"
    BY <1>7 DEF TakeTask, Move, Beds, BedDiscipline, HoldsBed
  <2>2. \A v \in Workers : pc[v] # "serving"
    BY <2>1 DEF Beds, BedDiscipline, HoldsBed
  <2>3. InService = <<>>
    BY <2>2 DEF InService
  <2>4. pc'[w] = "serving" /\ task'[w] = Head(queue)
    BY <1>7 DEF TakeTask, Move
  <2>5. InService' = <<Head(queue)>>
    BY <2>4, ServingIsNext
  <2>6. QED
    BY <1>7, <2>3, <2>5 DEF TakeTask, Takes, Shape
<1>8. CASE Serve(w)
  <2>1. pc[w] = "serving" /\ task[w] \in Conns
    BY <1>8 DEF Serve, Move
  <2>2. InService = <<task[w]>>
    BY <2>1, ServingIs
  <2>3. \A v \in Workers : pc[v] = "serving" => v = w
    BY <2>1 DEF Beds, BedDiscipline, HoldsBed
  <2>4. \A v \in Workers : pc'[v] # "serving"
    BY <1>8, <2>3 DEF Serve, Move
  <2>5. InService' = <<>>
    BY <2>4 DEF InService
  <2>6. Ends(task[w])
    BY <1>8, <2>2, <2>5 DEF Serve, Ends
  <2>7. QED
    BY <2>1, <2>6 DEF Shape
<1>9. CASE EndRound(w)
  BY <1>9, QuietShape DEF EndRound, Move
<1>10. QED
  BY <1>1, <1>2, <1>3, <1>4, <1>5, <1>6, <1>7, <1>8, <1>9 DEF Worker

\* What the acceptor's step does to queue and service.
LEMMA ShapeAcceptor ==
    ASSUME Types, Beds, Beds', Acceptor
    PROVE  Shape
<1> USE PoolAssumption DEF Types, TypeOK, Held, Goto, Quiet
<1>1. CASE SetupSockets
  BY <1>1, QuietShape DEF SetupSockets, Move
<1>2. CASE SetupFails
  BY <1>2, QuietShape DEF SetupFails, Move
<1>3. CASE CheckTermination
  BY <1>3, QuietShape DEF CheckTermination, Move
<1>4. ASSUME NEW c \in Conns, AcceptConn(c) PROVE Shape
  BY <1>4, QuietShape DEF AcceptConn, Move
<1>5. ASSUME NEW c \in Conns, AcceptFails(c) PROVE Shape
  BY <1>5, QuietShape DEF AcceptFails
<1>6. CASE RoundOver
  BY <1>6, QuietShape DEF RoundOver, Move
<1>7. CASE LockForPush
  BY <1>7, QuietShape DEF LockForPush, Move
<1>8. CASE PushTask
  <2>1. Quiet
    BY <1>8 DEF PushTask, Move
  <2>2. InService' = InService
    BY <2>1, QuietService
  <2>3. task[Main] \in Conns
    BY <1>8 DEF PushTask, Move
  <2>4. CASE Len(queue) < CriticalLoad2
    <3>1. Admits(task[Main])
      BY <1>8, <2>2, <2>4 DEF PushTask, Admits
    <3>2. QED
      BY <3>1, <2>3 DEF Shape
  <2>5. CASE ~(Len(queue) < CriticalLoad2)
    BY <1>8, <2>2, <2>5 DEF PushTask, Shape, Still
  <2>6. QED
    BY <2>4, <2>5
<1>9. CASE DinDon
  BY <1>9, QuietShape DEF DinDon, Sleepers
<1>10. ASSUME NEW from, NEW to, WakeThemAll(from, to) PROVE Shape
  BY <1>10, QuietShape DEF WakeThemAll, Sleepers
<1>11. CASE SetTermination
  BY <1>11, QuietShape DEF SetTermination, Move
<1>12. CASE JoinAll
  BY <1>12, QuietShape DEF JoinAll, Move
<1>13. QED
  BY <1>1, <1>2, <1>3, <1>4, <1>5, <1>6, <1>7, <1>8, <1>9, <1>10, <1>11,
     <1>12 DEF Acceptor

\* What any step does to them.
LEMMA ShapeNext ==
    ASSUME Types, Beds, Beds', [Next]_vars
    PROVE  Shape
<1>1. CASE Signal
  BY <1>1, QuietShape DEF Signal, Quiet
<1>2. CASE Exited \/ UNCHANGED vars
  BY <1>2, QuietShape DEF Exited, vars, Quiet
<1>3. QED
  BY <1>1, <1>2, ShapeWorker, ShapeAcceptor DEF Next

-----------------------------------------------------------------------------
(* First come, first served *)

\* What is in service is a sequence of connections.
LEMMA InServiceIsSeq ==
    ASSUME Types
    PROVE  InService \in Seq(Conns)
<1>1. CASE \E w \in Workers : pc[w] = "serving"
  <2> DEFINE v == CHOOSE w \in Workers : pc[w] = "serving"
  <2>1. v \in Workers /\ pc[v] = "serving"
    BY <1>1
  <2>2. task[v] \in Conns
    BY <2>1 DEF Types, Held
  <2>3. InService = <<task[v]>>
    BY <1>1 DEF InService
  <2> HIDE DEF v
  <2>4. QED
    BY <2>2, <2>3
<1>2. CASE ~ \E w \in Workers : pc[w] = "serving"
  BY <1>2, EmptySeq DEF InService
<1>3. QED
  BY <1>1, <1>2

\* No such step changes the order.
LEMMA OrderNext ==
    ASSUME Types, ServedInOrder, Shape
    PROVE  ServedInOrder'
<1>1. /\ served \in Seq(Conns) /\ queue \in Seq(Conns)
      /\ admitted \in Seq(Conns)
  BY DEF Types, TypeOK
<1>2. InService \in Seq(Conns)
  BY InServiceIsSeq
<1>3. admitted = (served \o InService) \o queue
  BY DEF ServedInOrder
<1>4. CASE Still
  BY <1>3, <1>4 DEF Still, ServedInOrder
<1>5. CASE Takes
  <2>1. Head(queue) \in Conns /\ Tail(queue) \in Seq(Conns)
    BY <1>1, <1>5, HeadTailProperties DEF Takes
  <2>2. <<Head(queue)>> \o Tail(queue) = queue
    BY <1>1, <1>5 DEF Takes
  <2>3. served \o <<>> = served
    BY <1>1, ConcatEmptySeq
  <2>4. <<Head(queue)>> \in Seq(Conns)
    BY <2>1
  <2>5. (served \o <<Head(queue)>>) \o Tail(queue)
            = served \o (<<Head(queue)>> \o Tail(queue))
    BY SMTT(30), <1>1, <2>1, <2>4, ConcatAssociative
  <2>6. QED
    BY <1>3, <1>5, <2>2, <2>3, <2>5 DEF Takes, ServedInOrder
<1>6. ASSUME NEW c \in Conns, Ends(c) PROVE ServedInOrder'
  <2>1. Append(served, c) = served \o <<c>> /\ Append(served, c) \in Seq(Conns)
    BY <1>1
  <2>2. Append(served, c) \o <<>> = Append(served, c)
    BY <2>1, ConcatEmptySeq
  <2>3. QED
    BY <1>3, <1>6, <2>1, <2>2 DEF Ends, ServedInOrder
<1>7. ASSUME NEW c \in Conns, Admits(c) PROVE ServedInOrder'
  <2>1. /\ Append(queue, c) = queue \o <<c>>
        /\ Append(admitted, c) = admitted \o <<c>>
        /\ <<c>> \in Seq(Conns)
    BY <1>1, AppendIsConcat
  <2>2. served \o InService \in Seq(Conns)
    BY <1>1, <1>2, ConcatProperties
  <2>3. ((served \o InService) \o queue) \o <<c>>
            = (served \o InService) \o (queue \o <<c>>)
    <3> DEFINE front == served \o InService
    <3> HIDE DEF front
    <3>1. front \in Seq(Conns)
      BY <2>2 DEF front
    <3>2. (front \o queue) \o <<c>> = front \o (queue \o <<c>>)
      BY SMTT(30), <1>1, <2>1, <3>1, ConcatAssociative
    <3>3. QED
      BY <3>2 DEF front
  <2>4. QED
    BY <1>3, <1>7, <2>1, <2>3 DEF Admits, ServedInOrder
<1>8. QED
  BY <1>4, <1>5, <1>6, <1>7 DEF Shape

-----------------------------------------------------------------------------
(* No task is slept over *)

\* A worker's step does not leave a task slept over.
LEMMA AwakeWorker ==
    ASSUME Types, Beds, NoTaskSleptOver, NEW w \in Workers, Worker(w)
    PROVE  NoTaskSleptOver'
<1> USE PoolAssumption DEF Types, TypeOK, Held, NoTaskSleptOver, Goto,
        WorkerPlaces, MainPlaces
<1>1. CASE TakeBed(w)
  BY <1>1 DEF TakeBed
<1>2. CASE SeeTermination(w)
  BY <1>2 DEF SeeTermination, Move
<1>3. CASE SeeNoTermination(w)
  BY <1>3 DEF SeeNoTermination, Move
<1>4. CASE FindNothing(w)
  BY <1>4 DEF FindNothing, Move
<1>5. CASE FallAsleep(w)
  BY <1>5 DEF FallAsleep, Move, Beds
<1>6. CASE SpuriousWakeup(w)
  BY <1>6 DEF SpuriousWakeup, Move
<1>7. CASE TakeTask(w)
  BY <1>7 DEF TakeTask, Move
<1>8. CASE Serve(w)
  BY <1>8 DEF Serve, Move
<1>9. CASE EndRound(w)
  BY <1>9 DEF EndRound, Move
<1>10. QED
  BY <1>1, <1>2, <1>3, <1>4, <1>5, <1>6, <1>7, <1>8, <1>9 DEF Worker

\* The acceptor's step does not leave a task slept over.
LEMMA AwakeAcceptor ==
    ASSUME Types, Beds, NoTaskSleptOver, Acceptor
    PROVE  NoTaskSleptOver'
<1> USE PoolAssumption DEF Types, TypeOK, Held, NoTaskSleptOver, Goto,
        WorkerPlaces, MainPlaces
<1>1. CASE SetupSockets
  BY <1>1 DEF SetupSockets, Move
<1>2. CASE SetupFails
  BY <1>2 DEF SetupFails, Move
<1>3. CASE CheckTermination
  BY <1>3 DEF CheckTermination, Move
<1>4. ASSUME NEW c \in Conns, AcceptConn(c) PROVE NoTaskSleptOver'
  BY <1>4 DEF AcceptConn, Move
<1>5. ASSUME NEW c \in Conns, AcceptFails(c) PROVE NoTaskSleptOver'
  BY <1>5 DEF AcceptFails
<1>6. CASE RoundOver
  BY <1>6 DEF RoundOver, Move
<1>7. CASE LockForPush
  BY <1>7 DEF LockForPush, Move
<1>8. CASE PushTask
  BY <1>8 DEF PushTask, Move
<1>9. CASE DinDon
  <2>1. CASE Sleepers = {}
    BY <1>9, <2>1 DEF DinDon, Sleepers
  <2>2. CASE Sleepers # {}
    BY <1>9, <2>2 DEF DinDon, Sleepers
  <2>3. QED
    BY <2>1, <2>2
<1>10. ASSUME NEW from \in {"failed_waking", "waking"}, NEW to,
              WakeThemAll(from, to)
       PROVE NoTaskSleptOver'
  BY <1>10 DEF WakeThemAll, Sleepers
<1>11. CASE SetTermination
  BY <1>11 DEF SetTermination
<1>12. CASE JoinAll
  BY <1>12 DEF JoinAll, Move
<1>13. QED
  BY <1>1, <1>2, <1>3, <1>4, <1>5, <1>6, <1>7, <1>8, <1>9, <1>10, <1>11,
     <1>12 DEF Acceptor

\* No step does.
LEMMA AwakeNext ==
    ASSUME Types, Beds, NoTaskSleptOver, [Next]_vars
    PROVE  NoTaskSleptOver'
<1>1. CASE Signal
  BY <1>1 DEF Signal, NoTaskSleptOver
<1>2. CASE Exited \/ UNCHANGED vars
  BY <1>2 DEF Exited, vars, NoTaskSleptOver
<1>3. QED
  BY <1>1, <1>2, AwakeWorker, AwakeAcceptor DEF Next

-----------------------------------------------------------------------------
(* The invariant *)

\* The invariant holds at the start.
LEMMA InvInit == Init => Inv
<1> SUFFICES ASSUME Init PROVE Inv
  OBVIOUS
<1>1. Types /\ Beds
  BY TypesInit, BedsInit
<1>2. InService = <<>>
  BY PoolAssumption DEF Init, InService
<1>3. <<>> \o <<>> = <<>> /\ (<<>> \o <<>>) \o <<>> = <<>>
  BY EmptySeq, ConcatEmptySeq
<1>4. ServedInOrder
  BY <1>2, <1>3 DEF Init, ServedInOrder
<1>5. NoTaskSleptOver
  BY DEF Init, NoTaskSleptOver
<1>6. QED
  BY <1>1, <1>4, <1>5 DEF Inv

\* Every step keeps the invariant.
LEMMA InvNext == Inv /\ [Next]_vars => Inv'
<1> SUFFICES ASSUME Inv, [Next]_vars PROVE Inv'
  OBVIOUS
<1>1. Types' /\ Beds'
  BY TypesNext, BedsNext DEF Inv
<1>2. Shape
  BY <1>1, ShapeNext DEF Inv
<1>3. ServedInOrder'
  BY <1>2, OrderNext DEF Inv
<1>4. NoTaskSleptOver'
  BY AwakeNext DEF Inv
<1>5. QED
  BY <1>1, <1>3, <1>4 DEF Inv

\* The invariant of the pool.
LEMMA Invariance == Spec => []Inv
BY InvInit, InvNext, PTL DEF Spec

\* All the threads' data has its types (running_mainloop.cpp: WorkersEnvCommon).
THEOREM Typing == Spec => []TypeOK
<1>1. Inv => TypeOK
  BY DEF Inv, Types
<1>2. QED
  BY <1>1, Invariance, PTL

\* The mutex of corvee_bed is held by exactly the thread that is between
\* taking and releasing it: one request is processed at a time, whatever the
\* number of workers, and the queue is touched by one thread at a time.
THEOREM MutualExclusion == Spec => []BedDiscipline
<1>1. Inv => BedDiscipline
  BY DEF Inv, Beds
<1>2. QED
  BY <1>1, Invariance, PTL

\* Connections that got into WorkersTaskQueue are served in that order, each
\* once, and none is lost on the way through push_back and pop_first.
THEOREM FirstComeFirstServed == Spec => []ServedInOrder
<1>1. Inv => ServedInOrder
  BY DEF Inv
<1>2. QED
  BY <1>1, Invariance, PTL

\* din_don after every push is enough: there is no lost wakeup for a task.
\* (There is one for termination: see the run pool_signal.)
THEOREM NoLostWakeupForTasks == Spec => []NoTaskSleptOver
<1>1. Inv => NoTaskSleptOver
  BY DEF Inv
<1>2. QED
  BY <1>1, Invariance, PTL

-----------------------------------------------------------------------------
(* The threads together are one server. *)

\* The pool starts as a server of jobs does.
LEMMA ServerInit == Init => Server!Init
BY PoolAssumption DEF Init, Server!Init, InService

\* Every step of the pool is one of a server of jobs, or none.
LEMMA ServerNext ==
    ASSUME Types, Shape
    PROVE  [Server!Next]_(Server!vars)
<1>1. CASE Still
  BY <1>1 DEF Still, Server!vars
<1>2. CASE Takes
  <2>1. Server!Start
    BY <1>2 DEF Takes, Server!Start
  <2>2. QED
    BY <2>1 DEF Server!Next
<1>3. ASSUME NEW c \in Conns, Ends(c) PROVE Server!Next
  <2>1. Head(<<c>>) = c
    OBVIOUS
  <2>2. Server!Finish
    BY <1>3, <2>1 DEF Ends, Server!Finish
  <2>3. QED
    BY <2>2 DEF Server!Next
<1>4. ASSUME NEW c \in Conns, Admits(c) PROVE Server!Next
  <2>1. Server!Admit(c)
    BY <1>4 DEF Admits, Server!Admit
  <2>2. QED
    BY <2>1 DEF Server!Next
<1>5. QED
  BY <1>1, <1>2, <1>3, <1>4 DEF Shape

\* Seen from outside, the pool is JobServer: one bounded queue, and one job at
\* a time from its head.  It lets every handler of the back end be one step.
THEOREM PoolImplementsJobServer == Spec => PoolIsOneServer
<1>1. Inv /\ Inv' /\ [Next]_vars => [Server!Next]_(Server!vars)
  BY ShapeNext, ServerNext DEF Inv
<1>2. QED
  BY <1>1, ServerInit, Invariance, PTL DEF Spec, PoolIsOneServer, Server!Spec
=============================================================================

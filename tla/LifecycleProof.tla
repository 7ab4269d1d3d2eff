--------------------------- MODULE LifecycleProof ---------------------------
(***************************************************************************)
(* Theorems about Lifecycle for any buffer size and any number of opens,   *)
(* events and faults: the levels nest, and readers learn of the disconnect.*)
(* The finalizers are always the first n of one list of ten, and n says    *)
(* which buses, listeners and connections there are.                       *)
(***************************************************************************)
EXTENDS Lifecycle, SequenceTheorems, TLAPS

\* The list of the finalizers when all levels are open.
LevelAt(i) == IF i <= 3 THEN 1 ELSE IF i <= 7 THEN 2 ELSE 3
UndoAt(i) == IF i \in {1, 4, 8} THEN "shutdown" ELSE IF i \in {3, 5, 9} THEN "close"
             ELSE IF i = 7 THEN "caches" ELSE "events"

\* How many of them the first levels have.
Done(levels) == IF levels = 0 THEN 0 ELSE IF levels = 1 THEN 3
                ELSE IF levels = 2 THEN 7 ELSE 10

n == Len(finalizers)

StackInv ==
    /\ n \in 0..10
    /\ \A i \in 1..n : finalizers[i] = [level |-> LevelAt(i), undo |-> UndoAt(i)]

\* What n says of the resources.
On(l, name) == [level |-> l, listener |-> name]
ResourceInv ==
    /\ bus[1].state = "open" <=> n >= 1
    /\ bus[2].state = "open" <=> n >= 4
    /\ bus[3].state = "open" <=> n >= 8
    /\ raw[1] = "open" <=> n >= 3
    /\ raw[2] = "open" <=> n >= 5
    /\ raw[3] = "open" <=> n >= 9
    /\ listening \subseteq {On(1, "events"), On(2, "events"), On(2, "caches"), On(3, "events")}
    /\ On(1, "events") \in listening => n >= 2
    /\ On(2, "events") \in listening => n >= 6
    /\ On(2, "caches") \in listening => n >= 7
    /\ On(3, "events") \in listening => n >= 10

\* What the phase says of n.  Only the client has a step without a finalizer.
ControlInv ==
    /\ phase = "using" => n = Done(built) /\ awaiting = "none"
    /\ phase = "opening" =>
          /\ built < 3 /\ position \in 1..Len(Steps(level))
          /\ n = Done(built) + position - 1 - (IF built = 0 /\ position >= 3 THEN 1 ELSE 0)
          /\ \/ awaiting = "none"
             \/ awaiting = "open" /\ Steps(level)[position] = "open"
    /\ phase = "closing" =>
          /\ goal \in 1..3 /\ goal - 1 <= built /\ Done(goal - 1) <= n /\ ~interrupted
          /\ \/ awaiting = "none"
             \/ awaiting = "close" /\ n # 0 /\ UndoAt(n) = "close" /\ LevelAt(n) >= goal

\* A reader that keeps up has seen the disconnect, or has it before it.
KeepsUp(r) ==
    (r.state # "none" /\ ~r.missed) =>
        \/ "Disconnected" \in r.seen
        \/ r.state = "busy" /\ \E i \in DOMAIN r.backlog : r.backlog[i] = "Disconnected"

ReaderInv ==
    /\ reader[1].state = "ended" => bus[1].state = "shutdown"
    /\ raw[1] = "closed" => KeepsUp(reader[1])

NestInv == LifecycleTypeOK /\ StackInv /\ ResourceInv /\ ControlInv /\ ReaderInv

-----------------------------------------------------------------------------
(* The stack, and the bus.                                                 *)

\* Registering the next finalizer of the list.
LEMMA RegisterKeeps ==
    ASSUME LifecycleTypeOK, StackInv, NEW undo, Register(undo), n < 10,
           level = LevelAt(n + 1), undo = UndoAt(n + 1)
    PROVE  StackInv' /\ n' = n + 1 /\ finalizers' \in Seq(Undos)
<1>1. finalizers \in Seq(Undos) /\ n \in Nat
  BY DEF LifecycleTypeOK, n
<1>2. [level |-> level, undo |-> undo] \in Undos
  BY <1>1 DEF Undos, LevelAt, UndoAt, Levels
<1>3. finalizers' = Append(finalizers, [level |-> level, undo |-> undo])
  BY DEF Register
<1>4. /\ finalizers' \in Seq(Undos) /\ n' = n + 1
      /\ \A i \in 1..n : finalizers'[i] = finalizers[i]
      /\ finalizers'[n + 1] = [level |-> level, undo |-> undo]
  BY <1>1, <1>2, <1>3, AppendProperties DEF n
<1>5. \A i \in 1..(n + 1) : i \in 1..n \/ i = n + 1
  BY <1>1
<1> QED BY <1>1, <1>4, <1>5 DEF StackInv

\* Running the last finalizer of the list.
LEMMA UnregisterKeeps ==
    ASSUME LifecycleTypeOK, StackInv, finalizers # <<>>, Unregister
    PROVE  StackInv' /\ n' = n - 1 /\ n \in 1..10 /\ finalizers' \in Seq(Undos)
<1>1. finalizers \in Seq(Undos) /\ n \in Nat /\ n # 0
  BY EmptySeq DEF LifecycleTypeOK, n
<1>2. n \in 1..10
  BY <1>1 DEF StackInv
<1>3. finalizers' = SubSeq(finalizers, 1, n - 1)
  BY DEF Unregister, Front, n
<1>4. 1 \in 1..(Len(finalizers) + 1) /\ n - 1 \in (1 - 1)..Len(finalizers)
  BY <1>2 DEF n
<1>5. /\ SubSeq(finalizers, 1, n - 1) \in Seq(Undos)
      /\ Len(SubSeq(finalizers, 1, n - 1)) = n - 1
      /\ \A i \in 1..(n - 1) : SubSeq(finalizers, 1, n - 1)[i] = finalizers[i]
  BY <1>1, <1>2, <1>4, SubSeqProperties
<1>6. /\ finalizers' \in Seq(Undos) /\ n' = n - 1
      /\ \A i \in 1..(n - 1) : finalizers'[i] = finalizers[i]
  BY <1>3, <1>5 DEF n
<1> QED BY <1>2, <1>6 DEF StackInv

\* What the last finalizer is.
LEMMA NextIs ==
    ASSUME LifecycleTypeOK, StackInv, finalizers # <<>>
    PROVE  n \in 1..10 /\ next.level = LevelAt(n) /\ next.undo = UndoAt(n)
<1>1. finalizers \in Seq(Undos) /\ n \in Nat /\ n # 0
  BY EmptySeq DEF LifecycleTypeOK, n
<1>2. n \in 1..10 /\ next = finalizers[n]
  BY <1>1 DEF StackInv, n, next, nextIndex
<1>3. finalizers[n] = [level |-> LevelAt(n), undo |-> UndoAt(n)]
  BY <1>2 DEF StackInv
<1> QED BY <1>2, <1>3

LEMMA DeliveryKeeps ==
    ASSUME NEW r \in Readers, NEW event \in Events, NEW q \in Delivered(r, event)
    PROVE  /\ q \in Readers /\ (q.state = "ended" <=> r.state = "ended")
           /\ (q.state = "none" <=> r.state = "none")
           /\ KeepsUp(r) => KeepsUp(q)
           /\ event = "Disconnected" /\ r.state # "ended" => KeepsUp(q)
<1>1. CASE r.state = "waiting"
  <2>1. q = [r EXCEPT !.state = "busy", !.seen = @ \cup {event}]
    BY <1>1 DEF Delivered
  <2> QED BY <1>1, <2>1 DEF Readers, KeepsUp
<1>2. CASE r.state \in {"none", "ended"}
  <2>1. q = r
    BY <1>2 DEF Delivered
  <2> QED BY <1>2, <2>1 DEF Readers, KeepsUp
<1>3. CASE r.state = "busy"
  <2>1. r.backlog \in Seq(Events) /\ Len(r.backlog) \in Nat
    BY DEF Readers
  <2>2. CASE Len(r.backlog) < EVENT_BUFFER_SIZE
    <3>1. q = [r EXCEPT !.backlog = Append(@, event)]
      BY <1>3, <2>2 DEF Delivered
    <3>2. /\ Append(r.backlog, event) \in Seq(Events)
          /\ \A i \in DOMAIN r.backlog : /\ i \in DOMAIN Append(r.backlog, event)
                                         /\ Append(r.backlog, event)[i] = r.backlog[i]
          /\ Len(r.backlog) + 1 \in DOMAIN Append(r.backlog, event)
          /\ Append(r.backlog, event)[Len(r.backlog) + 1] = event
      BY <2>1, AppendProperties
    <3> QED BY <1>3, <3>1, <3>2 DEF Readers, KeepsUp
  <2>3. CASE ~(Len(r.backlog) < EVENT_BUFFER_SIZE)
    <3>1. r.backlog # <<>>
      BY <2>1, <2>3, LifecycleAssumption
    <3>2. Append(Tail(r.backlog), event) \in Seq(Events)
      BY <2>1, <3>1, HeadTailProperties, AppendProperties
    <3>3. \/ q = [r EXCEPT !.missed = TRUE]
          \/ q = [r EXCEPT !.missed = TRUE, !.backlog = Append(Tail(@), event)]
      BY <1>3, <2>3 DEF Delivered
    <3> QED BY <1>3, <3>2, <3>3 DEF Readers, KeepsUp
  <2> QED BY <2>2, <2>3
<1> QED BY <1>1, <1>2, <1>3 DEF Readers

\* Publishing changes no bus but its replay, and no reader but its own.
LEMMA PublishKeeps ==
    ASSUME bus \in [Levels -> Buses], reader \in [Levels -> Readers],
           NEW l \in Levels, NEW event \in Events, publishUnsafe(l, event)
    PROVE  /\ bus' \in [Levels -> Buses] /\ reader' \in [Levels -> Readers]
           /\ \A m \in Levels : bus'[m].state = bus[m].state
           /\ \A m \in Levels : /\ reader'[m].state = "ended" <=> reader[m].state = "ended"
                                /\ KeepsUp(reader[m]) => KeepsUp(reader'[m])
           /\ bus[l].state = "open" /\ event = "Disconnected" /\ reader[l].state # "ended"
                => KeepsUp(reader'[l])
<1>1. CASE bus[l].state = "open"
  <2>1. PICK q \in Delivered(reader[l], event) : reader' = [reader EXCEPT ![l] = q]
    BY <1>1 DEF publishUnsafe
  <2>2. bus' = [bus EXCEPT ![l].replay = <<event>>]
    BY <1>1 DEF publishUnsafe
  <2>a. <<event>> \in Seq(Events)
    OBVIOUS
  <2>b. [bus[l] EXCEPT !.replay = <<event>>] \in Buses
    BY <2>a DEF Buses
  <2>c. bus' = [bus EXCEPT ![l] = [bus[l] EXCEPT !.replay = <<event>>]]
    BY <2>2
  <2>d. bus' \in [Levels -> Buses]
    BY <2>b, <2>c
  <2>e. ASSUME NEW m \in Levels PROVE bus'[m].state = bus[m].state
    <3>1. CASE m = l
      BY <2>c, <3>1 DEF Buses
    <3>2. CASE m # l
      BY <2>c, <3>2
    <3> QED BY <3>1, <3>2
  <2>3. bus' \in [Levels -> Buses] /\ \A m \in Levels : bus'[m].state = bus[m].state
    BY <2>d, <2>e
  <2>4. /\ q \in Readers /\ (q.state = "ended" <=> reader[l].state = "ended")
        /\ KeepsUp(reader[l]) => KeepsUp(q)
        /\ event = "Disconnected" /\ reader[l].state # "ended" => KeepsUp(q)
    BY DeliveryKeeps
  <2>5. reader'[l] = q /\ \A m \in Levels \ {l} : reader'[m] = reader[m]
    BY <2>1
  <2>6. reader' \in [Levels -> Readers]
    BY <2>1, <2>4
  <2>7. ASSUME NEW m \in Levels
        PROVE  /\ reader'[m].state = "ended" <=> reader[m].state = "ended"
               /\ KeepsUp(reader[m]) => KeepsUp(reader'[m])
    <3>1. CASE m = l
      <4>1. reader'[m] = q /\ reader[m] = reader[l]
        BY <2>5, <3>1
      <4>2. q.state = "ended" <=> reader[l].state = "ended"
        BY <2>4
      <4>3. KeepsUp(reader[l]) => KeepsUp(q)
        BY <2>4
      <4> QED BY <4>1, <4>2, <4>3, Zenon
    <3>2. CASE m # l
      BY <2>5, <3>2
    <3> QED BY <3>1, <3>2
  <2> QED BY <2>3, <2>4, <2>5, <2>6, <2>7
<1>2. CASE bus[l].state # "open"
  BY <1>2 DEF publishUnsafe
<1> QED BY <1>1, <1>2

LEMMA InitNestInv == Init => NestInv
<1> SUFFICES ASSUME Init PROVE NestInv
  OBVIOUS
<1>e. <<>> \in Seq(Events) /\ {} \in SUBSET Events /\ <<>> \in Seq(Undos)
  OBVIOUS
<1>r. NoReader \in Readers
  BY <1>e DEF NoReader, Readers
<1>b. [state |-> "none", replay |-> <<>>] \in Buses
  BY <1>e DEF Buses
<1>f. reader \in [Levels -> Readers] /\ bus \in [Levels -> Buses] /\ finalizers \in Seq(Undos)
  BY <1>e, <1>r, <1>b DEF Init
<1>1. LifecycleTypeOK
  <2>1. 0 \in 0..MaxOpens /\ 0 \in 0..MaxEvents /\ 0 \in 0..MaxFaults
    BY LifecycleAssumption
  <2>2. raw \in [Levels -> {"none", "created", "open", "closed", "left"}]
    BY DEF Init
  <2>3. opens \in [Levels -> 0..MaxOpens]
    BY <2>1 DEF Init
  <2>4. listening \subseteq [level : Levels, listener : {"events", "caches"}]
    BY DEF Init
  <2>5. /\ phase \in {"using", "opening", "closing"} /\ built \in 0..3 /\ goal \in 0..3
        /\ position \in 0..4 /\ awaiting \in {"none", "open", "close"}
    BY DEF Init
  <2>7. interrupted \in BOOLEAN
    BY DEF Init
  <2>6. emitted \in 0..MaxEvents /\ faults \in 0..MaxFaults
    BY <2>1 DEF Init
  <2> QED BY <1>f, <2>2, <2>3, <2>4, <2>5, <2>6, <2>7 DEF LifecycleTypeOK
<1>2. n = 0
  BY DEF Init, n
<1>3. StackInv /\ ControlInv
  BY <1>2 DEF StackInv, ControlInv, Done, Init
<1>4. ResourceInv /\ ReaderInv
  BY <1>2 DEF ResourceInv, ReaderInv, Init, Levels, NoReader, KeepsUp
<1> QED BY <1>1, <1>3, <1>4 DEF NestInv

-----------------------------------------------------------------------------
(* Opening.                                                                *)

\* Where an opening is: the level, the step and the finalizers there are.
LEMMA OpeningIs ==
    ASSUME NestInv, phase = "opening"
    PROVE  \/ built = 0 /\ level = 1 /\ n = 0 /\ position = 1 /\ Steps(level)[position] = "bus"
           \/ built = 0 /\ level = 1 /\ n = 1 /\ position = 2 /\ Steps(level)[position] = "create"
           \/ built = 0 /\ level = 1 /\ n = 1 /\ position = 3 /\ Steps(level)[position] = "wire"
           \/ built = 0 /\ level = 1 /\ n = 2 /\ position = 4 /\ Steps(level)[position] = "open"
           \/ built = 1 /\ level = 2 /\ n = 3 /\ position = 1 /\ Steps(level)[position] = "bus"
           \/ built = 1 /\ level = 2 /\ n = 4 /\ position = 2 /\ Steps(level)[position] = "open"
           \/ built = 1 /\ level = 2 /\ n = 5 /\ position = 3 /\ Steps(level)[position] = "wire"
           \/ built = 1 /\ level = 2 /\ n = 6 /\ position = 4 /\ Steps(level)[position] = "caches"
           \/ built = 2 /\ level = 3 /\ n = 7 /\ position = 1 /\ Steps(level)[position] = "bus"
           \/ built = 2 /\ level = 3 /\ n = 8 /\ position = 2 /\ Steps(level)[position] = "open"
           \/ built = 2 /\ level = 3 /\ n = 9 /\ position = 3 /\ Steps(level)[position] = "wire"
<1>1. /\ built \in 0..3 /\ built < 3 /\ level = built + 1
      /\ position \in 1..Len(Steps(level))
      /\ n = Done(built) + position - 1 - (IF built = 0 /\ position >= 3 THEN 1 ELSE 0)
  BY DEF NestInv, LifecycleTypeOK, ControlInv, level
<1>2. CASE built = 0
  <2>1. level = 1
    BY <1>1, <1>2
  <2>2. Steps(level) = <<"bus", "create", "wire", "open">>
    BY <2>1 DEF Steps, CLIENT, SESSION
  <2>3. position \in 1..4
    BY <1>1, <2>2
  <2>4. n = Done(0) + position - 1 - (IF 0 = 0 /\ position >= 3 THEN 1 ELSE 0)
    BY <1>1, <1>2
  <2> QED BY <1>2, <2>1, <2>2, <2>3, <2>4 DEF Done
<1>3. CASE built = 1
  <2>1. level = 2
    BY <1>1, <1>3
  <2>2. Steps(level) = <<"bus", "open", "wire", "caches">>
    BY <2>1 DEF Steps, CLIENT, SESSION
  <2>3. position \in 1..4
    BY <1>1, <2>2
  <2>4. n = Done(1) + position - 1 - (IF 1 = 0 /\ position >= 3 THEN 1 ELSE 0)
    BY <1>1, <1>3
  <2> QED BY <1>3, <2>1, <2>2, <2>3, <2>4 DEF Done
<1>4. CASE built = 2
  <2>1. level = 3
    BY <1>1, <1>4
  <2>2. Steps(level) = <<"bus", "open", "wire">>
    BY <2>1 DEF Steps, CLIENT, SESSION
  <2>3. position \in 1..3
    BY <1>1, <2>2
  <2>4. n = Done(2) + position - 1 - (IF 2 = 0 /\ position >= 3 THEN 1 ELSE 0)
    BY <1>1, <1>4
  <2> QED BY <1>4, <2>1, <2>2, <2>3, <2>4 DEF Done
<1> QED BY <1>1, <1>2, <1>3, <1>4

\* The step is done, and its finalizer is registered.
LEMMA LastStep ==
    ASSUME NestInv, phase = "opening"
    PROVE  Len(Steps(level)) = IF built = 2 THEN 3 ELSE 4
<1>1. built \in 0..2 /\ level = built + 1
  BY DEF NestInv, LifecycleTypeOK, ControlInv, level
<1>2. /\ built = 0 => Steps(level) = <<"bus", "create", "wire", "open">>
      /\ built = 1 => Steps(level) = <<"bus", "open", "wire", "caches">>
      /\ built = 2 => Steps(level) = <<"bus", "open", "wire">>
  BY <1>1 DEF Steps, CLIENT, SESSION
<1>3. CASE built = 0
  BY <1>2, <1>3
<1>4. CASE built = 1
  BY <1>2, <1>4
<1>5. CASE built = 2
  BY <1>2, <1>5
<1> QED BY <1>1, <1>3, <1>4, <1>5

LEMMA AdvanceKeeps ==
    ASSUME NestInv, phase = "opening", Advance, awaiting' = "none", goal' = goal,
           n' = (IF Steps(level)[position] = "create" THEN n ELSE n + 1)
    PROVE  /\ ControlInv'
           /\ phase' \in {"using", "opening"} /\ built' \in 0..3 /\ position' \in 0..4
<1>1. \/ built = 0 /\ level = 1 /\ n = 0 /\ position = 1 /\ n' = 1
      \/ built = 0 /\ level = 1 /\ n = 1 /\ position = 2 /\ n' = 1
      \/ built = 0 /\ level = 1 /\ n = 1 /\ position = 3 /\ n' = 2
      \/ built = 0 /\ level = 1 /\ n = 2 /\ position = 4 /\ n' = 3
      \/ built = 1 /\ level = 2 /\ n = 3 /\ position = 1 /\ n' = 4
      \/ built = 1 /\ level = 2 /\ n = 4 /\ position = 2 /\ n' = 5
      \/ built = 1 /\ level = 2 /\ n = 5 /\ position = 3 /\ n' = 6
      \/ built = 1 /\ level = 2 /\ n = 6 /\ position = 4 /\ n' = 7
      \/ built = 2 /\ level = 3 /\ n = 7 /\ position = 1 /\ n' = 8
      \/ built = 2 /\ level = 3 /\ n = 8 /\ position = 2 /\ n' = 9
      \/ built = 2 /\ level = 3 /\ n = 9 /\ position = 3 /\ n' = 10
  BY OpeningIs
<1>4. Len(Steps(level)) = IF built = 2 THEN 3 ELSE 4
  BY LastStep
<1>2. CASE position = Len(Steps(level))
  <2>1. phase' = "using" /\ built' = level /\ position' = 0
    BY <1>2 DEF Advance
  <2>2. n' = Done(built') /\ built' \in 0..3
    BY <1>1, <1>2, <1>4, <2>1 DEF Done
  <2> QED BY <2>1, <2>2 DEF ControlInv
<1>3. CASE position # Len(Steps(level))
  <2>1. phase' = "opening" /\ built' = built /\ position' = position + 1 /\ level' = level
    BY <1>3 DEF Advance, level
  <2>2. /\ built' < 3 /\ built' \in 0..3 /\ position' \in 0..4
        /\ position' \in 1..Len(Steps(level))
        /\ n' = Done(built) + position' - 1 - (IF built = 0 /\ position' >= 3 THEN 1 ELSE 0)
    BY <1>1, <1>3, <1>4, <2>1 DEF Done
  <2> QED BY <2>1, <2>2 DEF ControlInv
<1> QED BY <1>2, <1>3

LEMMA MakeBusKeeps == ASSUME NestInv, MakeBus PROVE NestInv'
<1>1. /\ phase = "opening" /\ level \in Levels /\ Steps(level)[position] # "create"
      /\ \/ level = 1 /\ n = 0
         \/ level = 2 /\ n = 3
         \/ level = 3 /\ n = 7
  BY OpeningIs DEF MakeBus, AtStep, Levels
<1>2. level = LevelAt(n + 1) /\ UndoAt(n + 1) = "shutdown" /\ n < 10
  BY <1>1 DEF LevelAt, UndoAt
<1>3. StackInv' /\ n' = n + 1 /\ finalizers' \in Seq(Undos)
  BY <1>2, RegisterKeeps DEF MakeBus, NestInv
<1>4. /\ ControlInv'
      /\ phase' \in {"using", "opening"} /\ built' \in 0..3 /\ position' \in 0..4
  BY <1>1, <1>3, AdvanceKeeps DEF MakeBus, AtStep
<1>5. /\ bus \in [Levels -> Buses] /\ reader \in [Levels -> Readers]
      /\ raw \in [Levels -> {"none", "created", "open", "closed", "left"}]
  BY DEF NestInv, LifecycleTypeOK
<1>6. NoReader \in Readers /\ [state |-> "open", replay |-> <<>>] \in Buses
  <2>1. <<>> \in Seq(Events) /\ {} \in SUBSET Events
    OBVIOUS
  <2> QED BY <2>1 DEF NoReader, Readers, Buses
<1>7. /\ bus' \in [Levels -> Buses] /\ reader' \in [Levels -> Readers]
      /\ raw' \in [Levels -> {"none", "created", "open", "closed", "left"}]
  BY <1>1, <1>5, <1>6 DEF MakeBus
<1>8. LifecycleTypeOK'
  BY <1>3, <1>4, <1>7 DEF MakeBus, NestInv, LifecycleTypeOK, bounds
<1>9. /\ bus'[level].state = "open" /\ raw'[level] = "none" /\ reader'[level] = NoReader
      /\ \A m \in Levels \ {level} :
            bus'[m] = bus[m] /\ raw'[m] = raw[m] /\ reader'[m] = reader[m]
  BY <1>1, <1>5 DEF MakeBus
<1>10. ResourceInv'
  BY <1>1, <1>3, <1>9 DEF MakeBus, NestInv, ResourceInv, Levels, On
<1>11. ReaderInv'
  <2>1. CASE level = 1
    BY <1>9, <2>1 DEF ReaderInv, NoReader
  <2>2. CASE level # 1
    <3>1. bus'[1] = bus[1] /\ raw'[1] = raw[1] /\ reader'[1] = reader[1]
      BY <1>9, <2>2 DEF Levels
    <3> QED BY <3>1 DEF NestInv, ReaderInv, KeepsUp
  <2> QED BY <2>1, <2>2
<1> QED BY <1>3, <1>4, <1>8, <1>10, <1>11 DEF NestInv

LEMMA CreateKeeps == ASSUME NestInv, Create PROVE NestInv'
<1>1. phase = "opening" /\ level = 1 /\ n = 1 /\ Steps(level)[position] = "create"
  BY OpeningIs DEF Create, AtStep
<1>2. n' = n /\ StackInv'
  BY DEF Create, n, NestInv, StackInv
<1>3. /\ ControlInv'
      /\ phase' \in {"using", "opening"} /\ built' \in 0..3 /\ position' \in 0..4
  BY <1>1, <1>2, AdvanceKeeps DEF Create, AtStep
<1>4. raw \in [Levels -> {"none", "created", "open", "closed", "left"}] /\ level \in Levels
  BY <1>1 DEF NestInv, LifecycleTypeOK, Levels
<1>5. /\ raw' \in [Levels -> {"none", "created", "open", "closed", "left"}]
      /\ raw'[1] = "created" /\ raw'[2] = raw[2] /\ raw'[3] = raw[3]
  BY <1>1, <1>4 DEF Create, Levels
<1>6. LifecycleTypeOK'
  BY <1>3, <1>5 DEF Create, NestInv, LifecycleTypeOK, bounds
<1>7. ResourceInv' /\ ReaderInv'
  BY <1>1, <1>2, <1>5 DEF Create, NestInv, ResourceInv, ReaderInv, On
<1> QED BY <1>2, <1>3, <1>6, <1>7 DEF NestInv

LEMMA ListenKeeps ==
    ASSUME NestInv, NEW step, NEW listener, Listen(step, listener),
           \/ step = "wire" /\ listener = "events"
           \/ step = "caches" /\ listener = "caches"
    PROVE  NestInv'
<1>1. /\ phase = "opening" /\ level \in Levels /\ Steps(level)[position] # "create"
      /\ \/ level = 1 /\ n = 1 /\ listener = "events"
         \/ level = 2 /\ n = 5 /\ listener = "events"
         \/ level = 2 /\ n = 6 /\ listener = "caches"
         \/ level = 3 /\ n = 9 /\ listener = "events"
  BY OpeningIs DEF Listen, AtStep, Levels
<1>2. level = LevelAt(n + 1) /\ UndoAt(n + 1) = listener /\ n < 10
  BY <1>1 DEF LevelAt, UndoAt
<1>3. StackInv' /\ n' = n + 1 /\ finalizers' \in Seq(Undos)
  BY <1>2, RegisterKeeps DEF Listen, NestInv
<1>4. /\ ControlInv'
      /\ phase' \in {"using", "opening"} /\ built' \in 0..3 /\ position' \in 0..4
  BY <1>1, <1>3, AdvanceKeeps DEF Listen, AtStep
<1>5. listening' = listening \cup {On(level, listener)}
  BY DEF Listen, On
<1>6. listening' \subseteq [level : Levels, listener : {"events", "caches"}]
  BY <1>1, <1>5 DEF NestInv, LifecycleTypeOK, On
<1>7. LifecycleTypeOK'
  BY <1>3, <1>4, <1>6 DEF Listen, NestInv, LifecycleTypeOK, bounds
<1>8. ResourceInv' /\ ReaderInv'
  BY <1>1, <1>3, <1>5 DEF Listen, NestInv, ResourceInv, ReaderInv, On
<1> QED BY <1>3, <1>4, <1>7, <1>8 DEF NestInv

LEMMA RequestOpenKeeps == ASSUME NestInv, RequestOpen PROVE NestInv'
<1>1. n' = n /\ StackInv' /\ ResourceInv' /\ ReaderInv'
  BY DEF RequestOpen, n, NestInv, StackInv, ResourceInv, ReaderInv
<1>2. ControlInv'
  BY <1>1 DEF RequestOpen, AtStep, NestInv, ControlInv, level
<1>3. LifecycleTypeOK'
  BY DEF RequestOpen, NestInv, LifecycleTypeOK, bounds
<1> QED BY <1>1, <1>2, <1>3 DEF NestInv

LEMMA OpenedKeeps == ASSUME NestInv, Opened PROVE NestInv'
<1>1. /\ phase = "opening" /\ level \in Levels /\ Steps(level)[position] = "open"
      /\ \/ level = 1 /\ n = 2
         \/ level = 2 /\ n = 4
         \/ level = 3 /\ n = 8
  <2>1. phase = "opening" /\ Steps(level)[position] = "open"
    BY DEF Opened, NestInv, LifecycleTypeOK, ControlInv
  <2> QED BY <2>1, OpeningIs DEF Levels
<1>2. level = LevelAt(n + 1) /\ UndoAt(n + 1) = "close" /\ n < 10
  BY <1>1 DEF LevelAt, UndoAt
<1>3. StackInv' /\ n' = n + 1 /\ finalizers' \in Seq(Undos)
  BY <1>2, RegisterKeeps DEF Opened, NestInv
<1>4. /\ ControlInv'
      /\ phase' \in {"using", "opening"} /\ built' \in 0..3 /\ position' \in 0..4
  BY <1>1, <1>3, AdvanceKeeps DEF Opened
<1>5. /\ bus \in [Levels -> Buses] /\ reader \in [Levels -> Readers]
      /\ raw \in [Levels -> {"none", "created", "open", "closed", "left"}]
  BY DEF NestInv, LifecycleTypeOK
<1>6. /\ raw' \in [Levels -> {"none", "created", "open", "closed", "left"}]
      /\ raw'[level] = "open" /\ \A m \in Levels \ {level} : raw'[m] = raw[m]
  BY <1>1, <1>5 DEF Opened
<1>7. /\ bus' \in [Levels -> Buses] /\ reader' \in [Levels -> Readers]
      /\ \A m \in Levels : bus'[m].state = bus[m].state
      /\ \A m \in Levels : /\ reader'[m].state = "ended" <=> reader[m].state = "ended"
                           /\ KeepsUp(reader[m]) => KeepsUp(reader'[m])
  <2>1. CASE level = CLIENT
    <3>1. publishUnsafe(CLIENT, "Connected")
      BY <2>1 DEF Opened
    <3> QED BY <1>5, <3>1, PublishKeeps DEF CLIENT, Levels, Events
  <2>2. CASE level # CLIENT
    <3>1. bus' = bus /\ reader' = reader
      BY <2>2 DEF Opened
    <3> QED BY <1>5, <3>1
  <2> QED BY <2>1, <2>2
<1>8. LifecycleTypeOK'
  BY <1>3, <1>4, <1>6, <1>7 DEF Opened, NestInv, LifecycleTypeOK, bounds
<1>9. ResourceInv'
  BY <1>1, <1>3, <1>6, <1>7 DEF Opened, NestInv, ResourceInv, Levels, On
<1>10. ReaderInv'
  BY <1>1, <1>6, <1>7 DEF NestInv, ReaderInv, Levels
<1> QED BY <1>3, <1>4, <1>8, <1>9, <1>10 DEF NestInv

\* Failing to open and being interrupted leave the finalizers for the closing.
LEMMA DoneGrows ==
    ASSUME NEW a \in 0..3, NEW b \in 0..3, a <= b
    PROVE  Done(a) \in 0..10 /\ Done(a) <= Done(b)
<1>1. CASE a = 0
  BY <1>1 DEF Done
<1>2. CASE a = 1
  BY <1>2 DEF Done
<1>3. CASE a = 2
  BY <1>3 DEF Done
<1>4. CASE a = 3
  BY <1>4 DEF Done
<1> QED BY <1>1, <1>2, <1>3, <1>4

LEMMA DoneBelow ==
    ASSUME NEW g \in Nat, NEW b \in 0..3, g \in 1..b
    PROVE  g \in 1..3 /\ g - 1 <= b /\ Done(g - 1) <= Done(b)
<1>1. g \in 1..3 /\ g - 1 \in 0..3 /\ g - 1 <= b
  OBVIOUS
<1> QED BY <1>1, DoneGrows

LEMMA OpeningFailsKeeps ==
    ASSUME NestInv, phase = "opening", OpeningFails, faults' \in 0..MaxFaults
    PROVE  NestInv'
<1>1. n' = n /\ StackInv' /\ ResourceInv' /\ ReaderInv'
  BY DEF OpeningFails, n, NestInv, StackInv, ResourceInv, ReaderInv
<1>2. goal' \in 1..3 /\ goal' - 1 <= built /\ Done(goal' - 1) <= n
  BY OpeningIs DEF OpeningFails, Done
<1>3. ControlInv'
  BY <1>1, <1>2 DEF OpeningFails, ControlInv
<1>4. LifecycleTypeOK'
  <2>1. goal' \in 0..3
    BY <1>2
  <2>2. /\ phase' \in {"using", "opening", "closing"} /\ position' \in 0..4
        /\ awaiting' \in {"none", "open", "close"}
    BY DEF OpeningFails, NestInv, LifecycleTypeOK
  <2>3. interrupted' \in BOOLEAN
    BY DEF OpeningFails
  <2> QED BY <2>1, <2>2, <2>3 DEF OpeningFails, NestInv, LifecycleTypeOK
<1> QED BY <1>1, <1>3, <1>4 DEF NestInv

LEMMA InterruptedKeeps == ASSUME NestInv, Interrupted PROVE NestInv'
<1>1. n' = n /\ StackInv' /\ ResourceInv' /\ ReaderInv'
  BY DEF Interrupted, n, NestInv, StackInv, ResourceInv, ReaderInv
<1>2. goal' \in 1..3 /\ goal' - 1 <= built /\ Done(goal' - 1) <= n
  <2>1. CASE phase = "opening"
    BY <2>1, OpeningIs DEF Interrupted, Done
  <2>2. CASE phase # "opening"
    <3>1. phase = "using" /\ built \in 0..3 /\ n = Done(built) /\ goal' \in 1..built
      BY <2>2 DEF Interrupted, NestInv, LifecycleTypeOK, ControlInv
    <3>2. goal' \in Nat
      BY <3>1
    <3> QED BY <3>1, <3>2, DoneBelow
  <2> QED BY <2>1, <2>2
<1>3. ControlInv'
  BY <1>1, <1>2 DEF Interrupted, ControlInv
<1>4. LifecycleTypeOK'
  <2>1. goal' \in 0..3
    BY <1>2
  <2>2. /\ phase' \in {"using", "opening", "closing"} /\ position' \in 0..4
        /\ awaiting' \in {"none", "open", "close"}
    BY DEF Interrupted, NestInv, LifecycleTypeOK
  <2>3. interrupted' \in BOOLEAN
    BY DEF Interrupted
  <2> QED BY <2>1, <2>2, <2>3 DEF Interrupted, NestInv, LifecycleTypeOK, bounds
<1> QED BY <1>1, <1>3, <1>4 DEF NestInv

LEMMA CloseScopeKeeps == ASSUME NestInv, NEW l \in Levels, CloseScope(l) PROVE NestInv'
<1>1. n' = n /\ StackInv' /\ ResourceInv' /\ ReaderInv'
  BY DEF CloseScope, n, NestInv, StackInv, ResourceInv, ReaderInv
<1>2. goal' \in 1..3 /\ goal' - 1 <= built /\ Done(goal' - 1) <= n
  <2>1. built \in 0..3 /\ n = Done(built) /\ goal' \in 1..built
    BY DEF CloseScope, NestInv, LifecycleTypeOK, ControlInv, Levels
  <2>2. goal' \in Nat
    BY <2>1
  <2> QED BY <2>1, <2>2, DoneBelow
<1>3. ControlInv'
  BY <1>1, <1>2 DEF CloseScope, NestInv, ControlInv
<1>4. LifecycleTypeOK'
  BY <1>2 DEF CloseScope, NestInv, LifecycleTypeOK, bounds
<1> QED BY <1>1, <1>3, <1>4 DEF NestInv

\* Opening a scope, and an interruption that is noted.
LEMMA OpenKeeps == ASSUME NestInv, Open PROVE NestInv'
<1>1. n' = n /\ StackInv' /\ ResourceInv' /\ ReaderInv'
  BY DEF Open, n, NestInv, StackInv, ResourceInv, ReaderInv
<1>2. built \in 0..2 /\ n = Done(built) /\ level = built + 1
  BY DEF Open, NestInv, LifecycleTypeOK, ControlInv, level
<1>3. Len(Steps(level)) \in 3..4
  <2>1. CASE built = 0
    BY <1>2, <2>1 DEF Steps, CLIENT, SESSION
  <2>2. CASE built = 1
    BY <1>2, <2>2 DEF Steps, CLIENT, SESSION
  <2>3. CASE built = 2
    BY <1>2, <2>3 DEF Steps, CLIENT, SESSION
  <2> QED BY <1>2, <2>1, <2>2, <2>3
<1>4. level' = level /\ n = Done(built) + 1 - 1 - (IF built = 0 /\ 1 >= 3 THEN 1 ELSE 0)
  <2>1. Done(built) \in Nat
    BY <1>2 DEF Done
  <2> QED BY <1>2, <2>1 DEF Open, level
<1>5. ControlInv'
  BY <1>1, <1>2, <1>3, <1>4 DEF Open, NestInv, ControlInv
<1>6. opens' \in [Levels -> 0..MaxOpens]
  <2>1. opens \in [Levels -> 0..MaxOpens] /\ level \in Levels
    BY <1>2 DEF NestInv, LifecycleTypeOK, Levels
  <2>2. opens[level] + 1 \in 0..MaxOpens
    BY <2>1, LifecycleAssumption DEF Open
  <2> QED BY <2>1, <2>2 DEF Open
<1>7. LifecycleTypeOK'
  BY <1>6 DEF Open, NestInv, LifecycleTypeOK
<1> QED BY <1>1, <1>5, <1>7 DEF NestInv

LEMMA InterruptKeeps == ASSUME NestInv, Interrupt PROVE NestInv'
<1>1. n' = n /\ StackInv' /\ ResourceInv' /\ ReaderInv'
  BY DEF Interrupt, n, NestInv, StackInv, ResourceInv, ReaderInv
<1>2. ControlInv'
  BY <1>1 DEF Interrupt, NestInv, ControlInv, level
<1>3. LifecycleTypeOK'
  BY DEF Interrupt, NestInv, LifecycleTypeOK, bounds
<1> QED BY <1>1, <1>2, <1>3 DEF NestInv

-----------------------------------------------------------------------------
(* Closing.                                                                *)

LEMMA DoneBefore ==
    ASSUME NEW g \in 1..3, NEW i \in 1..10, LevelAt(i) >= g
    PROVE  Done(g - 1) <= i - 1
<1>1. CASE g = 1
  BY <1>1 DEF Done
<1>2. CASE g = 2
  BY <1>2 DEF Done, LevelAt
<1>3. CASE g = 3
  BY <1>3 DEF Done, LevelAt
<1> QED BY <1>1, <1>2, <1>3

\* A finalizer of a level that is being closed has run.
LEMMA FinalizerRuns ==
    ASSUME NestInv, phase = "closing", finalizers # <<>>, next.level >= goal, Unregister,
           UNCHANGED <<phase, built, goal, interrupted>>, awaiting' = "none"
    PROVE  /\ n \in 1..10 /\ n' = n - 1 /\ next.level = LevelAt(n) /\ next.undo = UndoAt(n)
           /\ next.level \in Levels /\ finalizers' \in Seq(Undos)
           /\ StackInv' /\ ControlInv'
<1>1. LifecycleTypeOK /\ StackInv
  BY DEF NestInv
<1>2. n \in 1..10 /\ next.level = LevelAt(n) /\ next.undo = UndoAt(n)
  BY <1>1, NextIs
<1>3. n' = n - 1 /\ finalizers' \in Seq(Undos) /\ StackInv'
  BY <1>1, UnregisterKeeps
<1>4. goal \in 1..3 /\ goal - 1 <= built /\ ~interrupted
  BY DEF NestInv, ControlInv
<1>5. Done(goal - 1) <= n - 1
  BY <1>2, <1>4, DoneBefore
<1>6. ControlInv'
  BY <1>3, <1>4, <1>5 DEF ControlInv
<1>7. next.level \in Levels
  BY <1>2 DEF LevelAt, Levels
<1> QED BY <1>2, <1>3, <1>6, <1>7

LEMMA ShutdownKeeps == ASSUME NestInv, Shutdown PROVE NestInv'
<1>1. /\ n \in 1..10 /\ n' = n - 1 /\ next.level = LevelAt(n) /\ UndoAt(n) = "shutdown"
      /\ next.level \in Levels /\ finalizers' \in Seq(Undos) /\ StackInv' /\ ControlInv'
  BY FinalizerRuns DEF Shutdown, ToRun
<1>2. \/ n = 1 /\ next.level = 1
      \/ n = 4 /\ next.level = 2
      \/ n = 8 /\ next.level = 3
  BY <1>1 DEF LevelAt, UndoAt
<1>3. bus \in [Levels -> Buses] /\ reader \in [Levels -> Readers]
  BY DEF NestInv, LifecycleTypeOK
<1> DEFINE b == [bus[next.level] EXCEPT !.state = "shutdown"]
           r == Ended(reader[next.level])
<1>4. bus' = [bus EXCEPT ![next.level] = b] /\ reader' = [reader EXCEPT ![next.level] = r]
  <2>1. bus' = [bus EXCEPT ![next.level] = b]
    BY DEF Shutdown
  <2>2. reader' = [reader EXCEPT ![next.level] = r]
    BY DEF Shutdown
  <2> QED BY <2>1, <2>2
<1>5. b \in Buses /\ b.state = "shutdown"
  BY <1>1, <1>3 DEF Buses
<1>6. r \in Readers /\ (KeepsUp(reader[next.level]) => KeepsUp(r))
  <2>1. reader[next.level] \in Readers /\ <<>> \in Seq(Events)
    BY <1>1, <1>3
  <2>2. CASE reader[next.level].state \in {"waiting", "busy"}
    <3>1. r = [reader[next.level] EXCEPT !.state = "ended",
                  !.missed = reader[next.level].missed \/ reader[next.level].backlog # <<>>,
                  !.backlog = <<>>]
      BY <2>2 DEF Ended
    <3>2. r \in Readers
      BY <2>1, <3>1 DEF Readers
    <3>3. ASSUME KeepsUp(reader[next.level]), ~r.missed PROVE "Disconnected" \in r.seen
      <4>1. reader[next.level].backlog = <<>> /\ ~reader[next.level].missed
        BY <2>1, <3>1, <3>3 DEF Readers
      <4>2. reader[next.level].state # "none" /\ DOMAIN reader[next.level].backlog = {}
        BY <2>2, <4>1
      <4>3. r.seen = reader[next.level].seen
        BY <2>1, <3>1 DEF Readers
      <4> QED BY <3>3, <4>1, <4>2, <4>3 DEF KeepsUp
    <3> QED BY <3>2, <3>3 DEF KeepsUp
  <2>3. CASE reader[next.level].state \notin {"waiting", "busy"}
    BY <2>1, <2>3 DEF Ended
  <2> QED BY <2>2, <2>3
<1> HIDE DEF b, r
<1>7. bus' \in [Levels -> Buses] /\ reader' \in [Levels -> Readers]
  BY <1>1, <1>3, <1>4, <1>5, <1>6
<1>8. LifecycleTypeOK'
  BY <1>1, <1>7 DEF Shutdown, NestInv, LifecycleTypeOK, bounds
<1>9. /\ bus'[next.level].state = "shutdown" /\ reader'[next.level] = r
      /\ \A m \in Levels \ {next.level} : bus'[m] = bus[m] /\ reader'[m] = reader[m]
  BY <1>1, <1>3, <1>4, <1>5
<1>10. ResourceInv'
  BY <1>1, <1>2, <1>9 DEF Shutdown, NestInv, ResourceInv, Levels, On
<1>11. ReaderInv'
  <2>1. CASE next.level = 1
    <3>1. bus'[1].state = "shutdown" /\ reader'[1] = r /\ raw' = raw
      BY <1>9, <2>1 DEF Shutdown
    <3>2. raw[1] = "closed" => KeepsUp(r)
      BY <1>6, <2>1 DEF NestInv, ReaderInv
    <3>3. (raw[1] = "closed" => KeepsUp(reader[1]))'
      BY <3>1, <3>2
    <3> QED BY <3>1, <3>3 DEF ReaderInv
  <2>2. CASE next.level # 1
    <3>1. bus'[1] = bus[1] /\ raw'[1] = raw[1] /\ reader'[1] = reader[1]
      BY <1>9, <2>2 DEF Levels, Shutdown
    <3> QED BY <3>1 DEF NestInv, ReaderInv, KeepsUp
  <2> QED BY <2>1, <2>2
<1> QED BY <1>1, <1>8, <1>10, <1>11 DEF NestInv

LEMMA ListenersOffKeeps == ASSUME NestInv, ListenersOff PROVE NestInv'
<1>1. /\ n \in 1..10 /\ n' = n - 1 /\ next.level = LevelAt(n) /\ next.undo = UndoAt(n)
      /\ UndoAt(n) \in {"events", "caches"}
      /\ next.level \in Levels /\ finalizers' \in Seq(Undos) /\ StackInv' /\ ControlInv'
  BY FinalizerRuns DEF ListenersOff, ToRun
<1>2. \/ n = 2 /\ next.level = 1 /\ next.undo = "events"
      \/ n = 6 /\ next.level = 2 /\ next.undo = "events"
      \/ n = 7 /\ next.level = 2 /\ next.undo = "caches"
      \/ n = 10 /\ next.level = 3 /\ next.undo = "events"
  BY <1>1 DEF LevelAt, UndoAt
<1>3. listening' = listening \ {On(next.level, next.undo)}
  BY DEF ListenersOff, On
<1>4. LifecycleTypeOK'
  BY <1>1, <1>3 DEF ListenersOff, NestInv, LifecycleTypeOK, bounds
<1>5. ResourceInv' /\ ReaderInv'
  BY <1>1, <1>2, <1>3 DEF ListenersOff, NestInv, ResourceInv, ReaderInv, On
<1> QED BY <1>1, <1>4, <1>5 DEF NestInv

LEMMA RequestCloseKeeps == ASSUME NestInv, RequestClose PROVE NestInv'
<1>1. n' = n /\ StackInv' /\ ResourceInv' /\ ReaderInv'
  BY DEF RequestClose, n, NestInv, StackInv, ResourceInv, ReaderInv
<1>2. n # 0 /\ UndoAt(n) = "close" /\ LevelAt(n) >= goal
  BY NextIs DEF RequestClose, ToRun, NestInv
<1>3. ControlInv'
  BY <1>1, <1>2 DEF RequestClose, ToRun, NestInv, ControlInv
<1>4. LifecycleTypeOK'
  BY DEF RequestClose, NestInv, LifecycleTypeOK, bounds
<1> QED BY <1>1, <1>3, <1>4 DEF NestInv

\* While a close has not settled, its finalizer is the last.
LEMMA ClosingIs ==
    ASSUME NestInv, awaiting = "close"
    PROVE  /\ phase = "closing" /\ finalizers # <<>> /\ next.level >= goal
           /\ \/ n = 3 /\ next.level = 1
              \/ n = 5 /\ next.level = 2
              \/ n = 9 /\ next.level = 3
<1>1. phase = "closing" /\ n # 0 /\ UndoAt(n) = "close" /\ LevelAt(n) >= goal
  BY DEF NestInv, LifecycleTypeOK, ControlInv
<1>2. finalizers # <<>>
  <2>1. finalizers = <<>> => n = 0
    BY DEF n
  <2> QED BY <1>1, <2>1
<1>3. n \in 1..10 /\ next.level = LevelAt(n)
  BY <1>2, NextIs DEF NestInv
<1> QED BY <1>1, <1>2, <1>3 DEF LevelAt, UndoAt

LEMMA ClosedKeeps == ASSUME NestInv, Closed PROVE NestInv'
<1>1. /\ n' = n - 1 /\ next.level \in Levels
      /\ finalizers' \in Seq(Undos) /\ StackInv' /\ ControlInv'
  BY FinalizerRuns, ClosingIs DEF Closed
<1>2. \/ n = 3 /\ next.level = 1
      \/ n = 5 /\ next.level = 2
      \/ n = 9 /\ next.level = 3
  BY ClosingIs DEF Closed
<1>3. /\ bus \in [Levels -> Buses] /\ reader \in [Levels -> Readers]
      /\ raw \in [Levels -> {"none", "created", "open", "closed", "left"}]
  BY DEF NestInv, LifecycleTypeOK
<1>4. /\ raw' \in [Levels -> {"none", "created", "open", "closed", "left"}]
      /\ raw'[next.level] = "closed" /\ \A m \in Levels \ {next.level} : raw'[m] = raw[m]
  BY <1>1, <1>3 DEF Closed
<1>5. /\ bus' \in [Levels -> Buses] /\ reader' \in [Levels -> Readers]
      /\ \A m \in Levels : bus'[m].state = bus[m].state
      /\ \A m \in Levels : /\ reader'[m].state = "ended" <=> reader[m].state = "ended"
                           /\ KeepsUp(reader[m]) => KeepsUp(reader'[m])
      /\ next.level = 1 => KeepsUp(reader'[1])
  <2>1. CASE next.level = CLIENT
    <3>1. publishUnsafe(1, "Disconnected") /\ n = 3
      BY <1>2, <2>1 DEF Closed, CLIENT
    <3>2. bus[1].state = "open" /\ reader[1].state # "ended"
      BY <3>1 DEF NestInv, ResourceInv, ReaderInv
    <3> QED BY <1>3, <3>1, <3>2, PublishKeeps DEF Levels, Events
  <2>2. CASE next.level # CLIENT
    <3>1. bus' = bus /\ reader' = reader
      BY <2>2 DEF Closed
    <3> QED BY <1>3, <2>2, <3>1 DEF CLIENT
  <2> QED BY <2>1, <2>2
<1>6. LifecycleTypeOK'
  BY <1>1, <1>4, <1>5 DEF Closed, NestInv, LifecycleTypeOK, bounds
<1>7. ResourceInv'
  BY <1>1, <1>2, <1>4, <1>5 DEF Closed, NestInv, ResourceInv, Levels, On
<1>8. ReaderInv'
  BY <1>1, <1>2, <1>4, <1>5 DEF NestInv, ReaderInv, Levels
<1> QED BY <1>1, <1>6, <1>7, <1>8 DEF NestInv

LEMMA CloseFailsKeeps == ASSUME NestInv, CloseFails PROVE NestInv'
<1>1. /\ n' = n - 1 /\ next.level \in Levels
      /\ finalizers' \in Seq(Undos) /\ StackInv' /\ ControlInv'
  BY FinalizerRuns, ClosingIs DEF CloseFails
<1>2. \/ n = 3 /\ next.level = 1
      \/ n = 5 /\ next.level = 2
      \/ n = 9 /\ next.level = 3
  BY ClosingIs DEF CloseFails
<1>3. raw \in [Levels -> {"none", "created", "open", "closed", "left"}]
  BY DEF NestInv, LifecycleTypeOK
<1>4. /\ raw' \in [Levels -> {"none", "created", "open", "closed", "left"}]
      /\ raw'[next.level] = "left" /\ \A m \in Levels \ {next.level} : raw'[m] = raw[m]
  BY <1>1, <1>3 DEF CloseFails
<1>5. faults' \in 0..MaxFaults
  BY LifecycleAssumption DEF CloseFails, NestInv, LifecycleTypeOK
<1>6. LifecycleTypeOK'
  BY <1>1, <1>4, <1>5 DEF CloseFails, NestInv, LifecycleTypeOK
<1>7. ResourceInv'
  BY <1>1, <1>2, <1>4 DEF CloseFails, NestInv, ResourceInv, Levels, On
<1>8. ReaderInv'
  BY <1>1, <1>2, <1>4 DEF CloseFails, NestInv, ReaderInv, Levels
<1> QED BY <1>1, <1>6, <1>7, <1>8 DEF NestInv

LEMMA ScopeClosedKeeps == ASSUME NestInv, ScopeClosed PROVE NestInv'
<1>1. n' = n /\ StackInv' /\ ResourceInv' /\ ReaderInv'
  BY DEF ScopeClosed, n, NestInv, StackInv, ResourceInv, ReaderInv
<1>2. goal \in 1..3 /\ Done(goal - 1) <= n /\ n \in 0..10
  BY DEF ScopeClosed, NestInv, ControlInv, StackInv
<1>3. n # 0 => LevelAt(n) < goal
  <2>1. finalizers = <<>> => n = 0
    BY DEF n
  <2>2. CASE finalizers # <<>>
    BY <2>2, NextIs DEF ScopeClosed, NestInv
  <2> QED BY <2>1, <2>2
<1>4. n = Done(goal - 1)
  <2>1. CASE goal = 1
    BY <1>2, <1>3, <2>1 DEF Done, LevelAt
  <2>2. CASE goal = 2
    BY <1>2, <1>3, <2>2 DEF Done, LevelAt
  <2>3. CASE goal = 3
    BY <1>2, <1>3, <2>3 DEF Done, LevelAt
  <2> QED BY <1>2, <2>1, <2>2, <2>3
<1>5. ControlInv'
  BY <1>1, <1>4 DEF ScopeClosed, ControlInv
<1>6. LifecycleTypeOK'
  BY <1>2 DEF ScopeClosed, NestInv, LifecycleTypeOK, bounds
<1> QED BY <1>1, <1>5, <1>6 DEF NestInv

-----------------------------------------------------------------------------
(* Reading the events.                                                     *)

LEMMA SubscribeKeeps == ASSUME NestInv, NEW l \in Levels, Subscribe(l) PROVE NestInv'
<1>1. n' = n /\ StackInv' /\ ResourceInv' /\ ControlInv'
  BY DEF Subscribe, scopeVars, n, NestInv, StackInv, ResourceInv, ControlInv, level
<1>2. bus \in [Levels -> Buses] /\ reader \in [Levels -> Readers]
  BY DEF NestInv, LifecycleTypeOK
<1> DEFINE r == [reader[l] EXCEPT !.state = "busy", !.backlog = bus[l].replay,
                                  !.missed = raw[l] = "closed"]
<1>3. r \in Readers /\ r.state = "busy" /\ (r.missed <=> raw[l] = "closed")
  <2>1. bus[l].replay \in Seq(Events)
    BY <1>2 DEF Buses
  <2>2. (raw[l] = "closed") \in BOOLEAN
    OBVIOUS
  <2> QED BY <1>2, <2>1, <2>2 DEF Readers
<1>4. reader' = [reader EXCEPT ![l] = r]
  BY Zenon DEF Subscribe
<1> HIDE DEF r
<1>5. /\ reader' \in [Levels -> Readers] /\ reader'[l] = r
      /\ \A m \in Levels \ {l} : reader'[m] = reader[m]
  BY <1>2, <1>3, <1>4
<1>6. LifecycleTypeOK'
  BY <1>5 DEF Subscribe, scopeVars, bounds, NestInv, LifecycleTypeOK
<1>7. ReaderInv'
  <2>1. CASE l = 1
    <3>1. reader'[1] = r /\ bus' = bus /\ raw' = raw
      BY <1>5, <2>1 DEF Subscribe
    <3>2. raw[1] = "closed" => r.missed
      BY <1>3, <2>1
    <3> QED BY <1>3, <3>1, <3>2 DEF ReaderInv, KeepsUp
  <2>2. CASE l # 1
    <3>1. bus' = bus /\ raw' = raw /\ reader'[1] = reader[1]
      BY <1>5, <2>2 DEF Levels, Subscribe
    <3> QED BY <3>1 DEF NestInv, ReaderInv, KeepsUp
  <2> QED BY <2>1, <2>2
<1> QED BY <1>1, <1>6, <1>7 DEF NestInv

LEMMA TakeEventKeeps == ASSUME NestInv, NEW l \in Levels, TakeEvent(l) PROVE NestInv'
<1>1. n' = n /\ StackInv' /\ ResourceInv' /\ ControlInv'
  BY DEF TakeEvent, scopeVars, n, NestInv, StackInv, ResourceInv, ControlInv, level
<1>2. reader \in [Levels -> Readers]
  BY DEF NestInv, LifecycleTypeOK
<1> DEFINE r == Taken(reader[l])
<1>3. r \in Readers /\ r.state \in {"busy", "waiting"} /\ (KeepsUp(reader[l]) => KeepsUp(r))
  <2>1. reader[l] \in Readers /\ reader[l].state = "busy" /\ reader[l].backlog \in Seq(Events)
    BY <1>2 DEF TakeEvent, Readers
  <2>2. CASE reader[l].backlog = <<>>
    BY <2>1, <2>2 DEF Taken, Readers, KeepsUp
  <2>3. CASE reader[l].backlog # <<>>
    <3> DEFINE s == reader[l].backlog
               now == reader[l].seen \cup {Head(s)}
    <3>1. /\ Head(s) \in Events /\ Tail(s) \in Seq(Events) /\ Len(Tail(s)) = Len(s) - 1
          /\ \A i \in 1..Len(Tail(s)) : Tail(s)[i] = s[i + 1]
      BY <2>1, <2>3, HeadTailProperties
    <3>2. r = [reader[l] EXCEPT !.backlog = Tail(s), !.seen = now]
      BY <2>3 DEF Taken
    <3>a. now \in SUBSET Events
      BY <2>1, <3>1 DEF Readers
    <3> HIDE DEF now, r
    <3>3. r \in Readers /\ r.state = "busy" /\ r.missed = reader[l].missed
      BY <2>1, <3>1, <3>2, <3>a DEF Readers
    <3>4. r.seen = now /\ r.backlog = Tail(s)
      BY <2>1, <3>2 DEF Readers
    <3> USE DEF now
    <3>5. ASSUME NEW i \in DOMAIN s, s[i] = "Disconnected", Head(s) # "Disconnected"
          PROVE  \E j \in DOMAIN Tail(s) : Tail(s)[j] = "Disconnected"
      <4>1. i \in 1..Len(s) /\ i # 1 /\ Len(s) \in Nat
        BY <2>1, <2>3, <3>5
      <4>2. i - 1 \in 1..Len(Tail(s)) /\ Tail(s)[i - 1] = s[i]
        BY <3>1, <4>1
      <4>3. i - 1 \in DOMAIN Tail(s)
        BY <3>1, <4>2
      <4> QED BY <3>5, <4>2, <4>3
    <3> HIDE DEF r, s
    <3>6. ASSUME KeepsUp(reader[l]), ~r.missed PROVE KeepsUp(r)
      <4>1. \/ "Disconnected" \in reader[l].seen
            \/ \E i \in DOMAIN s : s[i] = "Disconnected"
        BY <2>1, <3>3, <3>6 DEF KeepsUp, s
      <4>2. \/ "Disconnected" \in r.seen
            \/ \E j \in DOMAIN r.backlog : r.backlog[j] = "Disconnected"
        BY <3>4, <3>5, <4>1
      <4> QED BY <3>3, <4>2 DEF KeepsUp
    <3>7. r.missed => KeepsUp(r)
      BY DEF KeepsUp
    <3> QED BY <3>3, <3>6, <3>7
  <2> QED BY <2>2, <2>3
<1>4. reader' = [reader EXCEPT ![l] = r]
  BY DEF TakeEvent
<1> HIDE DEF r
<1>5. /\ reader' \in [Levels -> Readers] /\ reader'[l] = r
      /\ \A m \in Levels \ {l} : reader'[m] = reader[m]
  BY <1>2, <1>3, <1>4
<1>6. LifecycleTypeOK'
  BY <1>5 DEF TakeEvent, scopeVars, bounds, NestInv, LifecycleTypeOK
<1>7. ReaderInv'
  <2>1. CASE l = 1
    <3>1. reader'[1] = r /\ bus' = bus /\ raw' = raw /\ r.state # "ended"
      BY <1>3, <1>5, <2>1 DEF TakeEvent
    <3>2. raw[1] = "closed" => KeepsUp(r)
      BY <1>3, <2>1 DEF NestInv, ReaderInv
    <3>3. (raw[1] = "closed" => KeepsUp(reader[1]))'
      BY <3>1, <3>2
    <3> QED BY <3>1, <3>3 DEF ReaderInv
  <2>2. CASE l # 1
    <3>1. bus' = bus /\ raw' = raw /\ reader'[1] = reader[1]
      BY <1>5, <2>2 DEF Levels, TakeEvent
    <3> QED BY <3>1 DEF NestInv, ReaderInv, KeepsUp
  <2> QED BY <2>1, <2>2
<1> QED BY <1>1, <1>6, <1>7 DEF NestInv

LEMMA EmitKeeps == ASSUME NestInv, NEW l \in Levels, Emit(l) PROVE NestInv'
<1>1. bus \in [Levels -> Buses] /\ reader \in [Levels -> Readers] /\ "Emitted" \in Events
  BY DEF NestInv, LifecycleTypeOK, Events
<1>2. /\ bus' \in [Levels -> Buses] /\ reader' \in [Levels -> Readers]
      /\ \A m \in Levels : bus'[m].state = bus[m].state
      /\ \A m \in Levels : /\ reader'[m].state = "ended" <=> reader[m].state = "ended"
                           /\ KeepsUp(reader[m]) => KeepsUp(reader'[m])
  BY <1>1, PublishKeeps DEF Emit
<1>3. n' = n /\ StackInv' /\ ControlInv'
  BY DEF Emit, scopeVars, n, NestInv, StackInv, ControlInv, level
<1>4. emitted' \in 0..MaxEvents
  BY LifecycleAssumption DEF Emit, NestInv, LifecycleTypeOK
<1>5. LifecycleTypeOK'
  BY <1>2, <1>4 DEF Emit, scopeVars, NestInv, LifecycleTypeOK
<1>6. ResourceInv' /\ ReaderInv'
  BY <1>2, <1>3 DEF Emit, NestInv, ResourceInv, ReaderInv, Levels
<1> QED BY <1>3, <1>5, <1>6 DEF NestInv

-----------------------------------------------------------------------------
(* The theorems.                                                           *)

LEMMA NextNestInv == NestInv /\ [Next]_vars => NestInv'
<1> SUFFICES ASSUME NestInv, [Next]_vars PROVE NestInv'
  OBVIOUS
<1>1. CASE Opening
  <2>1. CASE wireEmitter \/ WatchRestores
    BY <2>1, ListenKeeps DEF wireEmitter, WatchRestores
  <2> QED BY <1>1, <2>1, MakeBusKeeps, CreateKeeps, RequestOpenKeeps, OpenedKeeps DEF Opening
<1>2. CASE Closing
  BY <1>2, ShutdownKeeps, ListenersOffKeeps, RequestCloseKeeps, ClosedKeeps,
     ScopeClosedKeeps DEF Closing
<1>3. CASE Open \/ Interrupt \/ Interrupted \/ CloseFails
  BY <1>3, OpenKeeps, InterruptKeeps, InterruptedKeeps, CloseFailsKeeps
<1>4. CASE CreateThrows
  <2>1. phase = "opening" /\ OpeningFails /\ faults' \in 0..MaxFaults
    BY <1>4, LifecycleAssumption DEF CreateThrows, AtStep, NestInv, LifecycleTypeOK
  <2> QED BY <2>1, OpeningFailsKeeps
<1>5. CASE OpenFails
  <2>1. phase = "opening" /\ OpeningFails /\ faults' \in 0..MaxFaults
    BY <1>5, LifecycleAssumption DEF OpenFails, NestInv, LifecycleTypeOK, ControlInv
  <2> QED BY <2>1, OpeningFailsKeeps
<1>6. CASE \E l \in Levels : CloseScope(l) \/ Subscribe(l) \/ TakeEvent(l) \/ Emit(l)
  BY <1>6, CloseScopeKeeps, SubscribeKeeps, TakeEventKeeps, EmitKeeps
<1>7. CASE UNCHANGED vars
  <2>1. n' = n /\ level' = level
    BY <1>7 DEF vars, scopeVars, n, level
  <2>2. StackInv' /\ ResourceInv' /\ ReaderInv'
    BY <1>7, <2>1 DEF vars, scopeVars, NestInv, StackInv, ResourceInv, ReaderInv
  <2>3. LifecycleTypeOK' /\ ControlInv'
    BY <1>7, <2>1 DEF vars, scopeVars, bounds, NestInv, LifecycleTypeOK, ControlInv
  <2> QED BY <2>2, <2>3 DEF NestInv
<1> QED BY <1>1, <1>2, <1>3, <1>4, <1>5, <1>6, <1>7 DEF Next

\* The inductive invariant.
LEMMA NestInvHolds == Spec => []NestInv
<1> QED BY InitNestInv, NextNestInv, PTL DEF Spec

\* The types of the state: make, makeClientService and makeSubscriptionRuntime.
THEOREM LifecycleIsTyped == Spec => []LifecycleTypeOK
<1>1. NestInv => LifecycleTypeOK
  BY DEF NestInv
<1> QED BY <1>1, NestInvHolds, PTL

\* What is closed leaves nothing behind, and nothing is open on what is closed, in
\* whatever order levels are opened, interrupted, closed and fail to.
THEOREM LevelsNest == Spec => []ScopesNest
<1>1. NestInv => ScopesNest
  <2> SUFFICES ASSUME NestInv PROVE ScopesNest
    OBVIOUS
  <2>1. /\ n \in 0..10 /\ built \in 0..3
        /\ phase = "using" => n = Done(built)
        /\ listening \subseteq {On(1, "events"), On(2, "events"), On(2, "caches"),
                                On(3, "events")}
    BY DEF NestInv, StackInv, LifecycleTypeOK, ControlInv, ResourceInv
  <2>2. ASSUME NEW on \in listening
        PROVE  \/ on.level = 1 /\ n >= 2
               \/ on.level = 2 /\ n >= 6
               \/ on.level = 3 /\ n >= 10
    BY <2>1, <2>2 DEF NestInv, ResourceInv, On
  <2>3. \A on \in listening : bus[on.level].state = "open"
    BY <2>1, <2>2 DEF NestInv, ResourceInv
  <2>4. ASSUME NEW l \in {2, 3}, raw[l] = "open"
        PROVE  raw[l - 1] = "open" /\ ~(awaiting = "close" /\ next.level = l - 1)
    <3>1. CASE l = 2
      BY <2>1, <2>4, <3>1, ClosingIs DEF NestInv, ResourceInv
    <3>2. CASE l = 3
      BY <2>1, <2>4, <3>2, ClosingIs DEF NestInv, ResourceInv
    <3> QED BY <3>1, <3>2
  <2>5. ASSUME phase = "using", NEW l \in Levels, l > built
        PROVE  /\ raw[l] # "open" /\ bus[l].state # "open"
               /\ \A on \in listening : on.level # l
    <3>1. CASE l = 1
      <4>1. n = 0
        BY <2>1, <2>5, <3>1 DEF Done
      <4> QED BY <2>2, <3>1, <4>1 DEF NestInv, ResourceInv
    <3>2. CASE l = 2
      <4>1. n <= 3
        BY <2>1, <2>5, <3>2 DEF Done
      <4> QED BY <2>1, <2>2, <3>2, <4>1 DEF NestInv, ResourceInv
    <3>3. CASE l = 3
      <4>1. n <= 7
        BY <2>1, <2>5, <3>3 DEF Done
      <4> QED BY <2>1, <2>2, <3>3, <4>1 DEF NestInv, ResourceInv
    <3> QED BY <3>1, <3>2, <3>3 DEF Levels
  <2> QED BY <2>3, <2>4, <2>5 DEF ScopesNest
<1> QED BY <1>1, NestInvHolds, PTL

\* A reader of the client's events that keeps up sees the disconnect before the end.
THEOREM DisconnectIsRead == Spec => []ReadersLearnOfDisconnect
<1>1. NestInv => ReadersLearnOfDisconnect
  BY DEF NestInv, ReaderInv, KeepsUp, ReadersLearnOfDisconnect, CLIENT
<1> QED BY <1>1, NestInvHolds, PTL
=============================================================================

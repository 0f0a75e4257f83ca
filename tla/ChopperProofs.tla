---------------------------- MODULE ChopperProofs ---------------------------
(* Proofs about the chopper facade, for all discs, values and set points.   *)
EXTENDS ChopperFacade, FiniteSetTheorems, TLAPS

LEMMA TypeInitial == Init => TypeOK
<1> SUFFICES ASSUME Init PROVE TypeOK
  OBVIOUS
<1>1. 0 \in Values /\ MaxCalls \in Nat \ {0}
  BY ChopperAssumption
<1>2. pv \in [Disc -> Settings]
  BY <1>1 DEF Init, Settings, Modes
<1>3. device \in [Disc -> Settings]
  BY <1>1 DEF Init, Settings
<1>4. writer \in WriterStates /\ link = "connecting" /\ timers = 0
  BY DEF Init, WriterStates
<1>5. calls = <<>> /\ toDevice = <<>> /\ fromDevice = <<>> /\ dropped = {} /\ torn = FALSE
  BY DEF Init
<1>6. QED
  <2>1. Len(<<>>) <= MaxCalls /\ Len(<<>>) = 0
    BY <1>1
  <2>2. torn \in BOOLEAN
    BY <1>5
  <2>3. calls \in Seq(SetCommands \cup {Ask, StartAll}) /\ toDevice \in Seq(SetCommands \cup {Ask, StartAll})
        /\ fromDevice \in Seq(Pieces)
    BY <1>5
  <2>4. QED
    BY <1>2, <1>3, <1>4, <1>5, <2>1, <2>2, <2>3 DEF TypeOK

LEMMA EnqueueTyped ==
  ASSUME TypeOK, NEW c \in SetCommands \cup {Ask, StartAll}, Enqueue(c)
  PROVE  calls' \in Seq(SetCommands \cup {Ask, StartAll}) /\ Len(calls') <= MaxCalls
  BY ChopperAssumption DEF TypeOK, Enqueue

LEMMA StatusTyped ==
  ASSUME TypeOK, NEW discs \in SUBSET Disc
  PROVE  Status(discs) \in Pieces /\ DOMAIN Status(discs) = discs
<1>1. \A d \in discs : device[d].State \in Modes
  BY DEF TypeOK, Settings
<1>2. Status(discs) \in [discs -> Modes]
  BY <1>1 DEF Status
<1>3. QED
  BY <1>2 DEF Pieces, Status

LEMMA TypeKept == TypeOK /\ [Next]_vars => TypeOK'
<1> SUFFICES ASSUME TypeOK, [Next]_vars PROVE TypeOK'
  OBVIOUS
<1> USE DEF wires, history
<1>1. ASSUME NEW p \in SetPoints, NEW v \in Values, Write(p[1], p[2], v) PROVE TypeOK'
  <2>1. p[1] \in Disc /\ p[2] \in Fields
    BY ChopperAssumption DEF Fields
  <2>2. SetCommand(p[1], p[2], v) \in SetCommands
    BY <2>1 DEF SetCommand, SetCommands
  <2>3. writer' \in WriterStates
    BY <1>1, <2>2 DEF Write, WriterStates
  <2>4. QED
    BY <1>1, <2>3 DEF Write, TypeOK
<1>2. ASSUME SetParam PROVE TypeOK'
  <2>1. writer[2] \in SetCommands /\ writer' = <<"call", writer[2]>>
    BY <1>2 DEF SetParam, TypeOK, WriterStates, Idle
  <2>2. PICK f \in Fields, d \in Disc, v \in Values : writer[2] = <<f, d, v>>
    BY <2>1 DEF SetCommands
  <2>3. pv' = [pv EXCEPT ![d][f] = v]
    BY <1>2, <2>2 DEF SetParam
  <2>4. [pv[d] EXCEPT ![f] = v] \in Settings
    BY DEF TypeOK, Settings, Fields
  <2>5. pv' \in [Disc -> Settings]
    BY <2>3, <2>4 DEF TypeOK
  <2>6. writer' \in WriterStates
    BY <2>1 DEF WriterStates
  <2>7. QED
    BY <1>2, <2>5, <2>6 DEF SetParam, TypeOK
<1>3. ASSUME CallFromThread PROVE TypeOK'
  <2>1. writer[2] \in SetCommands /\ writer' \in WriterStates
    BY <1>3 DEF CallFromThread, TypeOK, WriterStates, Idle
  <2>2. QED
    BY <1>3, <2>1, EnqueueTyped DEF CallFromThread, TypeOK
<1>4. ASSUME WriteStart PROVE TypeOK'
  BY <1>4, EnqueueTyped DEF WriteStart, TypeOK
<1>5. ASSUME Connect PROVE TypeOK'
  BY <1>5 DEF Connect, TypeOK
<1>6. ASSUME TimerFires PROVE TypeOK'
  <2>1. timers - 1 \in Nat
    BY <1>6 DEF TimerFires, TypeOK
  <2>2. QED
    BY <1>6, <2>1, EnqueueTyped DEF TimerFires, TypeOK
<1>7. ASSUME RunCall PROVE TypeOK'
  <2>1. /\ calls' \in Seq(SetCommands \cup {Ask, StartAll}) /\ Len(calls') <= MaxCalls
        /\ Head(calls) \in SetCommands \cup {Ask, StartAll}
    BY <1>7, ChopperAssumption DEF RunCall, TypeOK
  <2>2. Target(Head(calls)) \subseteq Disc \X Fields
    BY DEF Target, SetCommands
  <2>3. toDevice' \in Seq(SetCommands \cup {Ask, StartAll}) /\ Len(toDevice') <= MaxCalls
    <3>1. toDevice \in Seq(SetCommands \cup {Ask, StartAll}) /\ Len(toDevice) < MaxCalls
      BY <1>7 DEF RunCall, TypeOK
    <3>2. toDevice' = Append(toDevice, Head(calls)) \/ toDevice' = toDevice
      BY <1>7 DEF RunCall
    <3>3. CASE toDevice' = Append(toDevice, Head(calls))
      <4>1. /\ toDevice' \in Seq(SetCommands \cup {Ask, StartAll})
            /\ Len(toDevice') = Len(toDevice) + 1
        BY <2>1, <3>1, <3>3
      <4>2. Len(toDevice) \in Nat
        BY <3>1
      <4>3. QED
        BY <3>1, <4>1, <4>2, ChopperAssumption
    <3>4. CASE toDevice' = toDevice
      BY <3>1, <3>4, ChopperAssumption
    <3>5. QED
      BY <3>2, <3>3, <3>4
  <2>4. QED
    BY <1>7, <2>1, <2>2, <2>3 DEF RunCall, TypeOK
<1>8. ASSUME Receive PROVE TypeOK'
  <2> DEFINE piece == Head(fromDevice)
  <2>1. piece \in Pieces /\ fromDevice' \in Seq(Pieces)
    BY <1>8 DEF Receive, TypeOK
  <2> HIDE DEF piece
  <2>2. ASSUME DOMAIN piece = Disc PROVE Taken(piece) \in [Disc -> Settings]
    <3>1. \A d \in Disc : piece[d] \in Modes
      BY <2>1, <2>2 DEF Pieces
    <3>2. \A d \in Disc : [pv[d] EXCEPT !.State = piece[d]] \in Settings
      BY <3>1 DEF TypeOK, Settings
    <3>3. QED
      BY <2>2, <3>2 DEF Taken
  <2>3. pv' \in [Disc -> Settings] /\ timers' \in Nat
    BY <1>8, <2>2 DEF Receive, TypeOK, piece
  <2>4. QED
    BY <1>8, <2>1, <2>3 DEF Receive, TypeOK
<1>9. ASSUME LinkLost PROVE TypeOK'
  <2>1. \A c \in ToSet(toDevice) : Target(c) \subseteq Disc \X Fields
    BY DEF Target, SetCommands
  <2>2. dropped' \subseteq Disc \X Fields
    BY <1>9, <2>1 DEF LinkLost, TypeOK
  <2>3. Len(<<>>) <= MaxCalls
    BY ChopperAssumption
  <2>4. QED
    BY <1>9, <2>2, <2>3 DEF LinkLost, TypeOK
<1>10. ASSUME NEW commands, commands = toDevice, commands # <<>>, toDevice' = Tail(commands)
       PROVE  toDevice' \in Seq(SetCommands \cup {Ask, StartAll}) /\ Len(toDevice') <= MaxCalls
  BY <1>10, ChopperAssumption DEF TypeOK
<1>11. ASSUME Answer PROVE TypeOK'
  <2>1. fromDevice' \in Seq(Pieces)
    <3>1. CASE fromDevice' = Append(fromDevice, Status(Disc))
      BY <3>1, StatusTyped DEF TypeOK
    <3>2. CASE \E ds, es \in (SUBSET Disc) \ {Disc} : fromDevice' = fromDevice \o <<Status(ds), Status(es)>>
      <4>1. PICK ds, es \in SUBSET Disc : fromDevice' = fromDevice \o <<Status(ds), Status(es)>>
        BY <3>2
      <4>2. <<Status(ds), Status(es)>> \in Seq(Pieces)
        BY StatusTyped
      <4>3. QED
        BY <4>1, <4>2 DEF TypeOK
    <3>3. QED
      BY <1>11, <3>1, <3>2 DEF Answer
  <2>2. torn' \in BOOLEAN
    BY <1>11 DEF Answer, TypeOK
  <2>3. QED
    BY <1>10, <1>11, <2>1, <2>2 DEF Answer, TypeOK
<1>12. ASSUME Obey PROVE TypeOK'
  <2>1. Head(toDevice) \in SetCommands \cup {Ask, StartAll}
    BY <1>12 DEF Obey, TypeOK
  <2>2. device' \in [Disc -> Settings]
    <3>1. CASE Head(toDevice) \in SetCommands
      <4>1. PICK f \in Fields, d \in Disc, v \in Values : Head(toDevice) = <<f, d, v>>
        BY <3>1 DEF SetCommands
      <4>2. Head(toDevice)[1] = f /\ Head(toDevice)[2] = d /\ Head(toDevice)[3] = v
        BY <4>1
      <4> DEFINE command == Head(toDevice)
      <4> HIDE DEF command
      <4>5. device' = [device EXCEPT ![command[2]][command[1]] = command[3]]
        BY <1>12, <3>1 DEF Obey, command
      <4>6. device' = [device EXCEPT ![d][f] = v]
        BY <4>2, <4>5 DEF command
      <4>3. [device[d] EXCEPT ![f] = v] \in Settings
        BY DEF TypeOK, Settings, Fields
      <4>4. QED
        BY <4>3, <4>6 DEF TypeOK
    <3>2. QED
      BY <1>12, <3>1 DEF Obey, TypeOK
  <2>3. QED
    BY <1>10, <1>12, <2>2 DEF Obey, TypeOK
<1>13. ASSUME NEW e \in Disc, SwitchMode(e) PROVE TypeOK'
  <2>1. PICK mode \in Modes : device' = [device EXCEPT ![e].State = mode]
    BY <1>13 DEF SwitchMode
  <2>2. [device[e] EXCEPT !.State = mode] \in Settings
    BY DEF TypeOK, Settings
  <2>3. device' \in [Disc -> Settings]
    BY <2>1, <2>2 DEF TypeOK
  <2>4. QED
    BY <1>13, <2>3 DEF SwitchMode, TypeOK
<1>14. ASSUME UNCHANGED vars PROVE TypeOK'
  BY <1>14 DEF vars, TypeOK
<1>15. QED
  BY <1>1, <1>2, <1>3, <1>4, <1>5, <1>6, <1>7, <1>8, <1>9, <1>11, <1>12, <1>13, <1>14
     DEF Next, Server, Reactor, Device

(* The process variables, the calls and commands under way, the pieces of   *)
(* replies and the device's settings are of their types                     *)
(* (facade-chopper-dornier.py:107-114, 292-322, 546-610).                   *)
THEOREM TypeCorrect == Spec => []TypeOK
  BY TypeInitial, TypeKept, PTL DEF Spec

-----------------------------------------------------------------------------
(* Counting the elements of a kind in a sequence: what an element more or   *)
(* less does to the set of their indices.                                   *)
LEMMA IndicesAreCounted ==
  ASSUME NEW n \in Nat, NEW I \in SUBSET (1 .. n)
  PROVE  IsFiniteSet(I) /\ Cardinality(I) \in Nat
<1>1. IsFiniteSet(1 .. n)
  BY FS_Interval
<1>2. IsFiniteSet(I)
  BY <1>1, FS_Subset
<1>3. QED
  BY <1>2, FS_CardinalityType

LEMMA IndicesGrow ==
  ASSUME NEW n \in Nat, NEW I \in SUBSET (1 .. n), NEW J, J \subseteq I \cup {n + 1}
  PROVE  /\ Cardinality(J) \in Nat /\ Cardinality(J) <= Cardinality(I) + 1
         /\ n + 1 \notin J => Cardinality(J) <= Cardinality(I)
<1>1. IsFiniteSet(I) /\ Cardinality(I) \in Nat
  BY IndicesAreCounted
<1>2. /\ IsFiniteSet(I \cup {n + 1}) /\ Cardinality(I \cup {n + 1}) = Cardinality(I) + 1
  BY <1>1, FS_AddElement
<1>3. IsFiniteSet(J) /\ Cardinality(J) <= Cardinality(I) + 1
  <2> DEFINE K == I \cup {n + 1}
  <2>1. IsFiniteSet(K) /\ Cardinality(K) = Cardinality(I) + 1 /\ J \in SUBSET K
    BY <1>2
  <2> HIDE DEF K
  <2>2. IsFiniteSet(J) /\ Cardinality(J) <= Cardinality(K)
    BY <2>1, FS_Subset
  <2>3. QED
    BY <2>1, <2>2
<1>4. ASSUME n + 1 \notin J PROVE Cardinality(J) <= Cardinality(I)
  BY <1>1, <1>4, FS_Subset
<1>5. QED
  BY <1>3, <1>4, FS_CardinalityType

LEMMA IndicesShift ==
  ASSUME NEW n \in Nat, NEW I \in SUBSET (1 .. n), NEW J \in SUBSET (1 .. n),
         \A j \in J : j + 1 \in I
  PROVE  /\ Cardinality(J) \in Nat /\ Cardinality(J) <= Cardinality(I)
         /\ 1 \in I => Cardinality(J) + 1 <= Cardinality(I)
<1>1. IsFiniteSet(I) /\ Cardinality(I) \in Nat /\ Cardinality(J) \in Nat
  BY IndicesAreCounted
<1>2. /\ IsFiniteSet(I \ {1})
      /\ Cardinality(I \ {1}) = IF 1 \in I THEN Cardinality(I) - 1 ELSE Cardinality(I)
  BY <1>1, FS_RemoveElement
<1> DEFINE shift == [j \in J |-> j + 1]
<1>3. shift \in Injection(J, I \ {1})
  BY DEF Injection, IsInjective
<1>4. Cardinality(J) <= Cardinality(I \ {1})
  BY <1>2, <1>3, FS_Injection
<1>5. QED
  BY <1>1, <1>2, <1>4

LEMMA AsksAppend ==
  ASSUME NEW S, NEW s \in Seq(S), NEW x
  PROVE  /\ Asks(s) \in Nat /\ Asks(Append(s, x)) \in Nat
         /\ Asks(Append(s, x)) <= Asks(s) + 1
         /\ x # Ask => Asks(Append(s, x)) <= Asks(s)
<1> DEFINE I == {i \in DOMAIN s : s[i] = Ask}
           t == Append(s, x)
           J == {i \in DOMAIN t : t[i] = Ask}
<1>1. /\ Len(s) \in Nat /\ DOMAIN s = 1 .. Len(s) /\ DOMAIN t = 1 .. Len(s) + 1
      /\ \A i \in 1 .. Len(s) : t[i] = s[i]
      /\ t[Len(s) + 1] = x
  OBVIOUS
<1> HIDE DEF t
<1>2. I \in SUBSET (1 .. Len(s)) /\ J \subseteq I \cup {Len(s) + 1}
  BY <1>1
<1>3. x # Ask => Len(s) + 1 \notin J
  BY <1>1
<1> HIDE DEF I, J
<1>4. Cardinality(I) \in Nat
  BY <1>1, <1>2, IndicesAreCounted
<1>5. /\ Cardinality(J) \in Nat /\ Cardinality(J) <= Cardinality(I) + 1
      /\ Len(s) + 1 \notin J => Cardinality(J) <= Cardinality(I)
  BY <1>1, <1>2, IndicesGrow
<1>6. Asks(s) = Cardinality(I) /\ Asks(Append(s, x)) = Cardinality(J)
  BY DEF Asks, I, J, t
<1>7. QED
  BY <1>3, <1>4, <1>5, <1>6

LEMMA AsksTail ==
  ASSUME NEW S, NEW s \in Seq(S), s # <<>>
  PROVE  /\ Asks(s) \in Nat /\ Asks(Tail(s)) \in Nat
         /\ Asks(Tail(s)) <= Asks(s)
         /\ Head(s) = Ask => Asks(Tail(s)) + 1 <= Asks(s)
<1> DEFINE I == {i \in DOMAIN s : s[i] = Ask}
           t == Tail(s)
           J == {i \in DOMAIN t : t[i] = Ask}
<1>1. /\ Len(s) \in Nat \ {0} /\ DOMAIN s = 1 .. Len(s) /\ DOMAIN t = 1 .. Len(s) - 1
      /\ \A i \in 1 .. Len(s) - 1 : t[i] = s[i + 1]
      /\ Head(s) = s[1]
  OBVIOUS
<1> HIDE DEF t
<1>2. /\ I \in SUBSET (1 .. Len(s)) /\ J \in SUBSET (1 .. Len(s))
      /\ \A j \in J : j + 1 \in I
  BY <1>1
<1>3. Head(s) = Ask => 1 \in I
  BY <1>1
<1> HIDE DEF I, J
<1>4. Cardinality(I) \in Nat
  BY <1>1, <1>2, IndicesAreCounted
<1>5. /\ Cardinality(J) \in Nat /\ Cardinality(J) <= Cardinality(I)
      /\ 1 \in I => Cardinality(J) + 1 <= Cardinality(I)
  BY <1>1, <1>2, IndicesShift
<1>6. Asks(s) = Cardinality(I) /\ Asks(Tail(s)) = Cardinality(J)
  BY DEF Asks, I, J, t
<1>7. QED
  BY <1>3, <1>4, <1>5, <1>6

LEMMA CompleteAppend ==
  ASSUME NEW S, NEW s \in Seq(S), NEW x
  PROVE  /\ Complete(s) \in Nat /\ Complete(Append(s, x)) \in Nat
         /\ Complete(Append(s, x)) <= Complete(s) + 1
         /\ DOMAIN x # Disc => Complete(Append(s, x)) <= Complete(s)
<1> DEFINE I == {i \in DOMAIN s : DOMAIN s[i] = Disc}
           t == Append(s, x)
           J == {i \in DOMAIN t : DOMAIN t[i] = Disc}
<1>1. /\ Len(s) \in Nat /\ DOMAIN s = 1 .. Len(s) /\ DOMAIN t = 1 .. Len(s) + 1
      /\ \A i \in 1 .. Len(s) : t[i] = s[i]
      /\ t[Len(s) + 1] = x
  OBVIOUS
<1> HIDE DEF t
<1>2. I \in SUBSET (1 .. Len(s)) /\ J \subseteq I \cup {Len(s) + 1}
  BY <1>1
<1>3. DOMAIN x # Disc => Len(s) + 1 \notin J
  BY <1>1
<1> HIDE DEF I, J
<1>4. Cardinality(I) \in Nat
  BY <1>1, <1>2, IndicesAreCounted
<1>5. /\ Cardinality(J) \in Nat /\ Cardinality(J) <= Cardinality(I) + 1
      /\ Len(s) + 1 \notin J => Cardinality(J) <= Cardinality(I)
  BY <1>1, <1>2, IndicesGrow
<1>6. Complete(s) = Cardinality(I) /\ Complete(Append(s, x)) = Cardinality(J)
  BY DEF Complete, I, J, t
<1>7. QED
  BY <1>3, <1>4, <1>5, <1>6

LEMMA CompleteTail ==
  ASSUME NEW S, NEW s \in Seq(S), s # <<>>
  PROVE  /\ Complete(s) \in Nat /\ Complete(Tail(s)) \in Nat
         /\ Complete(Tail(s)) <= Complete(s)
         /\ DOMAIN Head(s) = Disc => Complete(Tail(s)) + 1 <= Complete(s)
<1> DEFINE I == {i \in DOMAIN s : DOMAIN s[i] = Disc}
           t == Tail(s)
           J == {i \in DOMAIN t : DOMAIN t[i] = Disc}
<1>1. /\ Len(s) \in Nat \ {0} /\ DOMAIN s = 1 .. Len(s) /\ DOMAIN t = 1 .. Len(s) - 1
      /\ \A i \in 1 .. Len(s) - 1 : t[i] = s[i + 1]
      /\ Head(s) = s[1]
  OBVIOUS
<1> HIDE DEF t
<1>2. /\ I \in SUBSET (1 .. Len(s)) /\ J \in SUBSET (1 .. Len(s))
      /\ \A j \in J : j + 1 \in I
  BY <1>1
<1>3. DOMAIN Head(s) = Disc => 1 \in I
  BY <1>1
<1> HIDE DEF I, J
<1>4. Cardinality(I) \in Nat
  BY <1>1, <1>2, IndicesAreCounted
<1>5. /\ Cardinality(J) \in Nat /\ Cardinality(J) <= Cardinality(I)
      /\ 1 \in I => Cardinality(J) + 1 <= Cardinality(I)
  BY <1>1, <1>2, IndicesShift
<1>6. Complete(s) = Cardinality(I) /\ Complete(Tail(s)) = Cardinality(J)
  BY DEF Complete, I, J, t
<1>7. QED
  BY <1>3, <1>4, <1>5, <1>6

LEMMA NothingToCount ==
  /\ Asks(<<>>) = 0 /\ Complete(<<>>) = 0
  /\ \A S : \A s \in Seq(S) : Asks(s) \in Nat /\ Complete(s) \in Nat
<1>1. {i \in DOMAIN <<>> : <<>>[i] = Ask} = {} /\ {i \in DOMAIN <<>> : DOMAIN <<>>[i] = Disc} = {}
  OBVIOUS
<1>2. Asks(<<>>) = 0 /\ Complete(<<>>) = 0
  BY <1>1, FS_EmptySet DEF Asks, Complete
<1>3. ASSUME NEW S, NEW s \in Seq(S) PROVE Asks(s) \in Nat /\ Complete(s) \in Nat
  BY AsksAppend, CompleteAppend
<1>4. QED
  BY <1>2, <1>3

-----------------------------------------------------------------------------
(* The questions on their way round; none before there is a connection.     *)
Questions == timers + Asks(calls) + Asks(toDevice) + Complete(fromDevice)

PollInv == TypeOK /\ Questions <= 1 /\ (link = "connecting" => Questions = 0)

LEMMA QuestionsAreNatural ==
  ASSUME TypeOK
  PROVE  /\ timers \in Nat /\ Asks(calls) \in Nat /\ Asks(toDevice) \in Nat
         /\ Complete(fromDevice) \in Nat /\ Questions \in Nat
<1>1. /\ timers \in Nat /\ calls \in Seq(SetCommands \cup {Ask, StartAll})
      /\ toDevice \in Seq(SetCommands \cup {Ask, StartAll}) /\ fromDevice \in Seq(Pieces)
  BY DEF TypeOK
<1> DEFINE t == timers   a == Asks(calls)   b == Asks(toDevice)   c == Complete(fromDevice)
<1>2. t \in Nat /\ a \in Nat /\ b \in Nat /\ c \in Nat
  BY <1>1, NothingToCount, Zenon
<1> HIDE DEF t, a, b, c
<1>3. t + a + b + c \in Nat
  BY <1>2
<1>4. QED
  BY <1>2, <1>3, Zenon DEF Questions, t, a, b, c

(* No step but the making of the connection adds a question.                *)
LEMMA NoQuestionAdded ==
  ASSUME TypeOK, TypeOK', [Next]_vars
  PROVE  Questions' <= Questions \/ (Connect /\ Questions' = Questions + 1)
<1> USE DEF wires, history
<1> DEFINE q == Questions              q1 == Questions'
           t == timers                 t1 == timers'
           a == Asks(calls)            a1 == Asks(calls')
           b == Asks(toDevice)         b1 == Asks(toDevice')
           c == Complete(fromDevice)   c1 == Complete(fromDevice')
<1> SUFFICES q1 <= q \/ (Connect /\ q1 = q + 1)
  OBVIOUS
<1>1. /\ calls \in Seq(SetCommands \cup {Ask, StartAll})
      /\ toDevice \in Seq(SetCommands \cup {Ask, StartAll})
      /\ fromDevice \in Seq(Pieces) /\ timers \in Nat
      /\ calls' \in Seq(SetCommands \cup {Ask, StartAll})
      /\ toDevice' \in Seq(SetCommands \cup {Ask, StartAll})
      /\ fromDevice' \in Seq(Pieces) /\ timers' \in Nat
  BY DEF TypeOK
<1>2. /\ t \in Nat /\ a \in Nat /\ b \in Nat /\ c \in Nat
      /\ t1 \in Nat /\ a1 \in Nat /\ b1 \in Nat /\ c1 \in Nat
  BY <1>1, NothingToCount, Zenon
<1>3. q = t + a + b + c /\ q1 = t1 + a1 + b1 + c1
  BY DEF Questions
<1>4. Ask \notin SetCommands /\ Ask # StartAll
  BY DEF Ask, StartAll, SetCommands, Fields
<1> HIDE DEF q, q1, t, t1, a, a1, b, b1, c, c1
<1>5. ASSUME UNCHANGED <<timers, calls, wires>> PROVE q1 = q
  <2>1. t1 = t /\ a1 = a /\ b1 = b /\ c1 = c
    BY <1>5 DEF t, t1, a, a1, b, b1, c, c1
  <2>2. QED
    BY <1>3, <2>1
<1>6. ASSUME NEW x \in SetCommands \cup {StartAll}, Enqueue(x), UNCHANGED <<timers, wires>>
      PROVE  q1 <= q
  <2>1. x # Ask /\ calls' = Append(calls, x)
    BY <1>4, <1>6 DEF Enqueue
  <2>2. a1 <= a
    BY <1>1, <2>1, AsksAppend DEF a, a1
  <2>3. t1 = t /\ b1 = b /\ c1 = c
    BY <1>6 DEF t, t1, b, b1, c, c1
  <2>4. QED
    BY <1>2, <1>3, <2>2, <2>3
<1>7. CASE Server
  <2>1. ASSUME CallFromThread PROVE q1 <= q
    <3>1. writer[2] \in SetCommands
      BY <2>1 DEF CallFromThread, TypeOK, WriterStates, Idle
    <3>2. QED
      BY <1>6, <2>1, <3>1 DEF CallFromThread
  <2>2. ASSUME WriteStart PROVE q1 <= q
    BY <1>6, <2>2 DEF WriteStart
  <2>3. ASSUME UNCHANGED <<timers, calls, wires>> PROVE q1 <= q
    BY <1>2, <1>3, <1>5, <2>3
  <2>4. QED
    BY <1>7, <2>1, <2>2, <2>3 DEF Server, Write, SetParam
<1>8. CASE Connect
  <2>1. t1 = t + 1 /\ a1 = a /\ b1 = b /\ c1 = c
    BY <1>8 DEF Connect, t, t1, a, a1, b, b1, c, c1
  <2>2. q1 = q + 1
    BY <1>2, <1>3, <2>1
  <2>3. QED
    BY <1>8, <2>2
<1>9. CASE TimerFires
  <2>1. timers' = timers - 1 /\ calls' = Append(calls, Ask) /\ UNCHANGED wires
    BY <1>9 DEF TimerFires, Enqueue
  <2>2. a1 <= a + 1
    BY <1>1, <2>1, AsksAppend DEF a, a1
  <2>3. t1 = t - 1 /\ b1 = b /\ c1 = c
    BY <2>1 DEF t, t1, b, b1, c, c1
  <2>4. QED
    BY <1>2, <1>3, <2>2, <2>3
<1>10. CASE RunCall
  <2>1. /\ calls # <<>> /\ calls' = Tail(calls) /\ UNCHANGED <<timers, fromDevice>>
        /\ toDevice' = Append(toDevice, Head(calls)) \/ toDevice' = toDevice
    BY <1>10 DEF RunCall
  <2>2. a1 <= a /\ (Head(calls) = Ask => a1 + 1 <= a)
    BY <1>1, <2>1, AsksTail DEF a, a1
  <2>3. b1 <= b + 1 /\ (Head(calls) # Ask => b1 <= b)
    <3>1. CASE toDevice' = Append(toDevice, Head(calls))
      BY <1>1, <3>1, AsksAppend DEF b, b1
    <3>2. CASE toDevice' = toDevice
      <4>1. b1 = b
        BY <3>2 DEF b, b1
      <4>2. QED
        BY <1>2, <4>1
    <3>3. QED
      BY <2>1, <3>1, <3>2
  <2>4. t1 = t /\ c1 = c
    BY <2>1 DEF t, t1, c, c1
  <2>5. QED
    BY <1>2, <1>3, <2>2, <2>3, <2>4
<1>11. CASE Receive
  <2>1. /\ fromDevice # <<>> /\ fromDevice' = Tail(fromDevice) /\ UNCHANGED <<calls, toDevice>>
        /\ timers' = IF DOMAIN Head(fromDevice) = Disc THEN timers + 1 ELSE timers
    BY <1>11 DEF Receive
  <2>2. c1 <= c /\ (DOMAIN Head(fromDevice) = Disc => c1 + 1 <= c)
    BY <1>1, <2>1, CompleteTail DEF c, c1
  <2>3. /\ t1 = IF DOMAIN Head(fromDevice) = Disc THEN t + 1 ELSE t
        /\ a1 = a /\ b1 = b
    BY <2>1 DEF t, t1, a, a1, b, b1
  <2>4. QED
    BY <1>2, <1>3, <2>2, <2>3
<1>12. CASE LinkLost
  <2>1. toDevice' = <<>> /\ fromDevice' = <<>> /\ UNCHANGED <<timers, calls>>
    BY <1>12 DEF LinkLost
  <2>2. b1 = 0 /\ c1 = 0
    BY <2>1, NothingToCount DEF b1, c1
  <2>3. t1 = t /\ a1 = a
    BY <2>1 DEF t, t1, a, a1
  <2>4. QED
    BY <1>2, <1>3, <2>2, <2>3
<1>13. CASE Answer
  <2>1. /\ toDevice # <<>> /\ Head(toDevice) = Ask /\ toDevice' = Tail(toDevice)
        /\ UNCHANGED <<timers, calls>>
    BY <1>13 DEF Answer
  <2>2. b1 + 1 <= b
    BY <1>1, <2>1, AsksTail DEF b, b1
  <2>3. c1 <= c + 1
    <3>1. CASE fromDevice' = Append(fromDevice, Status(Disc))
      BY <1>1, <3>1, CompleteAppend DEF c, c1
    <3>2. CASE \E ds, es \in (SUBSET Disc) \ {Disc} : fromDevice' = fromDevice \o <<Status(ds), Status(es)>>
      <4>1. PICK ds, es \in (SUBSET Disc) \ {Disc} : fromDevice' = fromDevice \o <<Status(ds), Status(es)>>
        BY <3>2
      <4> DEFINE first == Append(fromDevice, Status(ds))
      <4>2. /\ Status(ds) \in Pieces /\ DOMAIN Status(ds) # Disc
            /\ Status(es) \in Pieces /\ DOMAIN Status(es) # Disc
        BY StatusTyped
      <4>3. fromDevice' = Append(first, Status(es)) /\ first \in Seq(Pieces)
        BY <1>1, <4>1, <4>2
      <4>4. Complete(first) <= c /\ Complete(first) \in Nat
        BY <1>1, <4>2, CompleteAppend DEF c
      <4> HIDE DEF first
      <4>5. c1 <= Complete(first)
        BY <4>2, <4>3, CompleteAppend DEF c1
      <4>6. QED
        BY <1>2, <4>4, <4>5
    <3>3. QED
      BY <1>13, <3>1, <3>2 DEF Answer
  <2>4. t1 = t /\ a1 = a
    BY <2>1 DEF t, t1, a, a1
  <2>5. QED
    BY <1>2, <1>3, <2>2, <2>3, <2>4
<1>14. CASE Obey
  <2>1. toDevice # <<>> /\ toDevice' = Tail(toDevice) /\ UNCHANGED <<timers, calls, fromDevice>>
    BY <1>14 DEF Obey
  <2>2. b1 <= b
    BY <1>1, <2>1, AsksTail DEF b, b1
  <2>3. t1 = t /\ a1 = a /\ c1 = c
    BY <2>1 DEF t, t1, a, a1, c, c1
  <2>4. QED
    BY <1>2, <1>3, <2>2, <2>3
<1>15. CASE (\E d \in Disc : SwitchMode(d)) \/ UNCHANGED vars
  <2>1. UNCHANGED <<timers, calls, wires>>
    BY <1>15 DEF SwitchMode, vars
  <2>2. QED
    BY <1>2, <1>3, <1>5, <2>1
<1>16. QED
  BY <1>7, <1>8, <1>9, <1>10, <1>11, <1>12, <1>13, <1>14, <1>15 DEF Next, Reactor, Device

(* There is never more than one question about the status on its way,       *)
(* whatever is written, torn, lost or delayed: only an answer starts the    *)
(* next one (facade-chopper-dornier.py:510-512, 546-570, 606-610).          *)
THEOREM OneQuestionAtATime == Spec => []OnePoll
<1>1. Init => PollInv
  <2>1. ASSUME Init PROVE Questions = 0
    BY <2>1, NothingToCount DEF Init, Questions
  <2>2. QED
    BY <2>1, TypeInitial DEF PollInv
<1>2. PollInv /\ [Next]_vars => PollInv'
  <2> SUFFICES ASSUME PollInv, [Next]_vars PROVE PollInv'
    OBVIOUS
  <2>1. TypeOK /\ TypeOK'
    BY TypeKept DEF PollInv
  <2>2. Questions \in Nat
    BY <2>1, QuestionsAreNatural
  <2>3. Questions' \in Nat
    <3>1. /\ Asks(calls') \in Nat /\ Asks(toDevice') \in Nat
          /\ Complete(fromDevice') \in Nat /\ timers' \in Nat
      BY <2>1, NothingToCount DEF TypeOK
    <3>2. QED
      BY <3>1 DEF Questions
  <2>4. CASE Connect
    <3>1. link = "connecting" /\ link' = "up"
      BY <2>4 DEF Connect
    <3>2. QED
      BY <2>1, <2>2, <2>3, <3>1, NoQuestionAdded DEF PollInv
  <2>5. CASE ~Connect
    <3>1. Questions' <= Questions
      BY <2>1, <2>5, NoQuestionAdded
    <3>2. link' = "connecting" => link = "connecting"
      BY DEF Next, Server, Reactor, Device, Write, SetParam, CallFromThread, WriteStart, Connect, TimerFires,
             RunCall, Receive, LinkLost, Answer, Obey, SwitchMode, vars
    <3>3. QED
      BY <2>1, <2>2, <2>3, <3>1, <3>2 DEF PollInv
  <2>6. QED
    BY <2>4, <2>5
<1>3. PollInv => OnePoll
  BY DEF PollInv, OnePoll, Questions
<1>4. QED
  BY <1>1, <1>2, <1>3, PTL DEF Spec

-----------------------------------------------------------------------------
(* Set points on their way.  p is a pair of a disc and a field: the last    *)
(* command for it, wherever it is, has the value of the process variable;   *)
(* when there is none, the device has that value.                           *)
CommandsFor(s, p) == {i \in 1 .. Len(s) : p \in Target(s[i])}

LastSays(s, p, v) ==
  \A i \in CommandsFor(s, p) : (\A j \in CommandsFor(s, p) : j <= i) => s[i][3] = v

Sent(d, f) ==
  IF CommandsFor(toDevice, <<d, f>>) # {} THEN LastSays(toDevice, <<d, f>>, pv[d][f])
  ELSE <<d, f>> \in dropped \/ device[d][f] = pv[d][f]

Called(d, f) ==
  IF CommandsFor(calls, <<d, f>>) # {} THEN LastSays(calls, <<d, f>>, pv[d][f])
  ELSE Sent(d, f)

Agrees(d, f) ==
  IF writer[1] = "call" /\ <<d, f>> \in Target(writer[2]) THEN writer[2][3] = pv[d][f]
  ELSE Called(d, f)

NothingSentInVain == link # "up" => toDevice = <<>>

AgreeInv == TypeOK /\ NothingSentInVain /\ \A d \in Disc, f \in Fields : Agrees(d, f)

LEMMA CommandAppended ==
  ASSUME NEW S, NEW s \in Seq(S), NEW x, NEW p
  PROVE  /\ p \in Target(x) =>
              /\ CommandsFor(Append(s, x), p) # {}
              /\ \A v : x[3] = v => LastSays(Append(s, x), p, v)
         /\ p \notin Target(x) =>
              /\ CommandsFor(Append(s, x), p) = CommandsFor(s, p)
              /\ \A v : LastSays(s, p, v) => LastSays(Append(s, x), p, v)
<1> DEFINE t == Append(s, x)
           n == Len(s)
<1>1. /\ n \in Nat /\ Len(t) = n + 1 /\ t[n + 1] = x
      /\ \A i \in 1 .. n : t[i] = s[i]
  OBVIOUS
<1> HIDE DEF t, n
<1>2. CommandsFor(s, p) = {i \in 1 .. n : p \in Target(s[i])}
  BY DEF CommandsFor, n
<1>3. CommandsFor(t, p) = {i \in 1 .. n + 1 : p \in Target(t[i])}
  BY <1>1 DEF CommandsFor
<1>4. ASSUME p \in Target(x) PROVE n + 1 \in CommandsFor(t, p) /\ \A v : x[3] = v => LastSays(t, p, v)
  <2>1. n + 1 \in CommandsFor(t, p) /\ \A i \in CommandsFor(t, p) : i \in Nat /\ i <= n + 1
    BY <1>1, <1>3, <1>4
  <2>2. \A i \in CommandsFor(t, p) : (\A j \in CommandsFor(t, p) : j <= i) => i = n + 1
    BY <1>1, <2>1
  <2>3. QED
    BY <1>1, <2>1, <2>2 DEF LastSays
<1>5. ASSUME p \notin Target(x)
      PROVE  CommandsFor(t, p) = CommandsFor(s, p) /\ \A v : LastSays(s, p, v) => LastSays(t, p, v)
  <2>1. CommandsFor(t, p) = CommandsFor(s, p)
    BY <1>1, <1>2, <1>3, <1>5
  <2>2. \A i \in CommandsFor(s, p) : t[i] = s[i]
    BY <1>1, <1>2
  <2>3. QED
    BY <2>1, <2>2 DEF LastSays
<1>6. QED
  BY <1>4, <1>5 DEF t

LEMMA CommandTaken ==
  ASSUME NEW S, NEW s \in Seq(S), s # <<>>, NEW p, NEW v, LastSays(s, p, v)
  PROVE  /\ LastSays(Tail(s), p, v)
         /\ p \notin Target(Head(s)) =>
              (CommandsFor(s, p) = {} <=> CommandsFor(Tail(s), p) = {})
         /\ p \in Target(Head(s)) =>
              /\ CommandsFor(s, p) # {}
              /\ CommandsFor(Tail(s), p) = {} => Head(s)[3] = v
<1> DEFINE t == Tail(s)
           n == Len(s)
<1>1. /\ n \in Nat \ {0} /\ Len(t) = n - 1 /\ Head(s) = s[1]
      /\ \A i \in 1 .. n - 1 : t[i] = s[i + 1]
  OBVIOUS
<1> HIDE DEF t, n
<1>2. CommandsFor(s, p) = {i \in 1 .. n : p \in Target(s[i])}
  BY DEF CommandsFor, n
<1>3. CommandsFor(t, p) = {i \in 1 .. n - 1 : p \in Target(t[i])}
  BY <1>1 DEF CommandsFor
<1>4. /\ \A i \in CommandsFor(t, p) : i + 1 \in CommandsFor(s, p) /\ i \in 1 .. n - 1
      /\ \A i \in CommandsFor(s, p) : i # 1 => i - 1 \in CommandsFor(t, p)
      /\ \A i \in CommandsFor(s, p) : i \in 1 .. n
  BY <1>1, <1>2, <1>3
<1>5. LastSays(t, p, v)
  <2> SUFFICES ASSUME NEW i \in CommandsFor(t, p), \A j \in CommandsFor(t, p) : j <= i
               PROVE  t[i][3] = v
    BY DEF LastSays
  <2>1. i + 1 \in CommandsFor(s, p) /\ i \in 1 .. n - 1
    BY <1>4
  <2>2. \A j \in CommandsFor(s, p) : j <= i + 1
    BY <1>1, <1>4, <2>1
  <2>3. s[i + 1][3] = v
    BY <2>1, <2>2 DEF LastSays
  <2>4. QED
    BY <1>1, <2>1, <2>3
<1>6. 1 \in CommandsFor(s, p) <=> p \in Target(Head(s))
  BY <1>1, <1>2
<1>7. ASSUME p \notin Target(Head(s)) PROVE CommandsFor(s, p) = {} <=> CommandsFor(t, p) = {}
  BY <1>4, <1>6, <1>7
<1>8. ASSUME p \in Target(Head(s)), CommandsFor(t, p) = {} PROVE Head(s)[3] = v
  <2>1. CommandsFor(s, p) = {1}
    BY <1>4, <1>6, <1>8
  <2>2. QED
    BY <1>1, <2>1 DEF LastSays
<1>9. QED
  BY <1>5, <1>6, <1>7, <1>8 DEF t

LEMMA NoTarget ==
  Target(Ask) = {} /\ Target(StartAll) = {} /\ \A p : CommandsFor(<<>>, p) = {}
  BY DEF Target, Ask, StartAll, SetCommands, Fields, CommandsFor

(* A command that a call brings to the queue's end.                         *)
LEMMA CallAppended ==
  ASSUME TypeOK, NEW c, calls' = Append(calls, c), UNCHANGED <<pv, toDevice, device, dropped>>,
         NEW d \in Disc, NEW f \in Fields
  PROVE  IF <<d, f>> \in Target(c) THEN c[3] = pv[d][f] => Called(d, f)'
                                   ELSE Called(d, f) => Called(d, f)'
<1>1. calls \in Seq(SetCommands \cup {Ask, StartAll})
  BY DEF TypeOK
<1>2. Sent(d, f)' <=> Sent(d, f)
  BY DEF Sent
<1>3. CASE <<d, f>> \in Target(c)
  <2>1. /\ CommandsFor(calls', <<d, f>>) # {}
        /\ c[3] = pv[d][f] => LastSays(calls', <<d, f>>, pv'[d][f])
    BY <1>1, <1>3, CommandAppended
  <2>2. QED
    BY <1>3, <2>1 DEF Called
<1>4. CASE <<d, f>> \notin Target(c)
  <2>1. /\ CommandsFor(calls', <<d, f>>) = CommandsFor(calls, <<d, f>>)
        /\ LastSays(calls, <<d, f>>, pv[d][f]) => LastSays(calls', <<d, f>>, pv'[d][f])
    BY <1>1, <1>4, CommandAppended
  <2>2. QED
    BY <1>2, <1>4, <2>1 DEF Called
<1>5. QED
  BY <1>3, <1>4

(* A call runs: its command goes to the device or nowhere.                  *)
LEMMA RunCallAgrees ==
  ASSUME TypeOK, NothingSentInVain, RunCall, NEW d \in Disc, NEW f \in Fields, Called(d, f)
  PROVE  Called(d, f)'
<1> DEFINE p == <<d, f>>
           v == pv[d][f]
           c == Head(calls)
<1>1. /\ calls # <<>> /\ calls' = Tail(calls) /\ UNCHANGED <<pv, device>>
      /\ IF link = "up" THEN /\ toDevice' = Append(toDevice, c)
                             /\ dropped' = dropped \ Target(c)
                        ELSE toDevice' = toDevice /\ dropped' = dropped \cup Target(c)
  BY DEF RunCall
<1>2. /\ calls \in Seq(SetCommands \cup {Ask, StartAll})
      /\ toDevice \in Seq(SetCommands \cup {Ask, StartAll})
  BY DEF TypeOK
<1> HIDE DEF p, v, c
<1>3. CommandsFor(calls, p) = {} => LastSays(calls, p, v)
  BY DEF LastSays
<1>4. LastSays(calls, p, v)
  BY <1>3 DEF Called, p, v
<1>5. /\ LastSays(calls', p, v)
      /\ p \notin Target(c) => (CommandsFor(calls, p) = {} <=> CommandsFor(calls', p) = {})
      /\ p \in Target(c) => (CommandsFor(calls', p) = {} => c[3] = v)
  BY <1>1, <1>2, <1>4, CommandTaken DEF c
<1>6. CASE CommandsFor(calls', p) # {}
  BY <1>1, <1>5, <1>6 DEF Called, p, v
<1>7. CASE CommandsFor(calls', p) = {}
  <2>1. CASE p \in Target(c)
    <3>1. CASE link = "up"
      <4>1. CommandsFor(toDevice', p) # {} /\ LastSays(toDevice', p, v)
        <5>1. c[3] = v /\ toDevice' = Append(toDevice, c)
          BY <1>1, <1>5, <1>7, <2>1, <3>1
        <5>2. /\ CommandsFor(Append(toDevice, c), p) # {}
              /\ \A u : c[3] = u => LastSays(Append(toDevice, c), p, u)
          BY <1>2, <2>1, CommandAppended
        <5>3. QED
          BY <5>1, <5>2
      <4>2. Sent(d, f)'
        <5>1. CommandsFor(toDevice', <<d, f>>) # {} /\ LastSays(toDevice', <<d, f>>, pv'[d][f])
          BY <1>1, <4>1 DEF p, v
        <5>2. QED
          BY <5>1 DEF Sent
      <4>3. QED
        BY <1>7, <4>2 DEF Called, p
    <3>2. CASE link # "up"
      <4>1. p \in dropped' /\ toDevice' = <<>>
        BY <1>1, <2>1, <3>2 DEF NothingSentInVain
      <4>2. CommandsFor(toDevice', p) = {}
        BY <4>1, NoTarget
      <4>3. QED
        BY <1>7, <4>1, <4>2 DEF Called, Sent, p
    <3>3. QED
      BY <3>1, <3>2
  <2>2. CASE p \notin Target(c)
    <3>1. Sent(d, f)
      BY <1>5, <1>7, <2>2 DEF Called, p
    <3>2. p \in dropped => p \in dropped'
      BY <1>1, <2>2
    <3>3. /\ CommandsFor(toDevice', p) = CommandsFor(toDevice, p)
          /\ LastSays(toDevice, p, v) => LastSays(toDevice', p, v)
      <4>1. CASE toDevice' = toDevice
        BY <4>1
      <4>2. CASE toDevice' = Append(toDevice, c)
        BY <1>2, <2>2, <4>2, CommandAppended
      <4>3. QED
        BY <1>1, <4>1, <4>2
    <3>4. QED
      BY <1>1, <1>7, <3>1, <3>2, <3>3 DEF Called, Sent, p, v
  <2>3. QED
    BY <2>1, <2>2
<1>8. QED
  BY <1>6, <1>7

(* The device takes a command, or is asked.                                 *)
LEMMA ObeyAgrees ==
  ASSUME TypeOK, Obey \/ Answer, NEW d \in Disc, NEW f \in Fields, Sent(d, f)
  PROVE  Sent(d, f)'
<1> DEFINE p == <<d, f>>
           v == pv[d][f]
           c == Head(toDevice)
<1>1. toDevice # <<>> /\ toDevice' = Tail(toDevice) /\ UNCHANGED <<pv, dropped>>
  BY DEF Obey, Answer, history
<1>2. /\ toDevice \in Seq(SetCommands \cup {Ask, StartAll})
      /\ c \in SetCommands \cup {Ask, StartAll}
  BY <1>1 DEF TypeOK
<1>3. device' = IF c \in SetCommands THEN [device EXCEPT ![c[2]][c[1]] = c[3]] ELSE device
  BY NoTarget DEF Obey, Answer, Target
<1>4. device'[d][f] = IF p \in Target(c) THEN c[3] ELSE device[d][f]
  <2>1. CASE c \in SetCommands
    <3>1. PICK g \in Fields, e \in Disc, w \in Values : c = <<g, e, w>>
      BY <2>1 DEF SetCommands
    <3>2. Target(c) = {<<e, g>>} /\ c[3] = w
      BY <2>1, <3>1 DEF Target
    <3>3. device' = [device EXCEPT ![e][g] = w]
      <4>1. c[1] = g /\ c[2] = e /\ c[3] = w
        BY <3>1
      <4> HIDE DEF c
      <4>2. device' = [device EXCEPT ![c[2]][c[1]] = c[3]]
        BY <1>3, <2>1
      <4>3. QED
        BY <4>1, <4>2
    <3>4. QED
      BY <3>2, <3>3 DEF TypeOK, Settings, Fields
  <2>2. CASE c \notin SetCommands
    BY <1>3, <2>2 DEF Target
  <2>3. QED
    BY <2>1, <2>2
<1> HIDE DEF p, v, c
<1>5. CommandsFor(toDevice, p) = {} => LastSays(toDevice, p, v)
  BY DEF LastSays
<1>6. LastSays(toDevice, p, v)
  BY <1>5 DEF Sent, p, v
<1>7. /\ LastSays(toDevice', p, v)
      /\ p \notin Target(c) => (CommandsFor(toDevice, p) = {} <=> CommandsFor(toDevice', p) = {})
      /\ p \in Target(c) => (CommandsFor(toDevice', p) = {} => c[3] = v)
  BY <1>1, <1>2, <1>6, CommandTaken DEF c
<1>8. CASE CommandsFor(toDevice', p) # {}
  BY <1>1, <1>7, <1>8 DEF Sent, p, v
<1>9. CASE CommandsFor(toDevice', p) = {}
  <2>1. CASE p \in Target(c)
    <3>1. device'[d][f] = v
      BY <1>4, <1>7, <1>9, <2>1
    <3>2. QED
      BY <1>1, <1>9, <3>1 DEF Sent, p, v
  <2>2. CASE p \notin Target(c)
    <3>1. p \in dropped \/ device[d][f] = v
      BY <1>7, <1>9, <2>2 DEF Sent, p, v
    <3>2. p \in dropped' \/ device'[d][f] = v
      BY <1>1, <1>4, <2>2, <3>1
    <3>3. QED
      BY <1>1, <1>9, <3>2 DEF Sent, p, v
  <2>3. QED
    BY <2>1, <2>2
<1>10. QED
  BY <1>8, <1>9

LEMMA LinkLostAgrees ==
  ASSUME TypeOK, LinkLost, NEW d \in Disc, NEW f \in Fields, Sent(d, f)
  PROVE  Sent(d, f)'
<1> DEFINE p == <<d, f>>
<1>1. /\ toDevice' = <<>> /\ UNCHANGED <<pv, device>>
      /\ dropped' = dropped \cup UNION {Target(c) : c \in ToSet(toDevice)}
  BY DEF LinkLost
<1>2. CommandsFor(toDevice', p) = {}
  BY <1>1, NoTarget
<1>3. ASSUME CommandsFor(toDevice, p) # {} PROVE p \in dropped'
  <2>1. PICK i \in 1 .. Len(toDevice) : p \in Target(toDevice[i])
    BY <1>3 DEF CommandsFor
  <2>2. toDevice[i] \in ToSet(toDevice)
    BY DEF TypeOK, ToSet
  <2>3. QED
    BY <1>1, <2>1, <2>2
<1>4. p \in dropped' \/ device'[d][f] = pv'[d][f]
  BY <1>1, <1>3 DEF Sent
<1>5. QED
  BY <1>2, <1>4 DEF Sent

LEMMA AgreementKept ==
  ASSUME AgreeInv, [Next]_vars, NEW d \in Disc, NEW f \in Fields
  PROVE  Agrees(d, f)'
<1> USE DEF wires, history
<1>1. TypeOK /\ NothingSentInVain /\ Agrees(d, f)
  BY DEF AgreeInv
<1>2. ASSUME UNCHANGED <<calls, toDevice, dropped>>, pv'[d][f] = pv[d][f], device'[d][f] = device[d][f]
      PROVE  Called(d, f)' <=> Called(d, f)
  BY <1>2 DEF Called, Sent
<1>3. ASSUME UNCHANGED <<calls, toDevice, dropped, writer>>, pv'[d][f] = pv[d][f],
             device'[d][f] = device[d][f]
      PROVE  Agrees(d, f)'
  BY <1>1, <1>2, <1>3 DEF Agrees
<1>4. ASSUME UNCHANGED <<writer, pv>>, Called(d, f) => Called(d, f)' PROVE Agrees(d, f)'
  BY <1>1, <1>4 DEF Agrees
<1>5. ASSUME UNCHANGED <<calls>>, UNCHANGED pv, Sent(d, f) => Sent(d, f)'
      PROVE  Called(d, f) => Called(d, f)'
  BY <1>5 DEF Called
<1>6. ASSUME NEW q \in SetPoints, NEW v \in Values, Write(q[1], q[2], v) PROVE Agrees(d, f)'
  <2>1. /\ writer[1] # "call" /\ writer'[1] # "call"
        /\ UNCHANGED <<calls, toDevice, dropped, pv, device>>
    BY <1>6 DEF Write, Idle
  <2>2. QED
    BY <1>1, <1>2, <2>1 DEF Agrees
<1>7. ASSUME SetParam PROVE Agrees(d, f)'
  <2>1. /\ writer[1] = "set" /\ writer[2] \in SetCommands /\ writer' = <<"call", writer[2]>>
        /\ UNCHANGED <<calls, toDevice, dropped, device>>
    BY <1>1, <1>7 DEF SetParam, TypeOK, WriterStates, Idle
  <2>2. PICK g \in Fields, e \in Disc, w \in Values : writer[2] = <<g, e, w>>
    BY <2>1 DEF SetCommands
  <2>3. pv' = [pv EXCEPT ![e][g] = w]
    BY <1>7, <2>2 DEF SetParam
  <2>4. Target(writer[2]) = {<<e, g>>} /\ writer[2][3] = w
    BY <2>1, <2>2 DEF Target
  <2>5. writer'[1] = "call" /\ writer'[2] = writer[2]
    BY <2>1
  <2>6. CASE <<d, f>> = <<e, g>>
    <3>1. pv'[d][f] = w
      BY <1>1, <2>3, <2>6 DEF TypeOK, Settings, Fields
    <3>2. QED
      BY <2>4, <2>5, <2>6, <3>1 DEF Agrees
  <2>7. CASE <<d, f>> # <<e, g>>
    <3>1. pv'[d][f] = pv[d][f]
      BY <1>1, <2>3, <2>7 DEF TypeOK, Settings, Fields
    <3>2. Called(d, f)
      BY <1>1, <2>1 DEF Agrees
    <3>3. Called(d, f)'
      BY <1>2, <2>1, <3>1, <3>2
    <3>4. QED
      BY <2>4, <2>5, <2>7, <3>3 DEF Agrees
  <2>8. QED
    BY <2>6, <2>7
<1>8. ASSUME CallFromThread PROVE Agrees(d, f)'
  <2>1. /\ writer[1] = "call" /\ calls' = Append(calls, writer[2]) /\ writer'[1] = "idle"
        /\ UNCHANGED <<pv, toDevice, device, dropped>>
    BY <1>8 DEF CallFromThread, Enqueue, Idle
  <2>2. Called(d, f)'
    BY <1>1, <2>1, CallAppended DEF Agrees
  <2>3. QED
    BY <2>1, <2>2 DEF Agrees
<1>9. ASSUME NEW c \in {Ask, StartAll}, Enqueue(c), UNCHANGED <<writer, pv, toDevice, device, dropped>>
      PROVE  Agrees(d, f)'
  <2>1. Called(d, f) => Called(d, f)'
    BY <1>1, <1>9, CallAppended, NoTarget DEF Enqueue
  <2>2. QED
    BY <1>4, <1>9, <2>1
<1>10. ASSUME WriteStart \/ TimerFires PROVE Agrees(d, f)'
  BY <1>9, <1>10 DEF WriteStart, TimerFires
<1>11. ASSUME Connect \/ UNCHANGED vars PROVE Agrees(d, f)'
  BY <1>3, <1>11 DEF Connect, vars
<1>12. ASSUME RunCall PROVE Agrees(d, f)'
  BY <1>1, <1>4, <1>12, RunCallAgrees DEF RunCall
<1>13. ASSUME Receive PROVE Agrees(d, f)'
  <2>1. UNCHANGED <<writer, calls, toDevice, device, dropped>>
    BY <1>13 DEF Receive
  <2>2. pv'[d][f] = pv[d][f]
    <3>1. \/ pv' = pv
          \/ /\ DOMAIN Head(fromDevice) = Disc
             /\ pv' = Taken(Head(fromDevice))
      BY <1>13 DEF Receive
    <3>2. ASSUME NEW piece, DOMAIN piece = Disc, pv' = Taken(piece) PROVE pv'[d][f] = pv[d][f]
      BY <1>1, <3>2 DEF Taken, TypeOK, Settings, Fields
    <3>3. QED
      BY <3>1, <3>2
  <2>3. QED
    BY <1>3, <2>1, <2>2
<1>14. ASSUME LinkLost PROVE Agrees(d, f)'
  BY <1>1, <1>4, <1>5, <1>14, LinkLostAgrees DEF LinkLost
<1>15. ASSUME Answer \/ Obey PROVE Agrees(d, f)'
  BY <1>1, <1>4, <1>5, <1>15, ObeyAgrees DEF Answer, Obey
<1>16. ASSUME NEW e \in Disc, SwitchMode(e) PROVE Agrees(d, f)'
  <2>1. /\ UNCHANGED <<writer, pv, calls, toDevice, dropped>>
        /\ \E mode \in Modes : device' = [device EXCEPT ![e].State = mode]
    BY <1>16 DEF SwitchMode
  <2>2. device'[d][f] = device[d][f]
    BY <1>1, <2>1 DEF TypeOK, Settings, Fields
  <2>3. QED
    BY <1>3, <2>1, <2>2
<1>17. QED
  BY <1>6, <1>7, <1>8, <1>10, <1>11, <1>12, <1>13, <1>14, <1>15, <1>16 DEF Next, Server, Reactor, Device

(* When everything written has gone its way, the process variables show the *)
(* device's set points, those apart whose last command found no connection: *)
(* for any discs and values and whatever waits, the last command under way  *)
(* is the one that the process variable shows                               *)
(* (facade-chopper-dornier.py:107-114, 292-322).                            *)
THEOREM SetPointsAgreeInTheEnd == Spec => []SetPointsAgree
<1>1. Init => AgreeInv
  <2> SUFFICES ASSUME Init PROVE AgreeInv
    OBVIOUS
  <2>1. TypeOK /\ NothingSentInVain
    BY TypeInitial DEF Init, NothingSentInVain
  <2>2. ASSUME NEW d \in Disc, NEW f \in Fields PROVE Agrees(d, f)
    <3>1. /\ writer[1] # "call" /\ CommandsFor(calls, <<d, f>>) = {}
          /\ CommandsFor(toDevice, <<d, f>>) = {}
      BY NoTarget DEF Init, Idle
    <3>2. device[d][f] = 0 /\ pv[d][f] = 0
      BY DEF Init, Fields
    <3>3. QED
      BY <3>1, <3>2 DEF Agrees, Called, Sent
  <2>3. QED
    BY <2>1, <2>2 DEF AgreeInv
<1>2. AgreeInv /\ [Next]_vars => AgreeInv'
  <2> SUFFICES ASSUME AgreeInv, [Next]_vars PROVE AgreeInv'
    OBVIOUS
  <2>1. TypeOK'
    BY TypeKept DEF AgreeInv
  <2>2. NothingSentInVain'
    <3>1. CASE LinkLost \/ RunCall \/ Answer \/ Obey
      BY <3>1 DEF LinkLost, RunCall, Answer, Obey, AgreeInv, NothingSentInVain, TypeOK
    <3>2. CASE ~(LinkLost \/ RunCall \/ Answer \/ Obey)
      <4>1. toDevice' = toDevice /\ (link' # "up" => link # "up")
        BY <3>2 DEF Next, Server, Reactor, Device, Write, SetParam, CallFromThread, WriteStart, Connect,
                    TimerFires, Receive, SwitchMode, vars, wires
      <4>2. QED
        BY <4>1 DEF AgreeInv, NothingSentInVain
    <3>3. QED
      BY <3>1, <3>2
  <2>3. QED
    BY <2>1, <2>2, AgreementKept DEF AgreeInv
<1>3. AgreeInv => SetPointsAgree
  <2> SUFFICES ASSUME AgreeInv, Settled, NEW d \in Disc, NEW f \in Fields, <<d, f>> \notin dropped
               PROVE  pv[d][f] = device[d][f]
    BY DEF SetPointsAgree
  <2>1. /\ writer[1] # "call" /\ CommandsFor(calls, <<d, f>>) = {}
        /\ CommandsFor(toDevice, <<d, f>>) = {}
    BY NoTarget DEF Settled, Idle
  <2>2. QED
    BY <2>1 DEF AgreeInv, Agrees, Called, Sent
<1>4. QED
  BY <1>1, <1>2, <1>3, PTL DEF Spec

-----------------------------------------------------------------------------
(* The chain of questions: a question that is in the timer, in the queue,   *)
(* on its way to the device or in a whole answer leads to the next one.     *)

Asking(commands) == \E i \in DOMAIN commands : commands[i] = Ask
Answering(pieces) == \E i \in DOMAIN pieces : DOMAIN pieces[i] = Disc
UnderWay == timers > 0 \/ Asking(calls) \/ Asking(toDevice) \/ Answering(fromDevice)

(* As long as no reply has been torn, a facade that is connected has just   *)
(* one question under way.                                                  *)
ChainHolds == link = "up" /\ ~torn => Questions = 1

(* No question is ever put again.                                           *)
SilenceLasts == link # "connecting" /\ Questions = 0 => Questions' = 0

ChainInv == TypeOK /\ (link = "up" /\ ~torn => UnderWay)

(* What is there is counted.                                                *)
LEMMA CountsTell ==
  ASSUME NEW S, NEW s \in Seq(S)
  PROVE  (Asking(s) => Asks(s) # 0) /\ (Answering(s) => Complete(s) # 0)
<1> DEFINE I == {i \in DOMAIN s : s[i] = Ask}
           J == {i \in DOMAIN s : DOMAIN s[i] = Disc}
<1>1. (Asking(s) => I # {}) /\ (Answering(s) => J # {})
  BY DEF Asking, Answering
<1>2. Len(s) \in Nat /\ I \in SUBSET (1 .. Len(s)) /\ J \in SUBSET (1 .. Len(s))
  OBVIOUS
<1> HIDE DEF I, J
<1>3. IsFiniteSet(I) /\ IsFiniteSet(J)
  BY <1>2, IndicesAreCounted
<1>4. (I # {} => Cardinality(I) # 0) /\ (J # {} => Cardinality(J) # 0)
  BY <1>3, FS_EmptySet
<1>5. QED
  BY <1>1, <1>4 DEF I, J, Asks, Complete

LEMMA UnderWayCounts ==
  ASSUME TypeOK, UnderWay
  PROVE  Questions >= 1
<1>1. /\ timers \in Nat /\ Asks(calls) \in Nat /\ Asks(toDevice) \in Nat
      /\ Complete(fromDevice) \in Nat
  BY QuestionsAreNatural
<1>2. \/ timers # 0 \/ Asks(calls) # 0 \/ Asks(toDevice) # 0 \/ Complete(fromDevice) # 0
  BY CountsTell DEF UnderWay, TypeOK
<1>3. QED
  BY <1>1, <1>2 DEF Questions

LEMMA AskingAppend ==
  ASSUME NEW S, NEW s \in Seq(S), NEW x, Asking(s) \/ x = Ask
  PROVE  Asking(Append(s, x))
<1> DEFINE t == Append(s, x)
<1>1. /\ DOMAIN t = 1 .. Len(s) + 1 /\ t[Len(s) + 1] = x /\ Len(s) \in Nat
      /\ \A i \in DOMAIN s : i \in DOMAIN t /\ t[i] = s[i]
  OBVIOUS
<1> HIDE DEF t
<1>2. Asking(t)
  BY <1>1 DEF Asking
<1>3. QED
  BY <1>2 DEF t

LEMMA AskingTail ==
  ASSUME NEW S, NEW s \in Seq(S), s # <<>>, Asking(s), Head(s) # Ask
  PROVE  Asking(Tail(s))
<1>1. PICK i \in DOMAIN s : s[i] = Ask
  BY DEF Asking
<1>2. i # 1 /\ i - 1 \in DOMAIN Tail(s) /\ Tail(s)[i - 1] = s[i]
  BY <1>1
<1>3. QED
  BY <1>1, <1>2 DEF Asking

LEMMA AnsweringTail ==
  ASSUME NEW S, NEW s \in Seq(S), s # <<>>, Answering(s), DOMAIN Head(s) # Disc
  PROVE  Answering(Tail(s))
<1>1. PICK i \in DOMAIN s : DOMAIN s[i] = Disc
  BY DEF Answering
<1>2. i # 1 /\ i - 1 \in DOMAIN Tail(s) /\ Tail(s)[i - 1] = s[i]
  BY <1>1
<1>3. QED
  BY <1>1, <1>2 DEF Answering

LEMMA AnsweringAppend ==
  ASSUME NEW S, NEW s \in Seq(S), NEW x, Answering(s) \/ DOMAIN x = Disc
  PROVE  Answering(Append(s, x))
<1> DEFINE t == Append(s, x)
<1>1. /\ DOMAIN t = 1 .. Len(s) + 1 /\ t[Len(s) + 1] = x /\ Len(s) \in Nat
      /\ \A i \in DOMAIN s : i \in DOMAIN t /\ t[i] = s[i]
  OBVIOUS
<1> HIDE DEF t
<1>2. Answering(t)
  BY <1>1 DEF Answering
<1>3. QED
  BY <1>2 DEF t

LEMMA QuestionGoesOn ==
  ASSUME TypeOK, [Next]_vars, link' = "up", ~torn', link = "up" => UnderWay
  PROVE  UnderWay'
<1> USE DEF wires, history
<1>1. /\ timers \in Nat
      /\ calls \in Seq(SetCommands \cup {Ask, StartAll})
      /\ toDevice \in Seq(SetCommands \cup {Ask, StartAll})
      /\ fromDevice \in Seq(Pieces)
  BY DEF TypeOK
<1>2. CASE Connect
  BY <1>1, <1>2 DEF Connect, UnderWay
<1>3. ASSUME ~Connect PROVE link = "up"
  BY <1>3 DEF Next, Server, Reactor, Device, Write, SetParam, CallFromThread, WriteStart,
              TimerFires, RunCall, Receive, LinkLost, Answer, Obey, SwitchMode, vars
<1>4. ASSUME link = "up", UNCHANGED <<timers, calls, wires>> PROVE UnderWay'
  BY <1>4 DEF UnderWay, Asking, Answering
<1>5. ASSUME link = "up", NEW c, Enqueue(c), UNCHANGED <<timers, wires>> PROVE UnderWay'
  BY <1>1, <1>5, AskingAppend DEF UnderWay, Enqueue, Asking, Answering
<1>6. CASE Server /\ link = "up"
  BY <1>4, <1>5, <1>6 DEF Server, Write, SetParam, CallFromThread, WriteStart
<1>7. CASE TimerFires
  <2>1. calls' = Append(calls, Ask)
    BY <1>7 DEF TimerFires, Enqueue
  <2>2. QED
    BY <1>1, <2>1, AskingAppend DEF UnderWay
<1>8. CASE RunCall /\ link = "up"
  <2>1. /\ calls # <<>> /\ calls' = Tail(calls) /\ UNCHANGED <<timers, fromDevice>>
        /\ toDevice' = Append(toDevice, Head(calls))
    BY <1>8 DEF RunCall
  <2>2. CASE Head(calls) = Ask
    BY <1>1, <2>1, <2>2, AskingAppend DEF UnderWay
  <2>3. CASE Asking(calls) /\ Head(calls) # Ask
    BY <1>1, <2>1, <2>3, AskingTail DEF UnderWay
  <2>4. CASE Asking(toDevice)
    BY <1>1, <2>1, <2>4, AskingAppend DEF UnderWay
  <2>5. CASE timers > 0 \/ Answering(fromDevice)
    BY <2>1, <2>5 DEF UnderWay, Answering
  <2>6. QED
    BY <1>8, <2>2, <2>3, <2>4, <2>5 DEF UnderWay
<1>9. CASE Receive
  <2>1. /\ fromDevice # <<>> /\ fromDevice' = Tail(fromDevice) /\ UNCHANGED <<calls, toDevice, link>>
        /\ timers' = IF DOMAIN Head(fromDevice) = Disc THEN timers + 1 ELSE timers
    BY <1>9 DEF Receive
  <2>2. CASE DOMAIN Head(fromDevice) = Disc
    BY <1>1, <2>1, <2>2 DEF UnderWay
  <2>3. CASE DOMAIN Head(fromDevice) # Disc /\ Answering(fromDevice)
    BY <1>1, <2>1, <2>3, AnsweringTail DEF UnderWay
  <2>4. CASE DOMAIN Head(fromDevice) # Disc /\ ~Answering(fromDevice)
    BY <2>1, <2>4 DEF UnderWay, Asking
  <2>5. QED
    BY <2>2, <2>3, <2>4
<1>10. CASE LinkLost
  BY <1>10 DEF LinkLost
<1>11. CASE Answer
  <2>1. fromDevice' = Append(fromDevice, Status(Disc))
    BY <1>11 DEF Answer
  <2>2. DOMAIN Status(Disc) = Disc
    BY StatusTyped
  <2>3. QED
    BY <1>1, <2>1, <2>2, AnsweringAppend DEF UnderWay
<1>12. CASE Obey
  <2>1. /\ toDevice # <<>> /\ Head(toDevice) # Ask /\ toDevice' = Tail(toDevice)
        /\ UNCHANGED <<timers, calls, fromDevice, link>>
    BY <1>12 DEF Obey
  <2>2. CASE Asking(toDevice)
    BY <1>1, <2>1, <2>2, AskingTail DEF UnderWay
  <2>3. CASE ~Asking(toDevice)
    BY <2>1, <2>3 DEF UnderWay, Asking, Answering
  <2>4. QED
    BY <2>2, <2>3
<1>13. CASE ((\E d \in Disc : SwitchMode(d)) \/ UNCHANGED vars) /\ link = "up"
  BY <1>4, <1>13 DEF SwitchMode, vars
<1>14. QED
  BY <1>2, <1>3, <1>6, <1>7, <1>8, <1>9, <1>10, <1>11, <1>12, <1>13
    DEF Next, Reactor, Device

(* Unless a reply is torn, the chain of status questions does not break     *)
(* while the connection is up, whatever is written, switched or delayed:    *)
(* the part of WholeRepliesKeepAsking that needs no fairness                *)
(* (facade-chopper-dornier.py:493-494, 510-512, 546-570, 606-610).          *)
THEOREM ChainDoesNotBreak == Spec => []ChainHolds
<1>1. Init => ChainInv
  BY TypeInitial DEF Init, ChainInv
<1>2. ChainInv /\ [Next]_vars => ChainInv'
  <2> SUFFICES ASSUME ChainInv, [Next]_vars PROVE ChainInv'
    OBVIOUS
  <2>1. TypeOK'
    BY TypeKept DEF ChainInv
  <2>2. ~torn' => ~torn
    BY DEF Next, Server, Reactor, Device, Write, SetParam, CallFromThread, WriteStart, Connect,
           TimerFires, RunCall, Receive, LinkLost, Answer, Obey, SwitchMode, vars, history
  <2>3. QED
    BY <2>1, <2>2, QuestionGoesOn DEF ChainInv
<1>3. ChainInv /\ OnePoll => ChainHolds
  <2> SUFFICES ASSUME ChainInv, OnePoll, link = "up", ~torn PROVE Questions = 1
    BY DEF ChainHolds
  <2>1. Questions >= 1 /\ Questions \in Nat
    BY UnderWayCounts, QuestionsAreNatural DEF ChainInv
  <2>2. Questions <= 1
    BY DEF OnePoll, Questions
  <2>3. QED
    BY <2>1, <2>2
<1>4. QED
  BY <1>1, <1>2, <1>3, OneQuestionAtATime, PTL DEF Spec

(* Once it is broken, by a torn reply or a lost connection, the device is   *)
(* not asked again: the facade shows what it knew then for ever             *)
(* (facade-chopper-dornier.py:514-516, 553-570).                            *)
THEOREM SilenceIsForGood == Spec => [][SilenceLasts]_vars
<1>1. TypeOK /\ TypeOK' /\ [Next]_vars => SilenceLasts
  <2> SUFFICES ASSUME TypeOK, TypeOK', [Next]_vars, link # "connecting", Questions = 0
               PROVE  Questions' = 0
    BY DEF SilenceLasts
  <2>1. Questions' <= Questions
    BY NoQuestionAdded DEF Connect
  <2>2. /\ Asks(calls') \in Nat /\ Asks(toDevice') \in Nat
        /\ Complete(fromDevice') \in Nat /\ timers' \in Nat
    BY NothingToCount DEF TypeOK
  <2>3. Questions' \in Nat
    BY <2>2 DEF Questions
  <2>4. QED
    BY <2>1, <2>3
<1>2. QED
  BY <1>1, TypeCorrect, PTL DEF Spec

-----------------------------------------------------------------------------
(* The way of a mode to the process variable State.                         *)

AllShow(pieces, d, mode) ==
  \A i \in DOMAIN pieces : DOMAIN pieces[i] = Disc => pieces[i][d] = mode

(* What is on its way says what the device is; the process variable does.   *)
Fresh(d) == AllShow(fromDevice, d, device[d].State)
Shown(d) == pv[d].State = device[d].State /\ Fresh(d)

(* As long as a disc stays in its mode, an answer leaves none on its way    *)
(* that says otherwise, the next whole one that is read puts the process    *)
(* variable right, and nothing undoes either.                               *)
ModeComesThrough ==
  \A d \in Disc :
    device'[d].State = device[d].State =>
      /\ Answer => Fresh(d)'
      /\ Fresh(d) => Fresh(d)'
      /\ Fresh(d) /\ Receive /\ DOMAIN Head(fromDevice) = Disc => Shown(d)'
      /\ Shown(d) => Shown(d)'

LEMMA ShowAppend ==
  ASSUME NEW S, NEW s \in Seq(S), NEW x, NEW d, NEW m,
         AllShow(s, d, m), DOMAIN x = Disc => x[d] = m
  PROVE  AllShow(Append(s, x), d, m)
<1> DEFINE t == Append(s, x)
<1>1. /\ Len(s) \in Nat /\ DOMAIN s = 1 .. Len(s) /\ DOMAIN t = 1 .. Len(s) + 1
      /\ \A i \in 1 .. Len(s) : t[i] = s[i]
      /\ t[Len(s) + 1] = x
  OBVIOUS
<1> HIDE DEF t
<1>2. AllShow(t, d, m)
  BY <1>1 DEF AllShow
<1>3. QED
  BY <1>2 DEF t

LEMMA ShowTail ==
  ASSUME NEW S, NEW s \in Seq(S), s # <<>>, NEW d, NEW m, AllShow(s, d, m)
  PROVE  /\ AllShow(Tail(s), d, m)
         /\ DOMAIN Head(s) = Disc => Head(s)[d] = m
<1> DEFINE t == Tail(s)
<1>1. /\ Len(s) \in Nat \ {0} /\ DOMAIN s = 1 .. Len(s) /\ DOMAIN t = 1 .. Len(s) - 1
      /\ \A i \in 1 .. Len(s) - 1 : t[i] = s[i + 1]
      /\ Head(s) = s[1]
  OBVIOUS
<1> HIDE DEF t
<1>2. AllShow(t, d, m) /\ (DOMAIN Head(s) = Disc => Head(s)[d] = m)
  BY <1>1 DEF AllShow
<1>3. QED
  BY <1>2 DEF t

(* No whole answer is on its way when the device is about to give one.      *)
LEMMA NoneToAnswer ==
  ASSUME TypeOK, OnePoll, Answer
  PROVE  ~Answering(fromDevice)
<1>1. toDevice # <<>> /\ Head(toDevice) = Ask /\ Asking(toDevice)
  BY DEF Answer, Asking, TypeOK
<1>2. /\ timers \in Nat /\ Asks(calls) \in Nat /\ Asks(toDevice) \in Nat
      /\ Complete(fromDevice) \in Nat
  BY QuestionsAreNatural
<1>3. Asks(toDevice) # 0
  BY <1>1, CountsTell DEF TypeOK
<1>4. Complete(fromDevice) = 0
  BY <1>2, <1>3 DEF OnePoll
<1>5. QED
  BY <1>4, CountsTell DEF TypeOK

(* A mode the device stays in reaches the process variable with the next    *)
(* whole answer and is not taken back by one that is older, as none is ever *)
(* under way with it: the safety part of ModesAreShown                      *)
(* (facade-chopper-dornier.py:546-570).                                     *)
THEOREM ModesComeThrough == Spec => [][ModeComesThrough]_vars
<1>1. TypeOK /\ OnePoll /\ [Next]_vars => [ModeComesThrough]_vars
  <2> SUFFICES ASSUME TypeOK, OnePoll, Next, NEW d \in Disc,
                      device'[d].State = device[d].State
               PROVE  /\ Answer => Fresh(d)'
                      /\ Fresh(d) => Fresh(d)'
                      /\ Fresh(d) /\ Receive /\ DOMAIN Head(fromDevice) = Disc => Shown(d)'
                      /\ Shown(d) => Shown(d)'
    BY DEF ModeComesThrough
  <2> DEFINE m == device[d].State
  <2>0. fromDevice \in Seq(Pieces) /\ pv \in [Disc -> Settings]
    BY DEF TypeOK
  <2>1. CASE Answer
    <3>1. AllShow(fromDevice, d, m) /\ UNCHANGED pv
      BY <2>1, NoneToAnswer DEF AllShow, Answering, Answer
    <3>2. Fresh(d)'
      <4>1. CASE fromDevice' = Append(fromDevice, Status(Disc))
        <5>1. Status(Disc)[d] = m
          BY DEF Status
        <5>2. AllShow(Append(fromDevice, Status(Disc)), d, m)
          BY <2>0, <3>1, <5>1, ShowAppend
        <5>3. QED
          BY <4>1, <5>2 DEF Fresh
      <4>2. ASSUME NEW ds \in (SUBSET Disc) \ {Disc}, NEW es \in (SUBSET Disc) \ {Disc},
                   fromDevice' = fromDevice \o <<Status(ds), Status(es)>>
            PROVE  Fresh(d)'
        <5>1. DOMAIN Status(ds) # Disc /\ DOMAIN Status(es) # Disc
          BY <4>2, StatusTyped
        <5>2. Status(ds) \in Pieces
          BY <4>2, StatusTyped
        <5>3. fromDevice' = Append(Append(fromDevice, Status(ds)), Status(es))
          BY <2>0, <4>2
        <5>4. AllShow(Append(fromDevice, Status(ds)), d, m)
          BY <2>0, <3>1, <5>1, ShowAppend
        <5>5. Append(fromDevice, Status(ds)) \in Seq(Pieces)
          BY <2>0, <5>2
        <5>6. AllShow(fromDevice', d, m)
          BY <5>1, <5>3, <5>4, <5>5, ShowAppend
        <5>7. QED
          BY <5>6 DEF Fresh
      <4>3. QED
        BY <2>1, <4>1, <4>2 DEF Answer
    <3>3. ~Receive
      BY <2>1, <3>1 DEF Answer, Receive
    <3>4. QED
      BY <3>1, <3>2, <3>3 DEF Shown
  <2>2. CASE Receive
    <3>1. /\ fromDevice # <<>> /\ fromDevice' = Tail(fromDevice)
          /\ UNCHANGED device
      BY <2>2 DEF Receive
    <3>2. ~Answer
      BY <2>2 DEF Answer, Receive
    <3>3. Fresh(d) => /\ Fresh(d)'
                      /\ DOMAIN Head(fromDevice) = Disc => Head(fromDevice)[d] = m
      BY <2>0, <3>1, ShowTail DEF Fresh
    <3>4. CASE DOMAIN Head(fromDevice) = Disc
      <4>1. pv'[d].State = Head(fromDevice)[d]
        BY <2>0, <2>2, <3>4 DEF Receive, Taken, Settings
      <4>2. QED
        BY <3>1, <3>2, <3>3, <3>4, <4>1 DEF Shown
    <3>5. CASE DOMAIN Head(fromDevice) # Disc
      <4>1. pv' = pv
        BY <2>2, <3>5 DEF Receive
      <4>2. QED
        BY <3>2, <3>3, <3>5, <4>1 DEF Shown
    <3>6. QED
      BY <3>4, <3>5
  <2>3. CASE ~Answer /\ ~Receive
    <3>1. fromDevice' = fromDevice \/ fromDevice' = <<>>
      BY <2>3 DEF Next, Server, Reactor, Device, Write, SetParam, CallFromThread, WriteStart,
                  Connect, TimerFires, RunCall, LinkLost, Obey, SwitchMode, wires
    <3>2. AllShow(<<>>, d, m)
      BY DEF AllShow
    <3>3. Fresh(d) => Fresh(d)'
      BY <3>1, <3>2 DEF Fresh
    <3>4. pv'[d].State = pv[d].State
      <4>1. CASE SetParam
        <5>1. PICK c \in SetCommands : writer = <<"set", c>>
          BY <4>1 DEF TypeOK, WriterStates, SetParam, Idle
        <5>2. c[1] \in Fields
          BY <5>1 DEF SetCommands
        <5>3. pv' = [pv EXCEPT ![c[2]][c[1]] = c[3]]
          BY <4>1, <5>1 DEF SetParam
        <5>4. QED
          BY <2>0, <5>2, <5>3 DEF Settings, Fields
      <4>2. CASE ~SetParam
        BY <2>3, <4>2 DEF Next, Server, Reactor, Device, Write, CallFromThread, WriteStart,
                  Connect, TimerFires, RunCall, LinkLost, Obey, SwitchMode
      <4>3. QED
        BY <4>1, <4>2
    <3>5. QED
      BY <2>3, <3>3, <3>4 DEF Shown
  <2>4. QED
    BY <2>1, <2>2, <2>3
<1>2. QED
  BY <1>1, TypeCorrect, OneQuestionAtATime, PTL DEF Spec
-----------------------------------------------------------------------------
(* The way of a question.                                                   *)

(* What is s[i] stays where it is, or comes nearer by one.                  *)
Stays(s, t, i) == i \in DOMAIN t /\ t[i] = s[i]
ComesNearer(s, t, i) == i - 1 \in DOMAIN t /\ t[i - 1] = s[i]

(* In the queue and on the wire, to the device and back, a question waits   *)
(* only for what was before it.                                             *)
QueueMovesOn ==
  \A i \in DOMAIN calls : calls[i] = Ask =>
    IF ~RunCall THEN Stays(calls, calls', i)
    ELSE IF i = 1 THEN toDevice' = Append(toDevice, Ask)
    ELSE ComesNearer(calls, calls', i)

WireMovesOn ==
  \A i \in DOMAIN toDevice : toDevice[i] = Ask =>
    IF ~(Answer \/ Obey) THEN Stays(toDevice, toDevice', i)
    ELSE IF i = 1 THEN Answer
    ELSE ComesNearer(toDevice, toDevice', i)

RepliesMoveOn ==
  \A i \in DOMAIN fromDevice : DOMAIN fromDevice[i] = Disc =>
    IF ~Receive THEN Stays(fromDevice, fromDevice', i)
    ELSE IF i = 1 THEN timers' = timers + 1
    ELSE ComesNearer(fromDevice, fromDevice', i)

TheQuestionMovesOn ==
  link = "up" /\ link' = "up" => QueueMovesOn /\ WireMovesOn /\ RepliesMoveOn

LEMMA AppendStays ==
  ASSUME NEW S, NEW s \in Seq(S), NEW x, NEW i \in DOMAIN s
  PROVE  Stays(s, Append(s, x), i)
  BY DEF Stays

LEMMA TailNearer ==
  ASSUME NEW S, NEW s \in Seq(S), s # <<>>, NEW i \in DOMAIN s, i # 1
  PROVE  ComesNearer(s, Tail(s), i)
  BY DEF ComesNearer

LEMMA QueueGoesOn ==
  ASSUME TypeOK, [Next]_vars, link = "up"
  PROVE  QueueMovesOn
<1> SUFFICES ASSUME NEW i \in DOMAIN calls, calls[i] = Ask
             PROVE  IF ~RunCall THEN Stays(calls, calls', i)
                    ELSE IF i = 1 THEN toDevice' = Append(toDevice, Ask)
                    ELSE ComesNearer(calls, calls', i)
  BY DEF QueueMovesOn
<1>1. calls \in Seq(SetCommands \cup {Ask, StartAll})
  BY DEF TypeOK
<1>2. CASE RunCall
  <2>1. /\ calls # <<>> /\ calls' = Tail(calls)
        /\ toDevice' = Append(toDevice, Head(calls))
    BY <1>2 DEF RunCall
  <2>2. Head(calls) = calls[1]
    BY <1>1, <2>1
  <2>3. i # 1 => ComesNearer(calls, calls', i)
    BY <1>1, <2>1, TailNearer
  <2>4. QED
    BY <1>2, <2>1, <2>2, <2>3
<1>3. CASE ~RunCall
  <2>1. calls' = calls \/ \E x : calls' = Append(calls, x)
    BY <1>3 DEF Next, Server, Reactor, Device, Write, SetParam, CallFromThread, WriteStart,
                Enqueue, Connect, TimerFires, Receive, LinkLost, Answer, Obey, SwitchMode, vars
  <2>2. Stays(calls, calls, i)
    BY DEF Stays
  <2>3. QED
    BY <1>1, <1>3, <2>1, <2>2, AppendStays
<1>4. QED
  BY <1>2, <1>3

LEMMA WireGoesOn ==
  ASSUME TypeOK, [Next]_vars, link' = "up"
  PROVE  WireMovesOn
<1> SUFFICES ASSUME NEW i \in DOMAIN toDevice, toDevice[i] = Ask
             PROVE  IF ~(Answer \/ Obey) THEN Stays(toDevice, toDevice', i)
                    ELSE IF i = 1 THEN Answer
                    ELSE ComesNearer(toDevice, toDevice', i)
  BY DEF WireMovesOn
<1>1. toDevice \in Seq(SetCommands \cup {Ask, StartAll})
  BY DEF TypeOK
<1>2. CASE Answer \/ Obey
  <2>1. toDevice # <<>> /\ toDevice' = Tail(toDevice) /\ (Obey => Head(toDevice) # Ask)
    BY <1>2 DEF Answer, Obey
  <2>2. Head(toDevice) = toDevice[1]
    BY <1>1, <2>1
  <2>3. i # 1 => ComesNearer(toDevice, toDevice', i)
    BY <1>1, <2>1, TailNearer
  <2>4. QED
    BY <1>2, <2>1, <2>2, <2>3
<1>3. CASE ~(Answer \/ Obey)
  <2>1. toDevice' = toDevice \/ \E x : toDevice' = Append(toDevice, x)
    BY <1>3 DEF Next, Server, Reactor, Device, Write, SetParam, CallFromThread, WriteStart,
                Connect, TimerFires, RunCall, Receive, LinkLost, SwitchMode, vars, wires
  <2>2. Stays(toDevice, toDevice, i)
    BY DEF Stays
  <2>3. QED
    BY <1>1, <1>3, <2>1, <2>2, AppendStays
<1>4. QED
  BY <1>2, <1>3

LEMMA RepliesGoOn ==
  ASSUME TypeOK, [Next]_vars, link' = "up"
  PROVE  RepliesMoveOn
<1> SUFFICES ASSUME NEW i \in DOMAIN fromDevice, DOMAIN fromDevice[i] = Disc
             PROVE  IF ~Receive THEN Stays(fromDevice, fromDevice', i)
                    ELSE IF i = 1 THEN timers' = timers + 1
                    ELSE ComesNearer(fromDevice, fromDevice', i)
  BY DEF RepliesMoveOn
<1>1. fromDevice \in Seq(Pieces)
  BY DEF TypeOK
<1>2. CASE Receive
  <2>1. /\ fromDevice # <<>> /\ fromDevice' = Tail(fromDevice)
        /\ DOMAIN Head(fromDevice) = Disc => timers' = timers + 1
    BY <1>2 DEF Receive
  <2>2. Head(fromDevice) = fromDevice[1]
    BY <1>1, <2>1
  <2>3. i # 1 => ComesNearer(fromDevice, fromDevice', i)
    BY <1>1, <2>1, TailNearer
  <2>4. QED
    BY <1>2, <2>1, <2>2, <2>3
<1>3. CASE ~Receive
  <2>1. \/ fromDevice' = fromDevice
        \/ fromDevice' = Append(fromDevice, Status(Disc))
        \/ \E ds, es \in SUBSET Disc : fromDevice' = fromDevice \o <<Status(ds), Status(es)>>
    BY <1>3 DEF Next, Server, Reactor, Device, Write, SetParam, CallFromThread, WriteStart,
                Connect, TimerFires, RunCall, LinkLost, Answer, Obey, SwitchMode, vars, wires
  <2>2. Stays(fromDevice, fromDevice, i)
    BY DEF Stays
  <2>3. ASSUME NEW ds \in SUBSET Disc, NEW es \in SUBSET Disc
        PROVE  Stays(fromDevice, fromDevice \o <<Status(ds), Status(es)>>, i)
    BY <1>1 DEF Stays
  <2>4. QED
    BY <1>1, <1>3, <2>1, <2>2, <2>3, AppendStays
<1>4. QED
  BY <1>2, <1>3

(* While the connection holds nothing gets ahead of a question, however     *)
(* much is written: in the reactor's queue, on the wire and in the whole    *)
(* answers each step of the reactor or the device brings it nearer by one,  *)
(* until it is sent, is answered, and its answer starts the next timer. It  *)
(* is the safety part of WholeRepliesKeepAsking and ModesAreShown, with the *)
(* scheduling left to fairness (facade-chopper-dornier.py:101-114, 546-568, *)
(* 606-610).                                                                *)
THEOREM QuestionsAreNotOvertaken == Spec => [][TheQuestionMovesOn]_vars
<1>1. TypeOK /\ [Next]_vars => [TheQuestionMovesOn]_vars
  BY QueueGoesOn, WireGoesOn, RepliesGoOn DEF TheQuestionMovesOn
<1>2. QED
  BY <1>1, TypeCorrect, PTL DEF Spec

=============================================================================

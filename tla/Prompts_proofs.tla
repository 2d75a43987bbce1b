----------------------------- MODULE Prompts_proofs -----------------------------
(***************************************************************************)
(* Theorems about the words of the owner on their way to a provider.       *)
(*                                                                         *)
(* Injection, for any set of follow-ups: the provider reads them in the    *)
(* order they were sent (ReadInOrder), and when the slot is released every *)
(* accepted one was read, handed back or dropped with the channel          *)
(* (AcceptedIsAccounted).                                                  *)
(*                                                                         *)
(* PromptQueue, for any number of prompts, runs, retries and incidents:    *)
(* its types, and that a prompt is never in two of the six places the      *)
(* window, the calls, the events and the backend have for it.  A step      *)
(* either brings it to no new place (AllKept) or takes it out of the one   *)
(* place it was in; each action has a lemma that says which (...Sole).     *)
(***************************************************************************)
EXTENDS Injection, PromptQueue, FiniteSetTheorems, TLAPS

-----------------------------------------------------------------------------
\* Injection.


\* The elements of a sequence over S are in S.
LEMMA ElementsType == ASSUME NEW S, NEW s \in Seq(S) PROVE Elements(s) \subseteq S
  BY DEF Elements

\* Appending a member of S keeps a sequence over S one.
LEMMA AppendType ==
  ASSUME NEW S, NEW s \in Seq(S), NEW e \in S PROVE Append(s, e) \in Seq(S)
  OBVIOUS

\* Every step keeps the variables of Injection in their types.
LEMMA TypeStep == TypeOK /\ [Next]_vars => TypeOK'
<1> SUFFICES ASSUME TypeOK, [Next]_vars PROVE TypeOK'
  OBVIOUS
<1> USE DEF TypeOK, Loops
<1>1. ASSUME NEW m \in Messages, Route(m) PROVE TypeOK'
  BY <1>1 DEF Route, delivery, facts
<1>2. ASSUME NEW m \in Messages, Send(m) PROVE TypeOK'
  <2>1. call' \in [Messages -> {"idle", "routed", "done"}]
    BY <1>2 DEF Send
  <2>2. CASE Open
    <3>1. sent' = Append(sent, m) /\ inbox' = Append(inbox, m) /\ handedBack' = handedBack
      BY <1>2, <2>2 DEF Send
    <3>2. sent' \in Seq(Messages) /\ inbox' \in Seq(Messages)
      BY <3>1
    <3>3. QED
      BY <1>2, <2>1, <3>1, <3>2 DEF Send, facts
  <2>4. CASE ~Open
    <3>1. sent' = sent /\ inbox' = inbox /\ handedBack' = handedBack \cup {m}
      BY <1>2, <2>4 DEF Send
    <3>2. QED
      BY <1>2, <2>1, <3>1 DEF Send, facts
  <2>3. QED
    BY <2>2, <2>4
<1>3. CASE RemoveEntry \/ ThrowStop
  BY <1>3 DEF RemoveEntry, ThrowStop, inputs, delivery, facts
<1>4. CASE Start \/ Ask \/ Answered \/ GiveUp
  BY <1>4 DEF Start, Ask, Answered, GiveUp, Goto, inputs, delivery, facts
<1>5. CASE StartFails \/ CloseInputs
  <2>1. inbox' \in Seq(Messages) /\ dropped' \in SUBSET Messages
    <3>1. inbox' = <<>> /\ dropped' = dropped \cup Elements(inbox)
      BY <1>5 DEF StartFails, CloseInputs, DropReceiver
    <3>2. Elements(inbox) \subseteq Messages
      BY ElementsType
    <3>3. inbox' \in Seq(Messages)
      BY <3>1
    <3>4. QED
      BY <3>1, <3>2, <3>3
  <2>2. QED
    BY <1>5, <2>1 DEF StartFails, CloseInputs, Goto, delivery, facts
<1>6. CASE Accept
  BY <1>6 DEF Accept, facts
<1>7. CASE LeaveLoop \/ Settle \/ Release
  BY <1>7 DEF LeaveLoop, Settle, Release, Goto, inputs, delivery, facts
<1>8. CASE Take
  BY <1>8 DEF Take, inputs, facts
<1>9. CASE Deliver
  BY <1>9 DEF Deliver, inputs, facts
<1>10. CASE DeliverFails
  <2>1. worker \in Messages /\ worker' = None /\ handedBack' \in SUBSET Messages
    BY <1>10, NoneAssumption DEF DeliverFails
  <2>2. read' = read \/ read' = Append(read, worker)
    BY <1>10 DEF DeliverFails
  <2>3. read \in Seq(Messages)
    OBVIOUS
  <2>4. Append(read, worker) \in Seq(Messages)
    BY <2>1, <2>3, AppendType
  <2>5. read' \in Seq(Messages)
    BY <2>2, <2>3, <2>4
  <2>6. QED
    BY <1>10, <2>1, <2>5 DEF DeliverFails, inputs
<1>11. CASE ProviderEnds \/ UNCHANGED vars
  BY <1>11 DEF ProviderEnds, vars, inputs, delivery, facts
<1>12. QED
  BY <1>1, <1>2, <1>3, <1>4, <1>5, <1>6, <1>7, <1>8, <1>9, <1>10, <1>11
  DEF Next, DriverTail, Worker

\* The variables of Injection keep their types.
THEOREM TypeCorrect == Spec => []TypeOK
<1>1. ASSUME Init PROVE TypeOK
  <2>1. /\ sent \in Seq(Messages) /\ inbox \in Seq(Messages)
        /\ outbox \in Seq(Messages) /\ read \in Seq(Messages)
    BY <1>1 DEF Init
  <2>2. handedBack \in SUBSET Messages /\ dropped \in SUBSET Messages
    BY <1>1 DEF Init
  <2>3. call \in [Messages -> {"idle", "routed", "done"}]
    BY <1>1 DEF Init
  <2>4. QED
    BY <1>1, <2>1, <2>2, <2>3 DEF Init, TypeOK, Loops
<1>2. QED
  BY <1>1, TypeStep, PTL DEF Spec

------------------------------------------------------------------------------
\* What an Append and a Tail do to the elements of a sequence and to their order.
LEMMA AppendElements ==
  ASSUME NEW S, NEW s \in Seq(S), NEW x \in S
  PROVE  Elements(Append(s, x)) = Elements(s) \cup {x}
<1>1. /\ Len(Append(s, x)) = Len(s) + 1 /\ Append(s, x)[Len(s) + 1] = x
      /\ \A i \in 1 .. Len(s) : Append(s, x)[i] = s[i]
  OBVIOUS
<1>2. ASSUME NEW i \in 1 .. Len(Append(s, x)) PROVE Append(s, x)[i] \in Elements(s) \cup {x}
  <2>1. CASE i = Len(s) + 1
    BY <1>1, <2>1
  <2>2. CASE i # Len(s) + 1
    <3>1. i \in 1 .. Len(s)
      BY <1>1, <2>2
    <3>2. QED
      BY <1>1, <3>1 DEF Elements
  <2>3. QED
    BY <2>1, <2>2
<1>3. ASSUME NEW i \in 1 .. Len(s) PROVE s[i] \in Elements(Append(s, x))
  BY <1>1 DEF Elements
<1>4. x \in Elements(Append(s, x))
  <2>1. Len(s) + 1 \in 1 .. Len(Append(s, x))
    BY <1>1
  <2>2. QED
    BY <1>1, <2>1 DEF Elements
<1>5. QED
  BY <1>2, <1>3, <1>4 DEF Elements

\* An Append puts its element behind every other one and changes no other order.
LEMMA AppendOrder ==
  ASSUME NEW S, NEW s \in Seq(S), NEW x \in S, NEW m, NEW n
  PROVE  /\ Before(m, n, s) => Before(m, n, Append(s, x))
         /\ m \in Elements(s) => Before(m, x, Append(s, x))
         /\ Before(m, n, Append(s, x)) => Before(m, n, s) \/ (m \in Elements(s) /\ n = x)
<1>1. /\ Len(Append(s, x)) = Len(s) + 1 /\ Append(s, x)[Len(s) + 1] = x
      /\ \A i \in 1 .. Len(s) : Append(s, x)[i] = s[i]
  OBVIOUS
<1>2. Before(m, n, s) => Before(m, n, Append(s, x))
  <2> SUFFICES ASSUME NEW i \in 1 .. Len(s), NEW j \in 1 .. Len(s), i < j, s[i] = m, s[j] = n
               PROVE  Before(m, n, Append(s, x))
    BY DEF Before
  <2>1. i \in 1 .. Len(Append(s, x)) /\ j \in 1 .. Len(Append(s, x))
    BY <1>1
  <2>2. QED
    BY <1>1, <2>1 DEF Before
<1>3. m \in Elements(s) => Before(m, x, Append(s, x))
  <2> SUFFICES ASSUME NEW i \in 1 .. Len(s), s[i] = m PROVE Before(m, x, Append(s, x))
    BY DEF Elements
  <2>1. i \in 1 .. Len(Append(s, x)) /\ Len(s) + 1 \in 1 .. Len(Append(s, x)) /\ i < Len(s) + 1
    BY <1>1
  <2>2. QED
    BY <1>1, <2>1 DEF Before
<1>4. Before(m, n, Append(s, x)) => Before(m, n, s) \/ (m \in Elements(s) /\ n = x)
  <2> SUFFICES ASSUME NEW i \in 1 .. Len(s) + 1, NEW j \in 1 .. Len(s) + 1, i < j,
                      Append(s, x)[i] = m, Append(s, x)[j] = n
               PROVE  Before(m, n, s) \/ (m \in Elements(s) /\ n = x)
    BY <1>1 DEF Before
  <2>1. i \in 1 .. Len(s)
    OBVIOUS
  <2>2. m \in Elements(s) /\ s[i] = m
    BY <1>1, <2>1 DEF Elements
  <2>3. CASE j = Len(s) + 1
    BY <1>1, <2>2, <2>3
  <2>4. CASE j # Len(s) + 1
    <3>1. j \in 1 .. Len(s)
      BY <2>4
    <3>2. s[j] = n
      BY <1>1, <3>1
    <3>3. QED
      BY <2>1, <2>2, <3>1, <3>2 DEF Before
  <2>5. QED
    BY <2>3, <2>4
<1>5. QED
  BY <1>2, <1>3, <1>4

\* A Tail takes the first element away and changes no other order.
LEMMA TailOrder ==
  ASSUME NEW S, NEW s \in Seq(S), s # <<>>, NEW m, NEW n
  PROVE  /\ Elements(s) = {Head(s)} \cup Elements(Tail(s))
         /\ Before(m, n, Tail(s)) => Before(m, n, s)
         /\ n \in Elements(Tail(s)) => Before(Head(s), n, s)
<1>1. /\ Len(Tail(s)) = Len(s) - 1 /\ Len(s) \in Nat \ {0} /\ Head(s) = s[1]
      /\ \A i \in 1 .. Len(s) - 1 : Tail(s)[i] = s[i + 1]
  OBVIOUS
<1>2. ASSUME NEW i \in 1 .. Len(s) PROVE s[i] \in {Head(s)} \cup Elements(Tail(s))
  <2>1. CASE i = 1
    BY <1>1, <2>1
  <2>2. CASE i # 1
    <3>1. i - 1 \in 1 .. Len(Tail(s)) /\ (i - 1) + 1 = i
      BY <1>1, <2>2
    <3>2. Tail(s)[i - 1] = s[i]
      BY <1>1, <3>1
    <3>3. QED
      BY <3>1, <3>2 DEF Elements
  <2>3. QED
    BY <2>1, <2>2
<1>3. ASSUME NEW i \in 1 .. Len(Tail(s))
      PROVE  /\ Tail(s)[i] = s[i + 1] /\ i + 1 \in 1 .. Len(s) /\ 1 \in 1 .. Len(s) /\ 1 < i + 1
  BY <1>1
<1>4. Elements(s) = {Head(s)} \cup Elements(Tail(s))
  <2>1. 1 \in 1 .. Len(s)
    BY <1>1
  <2>2. QED
    BY <1>1, <1>2, <1>3, <2>1 DEF Elements
<1>5. Before(m, n, Tail(s)) => Before(m, n, s)
  <2> SUFFICES ASSUME NEW i \in 1 .. Len(Tail(s)), NEW j \in 1 .. Len(Tail(s)), i < j,
                      Tail(s)[i] = m, Tail(s)[j] = n
               PROVE  Before(m, n, s)
    BY DEF Before
  <2>1. i + 1 < j + 1
    BY <1>1
  <2>2. QED
    BY <1>3, <2>1 DEF Before
<1>6. n \in Elements(Tail(s)) => Before(Head(s), n, s)
  BY <1>1, <1>3 DEF Elements, Before
<1>7. QED
  BY <1>4, <1>5, <1>6
------------------------------------------------------------------------------
\* Where the accepted messages are, and that a closed channel is empty: the
\* inductive invariant behind AcceptedIsAccounted.
Travelling == Elements(inbox) \cup Elements(outbox) \cup {worker}
Accounted ==
  /\ Elements(sent) \subseteq Travelling \cup Elements(read) \cup handedBack \cup dropped
  /\ loop = "starting" => outbox = <<>> /\ worker = None
  /\ loop \in {"closed", "settled", "released"} => inbox = <<>>
  /\ loop \in {"settled", "released"} => outbox = <<>> /\ worker = None

\* Nothing sent is forgotten by a step.
LEMMA AccountedStep == TypeOK /\ Accounted /\ [Next]_vars => Accounted'
<1> SUFFICES ASSUME TypeOK, Accounted, [Next]_vars PROVE Accounted'
  OBVIOUS
<1> USE DEF Accounted, Travelling
<1>0. Elements(<<>>) = {}
  BY DEF Elements
<1>1. ASSUME NEW m \in Messages, Route(m) PROVE Accounted'
  BY <1>1 DEF Route, delivery
<1>2. ASSUME NEW m \in Messages, Send(m) PROVE Accounted'
  <2>1. CASE Open
    <3>1. sent' = Append(sent, m) /\ inbox' = Append(inbox, m) /\ handedBack' = handedBack
      BY <1>2, <2>1 DEF Send
    <3>2. Elements(sent') = Elements(sent) \cup {m} /\ Elements(inbox') = Elements(inbox) \cup {m}
      BY <3>1, AppendElements DEF TypeOK
    <3>3. QED
      BY <1>2, <2>1, <3>1, <3>2 DEF Send, Open
  <2>2. CASE ~Open
    BY <1>2, <2>2 DEF Send
  <2>3. QED
    BY <2>1, <2>2
<1>3. CASE RemoveEntry \/ ThrowStop \/ ProviderEnds \/ UNCHANGED vars
  BY <1>3 DEF RemoveEntry, ThrowStop, ProviderEnds, vars, inputs, delivery
<1>4. CASE Start \/ Ask \/ Answered \/ GiveUp \/ LeaveLoop
  BY <1>4 DEF Start, Ask, Answered, GiveUp, LeaveLoop, Goto, inputs, delivery
<1>5. CASE StartFails \/ CloseInputs
  <2>1. inbox' = <<>> /\ dropped' = dropped \cup Elements(inbox) /\ UNCHANGED <<sent, delivery>>
    BY <1>5 DEF StartFails, CloseInputs, DropReceiver
  <2>2. Elements(sent') \subseteq (Travelling \cup Elements(read) \cup handedBack \cup dropped)'
    BY <2>1, <1>0 DEF delivery
  <2>3. QED
    BY <1>5, <2>1, <2>2 DEF StartFails, CloseInputs, Goto, delivery
<1>6. CASE Settle \/ Release
  BY <1>6 DEF Settle, Release, Goto, inputs, delivery
<1>7. CASE Accept
  <2>1. inbox # <<>> /\ inbox' = Tail(inbox) /\ outbox' = Append(outbox, Head(inbox))
        /\ UNCHANGED <<sent, dropped, worker, read, handedBack, loop>>
        /\ loop \in {"live", "asking"}
    BY <1>7 DEF Accept
  <2>2. Elements(inbox) = {Head(inbox)} \cup Elements(Tail(inbox))
    BY <2>1, TailOrder DEF TypeOK
  <2>3. Head(inbox) \in Messages
    BY <2>1 DEF TypeOK
  <2>4. Elements(outbox') = Elements(outbox) \cup {Head(inbox)}
    BY <2>1, <2>3, AppendElements DEF TypeOK
  <2>5. QED
    BY <2>1, <2>2, <2>4
<1>8. CASE Take
  <2>1. outbox # <<>> /\ outbox' = Tail(outbox) /\ worker' = Head(outbox) /\ worker = None
        /\ UNCHANGED <<sent, inbox, dropped, read, handedBack, loop>>
    BY <1>8 DEF Take, inputs
  <2>2. Elements(outbox) = {Head(outbox)} \cup Elements(Tail(outbox))
    BY <2>1, TailOrder DEF TypeOK
  <2>3. Elements(sent) \subseteq Messages
    BY ElementsType DEF TypeOK
  <2>4. QED
    BY <2>1, <2>2, <2>3, NoneAssumption
<1>9. CASE Deliver \/ DeliverFails
  <2>1. worker # None /\ worker \in Messages /\ worker' = None
        /\ UNCHANGED <<sent, inbox, outbox, dropped, loop>>
    BY <1>9 DEF Deliver, DeliverFails, inputs, TypeOK
  <2>2. Elements(Append(read, worker)) = Elements(read) \cup {worker}
    BY <2>1, AppendElements DEF TypeOK
  <2>3. Elements(read) \subseteq Elements(read') /\ handedBack \subseteq handedBack'
        /\ worker \in Elements(read') \cup handedBack'
    BY <1>9, <2>2 DEF Deliver, DeliverFails
  <2>4. QED
    BY <2>1, <2>3
<1>10. QED
  BY <1>1, <1>2, <1>3, <1>4, <1>5, <1>6, <1>7, <1>8, <1>9 DEF Next, DriverTail, Worker

\* AcceptedIsAccounted, for any set of follow-ups: by the time the slot is
\* released each of them was read, handed back, or dropped with the channel.
THEOREM AcceptedIsAccountedHolds == Spec => []AcceptedIsAccounted
<1>1. ASSUME Init PROVE Accounted
  <2>1. Elements(<<>>) = {}
    BY DEF Elements
  <2>2. QED
    BY <1>1, <2>1 DEF Init, Accounted, Travelling
<1>2. TypeOK /\ Accounted => AcceptedIsAccounted
  <2> SUFFICES ASSUME TypeOK, Accounted, loop \in {"settled", "released"}
               PROVE  Elements(sent) \subseteq Elements(read) \cup handedBack \cup dropped
    BY DEF AcceptedIsAccounted
  <2>1. Travelling = {None}
    BY DEF Accounted, Travelling, Elements
  <2>2. Elements(sent) \subseteq Messages
    BY ElementsType DEF TypeOK
  <2>3. QED
    BY <2>1, <2>2, NoneAssumption DEF Accounted
<1>3. QED
  BY <1>1, <1>2, AccountedStep, TypeCorrect, PTL DEF Spec

------------------------------------------------------------------------------
\* The two channels, the worker and the provider as one line: whoever is ahead in
\* it was sent before.
Ahead(m, n) ==
  \/ Before(m, n, read) \/ Before(m, n, outbox) \/ Before(m, n, inbox)
  \/ m \in Elements(read) /\ n \in {worker} \cup Elements(outbox) \cup Elements(inbox)
  \/ m = worker /\ n \in Elements(outbox) \cup Elements(inbox)
  \/ m \in Elements(outbox) /\ n \in Elements(inbox)
OrderInv ==
  /\ (Elements(read) \cup {worker} \cup Elements(outbox) \cup Elements(inbox)) \ {None}
       \subseteq Elements(sent)
  /\ \A m, n \in Messages : Ahead(m, n) => Before(m, n, sent)

\* The line only grows at its end, by what is sent last, and only shrinks else.
LEMMA OrderStep == TypeOK /\ OrderInv /\ [Next]_vars => OrderInv'
<1> SUFFICES ASSUME TypeOK, OrderInv, [Next]_vars PROVE OrderInv'
  OBVIOUS
<1>0. Elements(<<>>) = {} /\ \A m, n : ~Before(m, n, <<>>)
  BY DEF Elements, Before
<1>1. CASE UNCHANGED <<sent, inbox, outbox, worker, read>>
  BY <1>1 DEF OrderInv, Ahead
<1>2. ASSUME NEW x \in Messages, Send(x), Open PROVE OrderInv'
  <2>1. sent' = Append(sent, x) /\ inbox' = Append(inbox, x) /\ UNCHANGED <<outbox, worker, read>>
    BY <1>2 DEF Send
  <2>2. Elements(sent') = Elements(sent) \cup {x} /\ Elements(inbox') = Elements(inbox) \cup {x}
    BY <2>1, AppendElements DEF TypeOK
  <2>3. ASSUME NEW m \in Messages, NEW n \in Messages, Ahead(m, n)' PROVE Before(m, n, sent')
    <3>1. Ahead(m, n) \/ (n = x /\ m \in Elements(sent))
      <4>1. Before(m, n, inbox') => Before(m, n, inbox) \/ (m \in Elements(inbox) /\ n = x)
        BY <2>1, AppendOrder DEF TypeOK
      <4>2. m # None
        BY NoneAssumption
      <4>3. QED
        BY <2>1, <2>2, <2>3, <4>1, <4>2 DEF Ahead, OrderInv
    <3>2. Before(m, n, sent) => Before(m, n, sent')
      BY <2>1, AppendOrder DEF TypeOK
    <3>3. m \in Elements(sent) => Before(m, x, sent')
      BY <2>1, AppendOrder DEF TypeOK
    <3>4. QED
      BY <3>1, <3>2, <3>3 DEF OrderInv
  <2>4. QED
    BY <2>1, <2>2, <2>3 DEF OrderInv
<1>3. CASE StartFails \/ CloseInputs
  <2>1. inbox' = <<>> /\ UNCHANGED <<sent, outbox, worker, read>>
    BY <1>3 DEF StartFails, CloseInputs, DropReceiver, delivery
  <2>2. Elements(inbox') = {} /\ \A m, n : ~Before(m, n, inbox')
    BY <1>0, <2>1
  <2>3. ASSUME NEW m \in Messages, NEW n \in Messages, Ahead(m, n)' PROVE Ahead(m, n)
    BY <2>1, <2>2, <2>3 DEF Ahead
  <2>4. QED
    BY <2>1, <2>2, <2>3 DEF OrderInv
<1>4. CASE Accept
  <2>1. inbox # <<>> /\ inbox' = Tail(inbox) /\ outbox' = Append(outbox, Head(inbox))
        /\ UNCHANGED <<sent, worker, read>>
    BY <1>4 DEF Accept
  <2>2. Head(inbox) \in Messages
    BY <2>1 DEF TypeOK
  <2>3. Elements(inbox) = {Head(inbox)} \cup Elements(Tail(inbox))
    BY <2>1, TailOrder DEF TypeOK
  <2>4. Elements(outbox') = Elements(outbox) \cup {Head(inbox)}
    BY <2>1, <2>2, AppendElements DEF TypeOK
  <2>5. ASSUME NEW m \in Messages, NEW n \in Messages, Ahead(m, n)' PROVE Ahead(m, n)
    <3>1. Before(m, n, outbox') =>
            Before(m, n, outbox) \/ (m \in Elements(outbox) /\ n = Head(inbox))
      BY <2>1, <2>2, AppendOrder DEF TypeOK
    <3>2. Before(m, n, Tail(inbox)) => Before(m, n, inbox)
      BY <2>1, TailOrder DEF TypeOK
    <3>3. n \in Elements(Tail(inbox)) => Before(Head(inbox), n, inbox)
      BY <2>1, TailOrder DEF TypeOK
    <3>4. QED
      BY <2>1, <2>3, <2>4, <2>5, <3>1, <3>2, <3>3 DEF Ahead
  <2>6. QED
    BY <2>1, <2>3, <2>4, <2>5 DEF OrderInv
<1>5. CASE Take
  <2>1. outbox # <<>> /\ outbox' = Tail(outbox) /\ worker' = Head(outbox) /\ worker = None
        /\ UNCHANGED <<sent, inbox, read>>
    BY <1>5 DEF Take, inputs
  <2>2. Elements(outbox) = {Head(outbox)} \cup Elements(Tail(outbox))
    BY <2>1, TailOrder DEF TypeOK
  <2>3. ASSUME NEW m \in Messages, NEW n \in Messages, Ahead(m, n)' PROVE Ahead(m, n)
    <3>1. Before(m, n, Tail(outbox)) => Before(m, n, outbox)
      BY <2>1, TailOrder DEF TypeOK
    <3>2. n \in Elements(Tail(outbox)) => Before(Head(outbox), n, outbox)
      BY <2>1, TailOrder DEF TypeOK
    <3>3. QED
      BY <2>1, <2>2, <2>3, <3>1, <3>2 DEF Ahead
  <2>4. QED
    BY <2>1, <2>2, <2>3 DEF OrderInv
<1>6. CASE Deliver \/ DeliverFails
  <2>1. worker # None /\ worker \in Messages /\ worker' = None /\ read' \in {read, Append(read, worker)}
        /\ UNCHANGED <<sent, inbox, outbox>>
    BY <1>6 DEF Deliver, DeliverFails, inputs, TypeOK
  <2>2. Elements(Append(read, worker)) = Elements(read) \cup {worker}
    BY <2>1, AppendElements DEF TypeOK
  <2>3. ASSUME NEW m \in Messages, NEW n \in Messages, Ahead(m, n)' PROVE Ahead(m, n)
    <3>1. Before(m, n, Append(read, worker)) =>
            Before(m, n, read) \/ (m \in Elements(read) /\ n = worker)
      BY <2>1, AppendOrder DEF TypeOK
    <3>2. m # None /\ n # None
      BY NoneAssumption
    <3>3. QED
      BY <2>1, <2>2, <2>3, <3>1, <3>2 DEF Ahead
  <2>4. QED
    BY <2>1, <2>2, <2>3 DEF OrderInv
<1>7. QED
  <2>1. ASSUME NEW m \in Messages, Route(m) \/ (Send(m) /\ ~Open) PROVE OrderInv'
    BY <1>1, <2>1 DEF Route, Send, delivery
  <2>2. CASE RemoveEntry \/ ThrowStop \/ ProviderEnds \/ UNCHANGED vars
    BY <1>1, <2>2 DEF RemoveEntry, ThrowStop, ProviderEnds, vars, inputs, delivery
  <2>3. CASE Start \/ Ask \/ Answered \/ GiveUp \/ LeaveLoop \/ Settle \/ Release
    BY <1>1, <2>3 DEF Start, Ask, Answered, GiveUp, LeaveLoop, Settle, Release, inputs, delivery
  <2>4. QED
    BY <1>2, <1>3, <1>4, <1>5, <1>6, <2>1, <2>2, <2>3 DEF Next, DriverTail, Worker

\* ReadInOrder, for any set of follow-ups: two loops and a worker between them
\* never let a later one overtake an earlier one.
THEOREM ReadInOrderHolds == Spec => []ReadInOrder
<1>1. ASSUME Init PROVE OrderInv
  BY <1>1, NoneAssumption DEF Init, OrderInv, Ahead, Before, Elements
<1>2. OrderInv => ReadInOrder
  BY DEF OrderInv, Ahead, ReadInOrder
<1>3. QED
  BY <1>1, <1>2, OrderStep, TypeCorrect, PTL DEF Spec

-----------------------------------------------------------------------------
\* PromptQueue.


\* Whether, and how often, a sequence holds an element.
In(s, e) == \E k \in DOMAIN s : s[k] = e
Once(s, e) == \A k, l \in DOMAIN s : s[k] = e /\ s[l] = e => k = l

\* An element joins a sequence at its end.
LEMMA InAppend ==
  ASSUME NEW S, NEW s \in Seq(S), NEW x \in S, NEW e
  PROVE  /\ Append(s, x) \in Seq(S)
         /\ In(Append(s, x), e) <=> In(s, e) \/ x = e
         /\ Once(s, e) /\ ~(In(s, e) /\ x = e) => Once(Append(s, x), e)
<1>1. /\ Append(s, x) \in Seq(S) /\ DOMAIN s = 1 .. Len(s) /\ Len(s) \in Nat
      /\ DOMAIN Append(s, x) = 1 .. Len(s) + 1
      /\ Append(s, x)[Len(s) + 1] = x
      /\ \A k \in 1 .. Len(s) : Append(s, x)[k] = s[k]
  OBVIOUS
<1>2. \A k \in 1 .. Len(s) + 1 : k \in 1 .. Len(s) \/ k = Len(s) + 1
  BY <1>1
<1>3. 1 .. Len(s) \subseteq 1 .. Len(s) + 1 /\ Len(s) + 1 \in 1 .. Len(s) + 1
  BY <1>1
<1>4. In(Append(s, x), e) <=> In(s, e) \/ x = e
  BY <1>1, <1>2, <1>3 DEF In
<1>5. Once(s, e) /\ ~(In(s, e) /\ x = e) => Once(Append(s, x), e)
  BY <1>1, <1>2 DEF In, Once
<1>6. QED
  BY <1>1, <1>4, <1>5

\* A sequence loses its head.
LEMMA InTail ==
  ASSUME NEW S, NEW s \in Seq(S), s # <<>>, NEW e
  PROVE  /\ Tail(s) \in Seq(S) /\ Head(s) \in S /\ In(s, Head(s))
         /\ In(Tail(s), e) => In(s, e)
         /\ Once(s, e) => Once(Tail(s), e) /\ (Head(s) = e => ~In(Tail(s), e))
<1>1. /\ Tail(s) \in Seq(S) /\ DOMAIN s = 1 .. Len(s) /\ Len(s) \in Nat /\ Len(s) >= 1
      /\ DOMAIN Tail(s) = 1 .. Len(s) - 1 /\ Head(s) = s[1] /\ s[1] \in S
      /\ \A k \in 1 .. Len(s) - 1 : Tail(s)[k] = s[k + 1]
  OBVIOUS
<1>2. \A k \in 1 .. Len(s) - 1 : k \in Int /\ k + 1 \in 1 .. Len(s) /\ k + 1 # 1
  BY <1>1
<1>3. 1 \in 1 .. Len(s)
  BY <1>1
<1>4. In(Tail(s), e) => In(s, e)
  BY <1>1, <1>2 DEF In
<1>5. Once(s, e) => Once(Tail(s), e)
  <2>1. SUFFICES ASSUME Once(s, e), NEW k \in 1 .. Len(s) - 1, NEW l \in 1 .. Len(s) - 1, Tail(s)[k] = e, Tail(s)[l] = e
                 PROVE  k = l
    BY <1>1 DEF Once
  <2>2. k + 1 = l + 1
    BY <1>1, <1>2, <2>1 DEF Once
  <2>3. QED
    BY <1>2, <2>2
<1>6. Once(s, e) /\ Head(s) = e => ~In(Tail(s), e)
  BY <1>1, <1>2, <1>3 DEF In, Once
<1>7. QED
  BY <1>1, <1>3, <1>4, <1>5, <1>6 DEF In

\* A sequence is followed by another.
LEMMA InConcat ==
  ASSUME NEW S, NEW s \in Seq(S), NEW t \in Seq(S), NEW e
  PROVE  /\ s \o t \in Seq(S)
         /\ In(s \o t, e) <=> In(s, e) \/ In(t, e)
         /\ Once(s, e) /\ Once(t, e) /\ ~(In(s, e) /\ In(t, e)) => Once(s \o t, e)
<1>1. /\ s \o t \in Seq(S) /\ DOMAIN s = 1 .. Len(s) /\ DOMAIN t = 1 .. Len(t) /\ Len(s) \in Nat /\ Len(t) \in Nat
      /\ DOMAIN (s \o t) = 1 .. Len(s) + Len(t)
      /\ \A k \in 1 .. Len(s) : (s \o t)[k] = s[k]
      /\ \A k \in 1 .. Len(t) : (s \o t)[Len(s) + k] = t[k]
  OBVIOUS
<1>2. \A k \in 1 .. Len(s) + Len(t) : k \in 1 .. Len(s) \/ \E l \in 1 .. Len(t) : k = Len(s) + l
  <2>1. SUFFICES ASSUME NEW k \in 1 .. Len(s) + Len(t), k \notin 1 .. Len(s) PROVE \E l \in 1 .. Len(t) : k = Len(s) + l
    OBVIOUS
  <2>2. k - Len(s) \in 1 .. Len(t) /\ k = Len(s) + (k - Len(s))
    BY <1>1, <2>1
  <2>3. QED
    BY <2>2
<1>3. /\ \A k \in 1 .. Len(s) : k \in 1 .. Len(s) + Len(t)
      /\ \A k \in 1 .. Len(t) : Len(s) + k \in 1 .. Len(s) + Len(t)
  BY <1>1
<1>4. ASSUME NEW k \in 1 .. Len(s) + Len(t), (s \o t)[k] = e
      PROVE  \/ k \in 1 .. Len(s) /\ s[k] = e
             \/ \E l \in 1 .. Len(t) : k = Len(s) + l /\ t[l] = e
  BY <1>1, <1>2, <1>4
<1>5. In(s \o t, e) => In(s, e) \/ In(t, e)
  BY <1>1, <1>4 DEF In
<1>6. In(s, e) => In(s \o t, e)
  BY <1>1, <1>3 DEF In
<1>7. In(t, e) => In(s \o t, e)
  <2>1. SUFFICES ASSUME NEW k \in 1 .. Len(t), t[k] = e PROVE In(s \o t, e)
    BY <1>1 DEF In
  <2>2. Len(s) + k \in 1 .. Len(s) + Len(t) /\ (s \o t)[Len(s) + k] = e
    BY <1>1, <1>3, <2>1
  <2>3. QED
    BY <1>1, <2>2 DEF In
<1>8. ASSUME Once(s, e), Once(t, e), ~(In(s, e) /\ In(t, e)) PROVE Once(s \o t, e)
  <2>1. SUFFICES ASSUME NEW k \in 1 .. Len(s) + Len(t), NEW l \in 1 .. Len(s) + Len(t), (s \o t)[k] = e, (s \o t)[l] = e
                 PROVE  k = l
    BY <1>1 DEF Once
  <2>2. CASE ~In(t, e)
    BY <1>1, <1>4, <1>8, <2>1, <2>2 DEF In, Once
  <2>3. CASE ~In(s, e)
    <3>1. PICK a \in 1 .. Len(t) : k = Len(s) + a /\ t[a] = e
      BY <1>1, <1>4, <2>1, <2>3 DEF In
    <3>2. PICK b \in 1 .. Len(t) : l = Len(s) + b /\ t[b] = e
      BY <1>1, <1>4, <2>1, <2>3 DEF In
    <3>3. a = b
      BY <1>1, <1>8, <3>1, <3>2 DEF Once
    <3>4. QED
      BY <3>1, <3>2, <3>3
  <2>4. QED
    BY <1>8, <2>2, <2>3
<1>9. QED
  BY <1>1, <1>5, <1>6, <1>7, <1>8

\* A function on the numbers up to n is a sequence.
LEMMA FunctionIsSeq ==
  ASSUME NEW S, NEW n \in Nat, NEW f \in [1 .. n -> S]
  PROVE  f \in Seq(S)
OBVIOUS

\* The sequence of a set with no more than one element.
LEMMA SmallSeq ==
  ASSUME NEW S, NEW x, S \subseteq {x}, NEW e
  PROVE  /\ SetToSeq(S) \in Seq(S) /\ Once(SetToSeq(S), e)
         /\ In(SetToSeq(S), e) <=> e \in S
<1> DEFINE Picks(f) == f \in [1 .. Cardinality(S) -> S] /\ IsInjective(f)
<1>1. SetToSeq(S) = CHOOSE f \in [1 .. Cardinality(S) -> S] : IsInjective(f)
  BY DEF SetToSeq
<1>2. CASE S = {}
  <2>1. Cardinality(S) = 0
    BY <1>2, FS_EmptySet
  <2>2. 1 .. Cardinality(S) = {}
    BY <2>1
  <2>3. [k \in {} |-> x] \in [{} -> S] /\ IsInjective([k \in {} |-> x])
    BY DEF IsInjective
  <2>4. SetToSeq(S) \in [1 .. Cardinality(S) -> S]
    BY <1>1, <2>2, <2>3
  <2>5. SetToSeq(S) \in Seq(S) /\ DOMAIN SetToSeq(S) = {}
    BY <2>1, <2>2, <2>4
  <2>6. QED
    BY <1>2, <2>5 DEF In, Once
<1>3. CASE S = {x}
  <2>1. Cardinality(S) = 1
    BY <1>3, FS_Singleton
  <2>2. 1 .. Cardinality(S) = {1}
    BY <2>1
  <2>3. Picks([k \in 1 .. Cardinality(S) |-> x])
    BY <1>3, <2>2 DEF IsInjective
  <2>4. SetToSeq(S) \in [1 .. Cardinality(S) -> S]
    BY <1>1, <2>3
  <2>5. SetToSeq(S) \in [{1} -> S] /\ {1} = 1 .. 1
    BY <2>2, <2>4
  <2>6. SetToSeq(S) \in Seq(S)
    <3>1. Cardinality(S) \in Nat
      BY <2>1
    <3>2. QED
      BY <2>4, <3>1, FunctionIsSeq
  <2>7. DOMAIN SetToSeq(S) = {1} /\ SetToSeq(S)[1] = x
    BY <1>3, <2>5
  <2>8. QED
    BY <1>3, <2>6, <2>7 DEF In, Once
<1>4. QED
  BY <1>2, <1>3

-----------------------------------------------------------------------------
\* Types.  Who runs behind a reservation is a record of one of these.
RunSet == [phase : Phases, kind : {"live", "plain", "command"}, opening : SUBSET Prompts, inbox : Seq(Prompts)]
RunTypes == run \in [Runs -> RunSet]
WindowTypes ==
  /\ queue \in Seq(Prompts) /\ status \in {"none", "live", "plain"} /\ compacting \in BOOLEAN
  /\ timers \in [Flushes -> Nat] /\ typed \subseteq Prompts
WireTypes == calls \subseteq Calls /\ events \in Seq(Events)
RestTypes ==
  /\ slot \in Runs \cup {NoRun} /\ unanswered \subseteq heard /\ heard \subseteq Prompts
  /\ pressed \in [at : {"idle", "asking", "done"}, seen : Runs \cup {NoRun}]
  /\ compact \in {"idle", "pressed", "refused", "waiting", "flushed", "claimed", "over", "dropped", "broken"}
  /\ failures \in 0..MaxIncidents
QueueTypes == RunTypes /\ WindowTypes /\ WireTypes /\ RestTypes

\* The types of all the variables, in the form of the module.
LEMMA QueueTypesAll ==
  ASSUME QueueTypes
  PROVE  QueueTypeOK
BY DEF QueueTypes, RunTypes, WindowTypes, WireTypes, RestTypes, faults, QueueTypeOK, RunSet

\* Who is on the way from a call to a run: a run's opening message is one, it is
\* kept until it is read, and a call that has claimed a run finds it as it left it.
Openings ==
  \A r \in Runs :
    /\ run[r].opening # {} => run[r].phase \in {"claimed", "accepted"} /\ Turn(r)
    /\ \A p, q \in run[r].opening : p = q
Claims ==
  \A c \in calls : c.at \in {"claimed", "routed"} =>
    /\ c.target \in Runs
    /\ c.at = "claimed" => run[c.target].phase = "claimed" /\ Turn(c.target) /\ run[c.target].opening = {c.prompt}
    /\ c.at = "claimed" => \A d \in calls : d.at = "claimed" /\ d.target = c.target => d = c
Inv0 == QueueTypes /\ Openings /\ Claims

\* The runs after one of them has changed.
LEMMA RunChanges ==
  ASSUME RunTypes, NEW r \in Runs, NEW w \in RunSet, run' = [run EXCEPT ![r] = w]
  PROVE  RunTypes' /\ run'[r] = w /\ \A s \in Runs \ {r} : run'[s] = run[s]
BY DEF RunTypes

\* The runs after one of them has come into another phase.
LEMMA PhaseChanges ==
  ASSUME RunTypes, NEW r \in Runs, NEW to \in Phases, run' = [run EXCEPT ![r].phase = to]
  PROVE  /\ RunTypes' /\ run'[r].phase = to /\ run'[r].kind = run[r].kind
         /\ run'[r].opening = run[r].opening /\ run'[r].inbox = run[r].inbox
         /\ \A s \in Runs \ {r} : run'[s] = run[s]
BY DEF RunTypes, RunSet

\* A call that moves on is replaced by a call for the same prompt.
LEMMA MoveEffect ==
  ASSUME calls \subseteq Calls, NEW c \in calls, NEW at \in {"asked", "claimed", "routed", "sent", "busy", "failed"},
         NEW target \in Runs \cup {NoRun}, Move(c, at, target)
  PROVE  \E d \in Calls :
           /\ d.at = at /\ d.target = target /\ d.prompt = c.prompt
           /\ calls' \subseteq (calls \ {c}) \cup {d}
           /\ calls' \subseteq Calls
<1> DEFINE d == [c EXCEPT !.at = at, !.target = target]
<1>1. d \in Calls /\ d.at = at /\ d.target = target /\ d.prompt = c.prompt
  BY DEF Calls
<1>2. calls' = (calls \ {c}) \cup (IF at = "sent" /\ ~c.flush.live THEN {} ELSE {d})
  BY Zenon DEF Move
<1>3. QED
  BY <1>1, <1>2

\* A claim takes a run that has not begun.
LEMMA ClaimEffect ==
  ASSUME RunTypes, NEW r \in Runs, NEW kind \in {"live", "plain", "command"}, NEW opening \in SUBSET Prompts,
         Claim(r, kind, opening)
  PROVE  /\ RunTypes' /\ slot' = r /\ run[r].phase = "unused"
         /\ run'[r].phase = "claimed" /\ run'[r].kind = kind /\ run'[r].opening = opening /\ run'[r].inbox = run[r].inbox
         /\ \A s \in Runs \ {r} : run'[s] = run[s]
BY DEF Claim, RunTypes, RunSet, Phases

\* The sequences of a smaller set.
LEMMA SeqSubset ==
  ASSUME NEW S, NEW T, S \subseteq T, NEW s \in Seq(S)
  PROVE  s \in Seq(T)
OBVIOUS

\* What an emission does to the events.
LEMMA EmitType ==
  ASSUME events \in Seq(Events), NEW new \in Seq(Events), Emit(new)
  PROVE  events' = events \o new /\ events' \in Seq(Events)
BY DEF Emit

\* What a signal about a run does to the events.
LEMMA SignalType ==
  ASSUME events \in Seq(Events), NEW kind \in {"ready", "stopped", "released", "compacting", "compacted"}, Signal(kind)
  PROVE  events' = events \o <<Event(kind, "run")>> /\ events' \in Seq(Events)
BY DEF Signal, Emit, Event, Events

\* A flush keeps the types of the queue and of the calls.
LEMMA FlushTypes ==
  ASSUME WindowTypes, WireTypes, NEW f \in Flushes, FlushQueue(f)
  PROVE  queue' \in Seq(Prompts) /\ calls' \subseteq Calls
<1>1. CASE UNCHANGED <<queue, calls>>
  BY <1>1 DEF WindowTypes, WireTypes
<1>2. CASE queue # <<>> /\ queue' = Tail(queue) /\ calls' = calls \cup {Call(Head(queue), "flush", f)}
  <2>1. Head(queue) \in Prompts /\ Tail(queue) \in Seq(Prompts)
    BY <1>2, InTail DEF WindowTypes
  <2>2. Call(Head(queue), "flush", f) \in Calls
    BY <2>1 DEF Call, Calls
  <2>3. QED
    BY <1>2, <2>1, <2>2 DEF WireTypes
<1>3. QED
  BY <1>1, <1>2 DEF FlushQueue

\* A started timer is one of the timers.
LEMMA TimerType ==
  ASSUME WindowTypes, NEW live \in BOOLEAN, NEW attempt \in 0 .. MaxAttempts, StartTimer(live, attempt)
  PROVE  timers' \in [Flushes -> Nat]
<1>1. [live |-> live, attempt |-> attempt] \in Flushes
  BY DEF Flushes
<1>2. QED
  BY <1>1 DEF WindowTypes, StartTimer

\* The window's steps keep the types ...
LEMMA WindowStepTypes ==
  ASSUME QueueTypes, (\E p \in Prompts : SendKnown(p)) \/ WindowStep
  PROVE  QueueTypes'
<1> USE BoundsAssumption
<1>1. ASSUME NEW p \in Prompts, SendKnown(p) PROVE QueueTypes'
  <2>1. typed' \subseteq Prompts /\ UNCHANGED <<status, compacting, events, backend, presses, faults>>
    BY <1>1 DEF SendKnown, QueueTypes, WindowTypes
  <2>2. CASE queue' = Append(queue, p) /\ UNCHANGED calls /\ (StartTimer(TRUE, 0) \/ UNCHANGED timers)
    <3>0. queue \in Seq(Prompts)
      BY DEF QueueTypes, WindowTypes
    <3>1. queue' \in Seq(Prompts)
      BY <2>2, <3>0, InAppend
    <3>2. timers' \in [Flushes -> Nat]
      <4>1. WindowTypes /\ timers \in [Flushes -> Nat] /\ TRUE \in BOOLEAN /\ 0 \in 0 .. MaxAttempts
        BY DEF QueueTypes, WindowTypes
      <4>2. QED
        BY <2>2, <4>1, TimerType
    <3>3. QED
      BY <2>1, <2>2, <3>1, <3>2 DEF QueueTypes, WindowTypes, WireTypes, RestTypes, faults, RunTypes, backend, presses
  <2>3. CASE calls' = calls \cup {Call(p, "send", [live |-> FALSE, attempt |-> 0])} /\ UNCHANGED <<queue, timers>>
    <3>1. Call(p, "send", [live |-> FALSE, attempt |-> 0]) \in Calls
      BY DEF Call, Calls, Flushes
    <3>2. QED
      BY <2>1, <2>3, <3>1 DEF QueueTypes, WindowTypes, WireTypes, RestTypes, faults, RunTypes, backend, presses
  <2>4. QED
    BY <1>1, <2>2, <2>3, Zenon DEF SendKnown
<1>2. ASSUME NEW f \in Flushes, TimerFires(f) PROVE QueueTypes'
  <2>1. timers[f] > 0 /\ timers' = [timers EXCEPT ![f] = @ - 1] /\ FlushQueue(f)
        /\ UNCHANGED <<status, compacting, typed, events, backend, presses, faults>>
    BY <1>2 DEF TimerFires
  <2>2. timers' \in [Flushes -> Nat]
    BY <2>1 DEF QueueTypes, WindowTypes
  <2>3. queue' \in Seq(Prompts) /\ calls' \subseteq Calls
    BY <2>1, FlushTypes DEF QueueTypes
  <2>4. QED
    BY <2>1, <2>2, <2>3 DEF QueueTypes, WindowTypes, WireTypes, RestTypes, faults, RunTypes, backend, presses
<1>3. ASSUME NEW c \in calls, Answer(c) PROVE QueueTypes'
  <2>1. calls' \subseteq Calls /\ UNCHANGED <<status, compacting, typed, events, backend, presses, faults>>
    BY <1>3 DEF Answer, QueueTypes, WireTypes
  <2>2. c \in Calls /\ c.prompt \in Prompts /\ c.flush.live \in BOOLEAN /\ c.flush.attempt \in 0 .. MaxAttempts
    BY DEF QueueTypes, WireTypes, Calls, Flushes
  <2>3. queue' \in {queue, Append(queue, c.prompt), <<c.prompt>> \o queue}
    BY <1>3 DEF Answer
  <2>4. queue' \in Seq(Prompts)
    <3>1. queue \in Seq(Prompts) /\ <<c.prompt>> \in Seq(Prompts)
      BY <2>2 DEF QueueTypes, WindowTypes
    <3>2. Append(queue, c.prompt) \in Seq(Prompts)
      BY <2>2, <3>1, InAppend
    <3>3. <<c.prompt>> \o queue \in Seq(Prompts)
      BY <3>1, InConcat
    <3>4. QED
      BY <2>3, <3>1, <3>2, <3>3
  <2>5. \/ UNCHANGED timers \/ StartTimer(TRUE, 0)
        \/ c.flush.attempt < MaxAttempts /\ StartTimer(c.flush.live, c.flush.attempt + 1)
    BY <1>3, Zenon DEF Answer
  <2>6. timers' \in [Flushes -> Nat]
    <3>1. WindowTypes /\ timers \in [Flushes -> Nat] /\ TRUE \in BOOLEAN /\ 0 \in 0 .. MaxAttempts
      BY DEF QueueTypes, WindowTypes
    <3>2. ASSUME c.flush.attempt < MaxAttempts PROVE c.flush.attempt + 1 \in 0 .. MaxAttempts
      BY <2>2, <3>2
    <3>3. CASE UNCHANGED timers
      BY <3>1, <3>3
    <3>4. CASE StartTimer(TRUE, 0)
      BY <3>1, <3>4, TimerType
    <3>5. CASE c.flush.attempt < MaxAttempts /\ StartTimer(c.flush.live, c.flush.attempt + 1)
      BY <2>2, <3>1, <3>2, <3>5, TimerType
    <3>6. QED
      BY <2>5, <3>3, <3>4, <3>5
  <2>7. QED
    BY <2>1, <2>4, <2>6 DEF QueueTypes, WindowTypes, WireTypes, RestTypes, faults, RunTypes, backend, presses
<1>4. ASSUME HandleEvent PROVE QueueTypes'
  <2> DEFINE e == Head(events)
  <2>1. /\ events # <<>> /\ events' = Tail(events) /\ ShowStatus(e) /\ UNCHANGED <<timers, typed, backend, pressed, faults>>
        /\ \/ e.kind = "inject_failed" /\ HoldAgain(e.about)
           \/ e.kind # "inject_failed" /\ e.kind = "released" /\ OnReleased
           \/ e.kind = "ready" /\ FlushQueue([live |-> TRUE, attempt |-> 0]) /\ UNCHANGED compact
           \/ UNCHANGED <<queue, calls, compact>>
    BY <1>4 DEF HandleEvent
  <2>2. e \in Events /\ events' \in Seq(Events)
    BY <2>1, InTail DEF QueueTypes, WireTypes
  <2>3. /\ e.kind = "inject_failed" => e.about \in Prompts
        /\ e.kind \in {"accepted", "text"} => e.about \in {"live", "plain"}
    BY <2>2 DEF Events
  <2>4. status' \in {"none", "live", "plain"}
    BY <2>1, <2>3 DEF ShowStatus, QueueTypes, WindowTypes
  <2>5. compacting' \in BOOLEAN
    BY <2>1 DEF ShowStatus, QueueTypes, WindowTypes
  <2>6. [live |-> TRUE, attempt |-> 0] \in Flushes /\ [live |-> FALSE, attempt |-> 0] \in Flushes
    BY DEF Flushes
  <2>7. queue' \in Seq(Prompts) /\ calls' \subseteq Calls /\ (compact' = compact \/ compact' = "flushed")
    <3>1. CASE e.kind = "inject_failed" /\ HoldAgain(e.about)
      <4>1. e.about \in Prompts /\ queue' \in {queue, Append(queue, e.about)} /\ UNCHANGED <<calls, compact>>
        BY <2>3, <3>1 DEF HoldAgain
      <4>2. queue' \in Seq(Prompts)
        <5>1. queue \in Seq(Prompts)
          BY DEF QueueTypes, WindowTypes
        <5>2. QED
          BY <4>1, <5>1, InAppend
      <4>3. QED
        BY <4>1, <4>2 DEF QueueTypes, WireTypes
    <3>2. CASE OnReleased
      BY <2>6, <3>2, FlushTypes DEF OnReleased, QueueTypes, WindowTypes, WireTypes
    <3>3. CASE FlushQueue([live |-> TRUE, attempt |-> 0]) /\ UNCHANGED compact
      BY <2>6, <3>3, FlushTypes DEF QueueTypes
    <3>4. CASE UNCHANGED <<queue, calls, compact>>
      BY <3>4 DEF QueueTypes, WindowTypes, WireTypes
    <3>5. QED
      BY <2>1, <3>1, <3>2, <3>3, <3>4
  <2>8. QED
    BY <2>1, <2>2, <2>4, <2>5, <2>7 DEF QueueTypes, WindowTypes, WireTypes, RestTypes, faults, RunTypes, backend
<1>5. QED
  BY <1>1, <1>2, <1>3, <1>4 DEF WindowStep

\* How many calls may still fail: each incident is counted once.
LEMMA IncidentBound ==
  ASSUME failures \in 0 .. MaxIncidents, Incidents < MaxIncidents
  PROVE  failures + 1 \in 0 .. MaxIncidents
<1> DEFINE I == {i \in 1 .. 2 : <<pressed.at, compact>>[i] # "idle"}
<1>1. IsFiniteSet(1 .. 2)
  BY FS_Interval, 1 \in Int, 2 \in Int
<1>2. IsFiniteSet(I)
  BY <1>1, FS_Subset
<1>3. Cardinality(I) \in Nat
  BY <1>2, FS_CardinalityType
<1>4. failures + Cardinality(I) < MaxIncidents
  BY Zenon DEF Incidents
<1>5. MaxIncidents \in Nat
  BY BoundsAssumption
<1> HIDE DEF I
<1>6. QED
  BY <1>3, <1>4, <1>5

\* ... the steps of the calls ...
LEMMA CallStepTypes ==
  ASSUME QueueTypes, Claims, NEW c \in calls, Serve(c) \/ Fail(c)
  PROVE  QueueTypes'
<1>1. c \in Calls /\ c.prompt \in Prompts /\ calls \subseteq Calls /\ events \in Seq(Events) /\ RunTypes
  BY DEF QueueTypes, WireTypes, Calls
<1>2. ASSUME NEW at \in {"asked", "claimed", "routed", "sent", "busy", "failed"}, NEW target \in Runs \cup {NoRun}, Move(c, at, target)
      PROVE  calls' \subseteq Calls
  BY <1>1, <1>2, MoveEffect
<1>3. CASE RouteCall(c)
  <2>1. UNCHANGED <<window, events, heard, presses, faults>> /\ slot \in Runs \cup {NoRun}
    BY <1>3 DEF RouteCall, QueueTypes, RestTypes
  <2>2. CASE \E r \in Runs, kind \in {"live", "plain"} : Claim(r, kind, {c.prompt}) /\ Move(c, "claimed", r)
    <3>1. PICK r \in Runs, kind \in {"live", "plain"} : Claim(r, kind, {c.prompt}) /\ Move(c, "claimed", r)
      BY <2>2
    <3>2. RunTypes' /\ slot' = r
      BY <1>1, <3>1, ClaimEffect
    <3>3. calls' \subseteq Calls
      BY <1>2, <3>1
    <3>4. QED
      BY <2>1, <3>2, <3>3 DEF QueueTypes, WindowTypes, WireTypes, RestTypes, faults, window, presses
  <2>3. CASE UNCHANGED <<slot, run>> /\ (Move(c, "routed", slot) \/ Move(c, "busy", NoRun))
    <3>1. calls' \subseteq Calls
      BY <1>2, <2>1, <2>3
    <3>2. QED
      BY <2>1, <2>3, <3>1 DEF QueueTypes, WindowTypes, WireTypes, RestTypes, faults, RunTypes, window, presses
  <2>4. QED
    BY <1>3, <2>2, <2>3 DEF RouteCall
<1>4. CASE AcceptCall(c)
  <2>1. c.target \in Runs /\ UNCHANGED <<window, slot, heard, presses, faults>>
    BY <1>4 DEF AcceptCall, Claims
  <2>2. run[c.target].kind \in {"live", "plain"}
    BY <1>1, <1>4, <2>1 DEF AcceptCall, Claims, Turn, RunTypes, RunSet
  <2>3. RunTypes'
    BY <1>1, <1>4, <2>1, PhaseChanges DEF AcceptCall, Passes, Phases
  <2>4. events' \in Seq(Events)
    <3>1. Event("accepted", run[c.target].kind) \in Events
      BY <2>2 DEF Event, Events
    <3>2. <<Event("accepted", run[c.target].kind)>> \in Seq(Events)
      BY <3>1
    <3>3. Emit(<<Event("accepted", run[c.target].kind)>>)
      BY <1>4 DEF AcceptCall
    <3>4. QED
      BY <1>1, <3>2, <3>3, EmitType
  <2>5. calls' \subseteq Calls
    BY <1>2, <1>4 DEF AcceptCall
  <2>6. QED
    BY <2>1, <2>3, <2>4, <2>5 DEF QueueTypes, WindowTypes, WireTypes, RestTypes, faults, window, presses
<1>5. CASE Inject(c)
  <2>1. c.target \in Runs /\ UNCHANGED <<window, slot, heard, presses, faults>>
    BY <1>5 DEF Inject, Claims
  <2>2. calls' \subseteq Calls
    BY <1>2, <1>5 DEF Inject
  <2>3. CASE run' = [run EXCEPT ![c.target].inbox = Append(@, c.prompt)] /\ UNCHANGED events
    <3>1. Append(run[c.target].inbox, c.prompt) \in Seq(Prompts)
      BY <1>1, <2>1, InAppend DEF RunTypes, RunSet
    <3>2. RunTypes'
      BY <1>1, <2>1, <2>3, <3>1 DEF RunTypes, RunSet
    <3>3. QED
      BY <2>1, <2>2, <2>3, <3>2 DEF QueueTypes, WindowTypes, WireTypes, RestTypes, faults, window, presses
  <2>4. CASE Emit(<<Event("inject_failed", c.prompt)>>) /\ UNCHANGED run
    <3>1. Event("inject_failed", c.prompt) \in Events
      BY <1>1 DEF Event, Events
    <3>2. <<Event("inject_failed", c.prompt)>> \in Seq(Events)
      BY <3>1
    <3>3. events' \in Seq(Events)
      BY <1>1, <2>4, <3>2, EmitType
    <3>4. QED
      BY <2>1, <2>2, <2>4, <3>3 DEF QueueTypes, WindowTypes, WireTypes, RestTypes, faults, RunTypes, window, presses
  <2>5. QED
    BY <1>5, <2>3, <2>4 DEF Inject
<1>6. CASE Fail(c)
  <2>1. UNCHANGED <<window, events, slot, heard, presses, unanswered>>
    BY <1>6 DEF Fail
  <2>2. failures' \in 0 .. MaxIncidents
    BY <1>6, IncidentBound DEF Fail, QueueTypes, RestTypes
  <2>3. calls' \subseteq Calls
    BY <1>2, <1>6 DEF Fail
  <2>4. RunTypes'
    <3>1. CASE UNCHANGED run
      BY <1>1, <3>1 DEF RunTypes
    <3>2. CASE c.at = "claimed" /\ run' = [run EXCEPT ![c.target].phase = "over", ![c.target].opening = {}]
      <4>1. c.target \in Runs
        BY <3>2 DEF Claims
      <4>2. QED
        <5>1. PICK r \in Runs : r = c.target
          BY <4>1
        <5>2. run[r] \in RunSet /\ "over" \in Phases
          BY <1>1 DEF RunTypes, Phases
        <5>3. [run[r] EXCEPT !.phase = "over", !.opening = {}] \in RunSet
          BY <5>2 DEF RunSet
        <5>4. run' = [run EXCEPT ![r] = [run[r] EXCEPT !.phase = "over", !.opening = {}]]
          BY <1>1, <3>2, <5>1 DEF RunTypes
        <5>5. QED
          BY <1>1, <5>3, <5>4, RunChanges
    <3>3. QED
      BY <1>6, <3>1, <3>2 DEF Fail
  <2>5. QED
    BY <2>1, <2>2, <2>3, <2>4 DEF QueueTypes, WindowTypes, WireTypes, RestTypes, faults, window, presses
<1>7. QED
  BY <1>3, <1>4, <1>5, <1>6 DEF Serve

\* The events a driver leaves when it closes: at most its inbox, its opening
\* message, and run:stopped.
LEMMA CloseEvents ==
  ASSUME QueueTypes, Openings, NEW r \in Runs, Close(r)
  PROVE  /\ events' \in Seq(Events)
         /\ \E back, reopened, last \in Seq(Events), again \in SUBSET run[r].opening :
               /\ events' = events \o ((back \o reopened) \o last)
               /\ \A p : In(back, Event("inject_failed", p)) => In(run[r].inbox, p)
               /\ \A p : Once(run[r].inbox, p) => Once(back, Event("inject_failed", p))
               /\ \A p : In(reopened, Event("inject_failed", p)) <=> p \in again
               /\ \A p : Once(reopened, Event("inject_failed", p))
               /\ \A p : ~In(last, Event("inject_failed", p))
               /\ \A p : Once(last, Event("inject_failed", p))
<1>1. PICK n \in 0 .. Len(run[r].inbox), again \in SUBSET run[r].opening :
        Emit([i \in 1 .. n |-> Event("inject_failed", run[r].inbox[i])]
             \o SetToSeq({Event("inject_failed", p) : p \in again})
             \o <<Event("stopped", "run")>>)
  BY DEF Close
<1>2. PICK back : back = [i \in 1 .. n |-> Event("inject_failed", run[r].inbox[i])]
  OBVIOUS
<1>3. PICK reopened : reopened = SetToSeq({Event("inject_failed", p) : p \in again})
  OBVIOUS
<1>4. run[r].inbox \in Seq(Prompts) /\ run[r].opening \subseteq Prompts /\ events \in Seq(Events)
  BY DEF QueueTypes, WireTypes, RunTypes, RunSet
<1>5. PICK box \in Seq(Prompts) : box = run[r].inbox
  BY <1>4
<1>6. n \in Nat /\ 1 .. n \subseteq 1 .. Len(box) /\ DOMAIN box = 1 .. Len(box) /\ \A i \in 1 .. n : box[i] \in Prompts
  BY <1>5
<1>7. \A p, q : Event("inject_failed", p) = Event("inject_failed", q) => p = q
  BY DEF Event
<1>8. \A p : Event("inject_failed", p) # Event("stopped", "run")
  BY DEF Event
<1>9. \A p \in Prompts : Event("inject_failed", p) \in Events
  BY DEF Event, Events
<1>10. back \in Seq(Events)
  <2>1. back \in [1 .. n -> Events]
    BY <1>2, <1>5, <1>6, <1>9
  <2>2. QED
    BY <1>6, <2>1, FunctionIsSeq
<1>11. DOMAIN back = 1 .. n /\ \A i \in 1 .. n : back[i] = Event("inject_failed", box[i])
  BY <1>2, <1>5
<1>12. \A p : In(back, Event("inject_failed", p)) => In(box, p)
  BY <1>6, <1>7, <1>11 DEF In
<1>13. \A p : Once(box, p) => Once(back, Event("inject_failed", p))
  BY <1>6, <1>7, <1>11 DEF Once
<1>14. /\ reopened \in Seq(Events)
       /\ \A p : In(reopened, Event("inject_failed", p)) <=> p \in again
       /\ \A p : Once(reopened, Event("inject_failed", p))
  <2>1. PICK S : S = {Event("inject_failed", p) : p \in again}
    OBVIOUS
  <2>2. S \subseteq Events
    BY <1>4, <1>9, <2>1
  <2>3. \E x : S \subseteq {x}
    BY <2>1 DEF Openings
  <2>4. PICK x : S \subseteq {x}
    BY <2>3
  <2>5. \A e : SetToSeq(S) \in Seq(S) /\ Once(SetToSeq(S), e) /\ (In(SetToSeq(S), e) <=> e \in S)
    BY <2>4, SmallSeq
  <2>6. SetToSeq(S) \in Seq(Events)
    BY <2>2, <2>5, SeqSubset
  <2>7. \A p : Event("inject_failed", p) \in S <=> p \in again
    BY <1>7, <2>1
  <2>8. QED
    BY <1>3, <2>1, <2>5, <2>6, <2>7
<1>15. <<Event("stopped", "run")>> \in Seq(Events)
  BY DEF Event, Events
<1>16. /\ \A p : ~In(<<Event("stopped", "run")>>, Event("inject_failed", p))
       /\ \A p : Once(<<Event("stopped", "run")>>, Event("inject_failed", p))
  BY <1>8 DEF In, Once
<1>17. (back \o reopened) \o <<Event("stopped", "run")>> \in Seq(Events)
  BY <1>10, <1>14, <1>15, InConcat
<1>18. events' = events \o ((back \o reopened) \o <<Event("stopped", "run")>>) /\ events' \in Seq(Events)
  BY <1>1, <1>2, <1>3, <1>4, <1>17, EmitType
<1>19. QED
  BY <1>2, <1>3, <1>5, <1>10, <1>12, <1>13, <1>14, <1>15, <1>16, <1>18

\* ... of the drivers ...
LEMMA DriverStepTypes ==
  ASSUME QueueTypes, Openings, NEW r \in Runs, DriverStep(r) \/ DeliveryFails(r) \/ Text(r) \/ CommandBreaks(r)
  PROVE  QueueTypes'
<1>1. events \in Seq(Events) /\ RunTypes /\ run[r] \in RunSet /\ run[r].opening \subseteq Prompts
      /\ unanswered \subseteq heard /\ heard \subseteq Prompts
  BY DEF QueueTypes, WireTypes, RestTypes, faults, RunTypes, RunSet
<1>2. ASSUME NEW from, NEW to \in Phases, Passes(r, from, to) PROVE RunTypes'
  BY <1>1, <1>2, PhaseChanges DEF Passes
<1>3. ASSUME NEW kind \in {"ready", "stopped", "released", "compacting", "compacted"}, Signal(kind) PROVE events' \in Seq(Events)
  BY <1>1, <1>3, SignalType
<1>4. CASE Ready(r)
  <2>1. /\ UNCHANGED <<window, calls, slot, presses, faults>> /\ heard \subseteq heard'
        /\ heard' \subseteq Prompts /\ events' \in Seq(Events)
    BY <1>1, <1>3, <1>4 DEF Ready
  <2>2. [run[r] EXCEPT !.phase = "ready", !.opening = {}] \in RunSet
    BY <1>1 DEF RunSet, Phases
  <2>3. run' = [run EXCEPT ![r] = [run[r] EXCEPT !.phase = "ready", !.opening = {}]]
    BY <1>1, <1>4 DEF Ready, RunTypes
  <2>4. RunTypes'
    BY <1>1, <2>2, <2>3, RunChanges
  <2>5. QED
    BY <2>1, <2>4 DEF QueueTypes, WindowTypes, WireTypes, RestTypes, faults, window, presses
<1>5. CASE DeliverNext(r)
  <2>1. UNCHANGED <<window, calls, events, slot, presses, faults>>
    BY <1>5 DEF DeliverNext
  <2>2. run[r].inbox \in Seq(Prompts) /\ run[r].inbox # <<>>
    BY <1>1, <1>5 DEF DeliverNext, RunSet
  <2>3. Head(run[r].inbox) \in Prompts /\ Tail(run[r].inbox) \in Seq(Prompts)
    BY <2>2, InTail
  <2>4. run' = [run EXCEPT ![r] = [run[r] EXCEPT !.inbox = Tail(run[r].inbox)]]
    BY <1>1, <1>5 DEF DeliverNext, RunTypes
  <2>5. [run[r] EXCEPT !.inbox = Tail(run[r].inbox)] \in RunSet
    BY <1>1, <2>3 DEF RunSet
  <2>6. RunTypes' /\ heard \subseteq heard' /\ heard' \subseteq Prompts
    BY <1>1, <1>5, <2>3, <2>4, <2>5, RunChanges DEF DeliverNext
  <2>7. QED
    BY <2>1, <2>6 DEF QueueTypes, WindowTypes, WireTypes, RestTypes, faults, window, presses
<1>6. CASE Close(r)
  <2>1. UNCHANGED <<window, calls, slot, heard, presses, faults>>
    BY <1>6 DEF Close
  <2>2. events' \in Seq(Events)
    BY <1>6, CloseEvents
  <2>3. [run[r] EXCEPT !.phase = "over", !.inbox = <<>>, !.opening = {}] \in RunSet
    <3>1. <<>> \in Seq(Prompts) /\ "over" \in Phases
      BY DEF Phases
    <3>2. QED
      BY <1>1, <3>1 DEF RunSet
  <2>4. run' = [run EXCEPT ![r] = [run[r] EXCEPT !.phase = "over", !.inbox = <<>>, !.opening = {}]]
    BY <1>1, <1>6 DEF Close, RunTypes
  <2>5. RunTypes'
    BY <1>1, <2>3, <2>4, RunChanges
  <2>6. QED
    BY <2>1, <2>2, <2>5 DEF QueueTypes, WindowTypes, WireTypes, RestTypes, faults, window, presses
<1>7. CASE ReleaseSlot(r)
  <2>1. UNCHANGED <<window, calls, events, heard, presses, faults>>
    BY <1>7 DEF ReleaseSlot
  <2>2. PICK phase \in {"dropped", "done"} : run' = [run EXCEPT ![r] = Gone(phase)]
    BY <1>7 DEF ReleaseSlot
  <2>3. Gone(phase) \in RunSet
    BY <2>2 DEF Gone, RunSet, Phases
  <2>4. RunTypes'
    BY <1>1, <2>2, <2>3, RunChanges
  <2>5. slot' = slot \/ slot' = NoRun
    BY <1>7 DEF ReleaseSlot
  <2>6. QED
    BY <2>1, <2>4, <2>5 DEF QueueTypes, WindowTypes, WireTypes, RestTypes, faults, window, presses
<1>8. CASE EmitReleased(r) \/ CommandBegins(r) \/ CommandEnds(r)
  <2>1. UNCHANGED <<window, calls, slot, heard, pressed, faults>> /\ (compact' = compact \/ compact' = "over")
    BY <1>8 DEF EmitReleased, CommandBegins, CommandEnds, presses
  <2>2. RunTypes' /\ events' \in Seq(Events)
    BY <1>2, <1>3, <1>8 DEF EmitReleased, CommandBegins, CommandEnds, Phases
  <2>3. QED
    BY <2>1, <2>2 DEF QueueTypes, WindowTypes, WireTypes, RestTypes, faults, window
<1>9. CASE Text(r)
  <2>1. UNCHANGED <<window, calls, backend, presses, faults>> /\ Emit(<<Event("text", run[r].kind)>>)
    BY <1>9 DEF Text
  <2>2. run[r].kind \in {"live", "plain"}
    BY <1>1, <1>9 DEF Text, Turn, RunSet
  <2>3. Event("text", run[r].kind) \in Events
    BY <2>2 DEF Event, Events
  <2>4. <<Event("text", run[r].kind)>> \in Seq(Events)
    BY <2>3
  <2>5. events' \in Seq(Events)
    BY <1>1, <2>1, <2>4, EmitType
  <2>6. QED
    BY <2>1, <2>5 DEF QueueTypes, WindowTypes, WireTypes, RestTypes, faults, RunTypes, window, presses, backend
<1>10. CASE CommandBreaks(r)
  <2>1. UNCHANGED <<window, calls, events, slot, heard, pressed, faults>> /\ compact' = "broken"
    BY <1>10 DEF CommandBreaks
  <2>2. RunTypes'
    BY <1>2, <1>10 DEF CommandBreaks, Phases
  <2>3. QED
    BY <2>1, <2>2 DEF QueueTypes, WindowTypes, WireTypes, RestTypes, faults, window
<1>11. CASE DeliveryFails(r)
  <2>1. UNCHANGED <<window, calls, slot, presses>>
    BY <1>11 DEF DeliveryFails
  <2>2. run[r].inbox \in Seq(Prompts) /\ run[r].inbox # <<>>
    BY <1>1, <1>11 DEF DeliveryFails, RunSet
  <2>3. Head(run[r].inbox) \in Prompts /\ Tail(run[r].inbox) \in Seq(Prompts)
    BY <2>2, InTail
  <2>4. run' = [run EXCEPT ![r] = [run[r] EXCEPT !.phase = "closing", !.inbox = Tail(run[r].inbox)]]
    BY <1>1, <1>11 DEF DeliveryFails, RunTypes
  <2>5. [run[r] EXCEPT !.phase = "closing", !.inbox = Tail(run[r].inbox)] \in RunSet
    BY <1>1, <2>3 DEF RunSet, Phases
  <2>6. RunTypes'
    BY <1>1, <2>4, <2>5, RunChanges
  <2>7. unanswered' \subseteq heard' /\ heard' \subseteq Prompts
    BY <1>1, <1>11, <2>3 DEF DeliveryFails
  <2>8. failures' \in 0..MaxIncidents
    BY <1>11, IncidentBound DEF DeliveryFails, QueueTypes, RestTypes
  <2>9. events' \in Seq(Events)
    <3>1. Event("inject_failed", Head(run[r].inbox)) \in Events
      BY <2>3 DEF Event, Events
    <3>2. PICK new \in Seq(Events) : new = <<Event("inject_failed", Head(run[r].inbox))>>
      <4>1. PICK e \in Events : e = Event("inject_failed", Head(run[r].inbox))
        BY <3>1
      <4>2. <<e>> \in Seq(Events)
        OBVIOUS
      <4>3. QED
        BY <4>1, <4>2
    <3>3. Emit(new)
      BY <1>11, <3>2 DEF DeliveryFails
    <3>4. QED
      BY <1>1, <3>2, <3>3, EmitType
  <2>10. QED
    BY <2>1, <2>6, <2>7, <2>8, <2>9 DEF QueueTypes, WindowTypes, WireTypes, RestTypes, window, presses
<1>12. QED
  BY <1>4, <1>5, <1>6, <1>7, <1>8, <1>9, <1>10, <1>11 DEF DriverStep

\* ... of the owner's presses and of the compaction ...
LEMMA PressStepTypes ==
  ASSUME QueueTypes, StopPress \/ StopFinish \/ CompactPress \/ CompactRefused \/ CompactStep
  PROVE  QueueTypes'
<1>1. CASE StopPress \/ StopFinish
  <2>1. UNCHANGED <<window, calls, events, run, heard, compact, faults>>
    BY <1>1 DEF StopPress, StopFinish, backend
  <2>2. /\ slot' \in Runs \cup {NoRun}
        /\ pressed' \in [at : {"idle", "asking", "done"}, seen : Runs \cup {NoRun}]
    BY <1>1 DEF StopPress, StopFinish, backend, QueueTypes, RestTypes
  <2>3. QED
    BY <2>1, <2>2 DEF QueueTypes, WindowTypes, WireTypes, RestTypes, faults, RunTypes, window
<1>2. CASE CompactPress \/ CompactRefused \/ CompactBusy \/ CompactWaits
  <2>1. UNCHANGED <<window, calls, events, slot, run, heard, pressed, faults>>
    BY <1>2 DEF CompactPress, CompactRefused, CompactBusy, CompactWaits, backend
  <2>2. compact' \in {"pressed", "refused", "waiting", "over", "dropped"}
    BY <1>2 DEF CompactPress, CompactRefused, CompactBusy, CompactWaits
  <2>3. QED
    BY <2>1, <2>2 DEF QueueTypes, WindowTypes, WireTypes, RestTypes, faults, RunTypes, window
<1>3. ASSUME NEW r \in Runs, CompactClaim(r) PROVE QueueTypes'
  <2>1. UNCHANGED <<window, calls, events, heard, pressed, faults>> /\ compact' = "claimed" /\ Claim(r, "command", {})
    BY <1>3 DEF CompactClaim
  <2>2. RunTypes' /\ slot' = r
    BY <2>1, ClaimEffect DEF QueueTypes
  <2>3. QED
    BY <2>1, <2>2 DEF QueueTypes, WindowTypes, WireTypes, RestTypes, faults, window
<1>4. QED
  BY <1>1, <1>2, <1>3 DEF CompactStep

\* ... and so does every step.
LEMMA QueueTypesKept ==
  ASSUME QueueTypes, Openings, Claims, [QueueNext]_queueVars
  PROVE  QueueTypes'
<1>1. CASE UNCHANGED queueVars
  BY <1>1 DEF queueVars, window, backend, presses, QueueTypes, WindowTypes, WireTypes, RestTypes, faults, RunTypes
<1>2. CASE QueueNext
  BY <1>2, WindowStepTypes, CallStepTypes, DriverStepTypes, PressStepTypes DEF QueueNext, BackendStep
<1>3. QED
  BY <1>1, <1>2

-----------------------------------------------------------------------------
\* The openings and the claims go on.

\* A run that changes keeps at most one opening message.
LEMMA OpeningsKept ==
  ASSUME Openings, NEW r \in Runs, \A s \in Runs \ {r} : run'[s] = run[s],
         run'[r].opening # {} => run'[r].phase \in {"claimed", "accepted"} /\ run'[r].kind # "command",
         \A p, q \in run'[r].opening : p = q
  PROVE  Openings'
BY DEF Openings, Turn

\* A driver's own step changes a run no call has claimed.
LEMMA ClaimsBesideRun ==
  ASSUME Claims, NEW r \in Runs, \A s \in Runs \ {r} : run'[s] = run[s],
         calls' = calls, run[r].phase # "claimed" \/ ~Turn(r)
  PROVE  Claims'
BY DEF Claims, Turn

\* Claims go on where no run changes and no call comes to claim one.
LEMMA ClaimsSameRun ==
  ASSUME Claims, run' = run, \A c \in calls' : c \in calls \/ c.at \notin {"claimed", "routed"}
  PROVE  Claims'
BY DEF Claims, Turn

\* The steps of the calls keep the openings and the claims ...
LEMMA CallStepLinks ==
  ASSUME QueueTypes, Openings, Claims, NEW c \in calls, Serve(c) \/ Fail(c)
  PROVE  Openings' /\ Claims'
<1>1. c \in Calls /\ c.prompt \in Prompts /\ calls \subseteq Calls /\ RunTypes
  BY DEF QueueTypes, WireTypes, Calls
<1>2. ASSUME NEW at \in {"asked", "claimed", "routed", "sent", "busy", "failed"}, NEW target \in Runs \cup {NoRun}, Move(c, at, target)
      PROVE  \E d \in Calls : d.at = at /\ d.target = target /\ d.prompt = c.prompt /\ calls' \subseteq (calls \ {c}) \cup {d}
  BY <1>1, <1>2, MoveEffect
<1>3. CASE RouteCall(c)
  <2>1. CASE \E r \in Runs, kind \in {"live", "plain"} : Claim(r, kind, {c.prompt}) /\ Move(c, "claimed", r)
    <3>1. PICK r \in Runs, kind \in {"live", "plain"} : Claim(r, kind, {c.prompt}) /\ Move(c, "claimed", r)
      BY <2>1
    <3>2. /\ run[r].phase = "unused" /\ run'[r].phase = "claimed" /\ run'[r].kind = kind /\ run'[r].opening = {c.prompt}
          /\ \A s \in Runs \ {r} : run'[s] = run[s]
      BY <1>1, <3>1, ClaimEffect
    <3>3. PICK d \in Calls : d.at = "claimed" /\ d.target = r /\ d.prompt = c.prompt /\ calls' \subseteq (calls \ {c}) \cup {d}
      BY <1>2, <3>1
    <3>4. Openings'
      BY <3>2, OpeningsKept
    <3>5. \A e \in calls : e.at = "claimed" => e.target # r
      BY <3>2 DEF Claims
    <3>6. Claims'
      BY <3>2, <3>3, <3>5 DEF Claims, Turn
    <3>7. QED
      BY <3>4, <3>6
  <2>2. CASE slot # NoRun /\ UNCHANGED <<slot, run>> /\ (Move(c, "routed", slot) \/ Move(c, "busy", NoRun))
    <3>1. slot \in Runs
      BY <2>2 DEF QueueTypes, RestTypes
    <3>2. \A e \in calls' : e \in calls \/ e.at = "busy" \/ (e.at = "routed" /\ e.target \in Runs)
      <4>1. CASE Move(c, "routed", slot)
        <5>1. PICK t \in Runs : t = slot
          BY <3>1
        <5>2. PICK d \in Calls : d.at = "routed" /\ d.target = t /\ calls' \subseteq (calls \ {c}) \cup {d}
          BY <1>2, <4>1, <5>1
        <5>3. QED
          BY <5>2
      <4>2. CASE Move(c, "busy", NoRun)
        <5>1. PICK d \in Calls : d.at = "busy" /\ calls' \subseteq (calls \ {c}) \cup {d}
          BY <1>2, <4>2
        <5>2. QED
          BY <5>1
      <4>3. QED
        BY <2>2, <4>1, <4>2
    <3>3. QED
      BY <2>2, <3>2 DEF Openings, Claims, Turn
  <2>3. QED
    BY <1>3, <2>1, <2>2 DEF RouteCall
<1>4. ASSUME c.at = "claimed", \E at \in {"sent", "failed"} : Move(c, at, NoRun)
      PROVE  /\ \A e \in calls' : e \in calls \ {c} \/ e.at \in {"sent", "failed"}
             /\ \A e \in calls \ {c} : e.at = "claimed" => e.target # c.target
  BY <1>2, <1>4 DEF Claims
<1>5. CASE AcceptCall(c)
  <2>1. c.target \in Runs /\ Turn(c.target) /\ c.at = "claimed" /\ run[c.target].opening = {c.prompt}
    BY <1>5 DEF AcceptCall, Claims
  <2>2. PICK r \in Runs : r = c.target
    BY <2>1
  <2>3. /\ run'[r].phase = "accepted" /\ run'[r].kind = run[r].kind /\ run'[r].opening = run[r].opening
        /\ \A s \in Runs \ {r} : run'[s] = run[s]
    BY <1>1, <1>5, <2>2, PhaseChanges DEF AcceptCall, Passes, Phases
  <2>4. Openings'
    BY <2>1, <2>2, <2>3, OpeningsKept DEF Turn
  <2>5. \A e \in calls' : e.at \in {"claimed", "routed"} => e \in calls /\ (e.at = "claimed" => e.target # r)
    BY <1>4, <1>5, <2>1, <2>2 DEF AcceptCall
  <2>6. Claims'
    BY <2>3, <2>5 DEF Claims, Turn
  <2>7. QED
    BY <2>4, <2>6
<1>6. CASE Fail(c)
  <2>1. Move(c, "failed", NoRun)
    BY <1>6 DEF Fail
  <2>2. CASE c.at = "asked" /\ UNCHANGED run
    <3>1. \A e \in calls' : e \in calls \/ e.at = "failed"
      BY <1>2, <2>1
    <3>2. Claims'
      BY <2>2, <3>1, ClaimsSameRun
    <3>3. QED
      BY <2>2, <3>2 DEF Openings, Turn
  <2>3. CASE c.at = "claimed" /\ run' = [run EXCEPT ![c.target].phase = "over", ![c.target].opening = {}]
    <3>1. PICK r \in Runs : r = c.target
      BY <2>3 DEF Claims
    <3>2. run'[r].opening = {} /\ \A s \in Runs \ {r} : run'[s] = run[s]
      BY <1>1, <2>3, <3>1 DEF RunTypes, RunSet
    <3>3. Openings'
      BY <3>2, OpeningsKept
    <3>4. \A e \in calls' : e.at \in {"claimed", "routed"} => e \in calls /\ (e.at = "claimed" => e.target # r)
      BY <1>4, <2>1, <2>3, <3>1
    <3>5. Claims'
      BY <3>2, <3>4 DEF Claims, Turn
    <3>6. QED
      BY <3>3, <3>5
  <2>4. QED
    BY <1>6, <2>2, <2>3 DEF Fail
<1>7. CASE Inject(c)
  <2>1. PICK t \in Runs : t = c.target
    BY <1>7 DEF Inject, Claims
  <2>2. \A s \in Runs : run'[s].phase = run[s].phase /\ run'[s].kind = run[s].kind /\ run'[s].opening = run[s].opening
    <3>1. CASE run' = [run EXCEPT ![c.target].inbox = Append(@, c.prompt)]
      BY <1>1, <2>1, <3>1 DEF RunTypes, RunSet
    <3>2. CASE run' = run
      BY <3>2
    <3>3. QED
      BY <1>7, <3>1, <3>2 DEF Inject
  <2>3. \A e \in calls' : e \in calls \/ e.at = "sent"
    BY <1>2, <1>7 DEF Inject
  <2>4. QED
    BY <2>2, <2>3 DEF Openings, Claims, Turn
<1>8. QED
  BY <1>3, <1>5, <1>6, <1>7 DEF Serve

\* ... as the drivers' do ...
LEMMA DriverStepLinks ==
  ASSUME QueueTypes, Openings, Claims, NEW r \in Runs, DriverStep(r) \/ DeliveryFails(r) \/ CommandBreaks(r)
  PROVE  Openings' /\ Claims'
<1>1. RunTypes /\ run[r] \in RunSet
  BY DEF QueueTypes, RunTypes
<1>2. calls' = calls
  BY DEF DriverStep, CommandBreaks, Ready, DeliverNext, DeliveryFails, Close, ReleaseSlot, EmitReleased, CommandBegins, CommandEnds
<1>3. run[r].phase # "claimed" \/ ~Turn(r)
  BY DEF DriverStep, CommandBreaks, Ready, DeliverNext, DeliveryFails, Close, ReleaseSlot, EmitReleased, CommandBegins, CommandEnds, Passes
<1>4. CASE Ready(r) \/ DeliverNext(r) \/ DeliveryFails(r) \/ Close(r) \/ ReleaseSlot(r)
  <2>1. run[r].phase # "ready" \/ run[r].opening = {}
    BY DEF Openings
  <2>2. run'[r].opening = {} /\ \A s \in Runs \ {r} : run'[s] = run[s]
    <3>1. CASE Ready(r)
      BY <1>1, <3>1 DEF Ready, RunTypes, RunSet
    <3>2. CASE DeliverNext(r)
      BY <1>1, <2>1, <3>2 DEF DeliverNext, RunTypes, RunSet
    <3>3. CASE Close(r)
      BY <1>1, <3>3 DEF Close, RunTypes, RunSet
    <3>4. CASE ReleaseSlot(r)
      BY <1>1, <3>4 DEF ReleaseSlot, Gone, RunTypes
    <3>5. CASE DeliveryFails(r)
      BY <1>1, <2>1, <3>5 DEF DeliveryFails, RunTypes, RunSet
    <3>6. QED
      BY <1>4, <3>1, <3>2, <3>3, <3>4, <3>5
  <2>3. Openings'
    BY <2>2, OpeningsKept
  <2>4. QED
    BY <1>2, <1>3, <2>2, <2>3, ClaimsBesideRun
<1>5. CASE EmitReleased(r) \/ CommandBegins(r) \/ CommandEnds(r) \/ CommandBreaks(r)
  <2>1. run[r].opening = {}
    BY <1>5 DEF EmitReleased, CommandBegins, CommandEnds, CommandBreaks, Passes, Openings
  <2>2. PICK to \in Phases : run' = [run EXCEPT ![r].phase = to]
    BY <1>5 DEF EmitReleased, CommandBegins, CommandEnds, CommandBreaks, Passes, Phases
  <2>3. run'[r].opening = {} /\ \A s \in Runs \ {r} : run'[s] = run[s]
    BY <1>1, <2>1, <2>2, PhaseChanges
  <2>4. Openings'
    BY <2>3, OpeningsKept
  <2>5. QED
    BY <1>2, <1>3, <2>3, <2>4, ClaimsBesideRun
<1>6. QED
  BY <1>4, <1>5 DEF DriverStep

\* ... and the claim of a compaction ...
LEMMA CompactClaimLinks ==
  ASSUME QueueTypes, Openings, Claims, NEW r \in Runs, CompactClaim(r)
  PROVE  Openings' /\ Claims'
<1>1. RunTypes /\ Claim(r, "command", {}) /\ calls' = calls
  BY DEF QueueTypes, CompactClaim
<1>2. run[r].phase = "unused" /\ run'[r].opening = {} /\ \A s \in Runs \ {r} : run'[s] = run[s]
  BY <1>1, ClaimEffect
<1>3. Openings'
  BY <1>2, OpeningsKept
<1>4. Claims'
  BY <1>1, <1>2, ClaimsBesideRun
<1>5. QED
  BY <1>3, <1>4

\* A flush only brings a call that has claimed nothing.
LEMMA FlushLinks ==
  ASSUME NEW f \in Flushes, FlushQueue(f)
  PROVE  \A c \in calls' : c \in calls \/ c.at \notin {"claimed", "routed"}
BY DEF FlushQueue, Call

\* ... and the window's steps ...
LEMMA WindowStepLinks ==
  ASSUME QueueTypes, Openings, Claims, (\E p \in Prompts : SendKnown(p)) \/ WindowStep
  PROVE  Openings' /\ Claims'
<1>1. [live |-> FALSE, attempt |-> 0] \in Flushes /\ [live |-> TRUE, attempt |-> 0] \in Flushes
  BY BoundsAssumption DEF Flushes
<1>2. run' = run
  BY DEF WindowStep, SendKnown, HandleEvent, TimerFires, Answer, backend
<1>3. \A c \in calls' : c \in calls \/ c.at \notin {"claimed", "routed"}
  <2>1. CASE \E p \in Prompts : SendKnown(p)
    <3>1. PICK p \in Prompts : SendKnown(p)
      BY <2>1
    <3>2. UNCHANGED calls \/ calls' = calls \cup {Call(p, "send", [live |-> FALSE, attempt |-> 0])}
      BY <3>1 DEF SendKnown
    <3>3. Call(p, "send", [live |-> FALSE, attempt |-> 0]).at = "asked"
      BY DEF Call
    <3>4. QED
      BY <3>2, <3>3
  <2>2. CASE \E f \in Flushes : TimerFires(f)
    BY <2>2, FlushLinks DEF TimerFires
  <2>3. CASE \E c \in calls : Answer(c)
    BY <2>3 DEF Answer
  <2>4. CASE HandleEvent
    <3>1. OnReleased \/ FlushQueue([live |-> TRUE, attempt |-> 0]) \/ UNCHANGED calls
      BY <2>4 DEF HandleEvent, HoldAgain
    <3>2. FlushQueue([live |-> FALSE, attempt |-> 0]) \/ FlushQueue([live |-> TRUE, attempt |-> 0]) \/ UNCHANGED calls
      BY <3>1 DEF OnReleased
    <3>3. QED
      BY <1>1, <3>2, FlushLinks
  <2>5. QED
    BY <2>1, <2>2, <2>3, <2>4 DEF WindowStep
<1>4. Claims'
  BY <1>2, <1>3, ClaimsSameRun
<1>5. QED
  BY <1>2, <1>4 DEF Openings, Turn

\* ... and so does every step.
LEMMA LinksKept ==
  ASSUME QueueTypes, Openings, Claims, [QueueNext]_queueVars
  PROVE  Openings' /\ Claims'
<1>1. CASE run' = run /\ calls' = calls
  BY <1>1 DEF Openings, Claims, Turn
<1>2. CASE UNCHANGED queueVars \/ StopPress \/ StopFinish \/ CompactPress \/ CompactRefused \/ CompactBusy \/ CompactWaits
  BY <1>1, <1>2 DEF queueVars, window, backend, StopPress, StopFinish, CompactPress, CompactRefused, CompactBusy, CompactWaits
<1>3. CASE \E r \in Runs : Text(r)
  BY <1>1, <1>3 DEF Text, backend
<1>4. CASE \E r \in Runs : DriverStep(r) \/ DeliveryFails(r) \/ CommandBreaks(r)
  BY <1>4, DriverStepLinks
<1>5. CASE \E r \in Runs : CompactClaim(r)
  BY <1>5, CompactClaimLinks
<1>6. CASE \E c \in calls : Serve(c) \/ Fail(c)
  BY <1>6, CallStepLinks
<1>7. CASE (\E p \in Prompts : SendKnown(p)) \/ WindowStep
  BY <1>7, WindowStepLinks
<1>8. QED
  BY <1>2, <1>3, <1>4, <1>5, <1>6, <1>7 DEF QueueNext, BackendStep, CompactStep

-----------------------------------------------------------------------------
\* The six places a prompt can be in: whether it is there, and whether it is
\* there no more than once.
Back(p) == Event("inject_failed", p)
Asks(c, p) == c.prompt = p /\ c.at # "sent"

InQueue(p) == In(queue, p)
InEvents(p) == In(events, Back(p))
InCalls(p) == \E c \in calls : Asks(c, p)
InOpening(p) == \E r \in Runs : p \in run[r].opening /\ run[r].phase = "accepted"
InInbox(p) == \E r \in Runs : In(run[r].inbox, p)

OneQueue(p) == Once(queue, p)
OneEvent(p) == Once(events, Back(p))
OneCall(p) == \A c, d \in calls : Asks(c, p) /\ Asks(d, p) => c = d
OneOpening(p) ==
  \A r, s \in Runs :
    (p \in run[r].opening /\ run[r].phase = "accepted" /\ p \in run[s].opening /\ run[s].phase = "accepted") => r = s
OneInbox(p) ==
  /\ \A r \in Runs : Once(run[r].inbox, p)
  /\ \A r, s \in Runs : In(run[r].inbox, p) /\ In(run[s].inbox, p) => r = s

\* What a provider has read, and has answered for.
Known == heard \ unanswered

\* A prompt in one of them is in none of the others.
Sole(p) ==
  /\ OneQueue(p) /\ OneEvent(p) /\ OneCall(p) /\ OneOpening(p) /\ OneInbox(p)
  /\ InQueue(p)   => ~InEvents(p) /\ ~InCalls(p) /\ ~InOpening(p) /\ ~InInbox(p) /\ p \notin Known
  /\ InEvents(p)  => ~InCalls(p) /\ ~InOpening(p) /\ ~InInbox(p) /\ p \notin Known
  /\ InCalls(p)   => ~InOpening(p) /\ ~InInbox(p) /\ p \notin Known
  /\ InOpening(p) => ~InInbox(p) /\ p \notin Known
  /\ InInbox(p)   => p \notin Known
Anywhere(p) ==
  \/ InQueue(p) \/ InEvents(p) \/ InCalls(p)
  \/ InOpening(p) \/ InInbox(p) \/ p \in Known
SoleGoesOn(p) == Sole(p)' /\ (Anywhere(p)' => Anywhere(p))

\* A step that brings the prompt to none of the places.
QueueKept(p) == (InQueue(p)' => InQueue(p)) /\ (OneQueue(p) => OneQueue(p)')
EventsKept(p) == (InEvents(p)' => InEvents(p)) /\ (OneEvent(p) => OneEvent(p)')
CallsKept(p) == (InCalls(p)' => InCalls(p)) /\ (OneCall(p) => OneCall(p)')
OpeningKept(p) == (InOpening(p)' => InOpening(p)) /\ (OneOpening(p) => OneOpening(p)')
InboxKept(p) == (InInbox(p)' => InInbox(p)) /\ (OneInbox(p) => OneInbox(p)')
HeardKept(p) == p \in Known' => p \in Known

\* A step that brings the prompt to no new place leaves it in one at most.
LEMMA AllKept ==
  ASSUME NEW p, Sole(p), QueueKept(p), EventsKept(p), CallsKept(p), OpeningKept(p), InboxKept(p), HeardKept(p)
  PROVE  SoleGoesOn(p)
<1>1. Sole(p)'
  BY DEF Sole, QueueKept, EventsKept, CallsKept, OpeningKept, InboxKept, HeardKept
<1>2. Anywhere(p)' => Anywhere(p)
  BY DEF Anywhere, QueueKept, EventsKept, CallsKept, OpeningKept, InboxKept, HeardKept
<1>3. QED
  BY <1>1, <1>2 DEF SoleGoesOn

\* Where nothing changes.
LEMMA SamePlaces ==
  ASSUME NEW p
  PROVE  /\ queue' = queue => QueueKept(p)
         /\ events' = events => EventsKept(p)
         /\ calls' = calls => CallsKept(p)
         /\ run' = run => OpeningKept(p) /\ InboxKept(p)
         /\ UNCHANGED <<heard, unanswered>> => HeardKept(p)
BY DEF QueueKept, EventsKept, CallsKept, OpeningKept, InboxKept, HeardKept, InQueue, InEvents, InCalls, InOpening,
       InInbox, OneQueue, OneEvent, OneCall, OneOpening, OneInbox, Known

\* The queue: a prompt is added at either end, or its head is taken.
LEMMA QueueGets ==
  ASSUME queue \in Seq(Prompts), NEW p, NEW x \in Prompts, queue' = Append(queue, x) \/ queue' = <<x>> \o queue
  PROVE  /\ x # p => QueueKept(p)
         /\ x = p /\ ~InQueue(p) /\ OneQueue(p) => OneQueue(p)'
<1>1. <<x>> \in Seq(Prompts) /\ (In(<<x>>, p) <=> x = p) /\ Once(<<x>>, p)
  BY DEF In, Once
<1>2. CASE queue' = Append(queue, x)
  <2>1. /\ In(queue', p) <=> In(queue, p) \/ x = p
        /\ Once(queue, p) /\ ~(In(queue, p) /\ x = p) => Once(queue', p)
    BY <1>2, InAppend
  <2>2. QED
    BY <2>1 DEF QueueKept, InQueue, OneQueue
<1>3. CASE queue' = <<x>> \o queue
  <2>1. /\ In(queue', p) <=> In(<<x>>, p) \/ In(queue, p)
        /\ Once(<<x>>, p) /\ Once(queue, p) /\ ~(In(<<x>>, p) /\ In(queue, p)) => Once(queue', p)
    BY <1>1, <1>3, InConcat
  <2>2. QED
    BY <1>1, <2>1 DEF QueueKept, InQueue, OneQueue
<1>4. QED
  BY <1>2, <1>3

\* The head of the queue is taken.
LEMMA QueueGives ==
  ASSUME queue \in Seq(Prompts), queue # <<>>, queue' = Tail(queue), NEW p
  PROVE  /\ Head(queue) \in Prompts /\ InQueue(Head(queue)) /\ QueueKept(p)
         /\ OneQueue(p) /\ Head(queue) = p => ~InQueue(p)'
BY InTail DEF QueueKept, InQueue, OneQueue

\* The events: emitted at the end, handled from the front.
LEMMA EventsGet ==
  ASSUME events \in Seq(Events), NEW new \in Seq(Events), events' = events \o new, NEW p,
         Once(new, Back(p))
  PROVE  /\ ~In(new, Back(p)) => EventsKept(p)
         /\ ~InEvents(p) /\ OneEvent(p) => OneEvent(p)'
         /\ InEvents(p)' => InEvents(p) \/ In(new, Back(p))
BY InConcat DEF EventsKept, InEvents, OneEvent

\* The first event is handled.
LEMMA EventsGive ==
  ASSUME events \in Seq(Events), events # <<>>, events' = Tail(events), NEW p
  PROVE  /\ EventsKept(p)
         /\ Head(events) = Back(p) => InEvents(p)
         /\ OneEvent(p) /\ Head(events) = Back(p) => ~InEvents(p)'
BY InTail DEF EventsKept, InEvents, OneEvent

\* An event of another kind hands nothing back.
LEMMA OtherEvent ==
  ASSUME NEW e, e.kind # "inject_failed", NEW p
  PROVE  Once(<<e>>, Back(p)) /\ ~In(<<e>>, Back(p))
BY DEF Once, In, Back, Event

\* The calls: one is added, one is answered, one moves on.
LEMMA CallsGet ==
  ASSUME NEW d, calls' = calls \cup {d}, NEW p
  PROVE  /\ ~Asks(d, p) => CallsKept(p)
         /\ ~InCalls(p) /\ OneCall(p) => OneCall(p)'
BY DEF CallsKept, InCalls, OneCall

\* A call is answered.
LEMMA CallsGive ==
  ASSUME NEW c \in calls, calls' = calls \ {c}, NEW p
  PROVE  /\ CallsKept(p)
         /\ Asks(c, p) => InCalls(p)
         /\ OneCall(p) /\ Asks(c, p) => ~InCalls(p)'
BY DEF CallsKept, InCalls, OneCall

\* A call moves on, and to "sent" it lets go of its prompt.
LEMMA CallsMove ==
  ASSUME calls \subseteq Calls, NEW c \in calls, NEW at \in {"asked", "claimed", "routed", "sent", "busy", "failed"},
         NEW target \in Runs \cup {NoRun}, Move(c, at, target), c.at # "sent", NEW p
  PROVE  /\ CallsKept(p)
         /\ c.prompt = p => InCalls(p)
         /\ at = "sent" /\ OneCall(p) /\ c.prompt = p => ~InCalls(p)'
<1>1. PICK d \in Calls : d.at = at /\ d.prompt = c.prompt /\ calls' \subseteq (calls \ {c}) \cup {d}
  BY MoveEffect
<1>2. Asks(d, p) => Asks(c, p)
  BY <1>1 DEF Asks
<1>3. at = "sent" => ~Asks(d, p)
  BY <1>1 DEF Asks
<1>4. \A e \in calls' : e = d \/ (e \in calls /\ e # c)
  BY <1>1
<1>5. Asks(c, p) <=> c.prompt = p
  BY DEF Asks
<1>6. InCalls(p)' => InCalls(p)
  BY <1>2, <1>4 DEF InCalls
<1>7. OneCall(p) => OneCall(p)'
  BY <1>2, <1>4 DEF OneCall
<1>8. at = "sent" /\ OneCall(p) /\ c.prompt = p => ~InCalls(p)'
  BY <1>3, <1>4, <1>5 DEF OneCall, InCalls
<1>9. QED
  BY <1>5, <1>6, <1>7, <1>8 DEF CallsKept, InCalls

\* The runs: one of them changes.
LEMMA RunGives ==
  ASSUME NEW r \in Runs, \A s \in Runs \ {r} : run'[s] = run[s], NEW p
  PROVE  /\ run'[r].opening = {} \/ run'[r].phase # "accepted" => OpeningKept(p)
         /\ (In(run'[r].inbox, p) => In(run[r].inbox, p)) /\ (Once(run[r].inbox, p) => Once(run'[r].inbox, p)) => InboxKept(p)
<1>1. ASSUME run'[r].opening = {} \/ run'[r].phase # "accepted" PROVE OpeningKept(p)
  BY <1>1 DEF OpeningKept, InOpening, OneOpening
<1>2. ASSUME In(run'[r].inbox, p) => In(run[r].inbox, p), Once(run[r].inbox, p) => Once(run'[r].inbox, p) PROVE InboxKept(p)
  <2>1. \A s \in Runs : In(run'[s].inbox, p) => In(run[s].inbox, p)
    BY <1>2
  <2>2. OneInbox(p) => \A s \in Runs : Once(run'[s].inbox, p)
    BY <1>2 DEF OneInbox
  <2>3. QED
    BY <2>1, <2>2 DEF InboxKept, InInbox, OneInbox
<1>3. QED
  BY <1>1, <1>2

\* A flush takes the head of the queue to a call.
LEMMA FlushSole ==
  ASSUME QueueTypes, NEW f \in Flushes, FlushQueue(f), NEW p, Sole(p),
         EventsKept(p), run' = run, UNCHANGED <<heard, unanswered>>
  PROVE  SoleGoesOn(p)
<1>1. OpeningKept(p) /\ InboxKept(p) /\ HeardKept(p)
  BY SamePlaces
<1>2. CASE UNCHANGED <<queue, calls>>
  BY <1>1, <1>2, SamePlaces, AllKept
<1>3. CASE queue # <<>> /\ queue' = Tail(queue) /\ calls' = calls \cup {Call(Head(queue), "flush", f)}
  <2>1. /\ InQueue(Head(queue)) /\ QueueKept(p)
        /\ OneQueue(p) /\ Head(queue) = p => ~InQueue(p)'
    BY <1>3, QueueGives DEF QueueTypes, WindowTypes
  <2>2. PICK d : d = Call(Head(queue), "flush", f)
    OBVIOUS
  <2>3. Asks(d, p) <=> Head(queue) = p
    BY <2>2 DEF Asks, Call
  <2>4. /\ ~Asks(d, p) => CallsKept(p)
        /\ ~InCalls(p) /\ OneCall(p) => OneCall(p)'
    BY <1>3, <2>2, CallsGet
  <2>5. CASE Head(queue) # p
    BY <1>1, <2>1, <2>3, <2>4, <2>5, AllKept
  <2>6. CASE Head(queue) = p
    <3>1. InQueue(p) /\ ~InQueue(p)' /\ OneQueue(p)' /\ OneCall(p)'
      BY <2>1, <2>4, <2>6 DEF Sole, QueueKept
    <3>2. ~InEvents(p)' /\ ~InOpening(p)' /\ ~InInbox(p)' /\ ~(p \in Known')
      BY <1>1, <3>1 DEF Sole, EventsKept, OpeningKept, InboxKept, HeardKept
    <3>3. OneEvent(p)' /\ OneOpening(p)' /\ OneInbox(p)'
      BY <1>1 DEF Sole, EventsKept, OpeningKept, InboxKept
    <3>4. QED
      BY <3>1, <3>2, <3>3 DEF SoleGoesOn, Sole, Anywhere
  <2>7. QED
    BY <2>5, <2>6
<1>4. QED
  BY <1>2, <1>3 DEF FlushQueue

\* A prompt is typed: it was nowhere, and is queued or asked.
LEMMA SendSole ==
  ASSUME QueueTypes, NEW x \in Prompts, SendKnown(x), NEW p, Sole(p), Anywhere(p) => p \in typed
  PROVE  Sole(p)' /\ (Anywhere(p)' => p \in typed')
<1>1. EventsKept(p) /\ OpeningKept(p) /\ InboxKept(p) /\ HeardKept(p)
  BY SamePlaces DEF SendKnown, backend, faults
<1>2. typed' = typed \cup {x} /\ x \notin typed
  BY DEF SendKnown
<1>3. CASE queue' = Append(queue, x) /\ calls' = calls
  <2>1. /\ x # p => QueueKept(p)
        /\ x = p /\ ~InQueue(p) /\ OneQueue(p) => OneQueue(p)'
    BY <1>3, QueueGets DEF QueueTypes, WindowTypes
  <2>2. CallsKept(p)
    BY <1>3, SamePlaces
  <2>3. CASE x # p
    BY <1>1, <1>2, <2>1, <2>2, <2>3, AllKept DEF SoleGoesOn
  <2>4. CASE x = p
    <3>1. ~Anywhere(p)
      BY <1>2, <2>4
    <3>2. OneQueue(p)' /\ ~InEvents(p)' /\ ~InCalls(p)' /\ ~InOpening(p)' /\ ~InInbox(p)' /\ ~(p \in Known')
      BY <1>1, <2>1, <2>2, <2>4, <3>1 DEF Sole, Anywhere, EventsKept, CallsKept, OpeningKept, InboxKept, HeardKept
    <3>3. OneEvent(p)' /\ OneCall(p)' /\ OneOpening(p)' /\ OneInbox(p)'
      BY <1>1, <2>2 DEF Sole, EventsKept, CallsKept, OpeningKept, InboxKept
    <3>4. QED
      BY <1>2, <2>4, <3>2, <3>3 DEF Sole
  <2>5. QED
    BY <2>3, <2>4
<1>4. CASE queue' = queue /\ calls' = calls \cup {Call(x, "send", [live |-> FALSE, attempt |-> 0])}
  <2>1. PICK d : d = Call(x, "send", [live |-> FALSE, attempt |-> 0])
    OBVIOUS
  <2>2. Asks(d, p) => x = p
    BY <2>1 DEF Asks, Call
  <2>3. /\ ~Asks(d, p) => CallsKept(p)
        /\ ~InCalls(p) /\ OneCall(p) => OneCall(p)'
    BY <1>4, <2>1, CallsGet
  <2>4. QueueKept(p)
    BY <1>4, SamePlaces
  <2>5. CASE x # p
    BY <1>1, <1>2, <2>2, <2>3, <2>4, <2>5, AllKept DEF SoleGoesOn
  <2>6. CASE x = p
    <3>1. ~Anywhere(p)
      BY <1>2, <2>6
    <3>2. OneCall(p)' /\ ~InEvents(p)' /\ ~InQueue(p)' /\ ~InOpening(p)' /\ ~InInbox(p)' /\ ~(p \in Known')
      BY <1>1, <2>3, <2>4, <3>1 DEF Sole, Anywhere, EventsKept, QueueKept, OpeningKept, InboxKept, HeardKept
    <3>3. OneEvent(p)' /\ OneQueue(p)' /\ OneOpening(p)' /\ OneInbox(p)'
      BY <1>1, <2>4 DEF Sole, EventsKept, QueueKept, OpeningKept, InboxKept
    <3>4. QED
      BY <1>2, <2>6, <3>2, <3>3 DEF Sole
  <2>7. QED
    BY <2>5, <2>6
<1>5. QED
  BY <1>3, <1>4, Zenon DEF SendKnown

\* A call is answered: its prompt goes back to the queue, or nowhere.
LEMMA AnswerSole ==
  ASSUME QueueTypes, NEW c \in calls, Answer(c), NEW p, Sole(p)
  PROVE  SoleGoesOn(p)
<1>1. EventsKept(p) /\ OpeningKept(p) /\ InboxKept(p) /\ HeardKept(p)
  BY SamePlaces DEF Answer, backend, faults
<1>2. /\ CallsKept(p)
      /\ Asks(c, p) => InCalls(p)
      /\ OneCall(p) /\ Asks(c, p) => ~InCalls(p)'
  BY CallsGive DEF Answer
<1>3. CASE queue' = queue
  BY <1>1, <1>2, <1>3, SamePlaces, AllKept
<1>4. CASE c.at # "sent" /\ (queue' = Append(queue, c.prompt) \/ queue' = <<c.prompt>> \o queue)
  <2>1. c.prompt \in Prompts /\ queue \in Seq(Prompts)
    BY DEF QueueTypes, WireTypes, WindowTypes, Calls
  <2>2. /\ c.prompt # p => QueueKept(p)
        /\ c.prompt = p /\ ~InQueue(p) /\ OneQueue(p) => OneQueue(p)'
    BY <1>4, <2>1, QueueGets
  <2>3. CASE c.prompt # p
    BY <1>1, <1>2, <2>2, <2>3, AllKept
  <2>4. CASE c.prompt = p
    <3>1. Asks(c, p)
      BY <1>4, <2>4 DEF Asks
    <3>2. InCalls(p) /\ ~InCalls(p)' /\ OneCall(p)' /\ OneQueue(p)'
      BY <1>2, <2>2, <2>4, <3>1 DEF Sole, CallsKept
    <3>3. ~InEvents(p)' /\ ~InOpening(p)' /\ ~InInbox(p)' /\ ~(p \in Known')
      BY <1>1, <3>2 DEF Sole, EventsKept, OpeningKept, InboxKept, HeardKept
    <3>4. OneEvent(p)' /\ OneOpening(p)' /\ OneInbox(p)'
      BY <1>1 DEF Sole, EventsKept, OpeningKept, InboxKept
    <3>5. QED
      BY <3>2, <3>3, <3>4 DEF SoleGoesOn, Sole, Anywhere
  <2>5. QED
    BY <2>3, <2>4
<1>5. QED
  BY <1>3, <1>4 DEF Answer

\* An event is handled: what it hands back is held again.
LEMMA HandleSole ==
  ASSUME QueueTypes, HandleEvent, NEW p, Sole(p)
  PROVE  SoleGoesOn(p)
<1>1. events # <<>> /\ events' = Tail(events) /\ run' = run /\ UNCHANGED <<heard, unanswered>>
  BY DEF HandleEvent, backend, faults
<1>2. PICK e : e = Head(events)
  OBVIOUS
<1>3. /\ EventsKept(p)
      /\ e = Back(p) => InEvents(p)
      /\ OneEvent(p) /\ e = Back(p) => ~InEvents(p)'
  BY <1>1, <1>2, EventsGive DEF QueueTypes, WireTypes
<1>4. OpeningKept(p) /\ InboxKept(p) /\ HeardKept(p)
  BY <1>1, SamePlaces
<1>5. CASE e.kind = "inject_failed" /\ HoldAgain(e.about)
  <2>1. CallsKept(p)
    BY <1>5, SamePlaces DEF HoldAgain
  <2>2. CASE queue' = queue
    BY <1>3, <1>4, <2>1, <2>2, SamePlaces, AllKept
  <2>3. CASE queue' = Append(queue, e.about)
    <3>1. e \in Events
      BY <1>1, <1>2, InTail DEF QueueTypes, WireTypes
    <3>2. e.about \in Prompts /\ e = Back(e.about)
      BY <1>5, <3>1 DEF Events, Back, Event
    <3>3. /\ e.about # p => QueueKept(p)
          /\ e.about = p /\ ~InQueue(p) /\ OneQueue(p) => OneQueue(p)'
      BY <2>3, <3>2, QueueGets DEF QueueTypes, WindowTypes
    <3>4. CASE e.about # p
      BY <1>3, <1>4, <2>1, <3>3, <3>4, AllKept
    <3>5. CASE e.about = p
      <4>1. InEvents(p) /\ ~InEvents(p)' /\ OneEvent(p)' /\ OneQueue(p)'
        BY <1>3, <3>2, <3>3, <3>5 DEF Sole, EventsKept
      <4>2. ~InCalls(p)' /\ ~InOpening(p)' /\ ~InInbox(p)' /\ ~(p \in Known')
        BY <1>4, <2>1, <4>1 DEF Sole, CallsKept, OpeningKept, InboxKept, HeardKept
      <4>3. OneCall(p)' /\ OneOpening(p)' /\ OneInbox(p)'
        BY <1>4, <2>1 DEF Sole, CallsKept, OpeningKept, InboxKept
      <4>4. QED
        BY <4>1, <4>2, <4>3 DEF SoleGoesOn, Sole, Anywhere
    <3>6. QED
      BY <3>4, <3>5
  <2>4. QED
    BY <1>5, <2>2, <2>3 DEF HoldAgain
<1>6. CASE UNCHANGED <<queue, calls>>
  BY <1>3, <1>4, <1>6, SamePlaces, AllKept
<1>7. CASE \E f \in Flushes : FlushQueue(f)
  BY <1>1, <1>3, <1>7, FlushSole
<1>8. [live |-> FALSE, attempt |-> 0] \in Flushes /\ [live |-> TRUE, attempt |-> 0] \in Flushes
  BY BoundsAssumption DEF Flushes
<1>9. \/ e.kind = "inject_failed" /\ HoldAgain(e.about)
      \/ OnReleased
      \/ FlushQueue([live |-> TRUE, attempt |-> 0])
      \/ UNCHANGED <<queue, calls>>
  BY <1>2 DEF HandleEvent
<1>10. OnReleased => FlushQueue([live |-> FALSE, attempt |-> 0]) \/ UNCHANGED <<queue, calls>>
  BY DEF OnReleased
<1>11. QED
  BY <1>5, <1>6, <1>7, <1>8, <1>9, <1>10

\* A call that is routed stays the one place of its prompt.
LEMMA RouteSole ==
  ASSUME QueueTypes, NEW c \in calls, RouteCall(c), NEW p, Sole(p)
  PROVE  SoleGoesOn(p)
<1>1. QueueKept(p) /\ EventsKept(p) /\ HeardKept(p) /\ calls \subseteq Calls /\ RunTypes /\ c.at # "sent" /\ c.prompt \in Prompts
  BY SamePlaces DEF RouteCall, window, QueueTypes, WireTypes, Calls, faults
<1>2. ASSUME NEW at \in {"claimed", "routed", "busy"}, NEW target \in Runs \cup {NoRun}, Move(c, at, target) PROVE CallsKept(p)
  BY <1>1, <1>2, CallsMove
<1>3. CASE \E r \in Runs, kind \in {"live", "plain"} : Claim(r, kind, {c.prompt}) /\ Move(c, "claimed", r)
  <2>1. PICK r \in Runs, kind \in {"live", "plain"} : Claim(r, kind, {c.prompt}) /\ Move(c, "claimed", r)
    BY <1>3
  <2>2. run'[r].phase = "claimed" /\ run'[r].inbox = run[r].inbox /\ \A s \in Runs \ {r} : run'[s] = run[s]
    BY <1>1, <2>1, ClaimEffect
  <2>3. OpeningKept(p) /\ InboxKept(p)
    BY <2>2, RunGives
  <2>4. CallsKept(p)
    BY <1>2, <2>1
  <2>5. QED
    BY <1>1, <2>3, <2>4, AllKept
<1>4. CASE slot # NoRun /\ run' = run /\ (Move(c, "routed", slot) \/ Move(c, "busy", NoRun))
  <2>1. slot \in Runs \cup {NoRun}
    BY DEF QueueTypes, RestTypes
  <2>2. CallsKept(p)
    BY <1>2, <1>4, <2>1
  <2>3. QED
    BY <1>1, <1>4, <2>2, SamePlaces, AllKept
<1>5. QED
  BY <1>3, <1>4 DEF RouteCall

\* A claim becomes an opening: the call is done where the run takes it over.
LEMMA AcceptSole ==
  ASSUME QueueTypes, Claims, NEW c \in calls, AcceptCall(c), NEW p, Sole(p)
  PROVE  SoleGoesOn(p)
<1>1. QueueKept(p) /\ HeardKept(p) /\ calls \subseteq Calls /\ RunTypes /\ c.at = "claimed"
  BY SamePlaces DEF AcceptCall, window, QueueTypes, WireTypes, faults
<1>2. PICK r \in Runs : r = c.target
  BY <1>1 DEF Claims
<1>3. run[r].opening = {c.prompt}
  BY <1>1, <1>2 DEF Claims
<1>4. /\ run'[r].opening = {c.prompt} /\ run'[r].inbox = run[r].inbox
      /\ \A s \in Runs \ {r} : run'[s] = run[s]
  BY <1>1, <1>2, <1>3, PhaseChanges DEF AcceptCall, Passes, Phases
<1>5. InboxKept(p)
  BY <1>4, RunGives
<1>6. EventsKept(p)
  <2>1. PICK e : e = Event("accepted", run[c.target].kind)
    OBVIOUS
  <2>2. e \in Events
    BY <1>1, <1>2, <2>1 DEF Claims, Turn, RunTypes, RunSet, Event, Events
  <2>3. <<e>> \in Seq(Events) /\ events' = events \o <<e>> /\ e.kind # "inject_failed" /\ events \in Seq(Events)
    BY <2>1, <2>2 DEF AcceptCall, Emit, Event, QueueTypes, WireTypes
  <2>4. QED
    BY <2>3, OtherEvent, EventsGet
<1>7. /\ CallsKept(p)
      /\ c.prompt = p => InCalls(p)
      /\ OneCall(p) /\ c.prompt = p => ~InCalls(p)'
  BY <1>1, CallsMove DEF AcceptCall
<1>8. CASE c.prompt # p
  <2>1. OpeningKept(p)
    <3>1. \A s \in Runs : p \in run'[s].opening /\ run'[s].phase = "accepted" => s # r /\ p \in run[s].opening /\ run[s].phase = "accepted"
      BY <1>4, <1>8
    <3>2. QED
      BY <3>1 DEF OpeningKept, InOpening, OneOpening
  <2>2. QED
    BY <1>1, <1>5, <1>6, <1>7, <2>1, AllKept
<1>9. CASE c.prompt = p
  <2>1. InCalls(p) /\ ~InCalls(p)' /\ OneCall(p)'
    BY <1>7, <1>9 DEF Sole, CallsKept
  <2>2. ~InQueue(p)' /\ ~InEvents(p)' /\ ~InInbox(p)' /\ ~(p \in Known') /\ ~InOpening(p)
    BY <1>1, <1>5, <1>6, <2>1 DEF Sole, QueueKept, EventsKept, InboxKept, HeardKept
  <2>3. OneOpening(p)'
    <3>1. \A s \in Runs : p \in run'[s].opening /\ run'[s].phase = "accepted" => s = r
      BY <1>4, <2>2 DEF InOpening
    <3>2. QED
      BY <3>1 DEF OneOpening
  <2>4. OneQueue(p)' /\ OneEvent(p)' /\ OneInbox(p)'
    BY <1>1, <1>5, <1>6 DEF Sole, QueueKept, EventsKept, InboxKept
  <2>5. QED
    BY <2>1, <2>2, <2>3, <2>4 DEF SoleGoesOn, Sole, Anywhere
<1>10. QED
  BY <1>8, <1>9

\* A call that fails does too, and undoes its claim.
LEMMA FailSole ==
  ASSUME QueueTypes, Claims, NEW c \in calls, Fail(c), NEW p, Sole(p)
  PROVE  SoleGoesOn(p)
<1>1. QueueKept(p) /\ EventsKept(p) /\ HeardKept(p) /\ calls \subseteq Calls /\ RunTypes /\ c.at # "sent"
  BY SamePlaces DEF Fail, window, QueueTypes, WireTypes, faults
<1>2. CallsKept(p)
  BY <1>1, CallsMove DEF Fail
<1>3. CASE run' = run
  BY <1>1, <1>2, <1>3, SamePlaces, AllKept
<1>4. CASE c.at = "claimed" /\ run' = [run EXCEPT ![c.target].phase = "over", ![c.target].opening = {}]
  <2>1. PICK r \in Runs : r = c.target
    BY <1>4 DEF Claims
  <2>2. run'[r].opening = {} /\ run'[r].inbox = run[r].inbox /\ \A s \in Runs \ {r} : run'[s] = run[s]
    BY <1>1, <1>4, <2>1 DEF RunTypes, RunSet
  <2>3. OpeningKept(p) /\ InboxKept(p)
    BY <2>2, RunGives
  <2>4. QED
    BY <1>1, <1>2, <2>3, AllKept
<1>5. QED
  BY <1>3, <1>4 DEF Fail

\* A follow-up reaches the run's inbox, or goes back by an event.
LEMMA InjectSole ==
  ASSUME QueueTypes, Claims, NEW c \in calls, Inject(c), NEW p, Sole(p)
  PROVE  SoleGoesOn(p)
<1>1. /\ QueueKept(p) /\ HeardKept(p) /\ calls \subseteq Calls /\ events \in Seq(Events) /\ RunTypes
      /\ c.at = "routed" /\ c.prompt \in Prompts
  BY SamePlaces DEF Inject, window, QueueTypes, WireTypes, Calls, faults
<1>2. /\ CallsKept(p)
      /\ c.prompt = p => InCalls(p)
      /\ OneCall(p) /\ c.prompt = p => ~InCalls(p)'
  BY <1>1, CallsMove DEF Inject
<1>3. PICK r \in Runs : r = c.target
  BY <1>1 DEF Claims
<1>4. CASE run' = [run EXCEPT ![c.target].inbox = Append(@, c.prompt)] /\ events' = events
  <2>1. /\ run'[r].phase = run[r].phase /\ run'[r].opening = run[r].opening
        /\ run'[r].inbox = Append(run[r].inbox, c.prompt)
        /\ run[r].inbox \in Seq(Prompts)
        /\ \A s \in Runs \ {r} : run'[s] = run[s]
    BY <1>1, <1>3, <1>4 DEF RunTypes, RunSet
  <2>2. EventsKept(p)
    BY <1>4, SamePlaces
  <2>3. OpeningKept(p)
    <3>1. \A s \in Runs : run'[s].phase = run[s].phase /\ run'[s].opening = run[s].opening
      BY <2>1
    <3>2. QED
      BY <3>1 DEF OpeningKept, InOpening, OneOpening
  <2>4. /\ In(run'[r].inbox, p) <=> In(run[r].inbox, p) \/ c.prompt = p
        /\ Once(run[r].inbox, p) /\ ~(In(run[r].inbox, p) /\ c.prompt = p) => Once(run'[r].inbox, p)
    BY <1>1, <2>1, InAppend
  <2>5. CASE c.prompt # p
    <3>1. InboxKept(p)
      BY <2>1, <2>4, <2>5, RunGives
    <3>2. QED
      BY <1>1, <1>2, <2>2, <2>3, <3>1, AllKept
  <2>6. CASE c.prompt = p
    <3>1. InCalls(p) /\ ~InCalls(p)' /\ OneCall(p)'
      BY <1>2, <2>6 DEF Sole, CallsKept
    <3>2. ~InQueue(p)' /\ ~InEvents(p)' /\ ~InOpening(p)' /\ ~(p \in Known') /\ ~InInbox(p)
      BY <1>1, <2>2, <2>3, <3>1 DEF Sole, QueueKept, EventsKept, OpeningKept, HeardKept
    <3>3. OneInbox(p)'
      <4>1. \A s \in Runs : ~In(run[s].inbox, p) /\ Once(run[s].inbox, p)
        BY <3>2 DEF InInbox, Sole, OneInbox
      <4>2. \A s \in Runs : Once(run'[s].inbox, p) /\ (In(run'[s].inbox, p) => s = r)
        BY <2>1, <2>4, <4>1
      <4>3. QED
        BY <4>2 DEF OneInbox
    <3>4. OneQueue(p)' /\ OneEvent(p)' /\ OneOpening(p)'
      BY <1>1, <2>2, <2>3 DEF Sole, QueueKept, EventsKept, OpeningKept
    <3>5. QED
      BY <3>1, <3>2, <3>3, <3>4 DEF SoleGoesOn, Sole, Anywhere
  <2>7. QED
    BY <2>5, <2>6
<1>5. CASE Emit(<<Event("inject_failed", c.prompt)>>) /\ run' = run
  <2>1. OpeningKept(p) /\ InboxKept(p)
    BY <1>5, SamePlaces
  <2>2. PICK new : new = <<Back(c.prompt)>>
    OBVIOUS
  <2>3. new \in Seq(Events) /\ events' = events \o new
    <3>1. Back(c.prompt) \in Events
      BY <1>1 DEF Back, Event, Events
    <3>2. new \in Seq(Events)
      BY <2>2, <3>1
    <3>3. QED
      BY <1>5, <2>2, <3>2 DEF Emit, Back
  <2>4. Once(new, Back(p)) /\ (In(new, Back(p)) <=> c.prompt = p)
    BY <2>2 DEF Once, In, Back, Event
  <2>5. /\ ~In(new, Back(p)) => EventsKept(p)
        /\ ~InEvents(p) /\ OneEvent(p) => OneEvent(p)'
    BY <1>1, <2>3, <2>4, EventsGet
  <2>6. CASE c.prompt # p
    BY <1>1, <1>2, <2>1, <2>4, <2>5, <2>6, AllKept
  <2>7. CASE c.prompt = p
    <3>1. InCalls(p) /\ ~InCalls(p)' /\ OneCall(p)' /\ OneEvent(p)'
      BY <1>2, <2>5, <2>7 DEF Sole, CallsKept
    <3>2. ~InQueue(p)' /\ ~InOpening(p)' /\ ~InInbox(p)' /\ ~(p \in Known')
      BY <1>1, <2>1, <3>1 DEF Sole, QueueKept, OpeningKept, InboxKept, HeardKept
    <3>3. OneQueue(p)' /\ OneOpening(p)' /\ OneInbox(p)'
      BY <1>1, <2>1 DEF Sole, QueueKept, OpeningKept, InboxKept
    <3>4. QED
      BY <3>1, <3>2, <3>3 DEF SoleGoesOn, Sole, Anywhere
  <2>8. QED
    BY <2>6, <2>7
<1>6. QED
  BY <1>4, <1>5 DEF Inject

\* A signal about a run hands nothing back.
LEMMA SignalKeeps ==
  ASSUME QueueTypes, NEW kind \in {"ready", "stopped", "released", "compacting", "compacted"}, Signal(kind), NEW p
  PROVE  EventsKept(p)
<1>1. PICK e : e = Event(kind, "run")
  OBVIOUS
<1>2. <<e>> \in Seq(Events) /\ events' = events \o <<e>> /\ e.kind # "inject_failed" /\ events \in Seq(Events)
  BY <1>1 DEF Signal, Emit, Event, Events, QueueTypes, WireTypes
<1>3. QED
  BY <1>2, OtherEvent, EventsGet

\* The provider reads what opened its turn.
LEMMA ReadySole ==
  ASSUME QueueTypes, NEW r \in Runs, Ready(r), NEW p, Sole(p)
  PROVE  SoleGoesOn(p)
<1>1. QueueKept(p) /\ CallsKept(p) /\ RunTypes
  BY SamePlaces DEF Ready, window, QueueTypes, faults
<1>2. EventsKept(p)
  BY SignalKeeps DEF Ready
<1>3. /\ run'[r].opening = {} /\ run'[r].inbox = run[r].inbox
      /\ \A s \in Runs \ {r} : run'[s] = run[s]
  BY <1>1 DEF Ready, RunTypes, RunSet
<1>4. OpeningKept(p) /\ InboxKept(p)
  BY <1>3, RunGives
<1>5. CASE p \notin run[r].opening
  <2>1. HeardKept(p)
    BY <1>5 DEF HeardKept, Ready, faults, Known
  <2>2. QED
    BY <1>1, <1>2, <1>4, <2>1, AllKept
<1>6. CASE p \in run[r].opening
  <2>1. InOpening(p)
    BY <1>6 DEF InOpening, Ready
  <2>2. ~InOpening(p)'
    <3>1. \A s \in Runs \ {r} : ~(p \in run[s].opening /\ run[s].phase = "accepted")
      BY <1>6 DEF Ready, Sole, OneOpening
    <3>2. QED
      BY <1>3, <3>1 DEF InOpening
  <2>3. ~InQueue(p)' /\ ~InEvents(p)' /\ ~InCalls(p)' /\ ~InInbox(p)'
    BY <1>1, <1>2, <1>4, <2>1 DEF Sole, QueueKept, EventsKept, CallsKept, InboxKept
  <2>4. OneQueue(p)' /\ OneEvent(p)' /\ OneCall(p)' /\ OneOpening(p)' /\ OneInbox(p)'
    BY <1>1, <1>2, <1>4 DEF Sole, QueueKept, EventsKept, CallsKept, OpeningKept, InboxKept
  <2>5. QED
    BY <2>1, <2>2, <2>3, <2>4 DEF SoleGoesOn, Sole, Anywhere
<1>7. QED
  BY <1>5, <1>6

\* The provider reads the next follow-up.
LEMMA DeliverSole ==
  ASSUME QueueTypes, NEW r \in Runs, DeliverNext(r), NEW p, Sole(p)
  PROVE  SoleGoesOn(p)
<1>1. QueueKept(p) /\ EventsKept(p) /\ CallsKept(p) /\ RunTypes
  BY SamePlaces DEF DeliverNext, window, QueueTypes, faults
<1>2. /\ run'[r].phase = run[r].phase /\ run[r].phase = "ready" /\ run'[r].inbox = Tail(run[r].inbox)
      /\ \A s \in Runs \ {r} : run'[s] = run[s]
  BY <1>1 DEF DeliverNext, RunTypes, RunSet
<1>3. PICK box \in Seq(Prompts) : box = run[r].inbox /\ box # <<>>
  BY <1>1 DEF DeliverNext, RunTypes, RunSet
<1>4. /\ In(box, Head(box))
      /\ In(Tail(box), p) => In(box, p)
      /\ Once(box, p) => Once(Tail(box), p) /\ (Head(box) = p => ~In(Tail(box), p))
  BY <1>3, InTail
<1>5. OpeningKept(p) /\ InboxKept(p)
  BY <1>2, <1>3, <1>4, RunGives
<1>6. heard' = heard \cup {Head(box)}
  BY <1>3 DEF DeliverNext
<1>7. CASE Head(box) # p
  <2>1. HeardKept(p)
    BY <1>3, <1>6, <1>7 DEF DeliverNext, HeardKept, Known, faults
  <2>2. QED
    BY <1>1, <1>5, <2>1, AllKept
<1>8. CASE Head(box) = p
  <2>1. InInbox(p)
    BY <1>3, <1>4, <1>8 DEF InInbox
  <2>2. ~InInbox(p)'
    <3>1. Once(run[r].inbox, p) /\ \A s \in Runs \ {r} : ~In(run[s].inbox, p)
      BY <1>3, <1>4, <1>8 DEF Sole, OneInbox
    <3>2. ~In(run'[r].inbox, p)
      BY <1>2, <1>3, <1>4, <1>8, <3>1
    <3>3. QED
      BY <1>2, <3>1, <3>2 DEF InInbox
  <2>3. ~InQueue(p)' /\ ~InEvents(p)' /\ ~InCalls(p)' /\ ~InOpening(p)'
    BY <1>1, <1>5, <2>1 DEF Sole, QueueKept, EventsKept, CallsKept, OpeningKept
  <2>4. OneQueue(p)' /\ OneEvent(p)' /\ OneCall(p)' /\ OneOpening(p)' /\ OneInbox(p)'
    BY <1>1, <1>5 DEF Sole, QueueKept, EventsKept, CallsKept, OpeningKept, InboxKept
  <2>5. QED
    BY <2>1, <2>2, <2>3, <2>4 DEF SoleGoesOn, Sole, Anywhere
<1>9. QED
  BY <1>7, <1>8

\* A follow-up whose delivery failed is with the window again, and whatever the
\* provider has of it, it has not answered for.
LEMMA FailsSole ==
  ASSUME QueueTypes, NEW r \in Runs, DeliveryFails(r), NEW p, Sole(p)
  PROVE  SoleGoesOn(p)
<1>1. QueueKept(p) /\ CallsKept(p) /\ RunTypes /\ events \in Seq(Events)
  BY SamePlaces DEF DeliveryFails, window, QueueTypes, WireTypes, faults
<1>2. PICK box \in Seq(Prompts) : box = run[r].inbox /\ box # <<>>
  BY <1>1 DEF DeliveryFails, RunTypes, RunSet
<1>3. /\ run'[r].phase # "accepted" /\ run[r].phase = "ready" /\ run'[r].inbox = Tail(box)
      /\ \A s \in Runs \ {r} : run'[s] = run[s]
  BY <1>1, <1>2 DEF DeliveryFails, RunTypes, RunSet
<1>4. /\ Head(box) \in Prompts /\ In(box, Head(box))
      /\ In(Tail(box), p) => In(box, p)
      /\ Once(box, p) => Once(Tail(box), p) /\ (Head(box) = p => ~In(Tail(box), p))
  BY <1>2, InTail
<1>5. OpeningKept(p) /\ InboxKept(p)
  BY <1>2, <1>3, <1>4, RunGives
<1>6. HeardKept(p)
  BY <1>2 DEF DeliveryFails, HeardKept, Known
<1>7. PICK new : new = <<Back(Head(box))>>
  OBVIOUS
<1>8. new \in Seq(Events) /\ Once(new, Back(p)) /\ (In(new, Back(p)) <=> Head(box) = p)
  <2>1. Back(Head(box)) \in Events
    BY <1>4 DEF Back, Event, Events
  <2>2. Back(Head(box)) = Back(p) <=> Head(box) = p
    BY DEF Back, Event
  <2>3. QED
    BY <1>7, <2>1, <2>2 DEF Once, In
<1>9. events' = events \o new
  BY <1>2, <1>7 DEF DeliveryFails, Emit, Back
<1>10. /\ ~In(new, Back(p)) => EventsKept(p)
       /\ ~InEvents(p) /\ OneEvent(p) => OneEvent(p)'
  BY <1>1, <1>8, <1>9, EventsGet
<1>11. CASE Head(box) # p
  BY <1>1, <1>5, <1>6, <1>8, <1>10, <1>11, AllKept
<1>12. CASE Head(box) = p
  <2>1. InInbox(p)
    BY <1>2, <1>4, <1>12 DEF InInbox
  <2>2. ~InInbox(p)'
    <3>1. Once(run[r].inbox, p) /\ \A s \in Runs \ {r} : ~In(run[s].inbox, p)
      BY <1>2, <1>4, <1>12 DEF Sole, OneInbox
    <3>2. ~In(run'[r].inbox, p)
      BY <1>2, <1>3, <1>4, <1>12, <3>1
    <3>3. QED
      BY <1>3, <3>1, <3>2 DEF InInbox
  <2>3. ~InQueue(p)' /\ ~InCalls(p)' /\ ~InOpening(p)' /\ ~(p \in Known')
    BY <1>1, <1>5, <1>6, <2>1 DEF Sole, QueueKept, CallsKept, OpeningKept, HeardKept
  <2>4. OneQueue(p)' /\ OneEvent(p)' /\ OneCall(p)' /\ OneOpening(p)' /\ OneInbox(p)'
    BY <1>1, <1>5, <1>10, <2>1 DEF Sole, QueueKept, CallsKept, OpeningKept, InboxKept
  <2>5. QED
    BY <2>1, <2>2, <2>3, <2>4 DEF SoleGoesOn, Sole, Anywhere
<1>13. QED
  BY <1>11, <1>12

\* A driver that closes hands back what it had, each prompt once.
LEMMA CloseSole ==
  ASSUME QueueTypes, Openings, NEW r \in Runs, Close(r), NEW p, Sole(p)
  PROVE  SoleGoesOn(p)
<1>1. QueueKept(p) /\ CallsKept(p) /\ HeardKept(p) /\ RunTypes /\ events \in Seq(Events)
  BY SamePlaces DEF Close, window, QueueTypes, WireTypes, faults
<1>2. /\ run'[r].opening = {} /\ run'[r].inbox = <<>>
      /\ \A s \in Runs \ {r} : run'[s] = run[s]
  BY <1>1 DEF Close, RunTypes, RunSet
<1>3. ~In(<<>>, p) /\ Once(<<>>, p)
  BY DEF In, Once
<1>4. OpeningKept(p) /\ InboxKept(p)
  BY <1>2, <1>3, RunGives
<1>5. PICK back, reopened, last \in Seq(Events), again \in SUBSET run[r].opening :
        /\ events' = events \o ((back \o reopened) \o last)
        /\ In(back, Back(p)) => In(run[r].inbox, p)
        /\ Once(run[r].inbox, p) => Once(back, Back(p))
        /\ In(reopened, Back(p)) <=> p \in again
        /\ Once(reopened, Back(p))
        /\ ~In(last, Back(p))
        /\ Once(last, Back(p))
  BY CloseEvents DEF Back
<1>6. In(back, Back(p)) => InInbox(p)
  BY <1>5 DEF InInbox
<1>7. In(reopened, Back(p)) => InOpening(p)
  <2>1. p \in again => p \in run[r].opening /\ run[r].phase \in {"accepted", "ready", "closing"}
    BY <1>5 DEF Close
  <2>2. p \in again => run[r].phase = "accepted"
    BY <2>1 DEF Openings
  <2>3. QED
    BY <1>5, <2>1, <2>2 DEF InOpening
<1>8. Once(back, Back(p))
  BY <1>5 DEF Sole, OneInbox
<1>9. ~(In(back, Back(p)) /\ In(reopened, Back(p)))
  BY <1>6, <1>7 DEF Sole
<1>10. /\ back \o reopened \in Seq(Events)
       /\ In(back \o reopened, Back(p)) <=> In(back, Back(p)) \/ In(reopened, Back(p))
       /\ Once(back \o reopened, Back(p))
  BY <1>5, <1>8, <1>9, InConcat
<1>11. PICK new \in Seq(Events) : new = (back \o reopened) \o last
  BY <1>5, <1>10, InConcat
<1>12. /\ In(new, Back(p)) <=> In(back, Back(p)) \/ In(reopened, Back(p))
       /\ Once(new, Back(p))
  BY <1>5, <1>10, <1>11, InConcat
<1>13. /\ ~In(new, Back(p)) => EventsKept(p)
       /\ ~InEvents(p) /\ OneEvent(p) => OneEvent(p)'
       /\ InEvents(p)' => InEvents(p) \/ In(new, Back(p))
  BY <1>1, <1>5, <1>11, <1>12, EventsGet
<1>14. CASE ~In(new, Back(p))
  BY <1>1, <1>4, <1>13, <1>14, AllKept
<1>15. CASE In(new, Back(p))
  <2>1. InOpening(p) \/ InInbox(p)
    BY <1>6, <1>7, <1>12, <1>15
  <2>2. OneEvent(p)'
    BY <1>13, <2>1 DEF Sole
  <2>3. ~InOpening(p)' /\ ~InInbox(p)'
    <3>1. CASE In(reopened, Back(p))
      <4>1. InOpening(p) /\ p \in run[r].opening /\ run[r].phase = "accepted"
        BY <1>5, <1>7, <3>1 DEF InOpening, Close, Openings
      <4>2. \A s \in Runs \ {r} : ~(p \in run[s].opening /\ run[s].phase = "accepted")
        BY <4>1 DEF Sole, OneOpening
      <4>3. ~InOpening(p)'
        BY <1>2, <4>2 DEF InOpening
      <4>4. ~InInbox(p)'
        BY <1>4, <4>1 DEF Sole, InboxKept
      <4>5. QED
        BY <4>3, <4>4
    <3>2. CASE In(back, Back(p))
      <4>1. InInbox(p) /\ In(run[r].inbox, p)
        BY <1>5, <1>6, <3>2
      <4>2. \A s \in Runs \ {r} : ~In(run[s].inbox, p)
        BY <4>1 DEF Sole, OneInbox
      <4>3. ~InInbox(p)'
        BY <1>2, <1>3, <4>2 DEF InInbox
      <4>4. ~InOpening(p)'
        BY <1>4, <4>1 DEF Sole, OpeningKept
      <4>5. QED
        BY <4>3, <4>4
    <3>3. QED
      BY <1>12, <1>15, <3>1, <3>2
  <2>4. ~InQueue(p)' /\ ~InCalls(p)' /\ ~(p \in Known')
    BY <1>1, <2>1 DEF Sole, QueueKept, CallsKept, HeardKept
  <2>5. OneQueue(p)' /\ OneCall(p)' /\ OneOpening(p)' /\ OneInbox(p)'
    BY <1>1, <1>4 DEF Sole, QueueKept, CallsKept, OpeningKept, InboxKept
  <2>6. QED
    BY <2>1, <2>2, <2>3, <2>4, <2>5 DEF SoleGoesOn, Sole, Anywhere
<1>16. QED
  BY <1>14, <1>15

\* The other steps of a driver bring no prompt anywhere.
LEMMA DriverSole ==
  ASSUME QueueTypes, Openings, NEW r \in Runs, NEW p, Sole(p),
         ReleaseSlot(r) \/ EmitReleased(r) \/ CommandBegins(r) \/ CommandEnds(r) \/ CommandBreaks(r)
  PROVE  SoleGoesOn(p)
<1>1. QueueKept(p) /\ CallsKept(p) /\ HeardKept(p) /\ RunTypes
  BY SamePlaces DEF ReleaseSlot, EmitReleased, CommandBegins, CommandEnds, CommandBreaks, window, QueueTypes, faults
<1>2. EventsKept(p)
  BY SignalKeeps, SamePlaces DEF ReleaseSlot, EmitReleased, CommandBegins, CommandEnds, CommandBreaks
<1>3. OpeningKept(p) /\ InboxKept(p)
  <2>1. CASE ReleaseSlot(r)
    <3>1. /\ run'[r].opening = {} /\ run'[r].inbox = <<>>
          /\ \A s \in Runs \ {r} : run'[s] = run[s]
      BY <1>1, <2>1 DEF ReleaseSlot, Gone, RunTypes
    <3>2. ~In(<<>>, p) /\ Once(<<>>, p)
      BY DEF In, Once
    <3>3. QED
      BY <3>1, <3>2, RunGives
  <2>2. CASE EmitReleased(r) \/ CommandBegins(r) \/ CommandEnds(r) \/ CommandBreaks(r)
    <3>1. run[r].opening = {}
      BY <2>2 DEF EmitReleased, CommandBegins, CommandEnds, CommandBreaks, Passes, Openings
    <3>2. PICK to \in Phases : run' = [run EXCEPT ![r].phase = to]
      BY <2>2 DEF EmitReleased, CommandBegins, CommandEnds, CommandBreaks, Passes, Phases
    <3>3. /\ run'[r].opening = {} /\ run'[r].inbox = run[r].inbox
          /\ \A s \in Runs \ {r} : run'[s] = run[s]
      BY <1>1, <3>1, <3>2, PhaseChanges
    <3>4. QED
      BY <3>3, RunGives
  <2>3. QED
    BY <2>1, <2>2
<1>4. QED
  BY <1>1, <1>2, <1>3, AllKept

\* Text is no prompt.
LEMMA TextSole ==
  ASSUME QueueTypes, NEW r \in Runs, Text(r), NEW p, Sole(p)
  PROVE  SoleGoesOn(p)
<1>1. QueueKept(p) /\ CallsKept(p) /\ OpeningKept(p) /\ InboxKept(p) /\ HeardKept(p) /\ RunTypes
  BY SamePlaces DEF Text, window, backend, QueueTypes, faults
<1>2. PICK e : e = Event("text", run[r].kind)
  OBVIOUS
<1>3. e \in Events
  BY <1>1, <1>2 DEF Text, Turn, RunTypes, RunSet, Event, Events
<1>4. <<e>> \in Seq(Events) /\ events' = events \o <<e>> /\ e.kind # "inject_failed" /\ events \in Seq(Events)
  BY <1>2, <1>3 DEF Text, Emit, Event, QueueTypes, WireTypes
<1>5. EventsKept(p)
  BY <1>4, OtherEvent, EventsGet
<1>6. QED
  BY <1>1, <1>5, AllKept

\* A compaction opens with no prompt.
LEMMA CompactClaimSole ==
  ASSUME QueueTypes, NEW r \in Runs, CompactClaim(r), NEW p, Sole(p)
  PROVE  SoleGoesOn(p)
<1>1. QueueKept(p) /\ EventsKept(p) /\ CallsKept(p) /\ HeardKept(p) /\ RunTypes /\ Claim(r, "command", {})
  BY SamePlaces DEF CompactClaim, window, QueueTypes, faults
<1>2. run'[r].opening = {} /\ run'[r].inbox = run[r].inbox /\ \A s \in Runs \ {r} : run'[s] = run[s]
  BY <1>1, ClaimEffect
<1>3. OpeningKept(p) /\ InboxKept(p)
  BY <1>2, RunGives
<1>4. QED
  BY <1>1, <1>3, AllKept

\* Where none of the six places changes.
LEMMA StillSole ==
  ASSUME queue' = queue, events' = events, calls' = calls, run' = run, UNCHANGED <<heard, unanswered>>, NEW p, Sole(p)
  PROVE  SoleGoesOn(p)
BY SamePlaces, AllKept

-----------------------------------------------------------------------------
\* Every prompt is in one place at most, and only a typed one is anywhere.
PromptsSole == \A p \in Prompts : Sole(p) /\ (Anywhere(p) => p \in typed)
QueueInv == QueueTypes /\ Openings /\ Claims /\ PromptsSole

\* So every step leaves each prompt in one place at most.
LEMMA PromptsSoleKept ==
  ASSUME QueueTypes, Openings, Claims, PromptsSole, [QueueNext]_queueVars
  PROVE  PromptsSole'
<1>1. SUFFICES ASSUME NEW p \in Prompts PROVE Sole(p)' /\ (Anywhere(p)' => p \in typed')
  BY DEF PromptsSole
<1>2. Sole(p) /\ (Anywhere(p) => p \in typed)
  BY DEF PromptsSole
<1>3. CASE \E x \in Prompts : SendKnown(x)
  BY <1>2, <1>3, SendSole
<1>4. ASSUME SoleGoesOn(p), typed' = typed PROVE Sole(p)' /\ (Anywhere(p)' => p \in typed')
  BY <1>2, <1>4 DEF SoleGoesOn
<1>5. CASE WindowStep
  <2>1. typed' = typed
    BY <1>5 DEF WindowStep, HandleEvent, TimerFires, Answer
  <2>2. CASE HandleEvent
    BY <1>2, <1>4, <2>1, <2>2, HandleSole
  <2>3. ASSUME NEW f \in Flushes, TimerFires(f) PROVE SoleGoesOn(p)
    <3>1. FlushQueue(f) /\ EventsKept(p) /\ run' = run /\ UNCHANGED <<heard, unanswered>>
      BY <2>3, SamePlaces DEF TimerFires, backend, faults
    <3>2. QED
      BY <1>2, <3>1, FlushSole
  <2>4. ASSUME NEW c \in calls, Answer(c) PROVE SoleGoesOn(p)
    BY <1>2, <2>4, AnswerSole
  <2>5. QED
    BY <1>4, <1>5, <2>1, <2>2, <2>3, <2>4 DEF WindowStep
<1>6. ASSUME NEW c \in calls, Serve(c) \/ Fail(c) PROVE Sole(p)' /\ (Anywhere(p)' => p \in typed')
  <2>1. typed' = typed
    BY <1>6 DEF Serve, RouteCall, AcceptCall, Inject, Fail, window, faults
  <2>2. SoleGoesOn(p)
    BY <1>2, <1>6, RouteSole, AcceptSole, InjectSole, FailSole DEF Serve
  <2>3. QED
    BY <1>4, <2>1, <2>2
<1>7. ASSUME NEW r \in Runs, DriverStep(r) \/ DeliveryFails(r) \/ Text(r) \/ CommandBreaks(r) \/ CompactClaim(r)
      PROVE  Sole(p)' /\ (Anywhere(p)' => p \in typed')
  <2>1. typed' = typed
    BY <1>7 DEF DriverStep, Text, CommandBreaks, CompactClaim, Ready, DeliverNext, DeliveryFails, Close,
                ReleaseSlot, EmitReleased, CommandBegins, CommandEnds, window
  <2>2. SoleGoesOn(p)
    BY <1>2, <1>7, ReadySole, DeliverSole, FailsSole, CloseSole, DriverSole, TextSole, CompactClaimSole DEF DriverStep
  <2>3. QED
    BY <1>4, <2>1, <2>2
<1>8. CASE UNCHANGED queueVars \/ StopPress \/ StopFinish \/ CompactPress \/ CompactRefused \/ CompactBusy \/ CompactWaits
  <2>1. queue' = queue /\ events' = events /\ calls' = calls /\ run' = run /\ UNCHANGED <<heard, unanswered>> /\ typed' = typed
    BY <1>8 DEF queueVars, window, backend, StopPress, StopFinish, CompactPress, CompactRefused, CompactBusy, CompactWaits, faults
  <2>2. QED
    BY <1>2, <1>4, <2>1, StillSole
<1>9. QED
  BY <1>3, <1>5, <1>6, <1>7, <1>8 DEF QueueNext, BackendStep, CompactStep

\* In the beginning no prompt is anywhere.
LEMMA QueueInvInit ==
  ASSUME QueueInit
  PROVE  QueueInv
<1>1. QueueTypes
  <2>1. run = [r \in Runs |-> Gone("unused")] /\ Gone("unused") \in RunSet
    BY DEF QueueInit, Gone, RunSet, Phases
  <2>2. timers \in [Flushes -> Nat]
    BY DEF QueueInit
  <2>3. queue \in Seq(Prompts) /\ events \in Seq(Events)
    BY DEF QueueInit
  <2>4. RunTypes
    BY <2>1 DEF RunTypes
  <2>5. WindowTypes /\ WireTypes
    BY <2>2, <2>3 DEF QueueInit, WindowTypes, WireTypes
  <2>6. RestTypes
    BY BoundsAssumption DEF QueueInit, RestTypes
  <2>7. QED
    BY <2>4, <2>5, <2>6 DEF QueueTypes
<1>2. calls = {} /\ queue = <<>> /\ events = <<>> /\ heard = {} /\ unanswered = {}
      /\ \A r \in Runs : run[r].opening = {} /\ run[r].inbox = <<>>
  BY DEF QueueInit, Gone
<1>3. Openings /\ Claims
  BY <1>2 DEF Openings, Claims
<1>4. \A e : ~In(<<>>, e) /\ Once(<<>>, e)
  BY DEF In, Once
<1>5. ASSUME NEW p PROVE Sole(p) /\ ~Anywhere(p)
  <2>1. ~InQueue(p) /\ ~InEvents(p) /\ ~InCalls(p) /\ ~InOpening(p) /\ ~InInbox(p) /\ p \notin Known
    BY <1>2, <1>4 DEF InQueue, InEvents, InCalls, InOpening, InInbox, Known
  <2>2. OneQueue(p) /\ OneEvent(p) /\ OneCall(p) /\ OneOpening(p) /\ OneInbox(p)
    BY <1>2, <1>4 DEF OneQueue, OneEvent, OneCall, OneOpening, OneInbox
  <2>3. QED
    BY <2>1, <2>2 DEF Sole, Anywhere
<1>6. QED
  BY <1>1, <1>3, <1>5 DEF QueueInv, PromptsSole

\* A set whose elements are equal has at most one.
LEMMA AtMostOne ==
  ASSUME NEW S, \A a, b \in S : a = b
  PROVE  Cardinality(S) = 0 \/ (Cardinality(S) = 1 /\ S # {})
<1>1. CASE S = {}
  BY <1>1, FS_EmptySet
<1>2. CASE S # {}
  <2>1. PICK x : S = {x}
    BY <1>2
  <2>2. QED
    BY <1>2, <2>1, FS_Singleton
<1>3. QED
  BY <1>1, <1>2

\* What Sole says is what NoPromptTwice counts.
LEMMA SoleCounts ==
  ASSUME NEW p, Sole(p)
  PROVE  Cardinality(Held(p)) + Cardinality(HandedBack(p)) + Cardinality(UnderWay(p))
           + Cardinality(Opens(p)) + Cardinality(Waits(p)) + Cardinality(Known \cap {p}) <= 1
<1>1. Cardinality(Held(p)) = 0 \/ (Cardinality(Held(p)) = 1 /\ InQueue(p))
  <2>1. \A a, b \in Held(p) : a = b
    BY DEF Held, Sole, OneQueue, Once
  <2>2. Held(p) # {} => InQueue(p)
    BY DEF Held, InQueue, In
  <2>3. QED
    BY <2>1, <2>2, AtMostOne
<1>2. Cardinality(HandedBack(p)) = 0 \/ (Cardinality(HandedBack(p)) = 1 /\ InEvents(p))
  <2>1. \A a, b \in HandedBack(p) : a = b
    BY DEF HandedBack, Sole, OneEvent, Once, Back
  <2>2. HandedBack(p) # {} => InEvents(p)
    BY DEF HandedBack, InEvents, In, Back
  <2>3. QED
    BY <2>1, <2>2, AtMostOne
<1>3. Cardinality(UnderWay(p)) = 0 \/ (Cardinality(UnderWay(p)) = 1 /\ InCalls(p))
  <2>1. \A a, b \in UnderWay(p) : a = b
    BY DEF UnderWay, Sole, OneCall, Asks
  <2>2. UnderWay(p) # {} => InCalls(p)
    BY DEF UnderWay, InCalls, Asks
  <2>3. QED
    BY <2>1, <2>2, AtMostOne
<1>4. Cardinality(Opens(p)) = 0 \/ (Cardinality(Opens(p)) = 1 /\ InOpening(p))
  <2>1. \A a, b \in Opens(p) : a = b
    BY DEF Opens, Sole, OneOpening
  <2>2. Opens(p) # {} => InOpening(p)
    BY DEF Opens, InOpening
  <2>3. QED
    BY <2>1, <2>2, AtMostOne
<1>5. Cardinality(Waits(p)) = 0 \/ (Cardinality(Waits(p)) = 1 /\ InInbox(p))
  <2>1. \A a \in Waits(p) : \E r \in Runs : \E i \in DOMAIN run[r].inbox : a = <<r, i>> /\ run[r].inbox[i] = p
    BY DEF Waits
  <2>2. \A a, b \in Waits(p) : a = b
    <3>1. SUFFICES ASSUME NEW a \in Waits(p), NEW b \in Waits(p) PROVE a = b
      OBVIOUS
    <3>2. PICK r \in Runs : \E i \in DOMAIN run[r].inbox : a = <<r, i>> /\ run[r].inbox[i] = p
      BY <2>1
    <3>3. PICK i \in DOMAIN run[r].inbox : a = <<r, i>> /\ run[r].inbox[i] = p
      BY <3>2
    <3>4. PICK s \in Runs : \E j \in DOMAIN run[s].inbox : b = <<s, j>> /\ run[s].inbox[j] = p
      BY <2>1
    <3>5. PICK j \in DOMAIN run[s].inbox : b = <<s, j>> /\ run[s].inbox[j] = p
      BY <3>4
    <3>6. r = s
      BY <3>3, <3>5 DEF Sole, OneInbox, In
    <3>7. i = j
      BY <3>3, <3>5, <3>6 DEF Sole, OneInbox, Once
    <3>8. QED
      BY <3>3, <3>5, <3>6, <3>7
  <2>3. Waits(p) # {} => InInbox(p)
    BY <2>1 DEF InInbox, In
  <2>4. QED
    BY <2>2, <2>3, AtMostOne
<1>6. Cardinality(Known \cap {p}) = 0 \/ (Cardinality(Known \cap {p}) = 1 /\ p \in Known)
  <2>1. \A a, b \in Known \cap {p} : a = b
    OBVIOUS
  <2>2. Known \cap {p} # {} => p \in Known
    OBVIOUS
  <2>3. QED
    BY <2>1, <2>2, AtMostOne
<1>7. QED
  BY <1>1, <1>2, <1>3, <1>4, <1>5, <1>6 DEF Sole

\* The invariant of PromptQueue.
LEMMA QueueInvariant == QueueSpec => []QueueInv
<1>1. QueueInv /\ [QueueNext]_queueVars => QueueInv'
  BY QueueTypesKept, LinksKept, PromptsSoleKept DEF QueueInv
<1>2. QED
  BY <1>1, QueueInvInit, PTL DEF QueueSpec

\* The window, the calls, the events and the backend always hold values of
\* their types.
THEOREM QueueTypeCorrect == QueueSpec => []QueueTypeOK
<1>1. QueueInv => QueueTypeOK
  BY QueueTypesAll DEF QueueInv
<1>2. QED
  BY <1>1, QueueInvariant, PTL

\* A prompt is never in two places: for every number of prompts and of runs,
\* whatever is sent, refused, handed back, stopped or compacted, and in whatever
\* order the calls are answered.
THEOREM NoPromptTwiceHolds == QueueSpec => []NoPromptTwice
<1>1. QueueInv => NoPromptTwice
  BY SoleCounts DEF QueueInv, PromptsSole, NoPromptTwice, Known
<1>2. QED
  BY <1>1, QueueInvariant, PTL

-----------------------------------------------------------------------------
\* What the window holds stays with it, or comes to a run.
Flushing(p) == \E c \in calls : Asks(c, p) /\ c.by = "flush"
AtWindow(p) == InQueue(p) \/ InEvents(p) \/ Flushing(p)
AtRun(p) == InOpening(p) \/ InInbox(p)
NotLost(p) == AtWindow(p) => AtWindow(p)' \/ AtRun(p)'
QueueStays(p) == InQueue(p) => InQueue(p)'
EventsStay(p) == InEvents(p) => InEvents(p)'
FlushStays(p) == Flushing(p) => Flushing(p)'

\* These are the places HeldIsNeverLost speaks of.
LEMMA WindowPlaces ==
  ASSUME NEW p
  PROVE  (WithWindow(p) <=> AtWindow(p)) /\ (AtRun(p) <=> WithRun(p))
<1>1. Held(p) # {} <=> InQueue(p)
  BY DEF Held, InQueue, In
<1>2. HandedBack(p) # {} <=> InEvents(p)
  BY DEF HandedBack, InEvents, In, Back
<1>3. (\E c \in UnderWay(p) : c.by = "flush") <=> Flushing(p)
  BY DEF UnderWay, Flushing, Asks
<1>4. Opens(p) # {} <=> InOpening(p)
  BY DEF Opens, InOpening
<1>5. Waits(p) # {} <=> InInbox(p)
  <2>1. ASSUME NEW a \in Waits(p) PROVE InInbox(p)
    BY <2>1 DEF Waits, InInbox, In
  <2>2. ASSUME InInbox(p) PROVE Waits(p) # {}
    <3>1. PICK r \in Runs : \E k \in DOMAIN run[r].inbox : run[r].inbox[k] = p
      BY <2>2 DEF InInbox, In
    <3>2. PICK k \in DOMAIN run[r].inbox : run[r].inbox[k] = p
      BY <3>1
    <3>3. <<r, k>> \in {r} \X {i \in DOMAIN run[r].inbox : run[r].inbox[i] = p}
      BY <3>2
    <3>4. <<r, k>> \in Waits(p)
      BY <3>3 DEF Waits
    <3>5. QED
      BY <3>4
  <2>3. QED
    BY <2>1, <2>2
<1>6. QED
  BY <1>1, <1>2, <1>3, <1>4, <1>5 DEF WithWindow, WithRun, AtWindow, AtRun

\* ... and after a step.
LEMMA WindowPlacesNext ==
  ASSUME NEW p
  PROVE  (AtWindow(p)' => WithWindow(p)') /\ (AtRun(p)' => WithRun(p)')
<1>1. InQueue(p)' => Held(p)' # {}
  BY DEF Held, InQueue, In
<1>2. InEvents(p)' => HandedBack(p)' # {}
  BY DEF HandedBack, InEvents, In, Back
<1>3. Flushing(p)' => (\E c \in UnderWay(p) : c.by = "flush")'
  BY DEF UnderWay, Flushing, Asks
<1>4. InOpening(p)' => Opens(p)' # {}
  BY DEF Opens, InOpening
<1>5. InInbox(p)' => Waits(p)' # {}
  <2>1. SUFFICES ASSUME InInbox(p)' PROVE Waits(p)' # {}
    OBVIOUS
  <2>2. PICK r \in Runs : \E k \in DOMAIN run'[r].inbox : run'[r].inbox[k] = p
    BY <2>1 DEF InInbox, In
  <2>3. PICK k \in DOMAIN run'[r].inbox : run'[r].inbox[k] = p
    BY <2>2
  <2>4. <<r, k>> \in {r} \X {i \in DOMAIN run'[r].inbox : run'[r].inbox[i] = p}
    BY <2>3
  <2>5. <<r, k>> \in Waits(p)'
    BY <2>4 DEF Waits
  <2>6. QED
    BY <2>5
<1>6. QED
  BY <1>1, <1>2, <1>3, <1>4, <1>5 DEF WithWindow, WithRun, AtWindow, AtRun

\* A step that takes the prompt from nowhere.
LEMMA AllStay ==
  ASSUME NEW p, QueueStays(p), EventsStay(p), FlushStays(p)
  PROVE  NotLost(p)
BY DEF NotLost, AtWindow, QueueStays, EventsStay, FlushStays

\* Where nothing changes.
LEMMA SameStay ==
  ASSUME NEW p
  PROVE  /\ queue' = queue => QueueStays(p)
         /\ events' = events => EventsStay(p)
         /\ calls' = calls => FlushStays(p)
BY DEF QueueStays, EventsStay, FlushStays, InQueue, InEvents, Flushing

\* A prompt that joins the queue pushes out none.
LEMMA QueueGrows ==
  ASSUME queue \in Seq(Prompts), NEW p, NEW x \in Prompts, queue' = Append(queue, x) \/ queue' = <<x>> \o queue
  PROVE  QueueStays(p) /\ InQueue(x)'
<1>1. <<x>> \in Seq(Prompts) /\ In(<<x>>, x)
  BY DEF In
<1>2. CASE queue' = Append(queue, x)
  BY <1>2, InAppend DEF QueueStays, InQueue
<1>3. CASE queue' = <<x>> \o queue
  BY <1>1, <1>3, InConcat DEF QueueStays, InQueue
<1>4. QED
  BY <1>2, <1>3

\* What is emitted pushes out no event.
LEMMA EventsGrow ==
  ASSUME events \in Seq(Events), NEW new \in Seq(Events), events' = events \o new, NEW p
  PROVE  EventsStay(p) /\ (In(new, Back(p)) => InEvents(p)')
BY InConcat DEF EventsStay, InEvents

\* The rest of a sequence has all but its head.
LEMMA TailKeeps ==
  ASSUME NEW S, NEW s \in Seq(S), s # <<>>, NEW e, In(s, e), Head(s) # e
  PROVE  In(Tail(s), e)
<1>1. /\ DOMAIN s = 1 .. Len(s) /\ Len(s) \in Nat /\ Head(s) = s[1]
      /\ DOMAIN Tail(s) = 1 .. Len(s) - 1
      /\ \A k \in 1 .. Len(s) - 1 : Tail(s)[k] = s[k + 1]
  OBVIOUS
<1>2. PICK k \in 1 .. Len(s) : s[k] = e
  BY <1>1 DEF In
<1>3. k - 1 \in 1 .. Len(s) - 1 /\ (k - 1) + 1 = k
  BY <1>1, <1>2
<1>4. Tail(s)[k - 1] = e
  BY <1>1, <1>2, <1>3
<1>5. QED
  BY <1>1, <1>3, <1>4 DEF In

\* A call that moves on is still there, unless its answer is not waited for.
LEMMA MoveStays ==
  ASSUME calls \subseteq Calls, NEW c \in calls, NEW at \in {"asked", "claimed", "routed", "sent", "busy", "failed"},
         NEW target \in Runs \cup {NoRun}, Move(c, at, target), NEW p
  PROVE  /\ at # "sent" => FlushStays(p)
         /\ c.prompt # p => FlushStays(p)
<1> DEFINE d == [c EXCEPT !.at = at, !.target = target]
<1>1. d.at = at /\ d.prompt = c.prompt /\ d.by = c.by
  BY DEF Calls
<1>2. calls' = (calls \ {c}) \cup (IF at = "sent" /\ ~c.flush.live THEN {} ELSE {d})
  BY Zenon DEF Move
<1> HIDE DEF d
<1>3. calls \ {c} \subseteq calls' /\ (at # "sent" => d \in calls')
  BY <1>2
<1>4. at # "sent" => FlushStays(p)
  BY <1>1, <1>3 DEF FlushStays, Flushing, Asks
<1>5. c.prompt # p => FlushStays(p)
  BY <1>1, <1>3 DEF FlushStays, Flushing, Asks
<1>6. QED
  BY <1>4, <1>5

\* A flush has its prompt in its call.
LEMMA FlushNotLost ==
  ASSUME QueueTypes, NEW f \in Flushes, FlushQueue(f), NEW p, EventsStay(p)
  PROVE  NotLost(p)
<1>1. CASE UNCHANGED <<queue, calls>>
  BY <1>1, SameStay, AllStay
<1>2. CASE queue # <<>> /\ queue' = Tail(queue) /\ calls' = calls \cup {Call(Head(queue), "flush", f)}
  <2>1. FlushStays(p)
    BY <1>2 DEF FlushStays, Flushing
  <2>2. CASE Head(queue) = p
    <3>1. Asks(Call(p, "flush", f), p) /\ Call(p, "flush", f).by = "flush" /\ Call(p, "flush", f) \in calls'
      BY <1>2, <2>2 DEF Asks, Call
    <3>2. Flushing(p)'
      BY <3>1 DEF Flushing
    <3>3. QED
      BY <3>2 DEF NotLost, AtWindow
  <2>3. CASE Head(queue) # p
    <3>1. QueueStays(p)
      BY <1>2, <2>3, TailKeeps DEF QueueTypes, WindowTypes, QueueStays, InQueue
    <3>2. QED
      BY <2>1, <3>1, AllStay
  <2>4. QED
    BY <2>2, <2>3
<1>3. QED
  BY <1>1, <1>2 DEF FlushQueue

\* A refused flush has its prompt in the queue again.
LEMMA AnswerNotLost ==
  ASSUME QueueTypes, NEW c \in calls, Answer(c), NEW p
  PROVE  NotLost(p)
<1>1. EventsStay(p) /\ c.prompt \in Prompts /\ queue \in Seq(Prompts)
  BY SameStay DEF Answer, QueueTypes, WireTypes, WindowTypes, Calls
<1>2. queue' = queue \/ queue' = Append(queue, c.prompt) \/ queue' = <<c.prompt>> \o queue
  BY DEF Answer
<1>3. QueueStays(p)
  <2>1. CASE queue' = queue
    BY <2>1, SameStay
  <2>2. CASE queue' = Append(queue, c.prompt) \/ queue' = <<c.prompt>> \o queue
    BY <1>1, <2>2, QueueGrows
  <2>3. QED
    BY <1>2, <2>1, <2>2
<1>4. CASE ~(Asks(c, p) /\ c.by = "flush")
  <2>1. FlushStays(p)
    BY <1>4 DEF Answer, FlushStays, Flushing
  <2>2. QED
    BY <1>1, <1>3, <2>1, AllStay
<1>5. CASE Asks(c, p) /\ c.by = "flush"
  <2>1. queue' = <<c.prompt>> \o queue /\ c.prompt = p
    BY <1>5 DEF Answer, Asks
  <2>2. InQueue(p)'
    BY <1>1, <2>1, QueueGrows
  <2>3. QED
    BY <2>2 DEF NotLost, AtWindow
<1>6. QED
  BY <1>4, <1>5

\* What an event hands back is in the queue.
LEMMA HandleNotLost ==
  ASSUME QueueTypes, HandleEvent, NEW p
  PROVE  NotLost(p)
<1>1. events # <<>> /\ events' = Tail(events) /\ events \in Seq(Events) /\ queue \in Seq(Prompts)
  BY DEF HandleEvent, QueueTypes, WireTypes, WindowTypes
<1>2. PICK e \in Events : e = Head(events)
  BY <1>1, InTail
<1>3. e # Back(p) => EventsStay(p)
  BY <1>1, <1>2, TailKeeps DEF EventsStay, InEvents
<1>4. CASE e.kind = "inject_failed" /\ HoldAgain(e.about)
  <2>1. e.about \in Prompts /\ e = Back(e.about)
    BY <1>4 DEF Events, Back, Event
  <2>2. FlushStays(p)
    BY <1>4, SameStay DEF HoldAgain
  <2>3. QueueStays(p) /\ InQueue(e.about)'
    <3>1. CASE (\E i \in DOMAIN queue : queue[i] = e.about) /\ queue' = queue
      BY <3>1, SameStay DEF InQueue, In
    <3>2. CASE queue' = Append(queue, e.about)
      BY <1>1, <2>1, <3>2, QueueGrows
    <3>3. QED
      BY <1>4, <3>1, <3>2 DEF HoldAgain
  <2>4. CASE e.about = p
    BY <2>3, <2>4 DEF NotLost, AtWindow
  <2>5. CASE e.about # p
    <3>1. e # Back(p)
      BY <2>1, <2>5 DEF Back, Event
    <3>2. QED
      BY <1>3, <2>2, <2>3, <3>1, AllStay
  <2>6. QED
    BY <2>4, <2>5
<1>5. CASE e.kind # "inject_failed"
  <2>1. EventsStay(p)
    BY <1>3, <1>5 DEF Back, Event
  <2>2. [live |-> FALSE, attempt |-> 0] \in Flushes /\ [live |-> TRUE, attempt |-> 0] \in Flushes
    BY BoundsAssumption DEF Flushes
  <2>3. \/ OnReleased
        \/ FlushQueue([live |-> TRUE, attempt |-> 0])
        \/ UNCHANGED <<queue, calls>>
    BY <1>2, <1>5 DEF HandleEvent
  <2>4. OnReleased => FlushQueue([live |-> FALSE, attempt |-> 0]) \/ UNCHANGED <<queue, calls>>
    BY DEF OnReleased
  <2>5. CASE UNCHANGED <<queue, calls>>
    BY <2>1, <2>5, SameStay, AllStay
  <2>6. CASE \E f \in Flushes : FlushQueue(f)
    BY <2>1, <2>6, FlushNotLost
  <2>7. QED
    BY <2>2, <2>3, <2>4, <2>5, <2>6
<1>6. e.kind = "inject_failed" => HoldAgain(e.about)
  BY <1>2 DEF HandleEvent
<1>7. QED
  BY <1>4, <1>5, <1>6

\* What is typed next pushes out nothing.
LEMMA SendNotLost ==
  ASSUME QueueTypes, NEW x \in Prompts, SendKnown(x), NEW p
  PROVE  NotLost(p)
<1>1. EventsStay(p) /\ queue \in Seq(Prompts)
  BY SameStay DEF SendKnown, QueueTypes, WindowTypes
<1>2. QueueStays(p)
  <2>1. CASE queue' = queue
    BY <2>1, SameStay
  <2>2. CASE queue' = Append(queue, x)
    BY <1>1, <2>2, QueueGrows
  <2>3. QED
    BY <2>1, <2>2, Zenon DEF SendKnown
<1>3. calls \subseteq calls'
  <2>1. CASE calls' = calls
    BY <2>1
  <2>2. CASE calls' = calls \cup {Call(x, "send", [live |-> FALSE, attempt |-> 0])}
    BY <2>2
  <2>3. QED
    BY <2>1, <2>2, Zenon DEF SendKnown
<1>4. FlushStays(p)
  BY <1>3 DEF FlushStays, Flushing
<1>5. QED
  BY <1>1, <1>2, <1>4, AllStay

\* A call comes to a run, or goes back: its prompt is there.
LEMMA CallNotLost ==
  ASSUME QueueTypes, Claims, NEW c \in calls, Serve(c) \/ Fail(c), NEW p
  PROVE  NotLost(p)
<1>1. calls \subseteq Calls /\ c.prompt \in Prompts /\ events \in Seq(Events) /\ RunTypes /\ slot \in Runs \cup {NoRun}
  BY DEF QueueTypes, WireTypes, RestTypes, faults, Calls
<1>2. QueueStays(p)
  BY SameStay DEF Serve, RouteCall, AcceptCall, Inject, Fail, window, faults
<1>3. CASE RouteCall(c) \/ Fail(c)
  <2>1. EventsStay(p)
    BY <1>3, SameStay DEF RouteCall, Fail
  <2>2. \E at \in {"claimed", "routed", "busy", "failed"}, target \in Runs \cup {NoRun} : Move(c, at, target)
    BY <1>1, <1>3 DEF RouteCall, Fail
  <2>3. FlushStays(p)
    BY <1>1, <2>2, MoveStays
  <2>4. QED
    BY <1>2, <2>1, <2>3, AllStay
<1>4. CASE AcceptCall(c)
  <2>1. PICK r \in Runs : r = c.target /\ run[r].opening = {c.prompt}
    BY <1>4 DEF AcceptCall, Claims
  <2>2. run'[r].phase = "accepted" /\ run'[r].opening = {c.prompt}
    BY <1>1, <1>4, <2>1, PhaseChanges DEF AcceptCall, Passes, Phases
  <2>3. CASE c.prompt = p
    BY <2>2, <2>3 DEF NotLost, AtRun, InOpening
  <2>4. CASE c.prompt # p
    <3>1. FlushStays(p)
      BY <1>1, <1>4, <2>4, MoveStays DEF AcceptCall
    <3>2. EventsStay(p)
      <4>1. PICK e : e = Event("accepted", run[r].kind)
        OBVIOUS
      <4>2. e \in Events
        BY <1>1, <1>4, <2>1, <4>1 DEF AcceptCall, Claims, Turn, RunTypes, RunSet, Event, Events
      <4>3. <<e>> \in Seq(Events) /\ events' = events \o <<e>>
        BY <1>4, <2>1, <4>1, <4>2 DEF AcceptCall, Emit
      <4>4. QED
        BY <1>1, <4>3, EventsGrow
    <3>3. QED
      BY <1>2, <3>1, <3>2, AllStay
  <2>5. QED
    BY <2>3, <2>4
<1>5. CASE Inject(c)
  <2>1. PICK r \in Runs : r = c.target
    BY <1>5 DEF Inject, Claims
  <2>2. CASE run' = [run EXCEPT ![c.target].inbox = Append(@, c.prompt)] /\ events' = events
    <3>1. run'[r].inbox = Append(run[r].inbox, c.prompt) /\ run[r].inbox \in Seq(Prompts)
      BY <1>1, <2>1, <2>2 DEF RunTypes, RunSet
    <3>2. In(run'[r].inbox, c.prompt)
      BY <1>1, <3>1, InAppend
    <3>3. CASE c.prompt = p
      BY <3>2, <3>3 DEF NotLost, AtRun, InInbox
    <3>4. CASE c.prompt # p
      BY <1>1, <1>2, <1>5, <2>2, <3>4, MoveStays, SameStay, AllStay DEF Inject
    <3>5. QED
      BY <3>3, <3>4
  <2>3. CASE Emit(<<Event("inject_failed", c.prompt)>>)
    <3>1. PICK new : new = <<Back(c.prompt)>>
      OBVIOUS
    <3>2. new \in Seq(Events) /\ In(new, Back(c.prompt))
      <4>1. Back(c.prompt) \in Events
        BY <1>1 DEF Back, Event, Events
      <4>2. QED
        BY <3>1, <4>1 DEF In
    <3>3. events' = events \o new
      BY <2>3, <3>1 DEF Emit, Back
    <3>4. EventsStay(p) /\ (c.prompt = p => InEvents(p)')
      BY <1>1, <3>2, <3>3, EventsGrow
    <3>5. CASE c.prompt = p
      BY <3>4, <3>5 DEF NotLost, AtWindow
    <3>6. CASE c.prompt # p
      BY <1>1, <1>2, <1>5, <3>4, <3>6, MoveStays, AllStay DEF Inject
    <3>7. QED
      BY <3>5, <3>6
  <2>4. QED
    BY <1>5, <2>2, <2>3 DEF Inject
<1>6. QED
  BY <1>3, <1>4, <1>5 DEF Serve

\* A driver only adds events.
LEMMA DriverNotLost ==
  ASSUME QueueTypes, Openings, NEW r \in Runs, DriverStep(r) \/ DeliveryFails(r) \/ Text(r) \/ CommandBreaks(r) \/ CompactClaim(r), NEW p
  PROVE  NotLost(p)
<1>1. QueueStays(p) /\ FlushStays(p) /\ events \in Seq(Events) /\ RunTypes
  BY SameStay DEF DriverStep, Ready, DeliverNext, DeliveryFails, Close, ReleaseSlot, EmitReleased, CommandBegins, CommandEnds, Text,
                  CommandBreaks, CompactClaim, window, QueueTypes, WireTypes
<1>2. CASE DeliverNext(r) \/ ReleaseSlot(r) \/ CommandBreaks(r) \/ CompactClaim(r)
  BY <1>1, <1>2, SameStay, AllStay DEF DeliverNext, ReleaseSlot, CommandBreaks, CompactClaim
<1>3. CASE Ready(r) \/ EmitReleased(r) \/ CommandBegins(r) \/ CommandEnds(r)
  <2>1. PICK kind \in {"ready", "released", "compacting", "compacted"} : Signal(kind)
    BY <1>3 DEF Ready, EmitReleased, CommandBegins, CommandEnds
  <2>2. <<Event(kind, "run")>> \in Seq(Events) /\ events' = events \o <<Event(kind, "run")>>
    BY <2>1 DEF Signal, Emit, Event, Events
  <2>3. EventsStay(p)
    BY <1>1, <2>2, EventsGrow
  <2>4. QED
    BY <1>1, <2>3, AllStay
<1>4. CASE Close(r)
  <2>1. PICK back, reopened, last \in Seq(Events) : events' = events \o ((back \o reopened) \o last)
    BY <1>4, CloseEvents
  <2>2. (back \o reopened) \o last \in Seq(Events)
    BY <2>1, InConcat
  <2>3. EventsStay(p)
    BY <1>1, <2>1, <2>2, EventsGrow
  <2>4. QED
    BY <1>1, <2>3, AllStay
<1>5. CASE Text(r)
  <2>1. PICK e : e = Event("text", run[r].kind)
    OBVIOUS
  <2>2. e \in Events
    BY <1>1, <1>5, <2>1 DEF Text, Turn, RunTypes, RunSet, Event, Events
  <2>3. <<e>> \in Seq(Events) /\ events' = events \o <<e>>
    BY <1>5, <2>1, <2>2 DEF Text, Emit
  <2>4. EventsStay(p)
    BY <1>1, <2>3, EventsGrow
  <2>5. QED
    BY <1>1, <2>4, AllStay
<1>6. CASE DeliveryFails(r)
  <2>1. run[r].inbox \in Seq(Prompts) /\ run[r].inbox # <<>>
    BY <1>1, <1>6 DEF DeliveryFails, RunTypes, RunSet
  <2>2. Back(Head(run[r].inbox)) \in Events
    BY <2>1, InTail DEF Back, Event, Events
  <2>3. <<Back(Head(run[r].inbox))>> \in Seq(Events) /\ events' = events \o <<Back(Head(run[r].inbox))>>
    BY <1>6, <2>2 DEF DeliveryFails, Emit, Back
  <2>4. EventsStay(p)
    BY <1>1, <2>3, EventsGrow
  <2>5. QED
    BY <1>1, <2>4, AllStay
<1>7. QED
  BY <1>2, <1>3, <1>4, <1>5, <1>6 DEF DriverStep

\* So no step loses a prompt.
LEMMA NoneLost ==
  ASSUME QueueTypes, Openings, Claims, [QueueNext]_queueVars, NEW p \in Prompts
  PROVE  NotLost(p)
<1>1. CASE \E x \in Prompts : SendKnown(x)
  BY <1>1, SendNotLost
<1>2. CASE HandleEvent
  BY <1>2, HandleNotLost
<1>3. ASSUME NEW f \in Flushes, TimerFires(f) PROVE NotLost(p)
  <2>1. FlushQueue(f) /\ EventsStay(p)
    BY <1>3, SameStay DEF TimerFires
  <2>2. QED
    BY <2>1, FlushNotLost
<1>4. CASE \E c \in calls : Answer(c)
  BY <1>4, AnswerNotLost
<1>5. CASE \E c \in calls : Serve(c) \/ Fail(c)
  BY <1>5, CallNotLost
<1>6. CASE \E r \in Runs : DriverStep(r) \/ DeliveryFails(r) \/ Text(r) \/ CommandBreaks(r) \/ CompactClaim(r)
  BY <1>6, DriverNotLost
<1>7. CASE UNCHANGED queueVars \/ StopPress \/ StopFinish \/ CompactPress \/ CompactRefused \/ CompactBusy \/ CompactWaits
  <2>1. queue' = queue /\ events' = events /\ calls' = calls
    BY <1>7 DEF queueVars, window, StopPress, StopFinish, CompactPress, CompactRefused, CompactBusy, CompactWaits, faults
  <2>2. QED
    BY <2>1, SameStay, AllStay
<1>8. QED
  BY <1>1, <1>2, <1>3, <1>4, <1>5, <1>6, <1>7 DEF QueueNext, WindowStep, BackendStep, CompactStep

\* A prompt the window holds is not lost before a run has it, whatever is
\* refused, fails, is handed back or stops, for any number of prompts and runs.
THEOREM HeldIsNeverLostHolds == QueueSpec => HeldIsNeverLost
<1>1. ASSUME QueueInv, [QueueNext]_queueVars
      PROVE  \A p \in Prompts : WithWindow(p) => WithWindow(p)' \/ WithRun(p)'
  <2>1. SUFFICES ASSUME NEW p \in Prompts, WithWindow(p) PROVE WithWindow(p)' \/ WithRun(p)'
    OBVIOUS
  <2>2. NotLost(p)
    BY <1>1, NoneLost DEF QueueInv
  <2>3. QED
    BY <2>1, <2>2, WindowPlaces, WindowPlacesNext DEF NotLost
<1>2. QueueInv /\ [QueueNext]_queueVars => [\A p \in Prompts : WithWindow(p) => WithWindow(p)' \/ WithRun(p)']_queueVars
  BY <1>1
<1>3. QED
  BY <1>2, QueueInvariant, PTL DEF QueueSpec, HeldIsNeverLost
=================================================================================

-------------------------- MODULE MessagingProofs --------------------------
(* Proofs about Messaging, for any actors, messages and bounds.            *)
EXTENDS Messaging, TLAPS

Unsettled == {"unsent", "refused", "waiting", "lost"}

\* Every callback in timers is that of a message which waits for it, once.
WaitingInTimers ==
    /\ \A i \in 1..Len(timers) : at[timers[i]] = "waiting"
    /\ \A i, j \in 1..Len(timers) : timers[i] = timers[j] => i = j

(* Where an ask is decides what its timer and its promise can be.          *)
AskState(m) ==
    /\ at[m] = "unsent" <=> outcome[m] = "unasked"
    /\ at[m] = "refused" <=> outcome[m] = "refused"
    /\ at[m] \in Unsettled <=> deadline[m] = "none"
    /\ at[m] \in {"receiving", "failed"} => deadline[m] \in {"armed", "fired"}
    /\ at[m] = "handled" => deadline[m] \in {"cleared", "fired"}
    /\ at[m] \in {"waiting", "lost"} => outcome[m] = "pending"
    /\ deadline[m] = "armed" => outcome[m] = "pending"
    /\ deadline[m] = "cleared" <=> outcome[m] = "result"
    /\ deadline[m] = "fired" <=> outcome[m] = "error"

\* A send has no timer.
SendState(m) == deadline[m] = "none"

IInv ==
    /\ TypeOK
    /\ WaitingInTimers
    /\ \A m \in Asks : AskState(m)
    /\ \A m \in Msgs \ Asks : SendState(m)

-----------------------------------------------------------------------------
\* The initial states satisfy the invariant.
LEMMA InitIInv == Init => IInv
BY MessagingAssumption
   DEF Init, IInv, TypeOK, WaitingInTimers, AskState, SendState, Unsettled,
       Places, Timers, Outcomes

\* The types are preserved by every step.
LEMMA TypeStep == TypeOK /\ [Next]_vars => TypeOK'
<1> SUFFICES ASSUME TypeOK, [Next]_vars PROVE TypeOK'
  OBVIOUS
<1>s. timers \in Seq(Msgs)
  BY DEF TypeOK
<1>p. \A w \in {"refused", "waiting", "lost", "receiving", "handled", "failed"} : w \in Places
  BY DEF Places
<1>d. \A w \in {"armed", "fired", "cleared"} : w \in Timers
  BY DEF Timers
<1>o. \A w \in {"refused", "pending", "result", "error"} : w \in Outcomes
  BY DEF Outcomes
<1>1. ASSUME NEW m \in Msgs, ActorSend(m) PROVE TypeOK'
  <2>1. UNCHANGED <<inbox, target, deadline, registered, made, ward>>
    BY <1>1 DEF ActorSend, tree
  <2>2. timers' \in Seq(Msgs)
    BY <1>1, <1>s DEF ActorSend
  <2>3. at' \in [Msgs -> Places]
    BY <1>1, <1>p DEF ActorSend, TypeOK
  <2>4. outcome' \in [Asks -> Outcomes]
    BY <1>1, <1>o DEF ActorSend, SetOutcome, TypeOK
  <2> QED
    BY <2>1, <2>2, <2>3, <2>4 DEF TypeOK
<1>2. ASSUME NEW m \in Msgs, SystemSend(m) PROVE TypeOK'
  <2>1. UNCHANGED <<inbox, timers, registered, made, ward>>
    BY <1>2 DEF SystemSend, tree
  <2>2. at' \in [Msgs -> Places]
    BY <1>2, <1>p DEF SystemSend, Deliver, TypeOK
  <2>3. target' \in [Msgs -> Nat]
    BY <1>2, MessagingAssumption DEF SystemSend, Deliver, TypeOK
  <2>4. deadline' \in [Msgs -> Timers]
    BY <1>2, <1>d DEF SystemSend, Deliver, TypeOK
  <2>5. outcome' \in [Asks -> Outcomes]
    BY <1>2, <1>o DEF SystemSend, SetOutcome, TypeOK
  <2> QED
    BY <2>1, <2>2, <2>3, <2>4, <2>5 DEF TypeOK
<1>3. CASE SendTimer
  <2> DEFINE m == Head(timers)
  <2>1. m \in Msgs /\ Tail(timers) \in Seq(Msgs)
    BY <1>3, <1>s DEF SendTimer
  <2>2. UNCHANGED <<inbox, outcome, registered, made, ward>> /\ timers' = Tail(timers)
    BY <1>3 DEF SendTimer, tree
  <2>3. \/ /\ at' = [at EXCEPT ![m] = "lost"]
           /\ UNCHANGED <<target, deadline>>
        \/ Deliver(m)
    BY <1>3 DEF SendTimer
  <2> HIDE DEF m
  <2>4. at' \in [Msgs -> Places]
    BY <2>1, <2>3, <1>p DEF Deliver, TypeOK
  <2>5. target' \in [Msgs -> Nat]
    BY <2>1, <2>3, MessagingAssumption DEF Deliver, TypeOK
  <2>6. deadline' \in [Msgs -> Timers]
    BY <2>1, <2>3, <1>d DEF Deliver, TypeOK
  <2> QED
    BY <2>1, <2>2, <2>4, <2>5, <2>6 DEF TypeOK
<1>4. ASSUME NEW m \in Msgs, ReceiveReturns(m) PROVE TypeOK'
  <2>1. UNCHANGED <<inbox, timers, target, registered, made, ward>>
    BY <1>4 DEF ReceiveReturns, tree
  <2>2. at' \in [Msgs -> Places]
    BY <1>4, <1>p DEF ReceiveReturns, TypeOK
  <2>3. deadline' \in [Msgs -> Timers]
    BY <1>4, <1>d DEF ReceiveReturns, TypeOK
  <2>4. outcome' \in [Asks -> Outcomes]
    BY <1>4, <1>o DEF ReceiveReturns, SetOutcome, TypeOK
  <2> QED
    BY <2>1, <2>2, <2>3, <2>4 DEF TypeOK
<1>5. ASSUME NEW m \in Msgs, ReceiveRejects(m) PROVE TypeOK'
  BY <1>5, <1>p, MessagingAssumption DEF ReceiveRejects, tree, TypeOK
<1>6. ASSUME NEW m \in Msgs, DeadlineFires(m) PROVE TypeOK'
  BY <1>6, <1>d, <1>o DEF DeadlineFires, SetOutcome, tree, TypeOK
<1>7. ASSUME NEW a \in Actors, Register(a) PROVE TypeOK'
  BY <1>7 DEF Register, TypeOK
<1>8. ASSUME NEW a \in Actors, Unregister(a) PROVE TypeOK'
  BY <1>8 DEF Unregister, TypeOK
<1>9. CASE StopInbox
  BY <1>9 DEF StopInbox, tree, TypeOK
<1>10. CASE UNCHANGED vars
  BY <1>10 DEF vars, TypeOK
<1> QED
  BY <1>1, <1>2, <1>3, <1>4, <1>5, <1>6, <1>7, <1>8, <1>9, <1>10 DEF Next

\* The callbacks in timers stay those of distinct waiting messages.
LEMMA TimersStep == TypeOK /\ WaitingInTimers /\ [Next]_vars => WaitingInTimers'
<1> SUFFICES ASSUME TypeOK, WaitingInTimers, [Next]_vars PROVE WaitingInTimers'
  OBVIOUS
<1>s. timers \in Seq(Msgs) /\ at \in [Msgs -> Places]
  BY DEF TypeOK
<1>e. \A i \in 1..Len(timers) : timers[i] \in Msgs
  BY <1>s
<1>w. /\ \A i \in 1..Len(timers) : at[timers[i]] = "waiting"
      /\ \A i, j \in 1..Len(timers) : timers[i] = timers[j] => i = j
  BY DEF WaitingInTimers
<1>u. ASSUME UNCHANGED timers,
             \A n \in Msgs : at[n] = "waiting" => at'[n] = "waiting"
      PROVE  WaitingInTimers'
  BY <1>u, <1>e, <1>w DEF WaitingInTimers
<1>1. ASSUME NEW m \in Msgs, ActorSend(m) PROVE WaitingInTimers'
  <2>1. at[m] = "unsent"
    BY <1>1 DEF ActorSend
  <2>2. CASE inbox = "stopped"
    <3>1. UNCHANGED timers /\ at' = [at EXCEPT ![m] = "refused"]
      BY <1>1, <2>2 DEF ActorSend
    <3> QED
      BY <1>s, <1>u, <2>1, <3>1
  <2>3. CASE inbox # "stopped"
    <3>1. timers' = Append(timers, m) /\ at' = [at EXCEPT ![m] = "waiting"]
      BY <1>1, <2>3 DEF ActorSend
    <3>2. /\ Len(timers') = Len(timers) + 1
          /\ timers'[Len(timers) + 1] = m
          /\ \A i \in 1..Len(timers) : timers'[i] = timers[i]
      BY <3>1, <1>s
    <3>3. \A i \in 1..Len(timers) : timers'[i] # m /\ at'[timers'[i]] = "waiting"
      BY <3>1, <3>2, <2>1, <1>s, <1>e, <1>w
    <3>4. at'[m] = "waiting"
      BY <3>1, <1>s
    <3>5. \A i \in 1..Len(timers') : i \in 1..Len(timers) \/ i = Len(timers) + 1
      BY <3>2, <1>s
    <3> QED
      BY <3>2, <3>3, <3>4, <3>5, <1>w DEF WaitingInTimers
  <2> QED
    BY <2>2, <2>3
<1>2. ASSUME NEW m \in Msgs, SystemSend(m) PROVE WaitingInTimers'
  <2>1. /\ UNCHANGED timers
        /\ at[m] = "unsent"
        /\ at' = [at EXCEPT ![m] = "refused"] \/ at' = [at EXCEPT ![m] = "receiving"]
    BY <1>2 DEF SystemSend, Deliver
  <2> QED
    BY <2>1, <1>s, <1>u
<1>3. CASE SendTimer
  <2>1. timers # <<>> /\ timers' = Tail(timers) /\ Head(timers) = timers[1]
    BY <1>3, <1>s DEF SendTimer
  <2>2. \A i \in 1..Len(timers') : i + 1 \in 1..Len(timers) /\ timers'[i] = timers[i + 1]
    BY <2>1, <1>s
  <2>3. \A n \in Msgs : n # timers[1] => at'[n] = at[n]
    BY <1>3, <2>1, <1>s DEF SendTimer, Deliver
  <2>4. 1 \in 1..Len(timers) /\ \A i \in 1..Len(timers') : i \in Nat /\ i + 1 # 1
    BY <2>1, <1>s
  <2>5. \A i \in 1..Len(timers') : timers'[i] # timers[1] /\ at'[timers'[i]] = "waiting"
    BY <2>2, <2>3, <2>4, <1>e, <1>w
  <2>6. \A i, j \in 1..Len(timers') : timers'[i] = timers'[j] => i + 1 = j + 1
    BY <2>2, <1>w
  <2> QED
    BY <2>4, <2>5, <2>6 DEF WaitingInTimers
<1>4. ASSUME NEW m \in Msgs, ReceiveReturns(m) PROVE WaitingInTimers'
  BY <1>4, <1>s, <1>u DEF ReceiveReturns
<1>5. ASSUME NEW m \in Msgs, ReceiveRejects(m) PROVE WaitingInTimers'
  BY <1>5, <1>s, <1>u DEF ReceiveRejects
<1>6. ASSUME NEW m \in Msgs, DeadlineFires(m) PROVE WaitingInTimers'
  BY <1>6, <1>u DEF DeadlineFires
<1>7. ASSUME NEW a \in Actors, Register(a) \/ Unregister(a) PROVE WaitingInTimers'
  BY <1>7, <1>u DEF Register, Unregister
<1>8. CASE StopInbox \/ UNCHANGED vars
  BY <1>8, <1>u DEF StopInbox, vars
<1> QED
  BY <1>1, <1>2, <1>3, <1>4, <1>5, <1>6, <1>7, <1>8 DEF Next

(* What a step does not touch keeps an ask's state; the message it is      *)
(* about gets a state that fits again.                                     *)
LEMMA AskStep == IInv /\ [Next]_vars => \A n \in Asks : AskState(n)'
<1> SUFFICES ASSUME IInv, [Next]_vars, NEW n \in Asks PROVE AskState(n)'
  OBVIOUS
<1>t. /\ n \in Msgs
      /\ at \in [Msgs -> Places] /\ deadline \in [Msgs -> Timers] /\ outcome \in [Asks -> Outcomes]
  BY MessagingAssumption DEF IInv, TypeOK
<1>a. AskState(n)
  BY DEF IInv
<1>u. ASSUME at'[n] = at[n], deadline'[n] = deadline[n], outcome'[n] = outcome[n]
      PROVE  AskState(n)'
  BY <1>u, <1>a DEF AskState
<1>1. ASSUME NEW m \in Msgs, ActorSend(m) PROVE AskState(n)'
  <2>1. CASE n = m
    <3>1. at[n] = "unsent" /\ deadline'[n] = "none"
      BY <1>1, <1>a, <2>1 DEF ActorSend, AskState, Unsettled
    <3>2. \/ at'[n] = "refused" /\ outcome'[n] = "refused"
          \/ at'[n] = "waiting" /\ outcome'[n] = "pending"
      BY <1>1, <1>t, <2>1 DEF ActorSend, SetOutcome
    <3> QED
      BY <3>1, <3>2 DEF AskState, Unsettled
  <2>2. CASE n # m
    BY <1>1, <1>t, <1>u, <2>2 DEF ActorSend, SetOutcome
  <2> QED
    BY <2>1, <2>2
<1>2. ASSUME NEW m \in Msgs, SystemSend(m) PROVE AskState(n)'
  <2>1. CASE n = m
    <3>1. at[n] = "unsent" /\ deadline[n] = "none"
      BY <1>2, <1>a, <2>1 DEF SystemSend, AskState, Unsettled
    <3>2. \/ at'[n] = "refused" /\ outcome'[n] = "refused" /\ deadline'[n] = "none"
          \/ at'[n] = "receiving" /\ outcome'[n] = "pending" /\ deadline'[n] = "armed"
      BY <1>2, <1>t, <2>1, <3>1 DEF SystemSend, SetOutcome, Deliver
    <3> QED
      BY <3>2 DEF AskState, Unsettled
  <2>2. CASE n # m
    BY <1>2, <1>t, <1>u, <2>2 DEF SystemSend, SetOutcome, Deliver
  <2> QED
    BY <2>1, <2>2
<1>3. CASE SendTimer
  <2> DEFINE m == Head(timers)
  <2>1. m \in Msgs /\ at[m] = "waiting"
    BY <1>3 DEF SendTimer, IInv, TypeOK, WaitingInTimers
  <2>2. /\ UNCHANGED outcome
        /\ \/ at' = [at EXCEPT ![m] = "lost"] /\ UNCHANGED deadline
           \/ Deliver(m)
    BY <1>3 DEF SendTimer
  <2> HIDE DEF m
  <2>3. CASE n = m
    <3>1. deadline[n] = "none" /\ outcome'[n] = "pending"
      BY <1>a, <2>1, <2>2, <2>3 DEF AskState, Unsettled
    <3>2. \/ at'[n] = "lost" /\ deadline'[n] = "none"
          \/ at'[n] = "receiving" /\ deadline'[n] = "armed"
      BY <1>t, <2>2, <2>3, <3>1 DEF Deliver
    <3> QED
      BY <3>1, <3>2 DEF AskState, Unsettled
  <2>4. CASE n # m
    BY <1>t, <1>u, <2>2, <2>4 DEF Deliver
  <2> QED
    BY <2>3, <2>4
<1>4. ASSUME NEW m \in Msgs, ReceiveReturns(m) PROVE AskState(n)'
  <2>1. CASE n = m
    <3>1. at[n] = "receiving" /\ at'[n] = "handled"
      BY <1>4, <1>t, <2>1 DEF ReceiveReturns
    <3>2. \/ deadline[n] = "fired" /\ deadline'[n] = "fired" /\ outcome'[n] = outcome[n]
          \/ deadline'[n] = "cleared" /\ outcome'[n] = "result"
      BY <1>4, <1>t, <2>1 DEF ReceiveReturns, SetOutcome
    <3> QED
      BY <1>a, <3>1, <3>2 DEF AskState, Unsettled
  <2>2. CASE n # m
    BY <1>4, <1>t, <1>u, <2>2 DEF ReceiveReturns, SetOutcome
  <2> QED
    BY <2>1, <2>2
<1>5. ASSUME NEW m \in Msgs, ReceiveRejects(m) PROVE AskState(n)'
  <2>1. CASE n = m
    BY <1>5, <1>t, <1>a, <2>1 DEF ReceiveRejects, AskState, Unsettled
  <2>2. CASE n # m
    BY <1>5, <1>t, <1>u, <2>2 DEF ReceiveRejects
  <2> QED
    BY <2>1, <2>2
<1>6. ASSUME NEW m \in Msgs, DeadlineFires(m) PROVE AskState(n)'
  <2>1. CASE n = m
    <3>1. deadline[n] = "armed" /\ deadline'[n] = "fired" /\ outcome'[n] = "error" /\ at'[n] = at[n]
      BY <1>6, <1>t, <2>1 DEF DeadlineFires, SetOutcome
    <3>2. at[n] \in {"receiving", "failed"}
      BY <1>a, <1>t, <3>1 DEF AskState, Unsettled, Places
    <3> QED
      BY <3>1, <3>2 DEF AskState, Unsettled
  <2>2. CASE n # m
    BY <1>6, <1>t, <1>u, <2>2 DEF DeadlineFires, SetOutcome
  <2> QED
    BY <2>1, <2>2
<1>7. ASSUME NEW a \in Actors, Register(a) \/ Unregister(a) PROVE AskState(n)'
  BY <1>7, <1>u DEF Register, Unregister
<1>8. CASE StopInbox \/ UNCHANGED vars
  BY <1>8, <1>u DEF StopInbox, vars
<1> QED
  BY <1>1, <1>2, <1>3, <1>4, <1>5, <1>6, <1>7, <1>8 DEF Next

\* No step gives a send a timer.
LEMMA SendStep == IInv /\ [Next]_vars => \A n \in Msgs \ Asks : SendState(n)'
<1> SUFFICES ASSUME IInv, [Next]_vars, NEW n \in Msgs \ Asks PROVE SendState(n)'
  OBVIOUS
<1>t. deadline \in [Msgs -> Timers] /\ deadline[n] = "none"
  BY DEF IInv, TypeOK, SendState
<1>1. ASSUME NEW m \in Msgs, ActorSend(m) \/ SystemSend(m) PROVE SendState(n)'
  BY <1>1, <1>t DEF ActorSend, SystemSend, Deliver, SendState
<1>2. CASE SendTimer
  BY <1>2, <1>t DEF SendTimer, Deliver, SendState
<1>3. ASSUME NEW m \in Msgs, ReceiveReturns(m) \/ ReceiveRejects(m) PROVE SendState(n)'
  BY <1>3, <1>t DEF ReceiveReturns, ReceiveRejects, SendState
<1>4. ASSUME NEW m \in Msgs, DeadlineFires(m) PROVE SendState(n)'
  BY <1>4, <1>t DEF DeadlineFires, SendState
<1>5. ASSUME NEW a \in Actors, Register(a) \/ Unregister(a) PROVE SendState(n)'
  BY <1>5, <1>t DEF Register, Unregister, SendState
<1>6. CASE StopInbox \/ UNCHANGED vars
  BY <1>6, <1>t DEF StopInbox, vars, SendState
<1> QED
  BY <1>1, <1>2, <1>3, <1>4, <1>5, <1>6 DEF Next

\* The invariant is inductive.
LEMMA Invariance == Spec => []IInv
<1>1. IInv /\ [Next]_vars => IInv'
  BY TypeStep, TimersStep, AskStep, SendStep DEF IInv
<1> QED
  BY InitIInv, <1>1, PTL DEF Spec

-----------------------------------------------------------------------------
\* Every variable keeps its type: actors, messages and timers of any number.
THEOREM TypeCorrect == Spec => []TypeOK
<1>1. IInv => TypeOK
  BY DEF IInv
<1> QED
  BY Invariance, <1>1, PTL

(* In every reachable state the timer of an ask and what its asker was told *)
(* agree, and a pending ask has its timer or its callback (or lost it).    *)
THEOREM TimerCorrect == Spec => []TimerMatchesAnswer
<1>1. IInv => TimerMatchesAnswer
  <2> SUFFICES ASSUME IInv, NEW m \in Asks
      PROVE  /\ deadline[m] = "cleared" <=> outcome[m] = "result"
             /\ deadline[m] = "fired" <=> outcome[m] = "error"
             /\ outcome[m] = "pending" => deadline[m] = "armed" \/ at[m] \in {"waiting", "lost"}
    BY DEF TimerMatchesAnswer
  <2>1. AskState(m) /\ at[m] \in Places
    BY MessagingAssumption DEF IInv, TypeOK
  <2> QED
    BY <2>1 DEF AskState, Unsettled, Places
<1> QED
  BY Invariance, <1>1, PTL

(* Once the inbox has stopped no receive starts: the callbacks of send and *)
(* ask look at it again before they deliver.                               *)
THEOREM NothingDeliveredAfterStop == Spec => NothingAfterStop
<1>1. IInv /\ [Next]_vars => [inbox = "stopped" =>
          \A m \in Msgs : at[m] # "receiving" => at'[m] # "receiving"]_vars
  <2> SUFFICES ASSUME IInv, Next, inbox = "stopped", NEW n \in Msgs, at[n] # "receiving"
               PROVE  at'[n] # "receiving"
    OBVIOUS
  <2>t. at \in [Msgs -> Places]
    BY DEF IInv, TypeOK
  <2>1. ASSUME NEW m \in Msgs, ActorSend(m) \/ SystemSend(m) PROVE at'[n] # "receiving"
    BY <2>1, <2>t DEF ActorSend, SystemSend
  <2>2. CASE SendTimer
    BY <2>2, <2>t DEF SendTimer
  <2>3. ASSUME NEW m \in Msgs, ReceiveReturns(m) \/ ReceiveRejects(m) \/ DeadlineFires(m)
        PROVE  at'[n] # "receiving"
    BY <2>3, <2>t DEF ReceiveReturns, ReceiveRejects, DeadlineFires
  <2>4. ASSUME NEW a \in Actors, Register(a) \/ Unregister(a) PROVE at'[n] # "receiving"
    BY <2>4 DEF Register, Unregister
  <2>5. CASE StopInbox
    BY <2>5 DEF StopInbox
  <2> QED
    BY <2>1, <2>2, <2>3, <2>4, <2>5 DEF Next
<1> QED
  BY Invariance, <1>1, PTL DEF Spec, NothingAfterStop

(* One promise that settles is an answer of AskPromise.                    *)
LEMMA OneAnswer ==
    ASSUME NEW m \in Asks, NEW r \in Promise!Settlements, outcome \in [Asks -> Outcomes],
           outcome[m] = "pending", outcome' = [outcome EXCEPT ![m] = r]
    PROVE  Promise!AskNext
<1>1. outcome' = [n \in Asks |-> IF n \in {m} THEN r ELSE outcome[n]]
  OBVIOUS
<1>2. Promise!Answer({m})
  BY <1>1 DEF Promise!Answer
<1> QED
  BY <1>2 DEF Promise!AskNext

(* Messaging implements AskPromise: every asker is refused or gets at most *)
(* one answer, whichever order timers and receives come in.                *)
THEOREM ImplementsPromise == Spec => PromiseSpec
<1>1. Init => Promise!AskInit
  BY DEF Init, Promise!AskInit
<1>2. IInv /\ [Next]_vars => [Promise!AskNext]_outcome
  <2> SUFFICES ASSUME IInv, Next PROVE Promise!AskNext \/ UNCHANGED outcome
    BY DEF vars
  <2>t. outcome \in [Asks -> Outcomes]
    BY DEF IInv, TypeOK
  <2>a. \A n \in Asks : AskState(n)
    BY DEF IInv
  <2>1. ASSUME NEW m \in Msgs, ActorSend(m) PROVE Promise!AskNext \/ UNCHANGED outcome
    <3>1. CASE m \in Asks
      <4>1. outcome[m] = "unasked"
        BY <2>1, <2>a, <3>1 DEF ActorSend, AskState
      <4>2. \E r \in {"pending", "refused"} : outcome' = [outcome EXCEPT ![m] = r]
        BY <2>1, <3>1 DEF ActorSend, SetOutcome
      <4> QED
        BY <3>1, <4>1, <4>2 DEF Promise!AskNext, Promise!Ask
    <3>2. CASE m \notin Asks
      BY <2>1, <3>2 DEF ActorSend, SetOutcome
    <3> QED
      BY <3>1, <3>2
  <2>2. ASSUME NEW m \in Msgs, SystemSend(m) PROVE Promise!AskNext \/ UNCHANGED outcome
    <3>1. CASE m \in Asks
      <4>1. outcome[m] = "unasked"
        BY <2>2, <2>a, <3>1 DEF SystemSend, AskState
      <4>2. \E r \in {"pending", "refused"} : outcome' = [outcome EXCEPT ![m] = r]
        BY <2>2, <3>1 DEF SystemSend, SetOutcome
      <4> QED
        BY <3>1, <4>1, <4>2 DEF Promise!AskNext, Promise!Ask
    <3>2. CASE m \notin Asks
      BY <2>2, <3>2 DEF SystemSend, SetOutcome
    <3> QED
      BY <3>1, <3>2
  <2>3. ASSUME NEW m \in Msgs, ReceiveReturns(m) PROVE Promise!AskNext \/ UNCHANGED outcome
    <3>1. CASE m \in Asks /\ deadline[m] # "fired"
      <4>1. deadline[m] = "armed"
        BY <2>3, <2>a, <3>1 DEF ReceiveReturns, AskState
      <4>2. outcome[m] = "pending" /\ outcome' = [outcome EXCEPT ![m] = "result"]
        BY <2>3, <2>a, <3>1, <4>1 DEF ReceiveReturns, SetOutcome, AskState
      <4> QED
        BY <2>t, <3>1, <4>2, OneAnswer DEF Promise!Settlements
    <3>2. CASE m \notin Asks \/ deadline[m] = "fired"
      BY <2>3, <3>2 DEF ReceiveReturns, SetOutcome
    <3> QED
      BY <3>1, <3>2
  <2>4. ASSUME NEW m \in Msgs, DeadlineFires(m) PROVE Promise!AskNext \/ UNCHANGED outcome
    <3>1. m \in Asks /\ deadline[m] = "armed"
      BY <2>4 DEF DeadlineFires, IInv, SendState
    <3>2. outcome[m] = "pending" /\ outcome' = [outcome EXCEPT ![m] = "error"]
      BY <2>4, <2>a, <3>1 DEF DeadlineFires, SetOutcome, AskState
    <3> QED
      BY <2>t, <3>1, <3>2, OneAnswer DEF Promise!Settlements
  <2>5. ASSUME SendTimer \/ StopInbox \/ \E m \in Msgs : ReceiveRejects(m)
        PROVE  UNCHANGED outcome
    BY <2>5 DEF SendTimer, StopInbox, ReceiveRejects
  <2>6. ASSUME NEW a \in Actors, Register(a) \/ Unregister(a) PROVE UNCHANGED outcome
    BY <2>6 DEF Register, Unregister
  <2> QED
    BY <2>1, <2>2, <2>3, <2>4, <2>5, <2>6 DEF Next
<1> QED
  BY Invariance, <1>1, <1>2, PTL DEF Spec, PromiseSpec, Promise!Spec
=============================================================================

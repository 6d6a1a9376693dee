------------------------- MODULE ErrorReportsProofs -------------------------
(* Proofs about ErrorReports: an error receiver leaves Messaging as it is, *)
(* hears of every failure of a message once at most, and of each if it is  *)
(* there.                                                                  *)
EXTENDS ErrorReports, MessagingProofs, FiniteSetTheorems

\* The reports about a message never outnumber its failures.
Accounted ==
    \A m \in Msgs :
        /\ IsFiniteSet(ReportsAbout(m))
        /\ Cardinality(ReportsAbout(m)) <= Failures(m)

-----------------------------------------------------------------------------
\* Every step of the composition is a step of Messaging, or none.
LEMMA MessagingStep == [NextReports]_allVars => [Next]_vars
<1> SUFFICES ASSUME [NextReports]_allVars PROVE Next \/ UNCHANGED vars
  OBVIOUS
<1>1. ASSUME NEW m \in Msgs, Reject(m) \/ TimeOut(m) \/ Return(m) PROVE Next
  BY <1>1 DEF Reject, TimeOut, Return, Next
<1>2. ASSUME NEW m \in Msgs, ActorSend(m) \/ SystemSend(m) PROVE Next
  BY <1>2 DEF Next
<1>3. ASSUME NEW r \in Reports, ReportReturns(r) \/ ReportRejects(r) PROVE UNCHANGED vars
  BY <1>3 DEF ReportReturns, ReportRejects
<1>4. ASSUME NEW a \in Actors, NameFails(a) \/ RegisterActor(a) \/ Unregister(a)
      PROVE  Next \/ UNCHANGED vars
  BY <1>4 DEF NameFails, RegisterActor, Next
<1>5. ASSUME SendTimer \/ StopInbox PROVE Next
  BY <1>5 DEF Next
<1>6. ASSUME UNCHANGED allVars PROVE UNCHANGED vars
  BY <1>6 DEF allVars
<1> QED
  BY <1>1, <1>2, <1>3, <1>4, <1>5, <1>6 DEF NextReports

(* A system with an error receiver is a system as Messaging describes it:  *)
(* what is proved of asks, timers and the stop of the inbox holds for it.  *)
THEOREM ImplementsMessaging == SpecReports => Spec
<1>1. InitReports => Init
  BY DEF InitReports
<1> QED
  BY <1>1, MessagingStep, PTL DEF SpecReports, Spec

-----------------------------------------------------------------------------
\* A report that is made is about what it was made for, and nothing else.
LEMMA ReportAdds ==
    ASSUME NEW x, NEW fates, Report(x, fates)
    PROVE  \/ UNCHANGED about
           \/ \E r \in Reports : about' = about \cup {<<r, x>>}
<1>1. CASE errorActor = {}
  BY <1>1 DEF Report, reportVars
<1>2. CASE errorActor # {}
  <2> DEFINE unsent == {r \in Reports : fate[r] = "unsent"}
             new == CHOOSE r \in unsent : TRUE
  <2>1. unsent # {} /\ about' = about \cup {<<new, x>>}
    BY <1>2 DEF Report
  <2>2. new \in Reports
    BY <2>1
  <2> QED
    BY <2>1, <2>2
<1> QED
  BY <1>1, <1>2

\* Failures of a message are never undone.
LEMMA FailuresGrow ==
    IInv /\ [Next]_vars => \A n \in Msgs : /\ at[n] = "failed" => at'[n] = "failed"
                                           /\ deadline[n] = "fired" => deadline'[n] = "fired"
<1> SUFFICES ASSUME IInv, [Next]_vars, NEW n \in Msgs
             PROVE  /\ at[n] = "failed" => at'[n] = "failed"
                    /\ deadline[n] = "fired" => deadline'[n] = "fired"
  OBVIOUS
<1>t. at \in [Msgs -> Places] /\ deadline \in [Msgs -> Timers]
  BY DEF IInv, TypeOK
<1>u. deadline[n] = "fired" => n \in Asks /\ at[n] \notin Unsettled
  BY DEF IInv, AskState, SendState
<1>1. ASSUME NEW m \in Msgs, ActorSend(m)
      PROVE  UNCHANGED deadline /\ (at[n] = "failed" => at'[n] = "failed")
  BY <1>1, <1>t DEF ActorSend
<1>2. ASSUME NEW m \in Msgs, SystemSend(m)
      PROVE  /\ at[n] = "failed" => at'[n] = "failed"
             /\ deadline[n] = "fired" => deadline'[n] = "fired"
  BY <1>2, <1>t, <1>u DEF SystemSend, Deliver, Unsettled
<1>3. ASSUME SendTimer
      PROVE  /\ at[n] = "failed" => at'[n] = "failed"
             /\ deadline[n] = "fired" => deadline'[n] = "fired"
  <2> DEFINE m == Head(timers)
  <2>1. m \in Msgs /\ at[m] = "waiting"
    BY <1>3 DEF SendTimer, IInv, TypeOK, WaitingInTimers
  <2>2. (at' = [at EXCEPT ![m] = "lost"] /\ UNCHANGED deadline) \/ Deliver(m)
    BY <1>3 DEF SendTimer
  <2> HIDE DEF m
  <2> QED
    BY <2>1, <2>2, <1>t, <1>u DEF Deliver, Unsettled
<1>4. ASSUME NEW m \in Msgs, ReceiveReturns(m)
      PROVE  /\ at[n] = "failed" => at'[n] = "failed"
             /\ deadline[n] = "fired" => deadline'[n] = "fired"
  BY <1>4, <1>t DEF ReceiveReturns
<1>5. ASSUME NEW m \in Msgs, ReceiveRejects(m)
      PROVE  UNCHANGED deadline /\ (at[n] = "failed" => at'[n] = "failed")
  BY <1>5, <1>t DEF ReceiveRejects
<1>6. ASSUME NEW m \in Msgs, DeadlineFires(m)
      PROVE  UNCHANGED at /\ (deadline[n] = "fired" => deadline'[n] = "fired")
  BY <1>6, <1>t DEF DeadlineFires
<1>7. ASSUME NEW a \in Actors, Register(a) \/ Unregister(a) PROVE UNCHANGED <<at, deadline>>
  BY <1>7 DEF Register, Unregister
<1>8. ASSUME StopInbox \/ UNCHANGED vars PROVE UNCHANGED <<at, deadline>>
  BY <1>8 DEF StopInbox, vars
<1> QED
  BY <1>1, <1>2, <1>3, <1>4, <1>5, <1>6, <1>7, <1>8 DEF Next

\* A step that makes no report about a message keeps its account.
LEMMA Unreported ==
    ASSUME Accounted, IInv, [Next]_vars, NEW n \in Msgs,
           \/ UNCHANGED about
           \/ \E r \in Reports : \E x : x # n /\ about' = about \cup {<<r, x>>}
    PROVE  IsFiniteSet(ReportsAbout(n)') /\ Cardinality(ReportsAbout(n)') <= Failures(n)'
<1>1. ReportsAbout(n)' = ReportsAbout(n)
  <2>1. \A r \in Reports : <<r, n>> \in about' <=> <<r, n>> \in about
    OBVIOUS
  <2> QED
    BY <2>1 DEF ReportsAbout
<1>2. Failures(n) \in Nat /\ Failures(n)' \in Nat /\ Failures(n) <= Failures(n)'
  BY FailuresGrow DEF Failures
<1>3. IsFiniteSet(ReportsAbout(n)) /\ Cardinality(ReportsAbout(n)) <= Failures(n)
  BY DEF Accounted
<1>4. Cardinality(ReportsAbout(n)) \in Nat
  BY <1>3, FS_CardinalityType
<1> HIDE DEF ReportsAbout, Failures
<1> QED
  BY <1>1, <1>2, <1>3, <1>4

\* A step that adds a failure of a message may report it.
LEMMA Reported ==
    ASSUME Accounted, NEW n \in Msgs, Failures(n)' = Failures(n) + 1, Report(n, fate)
    PROVE  IsFiniteSet(ReportsAbout(n)') /\ Cardinality(ReportsAbout(n)') <= Failures(n)'
<1>1. IsFiniteSet(ReportsAbout(n)) /\ Cardinality(ReportsAbout(n)) <= Failures(n)
  BY DEF Accounted
<1>2. Cardinality(ReportsAbout(n)) \in Nat /\ Failures(n) \in Nat
  BY <1>1, FS_CardinalityType DEF Failures
<1>3. \/ UNCHANGED about
      \/ \E r \in Reports : about' = about \cup {<<r, n>>}
  BY ReportAdds
<1>4. CASE UNCHANGED about
  <2>1. ReportsAbout(n)' = ReportsAbout(n)
    BY <1>4 DEF ReportsAbout
  <2> QED
    BY <2>1, <1>1, <1>2
<1>5. ASSUME NEW r \in Reports, about' = about \cup {<<r, n>>}
      PROVE  IsFiniteSet(ReportsAbout(n)') /\ Cardinality(ReportsAbout(n)') <= Failures(n)'
  <2>1. ReportsAbout(n)' = ReportsAbout(n) \cup {r}
    BY <1>5 DEF ReportsAbout
  <2>2. /\ IsFiniteSet(ReportsAbout(n) \cup {r})
        /\ \/ Cardinality(ReportsAbout(n) \cup {r}) = Cardinality(ReportsAbout(n))
           \/ Cardinality(ReportsAbout(n) \cup {r}) = Cardinality(ReportsAbout(n)) + 1
    BY <1>1, FS_AddElement
  <2> QED
    BY <2>1, <2>2, <1>1, <1>2
<1> QED
  BY <1>3, <1>4, <1>5

\* No step reports a failure that did not happen.
LEMMA AccountedStep == Accounted /\ IInv /\ [NextReports]_allVars => Accounted'
<1> SUFFICES ASSUME Accounted, IInv, [NextReports]_allVars, NEW n \in Msgs
             PROVE  IsFiniteSet(ReportsAbout(n)') /\ Cardinality(ReportsAbout(n)') <= Failures(n)'
  BY DEF Accounted
<1>s. [Next]_vars
  BY MessagingStep
<1>t. at \in [Msgs -> Places] /\ deadline \in [Msgs -> Timers]
  BY DEF IInv, TypeOK
<1>1. ASSUME NEW m \in Msgs, Reject(m) \/ TimeOut(m)
      PROVE  IsFiniteSet(ReportsAbout(n)') /\ Cardinality(ReportsAbout(n)') <= Failures(n)'
  <2>1. Report(m, fate)
    BY <1>1 DEF Reject, TimeOut
  <2>2. CASE m = n
    <3>1. \/ at[n] = "receiving" /\ at'[n] = "failed" /\ deadline'[n] = deadline[n]
          \/ deadline[n] = "armed" /\ deadline'[n] = "fired" /\ at'[n] = at[n]
      BY <1>1, <1>t, <2>2 DEF Reject, TimeOut, ReceiveRejects, DeadlineFires
    <3>2. Failures(n)' = Failures(n) + 1
      BY <3>1 DEF Failures
    <3> QED
      BY <2>1, <2>2, <3>2, Reported
  <2>3. CASE m # n
    BY <1>s, <2>1, <2>3, ReportAdds, Unreported
  <2> QED
    BY <2>2, <2>3
<1>2. ASSUME NEW x \in Reports \cup Actors, NEW fates, Report(x, fates)
      PROVE  IsFiniteSet(ReportsAbout(n)') /\ Cardinality(ReportsAbout(n)') <= Failures(n)'
  <2>1. x # n
    BY ReportsAssumption
  <2> QED
    BY <1>s, <1>2, <2>1, ReportAdds, Unreported
<1>3. ASSUME UNCHANGED about
      PROVE  IsFiniteSet(ReportsAbout(n)') /\ Cardinality(ReportsAbout(n)') <= Failures(n)'
  BY <1>s, <1>3, Unreported
<1>4. ASSUME NEW m \in Msgs, Return(m) \/ UNCHANGED reportVars PROVE UNCHANGED about
  BY <1>4 DEF Return, reportVars
<1>5. ASSUME NEW r \in Reports, ReportReturns(r) PROVE UNCHANGED about
  BY <1>5 DEF ReportReturns
<1>6. ASSUME NEW r \in Reports, ReportRejects(r)
      PROVE  Report(r, [fate EXCEPT ![r] = "failed"])
  BY <1>6 DEF ReportRejects
<1>7. ASSUME NEW a \in Actors, NameFails(a) PROVE Report(a, fate)
  BY <1>7 DEF NameFails
<1>8. ASSUME NEW a \in Actors, RegisterActor(a) PROVE UNCHANGED about
  BY <1>8 DEF RegisterActor
<1>9. ASSUME UNCHANGED reportVars \/ UNCHANGED allVars PROVE UNCHANGED about
  BY <1>9 DEF reportVars, allVars
<1> QED
  BY <1>1, <1>2, <1>3, <1>4, <1>5, <1>6, <1>7, <1>8, <1>9 DEF NextReports

\* The account and the inductive invariant of Messaging give the property.
LEMMA AccountedOnce == Accounted /\ IInv => OncePerFailure
<1> SUFFICES ASSUME Accounted, IInv, NEW m \in Msgs
             PROVE  /\ Cardinality(ReportsAbout(m)) <= Failures(m)
                    /\ at[m] # "failed" /\ ReportsAbout(m) # {} => outcome[m] = "error"
  BY DEF OncePerFailure
<1>1. IsFiniteSet(ReportsAbout(m)) /\ Cardinality(ReportsAbout(m)) <= Failures(m)
  BY DEF Accounted
<1>2. ASSUME at[m] # "failed", ReportsAbout(m) # {} PROVE outcome[m] = "error"
  <2>1. Cardinality(ReportsAbout(m)) \in Nat /\ Cardinality(ReportsAbout(m)) # 0
    BY <1>1, <1>2, FS_CardinalityType, FS_EmptySet
  <2>2. deadline[m] = "fired"
    BY <1>1, <1>2, <2>1 DEF Failures
  <2> QED
    BY <2>2 DEF IInv, AskState, SendState
<1> QED
  BY <1>1, <1>2

\* The accounts and the inductive invariant of Messaging hold in every state.
LEMMA AccountedHolds == SpecReports => [](Accounted /\ IInv)
<1>1. InitReports => Accounted
  <2> SUFFICES ASSUME InitReports, NEW m \in Msgs
               PROVE  IsFiniteSet(ReportsAbout(m)) /\ Cardinality(ReportsAbout(m)) <= Failures(m)
    BY DEF Accounted
  <2>1. ReportsAbout(m) = {}
    BY DEF InitReports, ReportsAbout
  <2>2. Failures(m) = 0
    BY DEF InitReports, Init, Failures
  <2> QED
    BY <2>1, <2>2, FS_EmptySet
<1>2. SpecReports => []IInv
  BY ImplementsMessaging, Invariance, PTL
<1> QED
  BY <1>1, <1>2, AccountedStep, PTL DEF SpecReports

(* The error receiver hears of each failure of a message once at most, and *)
(* of a timeout only after the asker, for any messages, actors and reports. *)
THEOREM ReportedOnce == SpecReports => []OncePerFailure
BY AccountedHolds, AccountedOnce, PTL

-----------------------------------------------------------------------------
\* The types of the variables that Messaging does not have.
ReportTypes ==
    /\ errorActor \subseteq Receivers /\ IsFiniteSet(errorActor) /\ Cardinality(errorActor) <= 1
    /\ fate \in [Reports -> Fates]
    /\ reader \in [Reports -> Nat]
    /\ about \subseteq Reports \X Causes

\* A report that is not sent is about nothing yet.
FreshReports == \A r \in Reports : fate[r] = "unsent" => \A x : <<r, x>> \notin about

\* Making a report keeps the types, and uses up a report that was not sent.
LEMMA ReportTyped ==
    ASSUME TypeOK, ReportTypes, FreshReports, NEW x \in Causes, NEW fates \in [Reports -> Fates],
           \A r \in Reports : fates[r] = "unsent" => fate[r] = "unsent",
           Report(x, fates), errorActor # {}
    PROVE  /\ ReportTypes' /\ FreshReports'
           /\ \E r \in Reports : <<r, x>> \in about' /\ <<r, x>> \notin about
<1> DEFINE unsent == {r \in Reports : fate[r] = "unsent"}
           new == CHOOSE r \in unsent : TRUE
<1>1. PICK a \in errorActor :
        /\ unsent # {}
        /\ fate' = [fates EXCEPT ![new] = IF inbox = "open" THEN "receiving" ELSE "uncaught"]
        /\ reader' = [reader EXCEPT ![new] = IF inbox = "open" THEN registered[a] ELSE 0]
        /\ about' = about \cup {<<new, x>>}
        /\ UNCHANGED errorActor
  BY DEF Report
<1>2. new \in Reports /\ fate[new] = "unsent"
  BY <1>1
<1> HIDE DEF new
<1>3. fate' \in [Reports -> Fates] /\ fate'[new] # "unsent"
  BY <1>1, <1>2 DEF Fates
<1>4. registered[a] \in Nat
  BY <1>1, ReportsAssumption DEF TypeOK, ReportTypes
<1>5. reader' \in [Reports -> Nat]
  BY <1>1, <1>2, <1>4 DEF ReportTypes
<1>6. about' \subseteq Reports \X Causes
  BY <1>1, <1>2 DEF ReportTypes
<1>7. ReportTypes'
  BY <1>1, <1>3, <1>5, <1>6 DEF ReportTypes
<1>8. FreshReports'
  <2> SUFFICES ASSUME NEW r \in Reports, fate'[r] = "unsent", NEW y PROVE <<r, y>> \notin about'
    BY DEF FreshReports
  <2>1. r # new /\ fate[r] = "unsent"
    BY <1>1, <1>2, <1>3
  <2> QED
    BY <1>1, <2>1 DEF FreshReports
<1>9. <<new, x>> \in about' /\ <<new, x>> \notin about
  BY <1>1, <1>2 DEF FreshReports
<1> QED
  BY <1>2, <1>7, <1>8, <1>9

\* Without an error receiver a report changes nothing.
LEMMA ReportToNobody ==
    ASSUME NEW x, NEW fates, Report(x, fates), errorActor = {} PROVE UNCHANGED reportVars
BY DEF Report

\* Steps preserve the types of the reports, and the unsent stay fresh.
LEMMA ReportTypesStep ==
    TypeOK /\ ReportTypes /\ FreshReports /\ [NextReports]_allVars => ReportTypes' /\ FreshReports'
<1> SUFFICES ASSUME TypeOK, ReportTypes, FreshReports, [NextReports]_allVars
             PROVE  ReportTypes' /\ FreshReports'
  OBVIOUS
<1>f. fate \in [Reports -> Fates]
  BY DEF ReportTypes
<1>u. ASSUME UNCHANGED reportVars PROVE ReportTypes' /\ FreshReports'
  BY <1>u DEF reportVars, ReportTypes, FreshReports
<1>r. ASSUME NEW x \in Causes, Report(x, fate) PROVE ReportTypes' /\ FreshReports'
  BY <1>r, <1>f, <1>u, ReportTyped, ReportToNobody
<1>1. ASSUME NEW m \in Msgs, Reject(m) \/ TimeOut(m) \/ Return(m) PROVE ReportTypes' /\ FreshReports'
  BY <1>1, <1>r, <1>u DEF Reject, TimeOut, Return, Causes
<1>2. ASSUME NEW r \in Reports, ReportReturns(r) PROVE ReportTypes' /\ FreshReports'
  <2>1. fate' = [fate EXCEPT ![r] = "handled"] /\ UNCHANGED <<errorActor, reader, about>>
    BY <1>2 DEF ReportReturns
  <2>2. fate' \in [Reports -> Fates] /\ \A s \in Reports : fate'[s] = "unsent" => fate[s] = "unsent"
    BY <2>1, <1>f DEF Fates
  <2> QED
    BY <2>1, <2>2 DEF ReportTypes, FreshReports
<1>3. ASSUME NEW r \in Reports, ReportRejects(r) PROVE ReportTypes' /\ FreshReports'
  <2> DEFINE fates == [fate EXCEPT ![r] = "failed"]
  <2>1. Report(r, fates) /\ r \in Causes
    BY <1>3 DEF ReportRejects, Causes
  <2>2. fates \in [Reports -> Fates] /\ \A s \in Reports : fates[s] = "unsent" => fate[s] = "unsent"
    BY <1>f DEF Fates
  <2> HIDE DEF fates
  <2> QED
    BY <2>1, <2>2, <1>u, ReportTyped, ReportToNobody
<1>4. ASSUME NEW a \in Actors, NameFails(a) PROVE ReportTypes' /\ FreshReports'
  BY <1>4, <1>r DEF NameFails, Causes
<1>5. ASSUME NEW a \in Actors, RegisterActor(a) PROVE ReportTypes' /\ FreshReports'
  <2>0. /\ errorActor' = IF a \in Receivers THEN {a} ELSE errorActor
        /\ UNCHANGED <<fate, reader, about>>
    BY <1>5 DEF RegisterActor
  <2>1. (errorActor' = errorActor) \/ (a \in Receivers /\ errorActor' = {a})
    BY <2>0
  <2>2. IsFiniteSet({a}) /\ Cardinality({a}) = 1
    BY FS_Singleton
  <2> QED
    BY <2>0, <2>1, <2>2 DEF ReportTypes, FreshReports
<1>6. ASSUME UNCHANGED allVars PROVE UNCHANGED reportVars
  BY <1>6 DEF allVars
<1> QED
  BY <1>1, <1>2, <1>3, <1>4, <1>5, <1>6, <1>u DEF NextReports

\* The types and the freshness of reports hold in every state.
LEMMA ReportTypesHold == SpecReports => [](TypeOK /\ ReportTypes /\ FreshReports)
<1>1. InitReports => ReportTypes /\ FreshReports
  <2> SUFFICES ASSUME InitReports PROVE ReportTypes /\ FreshReports
    OBVIOUS
  <2>1. IsFiniteSet({}) /\ Cardinality({}) = 0
    BY FS_EmptySet
  <2> QED
    BY <2>1 DEF InitReports, ReportTypes, FreshReports, Fates
<1>2. SpecReports => []TypeOK
  BY ImplementsMessaging, TypeCorrect, PTL
<1> QED
  BY <1>1, <1>2, ReportTypesStep, PTL DEF SpecReports

\* Every variable of the composition keeps its type.
THEOREM ReportsTypeCorrect == SpecReports => []TypeOKReports
<1>1. TypeOK /\ ReportTypes /\ FreshReports => TypeOKReports
  BY DEF TypeOKReports, ReportTypes
<1> QED
  BY <1>1, ReportTypesHold, PTL

-----------------------------------------------------------------------------
\* A failure of a message is a receive that rejects or a timer that fires.
LEMMA FailureStep ==
    ASSUME IInv, [NextReports]_allVars, NEW m \in Msgs
    PROVE  \/ Failures(m)' = Failures(m)
           \/ Failures(m)' = Failures(m) + 1 /\ Report(m, fate)
<1>s. [Next]_vars
  BY MessagingStep
<1>t. at \in [Msgs -> Places] /\ deadline \in [Msgs -> Timers]
  BY DEF IInv, TypeOK
<1>1. ASSUME Reject(m) \/ TimeOut(m) PROVE Failures(m)' = Failures(m) + 1 /\ Report(m, fate)
  <2>1. \/ at[m] = "receiving" /\ at'[m] = "failed" /\ deadline'[m] = deadline[m]
        \/ deadline[m] = "armed" /\ deadline'[m] = "fired" /\ at'[m] = at[m]
    BY <1>1, <1>t DEF Reject, TimeOut, ReceiveRejects, DeadlineFires
  <2> QED
    BY <1>1, <2>1 DEF Failures, Reject, TimeOut
<1>2. ASSUME ~Reject(m), ~TimeOut(m)
      PROVE  /\ at'[m] = "failed" => at[m] = "failed"
             /\ deadline'[m] = "fired" => deadline[m] = "fired"
  <2>1. ASSUME NEW n \in Msgs, Reject(n) \/ TimeOut(n) PROVE at'[m] = at[m] /\ deadline'[m] = deadline[m]
    <3>1. n # m
      BY <2>1, <1>2
    <3> QED
      BY <2>1, <3>1, <1>t DEF Reject, TimeOut, ReceiveRejects, DeadlineFires
  <2>2. ASSUME NEW n \in Msgs, Return(n) \/ ActorSend(n) \/ SystemSend(n)
        PROVE  /\ at'[m] = "failed" => at[m] = "failed"
               /\ deadline'[m] = "fired" => deadline[m] = "fired"
    BY <2>2, <1>t DEF Return, ReceiveReturns, ActorSend, SystemSend, Deliver
  <2>3. ASSUME SendTimer \/ StopInbox
        PROVE  /\ at'[m] = "failed" => at[m] = "failed"
               /\ deadline'[m] = "fired" => deadline[m] = "fired"
    BY <2>3, <1>t DEF SendTimer, StopInbox, Deliver
  <2>4. ASSUME NEW r \in Reports, ReportReturns(r) \/ ReportRejects(r) PROVE UNCHANGED <<at, deadline>>
    BY <2>4 DEF ReportReturns, ReportRejects, vars
  <2>5. ASSUME NEW a \in Actors, NameFails(a) \/ RegisterActor(a) \/ Unregister(a)
        PROVE  UNCHANGED <<at, deadline>>
    BY <2>5 DEF NameFails, RegisterActor, Register, Unregister, vars
  <2>6. ASSUME UNCHANGED allVars PROVE UNCHANGED <<at, deadline>>
    BY <2>6 DEF allVars, vars
  <2> QED
    BY <2>1, <2>2, <2>3, <2>4, <2>5, <2>6 DEF NextReports
<1>3. ASSUME ~Reject(m), ~TimeOut(m) PROVE Failures(m)' = Failures(m)
  BY <1>2, <1>3, <1>s, FailuresGrow DEF Failures
<1> QED
  BY <1>1, <1>3

\* What a report changes while there is an error receiver that gets it.
LEMMA ReportArrives ==
    ASSUME TypeOK, ReportTypes, FreshReports, ReceiverIsThere, NEW x, NEW fates, Report(x, fates)
    PROVE  \E new \in Reports :
              /\ \A y : <<new, y>> \notin about
              /\ about' = about \cup {<<new, x>>}
              /\ reader'[new] # 0
              /\ \A r \in Reports \ {new} : reader'[r] = reader[r]
<1> DEFINE unsent == {r \in Reports : fate[r] = "unsent"}
           new == CHOOSE r \in unsent : TRUE
<1>1. PICK a \in errorActor :
        /\ unsent # {}
        /\ reader' = [reader EXCEPT ![new] = IF inbox = "open" THEN registered[a] ELSE 0]
        /\ about' = about \cup {<<new, x>>}
  BY DEF Report, ReceiverIsThere
<1>2. new \in Reports /\ fate[new] = "unsent"
  BY <1>1
<1>3. inbox = "open" /\ registered[a] # 0
  BY <1>1 DEF ReceiverIsThere
<1> HIDE DEF new
<1>4. reader'[new] # 0 /\ \A r \in Reports \ {new} : reader'[r] = reader[r]
  BY <1>1, <1>2, <1>3 DEF ReportTypes
<1>5. \A y : <<new, y>> \notin about
  BY <1>2 DEF FreshReports
<1> QED
  BY <1>1, <1>2, <1>4, <1>5

\* A report about something else changes nothing in what was heard of a message.
LEMMA HeardOther ==
    ASSUME TypeOK, ReportTypes, FreshReports, ReceiverIsThere,
           NEW m, NEW x, x # m, NEW fates, Report(x, fates)
    PROVE  Heard(m)' = Heard(m)
<1>1. PICK new \in Reports :
        /\ \A y : <<new, y>> \notin about
        /\ about' = about \cup {<<new, x>>}
        /\ \A r \in Reports \ {new} : reader'[r] = reader[r]
  BY ReportArrives
<1>2. ASSUME NEW r \in Reports PROVE r \in Heard(m)' <=> r \in Heard(m)
  <2>1. <<r, m>> \in about' <=> <<r, m>> \in about
    BY <1>1
  <2>2. <<r, m>> \in about => reader'[r] = reader[r]
    BY <1>1
  <2> QED
    BY <2>1, <2>2 DEF Heard, ReportsAbout
<1>3. \A r \in Heard(m) \cup Heard(m)' : r \in Reports
  BY DEF Heard, ReportsAbout
<1> QED
  BY <1>2, <1>3

\* A report about a message is one more.
LEMMA HeardMore ==
    ASSUME TypeOK, ReportTypes, FreshReports, ReceiverIsThere,
           NEW m, NEW fates, Report(m, fates), IsFiniteSet(Heard(m))
    PROVE  Cardinality(Heard(m)') = Cardinality(Heard(m)) + 1
<1>1. PICK new \in Reports :
        /\ \A y : <<new, y>> \notin about
        /\ about' = about \cup {<<new, m>>}
        /\ reader'[new] # 0
        /\ \A r \in Reports \ {new} : reader'[r] = reader[r]
  BY ReportArrives
<1>2. ASSUME NEW r \in Reports PROVE r \in Heard(m)' <=> r \in Heard(m) \cup {new}
  <2>1. CASE r = new
    BY <1>1, <2>1 DEF Heard, ReportsAbout
  <2>2. CASE r # new
    <3>1. <<r, m>> \in about' <=> <<r, m>> \in about
      BY <1>1, <2>2
    <3>2. reader'[r] = reader[r]
      BY <1>1, <2>2
    <3> QED
      BY <2>2, <3>1, <3>2 DEF Heard, ReportsAbout
  <2> QED
    BY <2>1, <2>2
<1>3. \A r \in Heard(m) \cup Heard(m)' : r \in Reports
  BY DEF Heard, ReportsAbout
<1>4. Heard(m)' = Heard(m) \cup {new} /\ new \notin Heard(m)
  <2>1. Heard(m)' = Heard(m) \cup {new}
    BY <1>2, <1>3
  <2>2. new \notin Heard(m)
    BY <1>1 DEF Heard, ReportsAbout
  <2> QED
    BY <2>1, <2>2
<1> QED
  BY <1>4, FS_AddElement

\* While there is an error receiver, it keeps up with the failures of a message.
LEMMA HeardStep ==
    ASSUME IInv, Accounted, TypeOK, ReportTypes, FreshReports, [NextReports]_allVars,
           NEW m \in Msgs, ReceiverIsThere, Cardinality(Heard(m)) = Failures(m)
    PROVE  Cardinality(Heard(m)') = Failures(m)'
<1>1. IsFiniteSet(Heard(m))
  BY FS_Subset DEF Accounted, Heard
<1>2. ASSUME Failures(m)' = Failures(m) + 1, Report(m, fate)
      PROVE  Cardinality(Heard(m)') = Failures(m)'
  BY <1>1, <1>2, HeardMore
<1>3. ASSUME NEW n \in Msgs, Reject(n) \/ TimeOut(n), n # m PROVE Heard(m)' = Heard(m)
  BY <1>3, HeardOther DEF Reject, TimeOut
<1>4. ASSUME NEW x \in Reports \cup Actors, NEW fates, Report(x, fates) PROVE Heard(m)' = Heard(m)
  <2>1. x # m
    BY ReportsAssumption
  <2> QED
    BY <1>4, <2>1, HeardOther
<1>5. ASSUME UNCHANGED <<about, reader>> PROVE Heard(m)' = Heard(m)
  BY <1>5 DEF Heard, ReportsAbout
<1>6. ASSUME Failures(m)' = Failures(m) PROVE Heard(m)' = Heard(m)
  <2>1. ~Reject(m) /\ ~TimeOut(m)
    <3>1. ASSUME Reject(m) \/ TimeOut(m) PROVE Failures(m)' # Failures(m)
      <4>t. at \in [Msgs -> Places] /\ deadline \in [Msgs -> Timers]
        BY DEF TypeOK
      <4>1. \/ at[m] = "receiving" /\ at'[m] = "failed" /\ deadline'[m] = deadline[m]
            \/ deadline[m] = "armed" /\ deadline'[m] = "fired" /\ at'[m] = at[m]
        BY <3>1, <4>t DEF Reject, TimeOut, ReceiveRejects, DeadlineFires
      <4> QED
        BY <4>1 DEF Failures
    <3> QED
      BY <3>1, <1>6
  <2>2. ASSUME NEW n \in Msgs, Return(n) \/ UNCHANGED reportVars PROVE UNCHANGED <<about, reader>>
    BY <2>2 DEF Return, reportVars
  <2>3. ASSUME NEW r \in Reports, ReportReturns(r) PROVE UNCHANGED <<about, reader>>
    BY <2>3 DEF ReportReturns
  <2>4. ASSUME NEW r \in Reports, ReportRejects(r) PROVE Report(r, [fate EXCEPT ![r] = "failed"])
    BY <2>4 DEF ReportRejects
  <2>5. ASSUME NEW a \in Actors, NameFails(a) PROVE Report(a, fate)
    BY <2>5 DEF NameFails
  <2>6. ASSUME NEW a \in Actors, RegisterActor(a) PROVE UNCHANGED <<about, reader>>
    BY <2>6 DEF RegisterActor
  <2>7. ASSUME UNCHANGED reportVars \/ UNCHANGED allVars PROVE UNCHANGED <<about, reader>>
    BY <2>7 DEF reportVars, allVars
  <2> QED
    BY <1>3, <1>4, <1>5, <2>1, <2>2, <2>3, <2>4, <2>5, <2>6, <2>7 DEF NextReports
<1> QED
  BY <1>2, <1>6, FailureStep

\* Nothing was heard of a message that did not fail.
LEMMA NothingHeardYet ==
    ASSUME Accounted, NEW m \in Msgs, Failures(m) = 0 PROVE Cardinality(Heard(m)) = Failures(m)
<1>1. IsFiniteSet(ReportsAbout(m)) /\ Cardinality(ReportsAbout(m)) <= 0
  BY DEF Accounted
<1>2. ReportsAbout(m) = {}
  BY <1>1, FS_CardinalityType, FS_EmptySet
<1>3. Heard(m) = {}
  BY <1>2 DEF Heard
<1> QED
  BY <1>3, FS_EmptySet

(* While an error receiver is registered and the inbox is open, it hears   *)
(* of a message exactly as often as the message fails.                     *)
THEOREM ReceiverHears == SpecReports => HearsOfEveryFailure
<1> SUFFICES ASSUME NEW m \in Msgs
             PROVE  SpecReports =>
                [](Failures(m) = 0 /\ []ReceiverIsThere => [](Cardinality(Heard(m)) = Failures(m)))
  BY DEF HearsOfEveryFailure
<1> DEFINE Books == IInv /\ Accounted /\ TypeOK /\ ReportTypes /\ FreshReports
           InStep == Cardinality(Heard(m)) = Failures(m)
<1>1. SpecReports => []Books
  BY AccountedHolds, ReportTypesHold, PTL
<1>2. Books /\ Failures(m) = 0 => InStep
  BY NothingHeardYet
<1>3. Books /\ ReceiverIsThere /\ InStep /\ [NextReports]_allVars => InStep'
  BY HeardStep
<1> QED
  BY <1>1, <1>2, <1>3, PTL DEF SpecReports
=============================================================================

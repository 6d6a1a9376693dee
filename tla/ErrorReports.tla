---------------------------- MODULE ErrorReports ----------------------------
(***************************************************************************)
(* The error receiver of an ActorSystem, composed with Messaging: an actor *)
(* that is created with errorReceiver becomes errorActor, and the system   *)
(* sends it a report of every receive that rejects, every ask that times   *)
(* out, and every createActor or getActorRef that does not like a name.    *)
(*                                                                         *)
(* A report is a message of the system without an answer: send calls       *)
(* inbox.next at once, and nobody looks at the promise of that send.       *)
(***************************************************************************)
EXTENDS Messaging, FiniteSets

CONSTANTS
    Receivers, \* the actor URIs that are created with errorReceiver: true
    Reports    \* bounds the reports that are sent: a failure waits for one

ASSUME ReportsAssumption ==
    /\ Receivers \subseteq Actors
    /\ Msgs \cap (Reports \cup Actors) = {}

VARIABLES
    errorActor, \* the URI of ActorSystem.errorActor, in a set; {} if undefined
    fate,       \* what became of a report
    reader,     \* the Actor object whose receive got it
    about       \* <<report, the message, report or URI it is about>>

reportVars == <<errorActor, fate, reader, about>>
allVars == <<vars, reportVars>>

Fates == {"unsent", "uncaught", "receiving", "handled", "failed"}
Causes == Msgs \cup Reports \cup Actors

-----------------------------------------------------------------------------
\* A wrong variant: the report is given to the actor's URI.
ReportToName(x, fates) ==
    IF errorActor = {}
    THEN UNCHANGED reportVars
    ELSE \E r \in Reports, a \in errorActor :
            /\ fate[r] = "unsent"
            /\ fate' = [fates EXCEPT ![r] = "receiving"]
            /\ reader' = [reader EXCEPT ![r] = a]
            /\ about' = about \cup {<<r, x>>}
            /\ UNCHANGED errorActor

(* "if (this.errorActor) this.send(...)": the report reaches the object    *)
(* that has the name of the error receiver now, or the system actor if     *)
(* there is none.  A stopped inbox throws inside send, which is async: the *)
(* rejection has no handler.  A report that threw or went to the system    *)
(* actor is in about, too, with reader 0.  fates: the fates of other       *)
(* reports after this step.                                                *)
Report(x, fates) ==
    IF errorActor = {}
    THEN UNCHANGED reportVars
    ELSE \E a \in errorActor :
            LET unsent == {r \in Reports : fate[r] = "unsent"}
                r == CHOOSE r \in unsent : TRUE
            IN /\ unsent # {}
               /\ fate' = [fates EXCEPT ![r] = IF inbox = "open" THEN "receiving" ELSE "uncaught"]
               /\ reader' = [reader EXCEPT ![r] = IF inbox = "open" THEN registered[a] ELSE 0]
               /\ about' = about \cup {<<r, x>>}
               /\ UNCHANGED errorActor

\* A wrong variant: only failures of registered actors are reported.
RejectReportingKnown(m) ==
    /\ ReceiveRejects(m)
    /\ IF registered[To[m]] = 0 THEN UNCHANGED reportVars ELSE Report(m, fate)

\* receive rejected: the report is sent before the strategy is applied.
Reject(m) == ReceiveRejects(m) /\ Report(m, fate)

\* The timer of an ask answers the asker, then reports.
TimeOut(m) == DeadlineFires(m) /\ Report(m, fate)

\* A wrong variant: a result that comes after the timeout is an error, too.
ReturnReporting(m) ==
    /\ ReceiveReturns(m)
    /\ IF deadline[m] = "fired" THEN Report(m, fate) ELSE UNCHANGED reportVars

Return(m) == ReceiveReturns(m) /\ UNCHANGED reportVars

(* createActor refuses a name that is registered, getActorRef does not     *)
(* find one that is not: each reports before it rejects or returns.        *)
NameFails(a) == Report(a, fate) /\ UNCHANGED vars

\* The reader's receive settled; the system actor logs the report.
ReportReturns(r) ==
    /\ fate[r] = "receiving"
    /\ fate' = [fate EXCEPT ![r] = "handled"]
    /\ UNCHANGED <<vars, errorActor, reader, about>>

(* The error receiver's own receive rejected, which is reported like any   *)
(* other failure; its restart or shutdown follows as Register, Unregister. *)
ReportRejects(r) ==
    /\ fate[r] = "receiving" /\ reader[r] # 0
    /\ Report(r, [fate EXCEPT ![r] = "failed"])
    /\ UNCHANGED vars

(* createActor, also when restart calls it with the same options: the new  *)
(* object becomes errorActor.  Nothing ever clears errorActor.             *)
RegisterActor(a) ==
    /\ Register(a)
    /\ errorActor' = IF a \in Receivers THEN {a} ELSE errorActor
    /\ UNCHANGED <<fate, reader, about>>

-----------------------------------------------------------------------------
InitReports ==
    /\ Init
    /\ errorActor = {}
    /\ fate = [r \in Reports |-> "unsent"]
    /\ reader = [r \in Reports |-> 0]
    /\ about = {}

NextReports ==
    \/ \E m \in Msgs : Reject(m) \/ TimeOut(m) \/ Return(m)
    \/ \E m \in Msgs : (ActorSend(m) \/ SystemSend(m)) /\ UNCHANGED reportVars
    \/ \E r \in Reports : ReportReturns(r) \/ ReportRejects(r)
    \/ \E a \in Actors :
        NameFails(a) \/ RegisterActor(a) \/ (Unregister(a) /\ UNCHANGED reportVars)
    \/ (SendTimer \/ StopInbox) /\ UNCHANGED reportVars

SpecReports == InitReports /\ [][NextReports]_allVars

-----------------------------------------------------------------------------
\* The kinds of values the variables hold, those of Messaging included.
TypeOKReports ==
    /\ TypeOK
    /\ errorActor \subseteq Receivers /\ Cardinality(errorActor) <= 1
    /\ fate \in [Reports -> Fates]
    /\ reader \in [Reports -> Nat]
    /\ about \subseteq Reports \X Causes

Failures(m) == (IF at[m] = "failed" THEN 1 ELSE 0) + (IF deadline[m] = "fired" THEN 1 ELSE 0)
ReportsAbout(x) == {r \in Reports : <<r, x>> \in about}

(* The error receiver hears of a message only what went wrong: once for a  *)
(* receive that rejected, once for a timeout, in whichever order these     *)
(* come, and of a timeout only when the asker has been answered.           *)
OncePerFailure ==
    \A m \in Msgs :
        /\ Cardinality(ReportsAbout(m)) <= Failures(m)
        /\ at[m] # "failed" /\ ReportsAbout(m) # {} => outcome[m] = "error"

\* The reports about m that an error receiver got: not those that threw in
\* send, and not those that the system actor logged.
Heard(m) == {r \in ReportsAbout(m) : reader[r] # 0}

\* Reports reach an error receiver now.
ReceiverIsThere == inbox = "open" /\ errorActor # {} /\ \A a \in errorActor : registered[a] # 0

(* If there is an error receiver from before a message fails, it hears of  *)
(* the message exactly as often as it fails: a rejection before or after   *)
(* the timeout, and also when the receiver is replaced by a restart in     *)
(* between, fails at other reports, or the actor that failed is gone.      *)
HearsOfEveryFailure ==
    \A m \in Msgs :
        [](Failures(m) = 0 /\ []ReceiverIsThere => [](Cardinality(Heard(m)) = Failures(m)))

-----------------------------------------------------------------------------
(* What the code does not keep: each of these is violated.                 *)

\* A report of an error does not end in another one that nobody handles.
NothingUncaught == \A r \in Reports : fate[r] # "uncaught"

\* The error receiver is not told of its own failure to handle a report.
NotToldOfItself ==
    \A r, s \in Reports : <<r, s>> \in about /\ reader[r] # 0 => reader[r] # reader[s]

\* Reports go to an error receiver that exists.
ReceiverIsRegistered == \A a \in errorActor : registered[a] # 0
=============================================================================

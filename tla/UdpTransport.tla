---------------------------- MODULE UdpTransport ----------------------------
(***************************************************************************)
(* One UDP request, from sendMessage to the settling of its promise.       *)
(*                                                                         *)
(* sendMessage hands the packet to the socket; only when the socket calls  *)
(* back are the listeners for the answer registered (udpMessageResolver),  *)
(* so an answer can be read before anybody listens for it.  The promise    *)
(* races the listeners against a 45 s timer.  The other node answers with  *)
(* a message that goes through its own sendMessage and resolver.           *)
(*                                                                         *)
(* Datagrams may be lost, duplicated and reordered.  A call is identified  *)
(* by its resId, which is a fresh UUID.                                    *)
(***************************************************************************)
EXTENDS Integers

CONSTANTS
    Call,       \* resIds
    MaxCopies   \* bound: times the network delivers one datagram

ASSUME UdpAssumption == MaxCopies \in Nat

\* The requests that nodes send, and the emitter event that the answer to each
\* raises.  KEY_RESPONSE, the answer to KEY_DISCOVERY, is handled without one.
Answered   == {"PING", "STORE", "FIND_NODE", "FIND_VALUE"}
Unanswered == {"KEY_DISCOVERY"}
Requests   == Answered \cup Unanswered

Events == {"reply", "pong", "findValue"}

EventOf(type) ==
    CASE type = "FIND_NODE"  -> "reply"
      [] type = "FIND_VALUE" -> "findValue"
      [] type \in {"PING", "STORE"} -> "pong"
      [] OTHER -> "none"

VARIABLES
    type,       \* [Call -> request type]
    outcome,    \* [Call -> state of the promise that sendMessage returned]
    listening,  \* [Call -> events of this resId with a registered listener]
    called,     \* calls whose send callback has run
    requests,   \* [Call -> copies of the request still to be delivered]
    answers,    \* [Call -> copies of the answer still to be delivered]
    handled     \* calls whose request the other node has handled

udpVars == <<type, outcome, listening, called, requests, answers, handled>>

UdpInit ==
    /\ type \in [Call -> Requests]
    /\ outcome = [c \in Call |-> "unsent"]
    /\ listening = [c \in Call |-> {}]
    /\ called = {}
    /\ requests = [c \in Call |-> 0]
    /\ answers = [c \in Call |-> 0]
    /\ handled = {}

\* server.send, and the timer that timeoutReject starts.
SendMessage(c) ==
    /\ outcome[c] = "unsent"
    /\ outcome' = [outcome EXCEPT ![c] = "pending"]
    /\ \E n \in 0 .. MaxCopies : requests' = [requests EXCEPT ![c] = n]
    /\ UNCHANGED <<type, listening, called, answers, handled>>

\* Mutant of ResolvedAtOnce: requests are resolved by the send as well.
ResolvedAtOnceAll(t) == t \in Requests

\* The resolver settles the sends of these answers at once.  No request is one.
ResolvedAtOnce(t) == t \in {"REPLY", "PONG", "FOUND_RESPONSE"}

\* Mutant of SendCallback: findValue is not listened for.
SendCallbackNoFindValue(c) ==
    /\ outcome[c] # "unsent"
    /\ c \notin called
    /\ called' = called \cup {c}
    /\ listening' = [listening EXCEPT ![c] = {"reply", "pong"}]
    /\ outcome' = [outcome EXCEPT ![c] =
                      IF @ = "pending" /\ ResolvedAtOnce(type[c]) THEN "resolved" ELSE @]
    /\ UNCHANGED <<type, requests, answers, handled>>

\* udpMessageResolver: three one-shot listeners, whatever the type.
SendCallback(c) ==
    /\ outcome[c] # "unsent"
    /\ c \notin called
    /\ called' = called \cup {c}
    /\ listening' = [listening EXCEPT ![c] = Events]
    /\ outcome' = [outcome EXCEPT ![c] =
                      IF @ = "pending" /\ ResolvedAtOnce(type[c]) THEN "resolved" ELSE @]
    /\ UNCHANGED <<type, requests, answers, handled>>

\* The other node's handleMessage and handleMessageResponse.
HandleRequest(c) ==
    /\ requests[c] > 0
    /\ requests' = [requests EXCEPT ![c] = @ - 1]
    /\ handled' = handled \cup {c}
    /\ \E n \in 0 .. MaxCopies : answers' = [answers EXCEPT ![c] = @ + n]
    /\ UNCHANGED <<type, outcome, listening, called>>

\* Mutant of HandleAnswer: the listener stays after it has fired, and settles
\* the promise whatever its state.
HandleAnswerUnguarded(c) ==
    /\ answers[c] > 0
    /\ answers' = [answers EXCEPT ![c] = @ - 1]
    /\ outcome' = [outcome EXCEPT ![c] =
                      IF EventOf(type[c]) \in listening[c] THEN "resolved" ELSE @]
    /\ UNCHANGED <<type, listening, called, requests, handled>>

\* handleMessage raises the event: its listener, if there is one, fires once
\* and resolves the promise unless the timer won the race.  An event without
\* a listener is lost.
HandleAnswer(c) ==
    /\ answers[c] > 0
    /\ answers' = [answers EXCEPT ![c] = @ - 1]
    /\ outcome' = [outcome EXCEPT ![c] =
                      IF @ = "pending" /\ EventOf(type[c]) \in listening[c]
                      THEN "resolved" ELSE @]
    /\ listening' = [listening EXCEPT ![c] = @ \ {EventOf(type[c])}]
    /\ UNCHANGED <<type, called, requests, handled>>

\* Mutant of Timeout: no timer races the listeners.
TimeoutNever(c) == FALSE /\ UNCHANGED udpVars

\* The 45 s timer rejects a promise that is still pending.  The listeners stay.
Timeout(c) ==
    /\ outcome[c] = "pending"
    /\ outcome' = [outcome EXCEPT ![c] = "rejected"]
    /\ UNCHANGED <<type, listening, called, requests, answers, handled>>

UdpNext ==
    \E c \in Call :
        \/ SendMessage(c)
        \/ SendCallback(c)
        \/ HandleRequest(c)
        \/ HandleAnswer(c)
        \/ Timeout(c)

\* setTimeout fires; nothing is assumed of the network or of the other node.
UdpFairness == \A c \in Call : WF_udpVars(Timeout(c))

UdpSpec == UdpInit /\ [][UdpNext]_udpVars /\ UdpFairness

-----------------------------------------------------------------------------

(***************************************************************************)
(* Properties                                                              *)
(***************************************************************************)

UdpTypeOK ==
    /\ type \in [Call -> Requests]
    /\ outcome \in [Call -> {"unsent", "pending", "resolved", "rejected"}]
    /\ listening \in [Call -> SUBSET Events]
    /\ called \subseteq Call
    /\ requests \in [Call -> Nat]
    /\ answers \in [Call -> Nat]
    /\ handled \subseteq Call

\* A resolved promise is an acknowledgement: the other node handled the request.
ResolvedMeansHandled == \A c \in Call : outcome[c] = "resolved" => c \in handled

\* An answer that is handled in time resolves its call, unless it is handled before
\* the send callback has registered the listeners: no other answer is lost at the
\* caller, whatever copies of it were lost early or come after it.
OnlyEarlyAnswersAreLost ==
    [][\A c \in Call :
          (/\ type[c] \in Answered /\ answers'[c] < answers[c]
           /\ outcome[c] = "pending" /\ c \in called)
              => outcome'[c] = "resolved"]_udpVars

\* A promise that has settled stays settled the same way, whatever answers
\* arrive late or twice, and a call resolves only once the message is handled.
Caller == INSTANCE UdpCall

ImplementsUdpCall == Caller!Spec

\* Every call settles, even if the network loses everything.
EveryCallSettles ==
    \A c \in Call : outcome[c] = "pending" ~> outcome[c] \in {"resolved", "rejected"}
=============================================================================

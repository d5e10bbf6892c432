---------------------------- MODULE EventStream ----------------------------
(***************************************************************************)
(* What a client is promised of the topics it subscribes to: the events of  *)
(* a topic arrive in the order in which they were published, each at most   *)
(* once, and an event that was published while the subscription was open is *)
(* only lost when the subscription ends or, on a lossy topic, when a newer  *)
(* one displaces it.  The topics share a connection, so that a step may end *)
(* the subscriptions of several.                                            *)
(***************************************************************************)
EXTENDS Integers, SequencesExt

CONSTANTS
    Topics,
    Lossy      \* the topics whose drop policy is drop_oldest

VARIABLES
    sent,      \* events published so far, per topic; the n-th one is the number n
    open,      \* topics to which the client is subscribed
    inflight,  \* per topic, events on their way to the client
    received   \* per topic, events the client has taken

vars == <<sent, open, inflight, received>>

Init ==
    /\ sent = [t \in Topics |-> 0]
    /\ open = {}
    /\ inflight = [t \in Topics |-> <<>>]
    /\ received = [t \in Topics |-> <<>>]

----------------------------------------------------------------------------
(* What may happen to topic t in a step *)

Keeps(t, f) == f'[t] = f[t]
StaysOpen(t) == t \in open' <=> t \in open

\* What is furthest from the client is lost, or nothing is.
Shortens(t) == \E n \in 0 .. Len(inflight[t]) : inflight'[t] = SubSeq(inflight[t], 1, n)

Subscribe(t) ==
    /\ t \notin open /\ t \in open'
    /\ Keeps(t, sent) /\ Keeps(t, inflight) /\ Keeps(t, received)

Publish(t) ==
    /\ sent'[t] = sent[t] + 1
    /\ \/ t \notin open /\ Keeps(t, inflight)
       \/ t \in open /\ inflight'[t] = Append(inflight[t], sent[t] + 1)
       \/ /\ t \in open /\ t \in Lossy
          /\ \E i \in DOMAIN inflight[t] :
                inflight'[t] = Append(RemoveAt(inflight[t], i), sent[t] + 1)
    /\ StaysOpen(t) /\ Keeps(t, received)

\* The subscription ends.
Unsubscribe(t) ==
    /\ t \in open /\ t \notin open'
    /\ Shortens(t)
    /\ Keeps(t, sent) /\ Keeps(t, received)

\* The connection ends after the subscription did.
Lose(t) ==
    /\ t \notin open /\ t \notin open'
    /\ Shortens(t)
    /\ Keeps(t, sent) /\ Keeps(t, received)

Receive(t) ==
    /\ inflight[t] # <<>>
    /\ inflight'[t] = Tail(inflight[t])
    /\ received'[t] = Append(received[t], Head(inflight[t]))
    /\ StaysOpen(t) /\ Keeps(t, sent)

Idle(t) ==
    StaysOpen(t) /\ Keeps(t, sent) /\ Keeps(t, inflight) /\ Keeps(t, received)

Next == \A t \in Topics :
    Subscribe(t) \/ Publish(t) \/ Unsubscribe(t) \/ Lose(t) \/ Receive(t) \/ Idle(t)

Spec == Init /\ [][Next]_vars
=============================================================================

---------------------------- MODULE Rendezvous -----------------------------
(***************************************************************************)
(* What a mailbox promises, with no queues, descriptors or dummy threads:  *)
(* a message and a receiver that fit meet as soon as both are there, once, *)
(* and the receiver then has the source and the data that were sent.  The  *)
(* message is with its sender again, who may send the next one, when       *)
(* nobody has met it and it is withdrawn, or when the receiver releases    *)
(* it.                                                                     *)
(***************************************************************************)
CONSTANTS Thread, NULL, ANY,
  Sender,      \* what a message may be sent as: each has one at a time
  Retrieved    \* in the place of data that the receiver has taken out of the message

VARIABLES
  offer,   \* the message of each sender: [source, target, data]
  ask,     \* the source a receiver waits for a message from
  met      \* what each receiver has: [sender, source, data]

vars == <<offer, ask, met>>

NoOffer == [source |-> NULL, target |-> NULL, data |-> NULL]
NoMeeting == [sender |-> NULL, source |-> NULL, data |-> NULL]
Meeting(s, m) == [sender |-> s, source |-> m.source, data |-> m.data]

Init ==
  /\ offer = [s \in Sender |-> NoOffer]
  /\ ask = [t \in Thread |-> NULL]
  /\ met = [t \in Thread |-> NoMeeting]

\* Whether t, who asks for messages from want, and message m fit
Fits(m, t, want) == m.target \in {ANY, t} /\ want \in {ANY, m.source}

Open(s) == offer[s] # NoOffer /\ \A t \in Thread : met[t].sender # s

\* A message is sent: to one of the receivers who wait for it, if there are any.
Put(s, m) ==
  LET R == {t \in Thread : ask[t] # NULL /\ Fits(m, t, ask[t])}
  IN /\ offer[s] = NoOffer /\ m # NoOffer
     /\ offer' = [offer EXCEPT ![s] = m]
     /\ \/ R = {} /\ UNCHANGED <<ask, met>>
        \/ \E t \in R : /\ ask' = [ask EXCEPT ![t] = NULL]
                        /\ met' = [met EXCEPT ![t] = Meeting(s, m)]

Withdraw(s) ==
  /\ Open(s)
  /\ offer' = [offer EXCEPT ![s] = NoOffer]
  /\ UNCHANGED <<ask, met>>

Free(t) == ask[t] = NULL /\ met[t] = NoMeeting

\* A receiver for whom there is no message yet
Ask(t, want) ==
  /\ Free(t) /\ want # NULL
  /\ \A s \in Sender : Open(s) => ~Fits(offer[s], t, want)
  /\ ask' = [ask EXCEPT ![t] = want]
  /\ UNCHANGED <<offer, met>>

\* A receiver for whom there is one; what it asks for is gone with the step.
Receive(t, s) ==
  /\ Free(t) /\ s \in Sender
  /\ Open(s) /\ offer[s].target \in {ANY, t}
  /\ met' = [met EXCEPT ![t] = Meeting(s, offer[s])]
  /\ UNCHANGED <<offer, ask>>

GiveUp(t) ==
  /\ ask[t] # NULL
  /\ ask' = [ask EXCEPT ![t] = NULL]
  /\ UNCHANGED <<offer, met>>

Retrieve(t) ==
  /\ met[t] # NoMeeting
  /\ met' = [met EXCEPT ![t].data = Retrieved]
  /\ UNCHANGED <<offer, ask>>

Release(t) ==
  /\ met[t] # NoMeeting
  /\ offer' = [offer EXCEPT ![met[t].sender] = NoOffer]
  /\ met' = [met EXCEPT ![t] = NoMeeting]
  /\ UNCHANGED ask

\* Messages, requests and meetings may be any: they are named by the state they lead to.
Next ==
  \/ \E s \in Sender : Put(s, offer'[s]) \/ Withdraw(s)
  \/ \E t \in Thread : \/ Ask(t, ask'[t]) \/ Receive(t, met'[t].sender)
                       \/ GiveUp(t) \/ Retrieve(t) \/ Release(t)

Spec == Init /\ [][Next]_vars
=============================================================================

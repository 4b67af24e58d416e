------------------------------- MODULE Mailer -------------------------------
(***************************************************************************)
(* The mail listener of email/mail.go with its two buffered channels, and  *)
(* the module of email/module.go that starts it, queues into it and closes *)
(* it.  A caller of Queue waits while Jobs is full.                        *)
(***************************************************************************)
EXTENDS Naturals, Sequences, SequencesExt

CONSTANTS
  Mail,       \* the messages, each of which is queued at most once
  ZeroMail,   \* what a receive from the closed channel yields
  MailBuffer  \* capacity of Jobs and of Results, 20 in the code

ASSUME MailerAssumption == ZeroMail \notin Mail /\ MailBuffer \in Nat \ {0}

VARIABLES
  transport, \* "smtp", one of the three APIs, or what is neither
  Jobs,      \* the channel, with the messages of waiting callers behind it
  Results,   \* number of results that were not read
  listener,  \* what ListenForMail does next
  message,   \* the message it holds
  closed,    \* the channel Jobs is closed
  crashed,   \* the process is gone, by a panic of Shutdown
  accepted,  \* the messages Queue was called with, but for those it panicked on
  received,  \* what the listener received, in order
  sent       \* what was handed to the provider, in order

mailVars == <<transport, Jobs, Results, listener, message, closed, crashed,
              accepted, received, sent>>

APIs == {"mailgun"}
Transports == {"smtp", "carrier"} \cup APIs

MailTypeOK ==
  /\ transport \in Transports /\ {closed, crashed} \subseteq BOOLEAN
  /\ Results \in 0..MailBuffer
  /\ listener \in {"receive", "send", "report"} /\ message \in Mail \cup {ZeroMail}
  /\ \A s \in {Jobs, accepted, received, sent} : Range(s) \subseteq Mail

MailInit ==
  /\ transport \in Transports /\ Jobs = <<>> /\ Results = 0
  /\ listener = "receive" /\ message = ZeroMail
  /\ closed = FALSE /\ crashed = FALSE
  /\ accepted = <<>> /\ received = <<>> /\ sent = <<>>

(* A send on the closed channel panics in the caller, whose request the    *)
(* recovery middleware ends.                                               *)
QueueMail(m) ==
  /\ m \notin Range(accepted) /\ ~closed
  /\ Jobs' = Append(Jobs, m) /\ accepted' = Append(accepted, m)
  /\ UNCHANGED <<transport, Results, listener, message, closed, crashed, received, sent>>

(* The callers that wait panic; a second Shutdown panics itself.           *)
ShutdownMail ==
  /\ closed' = TRUE /\ crashed' = closed
  /\ LET waiting == IF Len(Jobs) > MailBuffer THEN Len(Jobs) - MailBuffer ELSE 0 IN
     /\ Jobs' = SubSeq(Jobs, 1, Len(Jobs) - waiting)
     /\ accepted' = SubSeq(accepted, 1, Len(accepted) - waiting)
  /\ UNCHANGED <<transport, Results, listener, message, received, sent>>

(* Mutant: the listener ends when the channel is closed.                   *)
ReceiveUnlessClosed ==
  /\ listener = "receive" /\ listener' = "send" /\ ~closed
  /\ Jobs # <<>> /\ message' = Head(Jobs)
  /\ Jobs' = Tail(Jobs) /\ received' = Append(received, message')
  /\ UNCHANGED <<transport, Results, closed, crashed, accepted, sent>>

(* The listener does not ask whether the channel is closed.                *)
Receive ==
  /\ listener = "receive" /\ listener' = "send"
  /\ \/ /\ Jobs # <<>> /\ message' = Head(Jobs)
        /\ Jobs' = Tail(Jobs) /\ received' = Append(received, message')
     \/ Jobs = <<>> /\ closed /\ message' = ZeroMail /\ UNCHANGED <<Jobs, received>>
  /\ UNCHANGED <<transport, Results, closed, crashed, accepted, sent>>

(* Mutant: a message whose sending timed out is sent again.                *)
SendAgain ==
  /\ listener = "send" /\ listener' \in {"send", "report"}
  /\ message # ZeroMail /\ Len(sent) < 3 /\ sent' = Append(sent, message)
  /\ UNCHANGED <<transport, Jobs, Results, message, closed, crashed, accepted, received>>

(* A template or an attachment that is missing, a connection or a provider *)
(* that fails: nothing is sent, and nothing is tried again.  The zero      *)
(* message has no template.                                                *)
buildMessage == message # ZeroMail
SendSMTPMessage == (buildMessage /\ sent' = Append(sent, message)) \/ UNCHANGED sent
SendUsingAPI == (buildMessage /\ sent' = Append(sent, message)) \/ UNCHANGED sent
ChooseAPI == IF transport \in APIs THEN SendUsingAPI ELSE UNCHANGED sent

Send ==
  /\ listener = "send" /\ listener' = "report"
  /\ IF transport = "smtp" THEN SendSMTPMessage ELSE ChooseAPI
  /\ UNCHANGED <<transport, Jobs, Results, message, closed, crashed, accepted, received>>

Report ==
  /\ listener = "report" /\ Results < MailBuffer
  /\ Results' = Results + 1 /\ listener' = "receive" /\ message' = ZeroMail
  /\ UNCHANGED <<transport, Jobs, closed, crashed, accepted, received, sent>>

(* The application may read the results; nothing in the framework does.    *)
ReadResult ==
  /\ Results > 0 /\ Results' = Results - 1
  /\ UNCHANGED <<transport, Jobs, listener, message, closed, crashed, accepted,
                 received, sent>>

ListenForMail == ~crashed /\ (Receive \/ Send \/ Report)

MailNext ==
  \/ ListenForMail
  \/ ~crashed /\ (ReadResult \/ ShutdownMail \/ \E m \in Mail : QueueMail(m))

MailSpec == MailInit /\ [][MailNext]_mailVars
-----------------------------------------------------------------------------
(* The places of the messages that were sent, among those received.        *)
Places == [1..Len(sent) -> 1..Len(received)]
Sends(places) ==
  \A i \in 1..Len(sent) : /\ sent[i] = received[places[i]]
                          /\ \A k \in 1..Len(sent) : k < i => places[k] < places[i]

(* Whatever is accepted is received once and in the order of the calls,    *)
(* also what was in the channel when it was closed, and nothing else is    *)
(* ever sent, in no other order.                                           *)
MailInOrder ==
  /\ received \o Jobs = accepted
  /\ \E places \in Places : Sends(places)

(* As long as somebody makes room in Results, every accepted message is    *)
(* received, unless a shutdown that closes the channel under its callers,  *)
(* or ends the process, comes first.                                       *)
MailHandled ==
  []<>(Results < MailBuffer) => (accepted # received ~> accepted = received \/ crashed)
=============================================================================

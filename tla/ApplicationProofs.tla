--------------------------- MODULE ApplicationProofs ---------------------------
(***************************************************************************)
(* Theorems about the mail listener of email/mail.go, the seeder of        *)
(* database/seeder.go and the command line tool of cmd/tjo, for any mails, *)
(* tables, records, runs, names and commands; the last part puts them      *)
(* together with the modules, the queue, the workers and the stored jobs.  *)
(***************************************************************************)
EXTENDS Application, LifecycleProofs, JobServiceProofs, SequenceTheorems, FiniteSetTheorems,
        WellFoundedInduction, TLAPS


-----------------------------------------------------------------------------
(* Part 1: the mail listener.                                              *)
HIDE DEF LifecycleAssumption, WorkerPoolAssumption, JobStoreAssumption,
         MemoryQueueAssumption

USE MailerAssumption DEF MailerAssumption

(* What is sent is among the first n of those received.                     *)
Before(places, n) == \A i \in 1 .. Len(sent) : places[i] <= n

MailTyped ==
  /\ transport \in Transports /\ closed \in BOOLEAN /\ crashed \in BOOLEAN
  /\ Results \in 0 .. MailBuffer
  /\ listener \in {"receive", "send", "report"} /\ message \in Mail \cup {ZeroMail}
  /\ Jobs \in Seq(Mail) /\ accepted \in Seq(Mail)
  /\ received \in Seq(Mail) /\ sent \in Seq(Mail)

(* A message that the listener is about to send is the last that it         *)
(* received, and was not sent yet.                                          *)
MailInv ==
  /\ MailTyped
  /\ received \o Jobs = accepted
  /\ \E places \in Places :
       /\ Sends(places)
       /\ listener = "send" /\ message # ZeroMail =>
            /\ received # <<>> /\ message = received[Len(received)]
            /\ Before(places, Len(received) - 1)

LEMMA MailOrdered == MailInv => MailInOrder
  BY DEF MailInv, MailInOrder

LEMMA RangeIs == ASSUME NEW S, NEW s \in Seq(S) PROVE Range(s) \subseteq S
  BY DEF Range

LEMMA MailTypes == MailInv => MailTypeOK
<1> SUFFICES ASSUME MailInv PROVE MailTypeOK
  OBVIOUS
<1>1. MailTyped
  BY DEF MailInv
<1>2. Range(Jobs) \subseteq Mail /\ Range(accepted) \subseteq Mail
      /\ Range(received) \subseteq Mail /\ Range(sent) \subseteq Mail
  BY <1>1, RangeIs DEF MailTyped
<1> QED
  BY <1>1, <1>2 DEF MailTypeOK, MailTyped

LEMMA MailInitInv == MailInit => MailInv
<1> SUFFICES ASSUME MailInit PROVE MailInv
  OBVIOUS
<1>1. MailTyped /\ received = <<>> /\ Jobs = <<>> /\ accepted = <<>> /\ sent = <<>> /\ listener = "receive"
  <2>1. Jobs \in Seq(Mail) /\ accepted \in Seq(Mail) /\ received \in Seq(Mail) /\ sent \in Seq(Mail)
    BY DEF MailInit
  <2>2. Results \in 0 .. MailBuffer
    BY DEF MailInit
  <2>3. closed \in BOOLEAN /\ crashed \in BOOLEAN
    BY DEF MailInit
  <2> QED BY <2>1, <2>2, <2>3, Zenon DEF MailInit, MailTyped
<1>2. received \o Jobs = accepted
  BY <1>1
<1>3. [i \in 1 .. 0 |-> 0] \in Places /\ Sends([i \in 1 .. 0 |-> 0])
  BY <1>1 DEF Places, Sends
<1> QED
  BY <1>1, <1>2, <1>3 DEF MailInv

(* Nothing is sent by the step, which may append to what was received.      *)
LEMMA NotSent ==
  ASSUME MailInv, MailTyped', received' \o Jobs' = accepted', sent' = sent,
         \/ /\ received' = received
            /\ \/ UNCHANGED <<listener, message>>
               \/ listener' # "send" \/ message' = ZeroMail
         \/ \E m \in Mail : received' = Append(received, m) /\ message' = m
  PROVE  MailInv'
<1>1. MailTyped
  BY DEF MailInv
<1>2. PICK places \in Places :
       /\ Sends(places)
       /\ listener = "send" /\ message # ZeroMail =>
            /\ received # <<>> /\ message = received[Len(received)]
            /\ Before(places, Len(received) - 1)
  BY DEF MailInv
<1>3. CASE received' = received
  <2>1. Places' = Places /\ Sends(places)' /\ (Before(places, Len(received) - 1) => Before(places, Len(received) - 1)')
    BY <1>2, <1>3 DEF Places, Sends, Before
  <2>2. \A m \in Mail : received' # Append(received, m)
    BY <1>1, <1>3 DEF MailTyped
  <2>3. \/ UNCHANGED <<listener, message>>
        \/ listener' # "send" \/ message' = ZeroMail
    BY <2>2, Zenon
  <2>4. listener' = "send" /\ message' # ZeroMail =>
          /\ received' # <<>> /\ message' = received'[Len(received')]
          /\ Before(places, Len(received) - 1)'
    BY <1>2, <1>3, <2>1, <2>3
  <2>5. \E p \in Places' :
          /\ Sends(p)'
          /\ listener' = "send" /\ message' # ZeroMail =>
               /\ received' # <<>> /\ message' = received'[Len(received')]
               /\ Before(p, Len(received) - 1)'
    BY <2>1, <2>4
  <2> QED BY <2>5 DEF MailInv
<1>4. ASSUME NEW m \in Mail, received' = Append(received, m), message' = m PROVE MailInv'
  <2>1. /\ Len(received') = Len(received) + 1 /\ Len(received) \in Nat /\ Len(sent) \in Nat
        /\ \A i \in 1 .. Len(received) : received'[i] = received[i]
        /\ received' # <<>> /\ received'[Len(received')] = m
    BY <1>1, <1>4 DEF MailTyped
  <2>2. places \in Places' /\ \A i \in 1 .. Len(sent) : places[i] \in 1 .. Len(received)
    <3>1. places \in [1 .. Len(sent) -> 1 .. Len(received)]
      BY <1>2 DEF Places
    <3>2. 1 .. Len(received) \subseteq 1 .. Len(received')
      BY <2>1
    <3>3. places \in [1 .. Len(sent) -> 1 .. Len(received')]
      BY <3>1, <3>2
    <3>4. Places' = [1 .. Len(sent) -> 1 .. Len(received')]
      BY DEF Places
    <3> QED BY <3>1, <3>3, <3>4
  <2>3. Sends(places)'
    BY <1>2, <2>1, <2>2 DEF Sends
  <2>4. Before(places, Len(received) - 1)'
    BY <2>1, <2>2 DEF Before
  <2> QED BY <1>4, <2>1, <2>2, <2>3, <2>4 DEF MailInv
<1> QED
  BY <1>3, <1>4

(* The callers that wait when the channel is closed are the last of both.   *)
LEMMA CutEnds ==
  ASSUME NEW S, NEW r \in Seq(S), NEW s \in Seq(S), NEW w \in 0 .. Len(s)
  PROVE  r \o SubSeq(s, 1, Len(s) - w) = SubSeq(r \o s, 1, Len(r \o s) - w)
<1> DEFINE a == r \o SubSeq(s, 1, Len(s) - w)
           b == SubSeq(r \o s, 1, Len(r \o s) - w)
<1>1. /\ Len(r) \in Nat /\ Len(s) \in Nat /\ Len(r \o s) = Len(r) + Len(s)
      /\ r \o s \in Seq(S)
  OBVIOUS
<1>2. SubSeq(s, 1, Len(s) - w) \in Seq(S) /\ Len(SubSeq(s, 1, Len(s) - w)) = Len(s) - w
  BY <1>1
<1>3. a \in Seq(S) /\ Len(a) = Len(r) + (Len(s) - w)
  <2>1. \A t \in Seq(S) : r \o t \in Seq(S) /\ Len(r \o t) = Len(r) + Len(t)
    OBVIOUS
  <2> QED BY <1>2, <2>1, Zenon
<1>4. b \in Seq(S) /\ Len(b) = Len(r) + (Len(s) - w)
  <2>1. Len(r \o s) - w \in 0 .. Len(r \o s) /\ Len(r \o s) - w = Len(r) + (Len(s) - w)
    BY <1>1
  <2> QED BY <1>1, <2>1
<1>5. ASSUME NEW i \in 1 .. Len(r) + (Len(s) - w) PROVE a[i] = b[i]
  <2>1. b[i] = (r \o s)[i]
    BY <1>1, <1>5
  <2>2. CASE i <= Len(r)
    BY <1>1, <1>2, <2>1, <2>2
  <2>3. CASE i > Len(r)
    BY <1>1, <1>2, <2>1, <2>3
  <2> QED BY <1>1, <2>2, <2>3
<1> HIDE DEF a, b
<1>6. a = b
  BY <1>3, <1>4, <1>5
<1> QED
  BY <1>6 DEF a, b

LEMMA QueueKeeps == ASSUME MailInv, NEW m \in Mail, QueueMail(m) PROVE MailInv'
<1>1. /\ MailTyped /\ received \o Jobs = accepted
      /\ Jobs' = Append(Jobs, m) /\ accepted' = Append(accepted, m)
      /\ UNCHANGED <<transport, Results, listener, message, closed, crashed, received, sent>>
  BY DEF MailInv, QueueMail
<1>2. MailTyped'
  BY <1>1 DEF MailTyped
<1>3. received' \o Jobs' = accepted'
  BY <1>1 DEF MailTyped
<1> QED
  BY <1>1, <1>2, <1>3, NotSent

LEMMA ShutdownKeeps == ASSUME MailInv, ShutdownMail PROVE MailInv'
<1> DEFINE w == IF Len(Jobs) > MailBuffer THEN Len(Jobs) - MailBuffer ELSE 0
<1>1. /\ MailTyped /\ received \o Jobs = accepted
      /\ Jobs' = SubSeq(Jobs, 1, Len(Jobs) - w) /\ accepted' = SubSeq(accepted, 1, Len(accepted) - w)
      /\ closed' = TRUE /\ crashed' = closed
      /\ UNCHANGED <<transport, Results, listener, message, received, sent>>
  BY DEF MailInv, ShutdownMail
<1>2. Jobs \in Seq(Mail) /\ accepted \in Seq(Mail) /\ received \in Seq(Mail)
  BY <1>1 DEF MailTyped
<1>3. w \in 0 .. Len(Jobs) /\ Len(Jobs) \in Nat /\ Len(accepted) \in Nat /\ Len(accepted) >= Len(Jobs)
  BY <1>1, <1>2
<1>4. received' \o Jobs' = accepted'
  <2> HIDE DEF w
  <2> QED BY <1>1, <1>2, <1>3, CutEnds
<1>5. MailTyped'
  <2>1. Jobs' \in Seq(Mail) /\ accepted' \in Seq(Mail)
    <3>1. Len(Jobs) - w \in 0 .. Len(Jobs) /\ Len(accepted) - w \in 0 .. Len(accepted)
      BY <1>3
    <3> HIDE DEF w
    <3> QED BY <1>1, <1>2, <3>1
  <2>2. closed' \in BOOLEAN /\ crashed' \in BOOLEAN
    BY <1>1 DEF MailTyped
  <2> QED BY <1>1, <2>1, <2>2, Zenon DEF MailTyped, Transports, APIs
<1> QED
  BY <1>1, <1>4, <1>5, NotSent

LEMMA HeadMoves ==
  ASSUME NEW S, NEW r \in Seq(S), NEW s \in Seq(S), s # <<>>
  PROVE  Append(r, Head(s)) \o Tail(s) = r \o s
<1>1. Head(s) \in S /\ Tail(s) \in Seq(S) /\ <<Head(s)>> \in Seq(S)
  BY HeadTailProperties
<1>2. s = <<Head(s)>> \o Tail(s)
  <2>1. /\ <<Head(s)>> \o Tail(s) \in Seq(S)
        /\ Len(<<Head(s)>> \o Tail(s)) = Len(s)
    BY <1>1, HeadTailProperties
  <2>2. \A i \in 1 .. Len(s) : s[i] = (<<Head(s)>> \o Tail(s))[i]
    BY <1>1, HeadTailProperties
  <2> QED BY <2>1, <2>2, SeqEqual
<1>3. Append(r, Head(s)) = r \o <<Head(s)>>
  BY <1>1, AppendIsConcat
<1>4. (r \o <<Head(s)>>) \o Tail(s) = r \o (<<Head(s)>> \o Tail(s))
  BY <1>1, ConcatAssociative
<1> QED
  BY <1>2, <1>3, <1>4, Zenon

LEMMA ReceiveKeeps == ASSUME MailInv, Receive PROVE MailInv'
<1>1. /\ MailTyped /\ received \o Jobs = accepted /\ listener' = "send"
      /\ UNCHANGED <<transport, Results, closed, crashed, accepted, sent>>
  BY DEF MailInv, Receive
<1>2. CASE /\ Jobs # <<>> /\ message' = Head(Jobs)
           /\ Jobs' = Tail(Jobs) /\ received' = Append(received, message')
  <2>1. Head(Jobs) \in Mail /\ Jobs' \in Seq(Mail) /\ received' \in Seq(Mail)
    BY <1>1, <1>2 DEF MailTyped
  <2>2. received' \o Jobs' = accepted'
    <3>1. Append(received, Head(Jobs)) \o Tail(Jobs) = received \o Jobs
      BY <1>1, <1>2, HeadMoves DEF MailTyped
    <3> QED BY <1>1, <1>2, <3>1
  <2>3. MailTyped'
    BY <1>1, <1>2, <2>1, Zenon DEF MailTyped, Transports, APIs
  <2> QED BY <1>1, <1>2, <2>1, <2>2, <2>3, NotSent
<1>3. CASE Jobs = <<>> /\ closed /\ message' = ZeroMail /\ UNCHANGED <<Jobs, received>>
  <2>1. MailTyped'
    BY <1>1, <1>3, Zenon DEF MailTyped, Transports, APIs
  <2> QED BY <1>1, <1>3, <2>1, NotSent
<1> QED
  BY <1>2, <1>3 DEF Receive

LEMMA SendKeeps == ASSUME MailInv, Send PROVE MailInv'
<1>1. /\ MailTyped /\ received \o Jobs = accepted /\ listener = "send" /\ listener' = "report"
      /\ UNCHANGED <<transport, Jobs, Results, message, closed, crashed, accepted, received>>
      /\ \/ message # ZeroMail /\ sent' = Append(sent, message)
         \/ UNCHANGED sent
  BY DEF MailInv, Send, SendSMTPMessage, ChooseAPI, SendUsingAPI, buildMessage
<1>2. CASE UNCHANGED sent
  <2>1. MailTyped'
    BY <1>1, <1>2, Zenon DEF MailTyped, Transports, APIs
  <2> QED BY <1>1, <1>2, <2>1, NotSent
<1>3. CASE message # ZeroMail /\ sent' = Append(sent, message)
  <2>1. PICK places \in Places :
       /\ Sends(places)
       /\ received # <<>> /\ message = received[Len(received)]
       /\ Before(places, Len(received) - 1)
    BY <1>1, <1>3 DEF MailInv
  <2> DEFINE n == Len(sent) + 1
  <2>9. PICK more : more = [i \in 1 .. n |-> IF i = n THEN Len(received) ELSE places[i]]
    OBVIOUS
  <2>2. /\ message \in Mail /\ sent \in Seq(Mail) /\ received \in Seq(Mail)
        /\ Len(sent) \in Nat /\ Len(received) \in Nat /\ Len(received) # 0
    BY <1>1, <1>3, <2>1 DEF MailTyped
  <2>3. /\ sent' \in Seq(Mail) /\ Len(sent') = n /\ sent'[n] = message
        /\ \A i \in 1 .. Len(sent) : sent'[i] = sent[i]
    BY <1>3, <2>2
  <2>4. /\ \A i \in 1 .. Len(sent) : places[i] \in 1 .. Len(received) /\ places[i] < Len(received)
        /\ \A i \in 1 .. Len(sent) : more[i] = places[i]
        /\ more[n] = Len(received)
    <3>1. \A i \in 1 .. Len(sent) : places[i] \in 1 .. Len(received) /\ places[i] <= Len(received) - 1
      BY <2>1 DEF Places, Before
    <3>2. \A i \in 1 .. Len(sent) : i # n /\ i \in 1 .. n
      BY <2>2
    <3>3. n \in 1 .. n
      BY <2>2
    <3> QED BY <2>2, <2>9, <3>1, <3>2, <3>3
  <2>5. more \in Places'
    <3>1. \A i \in 1 .. n : (IF i = n THEN Len(received) ELSE places[i]) \in 1 .. Len(received)
      BY <2>2, <2>4
    <3>2. more \in [1 .. n -> 1 .. Len(received)]
      BY <2>9, <3>1
    <3> HIDE DEF n
    <3> QED BY <1>1, <2>3, <3>2 DEF Places
  <2>6. Sends(more)'
    <3> SUFFICES ASSUME NEW i \in 1 .. n
                 PROVE  /\ sent'[i] = received[more[i]]
                        /\ \A k \in 1 .. n : k < i => more[k] < more[i]
      <4> HIDE DEF n
      <4> QED BY <1>1, <2>3 DEF Sends
    <3>1. CASE i = n
      <4>1. \A k \in 1 .. n : k < i => k \in 1 .. Len(sent)
        BY <2>2, <3>1
      <4>2. sent'[i] = received[more[i]]
        BY <2>1, <2>3, <2>4, <3>1
      <4> HIDE DEF n
      <4> QED BY <2>4, <3>1, <4>1, <4>2
    <3>2. CASE i # n
      <4>1. i \in 1 .. Len(sent) /\ \A k \in 1 .. n : k < i => k \in 1 .. Len(sent)
        BY <2>2, <3>2
      <4> HIDE DEF n
      <4> QED BY <2>1, <2>3, <2>4, <4>1 DEF Sends
    <3> QED BY <3>1, <3>2
  <2>7. MailTyped'
    BY <1>1, <2>3, Zenon DEF MailTyped, Transports, APIs
  <2>8. received' \o Jobs' = accepted'
    BY <1>1
  <2> QED BY <1>1, <2>5, <2>6, <2>7, <2>8 DEF MailInv
<1> QED
  BY <1>1, <1>2, <1>3

LEMMA MailNextKeeps == MailInv /\ [MailNext]_mailVars => MailInv'
<1> SUFFICES ASSUME MailInv, [MailNext]_mailVars PROVE MailInv'
  OBVIOUS
<1> MailTyped /\ received \o Jobs = accepted
  BY DEF MailInv
<1>1. CASE Receive
  BY <1>1, ReceiveKeeps
<1>2. CASE Send
  BY <1>2, SendKeeps
<1>3. CASE Report
  <2>1. /\ Results' = Results + 1 /\ Results < MailBuffer /\ listener' = "receive" /\ message' = ZeroMail
        /\ UNCHANGED <<transport, Jobs, closed, crashed, accepted, received, sent>>
    BY <1>3 DEF Report
  <2>2. Results' \in 0 .. MailBuffer
    BY <2>1 DEF MailTyped
  <2>3. MailTyped'
    BY <2>1, <2>2, Zenon DEF MailTyped, Transports, APIs
  <2> QED BY <2>1, <2>3, NotSent
<1>4. CASE ReadResult
  <2>1. /\ Results > 0 /\ Results' = Results - 1
        /\ UNCHANGED <<transport, Jobs, listener, message, closed, crashed, accepted, received, sent>>
    BY <1>4 DEF ReadResult
  <2>2. Results' \in 0 .. MailBuffer
    BY <2>1 DEF MailTyped
  <2>3. MailTyped'
    BY <2>1, <2>2, Zenon DEF MailTyped, Transports, APIs
  <2> QED BY <2>1, <2>3, NotSent
<1>5. CASE ShutdownMail
  BY <1>5, ShutdownKeeps
<1>6. ASSUME NEW m \in Mail, QueueMail(m) PROVE MailInv'
  BY <1>6, QueueKeeps
<1>7. CASE UNCHANGED mailVars
  <2>1. UNCHANGED <<transport, Jobs, Results, listener, message, closed, crashed, accepted, received, sent>>
    BY <1>7 DEF mailVars
  <2>2. MailTyped'
    BY <2>1, Zenon DEF MailTyped, Transports, APIs
  <2> QED BY <2>1, <2>2, NotSent
<1> QED
  BY <1>1, <1>2, <1>3, <1>4, <1>5, <1>6, <1>7 DEF MailNext, ListenForMail

LEMMA MailInvariance == MailSpec => []MailInv
  BY MailInitInv, MailNextKeeps, PTL DEF MailSpec

(* The results of the mail listener never pass the buffer of their         *)
(* channel, and what it receives and sends are messages that somebody      *)
(* queued.                                                                 *)
THEOREM MailTypesCorrect == MailSpec => []MailTypeOK
  BY MailInvariance, MailTypes, PTL

(* ListenForMail of email/mail.go receives what was accepted in the order  *)
(* of the calls, what was in the channel when Shutdown closed it included, *)
(* and sends each message at most once, in that order, and nothing else.   *)
THEOREM MailKeepsOrder == MailSpec => []MailInOrder
  BY MailInvariance, MailOrdered, PTL

-----------------------------------------------------------------------------
(* Part 2: the seeder.                                                     *)
HIDE MailerAssumption
    DEF MailerAssumption

USE SeedingAssumption DEF SeedingAssumption

Needed(s, i) == Records[s][i] \cap Records[s][1]

SomeSeeder == CHOOSE s \in Seeder : TRUE

RunIs ==
  [at : {"idle", "next", "truncate", "insert", "ok", "error", "killed"},
   asked : SUBSET Seeder, todo : SUBSET Seeder,
   current : Seeder \cup {SomeSeeder}, done : Nat]

AnyRow == UNION {Rows(s) : s \in Seeder}

SeedTyped ==
  /\ seed \in [SeedRun -> RunIs]
  /\ tables \in [Seeder -> Seq(AnyRow)]
  /\ lastSeed \in Seq(SeedRun) /\ mixed \subseteq SeedRun

RunOK(r) ==
  /\ seed[r].todo \subseteq seed[r].asked
  /\ seed[r].at = "ok" => seed[r].todo = {}
  /\ seed[r].at \in {"truncate", "insert"} =>
       seed[r].current \in Seeder /\ seed[r].current \notin seed[r].todo
  /\ seed[r].at = "insert" => seed[r].done <= Len(Records[seed[r].current])

(* The latest run alone is under way, unless it is known to overlap.        *)
Alone ==
  /\ lastSeed = <<>> => \A r \in SeedRun : seed[r].at = "idle"
  /\ lastSeed # <<>> /\ Last(lastSeed) \notin mixed => Running \subseteq {Last(lastSeed)}

Whole(s) == tables[s] = [i \in 1 .. Len(Records[s]) |-> Needed(s, i)]

(* The seeders that a run is through with.                                  *)
Through(r) ==
  {s \in seed[r].asked \ seed[r].todo :
     seed[r].at \in {"truncate", "insert"} => s # seed[r].current}

SeededSoFar(r) ==
  seed[r].at \in {"next", "truncate", "insert", "ok"} =>
    /\ \A s \in Through(r) : Whole(s)
    /\ seed[r].at = "insert" =>
         tables[seed[r].current] = [i \in 1 .. seed[r].done |-> Needed(seed[r].current, i)]

SeedInv ==
  /\ SeedTyped
  /\ \A r \in SeedRun : RunOK(r)
  /\ Alone
  /\ \A s \in Seeder : Range(tables[s]) \subseteq Rows(s)
  /\ lastSeed # <<>> /\ Last(lastSeed) \notin mixed => SeededSoFar(Last(lastSeed))

LEMMA LastIs == ASSUME NEW S, NEW s \in Seq(S), s # <<>> PROVE Last(s) \in S
  BY DEF Last

LEMMA LastOfAppend == ASSUME NEW S, NEW s \in Seq(S), NEW x \in S PROVE Last(Append(s, x)) = x
  BY DEF Last

LEMMA Complete == SeedInv => SeedComplete
<1> SUFFICES ASSUME SeedInv, NEW r \in SeedRun,
                    seed[r].at = "ok", r = Last(lastSeed), r \notin mixed,
                    NEW s \in seed[r].asked
             PROVE  tables[s] = [i \in DOMAIN Records[s] |-> Records[s][i] \cap Records[s][1]]
  BY DEF SeedComplete
<1>1. lastSeed # <<>>
  BY DEF SeedInv, Alone
<1>2. SeededSoFar(r) /\ RunOK(r)
  BY <1>1 DEF SeedInv
<1>3. s \in Through(r) /\ s \in Seeder
  BY <1>2 DEF Through, RunOK, SeedInv, SeedTyped, RunIs
<1>4. Whole(s)
  BY <1>2, <1>3 DEF SeededSoFar
<1> QED
  BY <1>3, <1>4 DEF Whole, Needed, Seeder

LEMMA SeedTypes == SeedInv => SeedTypeOK
<1> SUFFICES ASSUME SeedInv PROVE SeedTypeOK
  OBVIOUS
<1>1. \A r \in SeedRun :
       /\ seed[r].at \in {"idle", "next", "truncate", "insert", "ok", "error", "killed"}
       /\ seed[r].todo \subseteq seed[r].asked /\ seed[r].asked \subseteq Seeder
  BY DEF SeedInv, SeedTyped, RunIs, RunOK
<1>2. Range(lastSeed) \subseteq SeedRun
  BY DEF SeedInv, SeedTyped, Range
<1> QED
  BY <1>1, <1>2 DEF SeedInv, SeedTypeOK, SeedTyped

LEMMA SeedInitInv == SeedInit => SeedInv
<1> SUFFICES ASSUME SeedInit PROVE SeedInv
  OBVIOUS
<1>1. SeedTyped
  <2>1. [at |-> "idle", asked |-> {}, todo |-> {}, current |-> SomeSeeder, done |-> 0] \in RunIs
    BY DEF RunIs
  <2>2. seed \in [SeedRun -> RunIs]
    <3> HIDE DEF RunIs, SomeSeeder
    <3> QED BY <2>1 DEF SeedInit, SomeSeeder
  <2> QED BY <2>2 DEF SeedInit, SeedTyped
<1>2. \A r \in SeedRun : seed[r].at = "idle" /\ seed[r].todo = {}
  BY DEF SeedInit
<1>3. (\A r \in SeedRun : RunOK(r)) /\ Alone
  BY <1>2 DEF SeedInit, RunOK, Alone
<1>4. \A s \in Seeder : Range(tables[s]) \subseteq Rows(s)
  BY DEF SeedInit, Range
<1> QED
  BY <1>1, <1>3, <1>4 DEF SeedInv, SeedInit

(* What changes is one run's place; who is running does not grow.           *)
LEMMA AloneStays ==
  ASSUME SeedInv, NEW r \in SeedRun, seed' \in [SeedRun -> RunIs],
         \A q \in SeedRun \ {r} : seed'[q] = seed[q],
         r \in Running, UNCHANGED <<lastSeed, mixed>>
  PROVE  Alone' /\ lastSeed # <<>> /\ (Last(lastSeed) \notin mixed => r = Last(lastSeed))
<1>1. Alone /\ lastSeed \in Seq(SeedRun)
  BY DEF SeedInv, SeedTyped
<1>2. lastSeed # <<>>
  BY <1>1 DEF Alone, Running
<1>3. Running' \subseteq Running
  BY DEF Running
<1>4. Last(lastSeed)' = Last(lastSeed)
  BY DEF Last
<1>5. Alone'
  BY <1>1, <1>2, <1>3, <1>4 DEF Alone
<1>6. Last(lastSeed) \notin mixed => r = Last(lastSeed)
  BY <1>1, <1>2 DEF Alone
<1> QED
  BY <1>2, <1>5, <1>6

(* So it is enough to look at the run that takes the step.                  *)
LEMMA RunKeeps ==
  ASSUME SeedInv, NEW r \in SeedRun, SeedTyped',
         \A q \in SeedRun \ {r} : seed'[q] = seed[q],
         r \in Running, UNCHANGED <<lastSeed, mixed>>,
         RunOK(r)', \A s \in Seeder : Range(tables[s])' \subseteq Rows(s),
         SeededSoFar(r) => SeededSoFar(r)'
  PROVE  SeedInv'
<1>1. seed' \in [SeedRun -> RunIs]
  BY DEF SeedTyped
<1>2. Alone' /\ lastSeed # <<>> /\ (Last(lastSeed) \notin mixed => r = Last(lastSeed))
  BY <1>1, AloneStays
<1>3. \A q \in SeedRun : RunOK(q)'
  BY DEF SeedInv, RunOK
<1>4. Last(lastSeed)' = Last(lastSeed)
  BY DEF Last
<1>5. lastSeed' # <<>> /\ Last(lastSeed)' \notin mixed' => SeededSoFar(Last(lastSeed))'
  <2> SUFFICES ASSUME Last(lastSeed) \notin mixed PROVE SeededSoFar(Last(lastSeed))'
    BY <1>4
  <2>1. r = Last(lastSeed) /\ SeededSoFar(r)
    BY <1>2 DEF SeedInv
  <2>2. SeededSoFar(r)'
    BY <2>1
  <2> QED BY <1>4, <2>1, <2>2
<1> QED
  BY <1>2, <1>3, <1>5 DEF SeedInv, Rows, Seeder

(* The fields of a run after its step.                                      *)
LEMMA StepTo ==
  ASSUME SeedInv, NEW r \in SeedRun, NEW run \in RunIs, seed' = [seed EXCEPT ![r] = run]
  PROVE  /\ seed' \in [SeedRun -> RunIs] /\ seed'[r] = run
         /\ \A q \in SeedRun \ {r} : seed'[q] = seed[q]
<1>1. seed \in [SeedRun -> RunIs]
  BY DEF SeedInv, SeedTyped
<1> QED
  BY <1>1

LEMMA Ends ==
  ASSUME SeedInv, NEW r \in SeedRun, r \in Running, NEW at \in {"error", "killed"},
         seed' = [seed EXCEPT ![r].at = at], UNCHANGED <<tables, lastSeed, mixed>>
  PROVE  SeedInv'
<1>1. SeedTyped /\ RunOK(r)
  BY DEF SeedInv
<1>2. seed \in [SeedRun -> RunIs] /\ seed[r] \in RunIs
  BY <1>1 DEF SeedTyped
<1>3. [seed[r] EXCEPT !.at = at] \in RunIs /\ seed' = [seed EXCEPT ![r] = [seed[r] EXCEPT !.at = at]]
  BY <1>2 DEF RunIs
<1>4. /\ seed' \in [SeedRun -> RunIs] /\ seed'[r] = [seed[r] EXCEPT !.at = at]
      /\ \A q \in SeedRun \ {r} : seed'[q] = seed[q]
  BY <1>3, StepTo
<1>5. seed'[r].at = at /\ seed'[r].todo = seed[r].todo /\ seed'[r].asked = seed[r].asked
  BY <1>2, <1>4 DEF RunIs
<1>6. SeedTyped'
  BY <1>1, <1>4 DEF SeedTyped, AnyRow, Rows, Seeder
<1>7. RunOK(r)' /\ SeededSoFar(r)'
  BY <1>1, <1>5 DEF RunOK, SeededSoFar
<1>8. \A s \in Seeder : Range(tables[s])' \subseteq Rows(s)
  BY DEF SeedInv
<1> QED
  BY <1>4, <1>6, <1>7, <1>8, RunKeeps

LEMMA KillKeeps == ASSUME SeedInv, NEW r \in SeedRun, KillSeeding(r) PROVE SeedInv'
  BY Ends DEF KillSeeding

LEMMA TruncateKeeps == ASSUME SeedInv, NEW r \in SeedRun, TruncateTable(r) PROVE SeedInv'
<1> DEFINE s == seed[r].current
           run == [seed[r] EXCEPT !.at = "insert", !.done = 0]
<1>1. SeedTyped /\ RunOK(r) /\ seed[r].at = "truncate" /\ r \in Running /\ UNCHANGED <<lastSeed, mixed>>
  BY DEF SeedInv, TruncateTable, Running
<1>2. CASE seed' = [seed EXCEPT ![r].at = "error"] /\ UNCHANGED tables
  BY <1>1, <1>2, Ends
<1>3. CASE /\ tables' = [tables EXCEPT ![s] = <<>>]
           /\ seed' = [seed EXCEPT ![r].at = "insert", ![r].done = 0]
  <2>1. seed \in [SeedRun -> RunIs] /\ seed[r] \in RunIs
    BY <1>1 DEF SeedTyped
  <2>2. run \in RunIs /\ seed' = [seed EXCEPT ![r] = run]
    BY <1>3, <2>1 DEF RunIs
  <2>3. /\ seed' \in [SeedRun -> RunIs] /\ seed'[r] = run
        /\ \A q \in SeedRun \ {r} : seed'[q] = seed[q]
    BY <2>2, StepTo
  <2>4. /\ seed'[r].at = "insert" /\ seed'[r].done = 0 /\ seed'[r].current = s
        /\ seed'[r].todo = seed[r].todo /\ seed'[r].asked = seed[r].asked
    BY <2>1, <2>3 DEF RunIs
  <2>5. s \in Seeder /\ s \notin seed[r].todo
    BY <1>1 DEF RunOK
  <2>6. tables \in [Seeder -> Seq(AnyRow)]
    BY <1>1 DEF SeedTyped
  <2>7. /\ tables' \in [Seeder -> Seq(AnyRow)] /\ tables'[s] = <<>>
        /\ \A q \in Seeder \ {s} : tables'[q] = tables[q]
    <3> HIDE DEF s
    <3> QED BY <1>3, <2>5, <2>6 DEF s
  <2>8. SeedTyped'
    BY <1>1, <2>3, <2>7 DEF SeedTyped, AnyRow, Rows, Seeder
  <2>9. RunOK(r)'
    BY <1>1, <2>4, <2>5 DEF RunOK, Seeder
  <2>10. ASSUME SeededSoFar(r) PROVE SeededSoFar(r)'
    <3>1. \A q \in Through(r)' : q \in Through(r) /\ q # s /\ q \in Seeder
      BY <1>1, <2>1, <2>4 DEF Through, RunIs
    <3>2. \A q \in Through(r)' : Whole(q)'
      BY <1>1, <2>7, <2>10, <3>1 DEF SeededSoFar, Whole, Needed
    <3>3. tables'[s] = [i \in 1 .. 0 |-> Needed(s, i)]
      BY <2>7
    <3>4. tables'[seed'[r].current] = [i \in 1 .. seed'[r].done |-> Needed(seed'[r].current, i)]
      BY <2>4, <3>3, Zenon
    <3>5. \A q, i : Needed(q, i)' = Needed(q, i)
      BY DEF Needed
    <3> HIDE DEF s
    <3> QED BY <3>2, <3>4, <3>5 DEF SeededSoFar, Needed
  <2>11. \A q \in Seeder : Range(tables[q])' \subseteq Rows(q)
    <3>1. \A q \in Seeder : Range(tables[q]) \subseteq Rows(q)
      BY DEF SeedInv
    <3>2. Range(<<>>) = {}
      BY DEF Range
    <3>3. \A q \in Seeder : tables'[q] = <<>> \/ tables'[q] = tables[q]
      BY <2>7
    <3>4. SUFFICES ASSUME NEW q \in Seeder PROVE Range(tables'[q]) \subseteq Rows(q)
      BY DEF Range
    <3> QED BY <3>1, <3>2, <3>3
  <2> HIDE DEF s, run
  <2> QED BY <1>1, <2>3, <2>8, <2>9, <2>10, <2>11, RunKeeps
<1> QED
  BY <1>2, <1>3 DEF TruncateTable

LEMMA NextSeederKeeps == ASSUME SeedInv, NEW r \in SeedRun, NextSeeder(r) PROVE SeedInv'
<1>1. /\ SeedTyped /\ RunOK(r) /\ seed[r].at = "next" /\ r \in Running
      /\ UNCHANGED <<tables, lastSeed, mixed>>
  BY DEF SeedInv, NextSeeder, Running
<1>2. seed \in [SeedRun -> RunIs] /\ seed[r] \in RunIs
  BY <1>1 DEF SeedTyped
<1>3. \A s \in Seeder : Range(tables[s])' \subseteq Rows(s)
  BY <1>1 DEF SeedInv
<1>4. CASE seed[r].todo = {} /\ seed' = [seed EXCEPT ![r].at = "ok"]
  <2> DEFINE run == [seed[r] EXCEPT !.at = "ok"]
  <2>1. run \in RunIs /\ seed' = [seed EXCEPT ![r] = run]
    BY <1>2, <1>4 DEF RunIs
  <2>2. /\ seed' \in [SeedRun -> RunIs] /\ seed'[r] = run
        /\ \A q \in SeedRun \ {r} : seed'[q] = seed[q]
    BY <2>1, StepTo
  <2>3. seed'[r].at = "ok" /\ seed'[r].todo = seed[r].todo /\ seed'[r].asked = seed[r].asked
    BY <1>2, <2>2 DEF RunIs
  <2>4. SeedTyped'
    BY <1>1, <2>2 DEF SeedTyped, AnyRow, Rows, Seeder
  <2>5. RunOK(r)'
    BY <1>1, <1>4, <2>3 DEF RunOK
  <2>6. SeededSoFar(r) => SeededSoFar(r)'
    BY <1>1, <2>3 DEF SeededSoFar, Through, Whole, Needed
  <2> HIDE DEF run
  <2> QED BY <1>1, <1>3, <2>2, <2>4, <2>5, <2>6, RunKeeps
<1>5. ASSUME NEW s \in seed[r].todo,
             seed' = [seed EXCEPT ![r].at = "truncate", ![r].current = s, ![r].todo = @ \ {s}]
      PROVE  SeedInv'
  <2> DEFINE run == [seed[r] EXCEPT !.at = "truncate", !.current = s, !.todo = @ \ {s}]
  <2>1. s \in Seeder /\ seed[r].todo \ {s} \subseteq Seeder
    BY <1>2 DEF RunIs
  <2>2. run \in RunIs /\ seed' = [seed EXCEPT ![r] = run]
    BY <1>2, <1>5, <2>1 DEF RunIs
  <2>3. /\ seed' \in [SeedRun -> RunIs] /\ seed'[r] = run
        /\ \A q \in SeedRun \ {r} : seed'[q] = seed[q]
    BY <2>2, StepTo
  <2>4. /\ seed'[r].at = "truncate" /\ seed'[r].current = s
        /\ seed'[r].todo = seed[r].todo \ {s} /\ seed'[r].asked = seed[r].asked
    BY <1>2, <2>3 DEF RunIs
  <2>5. SeedTyped'
    BY <1>1, <2>3 DEF SeedTyped, AnyRow, Rows, Seeder
  <2>6. RunOK(r)'
    BY <1>1, <2>1, <2>4 DEF RunOK, Seeder
  <2>7. SeededSoFar(r) => SeededSoFar(r)'
    <3>1. \A q \in Through(r)' : q \in Through(r)
      BY <1>1, <2>4 DEF Through
    <3> QED BY <1>1, <2>4, <3>1 DEF SeededSoFar, Whole, Needed
  <2> HIDE DEF run
  <2> QED BY <1>1, <1>3, <2>3, <2>5, <2>6, <2>7, RunKeeps
<1> QED
  BY <1>4, <1>5 DEF NextSeeder

LEMMA StartKeeps == ASSUME SeedInv, NEW r \in SeedRun, StartSeeding(r) PROVE SeedInv'
<1>1. /\ SeedTyped /\ seed[r].at = "idle" /\ UNCHANGED tables
      /\ lastSeed' = Append(lastSeed, r)
      /\ mixed' = IF Running = {} THEN mixed ELSE mixed \cup Running \cup {r}
  BY DEF SeedInv, StartSeeding
<1>2. seed \in [SeedRun -> RunIs] /\ seed[r] \in RunIs /\ lastSeed \in Seq(SeedRun)
  BY <1>1 DEF SeedTyped
<1>3. PICK run \in RunIs :
        /\ seed' = [seed EXCEPT ![r] = run]
        /\ \/ run.at = "next" /\ run.asked = run.todo
           \/ run.at = "error" /\ run.asked = seed[r].asked /\ run.todo = seed[r].todo
  <2>1. CASE seed' = [seed EXCEPT ![r].at = "error"]
    <3>1. [seed[r] EXCEPT !.at = "error"] \in RunIs /\ seed' = [seed EXCEPT ![r] = [seed[r] EXCEPT !.at = "error"]]
      BY <1>2, <2>1 DEF RunIs
    <3>2. /\ [seed[r] EXCEPT !.at = "error"].at = "error"
          /\ [seed[r] EXCEPT !.at = "error"].asked = seed[r].asked
          /\ [seed[r] EXCEPT !.at = "error"].todo = seed[r].todo
      BY <1>2 DEF RunIs
    <3> QED BY <3>1, <3>2
  <2>2. ASSUME NEW asked \in SUBSET Seeder,
               seed' = [seed EXCEPT ![r].at = "next", ![r].asked = asked, ![r].todo = asked]
        PROVE  \E run \in RunIs :
                  seed' = [seed EXCEPT ![r] = run] /\ run.at = "next" /\ run.asked = run.todo
    <3> DEFINE run == [seed[r] EXCEPT !.at = "next", !.asked = asked, !.todo = asked]
    <3>1. run \in RunIs /\ seed' = [seed EXCEPT ![r] = run]
      BY <1>2, <2>2 DEF RunIs
    <3>2. run.at = "next" /\ run.asked = asked /\ run.todo = asked
      BY <1>2 DEF RunIs
    <3> HIDE DEF run
    <3> QED BY <3>1, <3>2
  <2>3. {Seeder} \cup {{s} : s \in Seeder} \subseteq SUBSET Seeder
    OBVIOUS
  <2> QED BY <2>1, <2>2, <2>3, Zenon DEF StartSeeding
<1>4. /\ seed' \in [SeedRun -> RunIs] /\ seed'[r] = run
      /\ \A q \in SeedRun \ {r} : seed'[q] = seed[q]
  BY <1>3, StepTo
<1>5. lastSeed' \in Seq(SeedRun) /\ lastSeed' # <<>> /\ Last(lastSeed') = r
  BY <1>1, <1>2, LastOfAppend
<1>6. SeedTyped'
  <2>1. mixed' \subseteq SeedRun
    BY <1>1 DEF SeedTyped, Running
  <2> QED BY <1>1, <1>4, <1>5, <2>1 DEF SeedTyped, AnyRow, Rows, Seeder
<1>7. \A q \in SeedRun : RunOK(q)'
  BY <1>3, <1>4 DEF SeedInv, RunOK
<1>8. r \notin mixed' => Running' \subseteq {r}
  <2>1. r \notin mixed' => Running = {}
    BY <1>1
  <2>2. Running = {} => Running' \subseteq {r}
    BY <1>4 DEF Running
  <2> QED BY <2>1, <2>2
<1>9. Alone'
  BY <1>5, <1>8 DEF Alone, Last
<1>10. SeededSoFar(r)'
  <2>1. run.at = "next" => Through(r)' = {}
    BY <1>3, <1>4 DEF Through
  <2> QED BY <1>3, <1>4, <2>1 DEF SeededSoFar
<1>11. Last(lastSeed)' = r
  BY <1>5 DEF Last
<1>12. \A s \in Seeder : Range(tables[s])' \subseteq Rows(s)
  BY <1>1 DEF SeedInv
<1> QED
  BY <1>6, <1>7, <1>9, <1>10, <1>11, <1>12 DEF SeedInv, Rows, Seeder

LEMMA RowsOf == ASSUME NEW s \in Seeder, NEW i \in 1 .. Len(Records[s])
                PROVE  Needed(s, i) \in Rows(s) /\ Needed(s, i) \in AnyRow
  BY DEF Needed, Rows, AnyRow, Seeder

LEMMA InsertKeeps == ASSUME SeedInv, NEW r \in SeedRun, BulkInsert(r) PROVE SeedInv'
<1> DEFINE s == seed[r].current
           n == seed[r].done + 1
<1>1. /\ SeedTyped /\ RunOK(r) /\ seed[r].at = "insert" /\ r \in Running /\ UNCHANGED <<lastSeed, mixed>>
  BY DEF SeedInv, BulkInsert, Running
<1>2. /\ seed \in [SeedRun -> RunIs] /\ seed[r] \in RunIs /\ tables \in [Seeder -> Seq(AnyRow)]
      /\ s \in Seeder /\ s \notin seed[r].todo /\ seed[r].done \in Nat
      /\ seed[r].done <= Len(Records[s]) /\ Len(Records[s]) \in Nat
  BY <1>1 DEF SeedTyped, RunOK, RunIs, Seeder
<1>3. CASE seed' = [seed EXCEPT ![r].at = "killed"] /\ UNCHANGED tables
  BY <1>1, <1>3, Ends
<1>4. CASE seed' = [seed EXCEPT ![r].at = "error"] /\ UNCHANGED tables
  BY <1>1, <1>4, Ends
<1>5. CASE n > Len(Records[s]) /\ seed' = [seed EXCEPT ![r].at = "next"] /\ UNCHANGED tables
  <2> DEFINE run == [seed[r] EXCEPT !.at = "next"]
  <2>1. run \in RunIs /\ seed' = [seed EXCEPT ![r] = run]
    BY <1>2, <1>5 DEF RunIs
  <2>2. /\ seed' \in [SeedRun -> RunIs] /\ seed'[r] = run
        /\ \A q \in SeedRun \ {r} : seed'[q] = seed[q]
    BY <2>1, StepTo
  <2>3. seed'[r].at = "next" /\ seed'[r].todo = seed[r].todo /\ seed'[r].asked = seed[r].asked
    BY <1>2, <2>2 DEF RunIs
  <2>4. SeedTyped'
    BY <1>1, <1>5, <2>2 DEF SeedTyped, AnyRow, Rows, Seeder
  <2>5. RunOK(r)'
    BY <1>1, <2>3 DEF RunOK
  <2>6. ASSUME SeededSoFar(r) PROVE SeededSoFar(r)'
    <3>1. \A q \in Through(r)' : q = s \/ q \in Through(r)
      BY <1>1, <2>3 DEF Through
    <3>2. seed[r].done = Len(Records[s])
      BY <1>2, <1>5
    <3>3. Whole(s)
      BY <1>1, <2>6, <3>2 DEF SeededSoFar, Whole
    <3>4. \A q \in Through(r)' : Whole(q)
      BY <1>1, <2>6, <3>1, <3>3 DEF SeededSoFar
    <3> QED BY <1>5, <2>3, <3>4 DEF SeededSoFar, Whole, Needed
  <2>7. \A q \in Seeder : Range(tables[q])' \subseteq Rows(q)
    BY <1>5 DEF SeedInv
  <2> HIDE DEF run
  <2> QED BY <1>1, <2>2, <2>4, <2>5, <2>6, <2>7, RunKeeps
<1>6. CASE /\ n <= Len(Records[s]) /\ tables' = [tables EXCEPT ![s] = Append(@, Needed(s, n))]
           /\ seed' = [seed EXCEPT ![r].done = n]
  <2> DEFINE run == [seed[r] EXCEPT !.done = n]
  <2>1. run \in RunIs /\ seed' = [seed EXCEPT ![r] = run]
    <3>1. n \in Nat
      BY <1>2
    <3> HIDE DEF n
    <3> QED BY <1>2, <1>6, <3>1 DEF RunIs
  <2>2. /\ seed' \in [SeedRun -> RunIs] /\ seed'[r] = run
        /\ \A q \in SeedRun \ {r} : seed'[q] = seed[q]
    BY <2>1, StepTo
  <2>3. /\ seed'[r].at = seed[r].at /\ seed'[r].todo = seed[r].todo /\ seed'[r].asked = seed[r].asked
        /\ seed'[r].current = s /\ seed'[r].done = n
    BY <1>2, <2>2 DEF RunIs
  <2>4. n \in 1 .. Len(Records[s])
    BY <1>2, <1>6
  <2>5. Needed(s, n) \in Rows(s) /\ Needed(s, n) \in AnyRow
    <3> HIDE DEF s, n
    <3> QED BY <1>2, <2>4, RowsOf
  <2>6. /\ tables' \in [Seeder -> Seq(AnyRow)] /\ tables'[s] = Append(tables[s], Needed(s, n))
        /\ \A q \in Seeder \ {s} : tables'[q] = tables[q]
    <3>1. Append(tables[s], Needed(s, n)) \in Seq(AnyRow)
      BY <1>2, <2>5, AppendProperties
    <3> HIDE DEF s, n
    <3> QED BY <1>2, <1>6, <3>1
  <2>7. SeedTyped'
    BY <1>1, <2>2, <2>6 DEF SeedTyped, AnyRow, Rows, Seeder
  <2>8. RunOK(r)'
    <3>1. seed'[r].done <= Len(Records[seed'[r].current])
      BY <1>6, <2>3
    <3> QED BY <1>1, <2>3, <3>1 DEF RunOK, Seeder
  <2>9. ASSUME SeededSoFar(r) PROVE SeededSoFar(r)'
    <3>1. tables[s] = [i \in 1 .. seed[r].done |-> Needed(s, i)]
      BY <1>1, <2>9 DEF SeededSoFar
    <3>2. Append(tables[s], Needed(s, n)) = [i \in 1 .. n |-> Needed(s, i)]
      <4>1. /\ tables[s] \in Seq(AnyRow) /\ Len(tables[s]) = seed[r].done
            /\ \A i \in 1 .. seed[r].done : tables[s][i] = Needed(s, i)
        <5>1. tables[s] \in Seq(AnyRow) /\ DOMAIN tables[s] = 1 .. seed[r].done
          BY <1>2, <3>1
        <5>2. Len(tables[s]) = seed[r].done
          BY <1>2, <5>1, LenProperties
        <5> QED BY <3>1, <5>1, <5>2
      <4>2. /\ Append(tables[s], Needed(s, n)) \in Seq(AnyRow)
            /\ Len(Append(tables[s], Needed(s, n))) = n
            /\ \A i \in 1 .. n : Append(tables[s], Needed(s, n))[i] = Needed(s, i)
        BY <1>2, <2>5, <4>1, AppendProperties
      <4> DEFINE t == Append(tables[s], Needed(s, n))
      <4>3. t = [i \in 1 .. Len(t) |-> t[i]]
        BY <4>2, LenProperties
      <4> HIDE DEF s, n
      <4> QED BY <4>2, <4>3
    <3>3. tables'[seed'[r].current] = [i \in 1 .. seed'[r].done |-> Needed(seed'[r].current, i)]
      BY <2>3, <2>6, <3>2, Zenon
    <3>4. \A q \in Through(r)' : q \in Through(r) /\ q # s /\ q \in Seeder
      BY <1>1, <1>2, <2>3 DEF Through, RunIs
    <3>5. \A q \in Through(r)' : Whole(q)'
      <4> HIDE DEF s, n
      <4> QED BY <1>1, <2>6, <2>9, <3>4 DEF SeededSoFar, Whole, Needed
    <3>6. \A q, i : Needed(q, i)' = Needed(q, i)
      BY DEF Needed
    <3> HIDE DEF s, n
    <3> QED BY <3>3, <3>5, <3>6 DEF SeededSoFar, Needed
  <2>10. \A q \in Seeder : Range(tables[q])' \subseteq Rows(q)
    <3> SUFFICES ASSUME NEW q \in Seeder PROVE Range(tables'[q]) \subseteq Rows(q)
      BY DEF Range
    <3>1. Range(tables[q]) \subseteq Rows(q)
      BY DEF SeedInv
    <3>2. CASE q # s
      BY <2>6, <3>1, <3>2
    <3>3. CASE q = s
      <4>1. tables[s] \in Seq(AnyRow)
        BY <1>2
      <4>2. Range(Append(tables[s], Needed(s, n))) \subseteq Range(tables[s]) \cup {Needed(s, n)}
        <5> HIDE DEF s, n
        <5> QED BY <2>5, <4>1, AppendProperties DEF Range
      <4>3. Range(tables[s]) \subseteq Rows(s)
        BY <3>1, <3>3
      <4>4. Range(tables'[s]) \subseteq Rows(s)
        <5> HIDE DEF s, n
        <5> QED BY <2>5, <2>6, <4>2, <4>3
      <4> QED BY <3>3, <4>4
    <3> QED BY <3>2, <3>3
  <2> HIDE DEF s, n, run
  <2> QED BY <1>1, <2>2, <2>7, <2>8, <2>9, <2>10, RunKeeps
<1>7. n > Len(Records[s]) \/ n <= Len(Records[s])
  BY <1>2
<1> QED
  BY <1>3, <1>4, <1>5, <1>6, <1>7 DEF BulkInsert, Needed

LEMMA SeedNextKeeps == SeedInv /\ [SeedNext]_seedVars => SeedInv'
<1> SUFFICES ASSUME SeedInv, [SeedNext]_seedVars PROVE SeedInv'
  OBVIOUS
<1>1. ASSUME NEW r \in SeedRun, StartSeeding(r) PROVE SeedInv'
  BY <1>1, StartKeeps
<1>2. ASSUME NEW r \in SeedRun, NextSeeder(r) PROVE SeedInv'
  BY <1>2, NextSeederKeeps
<1>3. ASSUME NEW r \in SeedRun, TruncateTable(r) PROVE SeedInv'
  BY <1>3, TruncateKeeps
<1>4. ASSUME NEW r \in SeedRun, BulkInsert(r) PROVE SeedInv'
  BY <1>4, InsertKeeps
<1>5. ASSUME NEW r \in SeedRun, KillSeeding(r) PROVE SeedInv'
  BY <1>5, KillKeeps
<1>6. CASE UNCHANGED seedVars
  <2>1. UNCHANGED <<seed, tables, lastSeed, mixed>>
    BY <1>6 DEF seedVars
  <2>2. SeedTyped' /\ \A r \in SeedRun : RunOK(r)'
    BY <2>1 DEF SeedInv, SeedTyped, RunOK, Rows, AnyRow, Seeder
  <2>3. Last(lastSeed)' = Last(lastSeed) /\ Running' = Running
    BY <2>1 DEF Last, Running
  <2>4. Alone'
    BY <2>1, <2>3 DEF SeedInv, Alone
  <2>5. \A s \in Seeder : Range(tables[s])' \subseteq Rows(s)
    BY <2>1 DEF SeedInv
  <2>7. lastSeed' # <<>> /\ Last(lastSeed)' \notin mixed' => SeededSoFar(Last(lastSeed))'
    <3>1. SeededSoFar(Last(lastSeed))' <=> SeededSoFar(Last(lastSeed))
      BY <2>1, <2>3 DEF SeededSoFar, Through, Whole, Needed
    <3> QED BY <2>1, <2>3, <3>1 DEF SeedInv
  <2> QED BY <2>2, <2>4, <2>5, <2>7 DEF SeedInv, Rows, Seeder
<1> QED
  BY <1>1, <1>2, <1>3, <1>4, <1>5, <1>6 DEF SeedNext

LEMMA SeedInvariance == SeedSpec => []SeedInv
  BY SeedInitInv, SeedNextKeeps, PTL DEF SeedSpec

(* Whatever run fails or is killed: it has left to do only what it was     *)
(* asked for, and a table holds nothing but rows that its records can      *)
(* make.                                                                   *)
THEOREM SeedTypesCorrect == SeedSpec => []SeedTypeOK
  BY SeedInvariance, SeedTypes, PTL

(* Truncate and BulkInsert of database/seeder.go repair what an earlier    *)
(* run left half done: after a run that reports success, which no other    *)
(* run overlapped, each of its tables holds each record exactly once, in   *)
(* order.                                                                  *)
THEOREM SeedsComplete == SeedSpec => []SeedComplete
  BY SeedInvariance, Complete, PTL

-----------------------------------------------------------------------------
(* Part 3: the commands of the tool.                                       *)
HIDE SeedingAssumption
    DEF SeedingAssumption

USE GeneratorAssumption DEF GeneratorAssumption

Does ==
  {"create", "check", "skip", "replace", "put", "ask", "ask or end", "reformat",
   "inject auth", "inject", "inject new", "clone", "enter", "up", "down", "down all"}

Kinds ==
  {"model", "test", "html", "plain", "handler", "controller", "controller_test", "handlers",
   "middleware"}

(* The files that the c-th command may write.                              *)
FilesOf(c) ==
  Skeleton \cup {AuthFile, <<"Dockerfile">>, <<"docker-compose.yml">>, <<"deploy.sh">>}
    \cup {<<k, n>> : k \in Kinds, n \in Name \cup Page} \cup {Up(c), Down(c), DownAlone(c)}

(* What a command may write over: "make controller" its test, "new" all.   *)
May(name, do, f) ==
  name # "new" =>
    /\ do \notin {"replace", "clone"}
    /\ do = "put" => \/ f[1] \in {"down", "model", "controller_test"}
                     \/ name = "controller" /\ \E p \in Page : f = Test(p)

StepsFor(name, c) ==
  {s \in [do : Does, file : FilesOf(c)] : May(name, s.do, s.file)}

CommandName ==
  {"none", "auth", "mail", "handler", "migration", "model", "session", "api-controller",
   "controller", "middleware", "test", "docker", "deploy", "migrate", "new"}
Cfg == {"none", "loaded", "wrong", "mcp"}
Db == {"none"} \cup Databases
Outcome == {"none", "running", "ok", "error", "panic"}

IsCommand(command_, commands_) ==
  command_ \in [name : CommandName, cfg : Cfg, db : Db,
                plan : Seq(StepsFor(command_.name, commands_)), outcome : Outcome]

CommandOK == IsCommand(command, commands) /\ commands \in 0 .. MaxCommands

(* The developer's files are those that came with the skeleton and tests,  *)
(* and a migration has the number of a command that was started.           *)
FilesOK ==
  \A f \in DOMAIN files :
    /\ files[f] \in {"developer", "tjo"}
    /\ files[f] = "developer" => f \in Skeleton \/ \E p \in Page : f = Test(p)
    /\ \A i \in 1 .. MaxCommands : f = Up(i) => i <= commands

LostOK == \A l \in lost : l[1] = "new" \/ \E p \in Page : l = <<"controller", Test(p)>>

OnceEach(s) == (\E S : s \in Seq(S)) /\ IsInjective(s)
InjectedOK == \A f \in DOMAIN injected : OnceEach(injected[f])

SchemaOK ==
  /\ dirty \in BOOLEAN /\ applied \subseteq 1 .. commands
  /\ \A i \in applied : {j \in Ups : j < i} \subseteq applied

CliInv ==
  /\ dbType \in Db /\ CommandOK /\ FilesOK /\ LostOK /\ InjectedOK /\ SchemaOK

-----------------------------------------------------------------------------
(* Of which file is what.                                                  *)
LEMMA Heads ==
  /\ \A f \in Skeleton : f[1] \in {"models.go", "routes.go", ".env", "Makefile", "go.mod"}
  /\ \A p : Test(p)[1] = "test"
  /\ \A i : Up(i)[1] = "up" /\ Up(i)[2] = i
  BY DEF Skeleton, Models, Routes, Env, Makefile, Test, Up

LEMMA UpOf ==
  ASSUME NEW c \in Nat, NEW f \in FilesOf(c), NEW i, f = Up(i)
  PROVE  i = c
<1>1. f[1] = "up" /\ f[2] = i
  BY Heads
<1>2. CASE f \in Skeleton
  BY <1>1, <1>2, Heads
<1>3. CASE f \in {AuthFile, <<"Dockerfile">>, <<"docker-compose.yml">>, <<"deploy.sh">>}
  BY <1>1, <1>3 DEF AuthFile
<1>4. CASE f \in {<<k, n>> : k \in Kinds, n \in Name \cup Page}
  BY <1>1, <1>4 DEF Kinds
<1>5. CASE f = Down(c) \/ f = DownAlone(c)
  <2>1. CASE f = Down(c)
    BY <1>1, <2>1 DEF Down
  <2>2. CASE f = DownAlone(c)
    BY <1>1, <2>2 DEF DownAlone
  <2> QED BY <1>5, <2>1, <2>2
<1>6. CASE f = Up(c)
  BY <1>1, <1>6, Heads
<1> QED
  BY <1>2, <1>3, <1>4, <1>5, <1>6 DEF FilesOf

LEMMA OneStep ==
  ASSUME NEW c, NEW name, NEW do \in Does, NEW f \in FilesOf(c), May(name, do, f)
  PROVE  Step(do, f) \in StepsFor(name, c)
  BY DEF Step, StepsFor

(* The files that the plans speak of.                                      *)
LEMMA TheFiles ==
  ASSUME NEW c
  PROVE  /\ Env \in FilesOf(c) /\ Models \in FilesOf(c) /\ Routes \in FilesOf(c)
         /\ Makefile \in FilesOf(c) /\ <<"go.mod">> \in FilesOf(c) /\ AuthFile \in FilesOf(c)
         /\ Up(c) \in FilesOf(c) /\ Down(c) \in FilesOf(c) /\ DownAlone(c) \in FilesOf(c)
         /\ \A k \in Kinds, n \in Name \cup Page : <<k, n>> \in FilesOf(c)
         /\ {<<"Dockerfile">>, <<"docker-compose.yml">>, <<"deploy.sh">>} \subseteq FilesOf(c)
  BY DEF FilesOf, Skeleton

(* StepsFor that write over nothing may be in any plan.                       *)
LEMMA QuietStep ==
  ASSUME NEW c, NEW name, NEW do \in Does \ {"put", "replace", "clone"}, NEW f \in FilesOf(c)
  PROVE  Step(do, f) \in StepsFor(name, c)
<1>1. May(name, do, f)
  BY DEF May
<1> QED
  BY <1>1, OneStep

(* Nor does what is put where only the tool writes.                        *)
LEMMA PutStep ==
  ASSUME NEW c, NEW name, NEW f \in FilesOf(c),
         \/ f[1] \in {"down", "model", "controller_test"}
         \/ name = "controller" /\ \E p \in Page : f = Test(p)
  PROVE  Step("put", f) \in StepsFor(name, c)
<1>1. May(name, "put", f) /\ "put" \in Does
  BY DEF May, Does
<1> QED
  BY <1>1, OneStep

LEMMA NewStep ==
  ASSUME NEW c, NEW do \in Does, NEW f \in FilesOf(c)
  PROVE  Step(do, f) \in StepsFor("new", c)
<1>1. May("new", do, f)
  BY DEF May
<1> QED
  BY <1>1, OneStep

(* Plans of a few steps.                                                   *)
LEMMA Few ==
  ASSUME NEW S, NEW w \in S, NEW x \in S, NEW y \in S, NEW z \in S, NEW last \in S
  PROVE  /\ <<>> \in Seq(S) /\ <<w>> \in Seq(S) /\ <<w, x>> \in Seq(S)
         /\ <<w, x, y>> \in Seq(S) /\ <<w, x, y, z>> \in Seq(S)
         /\ <<w, x, y, z, last>> \in Seq(S)
  OBVIOUS

LEMMA Joining ==
  ASSUME NEW S, NEW p \in Seq(S), NEW q \in Seq(S)
  PROVE  p \o q \in Seq(S)
  BY ConcatProperties

-----------------------------------------------------------------------------
(* The plans.                                                              *)
GoodPlan(name, plan) == name \in CommandName /\ plan \in Seq(StepsFor(name, This))

LEMMA MigrationPlan ==
  ASSUME NEW name
  PROVE  /\ migration \in Seq(StepsFor(name, This))
         /\ Ask \in StepsFor(name, This) /\ migrate("up") \in StepsFor(name, This)
         /\ migrate("down") \in StepsFor(name, This) /\ migrate("down all") \in StepsFor(name, This)
         /\ copyFileFromTemplate(Up(This)) \in StepsFor(name, This)
         /\ copyDataToFile(Down(This)) \in StepsFor(name, This)
<1> DEFINE Q == Does \ {"put", "replace", "clone"}
<1>1. "create" \in Q /\ "reformat" \in Q /\ "ask" \in Q /\ "up" \in Q /\ "down" \in Q
      /\ "down all" \in Q
  BY DEF Does
<1>2. Up(This) \in FilesOf(This) /\ Down(This) \in FilesOf(This) /\ Env \in FilesOf(This)
  BY TheFiles
<1> DEFINE S == StepsFor(name, This)
<1>3. /\ Step("create", Up(This)) \in S /\ Step("create", Down(This)) \in S
      /\ Step("reformat", Up(This)) \in S /\ Step("reformat", Down(This)) \in S
      /\ Step("ask", Env) \in S /\ Step("up", Env) \in S /\ Step("down", Env) \in S
      /\ Step("down all", Env) \in S
  <2> HIDE DEF Q
  <2> QED BY <1>1, <1>2, QuietStep DEF Q
<1>4. Step("put", Down(This)) \in S
  <2>1. Down(This)[1] = "down"
    BY DEF Down
  <2> QED BY <1>2, <2>1, PutStep
<1> HIDE DEF S
<1>5. migration \in Seq(S)
  BY <1>3, Few DEF migration, copyFileFromTemplate
<1> QED
  BY <1>3, <1>4, <1>5 DEF Ask, migrate, copyFileFromTemplate, copyDataToFile, S

LEMMA AuthPlan == GoodPlan("auth", doAuth) /\ GoodPlan("session", doSession)
<1>1. "auth" \in CommandName /\ "session" \in CommandName
  BY DEF CommandName
<1>2. ASSUME NEW name
      PROVE  /\ copyFileFromTemplate(AuthFile) \in StepsFor(name, This)
             /\ injectAuth \in Seq(StepsFor(name, This))
  <2>1. "create" \in Does \ {"put", "replace", "clone"}
        /\ "inject auth" \in Does \ {"put", "replace", "clone"}
    BY DEF Does
  <2>2. AuthFile \in FilesOf(This) /\ Models \in FilesOf(This) /\ Routes \in FilesOf(This)
    BY TheFiles
  <2> DEFINE S == StepsFor(name, This)
  <2>3. /\ Step("create", AuthFile) \in S /\ Step("inject auth", Models) \in S
        /\ Step("inject auth", Routes) \in S
    BY <2>1, <2>2, QuietStep
  <2> HIDE DEF S
  <2>4. injectAuth \in Seq(S)
    BY <2>3, Few DEF injectAuth
  <2> QED BY <2>3, <2>4 DEF copyFileFromTemplate, S
<1>3. doSession \in Seq(StepsFor("session", This))
  <2> DEFINE S == StepsFor("session", This)
  <2>1. /\ Ask \in S /\ copyFileFromTemplate(Up(This)) \in S
        /\ copyDataToFile(Down(This)) \in S /\ migrate("up") \in S
    BY MigrationPlan
  <2> HIDE DEF S
  <2>2. doSession \in Seq(S)
    BY <2>1 DEF doSession
  <2> QED BY <2>2 DEF S
<1>4. doAuth \in Seq(StepsFor("auth", This))
  <2> DEFINE S == StepsFor("auth", This)
             head == <<Ask, copyFileFromTemplate(Up(This)), copyDataToFile(Down(This)),
                       migrate("up"), copyFileFromTemplate(AuthFile)>>
  <2>1. /\ Ask \in S /\ copyFileFromTemplate(Up(This)) \in S
        /\ copyDataToFile(Down(This)) \in S /\ migrate("up") \in S
        /\ copyFileFromTemplate(AuthFile) \in S /\ injectAuth \in Seq(S)
    BY <1>2, MigrationPlan
  <2> HIDE DEF S
  <2>2. head \in Seq(S)
    BY <2>1
  <2>3. doAuth = head \o injectAuth
    BY DEF doAuth
  <2> HIDE DEF head
  <2> QED BY <2>1, <2>2, <2>3, Joining DEF S
<1> QED
  BY <1>1, <1>3, <1>4 DEF GoodPlan

(* The commands that write a file or two.                                  *)
LEMMA FilePlans ==
  ASSUME NEW p \in Page
  PROVE  /\ GoodPlan("mail", doMail(p)) /\ GoodPlan("handler", doHandler(p))
         /\ GoodPlan("api-controller", doAPIController(p))
         /\ GoodPlan("controller", doResourceController(p))
         /\ GoodPlan("middleware", doMiddleware(p)) /\ GoodPlan("test", doTest(p))
<1>1. /\ "mail" \in CommandName /\ "handler" \in CommandName /\ "api-controller" \in CommandName
      /\ "controller" \in CommandName /\ "middleware" \in CommandName /\ "test" \in CommandName
  BY DEF CommandName
<1>2. "create" \in Does \ {"put", "replace", "clone"}
  BY DEF Does
<1>3. ASSUME NEW k \in Kinds PROVE <<k, p>> \in FilesOf(This)
  BY TheFiles
<1>4. /\ "html" \in Kinds /\ "plain" \in Kinds /\ "handler" \in Kinds /\ "controller" \in Kinds
      /\ "controller_test" \in Kinds /\ "handlers" \in Kinds /\ "middleware" \in Kinds
      /\ "test" \in Kinds
  BY DEF Kinds
<1>5. ASSUME NEW name, NEW k \in Kinds
      PROVE  Step("create", <<k, p>>) \in StepsFor(name, This)
  BY <1>2, <1>3, QuietStep
<1>6. Step("put", <<"controller_test", p>>) \in StepsFor("api-controller", This)
  BY <1>3, <1>4, PutStep
<1>7. Step("put", Test(p)) \in StepsFor("controller", This)
  <2>1. Test(p) \in FilesOf(This)
    BY <1>3, <1>4 DEF Test
  <2> QED BY <2>1, PutStep
<1>8. ASSUME NEW S, NEW x \in S, NEW y \in S PROVE <<x>> \in Seq(S) /\ <<x, y>> \in Seq(S)
  OBVIOUS
<1>9. doMail(p) \in Seq(StepsFor("mail", This))
  BY <1>4, <1>5, <1>8 DEF doMail, copyFileFromTemplate
<1>10. doHandler(p) \in Seq(StepsFor("handler", This))
  BY <1>4, <1>5, <1>8 DEF doHandler
<1>11. doAPIController(p) \in Seq(StepsFor("api-controller", This))
  BY <1>4, <1>5, <1>6, <1>8 DEF doAPIController
<1>12. doResourceController(p) \in Seq(StepsFor("controller", This))
  BY <1>4, <1>5, <1>7, <1>8 DEF doResourceController
<1>13. doMiddleware(p) \in Seq(StepsFor("middleware", This))
  BY <1>4, <1>5, <1>8 DEF doMiddleware
<1>14. doTest(p) \in Seq(StepsFor("test", This))
  BY <1>4, <1>5, <1>8 DEF doTest, Test
<1> QED
  BY <1>1, <1>9, <1>10, <1>11, <1>12, <1>13, <1>14 DEF GoodPlan

LEMMA ModelPlans ==
  ASSUME NEW n \in Name
  PROVE  GoodPlan("model", doModel(n)) /\ GoodPlan("migration", doMigration)
<1>1. "model" \in CommandName /\ "migration" \in CommandName
  BY DEF CommandName
<1>2. doMigration \in Seq(StepsFor("migration", This))
  <2> DEFINE S == StepsFor("migration", This)
  <2>1. Ask \in S /\ migration \in Seq(S)
    BY MigrationPlan
  <2> HIDE DEF S
  <2>2. <<Ask>> \in Seq(S)
    BY <2>1
  <2> QED BY <2>1, <2>2, Joining DEF doMigration, S
<1>3. doModel(n) \in Seq(StepsFor("model", This))
  <2> DEFINE S == StepsFor("model", This)
             head == <<fileExists(Model(n)), copyDataToFile(Model(n)), Step("ask or end", Env)>>
             tail == <<Step("inject", Model(n))>>
  <2>1. "check" \in Does \ {"put", "replace", "clone"}
        /\ "ask or end" \in Does \ {"put", "replace", "clone"}
        /\ "inject" \in Does \ {"put", "replace", "clone"} /\ "model" \in Kinds
    BY DEF Does, Kinds
  <2>2. Model(n) \in FilesOf(This) /\ Env \in FilesOf(This) /\ Model(n)[1] = "model"
    BY <2>1, TheFiles DEF Model
  <2>3. /\ Step("check", Model(n)) \in S /\ Step("ask or end", Env) \in S
        /\ Step("inject", Model(n)) \in S
    BY <2>1, <2>2, QuietStep
  <2>4. Step("put", Model(n)) \in S
    BY <2>2, PutStep
  <2>5. migration \in Seq(S)
    BY MigrationPlan
  <2> HIDE DEF S
  <2>6. head \in Seq(S) /\ tail \in Seq(S)
    BY <2>3, <2>4, Few DEF fileExists, copyDataToFile
  <2>7. doModel(n) = head \o migration \o tail
    BY DEF doModel
  <2> HIDE DEF head, tail
  <2>8. head \o migration \in Seq(S)
    BY <2>5, <2>6, Joining
  <2> QED BY <2>6, <2>7, <2>8, Joining DEF S
<1> QED
  BY <1>1, <1>2, <1>3 DEF GoodPlan

(* The files of docker and deploy, in any order.                           *)
LEMMA AnyOrder ==
  ASSUME NEW name, NEW a \in FilesOf(This), NEW b \in FilesOf(This),
         NEW plan \in inAnyOrder({a, b})
  PROVE  plan \in Seq(StepsFor(name, This))
<1> DEFINE n == Cardinality({a, b})
<1>1. n \in Nat
  <2>1. IsFiniteSet({a})
    BY FS_Singleton
  <2>2. IsFiniteSet({a} \cup {b})
    BY <2>1, FS_AddElement
  <2>3. {a} \cup {b} = {a, b}
    OBVIOUS
  <2> QED BY <2>2, <2>3, FS_CardinalityType
<1>2. PICK s \in SetToSeqs({a, b}) : plan = [i \in DOMAIN s |-> Step("skip", s[i])]
  BY DEF inAnyOrder
<1>3. s \in [1 .. n -> {a, b}]
  BY DEF SetToSeqs
<1>4. "skip" \in Does \ {"put", "replace", "clone"}
  BY DEF Does
<1>5. ASSUME NEW i \in 1 .. n PROVE Step("skip", s[i]) \in StepsFor(name, This)
  <2>1. s[i] \in FilesOf(This)
    BY <1>3
  <2> QED BY <1>4, <2>1, QuietStep
<1> HIDE DEF n
<1>6. plan \in [1 .. n -> StepsFor(name, This)]
  BY <1>2, <1>3, <1>5
<1> QED
  BY <1>1, <1>6

LEMMA ManyFiles ==
  /\ \A plan \in doDocker : GoodPlan("docker", plan)
  /\ \A plan \in doDeploy : GoodPlan("deploy", plan)
<1>1. "docker" \in CommandName /\ "deploy" \in CommandName
  BY DEF CommandName
<1>2. /\ <<"Dockerfile">> \in FilesOf(This) /\ <<"docker-compose.yml">> \in FilesOf(This)
      /\ <<"deploy.sh">> \in FilesOf(This) /\ Makefile \in FilesOf(This)
  BY TheFiles
<1>3. ASSUME NEW plan \in doDocker PROVE plan \in Seq(StepsFor("docker", This))
  BY <1>2, <1>3, AnyOrder DEF doDocker
<1>4. ASSUME NEW plan \in doDeploy PROVE plan \in Seq(StepsFor("deploy", This))
  BY <1>2, <1>4, AnyOrder DEF doDeploy
<1> QED
  BY <1>1, <1>3, <1>4 DEF GoodPlan

LEMMA NewPlan ==
  ASSUME NEW template, NEW db
  PROVE  GoodPlan("new", doNew(template, db))
<1> DEFINE S == StepsFor("new", This)
           head == <<Step("clone", Env), copyDataToFile(Env), Step("put", Makefile),
                     copyDataToFile(<<"go.mod">>), Step("enter", Env)>>
           two == <<Step("inject new", Model(Starter)), Step("replace", Model(Starter))>>
           more == <<Step("replace", DownAlone(This)), Step("replace", Up(This))>>
<1>1. "new" \in CommandName
  BY DEF CommandName
<1>2. /\ Model(Starter) \in FilesOf(This) /\ Env \in FilesOf(This)
      /\ Makefile \in FilesOf(This) /\ <<"go.mod">> \in FilesOf(This)
      /\ Up(This) \in FilesOf(This) /\ DownAlone(This) \in FilesOf(This)
  BY TheFiles DEF Model, Kinds
<1>3. /\ "clone" \in Does /\ "put" \in Does /\ "enter" \in Does /\ "inject new" \in Does
      /\ "replace" \in Does
  BY DEF Does
<1>4. /\ Step("clone", Env) \in S /\ Step("put", Env) \in S /\ Step("put", Makefile) \in S
      /\ Step("put", <<"go.mod">>) \in S /\ Step("enter", Env) \in S
      /\ Step("inject new", Model(Starter)) \in S /\ Step("replace", Model(Starter)) \in S
      /\ Step("replace", Up(This)) \in S /\ Step("replace", DownAlone(This)) \in S
  BY <1>2, <1>3, NewStep
<1> HIDE DEF S
<1>5. two \in Seq(S) /\ more \in Seq(S) /\ <<>> \in Seq(S)
  BY <1>4, Few
<1>6. head \in Seq(S)
  BY <1>4, Few DEF copyDataToFile
<1>7. doNew(template, db) \in
        {head \o <<>>, head \o (two \o <<>>), head \o (two \o more)}
  BY DEF doNew, applyStarterTemplate
<1> HIDE DEF head, two, more
<1>8. two \o <<>> \in Seq(S) /\ two \o more \in Seq(S)
  BY <1>5, Joining
<1>9. /\ head \o <<>> \in Seq(S) /\ head \o (two \o <<>>) \in Seq(S)
      /\ head \o (two \o more) \in Seq(S)
  BY <1>5, <1>6, <1>8, Joining
<1> QED
  BY <1>1, <1>7, <1>9 DEF GoodPlan, S

LEMMA MigratePlans ==
  /\ GoodPlan("migrate", <<migrate("up")>>) /\ GoodPlan("migrate", <<migrate("down")>>)
  /\ GoodPlan("migrate", <<migrate("down all")>>) /\ GoodPlan("migrate", doReset)
<1> DEFINE S == StepsFor("migrate", This)
<1>1. "migrate" \in CommandName
  BY DEF CommandName
<1>2. migrate("up") \in S /\ migrate("down") \in S /\ migrate("down all") \in S
  BY MigrationPlan
<1> HIDE DEF S
<1>3. /\ <<migrate("up")>> \in Seq(S) /\ <<migrate("down")>> \in Seq(S)
      /\ <<migrate("down all")>> \in Seq(S) /\ doReset \in Seq(S)
  BY <1>2, Few DEF doReset
<1> QED
  BY <1>1, <1>3 DEF GoodPlan, S

LEMMA MakePlans ==
  ASSUME NEW p \in Make
  PROVE  GoodPlan(p.name, p.plan)
<1>1. PICK n \in Name, q \in Page : p \in doMake(n, q)
  BY DEF Make
<1>2. CASE p \in [name : {"docker"}, plan : doDocker] \cup [name : {"deploy"}, plan : doDeploy]
  BY <1>2, ManyFiles
<1>3. CASE ~(p \in [name : {"docker"}, plan : doDocker]
                     \cup [name : {"deploy"}, plan : doDeploy])
  BY <1>1, <1>3, AuthPlan, FilePlans, ModelPlans DEF doMake
<1> QED
  BY <1>2, <1>3

-----------------------------------------------------------------------------
(* The command: it begins with a good plan, goes on with the rest of it,   *)
(* and ends.                                                               *)
LEMMA BeginOK ==
  ASSUME CommandOK, NEW p, NEW c \in Cfg, NEW db \in Db, GoodPlan(p.name, p.plan),
         Begin(p, c, db)
  PROVE  CommandOK' /\ commands' = commands + 1
<1>1. commands \in 0 .. MaxCommands /\ commands < MaxCommands /\ commands' = commands + 1
  BY DEF CommandOK, Begin
<1>2. commands' \in 0 .. MaxCommands
  BY <1>1
<1>3. /\ command' = [name |-> p.name, cfg |-> c, db |-> db, plan |-> p.plan,
                     outcome |-> "running"]
      /\ p.name \in CommandName /\ p.plan \in Seq(StepsFor(p.name, commands'))
  BY <1>1 DEF Begin, GoodPlan, This
<1>4. "running" \in Outcome
  BY DEF Outcome
<1> DEFINE P == Seq(StepsFor(p.name, commands'))
<1>5. command'.name = p.name
  BY <1>3
<1> HIDE DEF P
<1>6. command' \in [name : CommandName, cfg : Cfg, db : Db, plan : P, outcome : Outcome]
  BY <1>3, <1>4 DEF P
<1> QED
  BY <1>1, <1>2, <1>5, <1>6 DEF CommandOK, IsCommand, P

LEMMA EndOK ==
  ASSUME CommandOK, NEW outcome \in Outcome, End(outcome), commands' = commands
  PROVE  CommandOK'
<1> DEFINE P == Seq(StepsFor("none", commands))
<1>1. <<>> \in P
  OBVIOUS
<1>2. "none" \in CommandName /\ "none" \in Cfg /\ "none" \in Db
  BY DEF CommandName, Cfg, Db
<1>3. command' = [name |-> "none", cfg |-> "none", db |-> "none", plan |-> <<>>,
                  outcome |-> outcome]
  BY DEF End, Idle
<1>4. command'.name = "none"
  BY <1>3
<1> HIDE DEF P
<1>5. command' \in [name : CommandName, cfg : Cfg, db : Db, plan : P, outcome : Outcome]
  BY <1>1, <1>2, <1>3
<1> QED
  BY <1>4, <1>5 DEF CommandOK, IsCommand, P

LEMMA ContinueOK ==
  ASSUME CommandOK, NEW db \in Db, Continue(db), command.plan # <<>>, commands' = commands
  PROVE  CommandOK'
<1> DEFINE S == StepsFor(command.name, commands)
<1>1. command \in [name : CommandName, cfg : Cfg, db : Db, plan : Seq(S), outcome : Outcome]
  BY DEF CommandOK, IsCommand
<1> HIDE DEF S
<1>2. command.plan \in Seq(S)
  BY <1>1
<1>3. Tail(command.plan) \in Seq(S)
  BY <1>2
<1> DEFINE P == Seq(S)
<1> HIDE DEF P
<1>4. command' = [command EXCEPT !.plan = Tail(command.plan), !.db = db]
  BY DEF Continue
<1>5. command' \in [name : CommandName, cfg : Cfg, db : Db, plan : P, outcome : Outcome]
      /\ command'.name = command.name
  BY <1>1, <1>3, <1>4 DEF P
<1> QED
  BY <1>5 DEF CommandOK, IsCommand, P, S

(* The step that a command is at is one of its steps.                      *)
LEMMA AtStep ==
  ASSUME CommandOK, NEW dos, At(dos)
  PROVE  /\ command.plan # <<>> /\ command.plan[1] \in StepsFor(command.name, commands)
         /\ command.plan[1].do \in dos \cap Does /\ File \in FilesOf(commands)
         /\ May(command.name, command.plan[1].do, File)
         /\ command.db \in Db /\ command.cfg \in Cfg /\ command.name \in CommandName
<1> DEFINE S == StepsFor(command.name, commands)
<1>1. command \in [name : CommandName, cfg : Cfg, db : Db, plan : Seq(S), outcome : Outcome]
  BY DEF CommandOK, IsCommand
<1>2. command.plan # <<>> /\ command.plan[1].do \in dos
  BY DEF At
<1> HIDE DEF S
<1>3. command.plan[1] \in S
  BY <1>1, <1>2
<1> QED
  BY <1>1, <1>2, <1>3 DEF S, StepsFor, File

(* What is not about files and the schema is as it was, or nearly.         *)
LEMMA SameFiles ==
  ASSUME CliInv, files' = files, lost' = lost, schema' = schema, commands' >= commands,
         commands' \in Nat
  PROVE  FilesOK' /\ LostOK' /\ SchemaOK'
<1>1. Ups' = Ups
  BY DEF Ups, Exists
<1>2. commands \in Nat
  BY DEF CliInv, CommandOK
<1>3. FilesOK'
  BY <1>2 DEF CliInv, FilesOK
<1>4. LostOK'
  BY DEF CliInv, LostOK
<1>5. SchemaOK'
  BY <1>1, <1>2 DEF CliInv, SchemaOK, schema
<1> QED
  BY <1>3, <1>4, <1>5

LEMMA SameInjected ==
  ASSUME CliInv, injected' = injected
  PROVE  InjectedOK'
  BY DEF CliInv, InjectedOK

(* Any command begins.                                                     *)
LEMMA CommandBegins ==
  ASSUME CliInv, NEW p, NEW c \in Cfg, NEW db \in Db, GoodPlan(p.name, p.plan),
         Begin(p, c, db)
  PROVE  CliInv'
<1>1. CommandOK' /\ commands' = commands + 1 /\ commands \in Nat
  BY BeginOK DEF CliInv, CommandOK
<1>2. UNCHANGED <<files, injected, dbType, schema, lost>>
  BY DEF Begin
<1>3. FilesOK' /\ LostOK' /\ SchemaOK'
  BY <1>1, <1>2, SameFiles
<1>4. InjectedOK'
  BY <1>2, SameInjected
<1> QED
  BY <1>1, <1>2, <1>3, <1>4 DEF CliInv

LEMMA StartCommandKeeps == ASSUME CliInv, StartCommand PROVE CliInv'
<1> DEFINE M == [name : {"migrate"}, plan : {<<migrate("up")>>, <<migrate("down")>>,
                                              <<migrate("down all")>>, doReset}]
<1>1. PICK p \in Make \cup M :
        \/ Begin(p, "loaded", IF Env \in DOMAIN files THEN dbType ELSE "none")
        \/ Begin(p, "wrong", "none")
  BY DEF StartCommand
<1>2. GoodPlan(p.name, p.plan)
  <2>1. CASE p \in Make
    BY <2>1, MakePlans
  <2>2. CASE p \in M
    BY <2>2, MigratePlans
  <2> QED BY <2>1, <2>2
<1>3. "loaded" \in Cfg /\ "wrong" \in Cfg /\ "none" \in Db /\ dbType \in Db
  BY DEF Cfg, Db, CliInv
<1> HIDE DEF M
<1>4. CASE Begin(p, "loaded", IF Env \in DOMAIN files THEN dbType ELSE "none")
  <2>1. (IF Env \in DOMAIN files THEN dbType ELSE "none") \in Db
    BY <1>3
  <2> QED BY <1>2, <1>3, <1>4, <2>1, CommandBegins
<1>5. CASE Begin(p, "wrong", "none")
  BY <1>2, <1>3, <1>5, CommandBegins
<1> QED
  BY <1>1, <1>4, <1>5

LEMMA StartNewKeeps == ASSUME CliInv, StartNew PROVE CliInv'
<1>1. PICK template \in {"default", "blog"}, db \in Db :
        Begin([name |-> "new", plan |-> doNew(template, db)], "none", db)
  BY DEF StartNew, Db
<1> DEFINE p == [name |-> "new", plan |-> doNew(template, db)]
<1>2. GoodPlan(p.name, p.plan)
  BY NewPlan
<1>3. "none" \in Cfg
  BY DEF Cfg
<1> HIDE DEF p
<1>4. Begin(p, "none", db)
  BY <1>1 DEF p
<1> QED
  BY <1>2, <1>3, <1>4, CommandBegins

LEMMA MCPKeeps == ASSUME CliInv, doMCP PROVE CliInv'
<1>1. PICK p \in Make \cup [name : {"migrate"}, plan : {<<migrate("up")>>, <<migrate("down")>>}] :
        Begin(p, "mcp", "none")
  BY DEF doMCP
<1>2. GoodPlan(p.name, p.plan)
  BY <1>1, MakePlans, MigratePlans
<1>3. "mcp" \in Cfg /\ "none" \in Db
  BY DEF Cfg, Db
<1> QED
  BY <1>1, <1>2, <1>3, CommandBegins

(* A step that leaves all but the command and .env's database alone.       *)
LEMMA QuietKeeps ==
  ASSUME CliInv, UNCHANGED <<files, injected, commands, schema, lost>>, dbType' \in Db,
         CommandOK'
  PROVE  CliInv'
<1>1. commands \in Nat /\ commands' = commands
  BY DEF CliInv, CommandOK
<1>2. FilesOK' /\ LostOK' /\ SchemaOK'
  BY <1>1, SameFiles
<1>3. InjectedOK'
  BY SameInjected
<1> QED
  BY <1>2, <1>3 DEF CliInv

LEMMA FinishKeeps == ASSUME CliInv, FinishCommand PROVE CliInv'
<1>1. End("ok") /\ "ok" \in Outcome /\ commands' = commands /\ dbType' = dbType
  BY DEF FinishCommand, Outcome
<1>2. CommandOK'
  BY <1>1, EndOK DEF CliInv
<1> QED
  BY <1>1, <1>2, QuietKeeps DEF CliInv, FinishCommand

LEMMA ReformatKeeps == ASSUME CliInv, reformatMigration PROVE CliInv'
<1>1. commands' = commands /\ dbType' = dbType /\ "error" \in Outcome /\ CommandOK
  BY DEF reformatMigration, Outcome, CliInv
<1>2. command.plan # <<>> /\ command.db \in Db
  BY <1>1, AtStep DEF reformatMigration
<1>3. Continue(command.db) \/ End("error")
  BY DEF reformatMigration
<1>4. CommandOK'
  BY <1>1, <1>2, <1>3, EndOK, ContinueOK
<1> QED
  BY <1>1, <1>4, QuietKeeps DEF CliInv, reformatMigration

LEMMA PromptKeeps == ASSUME CliInv, promptForDatabase PROVE CliInv'
<1>1. /\ commands' = commands /\ "error" \in Outcome /\ "ok" \in Outcome /\ CommandOK
      /\ dbType \in Db
  BY DEF promptForDatabase, Outcome, CliInv
<1>2. command.plan # <<>> /\ command.db \in Db
  BY <1>1, AtStep DEF promptForDatabase
<1>3. CommandOK' /\ dbType' \in Db
  <2>1. CASE Continue(command.db) /\ dbType' = dbType
    BY <1>1, <1>2, <2>1, ContinueOK
  <2>2. CASE \E db \in Databases : Continue(db) /\ updateEnvDatabase(db)
    <3>1. PICK db \in Databases : Continue(db) /\ updateEnvDatabase(db)
      BY <2>2
    <3>2. db \in Db
      BY DEF Db
    <3>3. dbType' \in Db
      BY <1>1, <3>1, <3>2 DEF updateEnvDatabase
    <3> QED BY <1>1, <1>2, <3>1, <3>2, <3>3, ContinueOK
  <2>3. CASE (End("error") \/ End("ok")) /\ dbType' = dbType
    BY <1>1, <2>3, EndOK
  <2> QED BY <2>1, <2>2, <2>3 DEF promptForDatabase
<1> QED
  BY <1>3, QuietKeeps DEF promptForDatabase

LEMMA EnterKeeps == ASSUME CliInv, EnterDirectory PROVE CliInv'
<1>1. commands' = commands /\ dbType' = dbType /\ "error" \in Outcome /\ CommandOK
  BY DEF EnterDirectory, Outcome, CliInv
<1>2. command.plan # <<>> /\ command.db \in Db
  BY <1>1, AtStep DEF EnterDirectory
<1>3. Continue(command.db) \/ End("error")
  BY DEF EnterDirectory
<1>4. CommandOK'
  BY <1>1, <1>2, <1>3, EndOK, ContinueOK
<1> QED
  BY <1>1, <1>4, QuietKeeps DEF CliInv, EnterDirectory

-----------------------------------------------------------------------------
(* Files.  What is written anew is the tool's; nobody else's work is lost  *)
(* if none of the files was the developer's.                               *)
LEMMA WrittenOK ==
  ASSUME CliInv, NEW fs \in SUBSET FilesOf(commands), Written(fs),
         \A f \in fs : Exists(f) /\ files[f] = "developer" =>
           command.name = "new" \/ \E p \in Page : <<command.name, f>> = <<"controller", Test(p)>>,
         schema' = schema, commands' = commands
  PROVE  FilesOK' /\ LostOK' /\ SchemaOK'
<1>1. commands \in Nat /\ FilesOK /\ LostOK /\ SchemaOK
  BY DEF CliInv, CommandOK
<1>2. DOMAIN files' = DOMAIN files \cup fs
  BY DEF Written
<1>3. \A f \in DOMAIN files' : files'[f] = IF f \in fs THEN "tjo" ELSE files[f]
  BY DEF Written
<1>4. \A f \in fs, i \in 1 .. MaxCommands : f = Up(i) => i = commands
  BY <1>1, UpOf
<1>5. FilesOK'
  <2>1. ASSUME NEW f \in DOMAIN files'
        PROVE  /\ files'[f] \in {"developer", "tjo"}
               /\ files'[f] = "developer" => f \in Skeleton \/ \E p \in Page : f = Test(p)
               /\ \A i \in 1 .. MaxCommands : f = Up(i) => i <= commands
    <3>1. CASE f \in fs
      BY <1>1, <1>3, <1>4, <3>1
    <3>2. CASE f \notin fs
      BY <1>1, <1>2, <1>3, <3>2 DEF FilesOK
    <3> QED BY <3>1, <3>2
  <2> QED BY <2>1 DEF FilesOK
<1>6. LostOK'
  <2>1. ASSUME NEW l \in lost'
        PROVE  l[1] = "new" \/ \E p \in Page : l = <<"controller", Test(p)>>
    <3>1. CASE l \in lost
      BY <1>1, <3>1 DEF LostOK
    <3>2. CASE l \notin lost
      <4>1. PICK f \in fs : Exists(f) /\ files[f] = "developer" /\ l = <<command.name, f>>
        BY <3>2 DEF Written
      <4> QED BY <4>1
    <3> QED BY <3>1, <3>2
  <2> QED BY <2>1 DEF LostOK
<1>7. SchemaOK'
  <2>1. ASSUME NEW i \in applied, NEW j \in Ups', j < i
        PROVE  j \in applied
    <3>1. i \in 1 .. commands /\ j \in 1 .. MaxCommands /\ Up(j) \in DOMAIN files'
      BY <1>1 DEF SchemaOK, Ups, Exists
    <3>2. CASE Up(j) \in fs
      BY <1>1, <1>4, <2>1, <3>1, <3>2
    <3>3. CASE Up(j) \in DOMAIN files
      BY <1>1, <2>1, <3>1, <3>3 DEF SchemaOK, Ups, Exists
    <3> QED BY <1>2, <3>1, <3>2, <3>3
  <2> QED BY <1>1, <2>1 DEF SchemaOK, schema
<1> QED
  BY <1>5, <1>6, <1>7

LEMMA WriteFileKeeps == ASSUME CliInv, WriteFile PROVE CliInv'
<1> DEFINE does == command.plan[1].do
           keep == Continue(command.db) /\ UNCHANGED <<files, dbType, lost>>
<1>1. /\ command.plan # <<>> /\ does \in Writing /\ File \in FilesOf(commands)
      /\ May(command.name, does, File) /\ command.db \in Db
  BY AtStep DEF WriteFile, CliInv
<1>2. /\ CommandOK /\ dbType \in Db /\ "error" \in Outcome /\ commands' = commands
      /\ schema' = schema /\ injected' = injected
  BY DEF CliInv, Outcome, WriteFile
<1>3. CASE keep
  <2>1. CommandOK'
    BY <1>1, <1>2, <1>3, ContinueOK
  <2> QED BY <1>2, <1>3, <2>1, QuietKeeps
<1>4. CASE End("error") /\ UNCHANGED <<files, dbType, lost>>
  <2>1. CommandOK'
    BY <1>2, <1>4, EndOK
  <2> QED BY <1>2, <1>4, <2>1, QuietKeeps
<1>5. CASE /\ does # "check"
           /\ does \in {"put", "replace"} \/ (~Exists(File) /\ HasTemplate(File))
           /\ Written({File}) /\ Continue(command.db)
           /\ dbType' = IF File = Env THEN command.db ELSE dbType
  <2>1. CommandOK' /\ dbType' \in Db
    BY <1>1, <1>2, <1>5, ContinueOK
  <2>2. ASSUME Exists(File), files[File] = "developer"
        PROVE  \/ command.name = "new"
               \/ \E p \in Page : <<command.name, File>> = <<"controller", Test(p)>>
    <3>1. File \in Skeleton \/ \E p \in Page : File = Test(p)
      BY <2>2 DEF CliInv, FilesOK, Exists
    <3>2. File[1] \notin {"down", "model", "controller_test"}
      BY <3>1, Heads
    <3>3. does \in {"put", "replace"}
      BY <1>5, <2>2
    <3> QED BY <1>1, <3>2, <3>3 DEF May
  <2>3. FilesOK' /\ LostOK' /\ SchemaOK'
    BY <1>1, <1>2, <1>5, <2>2, WrittenOK
  <2>4. InjectedOK'
    BY <1>2, SameInjected
  <2> QED BY <2>1, <2>3, <2>4 DEF CliInv
<1> QED
  BY <1>3, <1>4, <1>5 DEF WriteFile

LEMMA CloneKeeps == ASSUME CliInv, CloneSkeleton PROVE CliInv'
<1>1. /\ command.plan # <<>> /\ command.plan[1].do = "clone"
      /\ May(command.name, command.plan[1].do, File) /\ command.db \in Db
  BY AtStep DEF CloneSkeleton, CliInv
<1>2. command.name = "new"
  BY <1>1 DEF May
<1>3. /\ CommandOK /\ dbType \in Db /\ dbType' = dbType /\ commands' = commands
      /\ schema' = schema /\ Continue(command.db)
  BY DEF CliInv, CloneSkeleton
<1>4. CommandOK'
  BY <1>1, <1>3, ContinueOK
<1>5. CASE UNCHANGED <<files, injected, lost>>
  BY <1>3, <1>4, <1>5, QuietKeeps
<1>6. CASE Written(Skeleton \ {Env}) /\ injected' = [f \in DOMAIN injected |-> <<>>]
  <2>1. Skeleton \ {Env} \in SUBSET FilesOf(commands)
    BY DEF FilesOf
  <2>2. FilesOK' /\ LostOK' /\ SchemaOK'
    BY <1>2, <1>3, <1>6, <2>1, WrittenOK
  <2>3. OnceEach(<<>>)
    BY DEF OnceEach, IsInjective
  <2>4. InjectedOK'
    BY <1>6, <2>3 DEF InjectedOK
  <2> QED BY <1>3, <1>4, <2>2, <2>4 DEF CliInv
<1> QED
  BY <1>5, <1>6 DEF CloneSkeleton

LEMMA DevelopKeeps == ASSUME CliInv, Develop PROVE CliInv'
<1>1. PICK p \in Page :
        files' = [f \in DOMAIN files \cup {Test(p)} |->
                    IF f = Test(p) THEN "developer" ELSE files[f]]
  BY DEF Develop
<1>2. UNCHANGED <<injected, dbType, command, commands, schema, lost>>
  BY DEF Develop
<1>3. CommandOK' /\ InjectedOK' /\ LostOK'
  BY <1>2 DEF CliInv, CommandOK, IsCommand, InjectedOK, LostOK
<1>4. \A i : Test(p) # Up(i)
  BY Heads
<1>5. FilesOK'
  BY <1>1, <1>2, <1>4 DEF CliInv, FilesOK
<1>6. Ups' = Ups
  BY <1>1, <1>4 DEF Ups, Exists
<1>7. SchemaOK'
  BY <1>2, <1>6 DEF CliInv, SchemaOK, schema
<1> QED
  BY <1>2, <1>3, <1>5, <1>7 DEF CliInv

-----------------------------------------------------------------------------
(* Appending what is not there yet.                                        *)
LEMMA OnceMore ==
  ASSUME NEW s, OnceEach(s), NEW what, what \notin Range(s)
  PROVE  OnceEach(Append(s, what))
<1>1. PICK S : s \in Seq(S)
  BY DEF OnceEach
<1> DEFINE T == S \cup {what}
           t == Append(s, what)
<1>2. s \in Seq(T)
  BY <1>1
<1>3. what \in T
  OBVIOUS
<1> HIDE DEF T
<1>4. /\ t \in Seq(T) /\ Len(t) = Len(s) + 1 /\ t[Len(s) + 1] = what
      /\ \A i \in 1 .. Len(s) : t[i] = s[i]
  BY <1>2, <1>3, AppendProperties
<1>5. Len(s) \in Nat /\ DOMAIN s = 1 .. Len(s) /\ DOMAIN t = 1 .. Len(t)
  BY <1>2, <1>4, LenProperties
<1>6. \A i \in 1 .. Len(s) : s[i] # what
  BY <1>5 DEF Range
<1>7. \A i, j \in 1 .. Len(s) : s[i] = s[j] => i = j
  BY <1>5 DEF OnceEach, IsInjective
<1> HIDE DEF t
<1>8. ASSUME NEW i \in DOMAIN t, NEW j \in DOMAIN t, t[i] = t[j] PROVE i = j
  BY <1>4, <1>5, <1>6, <1>7, <1>8
<1>9. IsInjective(t)
  BY <1>8 DEF IsInjective
<1> QED
  BY <1>4, <1>9 DEF OnceEach, t

LEMMA InjectKeeps == ASSUME CliInv, injectModels PROVE CliInv'
<1>1. /\ CommandOK /\ dbType \in Db /\ "error" \in Outcome /\ commands' = commands
      /\ dbType' = dbType /\ UNCHANGED <<files, commands, schema, lost>>
  BY DEF CliInv, Outcome, injectModels
<1>2. command.plan # <<>> /\ command.db \in Db
  BY <1>1, AtStep DEF injectModels
<1>3. Continue(command.db) \/ End("error")
  BY DEF injectModels
<1>4. CommandOK'
  BY <1>1, <1>2, <1>3, EndOK, ContinueOK
<1>5. CASE injected' = injected
  BY <1>1, <1>4, <1>5, QuietKeeps
<1>6. ASSUME NEW f, NEW what, ~Mentions(f, what), Inject(f, what) PROVE CliInv'
  <2>1. injected' = [injected EXCEPT ![f] = Append(injected[f], what)]
    BY <1>6 DEF Inject
  <2>2. what \notin Range(injected[f])
    BY <1>6 DEF Mentions
  <2>3. ASSUME NEW g \in DOMAIN injected' PROVE OnceEach(injected'[g])
    <3>1. g \in DOMAIN injected /\ OnceEach(injected[g])
      BY <2>1 DEF CliInv, InjectedOK
    <3>2. CASE g = f
      BY <2>1, <2>2, <3>1, <3>2, OnceMore
    <3>3. CASE g # f
      BY <2>1, <3>1, <3>3
    <3> QED BY <3>2, <3>3
  <2>4. InjectedOK'
    BY <2>3 DEF InjectedOK
  <2>5. FilesOK' /\ LostOK' /\ SchemaOK'
    BY <1>1, SameFiles DEF CliInv, CommandOK
  <2> QED BY <1>1, <1>4, <2>4, <2>5 DEF CliInv
<1> QED
  BY <1>5, <1>6 DEF injectModels

-----------------------------------------------------------------------------
(* The schema.                                                             *)
(* The last of the migrations that ran is one of them.                     *)
LEMMA MostIs ==
  ASSUME NEW n \in Nat, NEW s \in SUBSET (1 .. n), s # {}
  PROVE  Most(s) \in s /\ \A j \in s : j <= Most(s)
<1> DEFINE T == {n - j : j \in s}
<1>1. T \subseteq Nat /\ T # {}
  <2>1. ASSUME NEW j \in s PROVE n - j \in Nat
    OBVIOUS
  <2> QED BY <2>1
<1> HIDE DEF T
<1>2. PICK x \in T : \A y \in T : x <= y
  BY <1>1, LeastNumber
<1>3. PICK i \in s : x = n - i
  BY DEF T
<1>4. ASSUME NEW j \in s PROVE j <= i
  <2>1. n - i <= n - j
    BY <1>2, <1>3 DEF T
  <2> QED BY <2>1
<1> QED
  BY <1>4 DEF Most

(* A schema in which no migration ran before an older one.                 *)
Ordered(s) ==
  s \subseteq 1 .. commands /\ \A i \in s : {j \in Ups : j < i} \subseteq s

LEMMA Numbers ==
  ASSUME CliInv
  PROVE  commands \in Nat /\ Ups \subseteq 1 .. commands /\ Ordered(applied)
<1>1. commands \in Nat /\ Ordered(applied)
  BY DEF CliInv, CommandOK, SchemaOK, Ordered
<1>2. ASSUME NEW i \in Ups PROVE i <= commands
  BY DEF Ups, Exists, CliInv, FilesOK
<1> QED
  BY <1>1, <1>2 DEF Ups

(* What the migration library does in part keeps the order, up             *)
LEMMA UpKeepsOrder ==
  ASSUME CliInv, NEW done \in SUBSET MigrateUp,
         \A i \in done, j \in MigrateUp \ done : i < j
  PROVE  Ordered(applied \cup done)
<1> DEFINE rest == applied \cup done
<1>1. commands \in Nat /\ Ups \subseteq 1 .. commands /\ Ordered(applied)
  BY Numbers
<1>2. MigrateUp = {i \in Ups : \A j \in applied : i > j}
  BY DEF MigrateUp
<1>3. rest \subseteq 1 .. commands
  BY <1>1, <1>2 DEF Ordered
<1>4. ASSUME NEW i \in rest, NEW j \in Ups, j < i PROVE j \in rest
  <2>1. CASE i \in applied
    BY <1>1, <1>4, <2>1 DEF Ordered
  <2>2. CASE i \in done /\ j \in MigrateUp
    <3>1. i \in Nat /\ j \in Nat
      BY <1>1, <1>3
    <3>2. ~(i < j)
      BY <1>4, <3>1
    <3> QED BY <2>2, <3>2
  <2>3. CASE j \notin MigrateUp
    <3>1. PICK k \in applied : ~(j > k)
      BY <1>2, <2>3
    <3>2. k \in Nat /\ j \in Nat
      BY <1>1 DEF Ordered
    <3>3. j = k \/ j < k
      BY <3>1, <3>2
    <3> QED BY <1>1, <3>3 DEF Ordered
  <2> QED BY <2>1, <2>2, <2>3
<1> QED
  BY <1>3, <1>4 DEF Ordered

(* and down.                                                               *)
LEMMA DownKeepsOrder ==
  ASSUME CliInv, NEW todo \in {MigrateSteps, MigrateDownAll}, NEW done \in SUBSET todo,
         \A i \in done, j \in todo \ done : ~(i < j)
  PROVE  Ordered(applied \ done)
<1> DEFINE rest == applied \ done
<1>1. commands \in Nat /\ Ups \subseteq 1 .. commands /\ Ordered(applied)
  BY Numbers
<1>2. ASSUME NEW i \in rest, NEW j \in Ups, j < i, j \in done PROVE FALSE
  <2>1. i \in applied /\ i \notin done /\ i \in Nat /\ j \in Nat
    BY <1>1 DEF Ordered
  <2>2. CASE todo = MigrateDownAll
    <3>1. i \in todo \ done
      BY <2>1, <2>2 DEF MigrateDownAll
    <3> QED BY <1>2, <3>1
  <2>3. CASE todo = MigrateSteps
    <3>1. j = Most(applied)
      BY <1>2, <2>3 DEF MigrateSteps
    <3>2. i <= Most(applied)
      BY <1>1, <2>1, MostIs DEF Ordered
    <3> QED BY <1>2, <2>1, <3>1, <3>2
  <2> QED BY <2>2, <2>3
<1>3. ASSUME NEW i \in rest, NEW j \in Ups, j < i PROVE j \in rest
  <2>1. j \in applied
    BY <1>1, <1>3 DEF Ordered
  <2> QED BY <1>2, <1>3, <2>1
<1> QED
  BY <1>1, <1>3 DEF Ordered

LEMMA MigrateKeeps == ASSUME CliInv, doMigrate PROVE CliInv'
<1>1. /\ CommandOK /\ dbType \in Db /\ dbType' = dbType /\ commands' = commands
      /\ UNCHANGED <<files, injected, dbType, commands, lost>>
      /\ "error" \in Outcome /\ "panic" \in Outcome
  BY DEF CliInv, Outcome, doMigrate
<1>2. command.plan # <<>> /\ command.db \in Db
  BY <1>1, AtStep DEF doMigrate
<1>3. CASE (End("error") \/ End("panic")) /\ UNCHANGED schema
  <2>1. CommandOK'
    BY <1>1, <1>3, EndOK
  <2> QED BY <1>1, <1>3, <2>1, QuietKeeps
<1>4. ASSUME NEW s, Ordered(s), applied' = s, dirty' \in BOOLEAN,
             IF dirty' THEN End("error") ELSE Continue(command.db)
      PROVE  CliInv'
  <2>1. CommandOK'
    BY <1>1, <1>2, <1>4, EndOK, ContinueOK
  <2>2. SchemaOK'
    <3>1. Ups' = Ups
      BY <1>1 DEF Ups, Exists
    <3> QED BY <1>1, <1>4, <3>1 DEF SchemaOK, Ordered
  <2>3. FilesOK' /\ LostOK' /\ InjectedOK'
    BY <1>1 DEF CliInv, FilesOK, LostOK, InjectedOK
  <2> QED BY <1>1, <2>1, <2>2, <2>3 DEF CliInv
<1> DEFINE todo == IF At({"up"}) THEN MigrateUp
                   ELSE IF At({"down"}) THEN MigrateSteps ELSE MigrateDownAll
<1>5. CASE \E done \in SUBSET todo :
             /\ \A i \in done, j \in todo \ done : At({"up"}) <=> i < j
             /\ applied' = IF At({"up"}) THEN applied \cup done ELSE applied \ done
             /\ dirty' \in BOOLEAN
             /\ IF dirty' THEN End("error") ELSE Continue(command.db)
  <2>1. PICK done \in SUBSET todo :
             /\ \A i \in done, j \in todo \ done : At({"up"}) <=> i < j
             /\ applied' = IF At({"up"}) THEN applied \cup done ELSE applied \ done
             /\ dirty' \in BOOLEAN
             /\ IF dirty' THEN End("error") ELSE Continue(command.db)
    BY <1>5
  <2>2. CASE At({"up"})
    <3>1. Ordered(applied \cup done)
      BY <2>1, <2>2, UpKeepsOrder
    <3> QED BY <1>4, <2>1, <2>2, <3>1
  <2>3. CASE ~At({"up"})
    <3>1. Ordered(applied \ done)
      BY <2>1, <2>3, DownKeepsOrder
    <3> QED BY <1>4, <2>1, <2>3, <3>1
  <2> QED BY <2>2, <2>3
<1> QED
  <2>1. SUFFICES ASSUME ~((End("error") \/ End("panic")) /\ UNCHANGED schema)
                 PROVE  CliInv'
    BY <1>3
  <2>2. PICK done \in SUBSET todo :
             /\ \A i \in done, j \in todo \ done : At({"up"}) <=> i < j
             /\ applied' = IF At({"up"}) THEN applied \cup done ELSE applied \ done
             /\ dirty' = (done # todo) \/ dirty' = TRUE \/ dirty' = FALSE
             /\ IF dirty' THEN End("error") ELSE Continue(command.db)
    BY <2>1 DEF doMigrate
  <2>3. dirty' \in BOOLEAN
    BY <2>2
  <2> QED BY <1>5, <2>2, <2>3

-----------------------------------------------------------------------------
LEMMA CliInitInv == CliInit => CliInv
<1> SUFFICES ASSUME CliInit PROVE CliInv
  OBVIOUS
<1>1. dbType \in Db /\ commands = 0 /\ applied = {} /\ dirty = FALSE /\ lost = {}
  BY DEF CliInit, Db
<1>2. CommandOK
  <2>1. command = [name |-> "none", cfg |-> "none", db |-> "none", plan |-> <<>>,
                   outcome |-> "none"]
    BY DEF CliInit, Idle
  <2> DEFINE P == Seq(StepsFor("none", commands))
  <2>2. <<>> \in P
    OBVIOUS
  <2>3. "none" \in CommandName /\ "none" \in Cfg /\ "none" \in Db /\ "none" \in Outcome
    BY DEF CommandName, Cfg, Db, Outcome
  <2> HIDE DEF P
  <2>4. command \in [name : CommandName, cfg : Cfg, db : Db, plan : P, outcome : Outcome]
        /\ command.name = "none"
    BY <2>1, <2>2, <2>3
  <2> QED BY <1>1, <2>4 DEF CommandOK, IsCommand, P
<1>3. FilesOK
  <2>1. \A f \in Skeleton, i \in 1 .. MaxCommands : f # Up(i)
    BY Heads
  <2> QED BY <1>1, <2>1 DEF CliInit, FilesOK
<1>4. InjectedOK
  <2>1. OnceEach(<<>>)
    BY DEF OnceEach, IsInjective
  <2> QED BY <2>1 DEF CliInit, InjectedOK
<1> QED
  BY <1>1, <1>2, <1>3, <1>4 DEF CliInv, LostOK, SchemaOK

LEMMA CliNextKeeps == CliInv /\ [CliNext]_cliVars => CliInv'
<1> SUFFICES ASSUME CliInv, [CliNext]_cliVars PROVE CliInv'
  OBVIOUS
<1>1. CASE UNCHANGED cliVars
  <2>1. CommandOK' /\ dbType' \in Db
    BY <1>1 DEF cliVars, CliInv, CommandOK, IsCommand
  <2> QED BY <1>1, <2>1, QuietKeeps DEF cliVars
<1> QED
  BY <1>1, StartCommandKeeps, StartNewKeeps, MCPKeeps, FinishKeeps, WriteFileKeeps,
     ReformatKeeps, PromptKeeps, InjectKeeps, MigrateKeeps, CloneKeeps, EnterKeeps,
     DevelopKeeps
  DEF CliNext

LEMMA CliInvariance == CliSpec => []CliInv
  BY CliInitInv, CliNextKeeps, PTL DEF CliSpec

(* The commands of cmd/tjo, run in any order, failing at any step and      *)
(* tried again, leave files, a database type, an outcome and a schema of   *)
(* the kinds that they are meant to be.                                    *)
THEOREM CliTypesCorrect == CliSpec => []CliTypeOK
<1>1. CliInv => CliTypeOK
  <2> SUFFICES ASSUME CliInv PROVE CliTypeOK
    OBVIOUS
  <2>1. Range(files) \subseteq {"developer", "tjo"}
    BY DEF CliInv, FilesOK, Range
  <2>2. dbType \in {"none"} \cup Databases
    BY DEF CliInv, Db
  <2>3. command.outcome \in {"none", "running", "ok", "error", "panic"}
    BY DEF CliInv, CommandOK, IsCommand, Outcome
  <2>4. commands \in 0 .. MaxCommands /\ applied \subseteq 1 .. MaxCommands /\ dirty \in BOOLEAN
    BY DEF CliInv, CommandOK, SchemaOK
  <2> QED BY <2>1, <2>2, <2>3, <2>4 DEF CliTypeOK
<1> QED
  BY <1>1, CliInvariance, PTL

(* Whatever commands the developer runs on an application of any size, and *)
(* however often they fail half-way and are tried again: no file of hers   *)
(* is overwritten but by "new" and the test of a controller, nothing is    *)
(* added to models.go or routes.go twice, and no migration runs before an  *)
(* older one that is there.                                                *)
THEOREM WorkKept == CliSpec => []WorkIsKept
<1>1. CliInv => WorkIsKept
  BY DEF CliInv, LostOK, InjectedOK, OnceEach, SchemaOK, WorkIsKept
<1> QED
  BY <1>1, CliInvariance, PTL

-----------------------------------------------------------------------------
(* Part 4: all of them.                                                    *)
HIDE GeneratorAssumption
    DEF GeneratorAssumption

(* A step of one part leaves the others alone.                             *)
LEMMA OnePartMoves ==
  ASSUME [Next]_vars
  PROVE  /\ [AppNext]_appVars /\ [MailNext]_mailVars /\ [QueueNext]_queueVars
         /\ [PoolNext]_poolVars /\ [StoreNext]_storeVars /\ [SeedNext]_seedVars
         /\ [CliNext]_cliVars
<1>1. CASE UNCHANGED vars
  BY <1>1 DEF vars
<1>2. CASE Next
  BY <1>2 DEF Next
<1> QED
  BY <1>1, <1>2

(* The modules of an application, its mail, its queues, workers and stored *)
(* jobs, its seeds and the tool that wrote it: put together, each behaves  *)
(* as it does alone.                                                       *)
THEOREM ApplicationParts ==
  Spec => /\ AppSpec /\ QueueSpec /\ PoolSpec /\ StoreSpec /\ SeedSpec /\ CliSpec /\ MailSpec
<1>1. Init => /\ AppInit /\ MailInit /\ QueueInit /\ PoolInit /\ StoreInit /\ SeedInit
              /\ CliInit
  BY DEF Init
<1>2. [Next]_vars => /\ [AppNext]_appVars /\ [MailNext]_mailVars /\ [QueueNext]_queueVars
                     /\ [PoolNext]_poolVars /\ [StoreNext]_storeVars /\ [SeedNext]_seedVars
                     /\ [CliNext]_cliVars
  BY OnePartMoves
<1> QED
  BY <1>1, <1>2, PTL
  DEF Spec, AppSpec, MailSpec, QueueSpec, PoolSpec, StoreSpec, SeedSpec, CliSpec

LEMMA PartStays == Spec => [](part \in Part)
<1>1. Init => part \in Part
  BY DEF Init
<1>2. part \in Part /\ [Next]_vars => (part \in Part)'
  BY DEF Next, vars
<1> QED
  BY <1>1, <1>2, PTL DEF Spec

(* Whatever the application goes through, each of its parts keeps its      *)
(* types.                                                                  *)
THEOREM ApplicationTypesCorrect == Spec => []TypeOK
<1>1. /\ part \in Part /\ AppTypeOK /\ MailTypeOK /\ QueueTypeOK /\ PoolTypeOK /\ StoreTypeOK
      /\ SeedTypeOK /\ CliTypeOK
      => TypeOK
  BY DEF TypeOK, Part
<1> QED
  BY <1>1, PartStays, ApplicationParts, AppTypesCorrect, MailTypesCorrect, QueueTypesCorrect,
     PoolTypesCorrect, StoreTypesCorrect, SeedTypesCorrect, CliTypesCorrect, PTL

(* What each part promises holds beside the others: what a shutdown        *)
(* releases and what is open until then, that modules are up after those   *)
(* that they depend on, the order of the mail, the list of the workers,    *)
(* the stored jobs, the seeds, and the developer's work.                   *)
THEOREM ApplicationPromises ==
  Spec => [](/\ ShutdownReleases /\ DependenciesUp /\ InUseIsOpen /\ MailInOrder
             /\ ListedIsRunning /\ QueuedIsStored /\ SeedComplete /\ WorkIsKept)
  BY ApplicationParts, ShutdownReleasesTheorem, DependenciesUpTheorem, InUseIsOpenTheorem,
   MailKeepsOrder, ListedRuns, QueuedStored, SeedsComplete, WorkKept, PTL

(* Beside all the rest the queue of jobs/queue.go serves by priority and *)
(* age, and is one of the bags of jobs that JobBag describes.              *)
THEOREM ApplicationQueue == Spec => ServedInOrder /\ ImplementsBag
  BY ApplicationParts, QueueServesInOrder, QueueImplementsBag, PTL
=============================================================================

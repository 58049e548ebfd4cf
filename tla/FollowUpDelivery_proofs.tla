------------------------ MODULE FollowUpDelivery_proofs ------------------------
(***************************************************************************)
(* Theorems about the delivery of follow-ups, for any number of items,     *)
(* clients, hosts, runs and failures: types, that a completed item was     *)
(* handed over, that a failed one is unknown, and that no item is typed or *)
(* handed over twice.                                                      *)
(***************************************************************************)
EXTENDS FollowUpDelivery, SequenceTheorems, TLAPS

----------------------------------------------------------------------------
(* Sequences, by their elements.                                           *)

\* Appending adds one element and keeps the others.
LEMMA AppendElements ==
    ASSUME NEW S, NEW s \in Seq(S), NEW e \in S
    PROVE  /\ Append(s, e) \in Seq(S)
           /\ \A i \in DOMAIN Append(s, e) :
                 Append(s, e)[i] = e \/ \E j \in DOMAIN s : Append(s, e)[i] = s[j]
           /\ \A j \in DOMAIN s : \E i \in DOMAIN Append(s, e) : Append(s, e)[i] = s[j]
<1>1. /\ Append(s, e) \in Seq(S) /\ Len(Append(s, e)) = Len(s) + 1
      /\ \A i \in 1..Len(s) : Append(s, e)[i] = s[i]
      /\ Append(s, e)[Len(s) + 1] = e
  BY AppendProperties
<1>2. Len(s) \in Nat /\ DOMAIN s = 1..Len(s) /\ DOMAIN Append(s, e) = 1..(Len(s) + 1)
  BY <1>1, LenProperties
<1> QED BY <1>1, <1>2

\* The tail of a sequence has its elements but the head.
LEMMA TailElements ==
    ASSUME NEW S, NEW s \in Seq(S), s # <<>>
    PROVE  /\ Head(s) \in S /\ Tail(s) \in Seq(S)
           /\ \E j \in DOMAIN s : Head(s) = s[j]
           /\ \A i \in DOMAIN Tail(s) : \E j \in DOMAIN s : Tail(s)[i] = s[j]
           /\ \A j \in DOMAIN s : s[j] = Head(s) \/ \E i \in DOMAIN Tail(s) : Tail(s)[i] = s[j]
<1>1. /\ Head(s) \in S /\ Tail(s) \in Seq(S) /\ Len(Tail(s)) = Len(s) - 1
      /\ \A i \in 1..Len(Tail(s)) : Tail(s)[i] = s[i + 1]
  BY HeadTailProperties
<1>2. Len(s) \in Nat /\ DOMAIN s = 1..Len(s)
  BY LenProperties
<1>3. Len(s) # 0
  BY EmptySeq, <1>2
<1>4. DOMAIN Tail(s) = 1..(Len(s) - 1)
  BY <1>1, LenProperties
<1>5. Head(s) = s[1] /\ 1 \in DOMAIN s
  BY <1>2, <1>3, HeadTailProperties
<1>6. ASSUME NEW i \in DOMAIN Tail(s) PROVE \E j \in DOMAIN s : Tail(s)[i] = s[j]
  <2>1. i + 1 \in DOMAIN s /\ Tail(s)[i] = s[i + 1]
    BY <1>1, <1>2, <1>4
  <2> QED BY <2>1
<1>7. ASSUME NEW j \in DOMAIN s
      PROVE  s[j] = Head(s) \/ \E i \in DOMAIN Tail(s) : Tail(s)[i] = s[j]
  <2>1. CASE j = 1
    BY <2>1, <1>5
  <2>2. CASE j # 1
    <3>1. j - 1 \in DOMAIN Tail(s) /\ Tail(s)[j - 1] = s[j]
      BY <2>2, <1>1, <1>2, <1>4
    <3> QED BY <3>1
  <2> QED BY <2>1, <2>2
<1> QED BY <1>1, <1>5, <1>6, <1>7

----------------------------------------------------------------------------
(* The inductive invariants.                                               *)

\* The client has an item of the queue in hand.
Holds(c) == pc[c] \in {"send", "launch", "run", "wait", "query", "settle"}

Answers == {"accepted", "applied", "error"}

\* The types, part by part, and what makes them inductive: a client that acts on
\* an item has one, one that settles knows how, and every run was launched but one.
QueuePart ==
    /\ queue \in [Items -> {"new", "queued", "claimed", "completed", "failed", "cancelled"}]
    /\ typed \in [Items -> Nat] /\ launched \in [Items -> Nat]
HostPart ==
    /\ host \in Instances \cup {NoHost} /\ ready \in BOOLEAN
    /\ started \in 0..MaxHosts /\ stops \in 0..MaxStops /\ failures \in 0..MaxFailures
    /\ accepted \subseteq Items /\ applied \subseteq Items
    /\ torn \in BOOLEAN /\ unreadable \subseteq Items
    /\ writing \in Request \cup {Idle} /\ wire \subseteq Request
AckPart ==
    acks \in [Clients -> Seq(Answers)]
ClientPart ==
    /\ pc \in [Clients -> {"idle", "claim", "send", "launch", "run", "wait", "query",
                           "settle", "dead"}]
    /\ item \in [Clients -> Items \cup {0}]
    /\ target \in [Clients -> Instances \cup {NoHost}]
    /\ heard \in [Clients -> BOOLEAN]
    /\ verdict \in [Clients -> {"none", "ok", "ambiguous", "retry"}]
    /\ crashes \in 0..MaxCrashes
    /\ \A c \in Clients : /\ Holds(c) => item[c] \in Items
                          /\ pc[c] = "settle" => verdict[c] # "none"
RunPart ==
    /\ runs \in 0..MaxRuns + 1 /\ launches \in 0..MaxRuns /\ drains \in BOOLEAN
    /\ runs <= launches + 1
Typed == QueuePart /\ HostPart /\ AckPart /\ ClientPart /\ RunPart

\* An applied record, and everything that says an item was applied, comes after
\* the item was typed; a client that did not send has no answer to read.
Says(c, answer) == \E n \in DOMAIN acks[c] : acks[c][n] = answer
Handed(i) == typed[i] + launched[i] >= 1

ClientIsTold(c) ==
    /\ pc[c] \in {"idle", "claim", "send", "launch", "run"} => acks[c] = <<>>
    /\ Says(c, "applied") => item[c] \in Items /\ typed[item[c]] >= 1
    /\ pc[c] = "settle" /\ verdict[c] = "ok" => Handed(item[c])

HandedInvariant ==
    /\ \A i \in applied : typed[i] >= 1
    /\ \A c \in Clients : ClientIsTold(c)
    /\ CompletedWasHanded

\* A record is only lost to a host that starts after two others stopped: one
\* tore the journal, and the next appended to the half line.
JournalInvariant ==
    /\ host # NoHost => started >= 1
    /\ torn => /\ DiskTears /\ started >= 1 /\ stops >= 1
               /\ host # NoHost => started >= 2
    /\ unreadable # {} => /\ DiskTears /\ started >= 2 /\ stops >= 1
                          /\ host = NoHost => stops >= 2

\* Every accepted record stays readable.
Kept == ~DiskTears \/ MaxHosts <= 2 \/ stops <= 1

\* As long as it does, an item in the host's hands or typed is in the journal.
OnceInvariant ==
    Kept => \A i \in Items :
        /\ typed[i] <= 1
        /\ writing.item = i => typed[i] = 0
        /\ writing.item = i \/ typed[i] >= 1 => i \in accepted

\* An item that is accepted, not applied and not in the host's hands stays so.
Unknown(i) == i \in accepted \ applied /\ writing.item # i
FailedInvariant ==
    Kept => /\ \A i \in Items : queue[i] = "failed" => Unknown(i)
            /\ \A c \in Clients :
                  pc[c] = "settle" /\ verdict[c] = "ambiguous" => Unknown(item[c])

\* While no host stopped and no run was launched: before the first host, every item
\* in hand is claimed by one client and was sent to nobody; after it, an item
\* that a host was launched with is in the hands of nobody who could send it.
Undelivered ==
    /\ accepted = {} /\ wire = {} /\ writing = Idle
    /\ \A i \in Items : typed[i] = 0 /\ launched[i] = 0
    /\ \A c \in Clients :
          /\ pc[c] \notin {"send", "wait", "query"} /\ target[c] = NoHost
          /\ pc[c] = "settle" => verdict[c] = "retry"
          /\ Holds(c) => queue[item[c]] = "claimed"
          /\ \A d \in Clients : Holds(c) /\ Holds(d) /\ item[c] = item[d] => c = d

OnlyLaunched(i) ==
    /\ launched[i] = 1 /\ typed[i] = 0 /\ i \notin accepted
    /\ queue[i] \in {"claimed", "completed"}
    /\ \A request \in wire : request.item # i
    /\ \A c \in Clients : Holds(c) /\ item[c] = i => pc[c] = "settle" /\ verdict[c] = "ok"

FirstHostInvariant ==
    stops = 0 /\ launches = 0 =>
        /\ host = NoHost => Undelivered
        /\ \A i \in Items : launched[i] = 0 \/ OnlyLaunched(i)

----------------------------------------------------------------------------
(* Types.                                                                  *)

\* What the queue, a client and a request are made of.
LEMMA PartFacts ==
    ASSUME TypeOK
    PROVE  /\ Idle \notin Request /\ Idle.item \notin Items
           /\ Replies \subseteq Clients /\ Dashboards \subseteq Drains
           /\ Runners \subseteq Drains /\ Drains \subseteq Clients
           /\ wire \subseteq Request
           /\ \A request \in Request : request.client \in Clients /\ request.item \in Items
<1>1. Idle.item = 0 /\ 0 \notin Items
  BY DEF Idle, Items
<1> QED BY <1>1 DEF Request, Clients, Drains, TypeOK

\* An answer is appended for the client that sent the request and still waits.
LEMMA TellFacts ==
    ASSUME TypeOK, NEW request \in Request, NEW answer \in Answers, Tell(request, answer)
    PROVE  /\ acks' \in [Clients -> Seq(Answers)]
           /\ \A c \in Clients :
                 acks'[c] = acks[c]
                 \/ /\ c = request.client /\ Awaiting(c) /\ item[c] = request.item
                    /\ acks'[c] = Append(acks[c], answer)
<1>1. /\ acks \in [Clients -> Seq(Answers)] /\ request.client \in Clients
  BY PartFacts DEF TypeOK, Answers
<1>2. Append(acks[request.client], answer) \in Seq(Answers)
  BY <1>1, AppendElements
<1>3. acks' = [acks EXCEPT ![request.client] =
                  IF Awaiting(request.client) /\ item[request.client] = request.item
                  THEN Append(acks[request.client], answer) ELSE acks[request.client]]
  BY DEF Tell
<1> QED BY <1>1, <1>2, <1>3

\* Bringing up a host keeps the host's types.
LEMMA BringUpFacts ==
    ASSUME HostPart, BringUpHost
    PROVE  /\ host' \in Instances /\ ready' = FALSE /\ host' = started + 1
           /\ started < MaxHosts /\ started' = started + 1 /\ started' \in 0..MaxHosts
           /\ accepted' = accepted \ unreadable /\ unreadable' = {}
BY DeliveryAssumption DEF HostPart, BringUpHost, Instances

LEMMA TypedFacts == Typed => TypeOK
BY DEF Typed, TypeOK, QueuePart, HostPart, AckPart, ClientPart, RunPart, Answers

LEMMA InitTyped == Init => Typed
<1> SUFFICES ASSUME Init PROVE Typed
  OBVIOUS
<1>1. QueuePart /\ AckPart /\ RunPart
  BY DeliveryAssumption DEF Init, QueuePart, AckPart, RunPart, Answers
<1>2. HostPart
  <2>1. started \in 0..MaxHosts /\ stops \in 0..MaxStops /\ failures \in 0..MaxFailures
    BY DeliveryAssumption DEF Init
  <2> QED BY <2>1 DEF Init, HostPart
<1>3. ClientPart
  BY DeliveryAssumption DEF Init, ClientPart, Holds
<1> QED BY <1>1, <1>2, <1>3 DEF Typed

\* The types are inductive, with the bounds that make them so.
LEMMA TypedStep == Typed /\ [Next]_vars => Typed'
<1> SUFFICES ASSUME Typed, [Next]_vars PROVE Typed'
  OBVIOUS
<1>p. TypeOK /\ QueuePart /\ HostPart /\ AckPart /\ ClientPart /\ RunPart
  BY TypedFacts DEF Typed
<1>h. \A c \in Clients : /\ Holds(c) => item[c] \in Items
                         /\ pc[c] = "settle" => verdict[c] \in {"ok", "ambiguous", "retry"}
  BY <1>p DEF ClientPart
<1>s. SUFFICES QueuePart' /\ HostPart' /\ AckPart' /\ ClientPart' /\ RunPart'
  BY DEF Typed
<1>1. ASSUME Enqueue \/ RemoveLastFollowUp \/ ClearQueuedFollowUps
      PROVE  QueuePart' /\ HostPart' /\ AckPart' /\ ClientPart' /\ RunPart'
  <2>1. QueuePart'
    BY <1>1, <1>p, PartFacts, DeliveryAssumption
    DEF Enqueue, RemoveLastFollowUp, ClearQueuedFollowUps, QueuePart, Mark, hostVars,
        diskVars, clientVars, runVars, history
  <2>2. UNCHANGED <<host, ready, started, accepted, applied, torn, unreadable, writing,
                    wire, stops, failures, acks, pc, item, target, heard, verdict,
                    crashes, runs, launches, drains>>
    BY <1>1
    DEF Enqueue, RemoveLastFollowUp, ClearQueuedFollowUps, hostVars, diskVars,
        clientVars, runVars, history
  <2> QED BY <2>1, <2>2, <1>p DEF HostPart, AckPart, ClientPart, RunPart, Holds
<1>2. ASSUME NEW c \in Replies, Reply(c)
      PROVE  QueuePart' /\ HostPart' /\ AckPart' /\ ClientPart' /\ RunPart'
  <2>1. QueuePart'
    BY <1>2, <1>p, PartFacts, DeliveryAssumption
    DEF Reply, QueuePart, Mark, Unused, Queued, IsFirst, IsLast, hostVars, diskVars,
        clientVars, runVars, history
  <2>2. ClientPart'
    BY <1>2, <1>p, PartFacts, DeliveryAssumption
    DEF Reply, ClientPart, HostPart, Goto, Conclude, Holds, hostVars, diskVars,
        clientVars, runVars, history
  <2>3. UNCHANGED <<host, ready, started, accepted, applied, torn, unreadable, writing,
                    wire, stops, failures, acks, runs, launches, drains>>
    BY <1>2 DEF Reply, hostVars, diskVars, clientVars, runVars, history
  <2> QED BY <2>1, <2>2, <2>3, <1>p DEF HostPart, AckPart, RunPart
<1>3. ASSUME NEW c \in Dashboards, Look(c)
      PROVE  QueuePart' /\ HostPart' /\ AckPart' /\ ClientPart' /\ RunPart'
  <2>1. ClientPart'
    BY <1>3, <1>p, PartFacts, DeliveryAssumption
    DEF Look, ClientPart, HostPart, Goto, Conclude, Holds, hostVars, diskVars,
        clientVars, runVars, history
  <2>2. UNCHANGED <<queue, typed, launched, host, ready, started, accepted, applied,
                    torn, unreadable, writing, wire, stops, failures, acks, runs,
                    launches, drains>>
    BY <1>3 DEF Look, hostVars, diskVars, clientVars, runVars, history
  <2> QED BY <2>1, <2>2, <1>p DEF QueuePart, HostPart, AckPart, RunPart
<1>4. ASSUME NEW c \in Runners, RunnerExit(c)
      PROVE  QueuePart' /\ HostPart' /\ AckPart' /\ ClientPart' /\ RunPart'
  <2>1. QueuePart'
    BY <1>4, <1>p, PartFacts, DeliveryAssumption
    DEF RunnerExit, QueuePart, Mark, Unused, Queued, IsFirst, IsLast, hostVars,
        diskVars, clientVars, runVars, history
  <2>2. ClientPart'
    BY <1>4, <1>p, PartFacts, DeliveryAssumption
    DEF RunnerExit, ClientPart, Goto, Conclude, Holds, hostVars, diskVars, clientVars,
        runVars, history
  <2>3. RunPart'
    BY <1>4, <1>p, PartFacts, DeliveryAssumption
    DEF RunnerExit, RunPart, hostVars, diskVars, clientVars, runVars, history
  <2>4. UNCHANGED <<host, ready, started, accepted, applied, torn, unreadable, writing,
                    wire, stops, failures, acks>>
    BY <1>4 DEF RunnerExit, hostVars, diskVars, clientVars, runVars, history
  <2> QED BY <2>1, <2>2, <2>3, <2>4, <1>p DEF HostPart, AckPart
<1>5. ASSUME NEW c \in Clients, ClaimNextFollowUp(c)
      PROVE  QueuePart' /\ HostPart' /\ AckPart' /\ ClientPart' /\ RunPart'
  <2>1. QueuePart'
    BY <1>5, <1>p, PartFacts, DeliveryAssumption
    DEF ClaimNextFollowUp, QueuePart, Mark, Unused, Queued, IsFirst, IsLast, hostVars,
        diskVars, clientVars, runVars, history
  <2>2. ClientPart'
    BY <1>5, <1>p, PartFacts, DeliveryAssumption
    DEF ClaimNextFollowUp, ClientPart, Goto, Conclude, Holds, hostVars, diskVars,
        clientVars, runVars, history
  <2>3. UNCHANGED <<host, ready, started, accepted, applied, torn, unreadable, writing,
                    wire, stops, failures, acks, runs, launches, drains>>
    BY <1>5 DEF ClaimNextFollowUp, hostVars, diskVars, clientVars, runVars, history
  <2> QED BY <2>1, <2>2, <2>3, <1>p DEF HostPart, AckPart, RunPart
<1>6. ASSUME NEW c \in Clients, LaunchHost(c)
      PROVE  QueuePart' /\ HostPart' /\ AckPart' /\ ClientPart' /\ RunPart'
  <2>1. QueuePart'
    BY <1>6, <1>p, PartFacts, DeliveryAssumption, <1>h
    DEF LaunchHost, BringUpHost, HandOver, QueuePart, Holds, HandOver, hostVars,
        diskVars, clientVars, runVars, history
  <2>2. HostPart'
    <3>1. UNCHANGED <<stops, applied, torn, failures, writing, wire>>
      BY <1>6 DEF LaunchHost
    <3>2. BringUpHost \/ UNCHANGED <<host, ready, started, accepted, unreadable>>
      BY <1>6 DEF LaunchHost
    <3> QED BY <1>p, <3>1, <3>2, BringUpFacts DEF HostPart
  <2>3. ClientPart'
    BY <1>6, <1>p, PartFacts, DeliveryAssumption
    DEF LaunchHost, BringUpHost, HandOver, ClientPart, Goto, Conclude, Holds, hostVars,
        diskVars, clientVars, runVars, history
  <2>4. UNCHANGED <<acks, runs, launches, drains>>
    BY <1>6
    DEF LaunchHost, BringUpHost, HandOver, hostVars, diskVars, clientVars, runVars,
        history
  <2> QED BY <2>1, <2>2, <2>3, <2>4, <1>p DEF AckPart, RunPart
<1>7. ASSUME NEW c \in Clients, LaunchRun(c)
      PROVE  QueuePart' /\ HostPart' /\ AckPart' /\ ClientPart' /\ RunPart'
  <2>1. QueuePart'
    <3>1. launched' = [launched EXCEPT ![item[c]] = launched[item[c]] + 1]
          /\ UNCHANGED <<queue, typed>>
      BY <1>7 DEF LaunchRun, HandOver
    <3>2. item[c] \in Items
      <4>1. Holds(c)
        BY <1>7 DEF LaunchRun, Holds
      <4> QED BY <1>7, <1>h, <4>1
    <3> QED BY <1>p, <3>1, <3>2 DEF QueuePart
  <2>2. ClientPart'
    BY <1>7, <1>p, PartFacts, DeliveryAssumption
    DEF LaunchRun, HandOver, ClientPart, Goto, Conclude, Holds, hostVars, diskVars,
        clientVars, runVars, history
  <2>3. RunPart'
    BY <1>7, <1>p, PartFacts, DeliveryAssumption
    DEF LaunchRun, HandOver, RunPart, hostVars, diskVars, clientVars, runVars, history
  <2>4. UNCHANGED <<host, ready, started, accepted, applied, torn, unreadable, writing,
                    wire, stops, failures, acks>>
    BY <1>7 DEF LaunchRun, HandOver, hostVars, diskVars, clientVars, runVars, history
  <2> QED BY <2>1, <2>2, <2>3, <2>4, <1>p DEF HostPart, AckPart
<1>8. ASSUME NEW c \in Clients, LaunchFails(c)
      PROVE  QueuePart' /\ HostPart' /\ AckPart' /\ ClientPart' /\ RunPart'
  <2>1. ClientPart'
    BY <1>8, <1>p, PartFacts, DeliveryAssumption
    DEF LaunchFails, ClientPart, Goto, Conclude, Holds, hostVars, diskVars, clientVars,
        runVars, history
  <2>2. UNCHANGED <<queue, typed, launched, host, ready, started, accepted, applied,
                    torn, unreadable, writing, wire, stops, failures, acks, runs,
                    launches, drains>>
    BY <1>8 DEF LaunchFails, hostVars, diskVars, clientVars, runVars, history
  <2> QED BY <2>1, <2>2, <1>p DEF QueuePart, HostPart, AckPart, RunPart
<1>9. ASSUME NEW c \in Clients, Send(c)
      PROVE  QueuePart' /\ HostPart' /\ AckPart' /\ ClientPart' /\ RunPart'
  <2>1. HostPart'
    <3>0. Holds(c)
      BY <1>9 DEF Send, Holds
    <3>1. [client |-> c, item |-> item[c]] \in Request
      BY <1>9, <1>h, <3>0 DEF Request
    <3>2. wire' \subseteq Request
      BY <1>9, <1>p, <3>1 DEF Send, HostPart
    <3>3. UNCHANGED <<host, ready, started, accepted, applied, torn, unreadable,
                      writing, stops, failures>>
      BY <1>9 DEF Send, diskVars
    <3> QED BY <1>p, <3>2, <3>3 DEF HostPart
  <2>2. ClientPart'
    BY <1>9, <1>p, PartFacts, DeliveryAssumption
    DEF Send, ClientPart, Goto, Conclude, Holds, hostVars, diskVars, clientVars,
        runVars, history
  <2>3. UNCHANGED <<queue, typed, launched, acks, runs, launches, drains>>
    BY <1>9 DEF Send, hostVars, diskVars, clientVars, runVars, history
  <2> QED BY <2>1, <2>2, <2>3, <1>p DEF QueuePart, AckPart, RunPart
<1>10. ASSUME NEW c \in Clients, Hear(c)
      PROVE  QueuePart' /\ HostPart' /\ AckPart' /\ ClientPart' /\ RunPart'
  <2>1. AckPart'
    BY <1>10, <1>p, PartFacts, DeliveryAssumption, TailElements
    DEF Hear, AckPart, Answers, hostVars, diskVars, clientVars, runVars, history
  <2>2. ClientPart'
    <3>1. UNCHANGED <<item, target, crashes>> /\ Holds(c)
      BY <1>10 DEF Hear, Awaiting, Holds
    <3>2. Head(acks[c]) \in Answers
      BY <1>10, <1>p, TailElements DEF Hear, AckPart
    <3>3. \/ heard' = [heard EXCEPT ![c] = TRUE] /\ UNCHANGED <<pc, verdict>>
          \/ \E v \in {"ok", "retry"} : Conclude(c, v) /\ UNCHANGED heard
      BY <1>10, <3>2 DEF Hear, Answers
    <3> QED BY <1>p, <3>1, <3>3 DEF ClientPart, Conclude, Goto, Holds
  <2>3. UNCHANGED <<queue, typed, launched, host, ready, started, accepted, applied,
                    torn, unreadable, writing, wire, stops, failures, runs, launches, drains>>
    BY <1>10 DEF Hear, hostVars, diskVars, clientVars, runVars, history
  <2> QED BY <2>1, <2>2, <2>3, <1>p DEF QueuePart, HostPart, RunPart
<1>11. ASSUME NEW c \in Clients, SocketClosed(c) \/ Timeout(c) \/ QueryHost(c) \/ QueryUnavailable(c)
      PROVE  QueuePart' /\ HostPart' /\ AckPart' /\ ClientPart' /\ RunPart'
  <2>1. ClientPart'
    <3>1. UNCHANGED <<item, target, heard, crashes>> /\ Holds(c)
      BY <1>11
      DEF SocketClosed, Timeout, QueryHost, QueryUnavailable, Awaiting, Holds, hostVars
    <3>2. \/ Goto(c, "query") /\ UNCHANGED verdict
          \/ \E v \in {"ambiguous", "retry"} : Conclude(c, v)
      BY <1>11 DEF SocketClosed, Timeout, QueryHost, QueryUnavailable
    <3> QED BY <1>p, <3>1, <3>2 DEF ClientPart, Conclude, Goto, Holds
  <2>2. UNCHANGED <<queue, typed, launched, host, ready, started, accepted, applied,
                    torn, unreadable, writing, wire, stops, failures, acks, runs,
                    launches, drains>>
    BY <1>11
    DEF SocketClosed, Timeout, QueryHost, QueryUnavailable, hostVars, diskVars,
        clientVars, runVars, history
  <2> QED BY <2>1, <2>2, <1>p DEF QueuePart, HostPart, AckPart, RunPart
<1>12. ASSUME NEW c \in Clients, Settle(c)
      PROVE  QueuePart' /\ HostPart' /\ AckPart' /\ ClientPart' /\ RunPart'
  <2>1. QueuePart'
    <3>1. verdict[c] \in {"ok", "ambiguous", "retry"} /\ UNCHANGED <<typed, launched>>
      BY <1>12, <1>h DEF Settle, history
    <3>2. UNCHANGED queue \/ \E s \in {"completed", "failed", "queued"} : Mark(item[c], s)
      BY <1>12, <3>1 DEF Settle
    <3> QED BY <1>p, <3>1, <3>2 DEF QueuePart, Mark
  <2>2. AckPart'
    BY <1>12, <1>p, PartFacts, DeliveryAssumption, TailElements
    DEF Settle, AckPart, Answers, hostVars, diskVars, clientVars, runVars, history
  <2>3. ClientPart'
    BY <1>12, <1>p, PartFacts, DeliveryAssumption
    DEF Settle, ClientPart, Goto, Conclude, Holds, hostVars, diskVars, clientVars,
        runVars, history
  <2>4. UNCHANGED <<host, ready, started, accepted, applied, torn, unreadable, writing,
                    wire, stops, failures, runs, launches, drains>>
    BY <1>12 DEF Settle, hostVars, diskVars, clientVars, runVars, history
  <2> QED BY <2>1, <2>2, <2>3, <2>4, <1>p DEF HostPart, RunPart
<1>13. ASSUME NEW c \in Clients, ClientCrash(c)
      PROVE  QueuePart' /\ HostPart' /\ AckPart' /\ ClientPart' /\ RunPart'
  <2>1. ClientPart'
    BY <1>13, <1>p, PartFacts, DeliveryAssumption
    DEF ClientCrash, ClientPart, Goto, Conclude, Holds, hostVars, diskVars, clientVars,
        runVars, history
  <2>2. UNCHANGED <<queue, typed, launched, host, ready, started, accepted, applied,
                    torn, unreadable, writing, wire, stops, failures, acks, runs,
                    launches, drains>>
    BY <1>13 DEF ClientCrash, hostVars, diskVars, clientVars, runVars, history
  <2> QED BY <2>1, <2>2, <1>p DEF QueuePart, HostPart, AckPart, RunPart
<1>14. ASSUME NEW request \in wire, AnswerKnown(request)
      PROVE  QueuePart' /\ HostPart' /\ AckPart' /\ ClientPart' /\ RunPart'
  <2>1. HostPart'
    BY <1>14, <1>p, PartFacts, DeliveryAssumption
    DEF AnswerKnown, Take, Fail, HostPart, hostVars, diskVars, clientVars, runVars,
        history
  <2>2. AckPart'
    BY <1>14, <1>p, PartFacts, DeliveryAssumption, TellFacts
    DEF AnswerKnown, Take, Fail, AckPart, Answers, hostVars, diskVars, clientVars,
        runVars, history
  <2>3. UNCHANGED <<queue, typed, launched, pc, item, target, heard, verdict, crashes,
                    runs, launches, drains>>
    BY <1>14 DEF AnswerKnown, Take, Fail, hostVars, diskVars, clientVars, runVars, history
  <2> QED BY <2>1, <2>2, <2>3, <1>p DEF QueuePart, ClientPart, RunPart, Holds
<1>15. ASSUME NEW request \in wire, Refuse(request)
      PROVE  QueuePart' /\ HostPart' /\ AckPart' /\ ClientPart' /\ RunPart'
  <2>1. HostPart'
    BY <1>15, <1>p, PartFacts, DeliveryAssumption
    DEF Refuse, Take, Fail, HostPart, hostVars, diskVars, clientVars, runVars, history
  <2>2. AckPart'
    BY <1>15, <1>p, PartFacts, DeliveryAssumption, TellFacts
    DEF Refuse, Take, Fail, AckPart, Answers, hostVars, diskVars, clientVars, runVars,
        history
  <2>3. UNCHANGED <<queue, typed, launched, pc, item, target, heard, verdict, crashes,
                    runs, launches, drains>>
    BY <1>15 DEF Refuse, Take, Fail, hostVars, diskVars, clientVars, runVars, history
  <2> QED BY <2>1, <2>2, <2>3, <1>p DEF QueuePart, ClientPart, RunPart, Holds
<1>16. ASSUME NEW request \in wire, Accept(request)
      PROVE  QueuePart' /\ HostPart' /\ AckPart' /\ ClientPart' /\ RunPart'
  <2>1. HostPart'
    BY <1>16, <1>p, PartFacts, DeliveryAssumption
    DEF Accept, Take, Fail, HostPart, hostVars, diskVars, clientVars, runVars, history
  <2>2. AckPart'
    BY <1>16, <1>p, PartFacts, DeliveryAssumption, TellFacts
    DEF Accept, Take, Fail, AckPart, Answers, hostVars, diskVars, clientVars, runVars,
        history
  <2>3. UNCHANGED <<queue, typed, launched, pc, item, target, heard, verdict, crashes,
                    runs, launches, drains>>
    BY <1>16 DEF Accept, Take, Fail, hostVars, diskVars, clientVars, runVars, history
  <2> QED BY <2>1, <2>2, <2>3, <1>p DEF QueuePart, ClientPart, RunPart, Holds
<1>17. ASSUME Write
      PROVE  QueuePart' /\ HostPart' /\ AckPart' /\ ClientPart' /\ RunPart'
  <2>1. QueuePart'
    BY <1>17, <1>p, PartFacts, DeliveryAssumption
    DEF Write, Fail, QueuePart, HostPart, HandOver, hostVars, diskVars, clientVars,
        runVars, history
  <2>2. HostPart'
    BY <1>17, <1>p, PartFacts, DeliveryAssumption
    DEF Write, Fail, HostPart, hostVars, diskVars, clientVars, runVars, history
  <2>3. AckPart'
    <3>1. writing \in Request /\ Tell(writing, "applied")
      BY <1>17, <1>p DEF Write, HostPart
    <3> QED BY <1>p, <3>1, TellFacts DEF AckPart, Answers
  <2>4. UNCHANGED <<pc, item, target, heard, verdict, crashes, runs, launches, drains>>
    BY <1>17 DEF Write, Fail, hostVars, diskVars, clientVars, runVars, history
  <2> QED BY <2>1, <2>2, <2>3, <2>4, <1>p DEF ClientPart, RunPart, Holds
<1>18. ASSUME WriteFails
      PROVE  QueuePart' /\ HostPart' /\ AckPart' /\ ClientPart' /\ RunPart'
  <2>1. HostPart'
    BY <1>18, <1>p, PartFacts, DeliveryAssumption
    DEF WriteFails, HostPart, hostVars, diskVars, clientVars, runVars, history
  <2>2. UNCHANGED <<queue, typed, launched, acks, pc, item, target, heard, verdict,
                    crashes, runs, launches, drains>>
    BY <1>18 DEF WriteFails, hostVars, diskVars, clientVars, runVars, history
  <2> QED BY <2>1, <2>2, <1>p DEF QueuePart, AckPart, ClientPart, RunPart, Holds
<1>19. ASSUME StartHost
      PROVE  QueuePart' /\ HostPart' /\ AckPart' /\ ClientPart' /\ RunPart'
  <2>1. HostPart'
    <3>1. BringUpHost /\ UNCHANGED <<stops, applied, torn, failures, writing, wire>>
      BY <1>19 DEF StartHost
    <3> QED BY <1>p, <3>1, BringUpFacts DEF HostPart
  <2>2. UNCHANGED <<queue, typed, launched, acks, pc, item, target, heard, verdict,
                    crashes, runs, launches, drains>>
    BY <1>19 DEF StartHost, BringUpHost, hostVars, diskVars, clientVars, runVars, history
  <2> QED BY <2>1, <2>2, <1>p DEF QueuePart, AckPart, ClientPart, RunPart, Holds
<1>20. ASSUME ChildReady
      PROVE  QueuePart' /\ HostPart' /\ AckPart' /\ ClientPart' /\ RunPart'
  <2>1. HostPart'
    BY <1>20, <1>p, PartFacts, DeliveryAssumption
    DEF ChildReady, HostPart, hostVars, diskVars, clientVars, runVars, history
  <2>2. UNCHANGED <<queue, typed, launched, acks, pc, item, target, heard, verdict,
                    crashes, runs, launches, drains>>
    BY <1>20 DEF ChildReady, hostVars, diskVars, clientVars, runVars, history
  <2> QED BY <2>1, <2>2, <1>p DEF QueuePart, AckPart, ClientPart, RunPart, Holds
<1>21. ASSUME HostStops
      PROVE  QueuePart' /\ HostPart' /\ AckPart' /\ ClientPart' /\ RunPart'
  <2>1. QueuePart'
    <3>1. \/ UNCHANGED typed
          \/ /\ writing # Idle
             /\ typed' = [typed EXCEPT ![writing.item] = typed[writing.item] + 1]
      BY <1>21 DEF HostStops
    <3>2. UNCHANGED <<queue, launched>>
      BY <1>21 DEF HostStops
    <3>3. writing # Idle => writing.item \in Items
      BY <1>p, PartFacts DEF HostPart
    <3> QED BY <1>p, <3>1, <3>2, <3>3 DEF QueuePart
  <2>2. HostPart'
    <3>1. /\ UNCHANGED <<started, accepted, applied, unreadable, failures>>
          /\ host' = NoHost /\ ready' = FALSE /\ writing' = Idle /\ wire' = {}
          /\ stops < MaxStops /\ stops' = stops + 1
      BY <1>21 DEF HostStops
    <3>2. torn' = torn \/ torn' = TRUE
      BY <1>21 DEF HostStops
    <3>3. torn' \in BOOLEAN
      BY <1>p, <3>2 DEF HostPart
    <3>4. stops' \in 0..MaxStops
      BY <1>p, <3>1, DeliveryAssumption DEF HostPart
    <3> QED BY <1>p, <3>1, <3>3, <3>4 DEF HostPart
  <2>3. AckPart'
    <3>1. acks' = acks \/ acks' = [d \in Clients |-> <<>>]
      BY <1>21 DEF HostStops
    <3> QED BY <1>p, <3>1, EmptySeq DEF AckPart
  <2>4. UNCHANGED <<pc, item, target, heard, verdict, crashes, runs, launches, drains>>
    BY <1>21 DEF HostStops, hostVars, diskVars, clientVars, runVars, history
  <2> QED BY <2>1, <2>2, <2>3, <2>4, <1>p DEF ClientPart, RunPart, Holds
<1>22. CASE UNCHANGED vars
  BY <1>22, <1>p
  DEF QueuePart, HostPart, AckPart, ClientPart, RunPart, Holds, vars, hostVars,
      diskVars, clientVars, runVars, history
<1>23. CASE RowChanges
  <2>1. drains' \in BOOLEAN
    BY <1>23 DEF RowChanges
  <2>2. UNCHANGED <<queue, typed, launched, host, ready, started, accepted, applied,
                    torn, unreadable, writing, wire, stops, failures, acks, pc, item,
                    target, heard, verdict, crashes, runs, launches>>
    BY <1>23 DEF RowChanges, hostVars, diskVars, clientVars, history
  <2> QED BY <2>1, <2>2, <1>p DEF QueuePart, HostPart, AckPart, ClientPart, RunPart, Holds
<1> QED
  BY <1>1, <1>2, <1>3, <1>4, <1>5, <1>6, <1>7, <1>8, <1>9, <1>10, <1>11, <1>12, <1>13,
     <1>14, <1>15, <1>16, <1>17, <1>18, <1>19, <1>20, <1>21, <1>22, <1>23
  DEF Next, User, Deliver, Serve, Answer

THEOREM TypeCorrect == Spec => []TypeOK
<1>1. Typed => TypeOK
  BY TypedFacts
<1> QED BY <1>1, InitTyped, TypedStep, PTL DEF Spec

\* What a client has in hand, and what is counted.
LEMMA HandFacts ==
    ASSUME Typed, NEW c \in Clients
    PROVE  /\ Holds(c) => item[c] \in Items
           /\ pc[c] = "settle" => verdict[c] \in {"ok", "ambiguous", "retry"}
BY DEF Typed, ClientPart

LEMMA CountFacts ==
    ASSUME Typed
    PROVE  /\ \A i \in Items : typed[i] \in Nat /\ launched[i] \in Nat
           /\ writing # Idle => writing \in Request /\ writing.item \in Items
BY TypedFacts, PartFacts DEF Typed, QueuePart, HostPart

----------------------------------------------------------------------------
(* Steps that hand an item over.                                           *)

\* The two ways an item is counted.
Handing(c) ==
    /\ LaunchHost(c) \/ LaunchRun(c)
    /\ Holds(c) /\ launched' = [launched EXCEPT ![item[c]] = @ + 1] /\ UNCHANGED typed
Typing ==
    /\ writing # Idle
    /\ typed' = [typed EXCEPT ![writing.item] = @ + 1] /\ UNCHANGED launched

LEMMA CountStep ==
    ASSUME [Next]_vars
    PROVE  UNCHANGED history \/ Typing \/ \E c \in Clients : Handing(c)
<1>1. ASSUME User \/ RowChanges PROVE UNCHANGED history
  BY <1>1 DEF User, RowChanges, Enqueue, RemoveLastFollowUp, ClearQueuedFollowUps, Reply
<1>2. ASSUME NEW c \in Clients, Look(c) \/ RunnerExit(c) \/ ClientCrash(c)
      PROVE  UNCHANGED history
  BY <1>2 DEF Look, RunnerExit, ClientCrash
<1>3. ASSUME NEW c \in Clients, Deliver(c) PROVE UNCHANGED history \/ Handing(c)
  <2>1. CASE LaunchHost(c) \/ LaunchRun(c)
    BY <2>1 DEF LaunchHost, LaunchRun, HandOver, Handing, Holds, history
  <2>2. CASE ClaimNextFollowUp(c) \/ LaunchFails(c) \/ Send(c) \/ Hear(c)
    BY <2>2 DEF ClaimNextFollowUp, LaunchFails, Send, Hear
  <2>3. CASE SocketClosed(c) \/ Timeout(c) \/ QueryHost(c) \/ QueryUnavailable(c) \/ Settle(c)
    BY <2>3 DEF SocketClosed, Timeout, QueryHost, QueryUnavailable, Settle
  <2> QED BY <1>3, <2>1, <2>2, <2>3 DEF Deliver
<1>4. ASSUME NEW request \in wire, Answer(request) PROVE UNCHANGED history
  BY <1>4 DEF Answer, AnswerKnown, Refuse, Accept
<1>5. ASSUME Write \/ WriteFails \/ StartHost \/ ChildReady \/ HostStops
      PROVE  UNCHANGED history \/ Typing
  BY <1>5 DEF Write, WriteFails, StartHost, ChildReady, HostStops, Typing, history
<1>6. ASSUME UNCHANGED vars PROVE UNCHANGED history
  BY <1>6 DEF vars
<1> QED BY <1>1, <1>2, <1>3, <1>4, <1>5, <1>6 DEF Next, Serve, Clients, Drains

\* The counts only grow.
LEMMA CountsGrow ==
    ASSUME Typed, [Next]_vars
    PROVE  \A i \in Items : typed'[i] >= typed[i] /\ launched'[i] >= launched[i]
<1>1. CASE UNCHANGED history
  BY <1>1, CountFacts DEF history
<1>2. CASE Typing
  BY <1>2, CountFacts DEF Typing, Typed, QueuePart
<1>3. ASSUME NEW c \in Clients, Handing(c)
      PROVE  \A i \in Items : typed'[i] >= typed[i] /\ launched'[i] >= launched[i]
  BY <1>3, CountFacts, HandFacts DEF Handing, Typed, QueuePart
<1> QED BY <1>1, <1>2, <1>3, CountStep

----------------------------------------------------------------------------
(* A completed item was handed over.                                       *)

LEMMA InitHanded == Init => HandedInvariant
BY DEF Init, HandedInvariant, ClientIsTold, Says, Handed, CompletedWasHanded

\* An answer that is told keeps what clients are told true, if it is true itself.
LEMMA ToldStep ==
    ASSUME Typed, HandedInvariant, [Next]_vars, UNCHANGED clientVars,
           NEW request \in Request, NEW answer \in Answers, Tell(request, answer),
           answer = "applied" => typed'[request.item] >= 1
    PROVE  \A c \in Clients : ClientIsTold(c)'
<1> SUFFICES ASSUME NEW c \in Clients PROVE ClientIsTold(c)'
  OBVIOUS
<1>1. TypeOK /\ request.item \in Items
  BY TypedFacts, PartFacts
<1>2. \A i \in Items : /\ typed[i] \in Nat /\ launched[i] \in Nat
                      /\ typed'[i] \in Nat /\ launched'[i] \in Nat
                      /\ typed'[i] >= typed[i] /\ launched'[i] >= launched[i]
  BY TypedStep, CountFacts, CountsGrow DEF Typed, QueuePart
<1>3. ClientIsTold(c) /\ (pc[c] = "settle" => item[c] \in Items)
  BY HandFacts DEF HandedInvariant, Holds
<1>4. UNCHANGED <<pc, item, verdict>>
  BY DEF clientVars
<1>5. CASE acks'[c] = acks[c]
  BY <1>2, <1>3, <1>4, <1>5 DEF ClientIsTold, Says, Handed
<1>6. CASE Awaiting(c) /\ item[c] = request.item /\ acks'[c] = Append(acks[c], answer)
  <2>1. \A n \in DOMAIN acks'[c] : acks'[c][n] = answer \/ \E k \in DOMAIN acks[c] : acks'[c][n] = acks[c][k]
    BY <1>6, AppendElements DEF Typed, AckPart
  <2>2. Says(c, "applied")' => Says(c, "applied") \/ answer = "applied"
    BY <2>1 DEF Says
  <2> QED BY <2>2, <1>1, <1>2, <1>3, <1>4, <1>6 DEF ClientIsTold, Awaiting
<1> QED BY <1>1, <1>5, <1>6, TellFacts

\* Only what a client reads or the host tells changes what it has to read.
LEMMA HandedStep == Typed /\ HandedInvariant /\ [Next]_vars => HandedInvariant'
<1> SUFFICES ASSUME Typed, HandedInvariant, [Next]_vars PROVE HandedInvariant'
  OBVIOUS
<1>t. TypeOK
  BY TypedFacts
<1>g. \A i \in Items : typed'[i] >= typed[i] /\ launched'[i] >= launched[i]
  BY CountsGrow
<1>c. \A i \in Items : /\ typed[i] \in Nat /\ launched[i] \in Nat
                      /\ typed'[i] \in Nat /\ launched'[i] \in Nat
  BY TypedStep, CountFacts DEF Typed, QueuePart
<1>1. ASSUME Enqueue \/ RemoveLastFollowUp \/ ClearQueuedFollowUps PROVE HandedInvariant'
  BY <1>1, <1>t, <1>g, <1>c, PartFacts
  DEF Enqueue, RemoveLastFollowUp, ClearQueuedFollowUps, Mark, Unused, Queued, IsLast,
      IsFirst, TypeOK, HandedInvariant, ClientIsTold, Says, Handed, CompletedWasHanded,
      hostVars, diskVars, clientVars, runVars, history
<1>2. ASSUME NEW c \in Replies, Reply(c) PROVE HandedInvariant'
  BY <1>2, <1>t, <1>g, <1>c, PartFacts, PartFacts
  DEF Reply, Mark, Unused, Goto, IsFirst, TypeOK, HandedInvariant, ClientIsTold, Says,
      Handed, CompletedWasHanded, hostVars, diskVars, clientVars, runVars, history
<1>3. ASSUME NEW c \in Dashboards, Look(c) PROVE HandedInvariant'
  BY <1>3, <1>t, <1>g, <1>c, PartFacts, PartFacts
  DEF Look, Goto, TypeOK, HandedInvariant, ClientIsTold, Says, Handed,
      CompletedWasHanded, hostVars, diskVars, clientVars, runVars, history
<1>4. ASSUME NEW c \in Runners, RunnerExit(c) PROVE HandedInvariant'
  <2>1. UNCHANGED <<acks, verdict, applied, history>> /\ pc[c] = "idle"
    BY <1>4 DEF RunnerExit, hostVars
  <2>2. \/ UNCHANGED <<pc, item, queue>>
        \/ \E i \in Items :
              Goto(c, "run") /\ Mark(i, "claimed") /\ item' = [item EXCEPT ![c] = i]
    BY <1>4 DEF RunnerExit
  <2>3. c \in Clients
    BY <1>4, <1>t, PartFacts
  <2>4. pc'[c] \in {"idle", "run"} /\ \A d \in Clients : d # c => pc'[d] = pc[d] /\ item'[d] = item[d]
    BY <2>1, <2>2, <2>3, <1>t DEF TypeOK, Goto
  <2>5. \A i \in Items : queue'[i] = "completed" => queue[i] = "completed"
    BY <2>2, <1>t DEF TypeOK, Mark
  <2>6. \A d \in Clients : ClientIsTold(d)'
    BY <2>1, <2>3, <2>4 DEF HandedInvariant, ClientIsTold, Says, Handed, history
  <2> QED BY <2>1, <2>5, <2>6 DEF HandedInvariant, CompletedWasHanded, Handed, history
<1>5. ASSUME NEW c \in Clients, ClaimNextFollowUp(c) PROVE HandedInvariant'
  BY <1>5, <1>t, <1>g, <1>c, PartFacts
  DEF ClaimNextFollowUp, Goto, Mark, TypeOK, HandedInvariant, ClientIsTold, Says,
      Handed, CompletedWasHanded, hostVars, diskVars, clientVars, runVars, history
<1>6. ASSUME NEW c \in Clients, LaunchHost(c) PROVE HandedInvariant'
  <2>1. UNCHANGED <<acks, item, applied, queue, typed>> /\ Holds(c) /\ pc[c] \in
                    {"launch", "run"}
    BY <1>6 DEF LaunchHost, Holds, hostVars
  <2>2. Conclude(c, "retry") \/ (Conclude(c, "ok") /\ launched' = [launched EXCEPT ![item[c]] = @ + 1])
    BY <1>6 DEF LaunchHost, HandOver
  <2>3. item[c] \in Items
    BY <1>6, <2>1, HandFacts
  <2>4. Conclude(c, "ok") => Handed(item[c])'
    BY <2>1, <2>2, <2>3, <1>t, <1>c DEF TypeOK, Conclude, Handed
  <2>5. ASSUME NEW d \in Clients PROVE ClientIsTold(d)'
    <3>1. CASE d = c
      BY <3>1, <2>1, <2>2, <2>4, <1>t
      DEF TypeOK, HandedInvariant, ClientIsTold, Says, Conclude, Goto
    <3>2. CASE d # c
      <4>1. pc'[d] = pc[d] /\ verdict'[d] = verdict[d]
        BY <3>2, <2>2, <1>t DEF TypeOK, Conclude, Goto
      <4>2. ClientIsTold(d) /\ (pc[d] = "settle" => item[d] \in Items)
        BY HandFacts DEF HandedInvariant, Holds
      <4> QED BY <4>1, <4>2, <2>1, <1>g, <1>c DEF ClientIsTold, Says, Handed
    <3> QED BY <3>1, <3>2
  <2> QED BY <2>1, <2>5, <1>g, <1>c, <1>t DEF TypeOK, HandedInvariant, CompletedWasHanded, Handed
<1>7. ASSUME NEW c \in Clients, LaunchRun(c) PROVE HandedInvariant'
  <2>1. UNCHANGED <<acks, item, applied, queue, typed>> /\ Holds(c) /\ pc[c] \in
                    {"launch", "run"}
    BY <1>7 DEF LaunchRun, Holds, hostVars
  <2>2. Conclude(c, "retry") \/ (Conclude(c, "ok") /\ launched' = [launched EXCEPT ![item[c]] = @ + 1])
    BY <1>7 DEF LaunchRun, HandOver
  <2>3. item[c] \in Items
    BY <1>7, <2>1, HandFacts
  <2>4. Conclude(c, "ok") => Handed(item[c])'
    BY <2>1, <2>2, <2>3, <1>t, <1>c DEF TypeOK, Conclude, Handed
  <2>5. ASSUME NEW d \in Clients PROVE ClientIsTold(d)'
    <3>1. CASE d = c
      BY <3>1, <2>1, <2>2, <2>4, <1>t
      DEF TypeOK, HandedInvariant, ClientIsTold, Says, Conclude, Goto
    <3>2. CASE d # c
      <4>1. pc'[d] = pc[d] /\ verdict'[d] = verdict[d]
        BY <3>2, <2>2, <1>t DEF TypeOK, Conclude, Goto
      <4>2. ClientIsTold(d) /\ (pc[d] = "settle" => item[d] \in Items)
        BY HandFacts DEF HandedInvariant, Holds
      <4> QED BY <4>1, <4>2, <2>1, <1>g, <1>c DEF ClientIsTold, Says, Handed
    <3> QED BY <3>1, <3>2
  <2> QED BY <2>1, <2>5, <1>g, <1>c, <1>t DEF TypeOK, HandedInvariant, CompletedWasHanded, Handed
<1>8. ASSUME NEW c \in Clients, LaunchFails(c) PROVE HandedInvariant'
  BY <1>8, <1>t, <1>g, <1>c, PartFacts
  DEF LaunchFails, Conclude, Goto, TypeOK, HandedInvariant, ClientIsTold, Says, Handed,
      CompletedWasHanded, hostVars, diskVars, clientVars, runVars, history
<1>9. ASSUME NEW c \in Clients, Send(c) PROVE HandedInvariant'
  BY <1>9, <1>t, <1>g, <1>c, PartFacts
  DEF Send, Conclude, Goto, TypeOK, HandedInvariant, ClientIsTold, Says, Handed,
      CompletedWasHanded, hostVars, diskVars, clientVars, runVars, history
<1>10. ASSUME NEW c \in Clients, Hear(c) PROVE HandedInvariant'
  BY <1>10, <1>t, <1>g, <1>c, TailElements, PartFacts
  DEF Hear, Conclude, Goto, Awaiting, TypeOK, HandedInvariant, ClientIsTold, Says,
      Handed, CompletedWasHanded, hostVars, diskVars, clientVars, runVars, history
<1>11. ASSUME NEW c \in Clients, SocketClosed(c) \/ Timeout(c) \/ QueryHost(c) \/
              QueryUnavailable(c)
       PROVE  HandedInvariant'
  <2>1. UNCHANGED <<acks, item, applied, queue, typed, launched>> /\ Awaiting(c)
    BY <1>11
    DEF SocketClosed, Timeout, QueryHost, QueryUnavailable, Awaiting, hostVars, history
  <2>2. \/ Goto(c, "query") /\ UNCHANGED verdict
        \/ \E v \in {"ambiguous", "retry"} : Conclude(c, v)
    BY <1>11 DEF SocketClosed, Timeout, QueryHost, QueryUnavailable
  <2> QED BY <2>1, <2>2, <1>t DEF TypeOK, Goto, Conclude, Awaiting, HandedInvariant, ClientIsTold,
             Says, Handed, CompletedWasHanded
<1>12. ASSUME NEW c \in Clients, Settle(c) PROVE HandedInvariant'
  BY <1>12, <1>t, <1>g, <1>c, PartFacts
  DEF Settle, Goto, Mark, TypeOK, HandedInvariant, ClientIsTold, Says, Handed,
      CompletedWasHanded, hostVars, diskVars, clientVars, runVars, history
<1>13. ASSUME NEW c \in Clients, ClientCrash(c) PROVE HandedInvariant'
  BY <1>13, <1>t, <1>g, <1>c, PartFacts
  DEF ClientCrash, Goto, TypeOK, HandedInvariant, ClientIsTold, Says, Handed,
      CompletedWasHanded, hostVars, diskVars, clientVars, runVars, history
<1>14. ASSUME NEW request \in wire, AnswerKnown(request) \/ Refuse(request) \/
              Accept(request)
       PROVE  HandedInvariant'
  <2>1. PICK answer \in Answers :
           Tell(request, answer) /\ (answer = "applied" => request.item \in applied)
    BY <1>14 DEF AnswerKnown, Refuse, Accept, Answers
  <2>2. UNCHANGED <<clientVars, applied, queue, history>>
    BY <1>14 DEF AnswerKnown, Refuse, Accept
  <2>3. request \in Request /\ (answer = "applied" => typed'[request.item] >= 1)
    BY <1>14, <1>t, <2>1, <2>2, PartFacts DEF HandedInvariant, history
  <2>4. \A d \in Clients : ClientIsTold(d)'
    BY <2>1, <2>2, <2>3, ToldStep
  <2> QED BY <2>2, <2>4 DEF HandedInvariant, CompletedWasHanded, Handed, history
<1>15. ASSUME Write PROVE HandedInvariant'
  <2>1. writing \in Request /\ writing.item \in Items /\ Tell(writing, "applied")
    BY <1>15, CountFacts DEF Write
  <2>2. UNCHANGED <<clientVars, queue, launched>> /\ applied' \subseteq applied \cup
                    {writing.item}
    BY <1>15 DEF Write
  <2>3. typed'[writing.item] >= 1
    BY <1>15, <1>t, <1>c, <2>1 DEF Write, TypeOK
  <2>4. \A d \in Clients : ClientIsTold(d)'
    BY <2>1, <2>2, <2>3, ToldStep DEF Answers
  <2>5. \A i \in applied' : typed'[i] >= 1
    BY <2>1, <2>2, <2>3, <1>g, <1>c, <1>t DEF TypeOK, HandedInvariant
  <2>6. CompletedWasHanded'
    BY <2>2, <1>g, <1>c DEF HandedInvariant, CompletedWasHanded, Handed
  <2> QED BY <2>4, <2>5, <2>6 DEF HandedInvariant
<1>16. ASSUME WriteFails \/ ChildReady PROVE HandedInvariant'
  BY <1>16, <1>t, <1>g, <1>c, PartFacts
  DEF WriteFails, ChildReady, TypeOK, HandedInvariant, ClientIsTold, Says, Handed,
      CompletedWasHanded, hostVars, diskVars, clientVars, runVars, history
<1>17. ASSUME StartHost PROVE HandedInvariant'
  BY <1>17, <1>t, <1>g, <1>c, PartFacts
  DEF StartHost, BringUpHost, TypeOK, HandedInvariant, ClientIsTold, Says, Handed,
      CompletedWasHanded, hostVars, diskVars, clientVars, runVars, history
<1>18. ASSUME HostStops PROVE HandedInvariant'
  <2>1. UNCHANGED <<clientVars, queue, applied>>
    BY <1>18 DEF HostStops
  <2>2. acks' = acks \/ acks' = [d \in Clients |-> <<>>]
    BY <1>18 DEF HostStops
  <2>3. ASSUME NEW d \in Clients PROVE ClientIsTold(d)'
    <3>1. acks'[d] = acks[d] \/ (acks'[d] = <<>> /\ ~Says(d, "applied")')
      BY <2>2 DEF Says
    <3>2. ClientIsTold(d) /\ (pc[d] = "settle" => item[d] \in Items)
      BY HandFacts DEF HandedInvariant, Holds
    <3> QED BY <2>1, <3>1, <3>2, <1>g, <1>c DEF clientVars, ClientIsTold, Says, Handed
  <2> QED BY <2>1, <2>3, <1>g, <1>c, <1>t DEF TypeOK, HandedInvariant, CompletedWasHanded, Handed
<1>19. CASE UNCHANGED vars \/ RowChanges
  BY <1>19
  DEF vars, RowChanges, HandedInvariant, ClientIsTold, Says, Handed, CompletedWasHanded,
      hostVars, diskVars, clientVars, runVars, history
<1> QED
  BY <1>1, <1>2, <1>3, <1>4, <1>5, <1>6, <1>7, <1>8, <1>9, <1>10, <1>11, <1>12, <1>13,
     <1>14, <1>15, <1>16, <1>17, <1>18, <1>19
  DEF Next, User, Deliver, Serve, Answer, Clients, Drains

\* A completed item reached an agent.
THEOREM CompletedHanded == Spec => []CompletedWasHanded
<1>1. Init => Typed /\ HandedInvariant
  BY InitTyped, InitHanded
<1>2. Typed /\ HandedInvariant /\ [Next]_vars => (Typed /\ HandedInvariant)'
  BY TypedStep, HandedStep
<1>3. HandedInvariant => CompletedWasHanded
  BY DEF HandedInvariant
<1> QED BY <1>1, <1>2, <1>3, PTL DEF Spec

----------------------------------------------------------------------------
(* No item is typed twice.                                                 *)

\* Everything a host and its journal remember of the items.
Shelf == <<host, started, stops, torn, unreadable, accepted, applied, writing, typed>>

\* A host comes up only where none is.
ComesUp == /\ host = NoHost /\ BringUpHost
           /\ UNCHANGED <<stops, torn, applied, writing, typed>>

LEMMA ShelfStep ==
    ASSUME [Next]_vars
    PROVE  \/ UNCHANGED Shelf \/ ComesUp \/ Write \/ WriteFails \/ HostStops
           \/ \E request \in wire : Accept(request)
<1> USE DEF Shelf, hostVars, diskVars, history
<1>1. ASSUME User \/ RowChanges PROVE UNCHANGED Shelf
  BY <1>1 DEF User, RowChanges, Enqueue, RemoveLastFollowUp, ClearQueuedFollowUps, Reply
<1>2. ASSUME NEW c \in Clients, Look(c) \/ RunnerExit(c) \/ ClientCrash(c)
      PROVE  UNCHANGED Shelf
  BY <1>2 DEF Look, RunnerExit, ClientCrash
<1>3. ASSUME NEW c \in Clients, Deliver(c) PROVE UNCHANGED Shelf \/ ComesUp
  <2>1. CASE LaunchHost(c)
    BY <2>1 DEF LaunchHost, ComesUp
  <2>2. CASE ClaimNextFollowUp(c) \/ LaunchRun(c) \/ LaunchFails(c) \/ Send(c) \/ Hear(c)
    BY <2>2 DEF ClaimNextFollowUp, LaunchRun, LaunchFails, Send, Hear
  <2>3. CASE SocketClosed(c) \/ Timeout(c) \/ QueryHost(c) \/ QueryUnavailable(c) \/ Settle(c)
    BY <2>3 DEF SocketClosed, Timeout, QueryHost, QueryUnavailable, Settle
  <2> QED BY <1>3, <2>1, <2>2, <2>3 DEF Deliver
<1>4. ASSUME NEW request \in wire, AnswerKnown(request) \/ Refuse(request)
      PROVE  UNCHANGED Shelf
  BY <1>4 DEF AnswerKnown, Refuse
<1>5. ASSUME StartHost \/ ChildReady PROVE UNCHANGED Shelf \/ ComesUp
  BY <1>5 DEF StartHost, ChildReady, ComesUp
<1>6. ASSUME UNCHANGED vars PROVE UNCHANGED Shelf
  BY <1>6 DEF vars
<1> QED BY <1>1, <1>2, <1>3, <1>4, <1>5, <1>6 DEF Next, Serve, Answer, Clients, Drains

LEMMA JournalStep == Typed /\ JournalInvariant /\ [Next]_vars => JournalInvariant'
<1> SUFFICES ASSUME Typed, JournalInvariant, [Next]_vars PROVE JournalInvariant'
  OBVIOUS
<1>t. /\ host \in Instances \cup {NoHost} /\ started \in Nat /\ stops \in Nat /\ NoHost \notin Instances
      /\ HostPart
  BY DeliveryAssumption DEF Typed, HostPart
<1>1. CASE UNCHANGED Shelf
  BY <1>1 DEF Shelf, JournalInvariant
<1>2. CASE ComesUp
  BY <1>2, <1>t, BringUpFacts DEF ComesUp, JournalInvariant
<1>3. CASE Write \/ WriteFails
  BY <1>3 DEF Write, WriteFails, JournalInvariant, diskVars
<1>4. CASE HostStops
  BY <1>4, <1>t DEF HostStops, JournalInvariant
<1>5. ASSUME NEW request \in wire, Accept(request) PROVE JournalInvariant'
  BY <1>5, <1>t DEF Accept, Take, JournalInvariant
<1> QED BY <1>1, <1>2, <1>3, <1>4, <1>5, ShelfStep

\* Whatever is still readable after a step was so before it; a host that starts
\* then finds every record.
LEMMA KeptStep ==
    ASSUME Typed, JournalInvariant, [Next]_vars, Kept'
    PROVE  Kept /\ (ComesUp => accepted' = accepted)
<1>t. stops \in Nat /\ started \in Nat /\ HostPart
  BY DeliveryAssumption DEF Typed, HostPart
<1>1. stops' >= stops
  <2>1. ASSUME UNCHANGED Shelf \/ ComesUp \/ Write \/ WriteFails PROVE stops' = stops
    BY <2>1 DEF Shelf, ComesUp, Write, WriteFails
  <2>2. ASSUME NEW request \in wire, Accept(request) PROVE stops' = stops
    BY <2>2 DEF Accept
  <2>3. HostStops => stops' = stops + 1
    BY DEF HostStops
  <2> QED BY <1>t, <2>1, <2>2, <2>3, ShelfStep
<1>2. stops' \in Nat
  BY TypedStep DEF Typed, HostPart
<1>3. Kept
  BY <1>t, <1>1, <1>2 DEF Kept
<1>4. ASSUME ComesUp PROVE accepted' = accepted
  <2>1. unreadable = {}
    BY <1>t, <1>3, <1>4, BringUpFacts, DeliveryAssumption
    DEF Kept, ComesUp, JournalInvariant
  <2> QED BY <1>4, <2>1 DEF ComesUp, BringUpHost
<1> QED BY <1>3, <1>4

\* The host types only what it took in hand, and takes in hand only what no
\* journal record names.
LEMMA OnceStep ==
    Typed /\ JournalInvariant /\ OnceInvariant /\ [Next]_vars => OnceInvariant'
<1> SUFFICES ASSUME Typed, JournalInvariant, OnceInvariant, [Next]_vars, Kept',
                    NEW i \in Items
             PROVE  /\ typed'[i] <= 1
                    /\ writing'.item = i => typed'[i] = 0
                    /\ writing'.item = i \/ typed'[i] >= 1 => i \in accepted'
  BY DEF OnceInvariant
<1>t. /\ typed \in [Items -> Nat] /\ typed[i] \in Nat /\ Idle.item # i
      /\ writing # Idle => writing.item \in Items
      /\ wire \subseteq Request
  BY TypedFacts, PartFacts, CountFacts DEF TypeOK
<1>k. /\ Kept /\ (ComesUp => accepted' = accepted)
      /\ typed[i] <= 1
      /\ writing.item = i => typed[i] = 0
      /\ writing.item = i \/ typed[i] >= 1 => i \in accepted
  BY KeptStep DEF OnceInvariant
<1>1. CASE UNCHANGED Shelf
  BY <1>1, <1>k DEF Shelf
<1>2. CASE ComesUp
  BY <1>2, <1>k DEF ComesUp
<1>3. CASE Write
  BY <1>3, <1>t, <1>k DEF Write
<1>4. CASE WriteFails
  BY <1>4, <1>t, <1>k DEF WriteFails, history
<1>5. CASE HostStops
  BY <1>5, <1>t, <1>k DEF HostStops
<1>6. ASSUME NEW request \in wire, Accept(request)
      PROVE  /\ typed'[i] <= 1
             /\ writing'.item = i => typed'[i] = 0
             /\ writing'.item = i \/ typed'[i] >= 1 => i \in accepted'
  BY <1>6, <1>t, <1>k DEF Accept, Take, Known, history
<1> QED BY <1>1, <1>2, <1>3, <1>4, <1>5, <1>6, ShelfStep

Safe == Typed /\ JournalInvariant /\ OnceInvariant

LEMMA SafeInvariant == Spec => []Safe
<1>1. Init => Safe
  <2>1. Init => Typed
    BY InitTyped
  <2>2. ASSUME Init PROVE JournalInvariant
    BY <2>2 DEF Init, JournalInvariant
  <2>3. ASSUME Init PROVE OnceInvariant
    <3>1. Typed /\ writing = Idle /\ \A i \in Items : typed[i] = 0
      BY <2>1, <2>3 DEF Init
    <3> QED BY <3>1, TypedFacts, PartFacts DEF OnceInvariant
  <2> QED BY <2>1, <2>2, <2>3 DEF Safe
<1>2. Safe /\ [Next]_vars => Safe'
  BY TypedStep, JournalStep, OnceStep DEF Safe
<1> QED BY <1>1, <1>2, PTL DEF Spec

LEMMA SafeIsKept ==
    ASSUME ~DiskTears \/ MaxHosts <= 2 \/ MaxStops <= 1, Safe
    PROVE  Kept
<1>1. stops \in Nat /\ stops <= MaxStops
  BY DeliveryAssumption DEF Safe, Typed, HostPart
<1> QED BY <1>1, DeliveryAssumption DEF Kept

\* No host types an item twice, as long as the journal is not torn, or two hosts
\* at most are started or one at most stops: whatever else dies, fails, is sent
\* again or is answered late.
THEOREM ItemsTypedOnce ==
    ASSUME ~DiskTears \/ MaxHosts <= 2 \/ MaxStops <= 1
    PROVE  Spec => []TypedOnce
<1>1. Safe => TypedOnce
  BY SafeIsKept DEF Safe, OnceInvariant, TypedOnce
<1> QED BY <1>1, SafeInvariant, PTL

----------------------------------------------------------------------------
(* A failed item is one nobody can know about.                             *)

\* What is unknown stays unknown: a known item is never taken in hand again.
LEMMA UnknownStep ==
    ASSUME Typed, JournalInvariant, [Next]_vars, Kept', NEW i \in Items, Unknown(i)
    PROVE  Unknown(i)'
<1>t. Idle.item # i /\ (ComesUp => accepted' = accepted)
  BY TypedFacts, PartFacts, KeptStep
<1>1. CASE UNCHANGED Shelf
  BY <1>1 DEF Shelf, Unknown
<1>2. CASE ComesUp
  BY <1>2, <1>t DEF ComesUp, Unknown
<1>3. CASE Write \/ WriteFails \/ HostStops
  BY <1>3, <1>t DEF Write, WriteFails, HostStops, Unknown
<1>4. ASSUME NEW request \in wire, Accept(request) PROVE Unknown(i)'
  BY <1>4 DEF Accept, Take, Known, Unknown
<1> QED BY <1>1, <1>2, <1>3, <1>4, ShelfStep

\* How an item fails, and how a client comes to believe it.
LEMMA FailingStep ==
    ASSUME Typed, [Next]_vars
    PROVE  /\ \A i \in Items : queue'[i] = "failed" =>
                 \/ queue[i] = "failed"
                 \/ \E c \in Clients : pc[c] = "settle" /\ verdict[c] = "ambiguous" /\ item[c] = i
           /\ \A c \in Clients : pc'[c] = "settle" /\ verdict'[c] = "ambiguous" =>
                 /\ item'[c] = item[c]
                 /\ QueryHost(c) \/ (pc[c] = "settle" /\ verdict[c] = "ambiguous")
<1> DEFINE Fails(i) == \/ queue[i] = "failed"
                       \/ \E c \in Clients : pc[c] = "settle" /\ verdict[c] = "ambiguous" /\ item[c] = i
           Believes(c) == pc'[c] = "settle" /\ verdict'[c] = "ambiguous" =>
                 /\ item'[c] = item[c]
                 /\ QueryHost(c) \/ (pc[c] = "settle" /\ verdict[c] = "ambiguous")
           Goal == /\ \A i \in Items : queue'[i] = "failed" => Fails(i)
                   /\ \A c \in Clients : Believes(c)
<1>t. TypeOK
  BY TypedFacts
<1> SUFFICES Goal
  OBVIOUS
<1>1. ASSUME Enqueue \/ RemoveLastFollowUp \/ ClearQueuedFollowUps PROVE Goal
  BY <1>1, <1>t, PartFacts
  DEF Enqueue, RemoveLastFollowUp, ClearQueuedFollowUps, Mark, clientVars, TypeOK
<1>2. ASSUME NEW c \in Replies, Reply(c) PROVE Goal
  BY <1>2, <1>t, PartFacts DEF Reply, Mark, Goto, TypeOK
<1>3. ASSUME NEW c \in Dashboards, Look(c) PROVE Goal
  BY <1>3, <1>t, PartFacts DEF Look, Goto, TypeOK
<1>4. ASSUME NEW c \in Runners, RunnerExit(c) PROVE Goal
  BY <1>4, <1>t, PartFacts DEF RunnerExit, Goto, Mark, TypeOK
<1>5. ASSUME NEW c \in Clients, ClaimNextFollowUp(c) PROVE Goal
  BY <1>5, <1>t, PartFacts DEF ClaimNextFollowUp, Goto, Mark, TypeOK
<1>6. ASSUME NEW c \in Clients, LaunchHost(c) \/ LaunchRun(c) \/ LaunchFails(c) PROVE Goal
  BY <1>6, <1>t, PartFacts DEF LaunchHost, LaunchRun, LaunchFails, Conclude, Goto, TypeOK
<1>7. ASSUME NEW c \in Clients, Send(c) PROVE Goal
  BY <1>7, <1>t, PartFacts DEF Send, Conclude, Goto, TypeOK
<1>8. ASSUME NEW c \in Clients, Hear(c) PROVE Goal
  BY <1>8, <1>t, PartFacts DEF Hear, Conclude, Goto, TypeOK
<1>9. ASSUME NEW c \in Clients, SocketClosed(c) \/ Timeout(c) PROVE Goal
  BY <1>9, <1>t, PartFacts DEF SocketClosed, Timeout, Conclude, Goto, TypeOK
<1>10. ASSUME NEW c \in Clients, QueryHost(c) \/ QueryUnavailable(c) PROVE Goal
  <2>1. queue' = queue /\ item' = item
    BY <1>10 DEF QueryHost, QueryUnavailable
  <2>2. /\ QueryUnavailable(c) => Conclude(c, "retry")
        /\ QueryHost(c) => \E v \in {"ambiguous", "retry"} : Conclude(c, v)
    BY DEF QueryHost, QueryUnavailable
  <2>3. \A d \in Clients : d # c => pc'[d] = pc[d] /\ verdict'[d] = verdict[d]
    BY <1>10, <2>2, <1>t DEF Conclude, Goto, TypeOK
  <2>4. verdict'[c] = "ambiguous" => QueryHost(c)
    BY <1>10, <2>2, <1>t DEF Conclude, TypeOK
  <2>5. Believes(c)
    BY <2>1, <2>4
  <2>6. ASSUME NEW d \in Clients, d # c PROVE Believes(d)
    BY <2>1, <2>3, <2>6
  <2>7. \A i \in Items : queue'[i] = "failed" => Fails(i)
    BY <2>1
  <2> HIDE DEF Believes, Fails
  <2> QED BY <2>5, <2>6, <2>7
<1>11. ASSUME NEW c \in Clients, Settle(c) PROVE Goal
  BY <1>11, <1>t, PartFacts DEF Settle, Goto, Mark, TypeOK
<1>12. ASSUME NEW c \in Clients, ClientCrash(c) PROVE Goal
  BY <1>12, <1>t, PartFacts DEF ClientCrash, Goto, TypeOK
<1>13. ASSUME NEW request \in wire, AnswerKnown(request) \/ Refuse(request) \/
              Accept(request)
       PROVE  Goal
  BY <1>13, <1>t, PartFacts DEF AnswerKnown, Refuse, Accept, clientVars, TypeOK
<1>14. ASSUME Write \/ WriteFails \/ StartHost \/ ChildReady \/ HostStops PROVE Goal
  BY <1>14, <1>t, PartFacts
  DEF Write, WriteFails, StartHost, ChildReady, HostStops, clientVars, TypeOK
<1>15. CASE UNCHANGED vars \/ RowChanges
  BY <1>15 DEF vars, RowChanges, clientVars
<1> HIDE DEF Goal
<1> QED
  BY <1>1, <1>2, <1>3, <1>4, <1>5, <1>6, <1>7, <1>8, <1>9, <1>10, <1>11, <1>12, <1>13,
     <1>14, <1>15
  DEF Next, User, Deliver, Serve, Answer, Clients, Drains

LEMMA FailedStep ==
    Typed /\ JournalInvariant /\ FailedInvariant /\ [Next]_vars => FailedInvariant'
<1> SUFFICES ASSUME Typed, JournalInvariant, FailedInvariant, [Next]_vars, Kept'
             PROVE  /\ \A i \in Items : queue'[i] = "failed" => Unknown(i)'
                    /\ \A c \in Clients :
                          pc'[c] = "settle" /\ verdict'[c] = "ambiguous" => Unknown(item[c])'
  BY DEF FailedInvariant
<1>k. Kept
  BY KeptStep
<1>1. ASSUME NEW i \in Items, queue'[i] = "failed" PROVE Unknown(i)'
  <2>1. Unknown(i)
    BY <1>1, <1>k, FailingStep DEF FailedInvariant
  <2> QED BY <2>1, UnknownStep
<1>2. ASSUME NEW c \in Clients, pc'[c] = "settle", verdict'[c] = "ambiguous"
      PROVE  item'[c] \in Items /\ Unknown(item[c])' /\ item'[c] = item[c]
  <2>1. item'[c] = item[c] /\ item'[c] \in Items
    BY <1>2, FailingStep, TypedStep DEF Typed, ClientPart, Holds
  <2>2. CASE QueryHost(c)
    <3>1. writing = Idle /\ UNCHANGED <<accepted, applied, writing>> /\ item[c] \in
                                        accepted \ applied
      BY <1>2, <2>2, TypedFacts DEF QueryHost, Conclude, hostVars, TypeOK
    <3>2. Idle.item # item[c]
      BY <2>1, TypedFacts, PartFacts
    <3> QED BY <2>1, <3>1, <3>2 DEF Unknown
  <2>3. CASE pc[c] = "settle" /\ verdict[c] = "ambiguous"
    <3>1. Unknown(item[c])
      BY <1>k, <2>3 DEF FailedInvariant
    <3> QED BY <2>1, <3>1, UnknownStep
  <2> QED BY <1>2, <2>1, <2>2, <2>3, FailingStep
<1> QED BY <1>1, <1>2

\* Only an outcome nobody can know marks an item failed.
THEOREM FailedStaysUnknown ==
    ASSUME ~DiskTears \/ MaxHosts <= 2 \/ MaxStops <= 1
    PROVE  Spec => []FailedIsUnknown
<1>1. Init => FailedInvariant
  BY DEF Init, FailedInvariant
<1>2. Safe /\ FailedInvariant /\ [Next]_vars => FailedInvariant'
  BY FailedStep DEF Safe
<1>3. Safe /\ FailedInvariant => FailedIsUnknown
  BY SafeIsKept DEF FailedInvariant, Unknown, FailedIsUnknown
<1> QED BY <1>1, <1>2, <1>3, SafeInvariant, PTL DEF Spec

----------------------------------------------------------------------------
(* No item is handed over twice under the first host.                      *)

\* Only LaunchRun launches a run.
LEMMA LaunchStep ==
    ASSUME [Next]_vars
    PROVE  UNCHANGED launches \/ \E c \in Clients : LaunchRun(c)
<1> USE DEF runVars
<1>1. ASSUME User \/ RowChanges PROVE UNCHANGED launches
  BY <1>1 DEF User, RowChanges, Enqueue, RemoveLastFollowUp, ClearQueuedFollowUps, Reply
<1>2. ASSUME NEW c \in Clients, Look(c) \/ RunnerExit(c) \/ ClientCrash(c)
      PROVE  UNCHANGED launches
  BY <1>2 DEF Look, RunnerExit, ClientCrash
<1>3. ASSUME NEW c \in Clients, Deliver(c), ~LaunchRun(c) PROVE UNCHANGED launches
  <2>1. CASE LaunchHost(c) \/ ClaimNextFollowUp(c) \/ LaunchFails(c) \/ Send(c) \/ Hear(c)
    BY <2>1 DEF LaunchHost, ClaimNextFollowUp, LaunchFails, Send, Hear
  <2>2. CASE SocketClosed(c) \/ Timeout(c) \/ QueryHost(c) \/ QueryUnavailable(c) \/ Settle(c)
    BY <2>2 DEF SocketClosed, Timeout, QueryHost, QueryUnavailable, Settle
  <2> QED BY <1>3, <2>1, <2>2 DEF Deliver
<1>4. ASSUME NEW request \in wire, Answer(request) PROVE UNCHANGED launches
  BY <1>4 DEF Answer, AnswerKnown, Refuse, Accept
<1>5. ASSUME Write \/ WriteFails \/ StartHost \/ ChildReady \/ HostStops
      PROVE  UNCHANGED launches
  BY <1>5 DEF Write, WriteFails, StartHost, ChildReady, HostStops
<1>6. ASSUME UNCHANGED vars PROVE UNCHANGED launches
  BY <1>6 DEF vars
<1> QED BY <1>1, <1>2, <1>3, <1>4, <1>5, <1>6 DEF Next, Serve, Clients, Drains

\* Runs and stops are counted up.
LEMMA FirstHostCounts ==
    ASSUME Typed, [Next]_vars, stops' = 0, launches' = 0
    PROVE  /\ stops = 0 /\ launches = 0 /\ ~HostStops
           /\ \A c \in Clients : ~LaunchRun(c)
           /\ host' = NoHost => host = NoHost /\ ~BringUpHost
<1>t. /\ stops \in Nat /\ launches \in Nat /\ NoHost \notin Instances /\ HostPart
  BY DeliveryAssumption DEF Typed, HostPart, RunPart
<1>1. ~HostStops /\ \A c \in Clients : ~LaunchRun(c)
  BY <1>t DEF HostStops, LaunchRun
<1>2. stops = 0
  <2>1. ASSUME UNCHANGED Shelf \/ ComesUp \/ Write \/ WriteFails PROVE stops' = stops
    BY <2>1 DEF Shelf, ComesUp, Write, WriteFails
  <2>2. ASSUME NEW request \in wire, Accept(request) PROVE stops' = stops
    BY <2>2 DEF Accept
  <2> QED BY <1>1, <2>1, <2>2, ShelfStep
<1>3. launches = 0
  BY <1>1, LaunchStep
<1>4. ~BringUpHost \/ host' # NoHost
  BY <1>t, BringUpFacts
<1>5. host' = NoHost => host = NoHost
  <2>1. ASSUME UNCHANGED Shelf \/ Write \/ WriteFails PROVE host' = host
    BY <2>1 DEF Shelf, Write, WriteFails
  <2>2. ASSUME NEW request \in wire, Accept(request) PROVE host' = host
    BY <2>2 DEF Accept
  <2> QED BY <1>1, <2>1, <2>2, ShelfStep DEF ComesUp
<1> QED BY <1>1, <1>2, <1>3, <1>4, <1>5

\* A claim takes an item that is queued, and sends only to a host it saw.
Claims(c, i) ==
    /\ queue[i] = "queued" /\ Mark(i, "claimed")
    /\ item' = [item EXCEPT ![c] = i]
    /\ \E label \in {"run", "launch", "send"} :
          Goto(c, label) /\ (label = "send" => target[c] # NoHost)

LEMMA ClaimStep ==
    ASSUME NEW c \in Clients, RunnerExit(c) \/ ClaimNextFollowUp(c)
    PROVE  /\ ~Holds(c)
           /\ UNCHANGED <<host, wire, accepted, writing, target, verdict, typed, launched>>
           /\ \/ UNCHANGED <<queue, item>> /\ (UNCHANGED pc \/ Goto(c, "idle"))
              \/ \E i \in Items : Claims(c, i)
<1>1. ASSUME RunnerExit(c) PROVE UNCHANGED <<queue, item, pc>> \/ \E i \in Items :
                                             Claims(c, i)
  <2>1. CASE UNCHANGED <<queue, pc, item>>
    BY <2>1
  <2>2. CASE ~UNCHANGED <<queue, pc, item>>
    <3>1. PICK i \in Items : /\ IsFirst(i, Queued) /\ Mark(i, "claimed")
                             /\ item' = [item EXCEPT ![c] = i] /\ Goto(c, "run")
      BY <1>1, <2>2 DEF RunnerExit
    <3> QED BY <3>1 DEF IsFirst, Queued, Claims
  <2> QED BY <2>1, <2>2
<1>2. ASSUME ClaimNextFollowUp(c)
      PROVE  \/ UNCHANGED <<queue, item>> /\ Goto(c, "idle")
             \/ \E i \in Items : Claims(c, i)
  <2>1. CASE Queued = {}
    BY <1>2, <2>1 DEF ClaimNextFollowUp
  <2>2. CASE Queued # {}
    <3>1. PICK i \in Items : /\ IsFirst(i, Queued) /\ Mark(i, "claimed")
                             /\ item' = [item EXCEPT ![c] = i]
                             /\ Goto(c, IF target[c] = NoHost THEN "launch" ELSE "send")
      BY <1>2, <2>2 DEF ClaimNextFollowUp
    <3>2. \E label \in {"run", "launch", "send"} :
             Goto(c, label) /\ (label = "send" => target[c] # NoHost)
      BY <3>1
    <3> QED BY <3>1, <3>2 DEF IsFirst, Queued, Claims
  <2> QED BY <2>1, <2>2
<1>3. ~Holds(c)
  BY DEF RunnerExit, ClaimNextFollowUp, Holds
<1>4. UNCHANGED <<host, wire, accepted, writing, target, verdict, typed, launched>>
  BY DEF RunnerExit, ClaimNextFollowUp, hostVars, history
<1> QED BY <1>1, <1>2, <1>3, <1>4

\* Before the first host, the clients share out what is queued and send nothing.
LEMMA UndeliveredStep ==
    ASSUME Typed, Undelivered, host = NoHost, host' = NoHost, stops' = 0, launches' = 0,
           [Next]_vars
    PROVE  Undelivered'
<1>t. TypeOK
  BY TypedFacts
<1>f. ~HostStops /\ ~BringUpHost /\ \A c \in Clients : ~LaunchRun(c)
  BY FirstHostCounts
<1>1. ASSUME Enqueue \/ RemoveLastFollowUp \/ ClearQueuedFollowUps PROVE Undelivered'
  <2>1. UNCHANGED <<hostVars, clientVars, history>>
    BY <1>1 DEF Enqueue, RemoveLastFollowUp, ClearQueuedFollowUps
  <2>2. \A i \in Items : queue[i] = "claimed" => queue'[i] = "claimed"
    BY <1>1, <1>t
    DEF Enqueue, RemoveLastFollowUp, ClearQueuedFollowUps, Mark, Unused, Queued,
        IsFirst, IsLast, TypeOK
  <2>3. \A c \in Clients : Holds(c) => item[c] \in Items
    BY HandFacts
  <2> QED BY <2>1, <2>2, <2>3 DEF Undelivered, Holds, hostVars, clientVars, history
<1>2. ASSUME NEW c \in Replies, Reply(c) PROVE Undelivered'
  BY <1>2, <1>t, <1>f, PartFacts, DeliveryAssumption
  DEF Reply, TypeOK, Undelivered, Holds, hostVars, diskVars, clientVars, runVars,
      history
<1>3. ASSUME NEW c \in Dashboards, Look(c) PROVE Undelivered'
  BY <1>3, <1>t, <1>f, PartFacts, DeliveryAssumption
  DEF Look, Goto, TypeOK, Undelivered, Holds, hostVars, diskVars, clientVars, runVars,
      history
<1>4. ASSUME NEW c \in Runners, RunnerExit(c) PROVE Undelivered'
  <2>1. c \in Clients
    BY <1>4, <1>t, PartFacts
  <2>2. /\ ~Holds(c)
        /\ UNCHANGED <<wire, accepted, writing, target, verdict, typed, launched>>
    BY <1>4, <2>1, ClaimStep
  <2>3. CASE UNCHANGED <<queue, item>> /\ (UNCHANGED pc \/ Goto(c, "idle"))
    BY <2>1, <2>2, <2>3, <1>t DEF Undelivered, Holds, Goto, TypeOK
  <2>4. ASSUME NEW i \in Items, Claims(c, i) PROVE Undelivered'
    <3>1. /\ item'[c] = i /\ queue'[i] = "claimed" /\ pc'[c] \in {"run", "launch"}
          /\ \A j \in Items : j # i => queue'[j] = queue[j]
          /\ \A d \in Clients : d # c => item'[d] = item[d] /\ pc'[d] = pc[d]
      BY <2>1, <2>4, <1>t DEF Claims, Mark, Goto, TypeOK, Undelivered
    <3>2. \A d \in Clients : Holds(d) => item[d] \in Items /\ item[d] # i
      BY <2>4, HandFacts DEF Undelivered, Claims
    <3>3. \A d \in Clients : d # c => (Holds(d)' <=> Holds(d))
      BY <3>1 DEF Holds
    <3>4. ASSUME NEW d \in Clients
          PROVE  /\ pc'[d] \notin {"send", "wait", "query"} /\ target'[d] = NoHost
                 /\ pc'[d] = "settle" => verdict'[d] = "retry"
                 /\ Holds(d)' => queue'[item'[d]] = "claimed"
      BY <2>1, <2>2, <3>1, <3>2, <3>3 DEF Undelivered
    <3>5. ASSUME NEW d \in Clients, NEW e \in Clients, Holds(d)', Holds(e)', item'[d] = item'[e]
          PROVE  d = e
      BY <2>1, <3>1, <3>2, <3>3, <3>5 DEF Undelivered
    <3> QED BY <2>2, <3>4, <3>5 DEF Undelivered
  <2> QED BY <1>4, <2>1, <2>3, <2>4, ClaimStep
<1>5. ASSUME NEW c \in Clients, ClaimNextFollowUp(c) PROVE Undelivered'
  <2>1. c \in Clients
    BY <1>5, <1>t, PartFacts
  <2>2. /\ ~Holds(c)
        /\ UNCHANGED <<wire, accepted, writing, target, verdict, typed, launched>>
    BY <1>5, <2>1, ClaimStep
  <2>3. CASE UNCHANGED <<queue, item>> /\ (UNCHANGED pc \/ Goto(c, "idle"))
    BY <2>1, <2>2, <2>3, <1>t DEF Undelivered, Holds, Goto, TypeOK
  <2>4. ASSUME NEW i \in Items, Claims(c, i) PROVE Undelivered'
    <3>1. /\ item'[c] = i /\ queue'[i] = "claimed" /\ pc'[c] \in {"run", "launch"}
          /\ \A j \in Items : j # i => queue'[j] = queue[j]
          /\ \A d \in Clients : d # c => item'[d] = item[d] /\ pc'[d] = pc[d]
      BY <2>1, <2>4, <1>t DEF Claims, Mark, Goto, TypeOK, Undelivered
    <3>2. \A d \in Clients : Holds(d) => item[d] \in Items /\ item[d] # i
      BY <2>4, HandFacts DEF Undelivered, Claims
    <3>3. \A d \in Clients : d # c => (Holds(d)' <=> Holds(d))
      BY <3>1 DEF Holds
    <3>4. ASSUME NEW d \in Clients
          PROVE  /\ pc'[d] \notin {"send", "wait", "query"} /\ target'[d] = NoHost
                 /\ pc'[d] = "settle" => verdict'[d] = "retry"
                 /\ Holds(d)' => queue'[item'[d]] = "claimed"
      BY <2>1, <2>2, <3>1, <3>2, <3>3 DEF Undelivered
    <3>5. ASSUME NEW d \in Clients, NEW e \in Clients, Holds(d)', Holds(e)', item'[d] = item'[e]
          PROVE  d = e
      BY <2>1, <3>1, <3>2, <3>3, <3>5 DEF Undelivered
    <3> QED BY <2>2, <3>4, <3>5 DEF Undelivered
  <2> QED BY <1>5, <2>1, <2>3, <2>4, ClaimStep
<1>6. ASSUME NEW c \in Clients, LaunchHost(c) PROVE Undelivered'
  BY <1>6, <1>t, <1>f, PartFacts, DeliveryAssumption
  DEF LaunchHost, TypeOK, Undelivered, Holds, hostVars, diskVars, clientVars, runVars,
      history
<1>7. ASSUME NEW c \in Clients, LaunchFails(c) PROVE Undelivered'
  BY <1>7, <1>t, <1>f, PartFacts, DeliveryAssumption
  DEF LaunchFails, Conclude, Goto, TypeOK, Undelivered, Holds, hostVars, diskVars,
      clientVars, runVars, history
<1>8. ASSUME NEW c \in Clients, Send(c) \/ Hear(c) \/ SocketClosed(c) \/ Timeout(c) \/
             QueryHost(c) \/ QueryUnavailable(c)
      PROVE  Undelivered'
  BY <1>8, <1>t, <1>f, PartFacts, DeliveryAssumption
  DEF Send, Hear, SocketClosed, Timeout, QueryHost, QueryUnavailable, Awaiting, TypeOK,
      Undelivered, Holds, hostVars, diskVars, clientVars, runVars, history
<1>9. ASSUME NEW c \in Clients, Settle(c) PROVE Undelivered'
  <2>1. /\ pc[c] = "settle" /\ Holds(c) /\ item[c] \in Items
        /\ UNCHANGED <<wire, accepted, writing, typed, launched>>
    BY <1>9, HandFacts DEF Settle, Holds, history
  <2>2. UNCHANGED queue \/ Mark(item[c], "queued")
    BY <1>9, <2>1 DEF Settle, Undelivered
  <2>3. /\ pc'[c] = "idle" /\ target'[c] = NoHost
        /\ \A d \in Clients : d # c => /\ item'[d] = item[d] /\ pc'[d] = pc[d]
                                       /\ target'[d] = target[d] /\ verdict'[d] = verdict[d]
    BY <1>9, <1>t DEF Settle, Goto, TypeOK
  <2>4. \A d \in Clients : d # c /\ Holds(d) => item[d] # item[c]
    BY <2>1 DEF Undelivered
  <2>5. \A j \in Items : j # item[c] => queue'[j] = queue[j]
    BY <2>2, <1>t DEF Mark, TypeOK
  <2>6. \A d \in Clients : Holds(d)' => d # c /\ Holds(d) /\ item[d] \in Items
    BY <2>3, HandFacts DEF Holds
  <2>7. ASSUME NEW d \in Clients
        PROVE  /\ pc'[d] \notin {"send", "wait", "query"} /\ target'[d] = NoHost
               /\ pc'[d] = "settle" => verdict'[d] = "retry"
               /\ Holds(d)' => queue'[item'[d]] = "claimed"
    BY <2>3, <2>4, <2>5, <2>6 DEF Undelivered
  <2>8. ASSUME NEW d \in Clients, NEW e \in Clients, Holds(d)', Holds(e)', item'[d] = item'[e]
        PROVE  d = e
    BY <2>3, <2>6, <2>8 DEF Undelivered
  <2> QED BY <2>1, <2>7, <2>8 DEF Undelivered
<1>10. ASSUME NEW c \in Clients, ClientCrash(c) PROVE Undelivered'
  BY <1>10, <1>t, <1>f, PartFacts, DeliveryAssumption
  DEF ClientCrash, Goto, TypeOK, Undelivered, Holds, hostVars, diskVars, clientVars,
      runVars, history
<1>11. ASSUME NEW request \in wire, AnswerKnown(request) \/ Refuse(request) \/
              Accept(request)
       PROVE  Undelivered'
  BY <1>11, <1>t, <1>f, PartFacts, DeliveryAssumption
  DEF AnswerKnown, Refuse, Accept, Take, TypeOK, Undelivered, Holds, hostVars, diskVars,
      clientVars, runVars, history
<1>12. ASSUME Write \/ WriteFails \/ ChildReady PROVE Undelivered'
  BY <1>12, <1>t, <1>f, PartFacts, DeliveryAssumption
  DEF Write, WriteFails, ChildReady, TypeOK, Undelivered, Holds, hostVars, diskVars,
      clientVars, runVars, history
<1>13. ASSUME StartHost PROVE Undelivered'
  BY <1>13, <1>t, <1>f, PartFacts, DeliveryAssumption
  DEF StartHost, TypeOK, Undelivered, Holds, hostVars, diskVars, clientVars, runVars,
      history
<1>14. CASE UNCHANGED vars \/ RowChanges
  BY <1>14
  DEF vars, RowChanges, Undelivered, Holds, hostVars, diskVars, clientVars, runVars, history
<1> QED
  BY <1>f, <1>1, <1>2, <1>3, <1>4, <1>5, <1>6, <1>7, <1>8, <1>9, <1>10, <1>11, <1>12,
     <1>13, <1>14
  DEF Next, User, Deliver, Serve, Answer, Clients, Drains

\* An item a host was launched with stays out of every other hand.
LEMMA OnlyLaunchedStep ==
    ASSUME Typed, JournalInvariant, OnceInvariant, [Next]_vars, stops' = 0, launches' = 0,
           NEW i \in Items, OnlyLaunched(i), host # NoHost
    PROVE  OnlyLaunched(i)'
<1>t. TypeOK
  BY TypedFacts
<1>f. ~HostStops /\ stops = 0 /\ \A c \in Clients : ~LaunchRun(c)
  BY FirstHostCounts
<1>w. writing.item # i
  BY <1>f DEF OnceInvariant, Kept, OnlyLaunched
<1>1. ASSUME Enqueue \/ RemoveLastFollowUp \/ ClearQueuedFollowUps PROVE OnlyLaunched(i)'
  BY <1>1, <1>t, <1>w, PartFacts
  DEF Enqueue, RemoveLastFollowUp, ClearQueuedFollowUps, Mark, Unused, Queued, IsFirst,
      IsLast, TypeOK, OnlyLaunched, Holds, hostVars, diskVars, clientVars, runVars,
      history
<1>2. ASSUME NEW c \in Replies, Reply(c) PROVE OnlyLaunched(i)'
  BY <1>2, <1>t, <1>w, PartFacts
  DEF Reply, Goto, Mark, IsFirst, Unused, TypeOK, OnlyLaunched, Holds, hostVars,
      diskVars, clientVars, runVars, history
<1>3. ASSUME NEW c \in Dashboards, Look(c) PROVE OnlyLaunched(i)'
  BY <1>3, <1>t, <1>w, PartFacts
  DEF Look, Goto, TypeOK, OnlyLaunched, Holds, hostVars, diskVars, clientVars, runVars,
      history
<1>4. ASSUME NEW c \in Runners, RunnerExit(c) PROVE OnlyLaunched(i)'
  <2>1. c \in Clients
    BY <1>4, <1>t, PartFacts
  <2>2. UNCHANGED <<wire, accepted, verdict, typed, launched>>
    BY <1>4, <2>1, ClaimStep
  <2>3. CASE UNCHANGED <<queue, item>> /\ (UNCHANGED pc \/ Goto(c, "idle"))
    BY <2>1, <2>2, <2>3, <1>t DEF OnlyLaunched, Holds, Goto, TypeOK
  <2>4. ASSUME NEW j \in Items, Claims(c, j) PROVE OnlyLaunched(i)'
    <3>1. j # i
      BY <2>4 DEF OnlyLaunched, Claims
    <3>2. /\ item'[c] = j /\ queue'[i] = queue[i]
          /\ \A d \in Clients : d # c => item'[d] = item[d] /\ pc'[d] = pc[d]
      BY <2>1, <2>4, <3>1, <1>t DEF Claims, Mark, Goto, TypeOK
    <3> QED BY <2>1, <2>2, <3>1, <3>2 DEF OnlyLaunched, Holds
  <2> QED BY <1>4, <2>1, <2>3, <2>4, ClaimStep
<1>5. ASSUME NEW c \in Clients, ClaimNextFollowUp(c) PROVE OnlyLaunched(i)'
  <2>1. c \in Clients
    BY <1>5, <1>t, PartFacts
  <2>2. UNCHANGED <<wire, accepted, verdict, typed, launched>>
    BY <1>5, <2>1, ClaimStep
  <2>3. CASE UNCHANGED <<queue, item>> /\ (UNCHANGED pc \/ Goto(c, "idle"))
    BY <2>1, <2>2, <2>3, <1>t DEF OnlyLaunched, Holds, Goto, TypeOK
  <2>4. ASSUME NEW j \in Items, Claims(c, j) PROVE OnlyLaunched(i)'
    <3>1. j # i
      BY <2>4 DEF OnlyLaunched, Claims
    <3>2. /\ item'[c] = j /\ queue'[i] = queue[i]
          /\ \A d \in Clients : d # c => item'[d] = item[d] /\ pc'[d] = pc[d]
      BY <2>1, <2>4, <3>1, <1>t DEF Claims, Mark, Goto, TypeOK
    <3> QED BY <2>1, <2>2, <3>1, <3>2 DEF OnlyLaunched, Holds
  <2> QED BY <1>5, <2>1, <2>3, <2>4, ClaimStep
<1>6. ASSUME NEW c \in Clients, LaunchHost(c) PROVE OnlyLaunched(i)'
  BY <1>6, <1>t, <1>w, PartFacts
  DEF LaunchHost, Conclude, Goto, TypeOK, OnlyLaunched, Holds, hostVars, diskVars,
      clientVars, runVars, history
<1>7. ASSUME NEW c \in Clients, LaunchFails(c) PROVE OnlyLaunched(i)'
  BY <1>7, <1>t, <1>w, PartFacts
  DEF LaunchFails, Conclude, Goto, TypeOK, OnlyLaunched, Holds, hostVars, diskVars,
      clientVars, runVars, history
<1>8. ASSUME NEW c \in Clients, Send(c) PROVE OnlyLaunched(i)'
  BY <1>8, <1>t, <1>w, PartFacts
  DEF Send, Conclude, Goto, TypeOK, OnlyLaunched, Holds, hostVars, diskVars, clientVars,
      runVars, history
<1>9. ASSUME NEW c \in Clients, Hear(c) PROVE OnlyLaunched(i)'
  BY <1>9, <1>t, <1>w, PartFacts
  DEF Hear, Conclude, Goto, Awaiting, TypeOK, OnlyLaunched, Holds, hostVars, diskVars,
      clientVars, runVars, history
<1>10. ASSUME NEW c \in Clients, SocketClosed(c) \/ Timeout(c) PROVE OnlyLaunched(i)'
  BY <1>10, <1>t, <1>w, PartFacts
  DEF SocketClosed, Timeout, Conclude, Goto, Awaiting, TypeOK, OnlyLaunched, Holds,
      hostVars, diskVars, clientVars, runVars, history
<1>11. ASSUME NEW c \in Clients, QueryHost(c) \/ QueryUnavailable(c)
       PROVE  OnlyLaunched(i)'
  BY <1>11, <1>t, <1>w, PartFacts
  DEF QueryHost, QueryUnavailable, Conclude, Goto, TypeOK, OnlyLaunched, Holds,
      hostVars, diskVars, clientVars, runVars, history
<1>12. ASSUME NEW c \in Clients, Settle(c) PROVE OnlyLaunched(i)'
  BY <1>12, <1>t, <1>w, PartFacts
  DEF Settle, Goto, Mark, TypeOK, OnlyLaunched, Holds, hostVars, diskVars, clientVars,
      runVars, history
<1>13. ASSUME NEW c \in Clients, ClientCrash(c) PROVE OnlyLaunched(i)'
  BY <1>13, <1>t, <1>w, PartFacts
  DEF ClientCrash, Goto, TypeOK, OnlyLaunched, Holds, hostVars, diskVars, clientVars,
      runVars, history
<1>14. ASSUME NEW request \in wire, AnswerKnown(request) PROVE OnlyLaunched(i)'
  BY <1>14, <1>t, <1>w, PartFacts
  DEF AnswerKnown, Take, TypeOK, OnlyLaunched, Holds, hostVars, diskVars, clientVars,
      runVars, history
<1>15. ASSUME NEW request \in wire, Refuse(request) PROVE OnlyLaunched(i)'
  BY <1>15, <1>t, <1>w, PartFacts
  DEF Refuse, Take, TypeOK, OnlyLaunched, Holds, hostVars, diskVars, clientVars,
      runVars, history
<1>16. ASSUME NEW request \in wire, Accept(request) PROVE OnlyLaunched(i)'
  BY <1>16, <1>t, <1>w, PartFacts
  DEF Accept, Take, TypeOK, OnlyLaunched, Holds, hostVars, diskVars, clientVars,
      runVars, history
<1>17. ASSUME Write PROVE OnlyLaunched(i)'
  BY <1>17, <1>t, <1>w, PartFacts
  DEF Write, TypeOK, OnlyLaunched, Holds, hostVars, diskVars, clientVars, runVars,
      history
<1>18. ASSUME WriteFails \/ ChildReady PROVE OnlyLaunched(i)'
  BY <1>18, <1>t, <1>w, PartFacts
  DEF WriteFails, ChildReady, TypeOK, OnlyLaunched, Holds, hostVars, diskVars,
      clientVars, runVars, history
<1>19. ASSUME StartHost PROVE OnlyLaunched(i)'
  BY <1>19, <1>t, <1>w, PartFacts
  DEF StartHost, TypeOK, OnlyLaunched, Holds, hostVars, diskVars, clientVars, runVars,
      history
<1>20. CASE UNCHANGED vars \/ RowChanges
  BY <1>20
  DEF vars, RowChanges, OnlyLaunched, Holds, hostVars, diskVars, clientVars, runVars, history
<1> QED
  BY <1>f, <1>1, <1>2, <1>3, <1>4, <1>5, <1>6, <1>7, <1>8, <1>9, <1>10, <1>11, <1>12,
     <1>13, <1>14, <1>15, <1>16, <1>17, <1>18, <1>19, <1>20
  DEF Next, User, Deliver, Serve, Answer, Clients, Drains

\* While a host lives, no other is launched with an item.
LEMMA LaunchedOnly ==
    ASSUME Typed, host # NoHost, [Next]_vars, stops' = 0, launches' = 0,
           NEW i \in Items, launched'[i] # 0
    PROVE  launched[i] # 0
<1>1. \A c \in Clients : ~LaunchRun(c)
  BY FirstHostCounts
<1>2. \A c \in Clients : LaunchHost(c) => UNCHANGED launched
  BY DEF LaunchHost
<1>3. \A c \in Clients : Handing(c) => UNCHANGED launched
  BY <1>1, <1>2 DEF Handing
<1> QED BY <1>3, CountStep DEF history, Typing

\* The first host is launched with one item, which only its launcher has in hand.
LEMMA FirstLaunch ==
    ASSUME Typed, Undelivered, host = NoHost, [Next]_vars, stops' = 0, launches' = 0,
           NEW i \in Items, launched'[i] # 0
    PROVE  OnlyLaunched(i)'
<1>t. TypeOK /\ launched[i] = 0 /\ \A c \in Clients : ~LaunchRun(c)
  BY TypedFacts, FirstHostCounts DEF Undelivered
<1>1. PICK c \in Clients : Handing(c)
  BY <1>t, CountStep DEF history, Typing
<1>2. LaunchHost(c) /\ Holds(c) /\ item[c] = i /\ launched'[i] = 1
  BY <1>t, <1>1, HandFacts DEF Handing, TypeOK
<1>3. BringUpHost /\ Conclude(c, "ok") /\ UNCHANGED <<queue, wire, item, typed>>
  BY <1>2 DEF LaunchHost
<1>4. /\ typed[i] = 0 /\ accepted = {} /\ wire = {} /\ queue[i] = "claimed"
      /\ \A d \in Clients : Holds(d) /\ item[d] = i => d = c
  BY <1>2 DEF Undelivered
<1>5. /\ pc'[c] = "settle" /\ verdict'[c] = "ok" /\ accepted' = {}
      /\ \A d \in Clients : d # c => pc'[d] = pc[d]
  BY <1>3, <1>4, <1>t DEF Conclude, Goto, BringUpHost, TypeOK
<1>6. \A d \in Clients : Holds(d)' /\ item'[d] = i => d = c
  BY <1>3, <1>4, <1>5 DEF Holds
<1> QED BY <1>2, <1>3, <1>4, <1>5, <1>6 DEF OnlyLaunched

LEMMA FirstHostStep == Safe /\ FirstHostInvariant /\ [Next]_vars => FirstHostInvariant'
<1> SUFFICES ASSUME Safe, FirstHostInvariant, [Next]_vars, stops' = 0, launches' = 0
             PROVE  /\ host' = NoHost => Undelivered'
                    /\ \A i \in Items : launched'[i] = 0 \/ OnlyLaunched(i)'
  BY DEF FirstHostInvariant
<1>1. /\ Typed /\ JournalInvariant /\ OnceInvariant
      /\ stops = 0 /\ launches = 0 /\ (host' = NoHost => host = NoHost)
  BY FirstHostCounts DEF Safe
<1>2. host' = NoHost => Undelivered'
  BY <1>1, UndeliveredStep DEF FirstHostInvariant
<1>3. ASSUME NEW i \in Items, launched'[i] # 0 PROVE OnlyLaunched(i)'
  <2>1. CASE host = NoHost
    BY <1>1, <1>3, <2>1, FirstLaunch DEF FirstHostInvariant
  <2>2. CASE host # NoHost
    <3>1. launched[i] # 0
      BY <1>1, <1>3, <2>2, LaunchedOnly
    <3> QED BY <1>1, <2>2, <3>1, OnlyLaunchedStep DEF FirstHostInvariant
  <2> QED BY <2>1, <2>2
<1> QED BY <1>2, <1>3

\* As long as no host stops and no run is launched, whoever delivers an item,
\* it is handed over once at most.
THEOREM ItemsHandedOnce == Spec => []HandedOnce
<1>1. Init => FirstHostInvariant
  <2> SUFFICES ASSUME Init PROVE FirstHostInvariant
    OBVIOUS
  <2>1. Undelivered
    BY DEF Init, Undelivered, Holds
  <2> QED BY <2>1 DEF FirstHostInvariant, Undelivered
<1>2. Safe /\ FirstHostInvariant /\ [Next]_vars => FirstHostInvariant'
  BY FirstHostStep
<1>3. ASSUME Safe, FirstHostInvariant PROVE HandedOnce
  <2> SUFFICES ASSUME stops = 0, launches = 0, NEW i \in Items
               PROVE  typed[i] + launched[i] <= 1
    BY DEF HandedOnce
  <2>1. typed[i] \in Nat /\ typed[i] <= 1
    BY <1>3, CountFacts DEF Safe, OnceInvariant, Kept
  <2>2. launched[i] = 0 \/ (launched[i] = 1 /\ typed[i] = 0)
    BY <1>3 DEF FirstHostInvariant, OnlyLaunched
  <2> QED BY <2>1, <2>2
<1> QED BY <1>1, <1>2, <1>3, SafeInvariant, PTL DEF Spec
=============================================================================

----------------------- MODULE AnalysisPipelineProofs -----------------------
(***************************************************************************)
(* Proofs about AnalysisPipeline for any set of recordings, any number of  *)
(* requests in flight and every capacity of the channel.                   *)
(*                                                                         *)
(* Beside the three properties the invariant says who holds which lock and *)
(* where the thread is in its loop: the turns it has left never exceed the *)
(* names that wait, because only the thread takes names off.               *)
(***************************************************************************)
EXTENDS AnalysisPipeline, FiniteSetTheorems, TLAPS

Working == {"open", "head", "rows", "finish"}

\* A request that is under way holds the status lock, one that waits for room the
\* store's too; the diag task holds the store's while it announces.
LockInv ==
    /\ \A c \in Clients :
          /\ (statusLock = c) <=> (client[c].pc # "idle")
          /\ (storeLock = c) => (client[c].pc = "send")
          /\ client[c].pc # "idle" => client[c].name \in Names
    /\ (storeLock = Diag) <=> (diag = "announce")
    /\ diag = "announce" => live # None

\* Something runs exactly in the middle of a turn, and each turn left has a name.
ThreadInv ==
    /\ thread.pc \in {"recv", "note", "count", "dequeue"} => running = None
    /\ thread.pc \in Working \cup {"panicked"} => running # None
    /\ thread.pc = "note" => thread.arg \in Names
    /\ thread.pc = "dequeue" => thread.arg >= 1 /\ Len(queued) >= thread.arg
    /\ thread.pc \in Working => thread.arg >= 1 /\ Len(queued) + 1 >= thread.arg

\* A report of a recording in which something was found reads clean only between
\* its first line and its rows.  The recording in progress is the newest one, so
\* the one that is analysed was already in progress when its report was cleared.
ReportInv ==
    /\ \A n \in entries \cup suspicious : n <= clock
    /\ thread.pc \in {"head", "rows"} =>
          running <= clock /\ (running = live => running \in spoiled)
    /\ \A n \in (entries \cap suspicious) \ spoiled :
          report[n] = "clean" => n = running /\ thread.pc = "rows"

\* The inductive invariant.
IInv ==
    TypeOK /\ LockInv /\ ThreadInv /\ AnalysedOnce /\ WaitingIsCounted /\ ReportInv

-----------------------------------------------------------------------------
(* Sequences.                                                              *)

\* An element that is not in a sequence without repetition can be appended.
LEMMA AppendOnce ==
    ASSUME NEW S, NEW s \in Seq(S), NEW n \in S,
           \A i, j \in DOMAIN s : s[i] = s[j] => i = j,
           \A i \in DOMAIN s : s[i] # n
    PROVE  /\ Append(s, n) \in Seq(S) /\ Len(Append(s, n)) = Len(s) + 1
           /\ \A i \in DOMAIN Append(s, n) : Append(s, n)[i] = n \/ \E j \in DOMAIN s : s[j] = Append(s, n)[i]
           /\ \A i, j \in DOMAIN Append(s, n) : Append(s, n)[i] = Append(s, n)[j] => i = j
  OBVIOUS

\* The tail of a sequence without repetition has none, and not the head.
LEMMA TailOnce ==
    ASSUME NEW S, NEW s \in Seq(S), s # <<>>,
           \A i, j \in DOMAIN s : s[i] = s[j] => i = j
    PROVE  /\ Tail(s) \in Seq(S) /\ Len(Tail(s)) = Len(s) - 1 /\ Head(s) \in S
           /\ \A i, j \in DOMAIN Tail(s) : Tail(s)[i] = Tail(s)[j] => i = j
           /\ \A i \in DOMAIN Tail(s) : Tail(s)[i] # Head(s)
<1>1. /\ Tail(s) \in Seq(S) /\ Len(Tail(s)) = Len(s) - 1 /\ Head(s) \in S /\ Len(s) \in Nat \ {0}
  OBVIOUS
<1>2. \A i \in DOMAIN Tail(s) : i + 1 \in DOMAIN s /\ Tail(s)[i] = s[i + 1] /\ i \in Nat \ {0}
  OBVIOUS
<1>3. Head(s) = s[1] /\ 1 \in DOMAIN s
  BY <1>1
<1> QED BY <1>1, <1>2, <1>3

\* What a channel holds is still there when a message is appended, and so is the
\* message.
LEMMA AppendKeeps ==
    ASSUME NEW S, NEW s \in Seq(S), NEW m \in S
    PROVE  /\ Append(s, m) \in Seq(S) /\ Len(Append(s, m)) = Len(s) + 1
           /\ \E i \in DOMAIN Append(s, m) : Append(s, m)[i] = m
           /\ \A x : (\E i \in DOMAIN s : s[i] = x) =>
                     \E i \in DOMAIN Append(s, m) : Append(s, m)[i] = x
<1>1. /\ Append(s, m) \in Seq(S) /\ Len(Append(s, m)) = Len(s) + 1 /\ Len(s) \in Nat
      /\ DOMAIN Append(s, m) = 1..(Len(s) + 1)
  OBVIOUS
<1>2. Append(s, m)[Len(s) + 1] = m /\ Len(s) + 1 \in DOMAIN Append(s, m)
  BY <1>1
<1>3. \A i \in DOMAIN s : i \in DOMAIN Append(s, m) /\ Append(s, m)[i] = s[i]
  BY <1>1
<1> QED BY <1>1, <1>2, <1>3

\* What a channel holds is its head or in its tail.
LEMMA HeadOrTail ==
    ASSUME NEW S, NEW s \in Seq(S), s # <<>>
    PROVE  /\ Tail(s) \in Seq(S) /\ Len(Tail(s)) <= Len(s) /\ Head(s) \in S
           /\ \A x : (\E i \in DOMAIN s : s[i] = x) =>
                     x = Head(s) \/ \E i \in DOMAIN Tail(s) : Tail(s)[i] = x
<1>1. /\ Tail(s) \in Seq(S) /\ Len(Tail(s)) = Len(s) - 1 /\ Head(s) = s[1]
      /\ Len(s) \in Nat \ {0} /\ s[1] \in S /\ DOMAIN Tail(s) = 1..(Len(s) - 1)
  OBVIOUS
<1>2. ASSUME NEW i \in DOMAIN s
      PROVE  s[i] = Head(s) \/ \E j \in DOMAIN Tail(s) : Tail(s)[j] = s[i]
  <2>1. CASE i = 1
    BY <1>1, <2>1
  <2>2. CASE i # 1
    <3>1. i - 1 \in DOMAIN Tail(s) /\ Tail(s)[i - 1] = s[i]
      BY <1>1, <2>2
    <3> QED BY <3>1
  <2> QED BY <2>1, <2>2
<1> QED BY <1>1, <1>2

\* Recordings are numbered from 1.
LEMMA NamesArePositive == Names \subseteq Nat /\ None \notin Names
  BY OldAssumption DEF None

\* Where the thread can be put.
LEMMA AtTyped ==
    ASSUME NEW pc, NEW arg
    PROVE  At(pc, arg).pc = pc /\ At(pc, arg).arg = arg
  BY DEF At

-----------------------------------------------------------------------------
(* Requests.                                                               *)

\* A step of the requests does nothing to the recordings or the thread, so the
\* reports stay as true as they were.
LEMMA ReportSame ==
    ASSUME ReportInv,
           UNCHANGED <<entries, clock, live, report, suspicious, spoiled, running, thread>>
    PROVE  ReportInv'
  BY DEF ReportInv

\* start_analysis takes the status lock.
LEMMA StartAnalysisKeeps ==
    ASSUME IInv, NEW c \in Clients, NEW n \in Names, StartAnalysis(c, n)
    PROVE  IInv'
<1>1. /\ client' = [client EXCEPT ![c] = [pc |-> "store", name |-> n]]
      /\ statusLock' = c /\ statusLock = Free /\ asked' = asked + 1 /\ asked < MaxRequests
      /\ client[c].pc = "idle"
      /\ UNCHANGED <<lost, storeLock, status, channel, thread, recordings, diag>>
  BY DEF StartAnalysis
<1>2. /\ client' \in [Clients -> [pc: {"idle", "store", "send"}, name: Names \cup {None}]]
      /\ client'[c] = [pc |-> "store", name |-> n]
      /\ \A x \in Clients : x # c => client'[x] = client[x]
  BY <1>1 DEF IInv, TypeOK
<1>3. TypeOK'
  <2>1. asked' \in 0..MaxRequests
    BY <1>1, CapacityAssumption DEF IInv, TypeOK
  <2> QED BY <1>1, <1>2, <2>1 DEF IInv, TypeOK, status, recordings
<1>4. LockInv'
  <2>1. \A x \in Clients : client[x].pc = "idle" /\ storeLock # x
    BY <1>1, ClientsAssumption DEF IInv, LockInv
  <2> QED BY <1>1, <1>2, <2>1 DEF IInv, LockInv, recordings
<1>5. ThreadInv' /\ AnalysedOnce'
  BY <1>1 DEF IInv, ThreadInv, AnalysedOnce, IsQueued, status
<1>6. WaitingIsCounted'
  <2>1. \A x \in Clients : client[x].pc = "send" => client'[x].pc = "send"
    BY <1>1, <1>2
  <2> QED BY <1>1, <2>1 DEF IInv, WaitingIsCounted, Gone, status
<1>7. ReportInv'
  BY <1>1, ReportSame DEF IInv, recordings, status
<1> QED BY <1>3, <1>4, <1>5, <1>6, <1>7 DEF IInv

\* The request is answered, and whoever held its locks holds them no longer.
LEMMA AnswerEffect ==
    ASSUME IInv, NEW c \in Clients, client[c].pc # "idle", Answer(c),
           UNCHANGED <<diag, live>>
    PROVE  /\ client' \in [Clients -> [pc: {"idle", "store", "send"}, name: Names \cup {None}]]
           /\ statusLock' = Free /\ storeLock' \in {Free, Diag} \cup Clients
           /\ client'[c].pc = "idle"
           /\ \A x \in Clients : x # c => client'[x] = client[x] /\ client[x].pc = "idle"
           /\ LockInv'
<1>1. /\ client' \in [Clients -> [pc: {"idle", "store", "send"}, name: Names \cup {None}]]
      /\ client'[c] = [pc |-> "idle", name |-> None]
      /\ \A x \in Clients : x # c => client'[x] = client[x]
  BY DEF Answer, IInv, TypeOK
<1>2. \A x \in Clients : x # c => client[x].pc = "idle"
  BY DEF IInv, LockInv
<1>3. statusLock' = Free /\ storeLock' = IF storeLock = c THEN Free ELSE storeLock
  BY DEF Answer
<1>4. storeLock' \in {Free, Diag} \cup Clients
  BY <1>3 DEF IInv, TypeOK
<1>5. Free # Diag /\ \A x \in Clients : x # Free /\ x # Diag
  BY ClientsAssumption DEF Free, Diag
<1>6. LockInv'
  BY <1>1, <1>2, <1>3, <1>5 DEF IInv, LockInv
<1> QED BY <1>1, <1>2, <1>3, <1>4, <1>6

\* The rest of start_analysis: the name is queued once, and the thread is told or
\* the request waits to tell it.
LEMMA QueueKeeps ==
    ASSUME IInv, NEW c \in Clients, Queue(c)
    PROVE  IInv'
<1> DEFINE n == client[c].name
<1>1. /\ client[c].pc = "store" /\ storeLock = Free /\ queued' = QueueQmdl(n)
      /\ UNCHANGED <<asked, lost, running, finished, thread, recordings, diag>>
  BY DEF Queue
<1>2. n \in Names /\ statusLock = c
  BY <1>1 DEF IInv, LockInv
<1> HIDE DEF n
<1>3. /\ queued' \in Seq(Names) /\ Len(queued') >= Len(queued) /\ AnalysedOnce'
      /\ Len(queued) \in Nat /\ Len(queued') \in Nat
  <2>1. queued \in Seq(Names) /\ Len(queued) \in Nat
    BY DEF IInv, TypeOK
  <2>2. CASE IsQueued(n) \/ running = n
    BY <1>1, <2>1, <2>2 DEF QueueQmdl, IInv, AnalysedOnce, IsQueued
  <2>3. CASE ~(IsQueued(n) \/ running = n)
    <3>1. queued' = Append(queued, n)
      BY <1>1, <2>3 DEF QueueQmdl
    <3>2. /\ \A i, j \in DOMAIN queued : queued[i] = queued[j] => i = j
          /\ \A i \in DOMAIN queued : queued[i] # n
      BY <2>3 DEF IInv, AnalysedOnce, IsQueued
    <3>3. /\ queued' \in Seq(Names) /\ Len(queued') = Len(queued) + 1
          /\ \A i \in DOMAIN queued' : queued'[i] = n \/ \E j \in DOMAIN queued : queued[j] = queued'[i]
          /\ \A i, j \in DOMAIN queued' : queued'[i] = queued'[j] => i = j
      BY <1>2, <2>1, <3>1, <3>2, AppendOnce
    <3>4. running # None => \A i \in DOMAIN queued' : queued'[i] # running
      BY <2>3, <3>3 DEF IInv, AnalysedOnce, IsQueued
    <3> QED BY <1>1, <2>1, <3>3, <3>4 DEF AnalysedOnce, IsQueued
  <2> QED BY <2>2, <2>3
<1>4. ThreadInv'
  BY <1>1, <1>3 DEF IInv, TypeOK, ThreadInv
<1>5. ReportInv'
  BY <1>1, ReportSame DEF IInv, recordings
<1>6. /\ channel \in Seq(Message) /\ NewFilesQueued \in Message
      /\ Len(channel) \in Nat /\ Len(channel) <= Capacity /\ Capacity \in Nat
  BY CapacityAssumption DEF IInv, TypeOK, Message, NewFilesQueued
<1>7. UNCHANGED <<diag, live>>
  BY <1>1 DEF recordings
<1>8. CASE queued' = queued \/ Gone
  <2>1. Answer(c) /\ UNCHANGED channel
    BY <1>8 DEF Queue
  <2>2. /\ client' \in [Clients -> [pc: {"idle", "store", "send"}, name: Names \cup {None}]]
        /\ statusLock' = Free /\ storeLock' \in {Free, Diag} \cup Clients /\ LockInv'
        /\ \A x \in Clients : x # c => client'[x] = client[x]
    BY <1>1, <1>7, <2>1, AnswerEffect
  <2>3. TypeOK'
    BY <1>1, <1>3, <2>1, <2>2 DEF IInv, TypeOK, recordings
  <2>4. WaitingIsCounted'
    <3>1. \A x \in Clients : client[x].pc = "send" => client'[x].pc = "send"
      BY <1>1, <2>2
    <3> QED BY <1>1, <1>8, <2>1, <3>1 DEF IInv, WaitingIsCounted, Gone
  <2> QED BY <1>3, <1>4, <1>5, <2>2, <2>3, <2>4 DEF IInv
<1>9. CASE ~(queued' = queued \/ Gone) /\ Room
  <2>1. Answer(c) /\ channel' = Append(channel, NewFilesQueued)
    BY <1>9 DEF Queue
  <2>2. /\ client' \in [Clients -> [pc: {"idle", "store", "send"}, name: Names \cup {None}]]
        /\ statusLock' = Free /\ storeLock' \in {Free, Diag} \cup Clients /\ LockInv'
    BY <1>1, <1>7, <2>1, AnswerEffect
  <2>3. /\ channel' \in Seq(Message) /\ Len(channel') = Len(channel) + 1
        /\ \E i \in DOMAIN channel' : channel'[i] = NewFilesQueued
    BY <1>6, <2>1, AppendKeeps
  <2>4. TypeOK'
    <3>1. Len(channel') <= Capacity
      BY <1>6, <1>9, <2>3 DEF Room
    <3> QED BY <1>1, <1>3, <2>2, <2>3, <3>1 DEF IInv, TypeOK, recordings
  <2>5. WaitingIsCounted'
    BY <2>3 DEF WaitingIsCounted, NewFilesQueued
  <2> QED BY <1>3, <1>4, <1>5, <2>2, <2>4, <2>5 DEF IInv
<1>10. CASE ~(queued' = queued \/ Gone) /\ ~Room
  <2>1. /\ storeLock' = c /\ client' = [client EXCEPT ![c].pc = "send"]
        /\ UNCHANGED <<statusLock, channel>>
    BY <1>10 DEF Queue
  <2>2. /\ client' \in [Clients -> [pc: {"idle", "store", "send"}, name: Names \cup {None}]]
        /\ client'[c].pc = "send" /\ client'[c].name = n
        /\ \A x \in Clients : x # c => client'[x] = client[x]
    BY <2>1 DEF IInv, TypeOK, n
  <2>3. TypeOK'
    BY <1>1, <1>3, <2>1, <2>2 DEF IInv, TypeOK, recordings
  <2>4. LockInv'
    <3>1. c # Diag /\ Free # Diag
      BY ClientsAssumption DEF Free, Diag
    <3>2. diag # "announce"
      BY <1>1, <3>1 DEF IInv, LockInv
    <3>3. \A x \in Clients : x # c => client[x].pc = "idle"
      BY <1>2 DEF IInv, LockInv
    <3> QED BY <1>1, <1>2, <1>7, <2>1, <2>2, <3>1, <3>2, <3>3 DEF LockInv
  <2>5. WaitingIsCounted'
    BY <2>2 DEF WaitingIsCounted
  <2> QED BY <1>3, <1>4, <1>5, <2>3, <2>4, <2>5 DEF IInv
<1> QED BY <1>8, <1>9, <1>10

\* The request tells the thread, or its client hangs up.
LEMMA SendOrHangUpKeeps ==
    ASSUME IInv, NEW c \in Clients, SendNewFilesQueued(c) \/ HangUp(c)
    PROVE  IInv'
<1>1. /\ client[c].pc # "idle" /\ Answer(c)
      /\ UNCHANGED <<asked, status, thread, recordings, diag>>
  BY DEF SendNewFilesQueued, HangUp
<1>2. UNCHANGED <<diag, live, queued, running, finished>>
  BY <1>1 DEF recordings, status
<1>3. /\ client' \in [Clients -> [pc: {"idle", "store", "send"}, name: Names \cup {None}]]
      /\ statusLock' = Free /\ storeLock' \in {Free, Diag} \cup Clients /\ LockInv'
      /\ \A x \in Clients : x # c => client'[x] = client[x]
  BY <1>1, <1>2, AnswerEffect
<1>4. ThreadInv' /\ AnalysedOnce'
  BY <1>1, <1>2 DEF IInv, ThreadInv, AnalysedOnce, IsQueued
<1>5. ReportInv'
  BY <1>1, <1>2, ReportSame DEF IInv, recordings
<1>6. /\ channel \in Seq(Message) /\ NewFilesQueued \in Message
      /\ Len(channel) \in Nat /\ Len(channel) <= Capacity /\ Capacity \in Nat
  BY CapacityAssumption DEF IInv, TypeOK, Message, NewFilesQueued
<1>7. CASE SendNewFilesQueued(c)
  <2>1. CASE Gone
    <3>1. channel' = channel /\ lost' = lost
      BY <1>7, <2>1 DEF SendNewFilesQueued
    <3>2. TypeOK'
      BY <1>1, <1>2, <1>3, <3>1 DEF IInv, TypeOK, recordings
    <3>3. WaitingIsCounted'
      BY <1>1, <2>1 DEF WaitingIsCounted, Gone
    <3> QED BY <1>3, <1>4, <1>5, <3>2, <3>3 DEF IInv
  <2>2. CASE ~Gone
    <3>1. channel' = Append(channel, NewFilesQueued) /\ lost' = lost /\ Room
      BY <1>7, <2>2 DEF SendNewFilesQueued
    <3>2. /\ channel' \in Seq(Message) /\ Len(channel') = Len(channel) + 1
          /\ \E i \in DOMAIN channel' : channel'[i] = NewFilesQueued
      BY <1>6, <3>1, AppendKeeps
    <3>3. Len(channel') <= Capacity
      BY <1>6, <3>1, <3>2 DEF Room
    <3>4. TypeOK'
      BY <1>1, <1>2, <1>3, <3>1, <3>2, <3>3 DEF IInv, TypeOK, recordings
    <3>5. WaitingIsCounted'
      BY <3>2 DEF WaitingIsCounted, NewFilesQueued
    <3> QED BY <1>3, <1>4, <1>5, <3>4, <3>5 DEF IInv
  <2> QED BY <2>1, <2>2
<1>8. CASE HangUp(c)
  <2>1. lost' = (lost \/ client[c].pc = "send") /\ channel' = channel
    BY <1>8 DEF HangUp
  <2>2. lost' \in BOOLEAN
    BY <2>1 DEF IInv, TypeOK
  <2>3. TypeOK'
    BY <1>1, <1>2, <1>3, <2>1, <2>2 DEF IInv, TypeOK, recordings
  <2>4. WaitingIsCounted'
    <3>1. ~lost' => ~lost /\ client[c].pc # "send"
      BY <2>1 DEF IInv, TypeOK
    <3>2. ~lost' => \A x \in Clients : client[x].pc = "send" => client'[x].pc = "send"
      BY <1>3, <3>1
    <3> QED BY <1>1, <1>2, <2>1, <3>1, <3>2 DEF IInv, WaitingIsCounted, Gone
  <2> QED BY <1>3, <1>4, <1>5, <2>3, <2>4 DEF IInv
<1> QED BY <1>7, <1>8

-----------------------------------------------------------------------------
(* The thread.                                                             *)

\* The thread takes a message: one that announces names makes it count.
LEMMA RecvKeeps ==
    ASSUME IInv, Recv
    PROVE  IInv'
<1>1. /\ thread.pc = "recv" /\ channel # <<>> /\ channel' = Tail(channel)
      /\ thread' = IF Head(channel).kind = "new" THEN At("count", 0)
                   ELSE At("note", Head(channel).name)
      /\ UNCHANGED <<asked, lost, locks, status, client, recordings, diag>>
  BY DEF Recv
<1>2. /\ channel \in Seq(Message) /\ Len(channel) \in Nat /\ Len(channel) <= Capacity
      /\ Capacity \in Nat
  BY CapacityAssumption DEF IInv, TypeOK
<1>3. /\ channel' \in Seq(Message) /\ Len(channel') <= Len(channel) /\ Head(channel) \in Message
      /\ \A x : (\E i \in DOMAIN channel : channel[i] = x) =>
                x = Head(channel) \/ \E i \in DOMAIN channel' : channel'[i] = x
  BY <1>1, <1>2, HeadOrTail
<1>4. /\ thread'.pc \in {"count", "note"} /\ thread'.arg \in Nat
      /\ thread'.pc = "note" => thread'.arg \in Names
      /\ Head(channel) = NewFilesQueued => thread'.pc = "count"
      /\ thread' \in [pc: {"recv", "note", "count", "dequeue", "open", "head",
                           "rows", "finish", "panicked"}, arg: Nat]
  <2>1. CASE Head(channel).kind = "new"
    <3>1. thread' = At("count", 0)
      BY <1>1, <2>1
    <3> QED BY <3>1 DEF At
  <2>2. CASE Head(channel).kind # "new"
    <3>1. thread' = At("note", Head(channel).name)
      BY <1>1, <2>2
    <3>2. Head(channel).name \in Names /\ Head(channel) # NewFilesQueued
      BY <1>3, <2>2 DEF Message, NewFilesQueued
    <3> QED BY <3>1, <3>2, NamesArePositive DEF At
  <2> QED BY <2>1, <2>2
<1>5. TypeOK'
  <2>1. Len(channel') <= Capacity
    <3>1. Len(channel') \in Nat
      BY <1>3
    <3> QED BY <1>2, <1>3, <3>1
  <2> QED BY <1>1, <1>3, <1>4, <2>1 DEF IInv, TypeOK, locks, status, recordings
<1>6. LockInv' /\ AnalysedOnce'
  BY <1>1 DEF IInv, LockInv, AnalysedOnce, IsQueued, locks, status, recordings
<1>7. ThreadInv'
  BY <1>1, <1>4 DEF IInv, ThreadInv, status, Working
<1>8. WaitingIsCounted'
  <2>1. CASE Head(channel) = NewFilesQueued
    BY <1>4, <2>1 DEF WaitingIsCounted
  <2>2. CASE Head(channel) # NewFilesQueued
    <3>1. (\E i \in DOMAIN channel : channel[i] = NewFilesQueued) =>
             \E i \in DOMAIN channel' : channel'[i] = NewFilesQueued
      BY <1>3, <2>2
    <3> QED BY <1>1, <3>1 DEF IInv, WaitingIsCounted, Gone, status, NewFilesQueued
  <2> QED BY <2>1, <2>2
<1>9. ReportInv'
  BY <1>1, <1>4 DEF IInv, ReportInv, recordings, status
<1> QED BY <1>5, <1>6, <1>7, <1>8, <1>9 DEF IInv

\* A loop of count turns has as many turns, or is over.
LEMMA LoopTyped ==
    ASSUME NEW count \in Nat
    PROVE  /\ Loop(count) \in [pc: {"recv", "dequeue"}, arg: Nat]
           /\ Loop(count).arg = count
           /\ Loop(count).pc = IF count = 0 THEN "recv" ELSE "dequeue"
  BY DEF Loop, At

\* Noting a finished recording, and counting the names that wait.
LEMMA NoteOrCountKeeps ==
    ASSUME IInv, NoteFinished \/ QueuedLen
    PROVE  IInv'
<1>1. /\ UNCHANGED <<asked, lost, locks, queued, running, channel, client, recordings, diag>>
  BY DEF NoteFinished, QueuedLen, status
<1>2. queued \in Seq(Names) /\ Len(queued) \in Nat
  BY DEF IInv, TypeOK
<1>3. /\ thread' \in [pc: {"recv", "dequeue"}, arg: Nat]
      /\ thread'.pc = "recv" => thread.pc = "note" \/ queued = <<>>
      /\ thread'.pc = "dequeue" => thread'.arg = Len(queued) /\ thread'.arg >= 1
      /\ running = None /\ finished' \subseteq Names
  <2>1. CASE NoteFinished
    <3>1. /\ thread' = At("recv", 0) /\ thread.pc = "note"
          /\ finished' = finished \cup {thread.arg}
      BY <2>1 DEF NoteFinished
    <3>2. thread.arg \in Names /\ finished \subseteq Names /\ running = None
      BY <3>1 DEF IInv, ThreadInv, TypeOK
    <3> QED BY <3>1, <3>2 DEF At
  <2>2. CASE QueuedLen
    <3>1. thread' = Loop(Len(queued)) /\ thread.pc = "count" /\ UNCHANGED finished
      BY <2>2 DEF QueuedLen, status
    <3>2. /\ thread' \in [pc: {"recv", "dequeue"}, arg: Nat] /\ thread'.arg = Len(queued)
          /\ thread'.pc = IF Len(queued) = 0 THEN "recv" ELSE "dequeue"
      BY <1>2, <3>1, LoopTyped
    <3>3. Len(queued) = 0 => queued = <<>>
      BY <1>2
    <3>4. running = None /\ finished' \subseteq Names
      BY <3>1 DEF IInv, ThreadInv, TypeOK
    <3> QED BY <1>2, <3>2, <3>3, <3>4
  <2> QED BY <2>1, <2>2
<1>4. TypeOK'
  BY <1>1, <1>3 DEF IInv, TypeOK, locks, recordings
<1>5. LockInv' /\ AnalysedOnce'
  BY <1>1 DEF IInv, LockInv, AnalysedOnce, IsQueued, locks, recordings
<1>6. ThreadInv'
  BY <1>1, <1>2, <1>3 DEF ThreadInv, Working
<1>7. WaitingIsCounted'
  <2>1. CASE thread'.pc = "dequeue"
    BY <1>1, <1>2, <1>3, <2>1 DEF WaitingIsCounted
  <2>2. CASE thread'.pc = "recv" /\ thread.pc = "note"
    BY <1>1, <2>2 DEF IInv, WaitingIsCounted, Gone, NewFilesQueued
  <2>3. CASE queued = <<>>
    BY <1>1, <2>3 DEF WaitingIsCounted
  <2> QED BY <1>3, <2>1, <2>2, <2>3
<1>8. ReportInv'
  <2>1. running' = running /\ thread.pc \in {"note", "count"}
    BY <1>1 DEF NoteFinished, QueuedLen
  <2> QED BY <1>1, <1>3, <2>1 DEF IInv, ReportInv, recordings
<1> QED BY <1>4, <1>5, <1>6, <1>7, <1>8 DEF IInv

\* dequeue_to_running: there is a name, and it waits no longer.
LEMMA DequeueKeeps ==
    ASSUME IInv, DequeueToRunning
    PROVE  IInv'
<1>1. /\ thread.pc = "dequeue" /\ queued # <<>> /\ running = None
      /\ queued' = Tail(queued) /\ running' = Head(queued)
      /\ thread' = At("open", thread.arg)
      /\ UNCHANGED <<asked, lost, locks, finished, channel, client, recordings, diag>>
  BY DEF DequeueToRunning
<1>2. /\ queued \in Seq(Names) /\ Len(queued) \in Nat /\ thread.arg \in Nat
      /\ \A i, j \in DOMAIN queued : queued[i] = queued[j] => i = j
  BY DEF IInv, TypeOK, AnalysedOnce
<1>3. /\ queued' \in Seq(Names) /\ Len(queued') = Len(queued) - 1 /\ running' \in Names
      /\ \A i, j \in DOMAIN queued' : queued'[i] = queued'[j] => i = j
      /\ \A i \in DOMAIN queued' : queued'[i] # running'
  BY <1>1, <1>2, TailOnce
<1>4. /\ thread' \in [pc: {"open"}, arg: Nat] /\ thread'.arg = thread.arg
      /\ thread'.pc = "open"
  BY <1>1, <1>2 DEF At
<1>5. TypeOK'
  BY <1>1, <1>3, <1>4 DEF IInv, TypeOK, locks, recordings
<1>6. LockInv'
  BY <1>1 DEF IInv, LockInv, locks, recordings
<1>7. AnalysedOnce'
  BY <1>3 DEF AnalysedOnce, IsQueued
<1>8. ThreadInv'
  BY <1>1, <1>2, <1>3, <1>4, NamesArePositive DEF IInv, ThreadInv, Working
<1>9. WaitingIsCounted'
  <2>1. CASE thread.arg >= Len(queued)
    <3>1. thread'.arg > Len(queued')
      BY <1>2, <1>3, <1>4, <2>1
    <3> QED BY <1>4, <3>1 DEF WaitingIsCounted
  <2>2. CASE ~(thread.arg >= Len(queued))
    BY <1>1, <1>4, <2>2 DEF IInv, WaitingIsCounted, Gone, NewFilesQueued
  <2> QED BY <2>1, <2>2
<1>10. ReportInv'
  BY <1>1, <1>4 DEF IInv, ReportInv, recordings
<1> QED BY <1>5, <1>6, <1>7, <1>8, <1>9, <1>10 DEF IInv

\* In the middle of a turn the thread only writes reports: whatever it does to
\* them, the queue and the locks are as before.
LEMMA WorkStep ==
    ASSUME IInv, thread.pc \in Working,
           NEW pc \in Working \cup {"panicked"}, thread' = At(pc, thread.arg),
           channel' = IF pc = "panicked" THEN <<>> ELSE channel,
           report' \in [Names -> Report], clobbered' \in BOOLEAN, spoiled' \subseteq Names,
           UNCHANGED <<asked, lost, locks, status, client, diag, entries, clock, live,
                       suspicious, pruned>>
    PROVE  /\ TypeOK' /\ LockInv' /\ ThreadInv' /\ AnalysedOnce' /\ WaitingIsCounted'
           /\ thread'.pc = pc
<1>1. /\ thread'.pc = pc /\ thread'.arg = thread.arg /\ thread.arg \in Nat
      /\ thread' \in [pc: {"recv", "note", "count", "dequeue", "open", "head",
                           "rows", "finish", "panicked"}, arg: Nat]
  BY DEF At, IInv, TypeOK, Working
<1>2. UNCHANGED <<queued, running, finished>>
  BY DEF status
<1>3. channel' \in Seq(Message) /\ Len(channel') <= Capacity
  <2>1. CASE pc = "panicked"
    BY <2>1, CapacityAssumption
  <2>2. CASE pc # "panicked"
    BY <2>2 DEF IInv, TypeOK
  <2> QED BY <2>1, <2>2
<1>4. TypeOK'
  BY <1>1, <1>2, <1>3 DEF IInv, TypeOK, locks
<1>5. LockInv' /\ AnalysedOnce'
  BY <1>2 DEF IInv, LockInv, AnalysedOnce, IsQueued, locks
<1>6. ThreadInv'
  BY <1>1, <1>2 DEF IInv, ThreadInv, Working
<1>7. WaitingIsCounted'
  <2>1. CASE pc = "panicked"
    BY <1>1, <2>1 DEF WaitingIsCounted, Gone
  <2>2. CASE pc # "panicked"
    BY <1>1, <1>2, <2>2 DEF IInv, WaitingIsCounted, Gone, Working, NewFilesQueued
  <2> QED BY <2>1, <2>2
<1> QED BY <1>1, <1>4, <1>5, <1>6, <1>7

\* What is written is a report.
LEMMA WrittenTyped ==
    ASSUME IInv, NEW n \in Names, NEW r \in Report
    PROVE  Written(n, r) \in Report /\ (Written(n, r) = "clean" => r = "clean")
  BY DEF Written, IInv, TypeOK, Report

\* perform_analysis clears the report first; of the recording in progress it is
\* remembered that its report may not be true.
LEMMA OpenAndClearKeeps ==
    ASSUME IInv, NEW readable \in BOOLEAN, OpenAndClear(readable)
    PROVE  IInv'
<1> DEFINE there == running \in entries /\ report[running] # "none"
           pc == IF there /\ readable THEN "head" ELSE "finish"
<1>1. /\ thread.pc = "open" /\ thread' = At(pc, thread.arg)
      /\ report' = IF there THEN [report EXCEPT ![running] = "empty"] ELSE report
      /\ clobbered' = (clobbered \/ (there /\ running = live))
      /\ spoiled' = IF there /\ running = live THEN spoiled \cup {running} ELSE spoiled
      /\ UNCHANGED <<asked, lost, locks, status, channel, client, entries, clock,
                     live, suspicious, pruned, diag>>
  BY DEF OpenAndClear
<1>2. running \in Names /\ report \in [Names -> Report] /\ spoiled \subseteq Names
  BY <1>1 DEF IInv, ThreadInv, TypeOK, Working
<1>3. report' \in [Names -> Report] /\ spoiled' \subseteq Names
  BY <1>1, <1>2 DEF Report
<1>4. clobbered' \in BOOLEAN
  BY <1>1 DEF IInv, TypeOK
<1>5. pc \in {"head", "finish"} /\ (pc = "head" => there)
  OBVIOUS
<1> HIDE DEF pc, there
<1>6. /\ TypeOK' /\ LockInv' /\ ThreadInv' /\ AnalysedOnce' /\ WaitingIsCounted'
      /\ thread'.pc = pc
  BY <1>1, <1>3, <1>4, <1>5, WorkStep DEF Working
<1>7. running' = running
  BY <1>1 DEF status
<1>8. ReportInv'
  <2>1. \A n \in entries' \cup suspicious' : n <= clock'
    BY <1>1 DEF IInv, ReportInv
  <2>2. thread'.pc \in {"head", "rows"} =>
           running' <= clock' /\ (running' = live' => running' \in spoiled')
    BY <1>1, <1>5, <1>6, <1>7 DEF IInv, ReportInv, there
  <2>3. ASSUME NEW n \in (entries' \cap suspicious') \ spoiled'
        PROVE  report'[n] # "clean"
    <3>1. n \in (entries \cap suspicious) \ spoiled /\ n \in Names
      BY <1>1 DEF IInv, TypeOK
    <3>2. report[n] # "clean"
      BY <1>1, <3>1 DEF IInv, ReportInv
    <3> QED BY <1>1, <1>2, <3>1, <3>2
  <2> QED BY <2>1, <2>2, <2>3 DEF ReportInv
<1> QED BY <1>6, <1>8 DEF IInv

\* The first line, after which the report reads clean until its rows are there.
LEMMA WriteMetadataKeeps ==
    ASSUME IInv, NEW ok \in BOOLEAN, WriteMetadata(ok)
    PROVE  IInv'
<1> DEFINE pc == IF ok THEN "rows" ELSE "finish"
<1>1. /\ thread.pc = "head" /\ thread' = At(pc, thread.arg)
      /\ report' = IF ok THEN [report EXCEPT ![running] = Written(running, "clean")] ELSE report
      /\ UNCHANGED <<asked, lost, locks, status, channel, client, entries, clock, live,
                     clobbered, suspicious, pruned, spoiled, diag>>
  BY DEF WriteMetadata
<1>2. running \in Names /\ report \in [Names -> Report] /\ spoiled \subseteq Names
      /\ clobbered \in BOOLEAN
  BY <1>1 DEF IInv, ThreadInv, TypeOK, Working
<1>3. report' \in [Names -> Report]
  BY <1>1, <1>2, WrittenTyped DEF Report
<1>4. pc \in {"rows", "finish"} /\ (pc = "finish" => report' = report)
  BY <1>1
<1> HIDE DEF pc
<1>5. /\ TypeOK' /\ LockInv' /\ ThreadInv' /\ AnalysedOnce' /\ WaitingIsCounted'
      /\ thread'.pc = pc
  BY <1>1, <1>2, <1>3, <1>4, WorkStep DEF Working
<1>6. running' = running
  BY <1>1 DEF status
<1>7. ReportInv'
  <2>1. /\ \A n \in entries' \cup suspicious' : n <= clock'
        /\ running' <= clock' /\ (running' = live' => running' \in spoiled')
    BY <1>1, <1>6 DEF IInv, ReportInv
  <2>2. ASSUME NEW n \in (entries' \cap suspicious') \ spoiled', report'[n] = "clean"
        PROVE  n = running' /\ thread'.pc = "rows"
    <3>1. n \in (entries \cap suspicious) \ spoiled /\ n \in Names
      BY <1>1 DEF IInv, TypeOK
    <3>2. report[n] # "clean"
      BY <1>1, <3>1 DEF IInv, ReportInv
    <3> QED BY <1>1, <1>2, <1>4, <1>5, <1>6, <2>2, <3>1, <3>2
  <2> QED BY <2>1, <2>2 DEF ReportInv
<1> QED BY <1>5, <1>7 DEF IInv

\* The rows: when they are all there the report is true, else it is remembered that
\* it may not be.
LEMMA WriteRowsKeeps ==
    ASSUME IInv, NEW all \in BOOLEAN, NEW then \in {"finish", "failed", "panicked"},
           WriteRows(all, then)
    PROVE  IInv'
<1> DEFINE pc == IF then = "panicked" THEN "panicked" ELSE "finish"
<1>1. /\ thread.pc = "rows" /\ (all \/ running = live \/ then # "finish")
      /\ report' = IF all /\ running \in suspicious
                   THEN [report EXCEPT ![running] = Written(running, "warning")]
                   ELSE report
      /\ thread' = At(pc, thread.arg)
      /\ channel' = IF then = "panicked" THEN <<>> ELSE channel
      /\ spoiled' = IF then # "finish" THEN spoiled \cup {running}
                    ELSE IF all THEN spoiled \ {running} ELSE spoiled
      /\ UNCHANGED <<asked, lost, locks, status, client, entries, clock, live,
                     clobbered, suspicious, pruned, diag>>
  BY DEF WriteRows
<1>2. running \in Names /\ report \in [Names -> Report] /\ spoiled \subseteq Names
      /\ clobbered \in BOOLEAN
  BY <1>1 DEF IInv, ThreadInv, TypeOK, Working
<1>3. /\ Written(running, "warning") \in Report /\ Written(running, "warning") # "clean"
      /\ report' \in [Names -> Report] /\ spoiled' \subseteq Names
  BY <1>1, <1>2, WrittenTyped DEF Report
<1>4. pc \in {"panicked", "finish"} /\ (pc = "panicked" <=> then = "panicked")
  OBVIOUS
<1> HIDE DEF pc
<1>5. /\ TypeOK' /\ LockInv' /\ ThreadInv' /\ AnalysedOnce' /\ WaitingIsCounted'
      /\ thread'.pc = pc
  BY <1>1, <1>2, <1>3, <1>4, WorkStep DEF Working
<1>6. ReportInv'
  <2>1. \A n \in entries' \cup suspicious' : n <= clock'
    BY <1>1 DEF IInv, ReportInv
  <2>2. ASSUME NEW n \in (entries' \cap suspicious') \ spoiled'
        PROVE  report'[n] # "clean"
    <3>1. n \in entries \cap suspicious /\ n \in Names
      BY <1>1 DEF IInv, TypeOK
    <3>2. CASE n # running
      <4>1. n \notin spoiled /\ report'[n] = report[n]
        BY <1>1, <1>2, <3>1, <3>2
      <4> QED BY <3>1, <3>2, <4>1 DEF IInv, ReportInv
    <3>3. CASE n = running
      <4>1. then = "finish"
        BY <1>1, <3>3
      <4>2. all
        <5>1. running = live => running \in spoiled
          BY <1>1 DEF IInv, ReportInv
        <5> QED BY <1>1, <3>3, <4>1, <5>1
      <4>3. report'[running] = Written(running, "warning")
        BY <1>1, <1>2, <3>1, <3>3, <4>2
      <4> QED BY <1>3, <3>3, <4>3
    <3> QED BY <3>2, <3>3
  <2> QED BY <1>4, <1>5, <2>1, <2>2 DEF ReportInv
<1> QED BY <1>5, <1>6 DEF IInv

\* A turn ends: what ran does no longer, and the loop goes on or is over.
LEMMA FinishKeeps ==
    ASSUME IInv, FinishRunningAnalysis
    PROVE  IInv'
<1>1. /\ thread.pc = "finish" /\ finished' = finished \cup {running} /\ running' = None
      /\ thread' = Loop(thread.arg - 1)
      /\ UNCHANGED <<asked, lost, locks, queued, channel, client, recordings, diag>>
  BY DEF FinishRunningAnalysis
<1>2. /\ running \in Names /\ finished \subseteq Names /\ queued \in Seq(Names)
      /\ Len(queued) \in Nat /\ thread.arg \in Nat /\ thread.arg >= 1
      /\ Len(queued) + 1 >= thread.arg
  BY <1>1 DEF IInv, TypeOK, ThreadInv, Working
<1>3. /\ thread' \in [pc: {"recv", "dequeue"}, arg: Nat] /\ thread'.arg = thread.arg - 1
      /\ thread'.pc = IF thread.arg - 1 = 0 THEN "recv" ELSE "dequeue"
  BY <1>1, <1>2, LoopTyped
<1>4. TypeOK'
  BY <1>1, <1>2, <1>3 DEF IInv, TypeOK, locks, recordings
<1>5. LockInv' /\ AnalysedOnce'
  BY <1>1 DEF IInv, LockInv, AnalysedOnce, IsQueued, locks, recordings
<1>6. ThreadInv'
  BY <1>1, <1>2, <1>3 DEF ThreadInv, Working
<1>7. WaitingIsCounted'
  <2>1. CASE thread.arg > Len(queued)
    <3>1. thread'.pc = "recv" => queued = <<>>
      BY <1>2, <1>3, <2>1
    <3>2. thread'.pc = "dequeue" => thread'.arg >= Len(queued)
      BY <1>2, <1>3, <2>1
    <3> QED BY <1>1, <1>3, <3>1, <3>2 DEF WaitingIsCounted
  <2>2. CASE ~(thread.arg > Len(queued))
    BY <1>1, <2>2 DEF IInv, WaitingIsCounted, Gone, NewFilesQueued
  <2> QED BY <2>1, <2>2
<1>8. ReportInv'
  BY <1>1, <1>3 DEF IInv, ReportInv, recordings
<1> QED BY <1>4, <1>5, <1>6, <1>7, <1>8 DEF IInv

-----------------------------------------------------------------------------
(* The diag task.                                                          *)

\* What the diag task does to the recordings leaves queue, thread and requests.
LEMMA DiagFrame ==
    ASSUME IInv, UNCHANGED <<asked, lost, statusLock, status, thread, client>>,
           channel' \in Seq(Message), Len(channel') <= Capacity,
           (\E i \in DOMAIN channel : channel[i] = NewFilesQueued) =>
               \E i \in DOMAIN channel' : channel'[i] = NewFilesQueued,
           storeLock' \in {Free, Diag} \cup Clients, diag' \in {"idle", "announce"},
           entries' \subseteq Names, clock' \in Names \cup {None},
           live' \in entries' \cup {None}, report' \in [Names -> Report],
           clobbered' \in BOOLEAN, suspicious' \subseteq Names, pruned' \subseteq Names,
           UNCHANGED spoiled
    PROVE  TypeOK' /\ ThreadInv' /\ AnalysedOnce' /\ WaitingIsCounted'
<1>1. UNCHANGED <<queued, running, finished>>
  BY DEF status
<1>2. TypeOK'
  BY <1>1 DEF IInv, TypeOK
<1>3. ThreadInv' /\ AnalysedOnce'
  BY <1>1 DEF IInv, ThreadInv, AnalysedOnce, IsQueued
<1>4. WaitingIsCounted'
  BY <1>1 DEF IInv, WaitingIsCounted, Gone, NewFilesQueued
<1> QED BY <1>2, <1>3, <1>4

\* A new recording is later than everything there is, and nothing was found in it.
LEMMA StartNewEffect ==
    ASSUME IInv, NEW n \in Fresh, StartNew(n),
           UNCHANGED <<suspicious, spoiled, running, thread>>
    PROVE  /\ n \in Names /\ entries' \subseteq Names /\ clock' \in Names \cup {None}
           /\ live' \in entries' \cup {None} /\ report' \in [Names -> Report]
           /\ clobbered' \in BOOLEAN
           /\ live' # None /\ ReportInv'
<1>1. /\ n \in Names /\ n = clock + 1 /\ clock \in Nat
  BY NamesArePositive DEF Fresh, IInv, TypeOK, None
<1>2. /\ entries' = entries \cup {n} /\ clock' = n /\ live' = n
      /\ report' = [report EXCEPT ![n] = "clean"] /\ clobbered' = FALSE
  BY DEF StartNew
<1>3. report \in [Names -> Report] /\ entries \subseteq Names /\ suspicious \subseteq Names
  BY DEF IInv, TypeOK
<1>4. \A m \in entries \cup suspicious : m \in Nat /\ m <= clock
  BY <1>3, NamesArePositive DEF IInv, ReportInv
<1>5. ReportInv'
  <2>1. \A m \in entries' \cup suspicious' : m <= clock'
    BY <1>1, <1>2, <1>4
  <2>2. thread'.pc \in {"head", "rows"} =>
           running' <= clock' /\ (running' = live' => running' \in spoiled')
    <3>1. running \in Nat
      BY NamesArePositive DEF IInv, TypeOK, None
    <3> QED BY <1>1, <1>2, <3>1 DEF IInv, ReportInv
  <2>3. ASSUME NEW m \in (entries' \cap suspicious') \ spoiled', report'[m] = "clean"
        PROVE  m = running' /\ thread'.pc = "rows"
    <3>1. m # n
      BY <1>1, <1>4
    <3>2. m \in (entries \cap suspicious) \ spoiled /\ report[m] = "clean"
      BY <1>2, <1>3, <2>3, <3>1
    <3> QED BY <3>2 DEF IInv, ReportInv
  <2> QED BY <2>1, <2>2, <2>3 DEF ReportInv
<1> QED BY <1>1, <1>2, <1>3, <1>5, NamesArePositive DEF Report

\* The handlers of the diag task.
LEMMA DiagStepKeeps ==
    ASSUME IInv, DiagStep
    PROVE  IInv'
<1>1. /\ channel \in Seq(Message) /\ Len(channel) <= Capacity /\ Len(channel) \in Nat
      /\ storeLock \in {Free, Diag} \cup Clients /\ diag \in {"idle", "announce"}
      /\ entries \subseteq Names /\ clock \in Names \cup {None} /\ live \in entries \cup {None}
      /\ report \in [Names -> Report] /\ clobbered \in BOOLEAN /\ suspicious \subseteq Names
      /\ pruned \subseteq Names /\ Capacity \in Nat
  BY CapacityAssumption DEF IInv, TypeOK
<1>2. Free # Diag /\ \A c \in Clients : c # Free /\ c # Diag
  BY ClientsAssumption DEF Free, Diag
<1>3. ASSUME NEW n \in Names, DiagStart(n) PROVE IInv'
  <2>1. /\ live = None /\ storeLock = Free /\ n \in Fresh /\ StartNew(n)
        /\ UNCHANGED <<asked, lost, statusLock, storeLock, status, running, channel, thread,
                       client, suspicious, pruned, spoiled, diag>>
    BY <1>3 DEF DiagStart, locks, status
  <2>2. /\ entries' \subseteq Names /\ clock' \in Names \cup {None}
        /\ live' \in entries' \cup {None} /\ report' \in [Names -> Report]
        /\ clobbered' \in BOOLEAN /\ live' # None /\ ReportInv'
    BY <2>1, StartNewEffect
  <2>3. TypeOK' /\ ThreadInv' /\ AnalysedOnce' /\ WaitingIsCounted'
    BY <1>1, <2>1, <2>2, DiagFrame
  <2>4. LockInv'
    BY <2>1, <2>2 DEF IInv, LockInv
  <2> QED BY <2>2, <2>3, <2>4 DEF IInv
<1>4. ASSUME NEW n \in Names, DiagPrune(n) \/ DeleteByRequest(n) PROVE IInv'
  <2>1. /\ Remove(n) /\ n # live /\ pruned' \subseteq Names
        /\ UNCHANGED <<asked, lost, statusLock, storeLock, status, channel, thread, client,
                       clock, live, clobbered, suspicious, spoiled, diag>>
    BY <1>1, <1>4 DEF DiagPrune, DeleteByRequest, VerdictIsClean, locks
  <2>2. /\ entries' = entries \ {n} /\ report' \in [Names -> Report]
        /\ \A m \in Names : m # n => report'[m] = report[m]
    BY <1>1, <2>1 DEF Remove, Report
  <2>3. TypeOK' /\ ThreadInv' /\ AnalysedOnce' /\ WaitingIsCounted'
    <3>1. entries' \subseteq Names /\ live' \in entries' \cup {None}
      BY <1>1, <2>1, <2>2
    <3> QED BY <1>1, <2>1, <2>2, <3>1, DiagFrame
  <2>4. LockInv'
    BY <2>1 DEF IInv, LockInv
  <2>5. ReportInv'
    BY <1>1, <2>1, <2>2 DEF IInv, ReportInv, status
  <2> QED BY <2>3, <2>4, <2>5 DEF IInv
<1>5. CASE DiagFinish
  <2>1. /\ live # None /\ storeLock = Free /\ storeLock' = Diag /\ diag' = "announce"
        /\ UNCHANGED <<asked, lost, statusLock, status, channel, thread, client, entries,
                       clock, live, report, clobbered, suspicious, pruned, spoiled>>
    BY <1>5 DEF DiagFinish, recordings
  <2>2. TypeOK' /\ ThreadInv' /\ AnalysedOnce' /\ WaitingIsCounted'
    BY <1>1, <2>1, DiagFrame
  <2>3. LockInv'
    BY <1>2, <2>1 DEF IInv, LockInv
  <2>4. ReportInv'
    BY <2>1, ReportSame DEF IInv, status
  <2> QED BY <2>2, <2>3, <2>4 DEF IInv
<1>6. ASSUME NEW n \in Names \cup {None}, DiagAnnounce(n) PROVE IInv'
  <2>1. /\ diag = "announce" /\ (Room \/ Gone) /\ diag' = "idle" /\ storeLock' = Free
        /\ channel' = IF Gone THEN channel ELSE Append(channel, RecordingFinished(live))
        /\ UNCHANGED <<asked, lost, statusLock, status, running, thread, client, suspicious,
                       pruned, spoiled>>
    BY <1>6 DEF DiagAnnounce, status
  <2>2. storeLock = Diag /\ live \in Names /\ RecordingFinished(live) \in Message
    BY <1>1, <2>1 DEF IInv, LockInv, RecordingFinished, Message
  <2>3. /\ channel' \in Seq(Message) /\ Len(channel') <= Capacity
        /\ (\E i \in DOMAIN channel : channel[i] = NewFilesQueued) =>
              \E i \in DOMAIN channel' : channel'[i] = NewFilesQueued
    <3>1. CASE Gone
      BY <1>1, <2>1, <3>1
    <3>2. CASE ~Gone
      <4>1. channel' = Append(channel, RecordingFinished(live)) /\ Room
        BY <2>1, <3>2
      <4>2. /\ channel' \in Seq(Message) /\ Len(channel') = Len(channel) + 1
            /\ \A x : (\E i \in DOMAIN channel : channel[i] = x) =>
                      \E i \in DOMAIN channel' : channel'[i] = x
        BY <1>1, <2>2, <4>1, AppendKeeps
      <4> QED BY <1>1, <4>1, <4>2 DEF Room
    <3> QED BY <3>1, <3>2
  <2>4. /\ entries' \subseteq Names /\ clock' \in Names \cup {None}
        /\ live' \in entries' \cup {None} /\ report' \in [Names -> Report]
        /\ clobbered' \in BOOLEAN /\ ReportInv'
    <3>1. CASE n \in Fresh
      <4>1. StartNew(n)
        BY <1>6, <3>1 DEF DiagAnnounce
      <4> QED BY <2>1, <3>1, <4>1, StartNewEffect
    <3>2. CASE n \notin Fresh
      <4>1. live' = None /\ UNCHANGED <<entries, clock, report, clobbered>>
        BY <1>6, <3>2 DEF DiagAnnounce
      <4>2. ReportInv'
        <5>1. thread.pc \in {"head", "rows"} => running # None
          BY DEF IInv, ThreadInv, Working
        <5> QED BY <2>1, <4>1, <5>1 DEF IInv, ReportInv
      <4> QED BY <1>1, <4>1, <4>2
    <3> QED BY <3>1, <3>2
  <2>5. TypeOK' /\ ThreadInv' /\ AnalysedOnce' /\ WaitingIsCounted'
    BY <1>1, <2>1, <2>3, <2>4, DiagFrame
  <2>6. LockInv'
    BY <1>2, <2>1, <2>2 DEF IInv, LockInv
  <2> QED BY <2>4, <2>5, <2>6 DEF IInv
<1>7. CASE DiagDetect
  <2>1. /\ live # None /\ suspicious' = suspicious \cup {live}
        /\ report' = [report EXCEPT ![live] = IF clobbered THEN "malformed" ELSE "warning"]
        /\ UNCHANGED <<asked, lost, statusLock, storeLock, status, running, channel, thread,
                       client, entries, clock, live, clobbered, pruned, spoiled, diag>>
    BY <1>7 DEF DiagDetect, locks, status
  <2>2. /\ live \in entries /\ live \in Names /\ suspicious' \subseteq Names
        /\ report' \in [Names -> Report] /\ report'[live] # "clean"
        /\ \A m \in Names : m # live => report'[m] = report[m]
    BY <1>1, <2>1 DEF Report
  <2>3. TypeOK' /\ ThreadInv' /\ AnalysedOnce' /\ WaitingIsCounted'
    BY <1>1, <2>1, <2>2, DiagFrame
  <2>4. LockInv'
    BY <2>1 DEF IInv, LockInv
  <2>5. ReportInv'
    BY <1>1, <2>1, <2>2 DEF IInv, ReportInv
  <2> QED BY <2>3, <2>4, <2>5 DEF IInv
<1> QED BY <1>3, <1>4, <1>5, <1>6, <1>7 DEF DiagStep

-----------------------------------------------------------------------------
\* The invariant holds when the daemon starts.
LEMMA InitIInv == Init => IInv
<1> SUFFICES ASSUME Init PROVE IInv
  OBVIOUS
<1>1. /\ Old \subseteq Names /\ Old = 1..Cardinality(Old) /\ Cardinality(Old) \in Nat
  <2>1. IsFiniteSet(Old)
    BY OldAssumption, FS_Subset
  <2> QED BY <2>1, OldAssumption, FS_CardinalityType
<1>2. clock \in Names \cup {None}
  <2>1. CASE Cardinality(Old) = 0
    BY <2>1 DEF Init, None
  <2>2. CASE Cardinality(Old) # 0
    <3>1. Cardinality(Old) \in Old
      BY <1>1, <2>2
    <3> QED BY <1>1, <3>1 DEF Init
  <2> QED BY <2>1, <2>2
<1>3. /\ thread.pc = "recv" /\ thread.arg = 0
      /\ thread \in [pc: {"recv", "note", "count", "dequeue", "open", "head",
                          "rows", "finish", "panicked"}, arg: Nat]
  BY DEF Init, At
<1>4. /\ report \in [Names -> Report] /\ suspicious \subseteq Old
      /\ \A n \in suspicious : report[n] = "warning"
  BY <1>1 DEF Init, Report
<1>5. /\ client \in [Clients -> [pc: {"idle", "store", "send"}, name: Names \cup {None}]]
      /\ \A c \in Clients : client[c].pc = "idle"
  BY DEF Init
<1>6. channel \in Seq(Message) /\ Len(channel) <= Capacity /\ queued \in Seq(Names)
      /\ asked \in 0..MaxRequests
  BY CapacityAssumption DEF Init
<1>7. TypeOK
  BY <1>1, <1>2, <1>3, <1>4, <1>5, <1>6 DEF Init, TypeOK
<1>8. LockInv
  BY <1>5, ClientsAssumption DEF Init, LockInv, Free, Diag
<1>9. ThreadInv
  BY <1>3 DEF Init, ThreadInv, Working
<1>10. AnalysedOnce /\ WaitingIsCounted
  BY DEF Init, AnalysedOnce, IsQueued, WaitingIsCounted
<1>11. ReportInv
  BY <1>1, <1>3, <1>4 DEF Init, ReportInv
<1> QED BY <1>7, <1>8, <1>9, <1>10, <1>11 DEF IInv

\* Every step keeps the invariant.
LEMMA NextIInv == IInv /\ [Next]_vars => IInv'
<1> SUFFICES ASSUME IInv, [Next]_vars PROVE IInv'
  OBVIOUS
<1>1. CASE ThreadStep
  BY <1>1, RecvKeeps, NoteOrCountKeeps, DequeueKeeps, OpenAndClearKeeps, WriteMetadataKeeps,
     WriteRowsKeeps, FinishKeeps DEF ThreadStep
<1>2. ASSUME NEW c \in Clients, NEW n \in Names, StartAnalysis(c, n) PROVE IInv'
  BY <1>2, StartAnalysisKeeps
<1>3. ASSUME NEW c \in Clients, ClientStep(c) \/ HangUp(c) PROVE IInv'
  BY <1>3, QueueKeeps, SendOrHangUpKeeps DEF ClientStep
<1>4. CASE DiagStep
  BY <1>4, DiagStepKeeps
<1>5. CASE UNCHANGED vars
  BY <1>5 DEF vars, IInv, TypeOK, LockInv, ThreadInv, AnalysedOnce, IsQueued,
              WaitingIsCounted, Gone, NewFilesQueued, ReportInv
<1> QED BY <1>1, <1>2, <1>3, <1>4, <1>5 DEF Next

\* The invariant holds in every reachable state.
LEMMA SpecIInv == Spec => []IInv
  BY InitIInv, NextIInv, PTL DEF Spec

\* A recording waits or runs at most once (queue_qmdl), and dequeue_to_running
\* always finds a name and nothing running, whatever requests queue meanwhile.
THEOREM QueueSound == Spec => []QueueInv
<1>1. IInv => QueueInv
  BY DEF IInv, QueueInv, ThreadInv, DequeueFindsWork
<1> QED BY <1>1, SpecIInv, PTL

\* No wake-up is lost: names that wait are counted or have a message coming, for
\* every capacity of the channel (start_analysis, run_analysis_thread).
THEOREM NoLostWakeUp == Spec => []WaitingIsCounted
<1>1. IInv => WaitingIsCounted
  BY DEF IInv
<1> QED BY <1>1, SpecIInv, PTL

\* Once it settles, the report of a recording in which something was found does not
\* call it clean (perform_analysis, AnalysisWriter).
THEOREM ReportsSettleTrue == Spec => []SettledReportIsTrue
<1>1. IInv => SettledReportIsTrue
  BY DEF IInv, ReportInv, SettledReportIsTrue
<1> QED BY <1>1, SpecIInv, PTL
=============================================================================

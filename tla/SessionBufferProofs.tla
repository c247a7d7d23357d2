------------------------- MODULE SessionBufferProofs -------------------------
(***************************************************************************)
(* What holds of SessionBuffer for every number of packets, capacity,      *)
(* number of restarts and lost answers: types, the order in which packets  *)
(* are heard, that an ACK is kept, the drain barrier, and - when the disk  *)
(* does not fail - that the buffer implements RelayPromise.                *)
(***************************************************************************)
EXTENDS SessionBuffer, FiniteSetTheorems, TLAPS

Settled == Heard \cup givenUp
Flushing == {"flushing", "flushed", "flushFailed"}

-----------------------------------------------------------------------------
(* The inductive invariant, in named parts.                                *)

\* The journal has every ACKed packet and no hole below any of its packets.
JournalHasNoHole ==
    life # "gone" =>
        /\ acked \subseteq jPackets
        /\ \A s \in jPackets : \A t \in 1..s : t \in jPackets

\* What is queued or held was journalled first, and nothing on disk is at or
\* below the recorded progress without having been heard.
MemoryIsOnDisk ==
    /\ queue \subseteq jPackets
    /\ cur # 0 => cur \in jPackets
    /\ jProgress \in jPackets \cup {0}
    /\ \A s \in jPackets : s <= jProgress => s \in Heard

\* The forwarder holds the oldest packet not yet heard.
HoldsTheOldest ==
    /\ cur # 0 => \A s \in jPackets : s < cur => s \in Heard
    /\ cur # 0 => \A s \in queue : cur < s
    /\ fpc = "answered" => cur \in Heard

\* m_lastAcceptedSeq is above everything the session knows of.
WatermarkIsHigh ==
    Up =>
        /\ lastAccepted \in jPackets \cup {0}
        /\ \A s \in acked \cup queue : s <= lastAccepted
        /\ cur <= lastAccepted
        /\ jProgress <= lastAccepted
        /\ ~journalFailed => ~jDead /\ \A s \in jPackets : s <= lastAccepted

\* Every accepted packet is accounted for while the session is up.
NothingSlipsAway ==
    Up => \A s \in jPackets : s <= lastAccepted =>
        /\ fatal = "none" => s \in Heard \cup queue \cup {cur}
        /\ fatal = "rejected" => s \in Settled

\* A fatal error empties the queue; a cancellation only comes with shutdown.
FatalIsFinal ==
    /\ fatal # "none" => queue = {} /\ cur = 0
    /\ fatal = "cancelled" \/ fpc = "cancelled" => life = "closing"
    /\ life = "down" => fatal = "none" /\ queue = {} /\ cur = 0 /\ stopStatus = "none"

\* From the drain barrier on, nothing is queued and every ACK is settled; so it is
\* when the journal is gone, unless a refused stream ended the session.
EndingIsSettled ==
    /\ fpc \in Flushing => queue = {} /\ stopReq /\ fatal # "cancelled"
    /\ fpc \in Flushing \/ stopStatus \in Endings \/ jStopped => acked \subseteq Settled
    /\ life = "gone" /\ "open" \notin Faults => acked \subseteq Settled
    /\ Up /\ jStopped => stopStatus \in Endings
    /\ Finished => fpc = "exited"
    /\ stopStatus = "unavailable" => life = "closing"
    /\ stopStatus = "unopened" => "open" \in Faults

IInv ==
    /\ TypeOK
    /\ JournalHasNoHole
    /\ MemoryIsOnDisk
    /\ HoldsTheOldest
    /\ WatermarkIsHigh
    /\ NothingSlipsAway
    /\ FatalIsFinal
    /\ EndingIsSettled
    /\ HeardInOrder

\* Without disk faults, an answered ending stays on record.
EndingIsOnRecord ==
    /\ ~jDead
    /\ stopStatus \in Endings => jStopped
    /\ stopAnswers \cap Endings # {} =>
         \/ Up /\ stopStatus \in Endings
         \/ life = "down" /\ jStopped
         \/ life = "gone"

\* Without disk faults, the queue and the packet in hand are what a restart would
\* recover, and only the next packet of that can have been heard already.
BacklogIsQueue ==
    /\ ~jDead
    /\ Up /\ fatal = "none" /\ ~Finished
         => Backlog = queue \cup (IF cur = 0 THEN {} ELSE {cur})
    /\ life # "gone" => Heard \subseteq jPackets
    /\ \A s \in Heard \cap Backlog : IsLeast(s, Backlog)

\* A packet that will be repeated is paid for: by the failure that kept it, or by
\* the crash that would have to come before its Progress record.
Repeats == Len(delivered) - Cardinality(Heard)

Paid == crashes + unanswered

RepeatsArePaid ==
    /\ Repeats <= Paid
    /\ Heard \cap Backlog # {} /\ fpc # "answered" => Repeats + 1 <= Paid

BacklogInv ==
    /\ IInv
    /\ BacklogIsQueue
    /\ Cardinality(Backlog) <= Capacity + 1
    /\ RepeatsArePaid

-----------------------------------------------------------------------------
(* Lemmas about the history of what was heard.                             *)

\* Consuming a packet adds it, and only it, to what has been heard.
LEMMA ConsumeHears ==
    ASSUME delivered \in Seq(Seqs), cur \in Seqs, Consume
    PROVE  /\ delivered' \in Seq(Seqs)
           /\ DOMAIN delivered' = DOMAIN delivered \cup {Len(delivered) + 1}
           /\ \A i \in DOMAIN delivered : delivered'[i] = delivered[i]
           /\ delivered'[Len(delivered) + 1] = cur
           /\ Heard' = Heard \cup {cur}
<1>1. /\ delivered' \in Seq(Seqs)
      /\ Len(delivered') = Len(delivered) + 1
      /\ \A i \in 1..Len(delivered) : delivered'[i] = delivered[i]
      /\ delivered'[Len(delivered) + 1] = cur
  BY DEF Consume
<1>2. DOMAIN delivered' = DOMAIN delivered \cup {Len(delivered) + 1}
  BY <1>1
<1>3. Heard' = Heard \cup {cur}
  BY <1>1, <1>2 DEF Heard
<1> QED
  BY <1>1, <1>2, <1>3

-----------------------------------------------------------------------------
(* Types.                                                                  *)

LEMMA InitTypeOK == Init => TypeOK
<1> SUFFICES ASSUME Init PROVE TypeOK
  OBVIOUS
<1>1. 0 \in 0..MaxSeq /\ 0 \in 0..MaxRestart /\ 0 \in 0..MaxUnanswered
  BY BoundsAssumption
<1>2. <<>> \in Seq(Seqs)
  OBVIOUS
<1>3. delivered \in Seq(Seqs)
  BY <1>2 DEF Init
<1> QED
  BY <1>1, <1>3 DEF Init, TypeOK, Lives, ForwarderStates, Holding, Statuses, Up

\* What one step of the forwarder thread does to the types.
LEMMA ForwarderTypeOK == TypeOK /\ Forwarder => TypeOK'
<1> SUFFICES ASSUME TypeOK, Forwarder PROVE TypeOK'
  OBVIOUS
<1> USE DEF TypeOK, Lives, Holding, ForwarderStates, Statuses, Seqs, Steps, Up
<1> USE BoundsAssumption
<1>1. CASE Open
  BY <1>1 DEF Open, disk, verdicts, counts
<1>2. CASE OpenFails
  BY <1>2 DEF OpenFails, disk, verdicts, counts
<1>3. CASE Take
  BY <1>3 DEF Take, IsLeast, disk, verdicts, counts
<1>4. CASE BeginDrain
  BY <1>4 DEF BeginDrain, disk, verdicts, counts
<1>5. CASE SeeShutdown
  BY <1>5 DEF SeeShutdown, disk, verdicts, counts
<1>6. CASE Answered
  <2>1. cur \in Seqs /\ Consume
    BY <1>6 DEF Answered
  <2>2. delivered' \in Seq(Seqs)
    BY <2>1, ConsumeHears
  <2> QED
    BY <1>6, <2>2 DEF Answered, disk, verdicts, counts
<1>7. CASE TransportFailure
  <2>1. cur \in Seqs /\ PerhapsConsume
    BY <1>7 DEF TransportFailure
  <2>2. delivered' \in Seq(Seqs) /\ restarts' = restarts /\ crashes' = crashes
        /\ unanswered' \in 0..MaxUnanswered
    BY <2>1, ConsumeHears DEF PerhapsConsume, CountUnanswered, counts
  <2> QED
    BY <1>7, <2>2 DEF TransportFailure, disk, verdicts
<1>8. CASE Rejection
  <2>1. cur \in Seqs /\ PerhapsConsume
    BY <1>8 DEF Rejection
  <2>2. delivered' \in Seq(Seqs) /\ restarts' = restarts /\ crashes' = crashes
        /\ unanswered' \in 0..MaxUnanswered
    BY <2>1, ConsumeHears DEF PerhapsConsume, CountUnanswered, counts
  <2> QED
    BY <1>8, <2>2 DEF Rejection, disk, verdicts
<1>9. CASE RetryOrCancel
  BY <1>9 DEF RetryOrCancel, disk, verdicts, counts
<1>10. CASE Recorded
  BY <1>10 DEF Recorded, LetGo, verdicts, counts
<1>11. CASE SetFatal
  <2>1. cur \in Seqs /\ fpc' = "waiting" /\ cur' = 0 /\ queue' = {}
    BY <1>11 DEF SetFatal, LetGo
  <2>2. fatal' \in {"none", "rejected", "cancelled"}
    BY <1>11 DEF SetFatal
  <2>3. givenUp' \subseteq Seqs /\ rejected' \subseteq Seqs
    BY <1>11, <2>1 DEF SetFatal, verdicts
  <2> QED
    BY <1>11, <2>1, <2>2, <2>3 DEF SetFatal, disk, counts
<1>12. CASE Flush
  BY <1>12 DEF Flush, disk, verdicts, counts
<1>13. CASE EndSession
  BY <1>13 DEF EndSession, Landing, verdicts, counts
<1> QED
  BY <1>1, <1>2, <1>3, <1>4, <1>5, <1>6, <1>7, <1>8, <1>9, <1>10, <1>11, <1>12, <1>13
     DEF Forwarder, OpenStream

\* What connection threads and the reaper do to the types.
LEMMA ClientTypeOK ==
    ASSUME TypeOK, NEW s \in Seqs, Push(s) \/ RequestStop \/ StopReply
    PROVE  TypeOK'
<1> USE DEF TypeOK, Seqs, Statuses, Up
<1>1. CASE PushReplay(s)
  BY <1>1 DEF PushReplay, memory, disk, verdicts, counts
<1>2. ASSUME NEW ackArrives \in BOOLEAN, PushAccept(s, ackArrives) PROVE TypeOK'
  BY <1>2 DEF PushAccept, verdicts, counts
<1>3. ASSUME NEW landed \in BOOLEAN, NEW dead \in BOOLEAN, PushJournalFails(s, landed, dead)
      PROVE  TypeOK'
  BY <1>3 DEF PushJournalFails, verdicts, counts
<1>4. CASE RequestStop
  BY <1>4 DEF RequestStop, disk, verdicts, counts
<1>5. CASE StopReply
  BY <1>5 DEF StopReply, memory, disk, verdicts, counts
<1> QED
  BY <1>1, <1>2, <1>3, <1>4, <1>5 DEF Push

\* A process that goes down leaves only its disk.
LEMMA LoseMemoryTypeOK ==
    ASSUME TypeOK, LoseMemory, restarts' \in 0..MaxRestart, crashes' \in Nat
    PROVE  TypeOK'
<1>1. 0 \in 0..MaxSeq /\ {} \subseteq Seqs
  BY BoundsAssumption
<1> QED
  BY <1>1 DEF LoseMemory, disk, verdicts, TypeOK, Lives, Holding, ForwarderStates, Statuses, Up

\* What shutdowns, crashes, restarts and forgetting do to the types.
LEMMA ProcessTypeOK == TypeOK /\ Process => TypeOK'
<1> SUFFICES ASSUME TypeOK, Process PROVE TypeOK'
  OBVIOUS
<1> USE DEF TypeOK, Lives, Holding, ForwarderStates, Statuses, Up
<1>0. 0 \in 0..MaxSeq /\ {} \subseteq Seqs
  BY BoundsAssumption
<1>1. CASE Shutdown
  BY <1>1, BoundsAssumption DEF Shutdown, memory, disk, verdicts, Seqs
<1>3. CASE Exit
  <2>1. restarts' \in 0..MaxRestart /\ crashes' \in Nat
    BY <1>3 DEF Exit
  <2> QED
    BY <1>3, <2>1, LoseMemoryTypeOK DEF Exit
<1>4. CASE Crash
  <2>1. restarts' \in 0..MaxRestart /\ crashes' \in Nat
    BY <1>4, BoundsAssumption DEF Crash
  <2> QED
    BY <1>4, <2>1, LoseMemoryTypeOK DEF Crash
<1>5. CASE RestartEnded
  BY <1>0, <1>5 DEF RestartEnded, RemoveJournal, memory, verdicts, counts
<1>6. ASSUME NEW reopened \in BOOLEAN, RestartRecovers(reopened) PROVE TypeOK'
  <2>1. queue' \subseteq Seqs /\ lastAccepted' \in 0..MaxSeq
        /\ journalFailed' \in BOOLEAN /\ jDead' \in BOOLEAN
    BY <1>6 DEF RestartRecovers, Backlog, IsHighest
  <2> QED
    BY <1>6, <2>1 DEF RestartRecovers, verdicts, counts
<1>7. CASE Forget
  BY <1>0, <1>7 DEF Forget, RemoveJournal, verdicts, counts
<1> QED
  BY <1>1, <1>3, <1>4, <1>5, <1>6, <1>7 DEF Process, Restart

LEMMA TypeStep == ASSUME TypeOK, [Next]_vars PROVE TypeOK'
<1>1. CASE UNCHANGED vars
  BY <1>1 DEF vars, memory, disk, verdicts, counts, TypeOK, Up
<1>2. CASE Forwarder
  BY <1>2, ForwarderTypeOK
<1>3. CASE Process
  BY <1>3, ProcessTypeOK
<1>4. ASSUME NEW s \in Seqs, Push(s) PROVE TypeOK'
  BY <1>4, ClientTypeOK
<1>5. CASE RequestStop \/ StopReply
  <2>1. CASE Seqs # {}
    BY <1>5, <2>1, ClientTypeOK
  <2>2. CASE Seqs = {}
    BY <1>5, <2>2 DEF RequestStop, StopReply, TypeOK, Up, memory, disk, verdicts, counts
  <2> QED
    BY <2>1, <2>2
<1> QED
  BY <1>1, <1>2, <1>3, <1>4, <1>5 DEF Next, Gone

\* Type correctness of every reachable state of the buffer.
THEOREM TypeCorrect == Spec => []TypeOK
<1>1. TypeOK /\ [Next]_vars => TypeOK'
  BY TypeStep
<1> QED
  BY InitTypeOK, <1>1, PTL DEF Spec

-----------------------------------------------------------------------------
(* The invariant, step by step.                                            *)

\* What was heard, and in which order, when nothing new is heard.
LEMMA SameHistory ==
    ASSUME UNCHANGED delivered
    PROVE  Heard' = Heard /\ (HeardInOrder => HeardInOrder')
BY DEF Heard, HeardInOrder

\* The invariant survives the steps that only move the forwarder along.
LEMMA QuietKeeps ==
    ASSUME IInv, Open \/ BeginDrain \/ RetryOrCancel \/ Flush, TypeOK'
    PROVE  IInv'
<1> USE DEF IInv, Steps, Up, Endings, Flushing, Settled, Finished
<1>0. /\ UNCHANGED <<life, cur, queue, lastAccepted, journalFailed, fatal, stopReq, stopStatus,
                     jPackets, jProgress, jStopped, jDead, delivered, acked, givenUp>>
      /\ fpc' # "answered"
  BY DEF Open, BeginDrain, RetryOrCancel, Flush, disk, verdicts
<1>1. Heard' = Heard /\ HeardInOrder'
  BY <1>0, SameHistory
<1>2. JournalHasNoHole' /\ MemoryIsOnDisk' /\ HoldsTheOldest'
  BY <1>0, <1>1 DEF JournalHasNoHole, MemoryIsOnDisk, HoldsTheOldest
<1>3. WatermarkIsHigh' /\ NothingSlipsAway'
  BY <1>0, <1>1 DEF WatermarkIsHigh, NothingSlipsAway
<1>4. FatalIsFinal'
  BY <1>0 DEF FatalIsFinal, Open, BeginDrain, RetryOrCancel, Flush
<1>5. EndingIsSettled'
  <2>1. CASE BeginDrain
    <3>1. acked \subseteq Settled
      BY <2>1 DEF BeginDrain, JournalHasNoHole, WatermarkIsHigh, NothingSlipsAway, FatalIsFinal,
                  TypeOK, Holding, Seqs
    <3> QED
      BY <1>0, <1>1, <2>1, <3>1 DEF BeginDrain, EndingIsSettled, FatalIsFinal
  <2>2. CASE Open \/ RetryOrCancel \/ Flush
    BY <1>0, <1>1, <2>2 DEF Open, RetryOrCancel, Flush, EndingIsSettled
  <2> QED
    BY <2>1, <2>2
<1> QED
  BY <1>1, <1>2, <1>3, <1>4, <1>5

\* It survives a packet being taken out of the queue.
LEMMA TakeKeeps == ASSUME IInv, Take, TypeOK' PROVE IInv'
<1> USE DEF IInv, Steps, Up, Endings, Flushing, Settled, Finished
<1>0. /\ UNCHANGED <<life, lastAccepted, journalFailed, fatal, stopReq, stopStatus,
                     jPackets, jProgress, jStopped, jDead, delivered, acked, givenUp>>
      /\ life = "running" /\ fpc = "waiting" /\ fpc' = "pushing"
      /\ cur = 0 /\ cur' \in queue /\ queue' = queue \ {cur'}
      /\ \A s \in queue : cur' <= s
  BY DEF Take, IsLeast, disk, verdicts, TypeOK, Holding
<1>1. Heard' = Heard /\ HeardInOrder'
  BY <1>0, SameHistory
<1>2. queue \subseteq Seqs /\ jPackets \subseteq Seqs /\ cur' \in Seqs /\ lastAccepted \in Nat
      /\ fatal = "none"
  BY <1>0 DEF TypeOK, Seqs, FatalIsFinal
<1>3. JournalHasNoHole' /\ MemoryIsOnDisk'
  BY <1>0, <1>1 DEF JournalHasNoHole, MemoryIsOnDisk
<1>4. HoldsTheOldest'
  <2>1. \A s \in jPackets : s < cur' => s \in Heard
    BY <1>0, <1>2 DEF WatermarkIsHigh, NothingSlipsAway, Seqs
  <2>2. \A s \in queue' : cur' < s
    BY <1>0, <1>2 DEF Seqs
  <2> QED
    BY <1>0, <1>1, <2>1, <2>2 DEF HoldsTheOldest
<1>5. WatermarkIsHigh'
  BY <1>0 DEF WatermarkIsHigh
<1>6. NothingSlipsAway'
  BY <1>0, <1>1, <1>2 DEF NothingSlipsAway, Seqs
<1>7. FatalIsFinal' /\ EndingIsSettled'
  BY <1>0, <1>1, <1>2 DEF FatalIsFinal, EndingIsSettled
<1> QED
  BY <1>1, <1>3, <1>4, <1>5, <1>6, <1>7

\* It survives the consumption of the packet in hand, whatever the answer.
LEMMA ConsumeKeeps ==
    ASSUME IInv, Answered \/ TransportFailure \/ Rejection, TypeOK'
    PROVE  IInv'
<1> USE DEF IInv, Steps, Up, Endings, Flushing, Settled, Finished
<1>0. /\ UNCHANGED <<life, cur, queue, lastAccepted, journalFailed, fatal, stopReq, stopStatus,
                     jPackets, jProgress, jStopped, jDead, acked, givenUp>>
      /\ Up /\ fpc = "pushing" /\ fpc' \in {"answered", "pausing", "rejected"}
      /\ Consume \/ UNCHANGED delivered
      /\ fpc' = "answered" => Consume
      /\ cur \in Seqs /\ delivered \in Seq(Seqs)
  BY DEF Answered, TransportFailure, Rejection, PerhapsConsume, disk, verdicts, TypeOK, Holding, Seqs
<1>1. Heard \subseteq Heard' /\ (Consume => cur \in Heard')
  <2>1. CASE Consume
    BY <1>0, <2>1, ConsumeHears
  <2>2. CASE ~Consume
    BY <1>0, <2>2, SameHistory
  <2> QED
    BY <2>1, <2>2
<1>2. HeardInOrder'
  <2>1. CASE Consume
    <3>1. \A s \in 1..(cur - 1) : s \in Heard
      BY <1>0 DEF JournalHasNoHole, MemoryIsOnDisk, HoldsTheOldest, Seqs
    <3> SUFFICES ASSUME NEW i \in DOMAIN delivered', NEW s \in 1..(delivered'[i] - 1)
                 PROVE  \E k \in 1..(i - 1) : delivered'[k] = s
      BY DEF HeardInOrder
    <3>2. CASE i \in DOMAIN delivered
      <4>1. delivered'[i] = delivered[i]
        BY <1>0, <2>1, <3>2, ConsumeHears
      <4>2. PICK k \in 1..(i - 1) : delivered[k] = s
        BY <3>2, <4>1 DEF HeardInOrder
      <4>3. k \in DOMAIN delivered
        BY <1>0, <3>2, <4>2
      <4> QED
        BY <1>0, <2>1, <4>2, <4>3, ConsumeHears
    <3>3. CASE i = Len(delivered) + 1
      <4>1. delivered'[i] = cur
        BY <1>0, <2>1, <3>3, ConsumeHears
      <4>2. PICK k \in DOMAIN delivered : delivered[k] = s
        BY <3>1, <4>1 DEF Heard
      <4>3. delivered'[k] = s
        BY <1>0, <2>1, <4>2, ConsumeHears
      <4>4. k \in 1..(i - 1)
        BY <1>0, <3>3, <4>2
      <4> QED
        BY <4>3, <4>4
    <3> QED
      BY <1>0, <2>1, <3>2, <3>3, ConsumeHears
  <2>2. CASE ~Consume
    BY <1>0, <2>2, SameHistory
  <2> QED
    BY <2>1, <2>2
<1>3. JournalHasNoHole' /\ MemoryIsOnDisk' /\ HoldsTheOldest'
  BY <1>0, <1>1 DEF JournalHasNoHole, MemoryIsOnDisk, HoldsTheOldest
<1>4. WatermarkIsHigh' /\ NothingSlipsAway'
  BY <1>0, <1>1 DEF WatermarkIsHigh, NothingSlipsAway
<1>5. FatalIsFinal' /\ EndingIsSettled'
  BY <1>0, <1>1 DEF FatalIsFinal, EndingIsSettled
<1> QED
  BY <1>2, <1>3, <1>4, <1>5

\* It survives the Progress record: everything at or below it was heard.
LEMMA RecordedKeeps == ASSUME IInv, Recorded, TypeOK' PROVE IInv'
<1> USE DEF IInv, Steps, Up, Endings, Flushing, Settled, Finished
<1>0. /\ UNCHANGED <<life, queue, lastAccepted, journalFailed, fatal, stopReq, stopStatus,
                     jPackets, jStopped, jDead, delivered, acked, givenUp>>
      /\ Up /\ fpc = "answered" /\ fpc' = "waiting"
      /\ cur \in Seqs /\ cur' = 0
      /\ jProgress' \in {jProgress, cur}
  BY DEF Recorded, LetGo, verdicts, TypeOK, Holding, Seqs
<1>1. Heard' = Heard /\ HeardInOrder'
  BY <1>0, SameHistory
<1>2. cur \in Heard
  BY <1>0 DEF HoldsTheOldest
<1>3. JournalHasNoHole' /\ HoldsTheOldest'
  BY <1>0, <1>1 DEF JournalHasNoHole, HoldsTheOldest
<1>4. MemoryIsOnDisk'
  <2>1. \A s \in jPackets : s <= cur => s \in Heard
    BY <1>0, <1>2 DEF HoldsTheOldest, TypeOK, Seqs
  <2> QED
    BY <1>0, <1>1, <2>1 DEF MemoryIsOnDisk, Seqs
<1>5. WatermarkIsHigh'
  BY <1>0 DEF WatermarkIsHigh, TypeOK, Seqs
<1>6. NothingSlipsAway'
  BY <1>0, <1>1, <1>2 DEF NothingSlipsAway
<1>7. FatalIsFinal' /\ EndingIsSettled'
  BY <1>0, <1>1 DEF FatalIsFinal, EndingIsSettled
<1> QED
  BY <1>1, <1>3, <1>4, <1>5, <1>6, <1>7

\* It survives a fatal status: dropped packets are given up or still on disk.
LEMMA SetFatalKeeps == ASSUME IInv, SetFatal, TypeOK' PROVE IInv'
<1> USE DEF IInv, Steps, Up, Endings, Flushing, Settled, Finished
<1>0. /\ UNCHANGED <<life, lastAccepted, journalFailed, stopReq, stopStatus,
                     jPackets, jProgress, jStopped, jDead, delivered, acked>>
      /\ Up /\ fpc \in {"rejected", "cancelled"} /\ fpc' = "waiting" /\ fatal' = fpc
      /\ cur \in Seqs /\ cur' = 0 /\ queue' = {} /\ lastAccepted \in Nat
      /\ givenUp \subseteq givenUp'
      /\ fpc = "rejected" => queue \cup {cur} \subseteq givenUp'
      /\ fatal = "none"
  BY DEF SetFatal, LetGo, disk, verdicts, TypeOK, Holding, Seqs, FatalIsFinal
<1>1. Heard' = Heard /\ HeardInOrder'
  BY <1>0, SameHistory
<1>2. JournalHasNoHole' /\ MemoryIsOnDisk' /\ HoldsTheOldest'
  BY <1>0, <1>1 DEF JournalHasNoHole, MemoryIsOnDisk, HoldsTheOldest
<1>3. WatermarkIsHigh' /\ NothingSlipsAway'
  BY <1>0, <1>1 DEF WatermarkIsHigh, NothingSlipsAway
<1>4. FatalIsFinal' /\ EndingIsSettled'
  BY <1>0, <1>1 DEF FatalIsFinal, EndingIsSettled
<1> QED
  BY <1>1, <1>2, <1>3, <1>4

\* It survives the forwarder's two endings.
LEMMA EndingKeeps == ASSUME IInv, EndSession \/ SeeShutdown, TypeOK' PROVE IInv'
<1> USE DEF IInv, Steps, Up, Endings, Flushing, Settled, Finished
<1>0. /\ UNCHANGED <<life, cur, queue, lastAccepted, journalFailed, fatal, stopReq,
                     jPackets, jProgress, jDead, delivered, acked, givenUp>>
      /\ Up /\ fpc' = "exited"
      /\ \/ fpc \in Flushing /\ stopStatus' \in Endings
         \/ stopStatus' = "unavailable" /\ life = "closing" /\ jStopped' = jStopped /\ fpc = "waiting"
  BY DEF EndSession, SeeShutdown, disk, verdicts
<1>1. Heard' = Heard /\ HeardInOrder'
  BY <1>0, SameHistory
<1>2. JournalHasNoHole' /\ MemoryIsOnDisk' /\ HoldsTheOldest'
  BY <1>0, <1>1 DEF JournalHasNoHole, MemoryIsOnDisk, HoldsTheOldest
<1>3. WatermarkIsHigh' /\ NothingSlipsAway'
  BY <1>0, <1>1 DEF WatermarkIsHigh, NothingSlipsAway
<1>4. FatalIsFinal' /\ EndingIsSettled'
  BY <1>0, <1>1 DEF FatalIsFinal, EndingIsSettled
<1> QED
  BY <1>1, <1>2, <1>3, <1>4

\* It survives a stream that cannot be opened.
LEMMA OpenFailsKeeps == ASSUME IInv, OpenFails, TypeOK' PROVE IInv'
<1> USE DEF IInv, Steps, Up, Endings, Flushing, Settled, Finished
<1>0. /\ UNCHANGED <<life, cur, queue, lastAccepted, journalFailed, fatal, stopReq,
                     jPackets, jProgress, jStopped, jDead, delivered, acked, givenUp>>
      /\ Up /\ fpc = "opening" /\ fpc' = "exited" /\ stopStatus = "none"
      /\ stopStatus' = "unopened" /\ "open" \in Faults
  BY DEF OpenFails, disk, verdicts, EndingIsSettled
<1>1. Heard' = Heard /\ HeardInOrder'
  BY <1>0, SameHistory
<1>2. JournalHasNoHole' /\ MemoryIsOnDisk' /\ HoldsTheOldest'
  BY <1>0, <1>1 DEF JournalHasNoHole, MemoryIsOnDisk, HoldsTheOldest
<1>3. WatermarkIsHigh' /\ NothingSlipsAway'
  BY <1>0, <1>1 DEF WatermarkIsHigh, NothingSlipsAway
<1>4. FatalIsFinal' /\ EndingIsSettled'
  BY <1>0, <1>1 DEF FatalIsFinal, EndingIsSettled
<1> QED
  BY <1>1, <1>2, <1>3, <1>4

\* It survives stop requests and stop answers.
LEMMA StopKeeps == ASSUME IInv, RequestStop \/ StopReply, TypeOK' PROVE IInv'
<1> USE DEF IInv, Up, Endings, Flushing, Settled, Finished
<1>0. /\ UNCHANGED <<life, fpc, cur, queue, lastAccepted, journalFailed, fatal, stopStatus,
                     jPackets, jProgress, jStopped, jDead, delivered, acked, givenUp>>
      /\ stopReq => stopReq'
  BY DEF RequestStop, StopReply, memory, disk, verdicts, TypeOK
<1>1. Heard' = Heard /\ HeardInOrder'
  BY <1>0, SameHistory
<1>2. JournalHasNoHole' /\ MemoryIsOnDisk' /\ HoldsTheOldest'
  BY <1>0, <1>1 DEF JournalHasNoHole, MemoryIsOnDisk, HoldsTheOldest
<1>3. WatermarkIsHigh' /\ NothingSlipsAway'
  BY <1>0, <1>1 DEF WatermarkIsHigh, NothingSlipsAway
<1>4. FatalIsFinal' /\ EndingIsSettled'
  BY <1>0, <1>1 DEF FatalIsFinal, EndingIsSettled
<1> QED
  BY <1>1, <1>2, <1>3, <1>4

\* It survives every outcome of push(): a replayed ACK, an accepted packet,
\* and a packet refused because its record could not be written.
LEMMA PushKeeps ==
    ASSUME IInv, NEW s \in Seqs, ClientMayPush(s), Push(s), TypeOK'
    PROVE  IInv'
<1> USE DEF IInv, Up, Endings, Flushing, Settled, Finished
<1>0. /\ UNCHANGED <<life, fpc, cur, fatal, stopReq, stopStatus, jProgress, jStopped,
                     delivered, givenUp>>
      /\ Up /\ fatal = "none" /\ stopStatus = "none" /\ ~stopReq
  BY DEF Push, PushReplay, PushAccept, PushJournalFails, Fresh, Accepting, memory, disk, verdicts
<1>1. Heard' = Heard /\ HeardInOrder'
  BY <1>0, SameHistory
<1>2. /\ s \in Nat /\ cur \in Nat /\ lastAccepted \in Nat /\ jProgress \in Nat
      /\ queue \subseteq Nat /\ jPackets \subseteq Nat /\ acked \subseteq Nat
  BY DEF TypeOK, Seqs
<1>3. 1..(s - 1) \subseteq jPackets
  BY <1>0 DEF JournalHasNoHole, ClientMayPush
<1>4. FatalIsFinal'
  BY <1>0 DEF FatalIsFinal
<1>5. EndingIsSettled'
  BY <1>0, <1>1 DEF EndingIsSettled
<1>6. CASE PushReplay(s)
  <2>0. /\ UNCHANGED <<queue, lastAccepted, journalFailed, jPackets, jDead>>
        /\ s <= lastAccepted /\ acked' = acked \cup {s}
    BY <1>6 DEF PushReplay, memory, disk
  <2>1. s \in jPackets
    BY <1>0, <1>2, <2>0 DEF JournalHasNoHole, WatermarkIsHigh, Seqs
  <2>2. JournalHasNoHole' /\ MemoryIsOnDisk' /\ HoldsTheOldest'
    BY <1>0, <1>1, <2>0, <2>1 DEF JournalHasNoHole, MemoryIsOnDisk, HoldsTheOldest
  <2>3. WatermarkIsHigh' /\ NothingSlipsAway'
    BY <1>0, <1>1, <2>0 DEF WatermarkIsHigh, NothingSlipsAway
  <2> QED
    BY <1>1, <1>4, <1>5, <2>2, <2>3
<1>7. ASSUME NEW ackArrives \in BOOLEAN, PushAccept(s, ackArrives) PROVE IInv'
  <2>0. /\ UNCHANGED <<journalFailed, jDead>>
        /\ ~journalFailed /\ ~jDead /\ s > lastAccepted
        /\ \A t \in jPackets : t <= lastAccepted
        /\ jPackets' = jPackets \cup {s} /\ queue' = queue \cup {s} /\ lastAccepted' = s
        /\ acked \subseteq acked' /\ acked' \subseteq acked \cup {s}
    BY <1>0, <1>7 DEF PushAccept, Fresh, WatermarkIsHigh
  <2>1. JournalHasNoHole'
    BY <1>0, <1>2, <1>3, <2>0 DEF JournalHasNoHole
  <2>2. MemoryIsOnDisk'
    BY <1>0, <1>1, <1>2, <2>0 DEF MemoryIsOnDisk, WatermarkIsHigh
  <2>3. HoldsTheOldest'
    BY <1>0, <1>1, <1>2, <2>0 DEF HoldsTheOldest, WatermarkIsHigh
  <2>4. WatermarkIsHigh'
    BY <1>0, <1>2, <2>0 DEF WatermarkIsHigh
  <2>5. NothingSlipsAway'
    BY <1>0, <1>1, <1>2, <2>0 DEF NothingSlipsAway
  <2> QED
    BY <1>1, <1>4, <1>5, <2>1, <2>2, <2>3, <2>4, <2>5
<1>8. ASSUME NEW landed \in BOOLEAN, NEW dead \in BOOLEAN, PushJournalFails(s, landed, dead)
      PROVE  IInv'
  <2>0. /\ UNCHANGED <<queue, lastAccepted, acked>>
        /\ journalFailed' /\ s > lastAccepted
        /\ jPackets' \in {jPackets, jPackets \cup {s}}
    BY <1>8 DEF PushJournalFails, Fresh
  <2>1. JournalHasNoHole'
    BY <1>0, <1>2, <1>3, <2>0 DEF JournalHasNoHole
  <2>2. MemoryIsOnDisk'
    BY <1>0, <1>1, <1>2, <2>0 DEF MemoryIsOnDisk, WatermarkIsHigh
  <2>3. HoldsTheOldest'
    BY <1>0, <1>1, <1>2, <2>0 DEF HoldsTheOldest, WatermarkIsHigh
  <2>4. WatermarkIsHigh'
    BY <1>0, <1>2, <2>0 DEF WatermarkIsHigh
  <2>5. NothingSlipsAway'
    BY <1>0, <1>1, <1>2, <2>0 DEF NothingSlipsAway
  <2> QED
    BY <1>1, <1>4, <1>5, <2>1, <2>2, <2>3, <2>4, <2>5
<1> QED
  BY <1>6, <1>7, <1>8 DEF Push

\* It survives the process going down, coming back, and forgetting.
LEMMA ProcessKeeps == ASSUME IInv, Process, TypeOK' PROVE IInv'
<1> USE DEF IInv, Up, Endings, Flushing, Settled, Finished
<1>0. /\ UNCHANGED <<delivered, acked, givenUp>>
      /\ jProgress \in Nat /\ jPackets \subseteq Nat /\ acked \subseteq Nat
  <2>1. UNCHANGED <<delivered, acked, givenUp>>
    BY DEF Process, Restart, Shutdown, Exit, Crash, LoseMemory, RestartEnded, RestartRecovers,
           Forget, verdicts
  <2>2. jProgress \in Nat /\ jPackets \subseteq Nat /\ acked \subseteq Nat
    BY DEF TypeOK, Seqs
  <2> QED
    BY <2>1, <2>2
<1>1. Heard' = Heard /\ HeardInOrder'
  BY <1>0, SameHistory
<1>2. CASE Shutdown
  <2>0. /\ UNCHANGED <<fpc, cur, queue, lastAccepted, journalFailed, fatal, stopReq, stopStatus,
                       jPackets, jProgress, jStopped, jDead>>
        /\ life = "running" /\ life' = "closing"
    BY <1>2 DEF Shutdown, memory, disk
  <2>1. JournalHasNoHole' /\ MemoryIsOnDisk' /\ HoldsTheOldest'
    BY <1>0, <1>1, <2>0 DEF JournalHasNoHole, MemoryIsOnDisk, HoldsTheOldest
  <2>2. WatermarkIsHigh' /\ NothingSlipsAway'
    BY <1>0, <1>1, <2>0 DEF WatermarkIsHigh, NothingSlipsAway
  <2>3. FatalIsFinal' /\ EndingIsSettled'
    BY <1>0, <1>1, <2>0 DEF FatalIsFinal, EndingIsSettled
  <2> QED
    BY <1>1, <2>1, <2>2, <2>3
<1>3. CASE Exit \/ Crash
  <2>0. /\ UNCHANGED <<jPackets, jProgress, jStopped>>
        /\ life # "gone" /\ life' = "down" /\ fpc' = "exited" /\ cur' = 0 /\ queue' = {}
        /\ fatal' = "none" /\ stopStatus' = "none"
    BY <1>3 DEF Exit, Crash, LoseMemory, disk
  <2>1. JournalHasNoHole' /\ MemoryIsOnDisk' /\ HoldsTheOldest'
    BY <1>0, <1>1, <2>0 DEF JournalHasNoHole, MemoryIsOnDisk, HoldsTheOldest
  <2>2. WatermarkIsHigh' /\ NothingSlipsAway'
    BY <2>0 DEF WatermarkIsHigh, NothingSlipsAway
  <2>3. FatalIsFinal' /\ EndingIsSettled'
    BY <1>0, <1>1, <2>0 DEF FatalIsFinal, EndingIsSettled
  <2> QED
    BY <1>1, <2>1, <2>2, <2>3
<1>4. CASE RestartEnded \/ Forget
  <2>0. /\ jPackets' = {} /\ jProgress' = 0 /\ jStopped' = FALSE
        /\ life' = "gone" /\ fpc' = "exited" /\ cur' = 0 /\ queue' = {}
        /\ fatal' = "none" /\ stopStatus' = "none"
        /\ jStopped \/ stopStatus \in Endings \/ "open" \in Faults
    <3>1. CASE RestartEnded
      BY <3>1 DEF RestartEnded, RemoveJournal, HadEnded, memory, FatalIsFinal, TypeOK
    <3>2. CASE Forget
      BY <3>2 DEF Forget, RemoveJournal, EndingIsSettled, TypeOK, Statuses
    <3> QED
      BY <1>4, <3>1, <3>2
  <2>1. JournalHasNoHole' /\ MemoryIsOnDisk' /\ HoldsTheOldest'
    BY <2>0 DEF JournalHasNoHole, MemoryIsOnDisk, HoldsTheOldest
  <2>2. WatermarkIsHigh' /\ NothingSlipsAway'
    BY <2>0 DEF WatermarkIsHigh, NothingSlipsAway
  <2>3. FatalIsFinal' /\ EndingIsSettled'
    BY <1>0, <1>1, <2>0 DEF FatalIsFinal, EndingIsSettled
  <2> QED
    BY <1>1, <2>1, <2>2, <2>3
<1>5. ASSUME NEW reopened \in BOOLEAN, RestartRecovers(reopened) PROVE IInv'
  <2>0. /\ UNCHANGED <<cur, fatal, stopStatus, jPackets, jProgress, jStopped>>
        /\ life = "down" /\ ~jStopped /\ cur = 0 /\ stopStatus = "none"
        /\ life' = "running" /\ fpc' = "opening" /\ queue' = Backlog
        /\ lastAccepted' \in jPackets \cup {0} /\ \A t \in jPackets : t <= lastAccepted'
        /\ journalFailed' = ~reopened /\ (reopened => ~jDead')
    BY <1>5 DEF RestartRecovers, HadEnded, IsHighest, FatalIsFinal
  <2>1. fatal = "none"
    BY <2>0 DEF FatalIsFinal
  <2>2. JournalHasNoHole' /\ MemoryIsOnDisk' /\ HoldsTheOldest'
    BY <1>0, <1>1, <2>0 DEF JournalHasNoHole, MemoryIsOnDisk, HoldsTheOldest, Backlog
  <2>3. WatermarkIsHigh'
    <3>1. lastAccepted' \in Nat /\ jProgress <= lastAccepted' /\ cur <= lastAccepted'
      BY <1>0, <2>0 DEF MemoryIsOnDisk
    <3>2. \A s \in acked \cup Backlog : s <= lastAccepted'
      BY <1>0, <2>0 DEF JournalHasNoHole, Backlog
    <3> QED
      BY <1>0, <2>0, <3>1, <3>2 DEF WatermarkIsHigh
  <2>4. NothingSlipsAway'
    BY <1>0, <1>1, <2>0, <2>1 DEF NothingSlipsAway, MemoryIsOnDisk, Backlog
  <2>5. FatalIsFinal' /\ EndingIsSettled'
    BY <1>0, <1>1, <2>0, <2>1 DEF FatalIsFinal, EndingIsSettled
  <2> QED
    BY <1>1, <2>2, <2>3, <2>4, <2>5
<1> QED
  BY <1>2, <1>3, <1>4, <1>5 DEF Process, Restart

LEMMA InitIInv == Init => IInv
<1> SUFFICES ASSUME Init PROVE IInv
  OBVIOUS
<1>1. TypeOK
  BY InitTypeOK
<1>2. Heard = {} /\ HeardInOrder
  BY DEF Init, Heard, HeardInOrder
<1> QED
  BY <1>1, <1>2 DEF Init, IInv, JournalHasNoHole, MemoryIsOnDisk, HoldsTheOldest, WatermarkIsHigh,
     NothingSlipsAway, FatalIsFinal, EndingIsSettled, Up, Endings, Flushing, Settled, Finished

\* One step of the whole buffer.
LEMMA IInvStep == ASSUME IInv, [Next]_vars PROVE IInv'
<1>0. TypeOK'
  BY TypeStep DEF IInv
<1>1. CASE UNCHANGED vars
  <2>1. Heard' = Heard /\ HeardInOrder'
    BY <1>1, SameHistory DEF vars, IInv
  <2> QED
    BY <1>0, <1>1, <2>1 DEF vars, memory, disk, verdicts, IInv, JournalHasNoHole, MemoryIsOnDisk,
       HoldsTheOldest, WatermarkIsHigh, NothingSlipsAway, FatalIsFinal, EndingIsSettled, Up,
       Endings, Flushing, Settled, Finished
<1>2. CASE Forwarder
  BY <1>0, <1>2, OpenFailsKeeps, QuietKeeps, TakeKeeps, ConsumeKeeps, RecordedKeeps,
     SetFatalKeeps, EndingKeeps DEF Forwarder, OpenStream
<1>3. CASE Process
  BY <1>0, <1>3, ProcessKeeps
<1>4. ASSUME NEW s \in Seqs, ClientMayPush(s), Push(s) PROVE IInv'
  BY <1>0, <1>4, PushKeeps
<1>5. CASE RequestStop \/ StopReply
  BY <1>0, <1>5, StopKeeps
<1> QED
  BY <1>1, <1>2, <1>3, <1>4, <1>5 DEF Next, Gone

-----------------------------------------------------------------------------
(* What follows, for every value of the constants.                         *)

LEMMA Invariance == Spec => []IInv
<1>1. IInv /\ [Next]_vars => IInv'
  BY IInvStep
<1> QED
  BY InitIInv, <1>1, PTL DEF Spec

\* An ACKed packet is never lost, disk faults included: it has been heard, was
\* given up with a rejection, or is in the backlog a restart recovers - unless a
\* stream that cannot be opened ends the session over it.
THEOREM AcksAreKept == ASSUME "open" \notin Faults PROVE Spec => []AckedIsKept
<1>1. IInv => AckedIsKept
  <2> SUFFICES ASSUME IInv, NEW s \in acked, s \notin Settled PROVE s \in Backlog
    BY DEF AckedIsKept, Settled
  <2>1. life # "gone" /\ s \in jPackets
    BY DEF IInv, EndingIsSettled, JournalHasNoHole
  <2>2. s \in Nat /\ jProgress \in Nat /\ s \notin Heard
    BY DEF IInv, TypeOK, Seqs, Settled
  <2> QED
    BY <2>1, <2>2 DEF IInv, MemoryIsOnDisk, Backlog
<1> QED
  BY Invariance, <1>1, PTL

\* The tier never hears a packet before all earlier ones.
THEOREM OrderIsKept == Spec => []HeardInOrder
<1>1. IInv => HeardInOrder
  BY DEF IInv
<1> QED
  BY Invariance, <1>1, PTL

\* A stored ending means every ACKed packet was heard or given up.
THEOREM DrainIsABarrier == Spec => []DrainBarrier
<1>1. IInv => DrainBarrier
  BY DEF IInv, EndingIsSettled, DrainBarrier, Settled
<1> QED
  BY Invariance, <1>1, PTL

-----------------------------------------------------------------------------
(* The buffer implements the promise, when the disk does not fail.         *)

LEMMA EndingStep ==
    ASSUME "disk" \notin Faults, IInv, EndingIsOnRecord, [Next]_vars
    PROVE  EndingIsOnRecord'
<1> USE DEF EndingIsOnRecord, Endings, Up, Finished
<1>0. TypeOK /\ EndingIsSettled /\ FatalIsFinal
  BY DEF IInv
<1>1. CASE UNCHANGED vars
  BY <1>1 DEF vars, memory, disk
<1>2. CASE EndSession
  <2>1. jStopped' = TRUE
    BY <1>2 DEF EndSession, Landing
  <2> QED
    BY <1>2, <2>1 DEF EndSession, Steps
<1>3. CASE StopReply
  BY <1>3 DEF StopReply, memory, disk
<1>4. CASE Exit \/ Crash
  BY <1>4 DEF Exit, Crash, LoseMemory, disk
<1>5. CASE RestartEnded \/ Forget
  BY <1>0, <1>5 DEF RestartEnded, Forget, RemoveJournal, memory, FatalIsFinal
<1>6. ASSUME NEW reopened \in BOOLEAN, RestartRecovers(reopened) PROVE EndingIsOnRecord'
  BY <1>0, <1>6 DEF RestartRecovers, HadEnded, FatalIsFinal
<1>7. CASE Shutdown
  BY <1>7 DEF Shutdown, memory, disk
<1>8. CASE SeeShutdown
  BY <1>0, <1>8 DEF SeeShutdown, Steps, disk, EndingIsSettled, TypeOK
<1>9. CASE Open \/ Take \/ BeginDrain \/ Answered \/ TransportFailure \/ Rejection
            \/ RetryOrCancel \/ SetFatal \/ Flush
  BY <1>9 DEF Open, Take, BeginDrain, Answered, TransportFailure, Rejection, RetryOrCancel,
              SetFatal, Flush, disk
<1>10. CASE Recorded
  BY <1>10 DEF Recorded
<1>11. CASE RequestStop
  BY <1>11 DEF RequestStop, disk
<1>12. ASSUME NEW s \in Seqs, Push(s) PROVE EndingIsOnRecord'
  BY <1>12 DEF Push, PushReplay, PushAccept, PushJournalFails, memory, disk
<1>13. CASE OpenFails
  <2>1. stopStatus' = "unopened" /\ UNCHANGED <<life, jStopped, jDead, stopAnswers>>
        /\ Up /\ fpc = "opening"
    BY <1>13 DEF OpenFails, Steps, disk
  <2>2. stopStatus = "none"
    BY <1>0, <2>1 DEF EndingIsSettled
  <2> QED
    BY <2>1, <2>2
<1> QED
  BY <1>1, <1>2, <1>3, <1>4, <1>5, <1>6, <1>7, <1>8, <1>9, <1>10, <1>11, <1>12, <1>13
     DEF Next, Forwarder, OpenStream, Process, Restart, Gone

\* Once an ending was answered, the session neither forwards nor accepts.
LEMMA ClosedIsQuiet ==
    ASSUME IInv, EndingIsOnRecord, stopAnswers \cap Endings # {}
    PROVE  fpc = "exited" /\ ~Accepting
BY DEF IInv, EndingIsOnRecord, EndingIsSettled, TypeOK, Accepting, Finished, Endings, Up

\* Consuming the packet in hand is a Hear step of the promise, or none.
LEMMA ConsumeIsHear ==
    ASSUME IInv, Up, fpc = "pushing", Consume \/ UNCHANGED delivered
    PROVE  /\ Heard' = Heard \/ Heard' = Heard \cup {cur}
           /\ cur \in Seqs /\ \A t \in 1..(cur - 1) : t \in Heard
<1>1. cur \in Seqs /\ delivered \in Seq(Seqs)
  BY DEF IInv, TypeOK, Holding, Seqs
<1>2. \A t \in 1..(cur - 1) : t \in Heard
  BY <1>1 DEF IInv, Up, JournalHasNoHole, MemoryIsOnDisk, HoldsTheOldest, Seqs
<1> QED
  BY <1>1, <1>2, ConsumeHears, SameHistory

LEMMA StepsRefine ==
    ASSUME "disk" \notin Faults, IInv, EndingIsOnRecord, [Next]_vars
    PROVE  [Promise!Next]_(Promise!promiseVars)
<1> USE DEF Promise!Next, Promise!promiseVars, Promise!Packets
<1> DEFINE closed == stopAnswers \cap Endings # {}
<1>1. ASSUME UNCHANGED <<acked, delivered, givenUp, stopAnswers>>
      PROVE  UNCHANGED Promise!promiseVars
  BY <1>1, SameHistory
<1>2. CASE Answered \/ TransportFailure \/ Rejection
  <2>1. /\ Up /\ fpc = "pushing"
        /\ Consume \/ UNCHANGED delivered
        /\ UNCHANGED <<acked, givenUp, stopAnswers>>
    BY <1>2 DEF Answered, TransportFailure, Rejection, PerhapsConsume, Steps, verdicts
  <2>2. ~closed
    BY <2>1, ClosedIsQuiet
  <2>3. Heard' = Heard => UNCHANGED Promise!promiseVars
    BY <2>1
  <2>4. Heard' = Heard \cup {cur} => Promise!Hear(cur)
    BY <2>1, <2>2, ConsumeIsHear DEF Promise!Hear
  <2> QED
    BY <2>1, <2>3, <2>4, ConsumeIsHear DEF Seqs
<1>3. CASE SetFatal
  <2>1. Up /\ fpc # "exited" /\ UNCHANGED <<acked, delivered, stopAnswers>>
    BY <1>3 DEF SetFatal, Steps
  <2>2. ~closed
    BY <2>1, ClosedIsQuiet
  <2>3. givenUp' = givenUp \/ givenUp' = givenUp \cup (queue \cup {cur})
    BY <1>3 DEF SetFatal, verdicts
  <2>4. queue \cup {cur} \in SUBSET (1..MaxSeq)
    BY <1>3 DEF SetFatal, IInv, TypeOK, Holding, Seqs
  <2>5. CASE givenUp' = givenUp
    BY <1>1, <2>1, <2>5
  <2>6. CASE givenUp' = givenUp \cup (queue \cup {cur})
    <3>1. Promise!GiveUp(queue \cup {cur})
      BY <2>1, <2>2, <2>6, SameHistory DEF Promise!GiveUp
    <3> QED
      BY <2>4, <3>1
  <2> QED
    BY <2>3, <2>5, <2>6
<1>4. CASE StopReply
  <2>1. /\ UNCHANGED <<acked, delivered, givenUp>>
        /\ stopAnswers' = stopAnswers \cup {stopStatus}
    BY <1>4 DEF StopReply, verdicts
  <2>2. CASE stopStatus \in Endings
    <3>1. acked \subseteq Heard \cup givenUp
      BY <2>2 DEF IInv, EndingIsSettled, Settled
    <3>2. Promise!Close
      BY <2>1, <2>2, <3>1, SameHistory DEF Promise!Close
    <3> QED
      BY <3>2
  <2>3. CASE stopStatus \notin Endings
    BY <2>1, <2>3, SameHistory
  <2> QED
    BY <2>2, <2>3
<1>5. ASSUME NEW s \in Seqs, Push(s) PROVE [Promise!Next]_(Promise!promiseVars)
  <2>1. /\ Accepting /\ UNCHANGED <<delivered, givenUp, stopAnswers>>
        /\ acked' = acked \/ acked' = acked \cup {s}
    BY <1>5 DEF Push, PushReplay, PushAccept, PushJournalFails, Fresh, verdicts
  <2>2. ~closed
    BY <2>1, ClosedIsQuiet
  <2>3. CASE acked' = acked
    BY <1>1, <2>1, <2>3
  <2>4. CASE acked' = acked \cup {s}
    <3>1. Promise!Promise(s)
      BY <2>1, <2>2, <2>4, SameHistory DEF Promise!Promise
    <3> QED
      BY <3>1 DEF Seqs
  <2> QED
    BY <2>1, <2>3, <2>4
<1>6. CASE \/ Open \/ OpenFails \/ Take \/ BeginDrain \/ SeeShutdown \/ RetryOrCancel
           \/ Recorded \/ Flush \/ EndSession \/ RequestStop \/ Process \/ UNCHANGED vars
  <2>1. UNCHANGED <<acked, delivered, givenUp, stopAnswers>>
    BY <1>6 DEF Open, OpenFails, Take, BeginDrain, SeeShutdown, RetryOrCancel, Recorded, Flush,
       EndSession, RequestStop, Process, Shutdown, Exit, Crash, LoseMemory, Restart, RestartEnded,
       RestartRecovers, Forget, vars, verdicts
  <2> QED
    BY <1>1, <2>1
<1> QED
  BY <1>2, <1>3, <1>4, <1>5, <1>6 DEF Next, Forwarder, OpenStream, Gone

\* SessionBuffer, its journal and its forwarder implement RelayPromise: ACKs
\* are promises kept in order, and a stop is answered once, over kept promises.
THEOREM BufferKeepsItsPromise == ASSUME "disk" \notin Faults PROVE Spec => ImplementsPromise
<1>1. Init => IInv /\ EndingIsOnRecord
  BY InitIInv DEF Init, EndingIsOnRecord, Endings
<1>2. Init => Promise!Init
  BY DEF Init, Promise!Init, Heard
<1>3. IInv /\ EndingIsOnRecord /\ [Next]_vars => (IInv /\ EndingIsOnRecord)'
  BY IInvStep, EndingStep
<1>4. IInv /\ EndingIsOnRecord /\ [Next]_vars => [Promise!Next]_(Promise!promiseVars)
  BY StepsRefine
<1> QED
  BY <1>1, <1>2, <1>3, <1>4, PTL DEF Spec, ImplementsPromise, Promise!Spec

-----------------------------------------------------------------------------
(* The queue and the journal, and what is heard twice, when the disk does  *)
(* not fail.                                                               *)

\* Sets of packets are finite.
LEMMA PacketSetsAreFinite ==
    ASSUME NEW S, S \subseteq Seqs
    PROVE  IsFiniteSet(S) /\ Cardinality(S) \in Nat
<1>1. IsFiniteSet(Seqs)
  BY BoundsAssumption, FS_Interval DEF Seqs
<1> QED
  BY <1>1, FS_Subset, FS_CardinalityType

\* The counts that RepeatsArePaid compares are numbers.
LEMMA CountsAreNumbers ==
    ASSUME TypeOK
    PROVE  /\ Heard \subseteq Seqs /\ Backlog \subseteq Seqs
           /\ Repeats \in Int /\ Paid \in Nat
           /\ Cardinality(Backlog) \in Nat
<1>1. Heard \subseteq Seqs /\ Backlog \subseteq Seqs /\ Len(delivered) \in Nat
  BY DEF TypeOK, Heard, Backlog
<1>2. Paid \in Nat
  BY BoundsAssumption DEF TypeOK, Paid
<1> QED
  BY <1>1, <1>2, PacketSetsAreFinite DEF Repeats

\* Hearing a packet a second time is a repeat, hearing it first is none.
LEMMA ConsumeRepeats ==
    ASSUME TypeOK, cur \in Seqs, Consume
    PROVE  Repeats' = IF cur \in Heard THEN Repeats + 1 ELSE Repeats
<1>1. /\ delivered \in Seq(Seqs) /\ Len(delivered') = Len(delivered) + 1
      /\ Heard' = Heard \cup {cur}
  BY ConsumeHears DEF TypeOK, Consume
<1>2. IsFiniteSet(Heard) /\ Cardinality(Heard) \in Nat /\ Len(delivered) \in Nat
  BY CountsAreNumbers, PacketSetsAreFinite DEF TypeOK
<1>3. Cardinality(Heard') = IF cur \in Heard THEN Cardinality(Heard) ELSE Cardinality(Heard) + 1
  BY <1>1, <1>2, FS_AddElement
<1> QED
  BY <1>1, <1>2, <1>3 DEF Repeats

\* The steps that neither hear, nor record, nor queue anything.
LEMMA QuietBacklog ==
    ASSUME BacklogInv, IInv', UNCHANGED <<delivered, jPackets, jProgress, jDead>>,
           life' = "gone" <=> life = "gone",
           \/ UNCHANGED <<cur, queue, fatal>> /\ (Up' => Up) /\ (Finished => Finished')
           \/ ~Up' \/ Finished',
           \/ crashes' = crashes + 1
           \/ crashes' = crashes /\ (fpc = "answered" => fpc' = "answered"),
           unanswered' = unanswered
    PROVE  BacklogInv'
<1>1. Heard' = Heard /\ Backlog' = Backlog /\ Repeats' = Repeats
  BY DEF Heard, Backlog, Repeats
<1>2. BacklogIsQueue'
  BY <1>1 DEF BacklogInv, BacklogIsQueue, Up, IsLeast, Finished
<1>3. RepeatsArePaid'
  <2>1. Repeats \in Int /\ Paid \in Nat
    BY CountsAreNumbers DEF BacklogInv, IInv
  <2>2. CASE crashes' = crashes + 1
    <3>1. Paid' = Paid + 1
      BY <2>2, BoundsAssumption DEF Paid, BacklogInv, IInv, TypeOK
    <3> QED
      BY <1>1, <2>1, <3>1 DEF BacklogInv, RepeatsArePaid
  <2>3. CASE crashes' = crashes /\ (fpc = "answered" => fpc' = "answered")
    <3>1. Paid' = Paid
      BY <2>3 DEF Paid
    <3> QED
      BY <1>1, <2>3, <3>1 DEF BacklogInv, RepeatsArePaid
  <2> QED
    BY <2>2, <2>3
<1> QED
  BY <1>1, <1>2, <1>3 DEF BacklogInv

\* The forwarder's answers: a packet heard again was paid for before.
LEMMA ConsumeBacklog ==
    ASSUME BacklogInv, IInv', Answered \/ TransportFailure \/ Rejection
    PROVE  BacklogInv'
<1>0. /\ UNCHANGED <<life, cur, queue, fatal, stopStatus, jPackets, jProgress, jDead, crashes>>
      /\ Up /\ fpc = "pushing"
      /\ \/ UNCHANGED <<delivered, unanswered>> /\ fpc' # "answered"
         \/ Consume /\ UNCHANGED unanswered /\ fpc' = "answered"
         \/ Consume /\ unanswered' = unanswered + 1
      /\ cur \in Seqs /\ cur \in jPackets
  BY DEF Answered, TransportFailure, Rejection, PerhapsConsume, CountUnanswered, Steps, disk,
         verdicts, counts, BacklogInv, IInv, TypeOK, Holding, Seqs, MemoryIsOnDisk
<1>1. fatal = "none" /\ ~Finished /\ Backlog = queue \cup {cur} /\ \A s \in queue : cur < s
  BY <1>0 DEF BacklogInv, BacklogIsQueue, IInv, FatalIsFinal, EndingIsSettled, HoldsTheOldest,
     Seqs, Up
<1>2. IsLeast(cur, Backlog) /\ \A s \in Backlog : IsLeast(s, Backlog) => s = cur
  BY <1>0, <1>1 DEF IsLeast, BacklogInv, IInv, TypeOK, Seqs
<1>3. CASE Consume
  <2>1. Heard' = Heard \cup {cur} /\ Backlog' = Backlog
    BY <1>0, <1>3, ConsumeHears DEF Backlog, BacklogInv, IInv, TypeOK
  <2>2. Repeats' = IF cur \in Heard THEN Repeats + 1 ELSE Repeats
    BY <1>0, <1>3, ConsumeRepeats DEF BacklogInv, IInv
  <2>3. BacklogIsQueue'
    BY <1>0, <1>2, <2>1 DEF BacklogInv, BacklogIsQueue, Up, IsLeast, Finished
  <2>4. Repeats \in Int /\ Paid \in Nat
    BY CountsAreNumbers DEF BacklogInv, IInv
  <2>5. delivered' # delivered
    BY <1>0, <1>3, ConsumeHears DEF BacklogInv, IInv, TypeOK
  <2>6. Paid' = Paid + 1 \/ (Paid' = Paid /\ fpc' = "answered")
    <3>1. CASE unanswered' = unanswered + 1
      <4>0. \A c, u \in Int : c + (u + 1) = (c + u) + 1
        OBVIOUS
      <4>1. crashes' = crashes /\ crashes \in Int /\ unanswered \in Int
        BY <1>0, BoundsAssumption DEF BacklogInv, IInv, TypeOK
      <4>2. Paid' = crashes + (unanswered + 1)
        BY <3>1, <4>1, Zenon DEF Paid
      <4> QED
        BY <4>0, <4>1, <4>2, Zenon DEF Paid
    <3>2. CASE unanswered' = unanswered /\ fpc' = "answered"
      BY <1>0, <3>2 DEF Paid
    <3> QED
      BY <1>0, <2>5, <3>1, <3>2
  <2>7. RepeatsArePaid'
    <3>1. cur \in Heard => Heard \cap Backlog # {}
      BY <1>1
    <3> QED
      BY <1>0, <2>2, <2>4, <2>6, <3>1 DEF BacklogInv, RepeatsArePaid
  <2> QED
    BY <2>1, <2>3, <2>7 DEF BacklogInv
<1>4. CASE ~Consume
  <2>1. UNCHANGED <<delivered, unanswered>> /\ (life' = "gone" <=> life = "gone")
        /\ (Up' => Up) /\ (Finished => Finished')
    BY <1>0, <1>4 DEF Finished
  <2> QED
    BY <1>0, <2>1, QuietBacklog
<1> QED
  BY <1>3, <1>4

\* The Progress record takes the packet in hand out of the backlog, and with it the
\* only one that could be repeated.
LEMMA RecordedBacklog ==
    ASSUME "disk" \notin Faults, BacklogInv, IInv', Recorded
    PROVE  BacklogInv'
<1> USE DEF BacklogInv
<1>0. /\ UNCHANGED <<life, queue, fatal, stopStatus, jPackets, jDead, delivered, crashes, unanswered>>
      /\ Up /\ fpc = "answered" /\ cur' = 0 /\ cur \in Seqs /\ cur \in jPackets
      /\ jProgress' = IF cur > jProgress THEN cur ELSE jProgress
      /\ jProgress \in Nat /\ jPackets \subseteq Nat /\ queue \subseteq jPackets
  BY DEF Recorded, LetGo, Landing, Steps, verdicts, counts, IInv, TypeOK, Holding, Seqs,
         MemoryIsOnDisk, BacklogIsQueue
<1>1. ~Finished /\ Backlog = queue \cup {cur} /\ \A s \in queue : cur < s
  BY <1>0 DEF BacklogIsQueue, IInv, FatalIsFinal, EndingIsSettled, HoldsTheOldest, Seqs, Up
<1>2. cur > jProgress /\ jProgress' = cur
  <2>1. cur \in Backlog
    BY <1>1
  <2> QED
    BY <1>0, <2>1 DEF Backlog, Seqs
<1>3. Heard' = Heard /\ Repeats' = Repeats /\ Backlog' = Backlog \ {cur} /\ Backlog' = queue
  <2>1. Heard' = Heard /\ Repeats' = Repeats
    BY <1>0 DEF Heard, Repeats
  <2>2. \A s \in jPackets : s > cur <=> s \in Backlog \ {cur}
    BY <1>0, <1>1, <1>2 DEF Backlog, Seqs
  <2>3. Backlog' = Backlog \ {cur}
    BY <1>0, <1>2, <2>2 DEF Backlog
  <2> QED
    BY <1>1, <2>1, <2>3, <1>0 DEF Seqs
<1>4. Heard \cap Backlog' = {}
  <2>1. cur \in Nat /\ \A s \in Heard \cap Backlog : s <= cur
    BY <1>0, <1>1 DEF BacklogIsQueue, IsLeast, Seqs
  <2>2. \A s \in queue : s \in Backlog /\ s \in Nat /\ cur < s
    BY <1>0, <1>1
  <2> QED
    BY <1>3, <2>1, <2>2
<1>5. BacklogIsQueue'
  BY <1>0, <1>1, <1>3, <1>4 DEF BacklogIsQueue, Up, Finished
<1>6. Cardinality(Backlog') <= Capacity + 1
  <2>1. IsFiniteSet(Backlog) /\ cur \in Backlog /\ Cardinality(Backlog) \in Nat
    BY <1>1, CountsAreNumbers, PacketSetsAreFinite DEF IInv
  <2>2. Cardinality(Backlog') = Cardinality(Backlog) - 1
    BY <1>3, <2>1, FS_RemoveElement
  <2> QED
    BY <2>1, <2>2, BoundsAssumption
<1>7. RepeatsArePaid'
  <2>1. Paid' = Paid
    BY <1>0 DEF Paid
  <2> QED
    BY <1>3, <1>4, <2>1 DEF RepeatsArePaid
<1> QED
  BY <1>5, <1>6, <1>7

\* An accepted packet goes to the queue and to the journal, when there is room.
LEMMA PushBacklog ==
    ASSUME BacklogInv, IInv', NEW s \in Seqs, NEW ackArrives \in BOOLEAN,
           PushAccept(s, ackArrives)
    PROVE  BacklogInv'
<1> USE DEF BacklogInv
<1>0. /\ UNCHANGED <<life, fpc, cur, fatal, stopStatus, jProgress, jDead, delivered, counts>>
      /\ Up /\ fatal = "none" /\ ~Finished /\ ~journalFailed /\ ~jDead /\ s > lastAccepted
      /\ jPackets' = jPackets \cup {s} /\ queue' = queue \cup {s}
      /\ Cardinality(queue) < Capacity
  BY DEF PushAccept, Fresh, Accepting, HasRoom, BacklogIsQueue
<1>1. /\ lastAccepted \in Nat /\ jProgress \in Nat /\ jProgress <= lastAccepted
      /\ queue \subseteq Seqs /\ jPackets \subseteq Seqs
      /\ \A t \in jPackets : t <= lastAccepted
  BY <1>0 DEF IInv, TypeOK, WatermarkIsHigh
<1>2. Heard' = Heard /\ Repeats' = Repeats /\ Backlog' = Backlog \cup {s}
  BY <1>0, <1>1 DEF Heard, Repeats, Backlog, Seqs
<1>3. life # "gone" /\ Heard \subseteq jPackets /\ s \notin Heard
  BY <1>0, <1>1 DEF BacklogIsQueue, Up, Seqs
<1>4. Heard \cap Backlog' = Heard \cap Backlog
  BY <1>2, <1>3
<1>5. BacklogIsQueue'
  <2>1. ASSUME NEW t \in Heard \cap Backlog PROVE IsLeast(t, Backlog')
    <3>1. IsLeast(t, Backlog) /\ t \in jPackets
      BY DEF BacklogIsQueue, Backlog
    <3>2. t <= s
      BY <1>0, <1>1, <3>1 DEF Seqs
    <3> QED
      BY <1>2, <3>1, <3>2 DEF IsLeast
  <2> QED
    BY <1>0, <1>2, <1>3, <1>4, <2>1 DEF BacklogIsQueue, Up, Finished
<1>6. Cardinality(Backlog') <= Capacity + 1
  <2>1. Backlog = queue \cup (IF cur = 0 THEN {} ELSE {cur})
    BY <1>0 DEF BacklogIsQueue
  <2>2. IsFiniteSet(queue) /\ Cardinality(queue) \in Nat
    BY <1>1, PacketSetsAreFinite
  <2>3. IsFiniteSet(Backlog) /\ Cardinality(Backlog) <= Cardinality(queue) + 1
    <3>1. CASE cur = 0
      BY <2>1, <2>2, <3>1
    <3>2. CASE cur # 0
      BY <2>1, <2>2, <3>2, FS_AddElement
    <3> QED
      BY <3>1, <3>2
  <2>4. Cardinality(Backlog) \in Nat /\ Cardinality(Backlog') \in Nat
    BY <2>3, <1>2, FS_AddElement, FS_CardinalityType
  <2>5. Cardinality(Backlog') <= Cardinality(Backlog) + 1
    BY <1>2, <2>3, <2>4, FS_AddElement
  <2> QED
    BY <1>0, <2>2, <2>3, <2>4, <2>5, BoundsAssumption
<1>7. RepeatsArePaid'
  <2>1. Paid' = Paid
    BY <1>0 DEF Paid, counts
  <2> QED
    BY <1>0, <1>2, <1>4, <2>1 DEF RepeatsArePaid
<1> QED
  BY <1>5, <1>6, <1>7

\* A process that went down comes back with the backlog it left, or removes it.
LEMMA ProcessBacklog ==
    ASSUME "disk" \notin Faults, BacklogInv, IInv', Process
    PROVE  BacklogInv'
<1> USE DEF BacklogInv
<1>0. ~jDead /\ crashes \in Nat
  BY DEF BacklogIsQueue, IInv, TypeOK
<1>1. CASE Shutdown
  <2>1. /\ UNCHANGED <<fpc, cur, queue, fatal, stopStatus, jPackets, jProgress, jDead, delivered,
                       crashes, unanswered>>
        /\ life = "running" /\ life' = "closing"
    BY <1>1 DEF Shutdown, memory, disk
  <2> QED
    BY <2>1, QuietBacklog DEF Up, Finished
<1>2. CASE Exit \/ Crash
  <2>1. /\ UNCHANGED <<jPackets, jProgress, jDead, delivered, unanswered>>
        /\ life # "gone" /\ life' = "down" /\ fpc' = "exited"
        /\ crashes' = crashes + 1 \/ (crashes' = crashes /\ fpc = "exited")
    BY <1>2 DEF Exit, Crash, LoseMemory, disk
  <2> QED
    BY <2>1, QuietBacklog DEF Up
<1>3. CASE RestartEnded \/ Forget
  <2>1. /\ jPackets' = {} /\ jDead' = FALSE /\ life' = "gone" /\ UNCHANGED <<delivered, counts>>
    BY <1>3 DEF RestartEnded, Forget, RemoveJournal
  <2>2. Backlog' = {} /\ Heard' = Heard /\ Repeats' = Repeats /\ Paid' = Paid
    BY <2>1 DEF Backlog, Heard, Repeats, Paid, counts
  <2>3. BacklogIsQueue' /\ RepeatsArePaid'
    BY <2>1, <2>2 DEF BacklogIsQueue, RepeatsArePaid, Up
  <2>4. Cardinality(Backlog') <= Capacity + 1
    BY <2>2, FS_EmptySet, BoundsAssumption
  <2> QED
    BY <2>3, <2>4
<1>4. ASSUME NEW reopened \in BOOLEAN, RestartRecovers(reopened) PROVE BacklogInv'
  <2>1. /\ UNCHANGED <<cur, jPackets, jProgress, delivered, counts>>
        /\ life = "down" /\ fpc' # "answered" /\ fpc = "exited" /\ cur = 0
        /\ queue' = Backlog /\ ~jDead' /\ life' = "running"
    BY <1>4 DEF RestartRecovers, IInv, TypeOK, Up, Holding
  <2>2. Backlog' = Backlog /\ Heard' = Heard /\ Repeats' = Repeats /\ Paid' = Paid
    BY <2>1 DEF Backlog, Heard, Repeats, Paid, counts
  <2>3. BacklogIsQueue' /\ RepeatsArePaid'
    BY <2>1, <2>2 DEF BacklogIsQueue, RepeatsArePaid, IsLeast
  <2> QED
    BY <2>2, <2>3
<1> QED
  BY <1>1, <1>2, <1>3, <1>4 DEF Process, Restart

LEMMA BacklogStep ==
    ASSUME "disk" \notin Faults, BacklogInv, IInv', [Next]_vars
    PROVE  BacklogInv'
<1>1. CASE Answered \/ TransportFailure \/ Rejection
  BY <1>1, ConsumeBacklog
<1>2. CASE Recorded
  BY <1>2, RecordedBacklog
<1>3. CASE Process
  BY <1>3, ProcessBacklog
<1>4. CASE Take
  <2>1. /\ UNCHANGED <<life, fatal, stopStatus, jPackets, jProgress, jDead, delivered, counts>>
        /\ Up /\ cur = 0 /\ cur' \in queue /\ queue' = queue \ {cur'} /\ cur' # 0
        /\ fpc = "waiting" /\ fpc' = "pushing"
    BY <1>4 DEF Take, IsLeast, Steps, disk, verdicts, BacklogInv, IInv, TypeOK, Holding, Seqs
  <2>2. Backlog' = Backlog /\ Heard' = Heard /\ Repeats' = Repeats /\ Paid' = Paid
    BY <2>1 DEF Backlog, Heard, Repeats, Paid, counts
  <2>3. BacklogIsQueue' /\ RepeatsArePaid'
    BY <2>1, <2>2 DEF BacklogInv, BacklogIsQueue, RepeatsArePaid, IsLeast, Up, Finished
  <2> QED
    BY <2>2, <2>3 DEF BacklogInv
<1>5. CASE SetFatal
  <2>1. /\ UNCHANGED <<life, jPackets, jProgress, jDead, delivered, counts>>
        /\ fatal' # "none" /\ fpc # "answered" /\ fpc' # "answered"
    BY <1>5 DEF SetFatal, Steps, disk
  <2>2. Backlog' = Backlog /\ Heard' = Heard /\ Repeats' = Repeats /\ Paid' = Paid
    BY <2>1 DEF Backlog, Heard, Repeats, Paid, counts
  <2>3. BacklogIsQueue' /\ RepeatsArePaid'
    BY <2>1, <2>2 DEF BacklogInv, BacklogIsQueue, RepeatsArePaid, IsLeast
  <2> QED
    BY <2>2, <2>3 DEF BacklogInv
<1>6. ASSUME NEW s \in Seqs, Push(s) PROVE BacklogInv'
  <2>1. \A b, d \in BOOLEAN : ~PushJournalFails(s, b, d)
    BY DEF PushJournalFails
  <2>2. CASE PushReplay(s)
    BY <2>2, QuietBacklog DEF PushReplay, memory, disk, counts, Up, Finished
  <2> QED
    BY <1>6, <2>1, <2>2, PushBacklog DEF Push
<1>7. CASE RequestStop \/ StopReply \/ Open \/ OpenFails \/ BeginDrain \/ RetryOrCancel \/ Flush
           \/ SeeShutdown \/ EndSession \/ UNCHANGED vars
  <2>1. /\ UNCHANGED <<life, cur, queue, fatal, jPackets, jProgress, jDead, delivered, crashes,
                       unanswered>>
        /\ fpc = "answered" => fpc' = "answered"
        /\ Finished => Finished'
    BY <1>7 DEF RequestStop, StopReply, Open, OpenFails, BeginDrain, RetryOrCancel, Flush, SeeShutdown,
       EndSession, Steps, memory, disk, counts, vars, Finished
  <2> QED
    BY <2>1, QuietBacklog DEF Up
<1> QED
  BY <1>1, <1>2, <1>3, <1>4, <1>5, <1>6, <1>7 DEF Next, Forwarder, OpenStream, Gone

LEMMA BacklogInvariance == ASSUME "disk" \notin Faults PROVE Spec => []BacklogInv
<1>1. Init => BacklogInv
  <2> SUFFICES ASSUME Init PROVE BacklogInv
    OBVIOUS
  <2>1. Heard = {} /\ Backlog = {} /\ Len(delivered) = 0 /\ crashes = 0 /\ unanswered = 0
    BY DEF Init, Heard, Backlog
  <2>2. Repeats = 0 /\ Paid = 0 /\ Cardinality(Backlog) = 0
    BY <2>1, FS_EmptySet DEF Repeats, Paid
  <2> QED
    BY <2>1, <2>2, InitIInv, BoundsAssumption DEF Init, BacklogInv, BacklogIsQueue, RepeatsArePaid
<1>2. BacklogInv /\ [Next]_vars => BacklogInv'
  BY IInvStep, BacklogStep DEF BacklogInv
<1> QED
  BY <1>1, <1>2, PTL DEF Spec

\* The queue in memory and the backlog a restart would recover are the same packets,
\* and no sequence of restarts, cancellations and rejections outgrows the queue.
THEOREM JournalMirrorsQueue == ASSUME "disk" \notin Faults PROVE Spec => []QueueMirrorsJournal
<1>1. BacklogInv => QueueMirrorsJournal
  BY DEF BacklogInv, BacklogIsQueue, QueueMirrorsJournal, Up
<1> QED
  BY BacklogInvariance, <1>1, PTL

\* A packet is heard twice at most once per crash and once per packet the tier used
\* without answering OK.
THEOREM RepeatsAreBounded == ASSUME "disk" \notin Faults PROVE Spec => []RepeatsAreAccounted
<1>1. BacklogInv => RepeatsAreAccounted
  BY DEF BacklogInv, RepeatsArePaid, Repeats, Paid, RepeatsAreAccounted
<1> QED
  BY BacklogInvariance, <1>1, PTL
=============================================================================

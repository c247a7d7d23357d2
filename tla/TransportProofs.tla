--------------------------- MODULE TransportProofs ---------------------------
(***************************************************************************)
(* What holds of the two sessions the program keeps over a network, for    *)
(* every number of packets, frames, calls and faults: TierSession, the     *)
(* stream to the tier, and Http2, the connections between the client and   *)
(* the buffer server.                                                      *)
(***************************************************************************)
EXTENDS TierSession, Http2, FiniteSetTheorems, FunctionTheorems, TLAPS

-----------------------------------------------------------------------------
(* The inductive invariant, in named parts.                                *)

\* A packet is in hand until the forwarder finishes; an answer in a response only
\* while one is being filled from an open stream; and the stop is answered at the end.
InHand ==
    /\ pc \in {"push", "collect", "reset"} => at <= N /\ verdict = "none"
    /\ pc \in {"push", "reset", "finish"} => taken = {}
    /\ pc \in {"finish", "drain", "done"} /\ verdict = "none" => at = N + 1
    /\ pc \in {"collect", "drain"} => Riva /\ active
    /\ half => pc \in {"drain", "done"}
    /\ stopped # "none" => pc = "done"

\* Riva's stream carries consecutive packets from the one it was opened with; it
\* hears a prefix of them, answers that, and its end is read after its answers.
OneStream ==
    /\ Riva => /\ Len(heard) <= Len(sent)
               /\ \A i \in 1..Len(heard) : heard[i] = sent[i]
               /\ answered <= Len(heard)
    /\ \A i \in 1..Len(sent) : sent[i] = since + i - 1
    /\ taken \cup ToSet(buffer) \cup ToSet(coming) \subseteq ToSet(sent)
    /\ ended => closing # "none" /\ coming = <<>>
    /\ Triton => ~active /\ sent = <<>> /\ taken = {}

\* The packet after the last one a working stream has taken.
Follows(n) == since + Len(sent) = n
KeepsUp ==
    active /\ Serves /\ verdict = "none" =>
        /\ pc = "collect" => Follows(at + 1)
        /\ pc \in {"push", "finish", "drain"} => Follows(at)

\* No answer of an open stream is lost.
NoneLost ==
    Riva /\ active /\ verdict = "none" /\ pc # "done" =>
        \A i \in 1..answered :
            heard[i] \in taken \cup ToSet(buffer) \cup ToSet(coming) \cup applied

\* What an OK in the trailers stands for.
OkIsTrue ==
    closing = "ok" /\ pc # "done" /\ "early" \notin Faults =>
        /\ half /\ heard = sent /\ answered = Len(heard)
        /\ verdict = "none" => Follows(N + 1)

\* Packets follow each other, silence and the end apart.
InOrder(s) ==
    \A i \in 1..(Len(s) - 1) :
        s[i] \in Packets /\ s[i + 1] \in Packets => s[i + 1] \in {s[i], s[i] + 1}

\* Triton's stream begins with the reset=1 of the first infer that was answered.
FromTheFirst ==
    Triton /\ verdict = "none" =>
        /\ first <=> at = 1
        /\ ~first =>
             /\ heard # <<>> /\ heard[1] = 1
             /\ InOrder(heard)
             /\ 1..(at - 1) \subseteq ToSet(heard)
             /\ pc \in {"push", "reset"} => heard[Len(heard)] \in {at - 1, at}

\* What a stop that was answered OK stands for.
StopIsWhole ==
    stopped = "ok" =>
        /\ "early" \notin Faults => DrainedIsWhole
        /\ Triton => tick = Ticks /\ heard # <<>> /\ heard[Len(heard)] = N + 1

TierInv == /\ TypeOK /\ InHand /\ OneStream /\ KeepsUp /\ NoneLost /\ OkIsTrue
           /\ FromTheFirst /\ StopIsWhole

-----------------------------------------------------------------------------
(* Lemmas about sequences.                                                 *)

\* Appending adds one element, and moves none.
LEMMA AppendFacts ==
    ASSUME NEW S, NEW s \in Seq(S), NEW e
    PROVE  /\ Len(Append(s, e)) = Len(s) + 1
           /\ \A i \in 1..Len(s) : Append(s, e)[i] = s[i]
           /\ Append(s, e)[Len(s) + 1] = e
           /\ Append(s, e) # <<>>
           /\ ToSet(Append(s, e)) = ToSet(s) \cup {e}
<1>1. /\ Append(s, e) \in Seq(S \cup {e})
      /\ Len(Append(s, e)) = Len(s) + 1
      /\ \A i \in 1..Len(s) : Append(s, e)[i] = s[i]
      /\ Append(s, e)[Len(s) + 1] = e
  OBVIOUS
<1>2. DOMAIN Append(s, e) = DOMAIN s \cup {Len(s) + 1} /\ Append(s, e) # <<>>
  BY <1>1
<1>3. ToSet(Append(s, e)) = ToSet(s) \cup {e}
  BY <1>1, <1>2 DEF ToSet
<1> QED
  BY <1>1, <1>2, <1>3

\* The head and the tail of a sequence have its elements.
LEMMA HeadTailFacts ==
    ASSUME NEW S, NEW s \in Seq(S), s # <<>>
    PROVE  Tail(s) \in Seq(S) /\ Head(s) \in S /\ ToSet(s) = {Head(s)} \cup ToSet(Tail(s))
<1>1. /\ Tail(s) \in Seq(S) /\ Len(s) \in Nat \ {0} /\ Len(Tail(s)) = Len(s) - 1
      /\ \A i \in 1..Len(Tail(s)) : Tail(s)[i] = s[i + 1]
      /\ Head(s) = s[1]
  OBVIOUS
<1>2. DOMAIN s = 1..Len(s) /\ DOMAIN Tail(s) = 1..Len(Tail(s))
  BY <1>1
<1>3. \A i \in 1..Len(s) : i = 1 \/ (i - 1 \in 1..Len(Tail(s)) /\ s[i] = Tail(s)[i - 1])
  BY <1>1
<1>4. ToSet(s) \subseteq {Head(s)} \cup ToSet(Tail(s))
  <2> SUFFICES ASSUME NEW i \in 1..Len(s) PROVE s[i] \in {Head(s)} \cup ToSet(Tail(s))
    BY <1>2 DEF ToSet
  <2>1. CASE i = 1
    BY <1>1, <2>1
  <2>2. CASE i - 1 \in 1..Len(Tail(s)) /\ s[i] = Tail(s)[i - 1]
    BY <1>2, <2>2 DEF ToSet
  <2> QED
    BY <1>3, <2>1, <2>2
<1>5. {Head(s)} \cup ToSet(Tail(s)) \subseteq ToSet(s)
  BY <1>1, <1>2 DEF ToSet
<1> QED
  BY <1>1, <1>4, <1>5

\* The elements of a sequence are of its type.
LEMMA ToSetType == ASSUME NEW S, NEW s \in Seq(S) PROVE ToSet(s) \subseteq S
BY DEF ToSet

\* The set of a sequence of elements nobody sent is empty.
LEMMA ToSetEmpty == ToSet(<<>>) = {}
BY DEF ToSet

-----------------------------------------------------------------------------
(* Types.                                                                  *)

SequencesOK ==
    /\ sent \in Seq(Packets) /\ buffer \in Seq(Packets) /\ coming \in Seq(Packets)
    /\ heard \in Seq(0..(N + 1)) /\ since \in Packets /\ answered \in Nat
FlagsOK ==
    /\ link \in BOOLEAN /\ live \in BOOLEAN /\ active \in BOOLEAN /\ half \in BOOLEAN
    /\ ended \in BOOLEAN /\ first \in BOOLEAN
StatesOK ==
    /\ backend \in {"riva", "triton"} /\ at \in 1..(N + 1) /\ tick \in 0..Ticks
    /\ pc \in {"push", "collect", "reset", "finish", "drain", "done"}
    /\ taken \subseteq Packets /\ applied \subseteq Packets /\ faults \in 0..MaxFaults
    /\ opening \in {"none", "come", "checked"}
    /\ closing \in {"none", "ok", "transport", "error"}
    /\ verdict \in {"none", "stream", "tier"} /\ stopped \in {"none", "ok", "torn", "failed"}

\* The type invariant in three parts, for the steps that are too large otherwise.
LEMMA TypeParts == ASSUME SequencesOK', FlagsOK', StatesOK' PROVE TypeOK'
BY DEF TypeOK, SequencesOK, FlagsOK, StatesOK

LEMMA TypeStep == ASSUME TypeOK, InHand, OneStream, [Next]_vars PROVE TypeOK'
<1> USE TierAssumption DEF TypeOK, Packets, stream, reading, tier, triton, rivaSide, May, Fault,
                           Serves, Collecting
<1>1. CASE UNCHANGED vars
  BY <1>1 DEF vars
<1>2. CASE LinkBreaks
  <2>1. link' \in BOOLEAN
    BY <1>2 DEF LinkBreaks
  <2>2. faults' \in 0..MaxFaults
    BY <1>2 DEF LinkBreaks
  <2>3. live' = FALSE /\ UNCHANGED <<backend, pc, at, active, half, reading, sent, since, tier,
                                     taken, applied, triton, verdict, stopped>>
    BY <1>2 DEF LinkBreaks
  <2> QED
    <3>1. SequencesOK'
      BY <2>3 DEF SequencesOK
    <3>2. FlagsOK'
      BY <2>1, <2>3 DEF FlagsOK
    <3>3. StatesOK'
      BY <2>2, <2>3 DEF StatesOK
    <3> QED
      BY <3>1, <3>2, <3>3, TypeParts
<1>3. CASE LinkReturns
  BY <1>3 DEF LinkReturns
<1>4. CASE AtRest
  BY <1>4 DEF AtRest, vars
<1>5. CASE RivaHears
  <2>1. sent[Len(heard) + 1] \in 0..(N + 1)
    BY <1>5 DEF RivaHears
  <2>2. Append(heard, sent[Len(heard) + 1]) \in Seq(0..(N + 1))
    BY <2>1
  <2> QED
    BY <1>5, <2>2 DEF RivaHears
<1>6. CASE RivaAnswers
  <2>1. answered + 1 \in 1..Len(heard) /\ Len(heard) \in Nat /\ Len(sent) \in Nat
    BY <1>6 DEF RivaAnswers
  <2>2. heard[answered + 1] = sent[answered + 1] /\ answered + 1 \in 1..Len(sent)
    BY <1>6, <2>1 DEF RivaAnswers, OneStream
  <2>3. Append(coming, heard[answered + 1]) \in Seq(Packets)
    <3>1. heard[answered + 1] \in Packets
      BY <2>2
    <3> QED
      BY <3>1
  <2> QED
    BY <1>6, <2>3 DEF RivaAnswers
<1>7. CASE RivaEnds
  BY <1>7 DEF RivaEnds, EndsWith
<1>26. CASE RivaEndsEarly
  <2>1. PICK status \in {"ok", "transport", "error"} : EndsWith(status)
    BY <1>26 DEF RivaEndsEarly
  <2>2. faults' \in 0..MaxFaults
    BY <1>26 DEF RivaEndsEarly
  <2> QED
    BY <2>1, <2>2 DEF EndsWith
<1>27. CASE Absorb
  <2>1. buffer' \in Seq(Packets) /\ coming' \in Seq(Packets) /\ ended' \in BOOLEAN
    <3>1. CASE coming # <<>> /\ buffer' = Append(buffer, Head(coming)) /\ coming' = Tail(coming)
               /\ UNCHANGED ended
      <4>1. Head(coming) \in Packets /\ Tail(coming) \in Seq(Packets)
        BY <3>1
      <4> QED
        BY <3>1, <4>1
    <3>2. CASE ended' = TRUE /\ UNCHANGED <<buffer, coming>>
      BY <3>2
    <3> QED
      BY <1>27, <3>1, <3>2 DEF Absorb, Absorbed
  <2>2. opening' \in {"none", "come", "checked"}
    BY <1>27 DEF Absorb
  <2> QED
    BY <1>27, <2>1, <2>2 DEF Absorb
<1>28. CASE CheckHeaders
  BY <1>28 DEF CheckHeaders
<1>29. CASE RefusedByHeaders
  <2>1. <<>> \in Seq(Packets)
    OBVIOUS
  <2> QED
    BY <1>29, <2>1 DEF RefusedByHeaders, CollectFailsWith
<1>30. CASE Undecodable
  <2>1. buffer' \in Seq(Packets) /\ active' \in BOOLEAN
    <3>1. <<>> \in Seq(Packets) /\ Tail(buffer) \in Seq(Packets)
      BY <1>30 DEF Undecodable
    <3> QED
      BY <1>30, <3>1 DEF Undecodable
  <2>2. /\ taken' = {} /\ pc' \in {"reset", "finish", "done"} /\ verdict' \in {"none", "stream", "tier"}
        /\ stopped' \in {"none", "ok", "torn", "failed"}
    BY <1>30 DEF Undecodable, CollectFailsWith
  <2> QED
    BY <1>30, <2>1, <2>2 DEF Undecodable
<1>8. CASE RivaSend
  <2>1. Append(sent, at) \in Seq(Packets)
    BY <1>8 DEF RivaSend
  <2> QED
    <3>1. sent' \in Seq(Packets) /\ pc' = "collect"
      BY <1>8, <2>1 DEF RivaSend
    <3>2. UNCHANGED <<backend, at, link, live, active, half, reading, since, tier, taken, applied,
                      triton, verdict, stopped, faults>>
      BY <1>8 DEF RivaSend
    <3> QED
      BY <3>1, <3>2
<1>9. CASE RivaSendFails
  <2>1. /\ active' = FALSE /\ pc' = "reset"
        /\ UNCHANGED <<backend, at, link, live, half, reading, sent, since, tier, taken, applied,
                       triton, verdict, stopped, faults>>
    BY <1>9 DEF RivaSendFails
  <2> QED
    <3>1. SequencesOK'
      BY <2>1 DEF SequencesOK
    <3>2. FlagsOK'
      BY <2>1 DEF FlagsOK
    <3>3. StatesOK'
      BY <2>1 DEF StatesOK
    <3> QED
      BY <3>1, <3>2, <3>3, TypeParts
<1>10. CASE RivaNotOpen
  BY <1>10 DEF RivaNotOpen
<1>11. CASE Take
  <2>1. Tail(buffer) \in Seq(Packets) /\ Head(buffer) \in Packets
    BY <1>11 DEF Take
  <2>2. /\ taken' = taken \cup {Head(buffer)} /\ buffer' = Tail(buffer)
        /\ UNCHANGED <<backend, pc, at, link, live, active, half, opening, ended, sent, since, tier,
                       applied, triton, verdict, stopped, faults>>
    BY <1>11 DEF Take
  <2> QED
    <3>1. SequencesOK'
      BY <2>1, <2>2 DEF SequencesOK
    <3>2. FlagsOK'
      BY <2>1, <2>2 DEF FlagsOK
    <3>3. StatesOK'
      BY <2>1, <2>2 DEF StatesOK
    <3> QED
      BY <3>1, <3>2, <3>3, TypeParts
<1>12. CASE PushOk
  BY <1>12 DEF PushOk, InHand
<1>13. CASE CollectFails
  BY <1>13 DEF CollectFails, CollectFailsWith
<1>14. CASE FinishTornDown
  BY <1>14 DEF FinishTornDown
<1>31. CASE CloseSend
  BY <1>31 DEF CloseSend
<1>32. CASE CloseSendFails
  BY <1>32 DEF CloseSendFails
<1>15. CASE Drained
  BY <1>15 DEF Drained, TrailingStatus
<1>16. CASE DrainFails
  BY <1>16 DEF DrainFails
<1>17. CASE RivaReset
  <2>1. <<>> \in Seq(Packets) /\ <<>> \in Seq(0..(N + 1))
    OBVIOUS
  <2>2. since' \in Packets
    BY <1>17 DEF RivaReset, InHand
  <2>3. active' \in BOOLEAN /\ live' \in BOOLEAN
    BY <1>17 DEF RivaReset
  <2> QED
    BY <1>17, <2>1, <2>2, <2>3 DEF RivaReset, LeftAfterCancel
<1>18. ASSUME NEW p \in 0..(N + 1), TritonConsumes(p) PROVE heard' \in Seq(0..(N + 1))
  <2>1. <<p>> \in Seq(0..(N + 1)) /\ Append(heard, p) \in Seq(0..(N + 1))
    OBVIOUS
  <2> QED
    BY <1>18, <2>1 DEF TritonConsumes
<1>19. CASE InferOk
  <2>1. heard' \in Seq(0..(N + 1))
    BY <1>18, <1>19 DEF InferOk
  <2> QED
    BY <1>19, <2>1 DEF InferOk, FirstAfter
<1>20. CASE InferFails
  <2>1. heard' \in Seq(0..(N + 1))
    BY <1>18, <1>20 DEF InferFails
  <2> QED
    BY <1>20, <2>1 DEF InferFails, FirstAfter
<1>21. CASE Rejects
  <2>1. heard' \in Seq(0..(N + 1))
    BY <1>18, <1>21 DEF Rejects
  <2> QED
    BY <1>21, <2>1 DEF Rejects
<1>22. CASE TritonReset
  BY <1>22 DEF TritonReset
<1>23. CASE Silence
  <2>1. heard' \in Seq(0..(N + 1))
    BY <1>18, <1>23 DEF Silence
  <2> QED
    BY <1>23, <2>1 DEF Silence, FirstAfter
<1>24. CASE Final
  <2>1. heard' \in Seq(0..(N + 1))
    BY <1>18, <1>24 DEF Final
  <2> QED
    BY <1>24, <2>1 DEF Final, FirstAfter
<1>25. CASE FinishFails
  BY <1>25 DEF FinishFails
<1> QED
  BY <1>1, <1>2, <1>3, <1>4, <1>5, <1>6, <1>7, <1>8, <1>9, <1>10, <1>11, <1>12, <1>13,
     <1>14, <1>15, <1>16, <1>17, <1>19, <1>20, <1>21, <1>22, <1>23, <1>24, <1>25, <1>26,
     <1>27, <1>28, <1>29, <1>30, <1>31, <1>32
     DEF Next, RivaClient, TritonClient, RivaServer

-----------------------------------------------------------------------------
(* The packet in hand.                                                     *)

LEMMA InHandStep == ASSUME TypeOK, InHand, OneStream, [Next]_vars PROVE InHand'
<1> USE TierAssumption DEF InHand, stream, reading, tier, triton, rivaSide, Riva, Triton,
                           Serves, Collecting
<1>0. at \in 1..(N + 1)
  BY DEF TypeOK
<1>1. CASE UNCHANGED vars \/ AtRest
  BY <1>1 DEF AtRest, vars
<1>2. CASE LinkBreaks \/ LinkReturns
  BY <1>2 DEF LinkBreaks, LinkReturns
<1>3. CASE RivaServer
  BY <1>3 DEF RivaServer, RivaHears, RivaAnswers, RivaEnds, RivaEndsEarly, EndsWith
<1>4. CASE RivaSend \/ RivaSendFails \/ RivaNotOpen
  BY <1>4 DEF RivaSend, RivaSendFails, RivaNotOpen
<1>5. CASE Take \/ Absorb \/ CheckHeaders
  BY <1>5 DEF Take, Absorb, CheckHeaders
<1>6. CASE PushOk
  BY <1>0, <1>6 DEF PushOk
<1>7. CASE CollectFails \/ RivaReset
  BY <1>7 DEF CollectFails, CollectFailsWith, RivaReset
<1>13. CASE RefusedByHeaders \/ Undecodable
  BY <1>13 DEF RefusedByHeaders, Undecodable, CollectFailsWith
<1>8. CASE FinishTornDown \/ CloseSend \/ CloseSendFails
  BY <1>8 DEF FinishTornDown, CloseSend, CloseSendFails
<1>9. CASE Drained \/ DrainFails
  BY <1>9 DEF Drained, DrainFails
<1>10. CASE InferOk
  BY <1>0, <1>10 DEF InferOk, OneStream
<1>11. CASE InferFails
  BY <1>11 DEF InferFails
<1>16. CASE Rejects
  BY <1>16 DEF Rejects
<1>17. CASE TritonReset
  BY <1>17 DEF TritonReset
<1>12. CASE Silence
  BY <1>12 DEF Silence
<1>14. CASE Final
  BY <1>14 DEF Final
<1>15. CASE FinishFails
  BY <1>15 DEF FinishFails
<1> QED
  BY <1>1, <1>2, <1>3, <1>4, <1>5, <1>6, <1>7, <1>8, <1>9, <1>10, <1>11, <1>12, <1>13, <1>14, <1>15,
     <1>16, <1>17 DEF Next, RivaClient, TritonClient

-----------------------------------------------------------------------------
(* Riva's stream.                                                          *)

\* What a step of Riva's client, its network or the tier leaves of OneStream when
\* it only takes answers out, or breaks or ends something.
LEMMA OneStreamKept ==
    ASSUME OneStream,
           backend' = backend, sent' = sent, since' = since, heard' = heard, answered' = answered,
           Triton => active' = active,
           ended' => ended \/ (coming' = <<>> /\ closing' # "none"),
           ended => closing' = closing /\ coming' = coming,
           taken' \cup ToSet(buffer') \cup ToSet(coming')
              \subseteq taken \cup ToSet(buffer) \cup ToSet(coming),
           Triton => taken' = taken
    PROVE  OneStream'
BY DEF OneStream, Riva, Triton

\* Triton has no such stream, and a step of its session does not make one.
LEMMA OneStreamOfTriton ==
    ASSUME OneStream, Triton,
           UNCHANGED <<backend, active, ended, buffer, sent, since, coming, closing, taken>>
    PROVE  OneStream'
BY DEF OneStream, Riva, Triton

LEMMA OneStreamStep ==
    ASSUME TypeOK, InHand, OneStream, KeepsUp, [Next]_vars
    PROVE  OneStream'
<1> USE DEF stream, reading, tier, triton, rivaSide, Riva, Triton, Serves, Collecting
<1>0. /\ sent \in Seq(Packets) /\ buffer \in Seq(Packets) /\ coming \in Seq(Packets)
      /\ heard \in Seq(0..(N + 1)) /\ answered \in Nat /\ since \in Nat /\ at \in Nat
      /\ Len(sent) \in Nat /\ Len(heard) \in Nat
  BY TierAssumption DEF TypeOK, Packets
<1>1. CASE UNCHANGED vars
  BY <1>1, OneStreamKept DEF vars
<1>17. CASE AtRest
  BY <1>17, <1>1 DEF AtRest
<1>2. CASE LinkBreaks \/ LinkReturns
  BY <1>2, OneStreamKept DEF LinkBreaks, LinkReturns
<1>3. CASE RivaHears
  <2> DEFINE k == Len(heard) + 1
  <2>1. k \in 1..Len(sent) /\ k \in Nat /\ Len(heard) \in Nat
    BY <1>0, <1>3 DEF RivaHears
  <2>2. /\ Len(heard') = k
        /\ \A i \in 1..Len(heard) : heard'[i] = heard[i]
        /\ heard'[k] = sent[k]
    BY <1>0, <1>3, AppendFacts DEF RivaHears
  <2>3. \A i \in 1..k : i \in 1..Len(heard) \/ i = k
    BY <2>1
  <2>4. \A i \in 1..Len(heard) : heard[i] = sent[i]
    BY <1>0, <1>3 DEF RivaHears, OneStream
  <2>5. \A i \in 1..k : heard'[i] = sent[i]
    BY <2>2, <2>3, <2>4
  <2>6. Len(heard') <= Len(sent) /\ \A i \in 1..Len(heard') : heard'[i] = sent[i]
    BY <2>1, <2>2, <2>5
  <2>7. answered' <= Len(heard')
    BY <1>0, <1>3, <2>1, <2>2 DEF RivaHears, OneStream
  <2> QED
    BY <1>3, <2>6, <2>7 DEF RivaHears, OneStream
<1>4. CASE RivaAnswers
  <2> DEFINE p == heard[answered + 1]
  <2>1. answered + 1 \in 1..Len(heard) /\ Len(heard) \in Nat /\ Len(sent) \in Nat
    BY <1>0, <1>4 DEF RivaAnswers
  <2>2. p = sent[answered + 1] /\ answered + 1 \in DOMAIN sent
    BY <1>0, <1>4, <2>1 DEF RivaAnswers, OneStream
  <2>3. p \in ToSet(sent)
    BY <2>2 DEF ToSet
  <2>4. ToSet(coming') = ToSet(coming) \cup {p}
    BY <1>0, <1>4, AppendFacts DEF RivaAnswers
  <2>5. answered' <= Len(heard)
    BY <1>0, <1>4, <2>1 DEF RivaAnswers
  <2> QED
    BY <1>4, <2>3, <2>4, <2>5 DEF RivaAnswers, OneStream
<1>5. CASE RivaEnds \/ RivaEndsEarly
  <2>1. ~ended
    BY <1>5 DEF RivaEnds, RivaEndsEarly, OneStream
  <2> QED
    BY <1>5, <2>1, OneStreamKept DEF RivaEnds, RivaEndsEarly, EndsWith
<1>6. CASE RivaSend
  <2>1. CASE Serves
    <3>1. /\ Len(sent') = Len(sent) + 1
          /\ \A i \in 1..Len(sent) : sent'[i] = sent[i]
          /\ sent'[Len(sent) + 1] = at
          /\ ToSet(sent') = ToSet(sent) \cup {at}
      BY <1>0, <1>6, <2>1, AppendFacts DEF RivaSend
    <3>2. since + Len(sent) = at /\ Len(sent) \in Nat
      BY <1>0, <1>6, <2>1 DEF RivaSend, KeepsUp, Follows, InHand
    <3>3. \A i \in 1..Len(sent') : sent'[i] = since' + i - 1
      <4> SUFFICES ASSUME NEW i \in 1..(Len(sent) + 1) PROVE sent'[i] = since + i - 1
        BY <1>6, <3>1 DEF RivaSend
      <4>1. CASE i = Len(sent) + 1
        BY <1>0, <1>6, <3>1, <3>2, <4>1 DEF RivaSend
      <4>2. CASE i \in 1..Len(sent)
        BY <1>0, <3>1, <4>2 DEF OneStream
      <4> QED
        BY <1>0, <4>1, <4>2
    <3>4. Len(heard) <= Len(sent') /\ \A i \in 1..Len(heard) : heard[i] = sent'[i]
      BY <1>0, <1>6, <3>1 DEF RivaSend, OneStream
    <3> QED
      BY <1>0, <1>6, <3>1, <3>3, <3>4 DEF RivaSend, OneStream
  <2>2. CASE ~Serves
    BY <1>6, <2>2, OneStreamKept DEF RivaSend
  <2> QED
    BY <2>1, <2>2
<1>7. CASE RivaSendFails \/ RivaNotOpen
  BY <1>7, OneStreamKept DEF RivaSendFails, RivaNotOpen
<1>8. CASE Take
  <2>1. ToSet(buffer) = {Head(buffer)} \cup ToSet(Tail(buffer))
    BY <1>8, <1>0, HeadTailFacts DEF Take
  <2> QED
    BY <1>8, <2>1, OneStreamKept DEF Take
<1>18. CASE Absorb
  <2>1. CASE /\ coming # <<>>
             /\ buffer' = Append(buffer, Head(coming)) /\ coming' = Tail(coming)
             /\ UNCHANGED ended
    <3>1. ToSet(coming) = {Head(coming)} \cup ToSet(coming')
      BY <2>1, <1>0, HeadTailFacts
    <3>2. ToSet(buffer') = ToSet(buffer) \cup {Head(coming)}
      BY <2>1, <1>0, AppendFacts
    <3> QED
      BY <1>18, <2>1, <3>1, <3>2, OneStreamKept DEF Absorb
  <2>2. CASE coming = <<>> /\ closing # "none" /\ ended' = TRUE /\ UNCHANGED <<buffer, coming>>
    BY <1>18, <2>2, OneStreamKept DEF Absorb
  <2> QED
    BY <1>18, <2>1, <2>2 DEF Absorb, Absorbed
<1>19. CASE CheckHeaders
  BY <1>19, OneStreamKept DEF CheckHeaders
<1>20. CASE RefusedByHeaders
  BY <1>20, OneStreamKept, ToSetEmpty DEF RefusedByHeaders, CollectFailsWith
<1>21. CASE Undecodable
  <2>1. ToSet(buffer') \subseteq ToSet(buffer)
    <3>1. ToSet(buffer) = {Head(buffer)} \cup ToSet(Tail(buffer))
      BY <1>21, <1>0, HeadTailFacts DEF Undecodable
    <3> QED
      BY <1>21, <3>1, ToSetEmpty DEF Undecodable
  <2>2. taken' = {}
    BY <1>21 DEF Undecodable, CollectFailsWith
  <2> QED
    BY <1>21, <2>1, <2>2, OneStreamKept DEF Undecodable
<1>9. CASE PushOk
  BY <1>9, OneStreamKept DEF PushOk
<1>10. CASE CollectFails
  BY <1>10, OneStreamKept DEF CollectFails, CollectFailsWith
<1>11. CASE RivaReset
  <2>1. /\ sent' = <<>> /\ heard' = <<>> /\ buffer' = <<>> /\ coming' = <<>> /\ taken' = {}
        /\ answered' = 0 /\ ended' = FALSE /\ Len(<<>>) = 0
    BY <1>11 DEF RivaReset, LeftAfterCancel, InHand
  <2>2. backend' = "riva"
    BY <1>11 DEF RivaReset
  <2> QED
    BY <2>1, <2>2, ToSetEmpty DEF OneStream
<1>12. CASE FinishTornDown \/ CloseSend \/ CloseSendFails
  BY <1>12, OneStreamKept DEF FinishTornDown, CloseSend, CloseSendFails
<1>13. CASE Drained \/ DrainFails
  BY <1>13, OneStreamKept DEF Drained, DrainFails
<1>14. CASE TritonClient
  <2>1. Triton /\ UNCHANGED <<backend, active, ended, buffer, sent, since, coming, closing, taken>>
    BY <1>14 DEF TritonClient, InferOk, InferFails, Rejects, TritonReset, Silence, Final, FinishFails
  <2> QED
    BY <2>1, OneStreamOfTriton
<1> QED
  BY <1>1, <1>2, <1>3, <1>4, <1>5, <1>6, <1>7, <1>8, <1>9, <1>10, <1>11, <1>12, <1>13,
     <1>14, <1>17, <1>18, <1>19, <1>20, <1>21
     DEF Next, RivaClient, RivaServer

-----------------------------------------------------------------------------
(* What the stream has been given, and what has become of its answers.     *)

LEMMA KeepsUpStep ==
    ASSUME TypeOK, InHand, OneStream, KeepsUp, [Next]_vars
    PROVE  KeepsUp'
<1> USE DEF stream, reading, tier, triton, rivaSide, Riva, Triton, Serves, Collecting, KeepsUp,
            Follows
<1>0. at \in Nat /\ since \in Nat /\ sent \in Seq(Packets) /\ Len(sent) \in Nat
  BY TierAssumption DEF TypeOK, Packets
<1>1. CASE UNCHANGED vars \/ AtRest
  BY <1>1 DEF AtRest, vars
<1>2. CASE LinkBreaks \/ LinkReturns
  BY <1>2 DEF LinkBreaks, LinkReturns
<1>3. CASE RivaServer
  BY <1>3 DEF RivaServer, RivaHears, RivaAnswers, RivaEnds, RivaEndsEarly, EndsWith
<1>4. CASE RivaSend
  <2>1. CASE Serves
    <3>1. Len(sent') = Len(sent) + 1 /\ Len(sent) \in Nat
      BY <1>0, <1>4, <2>1, AppendFacts DEF RivaSend
    <3> QED
      BY <1>0, <1>4, <2>1, <3>1 DEF RivaSend
  <2>2. CASE ~Serves
    BY <1>4, <2>2 DEF RivaSend
  <2> QED
    BY <2>1, <2>2
<1>5. CASE RivaSendFails \/ RivaNotOpen
  BY <1>5 DEF RivaSendFails, RivaNotOpen
<1>6. CASE Take \/ Absorb \/ CheckHeaders
  BY <1>6 DEF Take, Absorb, CheckHeaders
<1>7. CASE RefusedByHeaders \/ Undecodable
  BY <1>7 DEF RefusedByHeaders, Undecodable, CollectFailsWith
<1>8. CASE PushOk
  BY <1>0, <1>8 DEF PushOk
<1>9. CASE CollectFails
  BY <1>9 DEF CollectFails
<1>10. CASE RivaReset
  <2>1. Len(<<>>) = 0
    OBVIOUS
  <2> QED
    BY <1>0, <1>10, <2>1 DEF RivaReset
<1>11. CASE FinishTornDown \/ CloseSend \/ CloseSendFails
  BY <1>11 DEF FinishTornDown, CloseSend, CloseSendFails
<1>12. CASE Drained \/ DrainFails
  BY <1>12 DEF Drained, DrainFails
<1>13. CASE TritonClient
  <2>1. active' = active /\ Triton
    BY <1>13 DEF TritonClient, InferOk, InferFails, Rejects, TritonReset, Silence, Final, FinishFails
  <2> QED
    BY <2>1 DEF OneStream
<1> QED
  BY <1>1, <1>2, <1>3, <1>4, <1>5, <1>6, <1>7, <1>8, <1>9, <1>10, <1>11, <1>12, <1>13
     DEF Next, RivaClient

\* The answers that are somewhere in the client's hands or on their way to it.
Kept == taken \cup ToSet(buffer) \cup ToSet(coming) \cup applied

LEMMA NoneLostKept ==
    ASSUME NoneLost, backend' = backend, answered' = answered, heard' = heard,
           active' => active, verdict' = "none" => verdict = "none", pc = "done" => pc' = "done",
           Kept \subseteq Kept'
    PROVE  NoneLost'
BY DEF NoneLost, Riva, Kept

LEMMA NoneLostStep ==
    ASSUME TypeOK, InHand, OneStream, NoneLost, [Next]_vars
    PROVE  NoneLost'
<1> USE DEF stream, reading, tier, triton, rivaSide, Riva, Triton, Serves, Collecting
<1>0. /\ buffer \in Seq(Packets) /\ coming \in Seq(Packets) /\ answered \in Nat
      /\ heard \in Seq(0..(N + 1)) /\ Len(heard) \in Nat
  BY DEF TypeOK
<1>1. CASE UNCHANGED vars \/ AtRest
  BY <1>1, NoneLostKept DEF AtRest, vars, Kept
<1>2. CASE LinkBreaks \/ LinkReturns
  BY <1>2, NoneLostKept DEF LinkBreaks, LinkReturns, Kept
<1>3. CASE RivaHears
  <2>1. \A i \in 1..Len(heard) : heard'[i] = heard[i]
    BY <1>3, <1>0, AppendFacts DEF RivaHears
  <2>2. \A i \in 1..answered : i \in 1..Len(heard)
    BY <1>0, <1>3 DEF RivaHears, OneStream
  <2> QED
    BY <1>3, <2>1, <2>2 DEF RivaHears, NoneLost
<1>4. CASE RivaAnswers
  <2>1. ToSet(coming') = ToSet(coming) \cup {heard[answered + 1]}
    BY <1>4, <1>0, AppendFacts DEF RivaAnswers
  <2>2. \A i \in 1..answered' : i \in 1..answered \/ i = answered + 1
    BY <1>0, <1>4 DEF RivaAnswers
  <2> QED
    BY <1>4, <2>1, <2>2 DEF RivaAnswers, NoneLost
<1>5. CASE RivaEnds \/ RivaEndsEarly
  BY <1>5, NoneLostKept DEF RivaEnds, RivaEndsEarly, EndsWith, Kept
<1>6. CASE RivaSend \/ RivaSendFails \/ RivaNotOpen
  BY <1>6, NoneLostKept DEF RivaSend, RivaSendFails, RivaNotOpen, Kept, InHand
<1>7. CASE Absorb
  <2>1. CASE /\ coming # <<>>
             /\ buffer' = Append(buffer, Head(coming)) /\ coming' = Tail(coming)
    <3>1. ToSet(coming) = {Head(coming)} \cup ToSet(coming')
      BY <2>1, <1>0, HeadTailFacts
    <3>2. ToSet(buffer') = ToSet(buffer) \cup {Head(coming)}
      BY <2>1, <1>0, AppendFacts
    <3> QED
      BY <1>7, <3>1, <3>2, NoneLostKept DEF Absorb, Kept
  <2>2. CASE UNCHANGED <<buffer, coming>>
    BY <1>7, <2>2, NoneLostKept DEF Absorb, Kept
  <2> QED
    BY <1>7, <2>1, <2>2 DEF Absorb, Absorbed
<1>8. CASE Take
  <2>1. ToSet(buffer) = {Head(buffer)} \cup ToSet(Tail(buffer))
    BY <1>8, <1>0, HeadTailFacts DEF Take
  <2> QED
    BY <1>8, <2>1, NoneLostKept DEF Take, Kept
<1>9. CASE CheckHeaders
  BY <1>9, NoneLostKept DEF CheckHeaders, Kept
<1>10. CASE RefusedByHeaders \/ Undecodable \/ CollectFails
  BY <1>10 DEF RefusedByHeaders, Undecodable, CollectFails, CollectFailsWith, NoneLost
<1>11. CASE PushOk
  BY <1>11, NoneLostKept DEF PushOk, Kept, InHand
<1>12. CASE RivaReset
  BY <1>12 DEF RivaReset, NoneLost
<1>13. CASE FinishTornDown \/ CloseSend \/ CloseSendFails
  BY <1>13, NoneLostKept DEF FinishTornDown, CloseSend, CloseSendFails, Kept, InHand
<1>14. CASE Drained \/ DrainFails
  BY <1>14 DEF Drained, DrainFails, NoneLost
<1>15. CASE TritonClient
  <2>1. backend' = backend /\ Triton
    BY <1>15 DEF TritonClient, InferOk, InferFails, Rejects, TritonReset, Silence, Final, FinishFails
  <2> QED
    BY <2>1 DEF NoneLost
<1> QED
  BY <1>1, <1>2, <1>3, <1>4, <1>5, <1>6, <1>7, <1>8, <1>9, <1>10, <1>11, <1>12, <1>13, <1>14, <1>15
     DEF Next, RivaClient, RivaServer

LEMMA OkIsTrueStep ==
    ASSUME TypeOK, InHand, OneStream, KeepsUp, OkIsTrue, [Next]_vars
    PROVE  OkIsTrue'
<1> SUFFICES ASSUME closing' = "ok", pc' # "done", "early" \notin Faults
             PROVE  /\ half' /\ heard' = sent' /\ answered' = Len(heard')
                    /\ verdict' = "none" => since' + Len(sent') = N + 1
  BY DEF OkIsTrue, Follows
<1> USE DEF InHand, stream, reading, tier, triton, rivaSide, Riva, Triton, Serves, Collecting
<1> DEFINE Same == UNCHANGED <<pc, half, heard, sent, answered, since, closing, verdict>>
<1>2. CASE UNCHANGED vars \/ AtRest \/ LinkBreaks \/ LinkReturns \/ Absorb \/ CheckHeaders \/ Take
  <2>1. Same
    BY <1>2 DEF vars, AtRest, LinkBreaks, LinkReturns, Absorb, CheckHeaders, Take
  <2> QED
    BY <2>1 DEF OkIsTrue, Follows
<1>3. CASE RivaHears \/ RivaAnswers
  BY <1>3 DEF RivaHears, RivaAnswers
<1>4. CASE RivaEnds
  <2>1. pc = "drain" /\ active
    BY <1>4 DEF RivaEnds, EndsWith
  <2>2. verdict = "none" => since + Len(sent) = N + 1
    BY <1>4, <2>1 DEF RivaEnds, KeepsUp, Follows
  <2> QED
    BY <1>4, <2>2 DEF RivaEnds, EndsWith
<1>5. CASE RivaEndsEarly
  BY <1>5 DEF RivaEndsEarly, EndsWith, May
<1>6. CASE RivaSend \/ RivaSendFails \/ RivaNotOpen
  BY <1>6 DEF RivaSend, RivaSendFails, RivaNotOpen, OkIsTrue
<1>7. CASE RefusedByHeaders \/ Undecodable \/ CollectFails
  <2>1. /\ pc' # "done" => half' = half /\ pc \in {"collect"} /\ closing' = closing
    BY <1>7 DEF RefusedByHeaders, Undecodable, CollectFails, CollectFailsWith
  <2> QED
    BY <2>1 DEF OkIsTrue
<1>8. CASE PushOk
  BY <1>8 DEF PushOk, OkIsTrue
<1>9. CASE RivaReset
  BY <1>9 DEF RivaReset
<1>10. CASE FinishTornDown \/ CloseSendFails \/ Drained \/ DrainFails
  BY <1>10 DEF FinishTornDown, CloseSendFails, Drained, DrainFails
<1>11. CASE CloseSend
  BY <1>11 DEF CloseSend, OkIsTrue
<1>12. CASE TritonClient
  <2>1. closing' = closing /\ half' = half /\ pc \notin {"drain", "done"}
    BY <1>12 DEF TritonClient, InferOk, InferFails, Rejects, TritonReset, Silence, Final, FinishFails
  <2> QED
    BY <2>1 DEF OkIsTrue
<1> QED
  BY <1>2, <1>3, <1>4, <1>5, <1>6, <1>7, <1>8, <1>9, <1>10, <1>11, <1>12
     DEF Next, RivaClient, RivaServer

-----------------------------------------------------------------------------
(* Triton's stream.                                                        *)

\* A packet that follows the last one may be appended.
LEMMA InOrderAppend ==
    ASSUME NEW s \in Seq(0..(N + 1)), s # <<>>, InOrder(s), NEW e \in 0..(N + 1),
           e \in Packets => e \in {s[Len(s)], s[Len(s)] + 1}
    PROVE  InOrder(Append(s, e))
<1> DEFINE t == Append(s, e)
<1>1. /\ Len(t) = Len(s) + 1 /\ Len(s) \in Nat
      /\ \A i \in 1..Len(s) : t[i] = s[i]
      /\ t[Len(s) + 1] = e
  BY AppendFacts
<1> SUFFICES ASSUME NEW i \in 1..Len(s), t[i] \in Packets, t[i + 1] \in Packets
             PROVE  t[i + 1] \in {t[i], t[i] + 1}
  BY <1>1 DEF InOrder
<1> HIDE DEF t
<1>2. CASE i = Len(s)
  BY <1>1, <1>2
<1>3. CASE i # Len(s)
  <2>1. i \in 1..(Len(s) - 1) /\ i + 1 \in 1..Len(s)
    BY <1>1, <1>3
  <2> QED
    BY <1>1, <2>1 DEF InOrder
<1> QED
  BY <1>2, <1>3

LEMMA FromTheFirstStep ==
    ASSUME TypeOK, InHand, OneStream, FromTheFirst, [Next]_vars
    PROVE  FromTheFirst'
<1> SUFFICES ASSUME Triton, Triton', verdict' = "none"
             PROVE  FromTheFirst'
  <2>1. backend' = backend
    BY DEF Next, RivaClient, TritonClient, RivaServer, RivaHears, RivaAnswers, RivaEnds,
           RivaEndsEarly, EndsWith, RivaSend, RivaSendFails, RivaNotOpen, Absorb, CheckHeaders,
           RefusedByHeaders, Take, Undecodable, PushOk, CollectFails, RivaReset, FinishTornDown,
           CloseSend, CloseSendFails, Drained, DrainFails, InferOk, InferFails, Rejects,
           TritonReset, Silence, Final, FinishFails, LinkBreaks, LinkReturns, AtRest, vars
  <2> QED
    BY <2>1 DEF FromTheFirst, Triton
<1>1. ~Riva /\ pc \notin {"collect", "drain"}
  BY DEF Riva, Triton, InHand
<1> DEFINE Grown(e) ==
      /\ heard' # <<>> /\ heard'[1] = 1 /\ InOrder(heard')
      /\ 1..(at - 1) \cup {e} \subseteq ToSet(heard')
      /\ heard'[Len(heard')] = e
<1>2. ASSUME NEW e \in 0..(N + 1), TritonConsumes(e), verdict = "none", ~first,
             e \in Packets => e \in {heard[Len(heard)], heard[Len(heard)] + 1}
      PROVE  Grown(e)
  <2>1. /\ heard \in Seq(0..(N + 1)) /\ heard # <<>> /\ heard[1] = 1 /\ InOrder(heard)
        /\ 1..(at - 1) \subseteq ToSet(heard)
    BY <1>2 DEF TypeOK, FromTheFirst
  <2>2. heard' = Append(heard, e)
    BY <1>2 DEF TritonConsumes
  <2>3. /\ Len(heard') = Len(heard) + 1 /\ \A i \in 1..Len(heard) : heard'[i] = heard[i]
        /\ heard'[Len(heard) + 1] = e /\ heard' # <<>>
        /\ ToSet(heard') = ToSet(heard) \cup {e}
    BY <2>1, <2>2, AppendFacts
  <2>4. InOrder(heard')
    BY <1>2, <2>1, <2>2, InOrderAppend
  <2>5. 1 \in 1..Len(heard)
    BY <2>1
  <2> QED
    BY <2>1, <2>3, <2>4, <2>5
<1>3. ASSUME TritonConsumes(1), first PROVE heard' = <<1>>
  BY <1>3 DEF TritonConsumes
<1>4. /\ <<1>> # <<>> /\ <<1>>[1] = 1 /\ Len(<<1>>) = 1 /\ InOrder(<<1>>) /\ ToSet(<<1>>) = {1}
  BY DEF InOrder, ToSet
<1> HIDE DEF Grown
<1> USE DEF TypeOK, InHand, FromTheFirst, Packets, stream, reading, tier, triton, rivaSide
<1>5. CASE UNCHANGED vars
  BY <1>5 DEF vars
<1>6. CASE AtRest
  BY <1>6, <1>5 DEF AtRest
<1>7. CASE LinkBreaks \/ LinkReturns
  BY <1>7 DEF LinkBreaks, LinkReturns
<1>8. CASE InferOk
  <2>4. first' = FALSE
    <3>1. first' = (first /\ ~TRUE)
      BY <1>8, Zenon DEF InferOk, FirstAfter
    <3> QED
      BY <3>1
  <2>5. TritonConsumes(at) /\ pc = "push" /\ at <= N /\ at' = at + 1
    BY <1>8, Zenon DEF InferOk
  <2>1. /\ pc = "push" /\ at \in Packets /\ TritonConsumes(at) /\ first' = FALSE
        /\ at' = at + 1 /\ verdict = "none"
    BY <2>4, <2>5, TierAssumption
  <2>2. CASE first
    <3>1. at = 1 /\ heard' = <<1>> /\ at' = 2
      BY <2>1, <2>2, <1>3
    <3> QED
      BY <2>1, <3>1, <1>4
  <2>3. CASE ~first
    <3>1. Grown(at)
      BY <2>1, <2>3, <1>2
    <3>2. 1..(at' - 1) = 1..(at - 1) \cup {at} /\ at' # 1 /\ at' - 1 = at
      BY <2>1
    <3> QED
      BY <2>1, <3>1, <3>2 DEF Grown
  <2> QED
    BY <2>2, <2>3
<1>9. CASE InferFails
  <2>1. /\ pc = "push" /\ pc' = "reset" /\ at \in Packets
        /\ (TritonConsumes(at) \/ heard' = heard)
        /\ first' = first /\ at' = at /\ verdict = "none"
    BY <1>9, TierAssumption DEF InferFails, FirstAfter
  <2>2. CASE first
    BY <2>1, <2>2
  <2>3. CASE ~first /\ heard' = heard
    BY <2>1, <2>3
  <2>4. CASE ~first /\ TritonConsumes(at)
    <3>1. Grown(at)
      BY <2>1, <2>4, <1>2
    <3> QED
      BY <2>1, <2>4, <3>1 DEF Grown
  <2> QED
    BY <2>1, <2>2, <2>3, <2>4
<1>10. CASE Rejects
  BY <1>10 DEF Rejects
<1>11. CASE TritonReset
  BY <1>11 DEF TritonReset
<1>12. CASE Silence \/ Final
  <2>1. PICK e \in {0, N + 1} : TritonConsumes(e)
    BY <1>12 DEF Silence, Final
  <2>2. /\ pc = "finish" /\ verdict = "none" /\ at = N + 1 /\ at' = at /\ first' = FALSE /\ ~first
        /\ pc' \in {"finish", "done"}
    BY <1>12, TierAssumption DEF Silence, Final, FirstAfter
  <2>3. e \in 0..(N + 1) /\ e \notin Packets
    BY <2>1, TierAssumption
  <2>4. Grown(e)
    BY <2>1, <2>2, <2>3, <1>2
  <2> QED
    BY <2>2, <2>4, TierAssumption DEF Grown
<1>13. CASE FinishFails
  BY <1>13 DEF FinishFails
<1>14. ~RivaServer /\ ~RivaClient
  BY <1>1 DEF RivaClient, RivaServer, Serves, Collecting, RivaHears, RivaAnswers, RivaEnds,
     RivaEndsEarly, RivaSend, RivaSendFails, RivaNotOpen, Absorb, CheckHeaders, RefusedByHeaders,
     Take, Undecodable, PushOk, CollectFails, RivaReset, FinishTornDown, CloseSend, CloseSendFails,
     Drained, DrainFails
<1> QED
  BY <1>1, <1>5, <1>6, <1>7, <1>8, <1>9, <1>10, <1>11, <1>12, <1>13, <1>14
     DEF Next, TritonClient

-----------------------------------------------------------------------------
(* The stop.                                                               *)

LEMMA StopIsWholeStep ==
    ASSUME TypeOK, InHand, OneStream, NoneLost, OkIsTrue, StopIsWhole, [Next]_vars
    PROVE  StopIsWhole'
<1> USE DEF InHand, Riva, Triton, stream, reading, tier, triton, rivaSide, Serves, Collecting
<1>1. CASE /\ UNCHANGED <<backend, stopped, verdict, applied, since, tick>>
           /\ heard' = heard \/ (Riva /\ ToSet(heard) \subseteq ToSet(heard'))
  BY <1>1 DEF StopIsWhole, DrainedIsWhole
<1>2. CASE UNCHANGED vars \/ AtRest \/ LinkBreaks \/ LinkReturns
  BY <1>1, <1>2 DEF vars, AtRest, LinkBreaks, LinkReturns
<1>3. CASE RivaHears
  <2>1. ToSet(heard) \subseteq ToSet(heard')
    BY <1>3, AppendFacts DEF RivaHears, TypeOK
  <2> QED
    BY <1>1, <1>3, <2>1 DEF RivaHears
<1>4. CASE RivaAnswers \/ RivaEnds \/ RivaEndsEarly
  BY <1>1, <1>4 DEF RivaAnswers, RivaEnds, RivaEndsEarly, EndsWith
<1>5. CASE Drained
  <2>1. SUFFICES ASSUME stopped' = "ok", verdict = "none", "early" \notin Faults
                 PROVE  since..N \subseteq ToSet(heard) \cap (applied \cup taken)
    BY <1>5 DEF Drained, StopIsWhole, DrainedIsWhole
  <2>2. /\ pc = "drain" /\ closing = "ok" /\ buffer = <<>> /\ coming = <<>> /\ active
    BY <1>5, <2>1 DEF Drained, TrailingStatus, Ended, OneStream
  <2>3. heard = sent /\ answered = Len(heard) /\ since + Len(sent) = N + 1
    BY <2>1, <2>2 DEF OkIsTrue, Follows
  <2>4. \A i \in 1..answered : heard[i] \in taken \cup applied
    BY <1>5, <2>1, <2>2, ToSetEmpty DEF Drained, NoneLost
  <2> SUFFICES ASSUME NEW p \in since..N PROVE p \in ToSet(heard) /\ p \in taken \cup applied
    OBVIOUS
  <2>0. since \in Nat /\ N \in Nat /\ Len(sent) \in Nat /\ heard \in Seq(0..(N + 1))
    BY TierAssumption DEF TypeOK, Packets
  <2>7. p - since + 1 \in 1..Len(sent)
    BY <2>0, <2>3
  <2>5. p - since + 1 \in 1..Len(sent) /\ sent[p - since + 1] = p
    BY <2>0, <2>7 DEF OneStream
  <2>6. heard[p - since + 1] \in ToSet(heard)
    BY <2>0, <2>3, <2>5 DEF ToSet
  <2> QED
    BY <2>3, <2>4, <2>5, <2>6
<1>6. CASE Final
  <2>1. heard \in Seq(0..(N + 1))
    BY DEF TypeOK
  <2>2. heard' # <<>> /\ heard'[Len(heard')] = N + 1
    <3>1. heard' = <<N + 1>> \/ heard' = Append(heard, N + 1)
      BY <1>6 DEF Final, TritonConsumes
    <3>2. Len(<<N + 1>>) = 1 /\ <<N + 1>>[1] = N + 1 /\ <<N + 1>> # <<>>
      OBVIOUS
    <3>3. CASE heard' = <<N + 1>>
      BY <3>2, <3>3
    <3>4. CASE heard' = Append(heard, N + 1)
      BY <2>1, <3>4, AppendFacts
    <3> QED
      BY <3>1, <3>3, <3>4
  <2> QED
    BY <1>6, <2>2 DEF Final, StopIsWhole, DrainedIsWhole
<1>7. ASSUME pc # "done", stopped' = stopped \/ stopped' # "ok" PROVE StopIsWhole'
  BY <1>7 DEF StopIsWhole
<1>8. CASE RivaSend \/ RivaSendFails \/ RivaNotOpen \/ PushOk \/ CollectFails \/ RivaReset
           \/ Absorb \/ CheckHeaders \/ RefusedByHeaders \/ Take \/ Undecodable
           \/ FinishTornDown \/ CloseSend \/ CloseSendFails \/ DrainFails
  BY <1>7, <1>8 DEF RivaSend, RivaSendFails, RivaNotOpen, PushOk, CollectFails, CollectFailsWith,
     RivaReset, Absorb, CheckHeaders, RefusedByHeaders, Take, Undecodable, FinishTornDown, CloseSend,
     CloseSendFails, DrainFails
<1>9. CASE InferOk \/ InferFails \/ Rejects \/ TritonReset \/ Silence \/ FinishFails
  BY <1>7, <1>9 DEF InferOk, InferFails, Rejects, TritonReset, Silence, FinishFails
<1> QED
  BY <1>2, <1>3, <1>4, <1>5, <1>6, <1>8, <1>9 DEF Next, RivaClient, RivaServer, TritonClient

-----------------------------------------------------------------------------
(* The theorems.                                                           *)

LEMMA TierInit == Init => TierInv
<1> SUFFICES ASSUME Init PROVE TierInv
  OBVIOUS
<1> USE TierAssumption DEF Init, Riva, Triton
<1>1. heard \in Seq(0..(N + 1)) /\ <<>> \in Seq(Packets)
  <2>1. <<>> \in Seq(0..(N + 1)) /\ <<0>> \in Seq(0..(N + 1)) /\ <<>> \in Seq(Packets)
    OBVIOUS
  <2> QED
    BY <2>1
<1>2. TypeOK
  <2>1. active \in BOOLEAN
    OBVIOUS
  <2>2. since \in Packets /\ answered \in Nat /\ at \in 1..(N + 1) /\ tick \in 0..Ticks /\ faults \in 0..MaxFaults
    BY DEF Packets
  <2> QED
    BY <1>1, <2>1, <2>2 DEF TypeOK
<1>3. InHand
  BY DEF InHand
<1>4. OneStream
  <2>1. Len(<<>>) = 0
    OBVIOUS
  <2>2. Triton => ~active
    OBVIOUS
  <2>3. sent = <<>> /\ buffer = <<>> /\ coming = <<>> /\ taken = {} /\ ended = FALSE /\ answered = 0
    OBVIOUS
  <2>4. Riva => heard = <<>>
    OBVIOUS
  <2> QED
    BY <2>1, <2>2, <2>3, <2>4, ToSetEmpty DEF OneStream
<1>6. KeepsUp /\ NoneLost /\ OkIsTrue
  <2>1. Len(<<>>) = 0
    OBVIOUS
  <2> QED
    BY <2>1 DEF KeepsUp, NoneLost, OkIsTrue, Follows
<1>5. FromTheFirst /\ StopIsWhole
  BY DEF FromTheFirst, StopIsWhole
<1> QED
  BY <1>2, <1>3, <1>4, <1>5, <1>6 DEF TierInv

LEMMA TierInvStep == TierInv /\ [Next]_vars => TierInv'
BY TypeStep, InHandStep, OneStreamStep, KeepsUpStep, NoneLostStep, OkIsTrueStep,
   FromTheFirstStep, StopIsWholeStep DEF TierInv

LEMMA TierInvHolds == Spec => []TierInv
BY TierInit, TierInvStep, PTL DEF Spec

\* Every variable of a meeting's session stays within its type, whatever the link
\* and the tier do (RivaSession, TritonSession, SessionBuffer::forward).
THEOREM TierTypeCorrect == Spec => []TypeOK
<1>1. TierInv => TypeOK
  BY DEF TierInv
<1> QED
  BY <1>1, TierInvHolds, PTL

\* For any number of packets, breaks, outages and early ends: what push takes, and
\* what waits to be taken, answers audio of the stream that is open, and a stream
\* carries consecutive packets (ClientStream::cancel, RivaSession::reset).
THEOREM TierAnswersAreOfThisStream == Spec => []AnswersAreOfThisStream
<1>1. TierInv => AnswersAreOfThisStream
  <2> SUFFICES ASSUME TierInv, NEW i \in 1..(Len(sent) - 1) PROVE sent[i + 1] = sent[i] + 1
    BY DEF TierInv, OneStream, AnswersAreOfThisStream
  <2>1. i \in 1..Len(sent) /\ i + 1 \in 1..Len(sent) /\ since \in Int
    BY DEF TierInv, TypeOK, Packets
  <2>2. sent[i] = since + i - 1 /\ sent[i + 1] = since + (i + 1) - 1
    BY <2>1 DEF TierInv, OneStream
  <2> QED
    BY <2>1, <2>2
<1> QED
  BY <1>1, TierInvHolds, PTL

\* For any number of packets and faults: Triton has heard the meeting from packet 1,
\* in order and without a gap, and a finish it answers OK stands over a tier that
\* had all of it, the silence and one is_final (TritonSession::infer, finish).
THEOREM TritonHearsWholeMeeting == Spec => []TritonHasWholeMeeting
<1>1. TierInv => TritonHasWholeMeeting
  <2> SUFFICES ASSUME TierInv, Triton PROVE TritonHasWholeMeeting
    BY DEF TritonHasWholeMeeting
  <2>1. ASSUME at > 1, verdict = "none"
        PROVE  /\ heard[1] = 1 /\ InOrder(heard) /\ 1..(at - 1) \subseteq ToSet(heard)
    BY <2>1 DEF TierInv, FromTheFirst, TypeOK
  <2>2. ASSUME stopped = "ok"
        PROVE  /\ tick = Ticks /\ Last(heard) = N + 1
               /\ verdict = "none" => Packets \subseteq ToSet(heard)
    <3>1. tick = Ticks /\ Last(heard) = N + 1
      BY <2>2 DEF TierInv, StopIsWhole, Last
    <3>2. ASSUME verdict = "none" PROVE Packets \subseteq ToSet(heard)
      <4>1. at = N + 1
        BY <2>2, <3>2 DEF TierInv, InHand, TypeOK
      <4> QED
        BY <2>1, <3>2, <4>1, TierAssumption DEF Packets
    <3> QED
      BY <3>1, <3>2
  <2> QED
    BY <2>1, <2>2 DEF TritonHasWholeMeeting, InOrder
<1> QED
  BY <1>1, TierInvHolds, PTL

\* For any number of packets and faults, over a Riva that says OK only to a stream
\* that was half-closed and that it has heard and answered: a finish answered OK has
\* every packet from the stream's first heard and its answer in the transcript; an
\* error in the trailers, a break, a garbled answer or the deadline never passes for
\* an OK (RivaSession::finish, ClientStream::finish, awaitSendWindow).
THEOREM TierDrainsWhole == ASSUME "early" \notin Faults PROVE Spec => []DrainedIsWhole
<1>1. TierInv => DrainedIsWhole
  BY DEF TierInv, StopIsWhole, DrainedIsWhole
<1> QED
  BY <1>1, TierInvHolds, PTL

\* Both at once: the far end of the drain barrier, whichever tier it is
\* (TritonSession::finish, RivaSession::finish).
THEOREM TierHearsWholeMeeting ==
    ASSUME "early" \notin Faults
    PROVE  Spec => []TierHasWholeMeeting
<1>1. TritonHasWholeMeeting /\ DrainedIsWhole => TierHasWholeMeeting
  BY DEF TierHasWholeMeeting
<1> QED
  BY <1>1, TritonHearsWholeMeeting, TierDrainsWhole, PTL

-----------------------------------------------------------------------------
(* Http2: its states.                                                      *)

FrameTypes == {"SETTINGS", "WINDOW_UPDATE", "DATA", "HEADERS", "GOAWAY"}
Frame == {f \in [type : FrameTypes, stream : 0..MaxCalls, n : Nat, last : BOOLEAN] :
             /\ f.type = "SETTINGS" => f.stream = 0 /\ f.n = Raise
             /\ f.type = "WINDOW_UPDATE" => f.n <= Window + Raise
             /\ f.type = "DATA" => f.n = 1
             /\ f.type \in {"DATA", "HEADERS"} => f.stream # 0
             /\ f.type = "GOAWAY" => f.stream = 0}
Windows == {Window, Window + Raise}
ClientEnd ==
    [pc : {"idle", "sending", "reading"}, conn : 0..MaxConns, goaway : BOOLEAN,
     next : Nat \ {0}, stream : 0..MaxCalls, left : Nat, seen : BOOLEAN, got : Nat,
     connWindow : Nat, window : Nat, initial : Windows]
ServerEnd ==
    [pc : {"none", "reading", "handling", "answering", "closed"}, stream : 0..MaxCalls,
     call : 0..MaxCalls, body : Nat, left : Nat, connWindow : Nat, initial : Windows,
     window : [Streams -> Int], open : SUBSET Streams]
Call == [size : Nat \ {0}, reply : Nat,
         outcome : {"none", "ok", "error", "unavailable", "refused", "deadline"},
         ran : Nat, got : Nat]
WireTypeOK ==
    /\ toServer \in [Conns -> Seq(Frame)]
    /\ toClient \in [Conns -> Seq(Frame)]
    /\ socket \in [Conns -> {"none", "up", "shut", "gone", "broken"}]
    /\ cl \in ClientEnd
    /\ srv \in [Conns -> ServerEnd]
    /\ stopping \in BOOLEAN
    /\ calls \in Seq(Call) /\ Len(calls) <= MaxCalls
    /\ breaks \in Nat

\* A channel holds a frame of a type, and one that ends its stream.
Holds(ch, type) == \E i \in 1..Len(ch) : ch[i].type = type
Ends(ch, type) == \E i \in 1..Len(ch) : ch[i].type = type /\ ch[i].last

\* What holds of one connection.  own: it is the client's; s its socket, up and
\* down its channels, r its thread; c is the client and cs the calls.

\* Only the client's own connection is up, nothing is on one that is not dialled,
\* and a broken one carries nothing.
SocketOn(own, s, up, down, r) ==
    /\ s = "none" <=> r.pc = "none"
    /\ s = "none" => r = Absent /\ up = <<>> /\ down = <<>> /\ ~own
    /\ s = "up" => own /\ r.pc # "closed"
    /\ s = "gone" => r.pc = "closed"
    /\ s = "shut" => ~own
    /\ s = "broken" => up = <<>> /\ (own => down = <<>>)

\* SETTINGS open a connection: they find no stream open and the first window.
SettingsUp(up, r) ==
    \A i \in 1..Len(up) : up[i].type = "SETTINGS" =>
      i = 1 /\ r.stream = 0 /\ r.pc \in {"reading", "closed"} /\ r.initial = Window
SettingsDown(own, down, c) ==
    \A i \in 1..Len(down) : down[i].type = "SETTINGS" => i = 1 /\ (own => c.initial = Window)

\* A thread has one stream open at most, that of its call.
OpenOn(r, cs) ==
    /\ r.open \subseteq {r.stream}
    /\ r.open # {} => r.pc \in {"reading", "closed"}
    /\ r.pc \in {"handling", "answering"} => r.stream # 0
    /\ r.call <= Len(cs)
    /\ r.stream = 0 <=> r.call = 0

\* On the way to a server: one request at most, its HEADERS before its DATA,
\* nothing after the frame that ends it; credit only for streams it has seen.
FrameOn(f, up, r, cs) ==
    /\ f.type # "GOAWAY"
    /\ f.type = "WINDOW_UPDATE" => f.stream <= r.stream
    /\ f.type = "HEADERS" =>
         f.stream > r.stream /\ f.n > r.call /\ f.n <= Len(cs) /\ r.open = {}
    /\ f.type = "DATA" /\ ~Holds(up, "HEADERS") => r.open = {f.stream}
Ordered(up) ==
    \A i, j \in 1..Len(up) :
      /\ up[i].type = "HEADERS" /\ up[j].type = "HEADERS" => i = j
      /\ up[i].type = "HEADERS" /\ up[j].type = "DATA" => i < j /\ up[j].stream = up[i].stream
      /\ up[i].type = "DATA" /\ up[i].last /\ up[j].type = "DATA" => j <= i
RequestOn(up, r, cs) == Ordered(up) /\ \A i \in 1..Len(up) : FrameOn(up[i], up, r, cs)

\* With its last frame a request is whole.
WholeOn(up, r, cs) ==
    Ends(up, "DATA") =>
      /\ \A i \in 1..Len(up) : up[i].type = "HEADERS" => AllData(up) = cs[up[i].n].size
      /\ ~Holds(up, "HEADERS") => r.body + AllData(up) = cs[r.call].size

\* A call a server may still handle has not run and is not decided.
NotRun(call) == call.ran = 0 /\ call.outcome \notin {"ok", "error", "refused"}
PendingOn(up, r, cs) ==
    r.pc # "closed" =>
      /\ \A i \in 1..Len(up) : up[i].type = "HEADERS" => NotRun(cs[up[i].n])
      /\ r.open # {} \/ r.pc = "handling" => NotRun(cs[r.call])
      /\ r.pc \in {"handling", "answering"} => r.body = cs[r.call].size
      /\ r.pc = "answering" => cs[r.call].ran = 1

\* The call on a connection that is up, from its HEADERS to its answer.
Waits(up, r) == Holds(up, "HEADERS") \/ r.open # {} \/ r.pc = "handling"
SendingOn(up, r, c, cs) ==
    /\ \A i \in 1..Len(up) : up[i].type = "HEADERS" =>
         /\ up[i].n = Len(cs) /\ up[i].stream = c.stream /\ r.pc = "reading"
         /\ AllData(up) + c.left = cs[Len(cs)].size
    /\ ~Holds(up, "HEADERS") =>
         /\ r.stream = c.stream /\ r.call = Len(cs)
         /\ r.open # {} => r.body + AllData(up) + c.left = cs[Len(cs)].size
         /\ r.open = {} => c.left = 0
    /\ c.left # 0 => ~Ends(up, "DATA")
AnsweringOn(up, down, r, c, cs) ==
    /\ ~Waits(up, r) /\ r.pc = "reading" => Ends(down, "HEADERS")
    /\ r.pc = "answering" =>
         /\ c.got + AllData(down) + r.left = cs[Len(cs)].reply
         /\ c.seen \/ Holds(down, "HEADERS")
         /\ ~Ends(down, "HEADERS")
    /\ Waits(up, r) => ~c.seen /\ c.got = 0 /\ ~Holds(down, "HEADERS") /\ ~Holds(down, "DATA")
LiveOn(s, up, down, r, c, cs) ==
    s = "up" =>
      /\ r.stream < c.next
      /\ c.pc = "idle" => ~Waits(up, r) /\ r.pc = "reading"
      /\ c.pc # "idle" => SendingOn(up, r, c, cs) /\ AnsweringOn(up, down, r, c, cs)

\* On the way to the client: the answer to its call and no other.
AnswerFrame(f, i, down, r, c) ==
    /\ f.stream # 0 => c.pc # "idle" /\ f.stream = c.stream
    /\ f.type = "GOAWAY" => i = Len(down) /\ r.pc = "closed"
    /\ f.type = "HEADERS" /\ f.last =>
         \A j \in 1..Len(down) : j > i => down[j].type = "GOAWAY"
AnswerOn(own, down, r, c, cs) ==
    own =>
      /\ \A i \in 1..Len(down) : AnswerFrame(down[i], i, down, r, c)
      /\ Ends(down, "HEADERS") =>
           cs[Len(cs)].ran = 1 /\ c.got + AllData(down) = cs[Len(cs)].reply
      /\ Holds(down, "GOAWAY") /\ c.pc # "idle" =>
           cs[Len(cs)].ran = 0 \/ c.seen \/ Holds(down, "HEADERS")
      /\ c.pc = "sending" => ~Holds(down, "HEADERS") /\ ~Holds(down, "DATA")

\* No frame is of a stream the client has yet to open.
SentOn(own, up, c) == own => \A i \in 1..Len(up) : up[i].stream < c.next

\* The credits, also where a connection is no longer up.
Granted == Window + Raise
ClientCreditOn(own, s, up, down, c) ==
    LET sum == c.connWindow + AllData(up) + OnWire(down, "WINDOW_UPDATE", 0) IN
    own => sum <= Granted /\ (s = "up" => sum = Granted)
StreamCreditOn(own, s, up, down, c) ==
    LET sum == c.window + OnWire(up, "DATA", c.stream)
                        + OnWire(down, "WINDOW_UPDATE", c.stream) IN
    own /\ c.stream # 0 =>
      sum <= c.initial /\ (s = "up" /\ c.pc = "sending" => sum = c.initial)
ServerCreditOn(s, up, down, r) ==
    LET sum == r.connWindow + AllData(down) + OnWire(up, "WINDOW_UPDATE", 0) IN
    r.pc # "none" => sum <= Granted /\ (s = "up" => sum = Granted)
AnswerCreditOn(s, up, down, r) ==
    s = "up" /\ (r.pc \in {"handling", "answering"} \/ r.open # {}) =>
      r.window[r.stream] + OnWire(down, "DATA", r.stream)
                         + OnWire(up, "WINDOW_UPDATE", r.stream) = r.initial

\* All of it; one of another connection does not depend on the client.
ThreadOn(up, r, cs) == OpenOn(r, cs) /\ RequestOn(up, r, cs) /\ WholeOn(up, r, cs) /\ PendingOn(up, r, cs)
CreditOn(own, s, up, down, r, c) ==
    /\ ClientCreditOn(own, s, up, down, c) /\ StreamCreditOn(own, s, up, down, c)
    /\ ServerCreditOn(s, up, down, r) /\ AnswerCreditOn(s, up, down, r)
ConnOn(own, s, up, down, r, c, cs) ==
    /\ SocketOn(own, s, up, down, r) /\ SettingsUp(up, r) /\ SettingsDown(own, down, c)
    /\ ThreadOn(up, r, cs)
    /\ LiveOn(s, up, down, r, c, cs) /\ AnswerOn(own, down, r, c, cs) /\ SentOn(own, up, c)
    /\ CreditOn(own, s, up, down, r, c)
Conn(k) == ConnOn(k = cl.conn, socket[k], toServer[k], toClient[k], srv[k], cl, calls)

\* Where the client is in its call.
ClientOn(c, cs) ==
    /\ c.conn = 0 => c = Idle
    /\ c.stream < c.next /\ c.next <= Len(cs) + 1
    /\ c.pc # "idle" => c.next = c.stream + 1 /\ c.stream # 0 /\ c.conn # 0
    /\ c.pc = "sending" => c.left # 0 /\ ~c.seen /\ c.got = 0
    /\ c.pc = "reading" => c.left = 0
    /\ c.pc # "idle" => cs[Len(cs)].outcome = "none"
    /\ c.window <= c.initial

\* No call is on two connections, and the current one is on the client's.
Wanted(x, up, r) ==
    x = r.call \/ \E i \in 1..Len(up) : up[i].type = "HEADERS" /\ up[i].n = x
Asked(x, k) == Wanted(x, toServer[k], srv[k])
Apart ==
    /\ \A x \in 1..Len(calls) : \A j, k \in Conns : Asked(x, j) /\ Asked(x, k) => j = k
    /\ cl.pc # "idle" => \A k \in Conns : Asked(Len(calls), k) => k = cl.conn

True(call) ==
    /\ call.outcome \in {"ok", "error"} => call.ran = 1 /\ call.got = call.reply
    /\ call.outcome = "refused" => call.ran = 0
Outcomes == \A x \in 1..Len(calls) : True(calls[x])

HttpInv ==
    /\ WireTypeOK
    /\ ClientOn(cl, calls)
    /\ \A k \in Conns : Conn(k)
    /\ Apart
    /\ Outcomes

-----------------------------------------------------------------------------
(* Counting what is on a channel.                                          *)

Counted == {"DATA", "WINDOW_UPDATE"}
Weight(f, type, streams) == IF f.type = type /\ f.stream \in streams THEN f.n ELSE 0

LEMMA FrameUnits ==
    ASSUME NEW f \in Frame, f.type \in Counted
    PROVE  f.n \in 0..(Window + Raise)
BY Http2Assumption DEF Frame, Counted

LEMMA CountIsNat ==
    ASSUME NEW ch \in Seq(Frame), NEW type, NEW streams
    PROVE  IsFiniteSet(Units(ch, type, streams)) /\ Cardinality(Units(ch, type, streams)) \in Nat
<1>1. IsFiniteSet(1..Len(ch)) /\ IsFiniteSet(1..(Window + Raise))
  BY FS_Interval, Http2Assumption
<1>2. IsFiniteSet((1..Len(ch)) \X (1..(Window + Raise)))
  BY <1>1, FS_Product
<1>3. Units(ch, type, streams) \in SUBSET ((1..Len(ch)) \X (1..(Window + Raise)))
  BY DEF Units
<1> QED
  BY <1>2, <1>3, FS_Subset, FS_CardinalityType

LEMMA CountNone ==
    ASSUME NEW ch \in Seq(Frame), NEW type, NEW streams,
           \A i \in 1..Len(ch) : ~(ch[i].type = type /\ ch[i].stream \in streams)
    PROVE  Cardinality(Units(ch, type, streams)) = 0
<1>1. Units(ch, type, streams) = {}
  BY DEF Units
<1> QED
  BY <1>1, FS_EmptySet

LEMMA Block ==
    ASSUME NEW f \in Frame, NEW type \in Counted, NEW streams, NEW i \in Nat,
           NEW B, B = IF f.type = type /\ f.stream \in streams THEN {i} \X (1..f.n) ELSE {}
    PROVE  IsFiniteSet(B) /\ Cardinality(B) = Weight(f, type, streams)
<1>1. CASE f.type = type /\ f.stream \in streams
  <2>1. f.n \in Nat
    BY <1>1, FrameUnits, Http2Assumption
  <2>2. IsFiniteSet(1..f.n) /\ Cardinality(1..f.n) = f.n
    BY <2>1, FS_Interval
  <2>3. IsFiniteSet({i}) /\ Cardinality({i}) = 1
    BY FS_Singleton
  <2>4. IsFiniteSet({i} \X (1..f.n)) /\ Cardinality({i} \X (1..f.n)) = 1 * f.n
    BY <2>2, <2>3, FS_Product
  <2> QED
    BY <1>1, <2>1, <2>4 DEF Weight
<1>2. CASE ~(f.type = type /\ f.stream \in streams)
  BY <1>2, FS_EmptySet DEF Weight
<1> QED
  BY <1>1, <1>2

LEMMA CountAppend ==
    ASSUME NEW ch \in Seq(Frame), NEW f \in Frame, NEW type \in Counted, NEW streams
    PROVE  Cardinality(Units(Append(ch, f), type, streams))
             = Cardinality(Units(ch, type, streams)) + Weight(f, type, streams)
<1> DEFINE n == Len(ch) + 1
           B == IF f.type = type /\ f.stream \in streams THEN {n} \X (1..f.n) ELSE {}
           U == Units(ch, type, streams)
<1>1. f.type = type => f.n \in 0..(Window + Raise)
  BY FrameUnits
<1>2. /\ Len(Append(ch, f)) = n /\ n \in Nat /\ Append(ch, f)[n] = f
      /\ \A i \in 1..Len(ch) : Append(ch, f)[i] = ch[i]
  OBVIOUS
<1>3. Units(Append(ch, f), type, streams) = U \cup B
  <2>1. ASSUME NEW e PROVE e \in Units(Append(ch, f), type, streams) <=> e \in U \cup B
    BY <1>1, <1>2, Http2Assumption DEF Units
  <2> QED
    BY <2>1
<1>4. U \cap B = {}
  BY <1>2 DEF Units
<1>5. IsFiniteSet(B) /\ Cardinality(B) = Weight(f, type, streams)
  BY <1>2, Block
<1>6. IsFiniteSet(U) /\ Cardinality(U) \in Nat
  BY CountIsNat
<1>7. Cardinality(U \cup B) = Cardinality(U) + Cardinality(B) - Cardinality(U \cap B)
  BY <1>5, <1>6, FS_Union
<1>8. Cardinality(B) \in Nat
  BY <1>5, FS_CardinalityType
<1>9. Cardinality(U \cap B) = 0
  BY <1>4, FS_EmptySet
<1> HIDE DEF U, B, n
<1>10. Cardinality(U \cup B) = Cardinality(U) + Cardinality(B)
  BY <1>6, <1>7, <1>8, <1>9
<1> QED
  BY <1>3, <1>5, <1>10 DEF U

LEMMA CountTail ==
    ASSUME NEW ch \in Seq(Frame), ch # <<>>, NEW type \in Counted, NEW streams
    PROVE  Cardinality(Units(ch, type, streams))
             = Cardinality(Units(Tail(ch), type, streams)) + Weight(Head(ch), type, streams)
<1> DEFINE f == Head(ch)
           B == IF f.type = type /\ f.stream \in streams THEN {1} \X (1..f.n) ELSE {}
           U == Units(ch, type, streams)
           T == Units(Tail(ch), type, streams)
           shift == [e \in T |-> <<e[1] + 1, e[2]>>]
<1>1. f \in Frame /\ (f.type = type => f.n \in 0..(Window + Raise))
  BY FrameUnits
<1>2. /\ Tail(ch) \in Seq(Frame) /\ Len(ch) = Len(Tail(ch)) + 1 /\ ch[1] = f
      /\ Len(ch) \in Nat /\ Len(Tail(ch)) \in Nat
      /\ \A i \in 1..Len(Tail(ch)) : Tail(ch)[i] = ch[i + 1]
  OBVIOUS
<1>3. B \subseteq U
  BY <1>1, <1>2, Http2Assumption DEF Units
<1>4. \A e \in T : e = <<e[1], e[2]>> /\ e[1] \in 1..Len(Tail(ch)) /\ e[2] \in 1..(Window + Raise)
  BY DEF Units
<1>5. shift \in [T -> U \ B]
  BY <1>1, <1>2, <1>4 DEF Units
<1>6. ASSUME NEW a \in T, NEW b \in T, shift[a] = shift[b] PROVE a = b
  BY <1>4, <1>6, <1>2
<1>7. ASSUME NEW u \in U \ B PROVE \E e \in T : shift[e] = u
  <2>1. /\ u = <<u[1], u[2]>> /\ u[1] \in 1..Len(ch) /\ u[2] \in 1..(Window + Raise)
        /\ ch[u[1]].type = type /\ ch[u[1]].stream \in streams /\ u[2] <= ch[u[1]].n
    BY <1>7 DEF Units
  <2>2. u[1] # 1
    <3>1. SUFFICES ASSUME u[1] = 1 PROVE FALSE
      OBVIOUS
    <3>2. u \in B
      BY <2>1, <3>1, <1>1, <1>2, Http2Assumption
    <3> QED BY <3>2, <1>7
  <2>3. u[1] - 1 \in 1..Len(Tail(ch)) /\ Tail(ch)[u[1] - 1] = ch[u[1]] /\ (u[1] - 1) + 1 = u[1]
    BY <2>1, <2>2, <1>2
  <2>4. <<u[1] - 1, u[2]>> \in T
    BY <2>1, <2>3 DEF Units
  <2> QED
    BY <2>1, <2>3, <2>4
<1>8. shift \in Bijection(T, U \ B)
  <2> HIDE DEF shift
  <2>1. shift \in Injection(T, U \ B)
    BY <1>5, <1>6, Fun_IsInj
  <2>2. shift \in Surjection(T, U \ B)
    BY <1>5, <1>7, Fun_IsSurj
  <2> QED BY <2>1, <2>2 DEF Bijection
<1>9. Cardinality(U \ B) = Cardinality(T)
  <2>1. IsFiniteSet(T)
    BY <1>2, CountIsNat
  <2>2. ExistsBijection(T, U \ B)
    BY <1>8 DEF ExistsBijection
  <2> QED BY <2>1, <2>2, FS_Bijection
<1>10. IsFiniteSet(B) /\ Cardinality(B) = Weight(f, type, streams)
  <2>1. f \in Frame /\ 1 \in Nat
    BY <1>1
  <2>2. B = IF f.type = type /\ f.stream \in streams THEN {1} \X (1..f.n) ELSE {}
    OBVIOUS
  <2> HIDE DEF B, f
  <2> QED BY <2>1, <2>2, Block
<1>11. IsFiniteSet(U) /\ Cardinality(U) \in Nat
  BY CountIsNat
<1>12. Cardinality(U \ B) = Cardinality(U) - Cardinality(U \cap B) /\ U \cap B = B
  BY <1>3, <1>11, FS_Difference
<1>13. Cardinality(B) \in Nat
  BY <1>10, FS_CardinalityType
<1> HIDE DEF U, T, B, f
<1>14. Cardinality(U) = Cardinality(T) + Cardinality(B)
  <2>1. Cardinality(T) = Cardinality(U) - Cardinality(B)
    BY <1>9, <1>12
  <2> QED BY <2>1, <1>11, <1>13
<1> QED
  BY <1>10, <1>14 DEF U, T, f

-----------------------------------------------------------------------------
(* A channel that loses its first frame, or gets one more.                 *)
\* t is ch without its first frame.
Taken(ch, t) ==
    /\ ch \in Seq(Frame) /\ t \in Seq(Frame)
    /\ Len(t) \in Nat /\ Len(ch) = Len(t) + 1 /\ ch[1] \in Frame
    /\ \A i \in 1..Len(t) : t[i] = ch[i + 1] /\ t[i] \in Frame
    /\ \A i \in 1..Len(ch) : i = 1 \/ (i - 1 \in 1..Len(t) /\ t[i - 1] = ch[i])
    /\ \A type : Holds(ch, type) <=> ch[1].type = type \/ Holds(t, type)
    /\ \A type : Ends(ch, type) <=> (ch[1].type = type /\ ch[1].last) \/ Ends(t, type)
    /\ \A type \in Counted : \A st :
         /\ OnWire(t, type, st) \in Nat
         /\ OnWire(ch, type, st) = OnWire(t, type, st) +
              (IF ch[1].type = type /\ ch[1].stream = st THEN ch[1].n ELSE 0)
    /\ AllData(t) \in Nat
    /\ AllData(ch) = AllData(t) + (IF ch[1].type = "DATA" THEN ch[1].n ELSE 0)

\* t is ch with one more frame.
Given(ch, t, f) ==
    /\ ch \in Seq(Frame) /\ t \in Seq(Frame) /\ f \in Frame
    /\ Len(ch) \in Nat /\ Len(t) = Len(ch) + 1 /\ t[Len(t)] = f
    /\ \A i \in 1..Len(ch) : t[i] = ch[i] /\ ch[i] \in Frame
    /\ \A i \in 1..Len(t) : i = Len(t) \/ i \in 1..Len(ch)
    /\ \A type : Holds(t, type) <=> f.type = type \/ Holds(ch, type)
    /\ \A type : Ends(t, type) <=> (f.type = type /\ f.last) \/ Ends(ch, type)
    /\ \A type \in Counted : \A st :
         /\ OnWire(ch, type, st) \in Nat
         /\ OnWire(t, type, st) = OnWire(ch, type, st) +
              (IF f.type = type /\ f.stream = st THEN f.n ELSE 0)
    /\ AllData(ch) \in Nat
    /\ AllData(t) = AllData(ch) + (IF f.type = "DATA" THEN f.n ELSE 0)

LEMMA TailIsTaken ==
    ASSUME NEW ch \in Seq(Frame), ch # <<>>
    PROVE  Taken(ch, Tail(ch)) /\ Head(ch) = ch[1]
<1> DEFINE t == Tail(ch)
<1>1. /\ t \in Seq(Frame) /\ Len(t) \in Nat /\ Len(ch) = Len(t) + 1 /\ Head(ch) = ch[1]
      /\ ch[1] \in Frame
      /\ \A i \in 1..Len(t) : t[i] = ch[i + 1] /\ t[i] \in Frame
  OBVIOUS
<1>2. \A i \in 1..Len(ch) : i = 1 \/ (i - 1 \in 1..Len(t) /\ t[i - 1] = ch[i])
  BY <1>1
<1>3. ASSUME NEW type \in Counted, NEW st
      PROVE  /\ OnWire(t, type, st) \in Nat
             /\ OnWire(ch, type, st) = OnWire(t, type, st) +
                  (IF ch[1].type = type /\ ch[1].stream = st THEN ch[1].n ELSE 0)
  <2>1. Weight(ch[1], type, {st}) = IF ch[1].type = type /\ ch[1].stream = st THEN ch[1].n ELSE 0
    BY DEF Weight
  <2>2. Cardinality(Units(ch, type, {st}))
          = Cardinality(Units(t, type, {st})) + Weight(ch[1], type, {st})
    BY <1>1, CountTail
  <2>3. Cardinality(Units(t, type, {st})) \in Nat
    BY <1>1, CountIsNat
  <2> QED BY <2>1, <2>2, <2>3 DEF OnWire
<1>6. /\ AllData(t) \in Nat
      /\ AllData(ch) = AllData(t) + (IF ch[1].type = "DATA" THEN ch[1].n ELSE 0)
  <2>1. Weight(ch[1], "DATA", Streams) = IF ch[1].type = "DATA" THEN ch[1].n ELSE 0
    BY <1>1 DEF Weight, Frame, Streams
  <2> QED BY <1>1, <2>1, CountTail, CountIsNat DEF AllData, Counted
<1> HIDE DEF t
<1>4. ASSUME NEW type PROVE Holds(ch, type) <=> ch[1].type = type \/ Holds(t, type)
  BY <1>1, <1>2 DEF Holds
<1>5. ASSUME NEW type PROVE Ends(ch, type) <=> (ch[1].type = type /\ ch[1].last) \/ Ends(t, type)
  <2>1. ASSUME NEW i \in 1..Len(ch), ch[i].type = type, ch[i].last
        PROVE  (ch[1].type = type /\ ch[1].last) \/ Ends(t, type)
    <3>1. CASE i = 1 BY <2>1, <3>1
    <3>2. CASE i # 1
      <4>1. i - 1 \in 1..Len(t) /\ t[i - 1] = ch[i]
        BY <1>2, <3>2
      <4> QED BY <4>1, <2>1 DEF Ends
    <3> QED BY <3>1, <3>2
  <2>2. ASSUME NEW i \in 1..Len(t), t[i].type = type, t[i].last PROVE Ends(ch, type)
    <3>1. i + 1 \in 1..Len(ch) /\ ch[i + 1] = t[i]
      BY <1>1
    <3> QED BY <3>1, <2>2 DEF Ends
  <2>3. 1 \in 1..Len(ch)
    BY <1>1
  <2> QED BY <2>1, <2>2, <2>3 DEF Ends
<1> QED
  BY <1>1, <1>2, <1>3, <1>4, <1>5, <1>6 DEF Taken, t

LEMMA AppendIsGiven ==
    ASSUME NEW ch \in Seq(Frame), NEW f \in Frame
    PROVE  Given(ch, Append(ch, f), f)
<1> DEFINE t == Append(ch, f)
<1>1. /\ t \in Seq(Frame) /\ Len(ch) \in Nat /\ Len(t) = Len(ch) + 1 /\ t[Len(t)] = f
      /\ \A i \in 1..Len(ch) : t[i] = ch[i] /\ ch[i] \in Frame
  OBVIOUS
<1>2. \A i \in 1..Len(t) : i = Len(t) \/ i \in 1..Len(ch)
  BY <1>1
<1>3. ASSUME NEW type \in Counted, NEW st
      PROVE  /\ OnWire(ch, type, st) \in Nat
             /\ OnWire(t, type, st) = OnWire(ch, type, st) +
                  (IF f.type = type /\ f.stream = st THEN f.n ELSE 0)
  <2>1. Weight(f, type, {st}) = IF f.type = type /\ f.stream = st THEN f.n ELSE 0
    BY DEF Weight
  <2> QED BY <2>1, CountAppend, CountIsNat DEF OnWire
<1>6. /\ AllData(ch) \in Nat
      /\ AllData(t) = AllData(ch) + (IF f.type = "DATA" THEN f.n ELSE 0)
  <2>1. Weight(f, "DATA", Streams) = IF f.type = "DATA" THEN f.n ELSE 0
    BY DEF Weight, Frame, Streams
  <2> QED BY <2>1, CountAppend, CountIsNat DEF AllData, Counted
<1> HIDE DEF t
<1>4. ASSUME NEW type PROVE Holds(t, type) <=> f.type = type \/ Holds(ch, type)
  BY <1>1, <1>2 DEF Holds
<1>5. ASSUME NEW type PROVE Ends(t, type) <=> (f.type = type /\ f.last) \/ Ends(ch, type)
  BY <1>1, <1>2 DEF Ends
<1> QED
  BY <1>1, <1>2, <1>3, <1>4, <1>5, <1>6 DEF Given, t

LEMMA OneMore ==
    ASSUME NEW ch \in Seq(Frame), NEW f
    PROVE  ch \o <<f>> = Append(ch, f)
OBVIOUS

LEMMA TwoMore ==
    ASSUME NEW ch \in Seq(Frame), NEW f \in Frame, NEW g \in Frame
    PROVE  ch \o <<f, g>> = Append(Append(ch, f), g)
OBVIOUS

LEMMA NoFrames ==
    ASSUME NEW ch, ch = <<>>
    PROVE  /\ ch \in Seq(Frame) /\ Len(ch) = 0
           /\ \A type : ~Holds(ch, type) /\ ~Ends(ch, type)
           /\ \A type, st : OnWire(ch, type, st) = 0
           /\ AllData(ch) = 0
<1>1. ch \in Seq(Frame) /\ Len(ch) = 0
  OBVIOUS
<1>2. \A i \in 1..Len(ch) : FALSE
  BY <1>1
<1>3. \A type : ~Holds(ch, type) /\ ~Ends(ch, type)
  BY <1>2 DEF Holds, Ends
<1>4. ASSUME NEW type, NEW streams PROVE Cardinality(Units(ch, type, streams)) = 0
  BY <1>1, <1>2, CountNone
<1> QED
  BY <1>1, <1>3, <1>4 DEF OnWire, AllData

LEMMA NoSuchFrames ==
    ASSUME NEW ch \in Seq(Frame)
    PROVE  /\ AllData(ch) \in Nat
           /\ \A type, st : OnWire(ch, type, st) \in Nat
           /\ ~Holds(ch, "DATA") => AllData(ch) = 0
           /\ \A type, st : (\A i \in 1..Len(ch) : ch[i].type # type \/ ch[i].stream # st)
                              => OnWire(ch, type, st) = 0
<1>1. ~Holds(ch, "DATA") => AllData(ch) = 0
  BY CountNone DEF Holds, AllData
<1>2. ASSUME NEW type, NEW st, \A i \in 1..Len(ch) : ch[i].type # type \/ ch[i].stream # st
      PROVE  OnWire(ch, type, st) = 0
  <2>1. \A i \in 1..Len(ch) : ~(ch[i].type = type /\ ch[i].stream \in {st})
    BY <1>2
  <2> QED BY <2>1, CountNone DEF OnWire
<1> QED
  BY <1>1, <1>2, CountIsNat DEF OnWire, AllData

LEMMA TakenAt ==
    ASSUME NEW ch, NEW t, Taken(ch, t)
    PROVE  /\ 1 \in 1..Len(ch)
           /\ \A i \in 1..Len(t) : i + 1 \in 1..Len(ch) /\ t[i] = ch[i + 1] /\ i + 1 # 1 /\ i \in Nat
BY DEF Taken

-----------------------------------------------------------------------------
(* What is sent, and the order and the settings on a channel.              *)

\* t is ch, and credit for the connection or one stream.
Repaid(ch, t, id) ==
    /\ ch \in Seq(Frame) /\ t \in Seq(Frame)
    /\ Len(t) \in Nat /\ Len(ch) \in Nat /\ Len(ch) <= Len(t)
    /\ \A i \in 1..Len(ch) : t[i] = ch[i] /\ i \in 1..Len(t)
    /\ \A i \in 1..Len(t) :
         i \in 1..Len(ch) \/ (t[i].type = "WINDOW_UPDATE" /\ t[i].stream \in {0, id})
    /\ \A type : type # "WINDOW_UPDATE" =>
         (Holds(t, type) <=> Holds(ch, type)) /\ (Ends(t, type) <=> Ends(ch, type))
    /\ \A st : OnWire(t, "DATA", st) = OnWire(ch, "DATA", st)
    /\ \A st : OnWire(t, "WINDOW_UPDATE", st) \in Nat /\ OnWire(ch, "WINDOW_UPDATE", st) \in Nat
    /\ AllData(t) = AllData(ch)

LEMMA SettingsTaken ==
    ASSUME NEW ch, NEW t, Taken(ch, t)
    PROVE  /\ \A r : SettingsUp(ch, r) => \A r2 : SettingsUp(t, r2)
           /\ \A own, c : SettingsDown(own, ch, c) =>
                \A own2, c2 : SettingsDown(own2, t, c2)
<1>1. ASSUME NEW r, SettingsUp(ch, r), NEW r2 PROVE SettingsUp(t, r2)
  <2>1. \A i \in 1..Len(t) : t[i].type # "SETTINGS"
    BY <1>1, TakenAt DEF SettingsUp
  <2> QED BY <2>1 DEF SettingsUp
<1>2. ASSUME NEW own, NEW c, SettingsDown(own, ch, c), NEW own2, NEW c2
      PROVE  SettingsDown(own2, t, c2)
  <2>1. \A i \in 1..Len(t) : t[i].type # "SETTINGS"
    BY <1>2, TakenAt DEF SettingsDown
  <2> QED BY <2>1 DEF SettingsDown
<1> QED BY <1>1, <1>2

LEMMA SettingsGiven ==
    ASSUME NEW ch, NEW t, NEW f, Given(ch, t, f), f.type # "SETTINGS"
    PROVE  /\ \A r : SettingsUp(ch, r) => SettingsUp(t, r)
           /\ \A own, c : SettingsDown(own, ch, c) => SettingsDown(own, t, c)
<1>1. \A i \in 1..Len(t) : t[i].type = "SETTINGS" => i \in 1..Len(ch) /\ ch[i] = t[i]
  BY DEF Given
<1> QED BY <1>1 DEF SettingsUp, SettingsDown

LEMMA SettingsRepaid ==
    ASSUME NEW ch, NEW t, NEW id, Repaid(ch, t, id)
    PROVE  /\ \A r : SettingsUp(ch, r) => SettingsUp(t, r)
           /\ \A own, c : SettingsDown(own, ch, c) => SettingsDown(own, t, c)
<1>1. \A i \in 1..Len(t) : t[i].type = "SETTINGS" => i \in 1..Len(ch) /\ ch[i] = t[i]
  BY DEF Repaid
<1> QED BY <1>1 DEF SettingsUp, SettingsDown

LEMMA OrderTaken ==
    ASSUME NEW up, NEW t, Taken(up, t), Ordered(up)
    PROVE  Ordered(t)
<1> SUFFICES ASSUME NEW i \in 1..Len(t), NEW j \in 1..Len(t)
             PROVE  /\ t[i].type = "HEADERS" /\ t[j].type = "HEADERS" => i = j
                    /\ t[i].type = "HEADERS" /\ t[j].type = "DATA" => i < j /\ t[j].stream = t[i].stream
                    /\ t[i].type = "DATA" /\ t[i].last /\ t[j].type = "DATA" => j <= i
  BY DEF Ordered
<1>1. /\ i + 1 \in 1..Len(up) /\ j + 1 \in 1..Len(up)
      /\ t[i] = up[i + 1] /\ t[j] = up[j + 1] /\ i \in Nat /\ j \in Nat
  BY TakenAt
<1> DEFINE a == i + 1
           b == j + 1
<1>2. a \in 1..Len(up) /\ b \in 1..Len(up) /\ t[i] = up[a] /\ t[j] = up[b]
  BY <1>1
<1>3. (a = b => i = j) /\ (a < b => i < j) /\ (b <= a => j <= i)
  BY <1>1
<1> HIDE DEF a, b
<1> QED
  BY <1>2, <1>3 DEF Ordered

LEMMA OrderRepaid ==
    ASSUME NEW up, NEW t, NEW id, Repaid(up, t, id), Ordered(up)
    PROVE  Ordered(t)
<1>1. \A i \in 1..Len(t) : t[i].type \in {"DATA", "HEADERS"} => i \in 1..Len(up) /\ t[i] = up[i]
  BY DEF Repaid
<1> QED BY <1>1 DEF Ordered

LEMMA OrderGiven ==
    ASSUME NEW up, NEW t, NEW f, Given(up, t, f), Ordered(up),
           f.type = "HEADERS" => ~Holds(up, "HEADERS") /\ ~Holds(up, "DATA"),
           f.type = "DATA" => /\ ~Ends(up, "DATA")
                              /\ \A i \in 1..Len(up) : up[i].type = "HEADERS" => up[i].stream = f.stream
    PROVE  Ordered(t)
<1> DEFINE n == Len(t)
<1> SUFFICES ASSUME NEW i \in 1..Len(t), NEW j \in 1..Len(t)
             PROVE  /\ t[i].type = "HEADERS" /\ t[j].type = "HEADERS" => i = j
                    /\ t[i].type = "HEADERS" /\ t[j].type = "DATA" => i < j /\ t[j].stream = t[i].stream
                    /\ t[i].type = "DATA" /\ t[i].last /\ t[j].type = "DATA" => j <= i
  BY DEF Ordered
<1>1. /\ n \in Nat /\ Len(up) \in Nat /\ n = Len(up) + 1 /\ t[n] = f
      /\ i = n \/ (i \in 1..Len(up) /\ t[i] = up[i])
      /\ j = n \/ (j \in 1..Len(up) /\ t[j] = up[j])
  BY DEF Given
<1> HIDE DEF n
<1>2. CASE i \in 1..Len(up) /\ t[i] = up[i] /\ j \in 1..Len(up) /\ t[j] = up[j]
  BY <1>2 DEF Ordered
<1>3. CASE i = n /\ j = n
  BY <1>1, <1>3
<1>4. CASE i = n /\ j \in 1..Len(up) /\ t[j] = up[j]
  <2>1. j <= n
    BY <1>1, <1>4
  <2> QED BY <1>1, <1>4, <2>1 DEF Holds
<1>5. CASE j = n /\ i \in 1..Len(up) /\ t[i] = up[i]
  <2>1. i < n
    BY <1>1, <1>5
  <2> QED BY <1>1, <1>5, <2>1 DEF Holds, Ends
<1> QED
  BY <1>1, <1>2, <1>3, <1>4, <1>5

Typed(own, s, up, down, r, c, cs) ==
    /\ own \in BOOLEAN /\ s \in {"none", "up", "shut", "gone", "broken"}
    /\ up \in Seq(Frame) /\ down \in Seq(Frame)
    /\ r \in ServerEnd /\ c \in ClientEnd /\ cs \in Seq(Call)

LEMMA GrantIsNat == /\ Granted \in Nat /\ Window \in Nat /\ Raise \in Nat /\ Window > 0
                    /\ \A w \in Windows : w \in Nat
BY Http2Assumption DEF Granted, Windows

LEMMA ServerNumbers ==
    ASSUME NEW r \in ServerEnd
    PROVE  /\ r.body \in Nat /\ r.left \in Nat /\ r.connWindow \in Nat /\ r.initial \in Nat
           /\ r.stream \in Nat /\ r.call \in Nat /\ r.stream \in 0..MaxCalls
           /\ r.window \in [Streams -> Int] /\ r.open \subseteq Streams
           /\ r.initial \in Windows
<1>1. /\ r.body \in Nat /\ r.left \in Nat /\ r.connWindow \in Nat /\ r.initial \in Windows
      /\ r.stream \in 0..MaxCalls /\ r.call \in 0..MaxCalls
      /\ r.window \in [Streams -> Int] /\ r.open \subseteq Streams
  BY DEF ServerEnd
<1> QED BY <1>1, GrantIsNat, Http2Assumption

LEMMA ClientNumbers ==
    ASSUME NEW c \in ClientEnd
    PROVE  /\ c.left \in Nat /\ c.got \in Nat /\ c.connWindow \in Nat /\ c.window \in Nat
           /\ c.initial \in Nat /\ c.stream \in Nat /\ c.next \in Nat /\ c.next # 0
           /\ c.stream \in 0..MaxCalls /\ c.conn \in Nat /\ c.initial \in Windows
           /\ c.pc \in {"idle", "sending", "reading"} /\ c.goaway \in BOOLEAN /\ c.seen \in BOOLEAN
<1>1. /\ c.left \in Nat /\ c.got \in Nat /\ c.connWindow \in Nat /\ c.window \in Nat
      /\ c.initial \in Windows /\ c.stream \in 0..MaxCalls /\ c.next \in Nat \ {0}
      /\ c.conn \in 0..MaxConns
      /\ c.pc \in {"idle", "sending", "reading"} /\ c.goaway \in BOOLEAN /\ c.seen \in BOOLEAN
  BY DEF ClientEnd
<1> QED BY <1>1, GrantIsNat, Http2Assumption

LEMMA FrameNumbers ==
    ASSUME NEW f \in Frame
    PROVE  /\ f.stream \in Nat /\ f.stream \in 0..MaxCalls /\ f.n \in Nat /\ f.last \in BOOLEAN
           /\ f.type \in FrameTypes
           /\ f.stream # 0 => f.stream \in Streams
<1>1. f.stream \in 0..MaxCalls /\ f.n \in Nat /\ f.last \in BOOLEAN /\ f.type \in FrameTypes
  BY DEF Frame
<1> QED BY <1>1, Http2Assumption DEF Streams

\* What a thread writes: it is lost unless the connection is up.
Told(s, ch, t, f) == (s = "up" => Given(ch, t, f)) /\ (s # "up" => t = ch)

LEMMA NothingToAnswer ==
    ASSUME NEW own, NEW r, NEW c, NEW cs
    PROVE  AnswerOn(own, <<>>, r, c, cs)
BY NoFrames DEF AnswerOn

\* A thread at work whose connection is down: nothing is on it for the client.
LEMMA AnswerLost ==
    ASSUME NEW own, NEW s, NEW up, NEW down, NEW r, NEW r2, NEW c, NEW cs, NEW cs2,
           s \in {"none", "up", "shut", "gone", "broken"},
           SocketOn(own, s, up, down, r), s # "up", r.pc \notin {"none", "closed"}
    PROVE  AnswerOn(own, down, r2, c, cs2)
<1>1. own => down = <<>>
  BY DEF SocketOn
<1>2. CASE own
  BY <1>1, <1>2, NothingToAnswer
<1>3. CASE ~own
  BY <1>3 DEF AnswerOn
<1> QED BY <1>2, <1>3

LEMMA ToldKeeps ==
    ASSUME NEW s, NEW ch, NEW t, NEW f, Told(s, ch, t, f), f.type \notin {"SETTINGS", "WINDOW_UPDATE"},
           ch \in Seq(Frame)
    PROVE  /\ \A own, c : SettingsDown(own, ch, c) => SettingsDown(own, t, c)
           /\ \A st : OnWire(t, "WINDOW_UPDATE", st) = OnWire(ch, "WINDOW_UPDATE", st)
           /\ t \in Seq(Frame)
           /\ f.type # "DATA" => /\ AllData(t) = AllData(ch)
                                 /\ \A st : OnWire(t, "DATA", st) = OnWire(ch, "DATA", st)
<1>1. CASE s = "up"
  <2>1. Given(ch, t, f)
    BY <1>1 DEF Told
  <2> QED BY <2>1, SettingsGiven, NoSuchFrames DEF Given, Counted
<1>2. CASE s # "up"
  BY <1>2 DEF Told
<1> QED BY <1>1, <1>2

\* What happens to the calls elsewhere, a thread that answers keeps.
LEMMA AnswerKeeps ==
    ASSUME NEW own, NEW s, NEW up, NEW down, NEW down2, NEW r, NEW r2, NEW c, NEW cs, NEW f,
           Typed(own, s, up, down, r, c, cs), ConnOn(own, s, up, down, r, c, cs), ClientOn(c, cs),
           Told(s, down, down2, f), f.type \notin {"SETTINGS", "WINDOW_UPDATE"},
           r.pc \in {"handling", "answering"},
           r2.pc \in {"reading", "answering"},
           r2.stream = r.stream, r2.call = r.call, r2.open = r.open
    PROVE  /\ SocketOn(own, s, up, down2, r2)
           /\ SettingsUp(up, r2) /\ SettingsDown(own, down2, c)
           /\ OpenOn(r2, cs) /\ r.open = {} /\ RequestOn(up, r2, cs)
           /\ ClientCreditOn(own, s, up, down2, c) /\ StreamCreditOn(own, s, up, down2, c)
           /\ s = "up" => /\ own /\ c.pc # "idle" /\ c.left = 0 /\ c.pc = "reading"
                          /\ ~Holds(up, "HEADERS")
                          /\ r.stream = c.stream /\ r.call = Len(cs) /\ c.stream # 0
                          /\ SendingOn(up, r2, c, cs) /\ ~Waits(up, r2) /\ r2.stream < c.next
                          /\ ~Holds(down, "GOAWAY")
<1> USE DEF Typed, ConnOn, ThreadOn, CreditOn
<1>1. SocketOn(own, s, up, down2, r2)
  BY DEF SocketOn, Told
<1>2. SettingsUp(up, r2) /\ SettingsDown(own, down2, c)
  BY ToldKeeps DEF SettingsUp
<1>3. OpenOn(r2, cs) /\ r.open = {}
  BY DEF OpenOn
<1>4. RequestOn(up, r2, cs)
  BY DEF RequestOn, FrameOn
<1>5. ClientCreditOn(own, s, up, down2, c) /\ StreamCreditOn(own, s, up, down2, c)
  BY ToldKeeps DEF ClientCreditOn, StreamCreditOn
<1>6. ASSUME s = "up"
      PROVE  /\ own /\ c.pc # "idle" /\ c.left = 0 /\ c.pc = "reading"
             /\ ~Holds(up, "HEADERS")
             /\ r.stream = c.stream /\ r.call = Len(cs) /\ c.stream # 0
             /\ SendingOn(up, r2, c, cs) /\ ~Waits(up, r2) /\ r2.stream < c.next
             /\ ~Holds(down, "GOAWAY")
  <2>1. own /\ c.pc # "idle" /\ SendingOn(up, r, c, cs) /\ r.stream < c.next
    BY <1>6 DEF SocketOn, LiveOn
  <2>2. ~Holds(up, "HEADERS")
    BY <2>1 DEF SendingOn, Holds
  <2>3. r.stream = c.stream /\ r.call = Len(cs) /\ c.left = 0 /\ r.stream # 0
    BY <2>1, <2>2, <1>3 DEF SendingOn, OpenOn
  <2>4. c.pc = "reading"
    BY <2>1, <2>3, ClientNumbers DEF ClientOn
  <2>5. SendingOn(up, r2, c, cs)
    BY <2>1, <2>2, <2>3, <1>3 DEF SendingOn, Holds
  <2>6. ~Waits(up, r2)
    BY <2>2, <1>3 DEF Waits
  <2>7. ~Holds(down, "GOAWAY")
    BY <2>1 DEF AnswerOn, AnswerFrame, Holds
  <2> QED BY <2>1, <2>2, <2>3, <2>4, <2>5, <2>6, <2>7
<1> QED BY <1>1, <1>2, <1>3, <1>4, <1>5, <1>6

LEMMA FramesTold ==
    ASSUME NEW ch, NEW t, NEW f, NEW r, NEW r2, NEW c, Given(ch, t, f),
           \A i \in 1..Len(ch) : AnswerFrame(ch[i], i, ch, r, c),
           ~Holds(ch, "GOAWAY"), Ends(ch, "HEADERS") => f.type = "GOAWAY",
           f.stream # 0 => c.pc # "idle" /\ f.stream = c.stream,
           f.type = "GOAWAY" => r2.pc = "closed"
    PROVE  \A i \in 1..Len(t) : AnswerFrame(t[i], i, t, r2, c)
<1> SUFFICES ASSUME NEW i \in 1..Len(t) PROVE AnswerFrame(t[i], i, t, r2, c)
  OBVIOUS
<1>1. CASE i \in 1..Len(ch)
  <2>1. t[i] = ch[i] /\ AnswerFrame(ch[i], i, ch, r, c)
    BY <1>1 DEF Given
  <2>2. t[i].type # "GOAWAY"
    BY <1>1, <2>1 DEF Holds
  <2>3. ASSUME t[i].type = "HEADERS", t[i].last, NEW j \in 1..Len(t), j > i
        PROVE  t[j].type = "GOAWAY"
    <3>1. f.type = "GOAWAY"
      BY <1>1, <2>1, <2>3 DEF Ends
    <3>2. j = Len(t) \/ (j \in 1..Len(ch) /\ t[j] = ch[j])
      BY DEF Given
    <3> QED BY <2>1, <2>3, <3>1, <3>2 DEF Given, AnswerFrame
  <2> QED BY <2>1, <2>2, <2>3 DEF AnswerFrame
<1>2. CASE i = Len(t)
  <2>1. t[i] = f /\ \A j \in 1..Len(t) : ~(j > i)
    BY <1>2 DEF Given
  <2> QED BY <2>1, <1>2 DEF AnswerFrame
<1> QED
  BY <1>1, <1>2 DEF Given

LEMMA Changed ==
    ASSUME NEW S, NEW cs \in Seq(S), NEW x \in 1..Len(cs), NEW v, NEW cs2, cs2 = [cs EXCEPT ![x] = v]
    PROVE  /\ Len(cs2) = Len(cs) /\ cs2[x] = v /\ Len(cs) \in Nat
           /\ \A y \in 1..Len(cs) : y # x => cs2[y] = cs[y]
OBVIOUS

-----------------------------------------------------------------------------
(* A thread of the server reads a frame.                                   *)
LEMMA ReadsData ==
    ASSUME NEW own, NEW s, NEW up, NEW down, NEW r, NEW c, NEW cs,
           Typed(own, s, up, down, r, c, cs), ConnOn(own, s, up, down, r, c, cs), ClientOn(c, cs),
           NEW f, f = up[1], r.pc = "reading", f.type = "DATA",
           NEW up2, Taken(up, up2),
           NEW r2 \in ServerEnd, 
           r2 = [r EXCEPT !.body = @ + f.n, !.open = IF f.last THEN @ \ {f.stream} ELSE @,
                          !.pc = IF f.last THEN "handling" ELSE @],
           NEW down2, s # "up" => down2 = down,
           Repaid(down, down2, f.stream),
           s = "up" => OnWire(down2, "WINDOW_UPDATE", 0) = OnWire(down, "WINDOW_UPDATE", 0) + 1,
           s = "up" => OnWire(down2, "WINDOW_UPDATE", f.stream) = OnWire(down, "WINDOW_UPDATE", f.stream) + IF f.last THEN 0 ELSE 1
    PROVE  ConnOn(own, s, up2, down2, r2, c, cs)
<1> USE DEF Typed, ConnOn, ThreadOn, CreditOn
<1>1. /\ f \in Frame /\ 1 \in 1..Len(up)
  BY DEF Taken
<1>2. f.n = 1 /\ f.stream # 0 /\ f.stream \in Streams /\ f.last \in BOOLEAN
  BY <1>1 DEF Frame, Streams
<1>3. Holds(up, "DATA") /\ ~Holds(up, "HEADERS")
  BY <1>1 DEF RequestOn, Ordered, Holds
<1>4. r.open = {f.stream} /\ r.stream = f.stream
  BY <1>1, <1>3 DEF RequestOn, FrameOn, OpenOn
<1>5. /\ r2.pc = IF f.last THEN "handling" ELSE "reading"
      /\ r2.body = r.body + 1 /\ r2.open = IF f.last THEN {} ELSE r.open
      /\ r2.stream = r.stream /\ r2.call = r.call /\ r2.left = r.left
      /\ r2.connWindow = r.connWindow /\ r2.initial = r.initial /\ r2.window = r.window
  BY <1>2, <1>4 DEF ServerEnd
<1>6. /\ AllData(up) = AllData(up2) + 1 /\ AllData(up2) \in Nat
      /\ \A t : OnWire(up2, "DATA", t) \in Nat /\ OnWire(up2, "WINDOW_UPDATE", t) \in Nat
      /\ \A t : OnWire(up, "DATA", t) = OnWire(up2, "DATA", t) + IF t = f.stream THEN 1 ELSE 0
      /\ \A t : OnWire(up, "WINDOW_UPDATE", t) = OnWire(up2, "WINDOW_UPDATE", t)
  BY <1>2 DEF Taken, Counted
<1>7. /\ ~Holds(up2, "HEADERS")
      /\ f.last => ~Holds(up2, "DATA") /\ Ends(up, "DATA")
      /\ ~f.last => (Ends(up2, "DATA") <=> Ends(up, "DATA"))
  <2>1. ~Holds(up2, "HEADERS")
    BY <1>3 DEF Taken
  <2>2. ASSUME f.last PROVE Ends(up, "DATA")
    BY <1>1, <2>2 DEF Ends
  <2>3. ASSUME f.last, NEW i \in 1..Len(up2) PROVE up2[i].type # "DATA"
    BY <2>3, <1>1, TakenAt DEF RequestOn, Ordered
  <2>4. ASSUME ~f.last PROVE Ends(up2, "DATA") <=> Ends(up, "DATA")
    BY <2>4 DEF Taken
  <2> QED BY <2>1, <2>2, <2>3, <2>4 DEF Holds
<1>8. f.last => AllData(up2) = 0 /\ ~Ends(up2, "DATA")
  <2>2. up2 \in Seq(Frame)
    BY DEF Taken
  <2> QED BY <1>7, <2>2, NoSuchFrames DEF Ends, Holds
<1>9. /\ r.body \in Nat /\ c.left \in Nat /\ AllData(down) \in Nat
      /\ c.connWindow \in Nat /\ c.window \in Nat /\ c.initial \in Nat
  BY NoSuchFrames, ServerNumbers, ClientNumbers
<1>10. r2.body + AllData(up2) = r.body + AllData(up)
  <2>1. r2.body = r.body + 1 /\ AllData(up) = AllData(up2) + 1 /\ AllData(up2) \in Nat
    BY <1>5, <1>6
  <2>2. r.body \in Nat
    BY <1>9
  <2> QED BY ONLY <2>1, <2>2
<1>11. SocketOn(own, s, up2, down2, r2)
  BY <1>5, <1>1 DEF SocketOn
<1>12. SettingsUp(up2, r2) /\ SettingsDown(own, down2, c)
  BY SettingsTaken, SettingsRepaid
<1>13. OpenOn(r2, cs)
  BY <1>5, <1>4, <1>2 DEF OpenOn
<1>14. RequestOn(up2, r2, cs)
  <2>1. Ordered(up2)
    BY OrderTaken DEF RequestOn
  <2>2. ASSUME NEW i \in 1..Len(up2) PROVE FrameOn(up2[i], up2, r2, cs)
    <3>1. i + 1 \in 1..Len(up) /\ up2[i] = up[i + 1]
      BY TakenAt
    <3>2. FrameOn(up2[i], up, r, cs)
      BY <3>1 DEF RequestOn
    <3>3. up2[i].type # "HEADERS" /\ (f.last => up2[i].type # "DATA")
      BY <1>7 DEF Holds
    <3> QED
      BY <3>2, <3>3, <1>3, <1>5, <1>7 DEF FrameOn
  <2> QED BY <2>1, <2>2 DEF RequestOn
<1>15. WholeOn(up2, r2, cs)
  <2>1. \A i \in 1..Len(up2) : up2[i].type # "HEADERS"
    BY <1>7 DEF Holds
  <2>2. Ends(up2, "DATA") => Ends(up, "DATA")
    BY <1>7, <1>8
  <2> QED BY <2>1, <2>2, <1>10, <1>3, <1>5 DEF WholeOn
<1>16. PendingOn(up2, r2, cs)
  BY <1>5, <1>6, <1>7, <1>4, <1>3, <1>8, <1>9 DEF PendingOn, WholeOn, Holds
<1>17. LiveOn(s, up2, down2, r2, c, cs)
  <2> SUFFICES ASSUME s = "up" PROVE LiveOn(s, up2, down2, r2, c, cs)
    BY DEF LiveOn
  <2>1. Waits(up, r) /\ Waits(up2, r2) /\ r2.pc # "answering"
    BY <1>4, <1>5 DEF Waits
  <2>2. c.pc # "idle" /\ SendingOn(up, r, c, cs) /\ AnsweringOn(up, down, r, c, cs)
    BY <2>1 DEF LiveOn
  <2>3. AnsweringOn(up2, down2, r2, c, cs)
    BY <2>1, <2>2 DEF AnsweringOn, Repaid
  <2>5. SendingOn(up2, r2, c, cs)
    BY <2>2, <1>10, <1>3, <1>4, <1>5, <1>7, <1>8 DEF SendingOn, Holds
  <2> QED BY <2>2, <2>3, <2>5, <1>5 DEF LiveOn
<1>18. AnswerOn(own, down2, r2, c, cs)
  <2>1. CASE s = "up"
    <3>1. c.pc # "idle" /\ AnsweringOn(up, down, r, c, cs) /\ SendingOn(up, r, c, cs) /\ own
      BY <2>1, <1>4 DEF LiveOn, Waits, SocketOn
    <3>2. ~Holds(down, "HEADERS") /\ ~Holds(down, "DATA")
      BY <1>4, <3>1 DEF AnsweringOn, Waits
    <3>6. ~Holds(down2, "HEADERS") /\ ~Holds(down2, "DATA") /\ ~Ends(down2, "HEADERS")
      BY ONLY <3>2, Repaid(down, down2, f.stream) DEF Repaid, Ends, Holds
    <3>3. ~Holds(down2, "GOAWAY")
      <4>1. ~Holds(down, "GOAWAY")
        BY <3>1 DEF AnswerOn, AnswerFrame, Holds
      <4> QED BY <4>1 DEF Repaid
    <3>4. f.stream = c.stream
      BY <1>3, <1>4, <3>1 DEF SendingOn
    <3>5. ASSUME NEW i \in 1..Len(down2) PROVE AnswerFrame(down2[i], i, down2, r2, c)
      <4>1. down2[i].type \notin {"HEADERS", "GOAWAY"}
        BY <3>6, <3>3 DEF Holds
      <4>2. down2[i].stream # 0 => down2[i].stream = c.stream
        BY <3>1, <3>4 DEF Repaid, AnswerOn, AnswerFrame
      <4> QED BY <4>1, <4>2, <3>1 DEF AnswerFrame
    <3> QED BY <3>6, <3>3, <3>5 DEF AnswerOn
  <2>2. CASE s # "up"
    BY <2>2, <1>5 DEF AnswerOn, AnswerFrame
  <2> QED BY <2>1, <2>2
<1>19. ClientCreditOn(own, s, up2, down2, c)
  <2>1. /\ AllData(up) = AllData(up2) + 1 /\ AllData(up2) \in Nat /\ c.connWindow \in Nat
        /\ OnWire(down, "WINDOW_UPDATE", 0) \in Nat
    BY <1>6, <1>9, NoSuchFrames
  <2>2. /\ s = "up" => OnWire(down2, "WINDOW_UPDATE", 0) = OnWire(down, "WINDOW_UPDATE", 0) + 1
        /\ s # "up" => OnWire(down2, "WINDOW_UPDATE", 0) = OnWire(down, "WINDOW_UPDATE", 0)
    OBVIOUS
  <2>3. ClientCreditOn(own, s, up, down, c)
    OBVIOUS
  <2> QED BY ONLY <2>1, <2>2, <2>3, GrantIsNat DEF ClientCreditOn
<1>20. StreamCreditOn(own, s, up2, down2, c)
  <2> SUFFICES ASSUME own, c.stream # 0 PROVE StreamCreditOn(own, s, up2, down2, c)
    BY DEF StreamCreditOn
  <2> DEFINE a == OnWire(up, "DATA", c.stream)
             b == OnWire(up2, "DATA", c.stream)
             d == OnWire(down, "WINDOW_UPDATE", c.stream)
             e == OnWire(down2, "WINDOW_UPDATE", c.stream)
  <2>1. a \in Nat /\ b \in Nat /\ d \in Nat /\ e \in Nat /\ c.window \in Nat /\ c.initial \in Nat
    BY <1>6, <1>9, NoSuchFrames DEF Repaid
  <2>2. c.window + a + d <= c.initial /\ (s = "up" /\ c.pc = "sending" => c.window + a + d = c.initial)
    BY DEF StreamCreditOn
  <2>3. a = b + IF c.stream = f.stream THEN 1 ELSE 0
    BY <1>6
  <2>4. CASE s # "up"
    <3>1. d = e
      BY <2>4
    <3> HIDE DEF a, b, d, e
    <3>2. c.window + b + e <= c.initial
      BY <2>1, <2>2, <2>3, <3>1
    <3> QED BY <2>4, <3>2 DEF StreamCreditOn, a, b, d, e
  <2>5. CASE s = "up"
    <3>1. c.stream = f.stream /\ (c.pc = "sending" => ~f.last)
      BY <2>5, <1>3, <1>4, <1>1 DEF LiveOn, Waits, SendingOn, Ends, ClientOn
    <3>2. e = d + IF f.last THEN 0 ELSE 1
      BY <2>5, <3>1
    <3> HIDE DEF a, b, d, e
    <3>3. /\ c.window + b + e <= c.initial
          /\ c.pc = "sending" => c.window + b + e = c.initial
      BY ONLY <2>1, <2>2, <2>3, <2>5, <3>1, <3>2
    <3> QED BY <2>5, <3>3 DEF StreamCreditOn, a, b, d, e
  <2> QED BY <2>4, <2>5
<1>21. ServerCreditOn(s, up2, down2, r2)
  BY <1>5, <1>6 DEF ServerCreditOn, Repaid
<1>22. AnswerCreditOn(s, up2, down2, r2)
  BY <1>5, <1>6, <1>4 DEF AnswerCreditOn, Repaid
<1>23. SentOn(own, up2, c)
  BY TakenAt DEF SentOn
<1> QED
  BY <1>11, <1>12, <1>13, <1>14, <1>15, <1>16, <1>17, <1>18, <1>19, <1>20, <1>21, <1>22, <1>23

LEMMA ReadsHeaders ==
    ASSUME NEW own, NEW s, NEW up, NEW down, NEW r, NEW c, NEW cs,
           Typed(own, s, up, down, r, c, cs), ConnOn(own, s, up, down, r, c, cs), ClientOn(c, cs),
           NEW f, f = up[1], r.pc = "reading", f.type = "HEADERS",
           NEW up2, Taken(up, up2),
           NEW r2 \in ServerEnd,
           r2 = [r EXCEPT !.stream = f.stream, !.call = f.n, !.body = 0,
                          !.open = @ \union {f.stream}, !.window[f.stream] = r.initial]
    PROVE  ConnOn(own, s, up2, down, r2, c, cs)
<1> USE DEF Typed, ConnOn, ThreadOn, CreditOn
<1>1. /\ f \in Frame /\ 1 \in 1..Len(up)
  BY DEF Taken
<1>2. f.stream # 0 /\ f.stream \in Streams /\ f.n \in Nat /\ f.stream \in Nat
  BY <1>1, Http2Assumption DEF Frame, Streams
<1>3. f.stream > r.stream /\ f.n > r.call /\ f.n <= Len(cs) /\ r.open = {} /\ r.window \in [Streams -> Int]
  BY <1>1, ServerNumbers DEF RequestOn, FrameOn
<1>5. /\ r2.pc = "reading" /\ r2.body = 0 /\ r2.open = {f.stream}
      /\ r2.stream = f.stream /\ r2.call = f.n /\ r2.left = r.left
      /\ r2.connWindow = r.connWindow /\ r2.initial = r.initial /\ r2.window[f.stream] = r.initial
  BY <1>2, <1>3 DEF ServerEnd
<1>6. /\ AllData(up) = AllData(up2) /\ AllData(up2) \in Nat
      /\ \A t : OnWire(up2, "DATA", t) \in Nat /\ OnWire(up2, "WINDOW_UPDATE", t) \in Nat
      /\ \A t : OnWire(up, "DATA", t) = OnWire(up2, "DATA", t)
      /\ \A t : OnWire(up, "WINDOW_UPDATE", t) = OnWire(up2, "WINDOW_UPDATE", t)
      /\ Ends(up2, "DATA") <=> Ends(up, "DATA")
      /\ Holds(up, "HEADERS") /\ up2 \in Seq(Frame)
  BY DEF Taken, Counted
<1>7. \A i \in 1..Len(up2) : /\ up2[i].type # "HEADERS"
                             /\ up2[i].type = "DATA" => up2[i].stream = f.stream
  BY <1>1, TakenAt DEF RequestOn, Ordered
<1>8. \A i \in 1..Len(up2) : FrameOn(up2[i], up, r, cs)
  BY TakenAt DEF RequestOn
<1>9. ~Holds(up2, "HEADERS") /\ r.stream \in Nat /\ r.call \in Nat
  BY <1>7, ServerNumbers DEF Holds
<1>10. Waits(up, r) /\ Waits(up2, r2)
  BY <1>5, <1>6 DEF Waits
<1>11. SocketOn(own, s, up2, down, r2)
  BY <1>5, <1>1 DEF SocketOn
<1>12. SettingsUp(up2, r2) /\ SettingsDown(own, down, c)
  BY SettingsTaken
<1>13. OpenOn(r2, cs)
  BY <1>2, <1>3, <1>5, <1>9 DEF OpenOn
<1>14. RequestOn(up2, r2, cs)
  <2>1. Ordered(up2)
    BY OrderTaken DEF RequestOn
  <2>2. ASSUME NEW i \in 1..Len(up2) PROVE FrameOn(up2[i], up2, r2, cs)
    <3>1. up2[i].stream <= r.stream => up2[i].stream <= f.stream
      <4>1. up2[i].stream \in Nat
        BY <1>6, FrameNumbers
      <4> QED BY ONLY <4>1, <1>2, <1>3, <1>9
    <3> QED BY <1>5, <1>7, <1>8, <3>1 DEF FrameOn
  <2> QED BY <2>1, <2>2 DEF RequestOn
<1>15. WholeOn(up2, r2, cs)
  <2>1. Ends(up2, "DATA") => AllData(up2) = cs[f.n].size
    BY <1>1, <1>6 DEF WholeOn
  <2>2. 0 + AllData(up2) = AllData(up2)
    BY <1>6
  <2> QED BY <2>1, <2>2, <1>5, <1>7 DEF WholeOn
<1>16. PendingOn(up2, r2, cs)
  <2>1. NotRun(cs[f.n])
    BY <1>1 DEF PendingOn
  <2> QED BY <2>1, <1>5, <1>7 DEF PendingOn
<1>17. LiveOn(s, up2, down, r2, c, cs)
  <2> SUFFICES ASSUME s = "up" PROVE LiveOn(s, up2, down, r2, c, cs)
    BY DEF LiveOn
  <2>2. c.pc # "idle" /\ SendingOn(up, r, c, cs) /\ AnsweringOn(up, down, r, c, cs)
    BY <1>10 DEF LiveOn
  <2>3. AnsweringOn(up2, down, r2, c, cs)
    BY <1>5, <1>10, <2>2 DEF AnsweringOn
  <2>4. f.n = Len(cs) /\ f.stream = c.stream /\ AllData(up) + c.left = cs[Len(cs)].size
    BY <1>1, <2>2 DEF SendingOn
  <2>5. 0 + AllData(up2) + c.left = AllData(up) + c.left
    BY <1>6
  <2>6. SendingOn(up2, r2, c, cs)
    BY <2>2, <2>4, <2>5, <1>5, <1>6, <1>7 DEF SendingOn
  <2>7. r2.stream < c.next
    BY <2>2, <2>4, <1>2, <1>5 DEF ClientOn
  <2> QED BY <2>2, <2>3, <2>6, <2>7 DEF LiveOn
<1>18. AnswerOn(own, down, r2, c, cs)
  BY <1>5 DEF AnswerOn, AnswerFrame
<1>19. ClientCreditOn(own, s, up2, down, c)
  BY <1>6 DEF ClientCreditOn
<1>20. StreamCreditOn(own, s, up2, down, c)
  BY <1>6 DEF StreamCreditOn
<1>21. ServerCreditOn(s, up2, down, r2)
  BY <1>5, <1>6 DEF ServerCreditOn
<1>22. AnswerCreditOn(s, up2, down, r2)
  <2> SUFFICES ASSUME s = "up" PROVE AnswerCreditOn(s, up2, down, r2)
    BY DEF AnswerCreditOn
  <2>1. ~Holds(down, "DATA")
    BY <1>10 DEF LiveOn, AnsweringOn
  <2>2. OnWire(down, "DATA", f.stream) = 0
    BY <2>1, NoSuchFrames DEF Holds
  <2>3. ASSUME NEW i \in 1..Len(up2) PROVE up2[i].type # "WINDOW_UPDATE" \/ up2[i].stream # f.stream
    <3>1. up2[i].type = "WINDOW_UPDATE" => up2[i].stream <= r.stream
      BY <1>8 DEF FrameOn
    <3> QED BY ONLY <3>1, <1>2, <1>3, <1>9
  <2>4. OnWire(up2, "WINDOW_UPDATE", f.stream) = 0
    BY <1>6, <2>3, NoSuchFrames
  <2>5. r2.initial \in Nat
    BY ServerNumbers
  <2> QED BY <1>5, <2>2, <2>4, <2>5 DEF AnswerCreditOn
<1>23. SentOn(own, up2, c)
  BY TakenAt DEF SentOn
<1> QED
  BY <1>11, <1>12, <1>13, <1>14, <1>15, <1>16, <1>17, <1>18, <1>19, <1>20, <1>21, <1>22, <1>23

\* A thread takes credit or SETTINGS: only its windows change.
LEMMA TakesCredit ==
    ASSUME NEW own, NEW s, NEW up, NEW down, NEW r, NEW c, NEW cs,
           Typed(own, s, up, down, r, c, cs), ConnOn(own, s, up, down, r, c, cs),
           NEW f, f = up[1], f.type \in {"WINDOW_UPDATE", "SETTINGS"},
           NEW up2, Taken(up, up2),
           NEW r2 \in ServerEnd,
           r2.pc = r.pc, r2.stream = r.stream, r2.call = r.call, r2.body = r.body,
           r2.left = r.left, r2.open = r.open,
           ServerCreditOn(s, up2, down, r2), AnswerCreditOn(s, up2, down, r2)
    PROVE  ConnOn(own, s, up2, down, r2, c, cs)
<1> USE DEF Typed, ConnOn, ThreadOn, CreditOn
<1>1. /\ f \in Frame /\ 1 \in 1..Len(up)
  BY DEF Taken
<1>6. /\ AllData(up) = AllData(up2) /\ AllData(up2) \in Nat
      /\ \A t : OnWire(up, "DATA", t) = OnWire(up2, "DATA", t)
      /\ Ends(up2, "DATA") <=> Ends(up, "DATA")
      /\ Holds(up2, "HEADERS") <=> Holds(up, "HEADERS")
  BY DEF Taken, Counted
<1>7. \A i \in 1..Len(up2) : \E j \in 1..Len(up) : up2[i] = up[j]
  BY TakenAt
<1>11. SocketOn(own, s, up2, down, r2)
  <2>1. s \notin {"none", "broken"}
    BY <1>1 DEF SocketOn
  <2> QED BY <2>1 DEF SocketOn
<1>12. SettingsUp(up2, r2) /\ SettingsDown(own, down, c)
  BY SettingsTaken
<1>13. OpenOn(r2, cs)
  BY DEF OpenOn
<1>14. RequestOn(up2, r2, cs)
  <2>1. Ordered(up2)
    BY OrderTaken DEF RequestOn
  <2>2. ASSUME NEW i \in 1..Len(up2) PROVE FrameOn(up2[i], up2, r2, cs)
    <3>1. FrameOn(up2[i], up, r, cs)
      BY <1>7 DEF RequestOn
    <3> QED BY <3>1, <1>6 DEF FrameOn
  <2> QED BY <2>1, <2>2 DEF RequestOn
<1>15. WholeOn(up2, r2, cs)
  BY <1>6, <1>7 DEF WholeOn
<1>16. PendingOn(up2, r2, cs)
  BY <1>7 DEF PendingOn
<1>17. LiveOn(s, up2, down, r2, c, cs)
  <2> SUFFICES ASSUME s = "up" PROVE LiveOn(s, up2, down, r2, c, cs)
    BY DEF LiveOn
  <2>1. Waits(up, r) <=> Waits(up2, r2)
    BY <1>6 DEF Waits
  <2>2. CASE c.pc = "idle"
    BY <2>1, <2>2 DEF LiveOn
  <2>3. CASE c.pc # "idle"
    <3>1. SendingOn(up2, r2, c, cs)
      BY <2>3, <1>6, <1>7 DEF LiveOn, SendingOn
    <3>2. AnsweringOn(up2, down, r2, c, cs)
      BY <2>1, <2>3 DEF LiveOn, AnsweringOn
    <3> QED BY <2>3, <3>1, <3>2 DEF LiveOn
  <2> QED BY <2>2, <2>3
<1>18. AnswerOn(own, down, r2, c, cs)
  BY DEF AnswerOn, AnswerFrame
<1>19. ClientCreditOn(own, s, up2, down, c)
  BY <1>6 DEF ClientCreditOn
<1>20. StreamCreditOn(own, s, up2, down, c)
  BY <1>6 DEF StreamCreditOn
<1>21. SentOn(own, up2, c)
  BY TakenAt DEF SentOn
<1> QED
  BY <1>11, <1>12, <1>13, <1>14, <1>15, <1>16, <1>17, <1>18, <1>19, <1>20, <1>21

LEMMA TakesSettings ==
    ASSUME NEW own, NEW s, NEW up, NEW down, NEW r, NEW c, NEW cs,
           Typed(own, s, up, down, r, c, cs), ConnOn(own, s, up, down, r, c, cs),
           NEW f, f = up[1], f.type = "SETTINGS",
           NEW up2, Taken(up, up2),
           NEW r2 \in ServerEnd, NEW i2, NEW w,
           r2 = [r EXCEPT !.initial = i2, !.window = w]
    PROVE  ConnOn(own, s, up2, down, r2, c, cs)
<1>1. /\ f \in Frame /\ 1 \in 1..Len(up)
  BY DEF Taken
<1>2. r.stream = 0 /\ r.pc \in {"reading", "closed"} /\ r.open = {}
  <2>1. r.stream = 0 /\ r.pc \in {"reading", "closed"}
    BY <1>1 DEF ConnOn, SettingsUp
  <2>2. r.open \subseteq {0} /\ r.open \subseteq Streams /\ 0 \notin Streams
    BY <2>1, ServerNumbers DEF ConnOn, ThreadOn, OpenOn, Typed, Streams
  <2> QED BY <2>1, <2>2
<1>3. /\ r2.pc = r.pc /\ r2.stream = r.stream /\ r2.call = r.call /\ r2.body = r.body
      /\ r2.left = r.left /\ r2.open = r.open /\ r2.connWindow = r.connWindow
  BY DEF Typed, ServerEnd
<1>4. OnWire(up, "WINDOW_UPDATE", 0) = OnWire(up2, "WINDOW_UPDATE", 0)
  BY DEF Taken, Counted
<1>5. ServerCreditOn(s, up2, down, r2)
  BY <1>3, <1>4 DEF ConnOn, CreditOn, ServerCreditOn
<1>6. AnswerCreditOn(s, up2, down, r2)
  BY <1>2, <1>3 DEF AnswerCreditOn
<1> QED
  BY <1>3, <1>5, <1>6, TakesCredit

LEMMA TakesForConnection ==
    ASSUME NEW own, NEW s, NEW up, NEW down, NEW r, NEW c, NEW cs,
           Typed(own, s, up, down, r, c, cs), ConnOn(own, s, up, down, r, c, cs),
           NEW f, f = up[1], f.type = "WINDOW_UPDATE", f.stream = 0,
           NEW up2, Taken(up, up2),
           NEW r2 \in ServerEnd,
           r2 = [r EXCEPT !.connWindow = @ + f.n]
    PROVE  ConnOn(own, s, up2, down, r2, c, cs)
<1>1. f \in Frame /\ f.n \in Nat /\ r.connWindow \in Nat
  BY FrameNumbers, ServerNumbers DEF Taken, Typed
<1>3. /\ r2.pc = r.pc /\ r2.stream = r.stream /\ r2.call = r.call /\ r2.body = r.body
      /\ r2.left = r.left /\ r2.open = r.open /\ r2.connWindow = r.connWindow + f.n
      /\ r2.initial = r.initial /\ r2.window = r.window
  BY DEF Typed, ServerEnd
<1>4. /\ OnWire(up, "WINDOW_UPDATE", 0) = OnWire(up2, "WINDOW_UPDATE", 0) + f.n
      /\ OnWire(up2, "WINDOW_UPDATE", 0) \in Nat /\ AllData(down) \in Nat
      /\ \A t : t # 0 => OnWire(up, "WINDOW_UPDATE", t) = OnWire(up2, "WINDOW_UPDATE", t)
  BY NoSuchFrames DEF Taken, Counted, Typed
<1>5. ServerCreditOn(s, up2, down, r2)
  <2>1. r2.connWindow + AllData(down) + OnWire(up2, "WINDOW_UPDATE", 0)
          = r.connWindow + AllData(down) + OnWire(up, "WINDOW_UPDATE", 0)
    BY ONLY <1>1, <1>3, <1>4
  <2> QED BY <1>3, <2>1 DEF ConnOn, CreditOn, ServerCreditOn
<1>6. AnswerCreditOn(s, up2, down, r2)
  <2>1. r.pc \in {"handling", "answering"} \/ r.open # {} => r.stream # 0
    <3>1. r.open \subseteq Streams /\ 0 \notin Streams
      BY ServerNumbers DEF Typed, Streams
    <3> QED BY <3>1 DEF ConnOn, ThreadOn, OpenOn
  <2> QED BY <1>3, <1>4, <2>1 DEF ConnOn, CreditOn, AnswerCreditOn
<1> QED
  BY <1>3, <1>5, <1>6, TakesCredit

LEMMA TakesForStream ==
    ASSUME NEW own, NEW s, NEW up, NEW down, NEW r, NEW c, NEW cs,
           Typed(own, s, up, down, r, c, cs), ConnOn(own, s, up, down, r, c, cs),
           NEW f, f = up[1], f.type = "WINDOW_UPDATE", f.stream # 0,
           NEW up2, Taken(up, up2),
           NEW r2 \in ServerEnd,
           r2 = [r EXCEPT !.window[f.stream] = @ + f.n]
    PROVE  ConnOn(own, s, up2, down, r2, c, cs)
<1>1. /\ f \in Frame /\ f.n \in Nat /\ f.stream \in Streams /\ r.stream \in 0..MaxCalls
      /\ r.window \in [Streams -> Int]
  BY FrameNumbers, ServerNumbers DEF Taken, Typed
<1>3. /\ r2.pc = r.pc /\ r2.stream = r.stream /\ r2.call = r.call /\ r2.body = r.body
      /\ r2.left = r.left /\ r2.open = r.open /\ r2.connWindow = r.connWindow
      /\ r2.initial = r.initial
      /\ r2.window = [r.window EXCEPT ![f.stream] = @ + f.n]
  BY DEF Typed, ServerEnd
<1>4. /\ \A t : t # f.stream => OnWire(up, "WINDOW_UPDATE", t) = OnWire(up2, "WINDOW_UPDATE", t)
      /\ OnWire(up, "WINDOW_UPDATE", f.stream) = OnWire(up2, "WINDOW_UPDATE", f.stream) + f.n
      /\ OnWire(up2, "WINDOW_UPDATE", f.stream) \in Nat /\ OnWire(down, "DATA", f.stream) \in Nat
  BY NoSuchFrames DEF Taken, Counted, Typed
<1>5. ServerCreditOn(s, up2, down, r2)
  BY <1>3, <1>4 DEF ConnOn, CreditOn, ServerCreditOn
<1>6. AnswerCreditOn(s, up2, down, r2)
  <2>1. r.pc \in {"handling", "answering"} \/ r.open # {} => r.stream \in Streams
    <3>1. r.open \subseteq Streams /\ (r.stream # 0 => r.stream \in Streams)
      BY <1>1, ServerNumbers DEF Typed, Streams
    <3> QED BY <3>1 DEF ConnOn, ThreadOn, OpenOn
  <2>2. CASE r.stream = f.stream
    <3>1. r2.window[f.stream] = r.window[f.stream] + f.n /\ r.window[f.stream] \in Int
      BY <1>1, <1>3
    <3>2. r2.window[f.stream] + OnWire(down, "DATA", f.stream) + OnWire(up2, "WINDOW_UPDATE", f.stream)
            = r.window[f.stream] + OnWire(down, "DATA", f.stream) + OnWire(up, "WINDOW_UPDATE", f.stream)
      BY ONLY <3>1, <1>1, <1>4
    <3> QED BY <1>3, <2>2, <3>2 DEF ConnOn, CreditOn, AnswerCreditOn
  <2>3. CASE r.stream # f.stream
    <3>1. r.stream \in Streams => r2.window[r.stream] = r.window[r.stream]
      BY <1>1, <1>3, <2>3
    <3> QED BY <1>3, <1>4, <2>1, <2>3, <3>1 DEF ConnOn, CreditOn, AnswerCreditOn
  <2> QED BY <2>2, <2>3
<1>7. f.type \in {"WINDOW_UPDATE", "SETTINGS"}
  OBVIOUS
<1>8. ConnOn(own, s, up2, down, r2, c, cs)
  <2> HIDE DEF Typed
  <2>1. /\ r2.pc = r.pc /\ r2.stream = r.stream /\ r2.call = r.call /\ r2.body = r.body
        /\ r2.left = r.left /\ r2.open = r.open
    BY <1>3
  <2> QED BY <2>1, <1>5, <1>6, <1>7, TakesCredit
<1> QED
  BY <1>8

-----------------------------------------------------------------------------
(* A thread of the server answers.                                         *)

LEMMA Handles ==
    ASSUME NEW own, NEW s, NEW up, NEW down, NEW r, NEW c, NEW cs,
           Typed(own, s, up, down, r, c, cs), ConnOn(own, s, up, down, r, c, cs), ClientOn(c, cs),
           r.pc = "handling",
           NEW reply, reply = cs[r.call].reply,
           NEW v, v = [cs[r.call] EXCEPT !.ran = @ + 1],
           NEW cs2, cs2 = [cs EXCEPT ![r.call] = v],
           NEW f, f.type = "HEADERS", f.stream = r.stream, f.last <=> reply = 0,
           NEW down2, Told(s, down, down2, f),
           NEW r2 \in ServerEnd,
           r2 = [r EXCEPT !.left = reply, !.pc = IF reply = 0 THEN "reading" ELSE "answering"]
    PROVE  ConnOn(own, s, up, down2, r2, c, cs2)
<1> USE DEF Typed, ConnOn, ThreadOn, CreditOn
<1>1. f.type = "HEADERS" /\ f.stream = r.stream /\ (f.last <=> reply = 0)
  OBVIOUS
<1>2. /\ r2.stream = r.stream /\ r2.call = r.call /\ r2.open = r.open /\ r2.body = r.body
      /\ r2.left = reply /\ r2.connWindow = r.connWindow /\ r2.initial = r.initial
      /\ r2.window = r.window
      /\ reply = 0 => r2.pc = "reading"
      /\ reply # 0 => r2.pc = "answering"
  BY DEF ServerEnd
<1>3. Told(s, down, down2, f)
  OBVIOUS
<1>4. /\ SocketOn(own, s, up, down2, r2)
      /\ SettingsUp(up, r2) /\ SettingsDown(own, down2, c)
      /\ OpenOn(r2, cs) /\ r.open = {} /\ RequestOn(up, r2, cs)
      /\ ClientCreditOn(own, s, up, down2, c) /\ StreamCreditOn(own, s, up, down2, c)
      /\ s = "up" => /\ own /\ c.pc # "idle" /\ c.left = 0 /\ c.pc = "reading"
                     /\ ~Holds(up, "HEADERS")
                     /\ r.stream = c.stream /\ r.call = Len(cs) /\ c.stream # 0
                     /\ SendingOn(up, r2, c, cs) /\ ~Waits(up, r2) /\ r2.stream < c.next
                     /\ ~Holds(down, "GOAWAY")
  <2>1. r2.pc \in {"reading", "answering"} /\ r.pc \in {"handling", "answering"}
        /\ f.type \notin {"SETTINGS", "WINDOW_UPDATE"}
    BY <1>1, <1>2
  <2> HIDE DEF Typed, ConnOn, ThreadOn, CreditOn
  <2>2. r2.stream = r.stream /\ r2.call = r.call /\ r2.open = r.open
    BY <1>2
  <2>3. Typed(own, s, up, down, r, c, cs) /\ ConnOn(own, s, up, down, r, c, cs) /\ ClientOn(c, cs)
    OBVIOUS
  <2> QED BY ONLY <2>1, <2>2, <2>3, <1>3, AnswerKeeps
<1>5. r.call \in 1..Len(cs) /\ Len(cs) \in Nat /\ cs[r.call] \in Call
  <2>1. r.call <= Len(cs) /\ r.call # 0 /\ r.call \in Nat /\ Len(cs) \in Nat
    BY ServerNumbers DEF OpenOn
  <2> QED BY <2>1
<1>6. /\ Len(cs2) = Len(cs)
      /\ \A x \in 1..Len(cs) : x # r.call => cs2[x] = cs[x]
      /\ \A x \in 1..Len(cs) : cs2[x].size = cs[x].size /\ cs2[x].reply = cs[x].reply
      /\ cs2[r.call].ran = cs[r.call].ran + 1
  <2>1. v.size = cs[r.call].size /\ v.reply = cs[r.call].reply /\ v.ran = cs[r.call].ran + 1
    BY <1>5 DEF Call
  <2> QED BY <1>5, <2>1, Changed
<1>7. NotRun(cs[r.call]) /\ r.body = cs[r.call].size
  BY DEF PendingOn
<1>8. cs2[r.call].ran = 1 /\ reply \in Nat
  BY <1>5, <1>6, <1>7 DEF NotRun, Call
<1>9. \A i \in 1..Len(up) : up[i].type = "HEADERS" => up[i].n \in 1..Len(cs) /\ up[i].n # r.call
  <2> SUFFICES ASSUME NEW i \in 1..Len(up), up[i].type = "HEADERS"
               PROVE  up[i].n \in 1..Len(cs) /\ up[i].n # r.call
    OBVIOUS
  <2>1. up[i].n > r.call /\ up[i].n <= Len(cs) /\ up[i].n \in Nat /\ r.call \in Nat /\ Len(cs) \in Nat
    BY FrameNumbers, ServerNumbers DEF RequestOn, FrameOn
  <2> QED BY ONLY <2>1
<1>10. /\ AllData(down2) = AllData(down) /\ down2 \in Seq(Frame)
       /\ \A st : OnWire(down2, "WINDOW_UPDATE", st) = OnWire(down, "WINDOW_UPDATE", st)
       /\ \A st : OnWire(down2, "DATA", st) = OnWire(down, "DATA", st)
  BY <1>1, <1>3, ToldKeeps
<1>13. OpenOn(r2, cs2)
  BY <1>4, <1>6 DEF OpenOn
<1>14. RequestOn(up, r2, cs2)
  BY <1>4, <1>6 DEF RequestOn, FrameOn
<1>15. WholeOn(up, r2, cs2)
  BY <1>2, <1>5, <1>6, <1>9 DEF WholeOn
<1>16. PendingOn(up, r2, cs2)
  BY <1>2, <1>4, <1>5, <1>6, <1>7, <1>8, <1>9 DEF PendingOn
<1>17. LiveOn(s, up, down2, r2, c, cs2)
  <2> SUFFICES ASSUME s = "up" PROVE LiveOn(s, up, down2, r2, c, cs2)
    BY DEF LiveOn
  <2>1. SendingOn(up, r2, c, cs2)
    BY <1>4, <1>5, <1>6 DEF SendingOn, Holds
  <2>2. AnsweringOn(up, down, r, c, cs) /\ Waits(up, r)
    BY <1>4 DEF LiveOn, Waits
  <2>3. ~c.seen /\ c.got = 0 /\ ~Holds(down, "HEADERS") /\ AllData(down) = 0
    BY <2>2, NoSuchFrames DEF AnsweringOn
  <2>4. /\ Holds(down2, "HEADERS")
        /\ Ends(down2, "HEADERS") <=> reply = 0
    BY <1>1, <1>3, <2>3 DEF Told, Given, Ends, Holds
  <2>5. AnsweringOn(up, down2, r2, c, cs2)
    <3>1. c.got + AllData(down2) + r2.left = cs2[Len(cs)].reply
      BY <1>2, <1>4, <1>5, <1>6, <1>8, <1>10, <2>3
    <3> QED BY <3>1, <1>2, <1>4, <1>6, <2>4 DEF AnsweringOn
  <2> QED BY <1>4, <2>1, <2>5 DEF LiveOn
<1>18. AnswerOn(own, down2, r2, c, cs2)
  <2>1. CASE s # "up"
    BY <2>1, AnswerLost DEF Told
  <2>2. CASE s = "up"
    <3>1. AnsweringOn(up, down, r, c, cs) /\ Waits(up, r) /\ AnswerOn(own, down, r, c, cs)
      BY <2>2, <1>4 DEF LiveOn, Waits
    <3>2. ~c.seen /\ c.got = 0 /\ ~Holds(down, "HEADERS") /\ AllData(down) = 0
      BY <3>1, NoSuchFrames DEF AnsweringOn
    <3>3. Given(down, down2, f)
      BY <2>2, <1>3 DEF Told
    <3>4. \A i \in 1..Len(down2) : AnswerFrame(down2[i], i, down2, r2, c)
      <4>1. /\ \A i \in 1..Len(down) : AnswerFrame(down[i], i, down, r, c)
            /\ ~Ends(down, "HEADERS")
        BY ONLY <3>1, <3>2, <1>4, s = "up" DEF AnswerOn, Ends, Holds
      <4> QED BY ONLY <4>1, <3>3, <1>1, <1>4, s = "up", FramesTold
    <3>5. ~Holds(down2, "GOAWAY") /\ (Ends(down2, "HEADERS") => reply = 0)
      BY ONLY <1>1, <1>4, <2>2, <3>2, <3>3 DEF Given, Ends, Holds
    <3>6. reply = 0 => cs2[Len(cs2)].ran = 1 /\ c.got + AllData(down2) = cs2[Len(cs2)].reply
      <4>1. reply = 0 => c.got + AllData(down2) = reply
        BY ONLY <1>10, <3>2
      <4> QED BY <4>1, <1>4, <1>5, <1>6, <1>8, <2>2
    <3> QED BY ONLY <3>4, <3>5, <3>6, <1>4, <2>2 DEF AnswerOn
  <2> QED BY <2>1, <2>2
<1>21. ServerCreditOn(s, up, down2, r2)
  BY <1>2, <1>10 DEF ServerCreditOn
<1>22. AnswerCreditOn(s, up, down2, r2)
  BY <1>2, <1>10 DEF AnswerCreditOn
<1> QED
  BY <1>4, <1>13, <1>14, <1>15, <1>16, <1>17, <1>18, <1>21, <1>22

LEMMA Sends ==
    ASSUME NEW own, NEW s, NEW up, NEW down, NEW r, NEW c, NEW cs,
           Typed(own, s, up, down, r, c, cs), ConnOn(own, s, up, down, r, c, cs), ClientOn(c, cs),
           r.pc = "answering", r.left > 0, r.connWindow >= 1,
           NEW down2, Told(s, down, down2, Data(r.stream, 1, FALSE)),
           NEW r2 \in ServerEnd,
           r2 = [r EXCEPT !.left = @ - 1, !.connWindow = @ - 1, !.window[r.stream] = @ - 1]
    PROVE  ConnOn(own, s, up, down2, r2, c, cs)
<1> USE DEF Typed, ConnOn, ThreadOn, CreditOn
<1> DEFINE f == Data(r.stream, 1, FALSE)
<1>1. f.type = "DATA" /\ f.stream = r.stream /\ f.last = FALSE /\ f.n = 1
  BY DEF Data
<1> HIDE DEF f
<1>2. /\ r2.stream = r.stream /\ r2.call = r.call /\ r2.open = r.open /\ r2.body = r.body
      /\ r2.left = r.left - 1 /\ r2.connWindow = r.connWindow - 1 /\ r2.initial = r.initial
      /\ r2.pc = "answering" /\ r2.window = [r.window EXCEPT ![r.stream] = @ - 1]
  BY DEF ServerEnd
<1>3. Told(s, down, down2, f)
  BY DEF f
<1>4. /\ SocketOn(own, s, up, down2, r2)
      /\ SettingsUp(up, r2) /\ SettingsDown(own, down2, c)
      /\ OpenOn(r2, cs) /\ r.open = {} /\ RequestOn(up, r2, cs)
      /\ ClientCreditOn(own, s, up, down2, c) /\ StreamCreditOn(own, s, up, down2, c)
      /\ s = "up" => /\ own /\ c.pc # "idle" /\ c.left = 0 /\ c.pc = "reading"
                     /\ ~Holds(up, "HEADERS")
                     /\ r.stream = c.stream /\ r.call = Len(cs) /\ c.stream # 0
                     /\ SendingOn(up, r2, c, cs) /\ ~Waits(up, r2) /\ r2.stream < c.next
                     /\ ~Holds(down, "GOAWAY")
  <2>1. r2.pc \in {"reading", "answering"} /\ r.pc \in {"handling", "answering"}
        /\ f.type \notin {"SETTINGS", "WINDOW_UPDATE"}
    BY <1>1, <1>2
  <2>2. r2.stream = r.stream /\ r2.call = r.call /\ r2.open = r.open
    BY <1>2
  <2>3. Typed(own, s, up, down, r, c, cs) /\ ConnOn(own, s, up, down, r, c, cs) /\ ClientOn(c, cs)
    OBVIOUS
  <2> HIDE DEF Typed, ConnOn, ThreadOn, CreditOn
  <2> QED BY ONLY <2>1, <2>2, <2>3, <1>3, AnswerKeeps
<1>5. \A st : OnWire(down2, "WINDOW_UPDATE", st) = OnWire(down, "WINDOW_UPDATE", st)
  BY <1>1, <1>3, ToldKeeps
<1>6. s = "up" => /\ AllData(down2) = AllData(down) + 1
                  /\ OnWire(down2, "DATA", r.stream) = OnWire(down, "DATA", r.stream) + 1
                  /\ Given(down, down2, f)
  BY <1>1, <1>3 DEF Told, Given, Counted
<1>7. /\ AllData(down) \in Nat /\ OnWire(down, "DATA", r.stream) \in Nat
      /\ OnWire(up, "WINDOW_UPDATE", 0) \in Nat /\ OnWire(up, "WINDOW_UPDATE", r.stream) \in Nat
      /\ r.left \in Nat /\ r.connWindow \in Nat /\ c.got \in Nat /\ r.window \in [Streams -> Int]
  BY NoSuchFrames, ServerNumbers, ClientNumbers
<1>15. WholeOn(up, r2, cs)
  BY <1>2 DEF WholeOn
<1>16. PendingOn(up, r2, cs)
  BY <1>2 DEF PendingOn
<1>17. LiveOn(s, up, down2, r2, c, cs)
  <2> SUFFICES ASSUME s = "up" PROVE LiveOn(s, up, down2, r2, c, cs)
    BY DEF LiveOn
  <2>1. AnsweringOn(up, down, r, c, cs)
    BY <1>4 DEF LiveOn
  <2>2. c.got + AllData(down2) + r2.left = c.got + AllData(down) + r.left
    BY ONLY <1>2, <1>6, <1>7, s = "up"
  <2>3. /\ Holds(down, "HEADERS") <=> Holds(down2, "HEADERS")
        /\ Ends(down, "HEADERS") <=> Ends(down2, "HEADERS")
    BY <1>1, <1>6 DEF Given
  <2>4. AnsweringOn(up, down2, r2, c, cs)
    BY <1>2, <1>4, <2>1, <2>2, <2>3 DEF AnsweringOn
  <2> QED BY <1>4, <1>2, <2>4 DEF LiveOn
<1>18. AnswerOn(own, down2, r2, c, cs)
  <2>1. CASE s # "up"
    BY <2>1, AnswerLost DEF Told
  <2>2. CASE s = "up"
    <3>1. AnsweringOn(up, down, r, c, cs) /\ AnswerOn(own, down, r, c, cs) /\ ~Ends(down, "HEADERS")
      BY <2>2, <1>4 DEF LiveOn, AnsweringOn
    <3>2. Given(down, down2, f)
      BY <2>2, <1>6
    <3>3. \A i \in 1..Len(down2) : AnswerFrame(down2[i], i, down2, r2, c)
      <4>1. \A i \in 1..Len(down) : AnswerFrame(down[i], i, down, r, c)
        BY ONLY <3>1, <1>4, <2>2 DEF AnswerOn
      <4> QED BY ONLY <4>1, <3>1, <3>2, <1>1, <1>4, <2>2, FramesTold
    <3>4. ~Ends(down2, "HEADERS") /\ ~Holds(down2, "GOAWAY")
      BY ONLY <3>1, <3>2, <1>1, <1>4, <2>2 DEF Given
    <3> QED BY ONLY <3>3, <3>4, <1>4, <2>2 DEF AnswerOn
  <2> QED BY <2>1, <2>2
<1>21. ServerCreditOn(s, up, down2, r2)
  <2>1. s # "up" => down2 = down
    BY DEF Told
  <2>2. ServerCreditOn(s, up, down, r) /\ r.pc # "none" /\ r.connWindow >= 1
    OBVIOUS
  <2> QED BY ONLY <1>2, <1>5, <1>6, <1>7, <2>1, <2>2, GrantIsNat DEF ServerCreditOn
<1>22. AnswerCreditOn(s, up, down2, r2)
  <2> SUFFICES ASSUME s = "up" PROVE AnswerCreditOn(s, up, down2, r2)
    BY DEF AnswerCreditOn
  <2>1. r.stream \in Streams
    BY <1>4, ServerNumbers DEF Streams
  <2>2. r2.window[r.stream] = r.window[r.stream] - 1 /\ r.window[r.stream] \in Int
    BY <1>2, <1>7, <2>1
  <2>3. r.window[r.stream] + OnWire(down, "DATA", r.stream) + OnWire(up, "WINDOW_UPDATE", r.stream)
          = r.initial
    BY DEF AnswerCreditOn
  <2>4. r2.window[r.stream] + OnWire(down2, "DATA", r.stream) + OnWire(up, "WINDOW_UPDATE", r.stream)
          = r.initial
    BY ONLY <2>2, <2>3, <1>6, <1>7, s = "up"
  <2> QED BY <1>2, <2>4 DEF AnswerCreditOn
<1> QED
  BY <1>4, <1>15, <1>16, <1>17, <1>18, <1>21, <1>22

LEMMA SendsTrailers ==
    ASSUME NEW own, NEW s, NEW up, NEW down, NEW r, NEW c, NEW cs,
           Typed(own, s, up, down, r, c, cs), ConnOn(own, s, up, down, r, c, cs), ClientOn(c, cs),
           r.pc = "answering", r.left = 0,
           NEW down2, Told(s, down, down2, Headers(r.stream, 0, TRUE)),
           NEW r2 \in ServerEnd,
           r2 = [r EXCEPT !.pc = "reading", !.window[r.stream] = 0]
    PROVE  ConnOn(own, s, up, down2, r2, c, cs)
<1> USE DEF Typed, ConnOn, ThreadOn, CreditOn
<1> DEFINE f == Headers(r.stream, 0, TRUE)
<1>1. f.type = "HEADERS" /\ f.stream = r.stream /\ f.last
  BY DEF Headers
<1> HIDE DEF f
<1>2. /\ r2.stream = r.stream /\ r2.call = r.call /\ r2.open = r.open /\ r2.body = r.body
      /\ r2.left = r.left /\ r2.connWindow = r.connWindow /\ r2.initial = r.initial
      /\ r2.pc = "reading"
  BY DEF ServerEnd
<1>3. Told(s, down, down2, f)
  BY DEF f
<1>4. /\ SocketOn(own, s, up, down2, r2)
      /\ SettingsUp(up, r2) /\ SettingsDown(own, down2, c)
      /\ OpenOn(r2, cs) /\ r.open = {} /\ RequestOn(up, r2, cs)
      /\ ClientCreditOn(own, s, up, down2, c) /\ StreamCreditOn(own, s, up, down2, c)
      /\ s = "up" => /\ own /\ c.pc # "idle" /\ c.left = 0 /\ c.pc = "reading"
                     /\ ~Holds(up, "HEADERS")
                     /\ r.stream = c.stream /\ r.call = Len(cs) /\ c.stream # 0
                     /\ SendingOn(up, r2, c, cs) /\ ~Waits(up, r2) /\ r2.stream < c.next
                     /\ ~Holds(down, "GOAWAY")
  <2>1. r2.pc \in {"reading", "answering"} /\ r.pc \in {"handling", "answering"}
        /\ f.type \notin {"SETTINGS", "WINDOW_UPDATE"}
    BY <1>1, <1>2
  <2>2. r2.stream = r.stream /\ r2.call = r.call /\ r2.open = r.open
    BY <1>2
  <2>3. Typed(own, s, up, down, r, c, cs) /\ ConnOn(own, s, up, down, r, c, cs) /\ ClientOn(c, cs)
    OBVIOUS
  <2> HIDE DEF Typed, ConnOn, ThreadOn, CreditOn
  <2> QED BY ONLY <2>1, <2>2, <2>3, <1>3, AnswerKeeps
<1>5. /\ \A st : OnWire(down2, "WINDOW_UPDATE", st) = OnWire(down, "WINDOW_UPDATE", st)
      /\ AllData(down2) = AllData(down)
  BY <1>1, <1>3, ToldKeeps
<1>6. s = "up" => Given(down, down2, f) /\ Ends(down2, "HEADERS") /\ Holds(down2, "HEADERS")
  BY <1>1, <1>3 DEF Told, Given
<1>15. WholeOn(up, r2, cs)
  BY <1>2 DEF WholeOn
<1>16. PendingOn(up, r2, cs)
  BY <1>2, <1>4 DEF PendingOn
<1>17. LiveOn(s, up, down2, r2, c, cs)
  <2> SUFFICES ASSUME s = "up" PROVE LiveOn(s, up, down2, r2, c, cs)
    BY DEF LiveOn
  <2>1. AnsweringOn(up, down2, r2, c, cs)
    BY <1>2, <1>4, <1>6 DEF AnsweringOn
  <2> QED BY <1>4, <2>1 DEF LiveOn
<1>18. AnswerOn(own, down2, r2, c, cs)
  <2>1. CASE s # "up"
    BY <2>1, AnswerLost DEF Told
  <2>2. CASE s = "up"
    <3>1. AnsweringOn(up, down, r, c, cs) /\ AnswerOn(own, down, r, c, cs) /\ ~Ends(down, "HEADERS")
      BY <2>2, <1>4 DEF LiveOn, AnsweringOn
    <3>2. Given(down, down2, f)
      BY <2>2, <1>6
    <3>3. \A i \in 1..Len(down2) : AnswerFrame(down2[i], i, down2, r2, c)
      <4>1. \A i \in 1..Len(down) : AnswerFrame(down[i], i, down, r, c)
        BY ONLY <3>1, <1>4, <2>2 DEF AnswerOn
      <4> QED BY ONLY <4>1, <3>1, <3>2, <1>1, <1>4, <2>2, FramesTold
    <3>4. ~Holds(down2, "GOAWAY")
      BY ONLY <3>1, <3>2, <1>1, <1>4, <2>2 DEF Given
    <3>5. cs[Len(cs)].ran = 1
      BY <2>2, <1>4 DEF PendingOn
    <3>6. c.got + AllData(down2) = cs[Len(cs)].reply
      <4>1. c.got + AllData(down) + r.left = cs[Len(cs)].reply /\ r.left = 0
        BY <3>1 DEF AnsweringOn
      <4>2. c.got \in Nat /\ AllData(down) \in Nat
        BY NoSuchFrames, ClientNumbers
      <4> QED BY ONLY <4>1, <4>2, <1>5
    <3> QED BY ONLY <3>3, <3>4, <3>5, <3>6, <1>4, <2>2 DEF AnswerOn
  <2> QED BY <2>1, <2>2
<1>21. ServerCreditOn(s, up, down2, r2)
  BY <1>2, <1>5 DEF ServerCreditOn
<1>22. AnswerCreditOn(s, up, down2, r2)
  BY <1>2, <1>4 DEF AnswerCreditOn
<1> QED
  BY <1>4, <1>15, <1>16, <1>17, <1>18, <1>21, <1>22

LEMMA Leaves ==
    ASSUME NEW own, NEW s, NEW up, NEW down, NEW r, NEW c, NEW cs,
           Typed(own, s, up, down, r, c, cs), ConnOn(own, s, up, down, r, c, cs), ClientOn(c, cs),
           r.pc \in {"reading", "answering"},
           NEW down2, Told(s, down, down2, Goaway),
           NEW s2, s2 = IF s = "up" THEN "gone" ELSE s,
           NEW r2 \in ServerEnd,
           r2 = [r EXCEPT !.pc = "closed"]
    PROVE  ConnOn(own, s2, up, down2, r2, c, cs)
<1> USE DEF Typed, ConnOn, ThreadOn, CreditOn
<1>1. Goaway.type = "GOAWAY" /\ Goaway.stream = 0
  BY DEF Goaway
<1>2. /\ r2.stream = r.stream /\ r2.call = r.call /\ r2.open = r.open /\ r2.body = r.body
      /\ r2.left = r.left /\ r2.connWindow = r.connWindow /\ r2.initial = r.initial
      /\ r2.pc = "closed" /\ r2.window = r.window
  BY DEF ServerEnd
<1>3. s2 # "up" /\ s # "none"
  BY DEF SocketOn, Absent
<1>5. /\ \A st : OnWire(down2, "WINDOW_UPDATE", st) = OnWire(down, "WINDOW_UPDATE", st)
      /\ AllData(down2) = AllData(down)
  BY <1>1, ToldKeeps
<1>11. SocketOn(own, s2, up, down2, r2)
  BY <1>2, <1>3 DEF SocketOn, Told
<1>12. SettingsUp(up, r2) /\ SettingsDown(own, down2, c)
  <2>1. SettingsDown(own, down2, c)
    BY <1>1, ToldKeeps
  <2> QED BY <2>1, <1>2 DEF SettingsUp
<1>13. OpenOn(r2, cs)
  BY <1>2 DEF OpenOn
<1>14. RequestOn(up, r2, cs)
  BY <1>2 DEF RequestOn, FrameOn
<1>15. WholeOn(up, r2, cs)
  BY <1>2 DEF WholeOn
<1>16. PendingOn(up, r2, cs)
  BY <1>2 DEF PendingOn
<1>17. LiveOn(s2, up, down2, r2, c, cs)
  BY <1>3 DEF LiveOn
<1>18. AnswerOn(own, down2, r2, c, cs)
  <2>1. CASE s # "up"
    BY <2>1, AnswerLost DEF Told
  <2>2. CASE s = "up"
    <3>1. own /\ AnswerOn(own, down, r, c, cs)
      BY <2>2 DEF SocketOn
    <3>2. Given(down, down2, Goaway)
      BY <2>2 DEF Told
    <3>3. ~Holds(down, "GOAWAY") /\ \A i \in 1..Len(down) : AnswerFrame(down[i], i, down, r, c)
      BY <3>1 DEF AnswerOn, AnswerFrame, Holds
    <3>4. \A i \in 1..Len(down2) : AnswerFrame(down2[i], i, down2, r2, c)
      BY ONLY <3>2, <3>3, <1>1, <1>2, FramesTold
    <3>5. /\ Ends(down2, "HEADERS") <=> Ends(down, "HEADERS")
          /\ Holds(down2, "HEADERS") <=> Holds(down, "HEADERS")
          /\ Holds(down2, "DATA") <=> Holds(down, "DATA")
      BY ONLY <3>2, <1>1 DEF Given
    <3>6. c.pc # "idle" => cs[Len(cs)].ran = 0 \/ c.seen \/ Holds(down, "HEADERS")
      <4> SUFFICES ASSUME c.pc # "idle"
                   PROVE  cs[Len(cs)].ran = 0 \/ c.seen \/ Holds(down, "HEADERS")
        OBVIOUS
      <4>1. SendingOn(up, r, c, cs) /\ AnsweringOn(up, down, r, c, cs)
        BY <2>2 DEF LiveOn
      <4>2. CASE Holds(up, "HEADERS")
        <5>1. PICK i \in 1..Len(up) : up[i].type = "HEADERS"
          BY <4>2 DEF Holds
        <5>2. up[i].n = Len(cs) /\ NotRun(cs[up[i].n])
          BY <4>1, <5>1 DEF SendingOn, PendingOn
        <5> QED BY <5>2 DEF NotRun
      <4>3. CASE ~Holds(up, "HEADERS") /\ r.open # {}
        <5>1. r.call = Len(cs) /\ NotRun(cs[r.call])
          BY <4>1, <4>3 DEF SendingOn, PendingOn
        <5> QED BY <5>1 DEF NotRun
      <4>4. CASE ~Holds(up, "HEADERS") /\ r.open = {}
        <5>1. ~Waits(up, r)
          BY <4>4 DEF Waits
        <5> QED BY <4>1, <5>1 DEF AnsweringOn, Ends, Holds
      <4> QED BY <4>2, <4>3, <4>4
    <3> QED BY ONLY <3>1, <3>4, <3>5, <3>6, <1>5 DEF AnswerOn
  <2> QED BY <2>1, <2>2
<1>19. ClientCreditOn(own, s2, up, down2, c) /\ StreamCreditOn(own, s2, up, down2, c)
  BY <1>3, <1>5 DEF ClientCreditOn, StreamCreditOn
<1>21. ServerCreditOn(s2, up, down2, r2)
  BY <1>2, <1>3, <1>5 DEF ServerCreditOn
<1>22. AnswerCreditOn(s2, up, down2, r2)
  BY <1>3 DEF AnswerCreditOn
<1> QED
  BY <1>11, <1>12, <1>13, <1>14, <1>15, <1>16, <1>17, <1>18, <1>19, <1>21, <1>22

-----------------------------------------------------------------------------
(* A connection given up, and what other connections keep.                 *)

\* A thread does not notice what becomes of the calls it is not asked for.
LEMMA ThreadKept ==
    ASSUME NEW up \in Seq(Frame), NEW r \in ServerEnd, NEW cs \in Seq(Call), NEW cs2 \in Seq(Call),
           ThreadOn(up, r, cs), Len(cs) <= Len(cs2),
           \A x \in 1..Len(cs) : Wanted(x, up, r) =>
              /\ cs2[x].size = cs[x].size /\ cs2[x].ran = cs[x].ran
              /\ r.pc # "closed" /\ NotRun(cs[x]) => NotRun(cs2[x])
    PROVE  ThreadOn(up, r, cs2)
<1> USE DEF ThreadOn
<1>1. Len(cs) \in Nat /\ Len(cs2) \in Nat /\ r.call \in Nat /\ r.stream \in Nat
  BY ServerNumbers
<1>2. OpenOn(r, cs2)
  <2>1. r.call <= Len(cs2)
    BY <1>1 DEF OpenOn
  <2> QED BY <2>1 DEF OpenOn
<1>3. \A i \in 1..Len(up) : up[i].type = "HEADERS" =>
        up[i].n \in 1..Len(cs) /\ Wanted(up[i].n, up, r) /\ up[i].n <= Len(cs2)
  <2> SUFFICES ASSUME NEW i \in 1..Len(up), up[i].type = "HEADERS"
               PROVE  up[i].n \in 1..Len(cs) /\ Wanted(up[i].n, up, r) /\ up[i].n <= Len(cs2)
    OBVIOUS
  <2>1. up[i].n > r.call /\ up[i].n <= Len(cs) /\ up[i].n \in Nat
    BY FrameNumbers DEF RequestOn, FrameOn
  <2>2. up[i].n \in 1..Len(cs) /\ up[i].n <= Len(cs2)
    BY <1>1, <2>1
  <2> QED BY <2>2 DEF Wanted
<1>4. RequestOn(up, r, cs2)
  BY <1>3 DEF RequestOn, FrameOn
<1>5. r.stream # 0 => r.call \in 1..Len(cs) /\ Wanted(r.call, up, r)
  BY <1>1 DEF OpenOn, Wanted
<1>6. r.open # {} => r.stream # 0
  <2>1. r.open \subseteq Streams /\ 0 \notin Streams
    BY ServerNumbers DEF Streams
  <2> QED BY <2>1 DEF OpenOn
<1>7. WholeOn(up, r, cs2)
  <2> SUFFICES ASSUME Ends(up, "DATA") PROVE WholeOn(up, r, cs2)
    BY DEF WholeOn
  <2>1. ~Holds(up, "HEADERS") => r.open # {}
    BY DEF RequestOn, FrameOn, Ends
  <2> QED BY <1>3, <1>5, <1>6, <2>1 DEF WholeOn
<1>8. PendingOn(up, r, cs2)
  <2> SUFFICES ASSUME r.pc # "closed" PROVE PendingOn(up, r, cs2)
    BY DEF PendingOn
  <2>1. r.pc \in {"handling", "answering"} => r.stream # 0
    BY DEF OpenOn
  <2> QED BY <1>3, <1>5, <1>6, <2>1 DEF PendingOn
<1> QED BY <1>2, <1>4, <1>7, <1>8

\* A connection that is no longer the client's, or never was.
LEMMA NotItsOwn ==
    ASSUME NEW own, NEW s, NEW s2, NEW up, NEW down, NEW down2, NEW r, NEW c, NEW c2, NEW cs, NEW cs2,
           Typed(own, s, up, down, r, c, cs), ConnOn(own, s, up, down, r, c, cs),
           s2 = s \/ (s = "up" /\ s2 = "shut"), s2 # "up",
           down2 = down \/ Taken(down, down2),
           ThreadOn(up, r, cs2)
    PROVE  ConnOn(FALSE, s2, up, down2, r, c2, cs2)
<1> USE DEF Typed, ConnOn, CreditOn
<1>1. SocketOn(FALSE, s2, up, down2, r)
  <2>1. s = "none" => down2 = down
    <3>1. down2 # down => Len(down) # 0
      BY DEF Taken
    <3> QED BY <3>1, NoFrames DEF SocketOn
  <2> QED BY <2>1 DEF SocketOn, Absent
<1>2. SettingsUp(up, r)
  OBVIOUS
<1>3. SettingsDown(FALSE, down2, c2)
  <2>1. CASE down2 = down
    BY <2>1 DEF SettingsDown
  <2>2. CASE Taken(down, down2)
    BY <2>2, SettingsTaken
  <2> QED BY <2>1, <2>2
<1>4. LiveOn(s2, up, down2, r, c2, cs2) /\ AnswerOn(FALSE, down2, r, c2, cs2) /\ SentOn(FALSE, up, c2)
  BY DEF LiveOn, AnswerOn, SentOn
<1>5. ClientCreditOn(FALSE, s2, up, down2, c2) /\ StreamCreditOn(FALSE, s2, up, down2, c2)
      /\ AnswerCreditOn(s2, up, down2, r)
  BY DEF ClientCreditOn, StreamCreditOn, AnswerCreditOn
<1>6. ServerCreditOn(s2, up, down2, r)
  <2>1. AllData(down2) <= AllData(down) /\ AllData(down) \in Nat /\ AllData(down2) \in Nat
    <3>1. CASE down2 = down
      BY <3>1, NoSuchFrames
    <3>2. CASE Taken(down, down2)
      <4>1. down[1].n \in Nat
        BY <3>2, FrameNumbers DEF Taken
      <4>2. AllData(down2) \in Nat
            /\ AllData(down) = AllData(down2) + (IF down[1].type = "DATA" THEN down[1].n ELSE 0)
        BY <3>2 DEF Taken
      <4> QED BY ONLY <4>1, <4>2
    <3> QED BY <3>1, <3>2
  <2>2. r.connWindow \in Nat /\ OnWire(up, "WINDOW_UPDATE", 0) \in Nat
    BY ServerNumbers, NoSuchFrames
  <2>3. ServerCreditOn(s, up, down, r)
    OBVIOUS
  <2> QED BY ONLY <2>1, <2>2, <2>3, s2 # "up", GrantIsNat DEF ServerCreditOn
<1> QED
  BY <1>1, <1>2, <1>3, <1>4, <1>5, <1>6

\* The network drops the client's own connection.
LEMMA Breaks ==
    ASSUME NEW own, NEW up, NEW down, NEW r, NEW c, NEW cs,
           Typed(own, "up", up, down, r, c, cs), ConnOn(own, "up", up, down, r, c, cs), ClientOn(c, cs)
    PROVE  ConnOn(own, "broken", <<>>, <<>>, r, c, cs)
<1> USE DEF Typed, ConnOn, ThreadOn, CreditOn
<1>1. SocketOn(own, "broken", <<>>, <<>>, r)
  BY DEF SocketOn
<1>2. SettingsUp(<<>>, r) /\ SettingsDown(own, <<>>, c) /\ SentOn(own, <<>>, c)
  BY NoFrames DEF SettingsUp, SettingsDown, SentOn
<1>3. RequestOn(<<>>, r, cs) /\ WholeOn(<<>>, r, cs)
  BY NoFrames DEF RequestOn, Ordered, WholeOn
<1>4. PendingOn(<<>>, r, cs)
  BY NoFrames DEF PendingOn
<1>5. LiveOn("broken", <<>>, <<>>, r, c, cs) /\ AnswerOn(own, <<>>, r, c, cs)
  BY NothingToAnswer DEF LiveOn
<1>6. /\ \A type, st : OnWire(<<>>, type, st) = 0
      /\ AllData(<<>>) = 0
  BY NoFrames
<1>7. /\ c.connWindow \in Nat /\ c.window \in Nat /\ r.connWindow \in Nat /\ c.initial \in Nat
      /\ AllData(up) \in Nat /\ AllData(down) \in Nat
      /\ \A type, st : OnWire(up, type, st) \in Nat /\ OnWire(down, type, st) \in Nat
  BY ServerNumbers, ClientNumbers, NoSuchFrames
<1>8. ClientCreditOn(own, "broken", <<>>, <<>>, c)
  <2>1. ClientCreditOn(own, "up", up, down, c)
    OBVIOUS
  <2> QED BY ONLY <2>1, <1>6, <1>7, GrantIsNat DEF ClientCreditOn
<1>9. StreamCreditOn(own, "broken", <<>>, <<>>, c)
  <2>1. c.window <= c.initial
    BY DEF ClientOn
  <2> QED BY ONLY <2>1, <1>6, <1>7 DEF StreamCreditOn
<1>10. ServerCreditOn("broken", <<>>, <<>>, r)
  <2>1. ServerCreditOn("up", up, down, r)
    OBVIOUS
  <2> QED BY ONLY <2>1, <1>6, <1>7, GrantIsNat DEF ServerCreditOn
<1>11. AnswerCreditOn("broken", <<>>, <<>>, r)
  BY DEF AnswerCreditOn
<1> QED
  BY <1>1, <1>2, <1>3, <1>4, <1>5, <1>8, <1>9, <1>10, <1>11

-----------------------------------------------------------------------------
(* The client sends, and reads.                                            *)

\* A thread of the server reads only what it is sent: more of it, in order, changes
\* nothing but what is still to be read.
LEMMA ServerCreditKept ==
    ASSUME NEW s, NEW up, NEW up2, NEW down, NEW r, NEW f, Told(s, up, up2, f),
           up \in Seq(Frame), f.type # "WINDOW_UPDATE", f.type # "SETTINGS"
    PROVE  /\ ServerCreditOn(s, up, down, r) => ServerCreditOn(s, up2, down, r)
           /\ AnswerCreditOn(s, up, down, r) => AnswerCreditOn(s, up2, down, r)
<1>1. \A st : OnWire(up2, "WINDOW_UPDATE", st) = OnWire(up, "WINDOW_UPDATE", st)
  BY ToldKeeps
<1> QED BY <1>1 DEF ServerCreditOn, AnswerCreditOn

LEMMA Requests ==
    ASSUME NEW s, NEW up, NEW down, NEW r, NEW c, NEW cs,
           Typed(TRUE, s, up, down, r, c, cs), ConnOn(TRUE, s, up, down, r, c, cs), ClientOn(c, cs),
           c.pc = "idle", c.conn # 0, c.next \in Streams,
           NEW call \in Call, call.ran = 0, call.outcome = "none",
           NEW cs2, cs2 = Append(cs, call),
           NEW up2, Told(s, up, up2, Headers(c.next, Len(cs) + 1, FALSE)),
           NEW c2 \in ClientEnd,
           c2 = [c EXCEPT !.pc = "sending", !.stream = c.next, !.next = @ + 1, !.left = call.size,
                          !.seen = FALSE, !.got = 0, !.window = c.initial]
    PROVE  ConnOn(TRUE, s, up2, down, r, c2, cs2) /\ ClientOn(c2, cs2)
<1> USE DEF Typed, ConnOn, ThreadOn, CreditOn
<1> DEFINE n == Len(cs) + 1
           f == Headers(c.next, n, FALSE)
<1>1. /\ f.type = "HEADERS" /\ f.stream = c.next /\ f.n = n /\ f.last = FALSE
  BY DEF Headers
<1>2. /\ Len(cs2) = n /\ n \in Nat /\ Len(cs) \in Nat /\ cs2[n] = call
      /\ \A x \in 1..Len(cs) : cs2[x] = cs[x]
      /\ cs2 \in Seq(Call)
  OBVIOUS
<1>3. Told(s, up, up2, f)
  OBVIOUS
<1> HIDE DEF f
<1>4. n = Len(cs) + 1
  OBVIOUS
<1> HIDE DEF n
<1>5. /\ c2.pc = "sending" /\ c2.stream = c.next /\ c2.next = c.next + 1 /\ c2.left = call.size
      /\ c2.seen = FALSE /\ c2.got = 0 /\ c2.window = c.initial /\ c2.initial = c.initial
      /\ c2.connWindow = c.connWindow /\ c2.conn = c.conn
  BY DEF ClientEnd
<1>6. /\ c.next \in Nat /\ c.next # 0 /\ c.initial \in Nat /\ r.call \in Nat /\ r.stream \in Nat
      /\ call.size \in Nat /\ call.size # 0
  BY ClientNumbers, ServerNumbers DEF Call
<1>7. ClientOn(c2, cs2)
  <2>1. c2.stream < c2.next /\ c2.next = c2.stream + 1
    BY ONLY <1>5, <1>6
  <2>2. c2.next <= Len(cs2) + 1
    <3>1. c.next <= Len(cs) + 1
      BY DEF ClientOn
    <3> QED BY ONLY <3>1, <1>2, <1>4, <1>5, <1>6
  <2> QED BY <2>1, <2>2, <1>2, <1>5, <1>6 DEF ClientOn
\* Nothing but the end of the connection is left of the call before.
<1>8. \A i \in 1..Len(down) : down[i].stream = 0 /\ down[i].type \notin {"HEADERS", "DATA"}
  <2> SUFFICES ASSUME NEW i \in 1..Len(down)
               PROVE  down[i].stream = 0 /\ down[i].type \notin {"HEADERS", "DATA"}
    OBVIOUS
  <2>1. down[i].stream = 0
    BY DEF AnswerOn, AnswerFrame
  <2>2. down[i] \in Frame
    OBVIOUS
  <2> QED BY <2>1, <2>2 DEF Frame
<1>9. ~Holds(down, "HEADERS") /\ ~Holds(down, "DATA") /\ ~Ends(down, "HEADERS")
  BY <1>8 DEF Holds, Ends
<1>10. s = "up" => /\ ~Holds(up, "HEADERS") /\ ~Holds(up, "DATA") /\ r.open = {} /\ r.pc = "reading"
                   /\ r.stream < c.next /\ Given(up, up2, f)
  <2> SUFFICES ASSUME s = "up"
               PROVE  /\ ~Holds(up, "HEADERS") /\ ~Holds(up, "DATA") /\ r.open = {}
                      /\ r.pc = "reading" /\ r.stream < c.next /\ Given(up, up2, f)
    OBVIOUS
  <2>1. ~Holds(up, "HEADERS") /\ r.open = {} /\ r.pc = "reading" /\ r.stream < c.next
    BY DEF LiveOn, Waits
  <2>2. ~Holds(up, "DATA")
    BY <2>1 DEF RequestOn, FrameOn, Holds
  <2> QED BY <2>1, <2>2, <1>3 DEF Told
<1>11. SocketOn(TRUE, s, up2, down, r)
  BY DEF SocketOn, Told
<1>12. SettingsUp(up2, r)
  BY <1>1, <1>3, SettingsGiven DEF Told
<1>13. SettingsDown(TRUE, down, c2)
  BY <1>5 DEF SettingsDown
<1>14. ThreadOn(up, r, cs2)
  <2>1. Len(cs) <= Len(cs2)
    BY ONLY <1>2, <1>4
  <2>2. \A x \in 1..Len(cs) : cs2[x].size = cs[x].size /\ cs2[x].ran = cs[x].ran
                              /\ (NotRun(cs[x]) => NotRun(cs2[x]))
    BY <1>2
  <2>3. ThreadOn(up, r, cs)
    OBVIOUS
  <2> HIDE DEF ThreadOn
  <2> QED BY <1>2, <2>1, <2>2, <2>3, ThreadKept
<1>15. ThreadOn(up2, r, cs2)
  <2>1. CASE s # "up"
    BY <2>1, <1>3, <1>14 DEF Told
  <2>2. CASE s = "up"
    <3>1. Given(up, up2, f) /\ ~Holds(up2, "DATA") /\ Holds(up2, "HEADERS")
      BY <2>2, <1>1, <1>10 DEF Given
    <3>2. \A i \in 1..Len(up2) : /\ up2[i] = f \/ (i \in 1..Len(up) /\ up2[i] = up[i])
                                 /\ up2[i].type = "HEADERS" => up2[i] = f
      BY <2>2, <3>1, <1>10 DEF Given, Holds
    <3>3. RequestOn(up2, r, cs2)
      <4>1. Ordered(up2)
        BY <2>2, <3>1, <1>10, <1>1, OrderGiven DEF RequestOn
      <4>2. ASSUME NEW i \in 1..Len(up2) PROVE FrameOn(up2[i], up2, r, cs2)
        <5>1. CASE up2[i] = f
          <6>1. f.stream > r.stream /\ f.n <= Len(cs2)
            BY ONLY <1>1, <1>2, <1>6, <1>10, s = "up", <2>2
          <6>2. r.call <= Len(cs)
            BY DEF OpenOn
          <6>3. f.n > r.call
            BY ONLY <6>2, <1>1, <1>2, <1>4, <1>6
          <6> QED BY <5>1, <6>1, <6>3, <1>1, <1>10, <2>2 DEF FrameOn
        <5>2. CASE i \in 1..Len(up) /\ up2[i] = up[i]
          <6>1. FrameOn(up2[i], up, r, cs2)
            BY <5>2, <1>14 DEF RequestOn
          <6>2. up2[i].type \notin {"HEADERS", "DATA"}
            BY <5>2, <2>2, <1>10 DEF Holds
          <6> QED BY <6>1, <6>2 DEF FrameOn
        <5> QED BY <5>1, <5>2, <3>2
      <4> QED BY <4>1, <4>2 DEF RequestOn
    <3>4. WholeOn(up2, r, cs2)
      BY <3>1 DEF WholeOn, Ends, Holds
    <3>5. PendingOn(up2, r, cs2)
      <4>1. NotRun(cs2[f.n])
        BY <1>1, <1>2 DEF NotRun
      <4> QED BY <4>1, <3>2, <1>10, <2>2 DEF PendingOn
    <3> QED BY <3>3, <3>4, <3>5, <1>14
  <2> QED BY <2>1, <2>2
<1>17. LiveOn(s, up2, down, r, c2, cs2)
  <2> SUFFICES ASSUME s = "up" PROVE LiveOn(s, up2, down, r, c2, cs2)
    BY DEF LiveOn
  <2>1. Given(up, up2, f) /\ ~Holds(up2, "DATA") /\ Holds(up2, "HEADERS") /\ Waits(up2, r)
        /\ up2 \in Seq(Frame)
    BY <1>1, <1>10 DEF Given, Waits
  <2>2. AllData(up2) = 0 /\ ~Ends(up2, "DATA")
    BY <2>1, NoSuchFrames DEF Holds, Ends
  <2>3. \A i \in 1..Len(up2) : up2[i].type = "HEADERS" => up2[i] = f
    BY <2>1, <1>10 DEF Given, Holds
  <2>4. SendingOn(up2, r, c2, cs2)
    BY <2>1, <2>2, <2>3, <1>1, <1>2, <1>5, <1>6, <1>10 DEF SendingOn
  <2>5. AnsweringOn(up2, down, r, c2, cs2)
    BY <2>1, <1>5, <1>9, <1>10 DEF AnsweringOn
  <2>6. r.stream < c2.next
    BY ONLY <1>5, <1>6, <1>10, s = "up"
  <2> QED BY <2>4, <2>5, <2>6, <1>5 DEF LiveOn
<1>18. AnswerOn(TRUE, down, r, c2, cs2)
  <2>1. ASSUME NEW i \in 1..Len(down) PROVE AnswerFrame(down[i], i, down, r, c2)
    BY <1>8 DEF AnswerOn, AnswerFrame
  <2> QED BY <2>1, <1>2, <1>5, <1>9 DEF AnswerOn
<1>19. ClientCreditOn(TRUE, s, up2, down, c2)
  <2>1. AllData(up2) = AllData(up)
    BY <1>1, <1>3, ToldKeeps
  <2> QED BY <2>1, <1>5 DEF ClientCreditOn
<1>20. StreamCreditOn(TRUE, s, up2, down, c2)
  <2>1. OnWire(down, "WINDOW_UPDATE", c.next) = 0
    BY <1>6, <1>8, NoSuchFrames
  <2>2. OnWire(up2, "DATA", c.next) = OnWire(up, "DATA", c.next)
    BY <1>1, <1>3, ToldKeeps
  <2>3. \A i \in 1..Len(up) : up[i].stream # c.next
    BY <1>6 DEF SentOn
  <2>4. OnWire(up, "DATA", c.next) = 0
    BY <2>3, NoSuchFrames
  <2> QED BY ONLY <2>1, <2>2, <2>4, <1>5, <1>6 DEF StreamCreditOn
<1>21. ServerCreditOn(s, up2, down, r) /\ AnswerCreditOn(s, up2, down, r)
  BY <1>1, <1>3, ServerCreditKept
<1>22. SentOn(TRUE, up2, c2)
  <2>1. \A i \in 1..Len(up) : up[i].stream < c.next /\ up[i].stream \in Nat
    BY FrameNumbers DEF SentOn
  <2>2. \A i \in 1..Len(up2) : up2[i] = f \/ (i \in 1..Len(up) /\ up2[i] = up[i])
    BY <1>3 DEF Told, Given
  <2> QED BY ONLY <2>1, <2>2, <1>1, <1>5, <1>6 DEF SentOn
<1> QED
  BY <1>7, <1>11, <1>12, <1>13, <1>15, <1>17, <1>18, <1>19, <1>20, <1>21, <1>22

LEMMA SendsBody ==
    ASSUME NEW s, NEW up, NEW down, NEW r, NEW c, NEW cs,
           Typed(TRUE, s, up, down, r, c, cs), ConnOn(TRUE, s, up, down, r, c, cs), ClientOn(c, cs),
           c.pc = "sending", c.connWindow >= 1, c.window >= 1,
           NEW f, f.type = "DATA", f.stream = c.stream, f.n = 1, f.last <=> c.left = 1,
           NEW up2, Told(s, up, up2, f),
           NEW p, p = IF c.left = 1 THEN "reading" ELSE "sending",
           NEW c2 \in ClientEnd,
           c2 = [c EXCEPT !.left = @ - 1, !.connWindow = @ - 1, !.window = @ - 1, !.pc = p]
    PROVE  ConnOn(TRUE, s, up2, down, r, c2, cs) /\ ClientOn(c2, cs)
<1> USE DEF Typed, ConnOn, ThreadOn, CreditOn
<1>1. /\ f.type = "DATA" /\ f.stream = c.stream /\ f.n = 1 /\ (f.last <=> c.left = 1)
  OBVIOUS
<1>3. Told(s, up, up2, f)
  OBVIOUS
<1>5. /\ c2.stream = c.stream /\ c2.next = c.next /\ c2.left = c.left - 1
      /\ c2.seen = c.seen /\ c2.got = c.got /\ c2.window = c.window - 1 /\ c2.initial = c.initial
      /\ c2.connWindow = c.connWindow - 1 /\ c2.conn = c.conn
      /\ c.left = 1 => c2.pc = "reading"
      /\ c.left # 1 => c2.pc = "sending"
  BY DEF ClientEnd
<1>6. /\ c.left \in Nat /\ c.left # 0 /\ c.connWindow \in Nat /\ c.window \in Nat /\ c.initial \in Nat
      /\ c.stream # 0 /\ c.stream \in Nat /\ c.next \in Nat
  BY ClientNumbers DEF ClientOn
<1>7. ClientOn(c2, cs)
  <2>1. c2.left # 0 <=> c.left # 1
    BY ONLY <1>5, <1>6
  <2>2. c2.window <= c2.initial
    <3>1. c.window <= c.initial
      BY DEF ClientOn
    <3> QED BY ONLY <3>1, <1>5, <1>6
  <2> QED BY <2>1, <2>2, <1>5 DEF ClientOn
<1>8. s = "up" =>
        /\ Given(up, up2, f) /\ ~Ends(up, "DATA") /\ SendingOn(up, r, c, cs) /\ AnsweringOn(up, down, r, c, cs)
        /\ AllData(up2) = AllData(up) + 1 /\ AllData(up) \in Nat
        /\ Holds(up2, "HEADERS") <=> Holds(up, "HEADERS")
        /\ Ends(up2, "DATA") <=> c.left = 1
        /\ r.stream < c.next
        /\ \A i \in 1..Len(up) : up[i].type = "HEADERS" => up[i].stream = c.stream
        /\ ~Holds(up, "HEADERS") => r.open = {c.stream}
  <2> SUFFICES ASSUME s = "up"
               PROVE  /\ Given(up, up2, f) /\ ~Ends(up, "DATA") /\ SendingOn(up, r, c, cs)
                      /\ AnsweringOn(up, down, r, c, cs)
                      /\ AllData(up2) = AllData(up) + 1 /\ AllData(up) \in Nat
                      /\ Holds(up2, "HEADERS") <=> Holds(up, "HEADERS")
                      /\ Ends(up2, "DATA") <=> c.left = 1
                      /\ r.stream < c.next
                      /\ \A i \in 1..Len(up) : up[i].type = "HEADERS" => up[i].stream = c.stream
                      /\ ~Holds(up, "HEADERS") => r.open = {c.stream}
    OBVIOUS
  <2>1. Given(up, up2, f)
    BY <1>3 DEF Told
  <2>2. SendingOn(up, r, c, cs) /\ AnsweringOn(up, down, r, c, cs) /\ r.stream < c.next
    BY DEF LiveOn
  <2>3. ~Ends(up, "DATA")
    BY <2>2, <1>6 DEF SendingOn
  <2>4. ~Holds(up, "HEADERS") => r.open = {c.stream}
    BY <2>2, <1>6 DEF SendingOn, OpenOn
  <2>5. \A i \in 1..Len(up) : up[i].type = "HEADERS" => up[i].stream = c.stream
    BY <2>2 DEF SendingOn
  <2>6. /\ AllData(up2) = AllData(up) + 1 /\ AllData(up) \in Nat
        /\ Holds(up2, "HEADERS") <=> Holds(up, "HEADERS")
        /\ Ends(up2, "DATA") <=> c.left = 1
    BY ONLY <2>1, <2>3, <1>1 DEF Given
  <2> QED BY <2>1, <2>2, <2>3, <2>4, <2>5, <2>6
<1>9. \A i \in 1..Len(up2) : up2[i] = f \/ (i \in 1..Len(up) /\ up2[i] = up[i])
  BY <1>3 DEF Told, Given
<1>11. SocketOn(TRUE, s, up2, down, r)
  BY DEF SocketOn, Told
<1>12. SettingsUp(up2, r) /\ SettingsDown(TRUE, down, c2)
  <2>1. SettingsUp(up2, r)
    BY <1>1, <1>3, SettingsGiven DEF Told
  <2> QED BY <2>1, <1>5 DEF SettingsDown
<1>14. RequestOn(up2, r, cs)
  <2>1. CASE s # "up"
    BY <2>1, <1>3 DEF Told
  <2>2. CASE s = "up"
    <3>1. Ordered(up2)
      BY <2>2, <1>1, <1>8, OrderGiven DEF RequestOn
    <3>2. ASSUME NEW i \in 1..Len(up2) PROVE FrameOn(up2[i], up2, r, cs)
      <4>1. CASE up2[i] = f
        BY <4>1, <1>1, <1>8, <2>2 DEF FrameOn
      <4>2. CASE i \in 1..Len(up) /\ up2[i] = up[i]
        <5>1. FrameOn(up[i], up, r, cs)
          BY <4>2 DEF RequestOn
        <5> QED BY <4>2, <5>1, <1>8, <2>2 DEF FrameOn
      <4> QED BY <4>1, <4>2, <1>9
    <3> QED BY <3>1, <3>2 DEF RequestOn
  <2> QED BY <2>1, <2>2
<1>15. WholeOn(up2, r, cs)
  <2>1. CASE s # "up"
    BY <2>1, <1>3 DEF Told
  <2>2. CASE s = "up"
    <3> SUFFICES ASSUME Ends(up2, "DATA") PROVE WholeOn(up2, r, cs)
      BY DEF WholeOn
    <3>1. c.left = 1 /\ AllData(up2) = AllData(up) + 1
      BY <1>8, <2>2
    <3>2. ASSUME NEW i \in 1..Len(up2), up2[i].type = "HEADERS" PROVE AllData(up2) = cs[up2[i].n].size
      <4>1. i \in 1..Len(up) /\ up2[i] = up[i]
        BY <3>2, <1>1, <1>9
      <4> QED BY <4>1, <3>1, <3>2, <1>8, <2>2 DEF SendingOn
    <3>3. ~Holds(up2, "HEADERS") => r.body + AllData(up2) = cs[r.call].size
      <4> SUFFICES ASSUME ~Holds(up2, "HEADERS") PROVE r.body + AllData(up2) = cs[r.call].size
        OBVIOUS
      <4>1. r.open # {} /\ r.call = Len(cs)
        BY <1>8, <2>2 DEF SendingOn
      <4>2. r.body + AllData(up) + c.left = cs[Len(cs)].size
        BY <4>1, <1>8, <2>2 DEF SendingOn
      <4>3. r.body \in Nat /\ AllData(up) \in Nat
        BY ServerNumbers, NoSuchFrames
      <4> QED BY ONLY <4>1, <4>2, <4>3, <3>1
    <3> QED BY <3>2, <3>3 DEF WholeOn
  <2> QED BY <2>1, <2>2
<1>16. PendingOn(up2, r, cs)
  <2>1. \A i \in 1..Len(up2) : up2[i].type = "HEADERS" => i \in 1..Len(up) /\ up2[i] = up[i]
    BY <1>1, <1>9
  <2> QED BY <2>1 DEF PendingOn
<1>17. LiveOn(s, up2, down, r, c2, cs)
  <2> SUFFICES ASSUME s = "up" PROVE LiveOn(s, up2, down, r, c2, cs)
    BY DEF LiveOn
  <2>1. \A i \in 1..Len(up2) : up2[i].type = "HEADERS" => i \in 1..Len(up) /\ up2[i] = up[i]
    BY <1>1, <1>9
  <2>2. /\ AllData(up2) + c2.left = AllData(up) + c.left
        /\ r.body + AllData(up2) + c2.left = r.body + AllData(up) + c.left
    <3>1. r.body \in Nat
      BY ServerNumbers
    <3>2. AllData(up2) = AllData(up) + 1 /\ AllData(up) \in Nat /\ c2.left = c.left - 1
      BY <1>5, <1>8
    <3> QED BY ONLY <3>1, <3>2, <1>6
  <2>3. c2.left # 0 => c.left # 1
    BY ONLY <1>5, <1>6
  <2>4. SendingOn(up2, r, c2, cs)
    <3>1. SendingOn(up, r, c, cs) /\ (Holds(up2, "HEADERS") <=> Holds(up, "HEADERS"))
      BY <1>8
    <3>2. c2.left # 0 => ~Ends(up2, "DATA")
      BY <2>3, <1>8
    <3>3. ~Holds(up, "HEADERS") => r.open # {}
      BY <1>8
    <3> QED BY ONLY <2>1, <2>2, <3>1, <3>2, <3>3, <1>5 DEF SendingOn
  <2>5. AnsweringOn(up2, down, r, c2, cs)
    BY <1>5, <1>8 DEF AnsweringOn, Waits
  <2> QED BY <2>4, <2>5, <1>5, <1>8 DEF LiveOn
<1>18. AnswerOn(TRUE, down, r, c2, cs)
  BY <1>5 DEF AnswerOn, AnswerFrame
<1>19. ClientCreditOn(TRUE, s, up2, down, c2)
  <2>1. ClientCreditOn(TRUE, s, up, down, c) /\ AllData(up) \in Nat
        /\ OnWire(down, "WINDOW_UPDATE", 0) \in Nat /\ (s # "up" => up2 = up) /\ c.connWindow >= 1
    BY <1>3, NoSuchFrames DEF Told
  <2> QED BY ONLY <2>1, <1>5, <1>6, <1>8, GrantIsNat DEF ClientCreditOn
<1>20. StreamCreditOn(TRUE, s, up2, down, c2)
  <2>1. OnWire(up, "DATA", c.stream) \in Nat /\ OnWire(down, "WINDOW_UPDATE", c.stream) \in Nat
        /\ (s # "up" => up2 = up) /\ c.window >= 1
    BY <1>3, NoSuchFrames DEF Told
  <2>2. s = "up" => OnWire(up2, "DATA", c.stream) = OnWire(up, "DATA", c.stream) + 1
    BY <1>1, <1>8 DEF Given, Counted
  <2>3. /\ c.window + OnWire(up, "DATA", c.stream) + OnWire(down, "WINDOW_UPDATE", c.stream) <= c.initial
        /\ s = "up" =>
             c.window + OnWire(up, "DATA", c.stream) + OnWire(down, "WINDOW_UPDATE", c.stream) = c.initial
    BY <1>6 DEF StreamCreditOn
  <2> QED BY ONLY <2>1, <2>2, <2>3, <1>5, <1>6 DEF StreamCreditOn
<1>21. ServerCreditOn(s, up2, down, r) /\ AnswerCreditOn(s, up2, down, r)
  BY <1>1, <1>3, ServerCreditKept
<1>22. SentOn(TRUE, up2, c2)
  <2>1. c.stream < c.next
    BY DEF ClientOn
  <2> QED BY <2>1, <1>1, <1>5, <1>9 DEF SentOn
<1> QED
  BY <1>7, <1>11, <1>12, <1>14, <1>15, <1>16, <1>17, <1>18, <1>19, <1>20, <1>21, <1>22

LEMMA FramesTaken ==
    ASSUME NEW ch, NEW t, NEW r, NEW c, Taken(ch, t),
           \A i \in 1..Len(ch) : AnswerFrame(ch[i], i, ch, r, c)
    PROVE  \A i \in 1..Len(t) : AnswerFrame(t[i], i, t, r, c)
<1> SUFFICES ASSUME NEW i \in 1..Len(t) PROVE AnswerFrame(t[i], i, t, r, c)
  OBVIOUS
<1>1. /\ i + 1 \in 1..Len(ch) /\ t[i] = ch[i + 1] /\ i \in Nat
      /\ Len(ch) = Len(t) + 1 /\ Len(t) \in Nat
  BY TakenAt DEF Taken
<1>2. AnswerFrame(t[i], i + 1, ch, r, c)
  BY <1>1
<1>3. ASSUME t[i].type = "HEADERS", t[i].last, NEW j \in 1..Len(t), j > i PROVE t[j].type = "GOAWAY"
  <2>1. j + 1 \in 1..Len(ch) /\ t[j] = ch[j + 1] /\ j \in Nat
    BY TakenAt
  <2>2. j + 1 > i + 1
    BY <1>1, <1>3, <2>1
  <2> QED BY <1>2, <1>3, <2>1, <2>2 DEF AnswerFrame
<1>4. t[i].type = "GOAWAY" => i = Len(t)
  BY <1>1, <1>2 DEF AnswerFrame
<1> QED
  BY <1>2, <1>3, <1>4 DEF AnswerFrame

\* The client reads credit, SETTINGS or the end of the connection: of its call
\* nothing changes.
LEMMA ClientTakes ==
    ASSUME NEW s, NEW up, NEW down, NEW r, NEW c, NEW cs,
           Typed(TRUE, s, up, down, r, c, cs), ConnOn(TRUE, s, up, down, r, c, cs), ClientOn(c, cs),
           c.pc # "idle",
           NEW f, f = down[1], f.type \in {"WINDOW_UPDATE", "SETTINGS", "GOAWAY"},
           f.type = "GOAWAY" => c.seen,
           NEW down2, Taken(down, down2),
           NEW c2 \in ClientEnd,
           c2.pc = c.pc, c2.conn = c.conn, c2.next = c.next, c2.stream = c.stream,
           c2.left = c.left, c2.seen = c.seen, c2.got = c.got,
           ClientCreditOn(TRUE, s, up, down2, c2), StreamCreditOn(TRUE, s, up, down2, c2)
    PROVE  ConnOn(TRUE, s, up, down2, r, c2, cs) /\ ClientOn(c2, cs)
<1> USE DEF Typed, ConnOn, ThreadOn, CreditOn
<1>1. /\ f \in Frame /\ 1 \in 1..Len(down) /\ down2 \in Seq(Frame)
  BY DEF Taken
<1>6. /\ AllData(down) = AllData(down2)
      /\ \A t : OnWire(down, "DATA", t) = OnWire(down2, "DATA", t)
      /\ Ends(down2, "HEADERS") <=> Ends(down, "HEADERS")
      /\ Holds(down2, "HEADERS") <=> Holds(down, "HEADERS")
      /\ Holds(down2, "DATA") <=> Holds(down, "DATA")
      /\ Holds(down2, "GOAWAY") => Holds(down, "GOAWAY")
  BY DEF Taken, Counted
<1>11. SocketOn(TRUE, s, up, down2, r)
  <2>1. s \notin {"none", "broken"}
    BY <1>1 DEF SocketOn
  <2> QED BY <2>1 DEF SocketOn
<1>12. SettingsUp(up, r) /\ SettingsDown(TRUE, down2, c2)
  BY SettingsTaken
<1>17. LiveOn(s, up, down2, r, c2, cs)
  <2> SUFFICES ASSUME s = "up" PROVE LiveOn(s, up, down2, r, c2, cs)
    BY DEF LiveOn
  <2>1. SendingOn(up, r, c2, cs)
    BY DEF LiveOn, SendingOn
  <2>2. AnsweringOn(up, down2, r, c2, cs)
    BY <1>6 DEF LiveOn, AnsweringOn
  <2> QED BY <2>1, <2>2 DEF LiveOn
<1>18. AnswerOn(TRUE, down2, r, c2, cs)
  <2>1. \A i \in 1..Len(down2) : AnswerFrame(down2[i], i, down2, r, c)
    BY FramesTaken DEF AnswerOn
  <2>2. \A i \in 1..Len(down2) : AnswerFrame(down2[i], i, down2, r, c2)
    BY <2>1 DEF AnswerFrame
  <2>3. AnswerOn(TRUE, down, r, c, cs)
    OBVIOUS
  <2>4. c2.pc = c.pc /\ c2.seen = c.seen /\ c2.got = c.got
    OBVIOUS
  <2> QED BY ONLY <2>2, <2>3, <2>4, <1>6 DEF AnswerOn
<1>19. SentOn(TRUE, up, c2)
  BY DEF SentOn
<1>20. ServerCreditOn(s, up, down2, r) /\ AnswerCreditOn(s, up, down2, r)
  BY <1>6 DEF ServerCreditOn, AnswerCreditOn
<1>21. ClientOn(c2, cs)
  <2>1. c.stream # 0 /\ c.conn # 0
    BY DEF ClientOn
  <2>2. c2.window <= c2.initial
    <3>1. OnWire(up, "DATA", c2.stream) \in Nat /\ OnWire(down2, "WINDOW_UPDATE", c2.stream) \in Nat
          /\ c2.window \in Nat /\ c2.initial \in Nat
      BY <1>1, NoSuchFrames, ClientNumbers
    <3>2. c2.window + OnWire(up, "DATA", c2.stream) + OnWire(down2, "WINDOW_UPDATE", c2.stream)
            <= c2.initial
      BY <2>1 DEF StreamCreditOn
    <3> QED BY ONLY <3>1, <3>2
  <2> QED BY <2>1, <2>2 DEF ClientOn
<1> QED
  BY <1>11, <1>12, <1>17, <1>18, <1>19, <1>20, <1>21

LEMMA ClientTakesSettings ==
    ASSUME NEW s, NEW up, NEW down, NEW r, NEW c, NEW cs,
           Typed(TRUE, s, up, down, r, c, cs), ConnOn(TRUE, s, up, down, r, c, cs), ClientOn(c, cs),
           c.pc # "idle",
           NEW f, f = down[1], f.type = "SETTINGS",
           NEW down2, Taken(down, down2),
           NEW c2 \in ClientEnd,
           c2 = [c EXCEPT !.initial = Window + f.n, !.window = @ + (Window + f.n - c.initial)]
    PROVE  ConnOn(TRUE, s, up, down2, r, c2, cs) /\ ClientOn(c2, cs)
<1>1. /\ f \in Frame /\ 1 \in 1..Len(down) /\ f.n = Raise /\ f.type \in {"WINDOW_UPDATE", "SETTINGS", "GOAWAY"}
  BY DEF Taken, Frame
<1>2. c.initial = Window
  BY <1>1 DEF ConnOn, SettingsDown
<1>3. /\ c2.pc = c.pc /\ c2.conn = c.conn /\ c2.next = c.next /\ c2.stream = c.stream
      /\ c2.left = c.left /\ c2.seen = c.seen /\ c2.got = c.got
      /\ c2.connWindow = c.connWindow /\ c2.initial = Window + Raise
      /\ c2.window = c.window + (Window + Raise - c.initial)
  BY <1>1 DEF Typed, ClientEnd
<1>4. \A st : OnWire(down2, "WINDOW_UPDATE", st) = OnWire(down, "WINDOW_UPDATE", st)
              /\ OnWire(down2, "WINDOW_UPDATE", st) \in Nat
  BY DEF Taken, Counted
<1>5. c.window \in Nat /\ OnWire(up, "DATA", c.stream) \in Nat
  BY ClientNumbers, NoSuchFrames DEF Typed
<1>6. ClientCreditOn(TRUE, s, up, down2, c2)
  BY <1>3, <1>4 DEF ConnOn, CreditOn, ClientCreditOn
<1>7. StreamCreditOn(TRUE, s, up, down2, c2)
  <2>1. StreamCreditOn(TRUE, s, up, down, c)
    BY DEF ConnOn, CreditOn
  <2> QED BY ONLY <2>1, <1>2, <1>3, <1>4, <1>5, GrantIsNat DEF StreamCreditOn
<1>8. f.type = "GOAWAY" => c.seen
  OBVIOUS
<1> QED
  BY <1>1, <1>3, <1>6, <1>7, <1>8, ClientTakes

LEMMA ClientTakesCredit ==
    ASSUME NEW s, NEW up, NEW down, NEW r, NEW c, NEW cs,
           Typed(TRUE, s, up, down, r, c, cs), ConnOn(TRUE, s, up, down, r, c, cs), ClientOn(c, cs),
           c.pc # "idle",
           NEW f, f = down[1], f.type = "WINDOW_UPDATE",
           NEW down2, Taken(down, down2),
           NEW c2 \in ClientEnd,
           c2 = IF f.stream = 0 THEN [c EXCEPT !.connWindow = @ + f.n]
                                ELSE [c EXCEPT !.window = @ + f.n]
    PROVE  ConnOn(TRUE, s, up, down2, r, c2, cs) /\ ClientOn(c2, cs)
<1>1. /\ f \in Frame /\ 1 \in 1..Len(down) /\ f.n \in Nat /\ f.type \in {"WINDOW_UPDATE", "SETTINGS", "GOAWAY"}
  BY FrameNumbers DEF Taken
<1>2. f.stream # 0 => f.stream = c.stream
  BY <1>1 DEF ConnOn, AnswerOn, AnswerFrame
<1>3. /\ c2.pc = c.pc /\ c2.conn = c.conn /\ c2.next = c.next /\ c2.stream = c.stream
      /\ c2.left = c.left /\ c2.seen = c.seen /\ c2.got = c.got /\ c2.initial = c.initial
      /\ f.stream = 0 => c2.connWindow = c.connWindow + f.n /\ c2.window = c.window
      /\ f.stream # 0 => c2.connWindow = c.connWindow /\ c2.window = c.window + f.n
  BY <1>1 DEF Typed, ClientEnd
<1>4. \A st : /\ OnWire(down2, "WINDOW_UPDATE", st) \in Nat
              /\ OnWire(down, "WINDOW_UPDATE", st) = OnWire(down2, "WINDOW_UPDATE", st) +
                   (IF f.stream = st THEN f.n ELSE 0)
  BY DEF Taken, Counted
<1>5. /\ c.window \in Nat /\ c.connWindow \in Nat /\ c.initial \in Nat
      /\ OnWire(up, "DATA", c.stream) \in Nat /\ AllData(up) \in Nat /\ c.stream # 0
  BY ClientNumbers, NoSuchFrames DEF Typed, ClientOn
<1>6. ClientCreditOn(TRUE, s, up, down2, c2)
  <2>1. ClientCreditOn(TRUE, s, up, down, c)
    BY DEF ConnOn, CreditOn
  <2>2. OnWire(down2, "WINDOW_UPDATE", 0) \in Nat
        /\ c2.connWindow + AllData(up) + OnWire(down2, "WINDOW_UPDATE", 0)
            = c.connWindow + AllData(up) + OnWire(down, "WINDOW_UPDATE", 0)
    BY ONLY <1>1, <1>3, <1>4, <1>5
  <2> QED BY ONLY <2>1, <2>2 DEF ClientCreditOn
<1>7. StreamCreditOn(TRUE, s, up, down2, c2)
  <2>1. StreamCreditOn(TRUE, s, up, down, c)
    BY DEF ConnOn, CreditOn
  <2>2. OnWire(down2, "WINDOW_UPDATE", c.stream) \in Nat
        /\ c2.window + OnWire(up, "DATA", c.stream) + OnWire(down2, "WINDOW_UPDATE", c.stream)
            = c.window + OnWire(up, "DATA", c.stream) + OnWire(down, "WINDOW_UPDATE", c.stream)
    BY ONLY <1>1, <1>2, <1>3, <1>4, <1>5
  <2> QED BY ONLY <2>1, <2>2, <1>3 DEF StreamCreditOn
<1>8. f.type = "GOAWAY" => c.seen
  OBVIOUS
<1> QED
  BY <1>1, <1>3, <1>6, <1>7, <1>8, ClientTakes

LEMMA ClientTakesGoaway ==
    ASSUME NEW s, NEW up, NEW down, NEW r, NEW c, NEW cs,
           Typed(TRUE, s, up, down, r, c, cs), ConnOn(TRUE, s, up, down, r, c, cs), ClientOn(c, cs),
           c.pc # "idle", c.seen,
           NEW f, f = down[1], f.type = "GOAWAY",
           NEW down2, Taken(down, down2),
           NEW c2 \in ClientEnd,
           c2 = [c EXCEPT !.goaway = TRUE]
    PROVE  ConnOn(TRUE, s, up, down2, r, c2, cs) /\ ClientOn(c2, cs)
<1>1. f \in Frame /\ f.type \in {"WINDOW_UPDATE", "SETTINGS", "GOAWAY"}
  BY DEF Taken
<1>3. /\ c2.pc = c.pc /\ c2.conn = c.conn /\ c2.next = c.next /\ c2.stream = c.stream
      /\ c2.left = c.left /\ c2.seen = c.seen /\ c2.got = c.got
      /\ c2.connWindow = c.connWindow /\ c2.initial = c.initial /\ c2.window = c.window
  BY <1>1 DEF Typed, ClientEnd
<1>4. \A st : OnWire(down2, "WINDOW_UPDATE", st) = OnWire(down, "WINDOW_UPDATE", st)
  BY DEF Taken, Counted
<1>6. ClientCreditOn(TRUE, s, up, down2, c2) /\ StreamCreditOn(TRUE, s, up, down2, c2)
  BY <1>3, <1>4 DEF ConnOn, CreditOn, ClientCreditOn, StreamCreditOn
<1> QED
  BY <1>1, <1>3, <1>6, ClientTakes

\* The answer begins.
LEMMA AnswerBegins ==
    ASSUME NEW s, NEW up, NEW down, NEW r, NEW c, NEW cs,
           Typed(TRUE, s, up, down, r, c, cs), ConnOn(TRUE, s, up, down, r, c, cs), ClientOn(c, cs),
           c.pc = "reading",
           NEW f, f = down[1], f.type = "HEADERS", ~f.last,
           NEW down2, Taken(down, down2),
           NEW c2 \in ClientEnd, c2 = [c EXCEPT !.seen = TRUE]
    PROVE  ConnOn(TRUE, s, up, down2, r, c2, cs) /\ ClientOn(c2, cs)
<1> USE DEF Typed, ConnOn, ThreadOn, CreditOn
<1>1. /\ f \in Frame /\ 1 \in 1..Len(down) /\ down2 \in Seq(Frame)
  BY DEF Taken
<1>2. /\ c2.pc = c.pc /\ c2.conn = c.conn /\ c2.next = c.next /\ c2.stream = c.stream
      /\ c2.left = c.left /\ c2.seen = TRUE /\ c2.got = c.got
      /\ c2.connWindow = c.connWindow /\ c2.initial = c.initial /\ c2.window = c.window
  BY <1>1 DEF ClientEnd
<1>3. Holds(down, "HEADERS")
  BY <1>1 DEF Holds
<1>6. /\ AllData(down) = AllData(down2)
      /\ \A t : OnWire(down, "DATA", t) = OnWire(down2, "DATA", t)
      /\ \A t : OnWire(down, "WINDOW_UPDATE", t) = OnWire(down2, "WINDOW_UPDATE", t)
      /\ Ends(down2, "HEADERS") <=> Ends(down, "HEADERS")
  BY DEF Taken, Counted
<1>11. SocketOn(TRUE, s, up, down2, r)
  <2>1. s \notin {"none", "broken"}
    BY <1>1 DEF SocketOn
  <2> QED BY <2>1 DEF SocketOn
<1>12. SettingsUp(up, r) /\ SettingsDown(TRUE, down2, c2)
  BY SettingsTaken
<1>17. LiveOn(s, up, down2, r, c2, cs)
  <2> SUFFICES ASSUME s = "up" PROVE LiveOn(s, up, down2, r, c2, cs)
    BY DEF LiveOn
  <2>1. SendingOn(up, r, c2, cs)
    BY <1>2 DEF LiveOn, SendingOn
  <2>2. AnsweringOn(up, down2, r, c2, cs)
    BY <1>2, <1>3, <1>6 DEF LiveOn, AnsweringOn
  <2> QED BY <2>1, <2>2, <1>2 DEF LiveOn
<1>18. AnswerOn(TRUE, down2, r, c2, cs)
  <2>1. \A i \in 1..Len(down2) : AnswerFrame(down2[i], i, down2, r, c)
    BY FramesTaken DEF AnswerOn
  <2>2. \A i \in 1..Len(down2) : AnswerFrame(down2[i], i, down2, r, c2)
    BY <2>1, <1>2 DEF AnswerFrame
  <2>3. AnswerOn(TRUE, down, r, c, cs) /\ c.pc = "reading"
    OBVIOUS
  <2> QED BY ONLY <2>2, <2>3, <1>2, <1>6 DEF AnswerOn
<1>19. SentOn(TRUE, up, c2)
  BY <1>2 DEF SentOn
<1>20. ServerCreditOn(s, up, down2, r) /\ AnswerCreditOn(s, up, down2, r)
  BY <1>6 DEF ServerCreditOn, AnswerCreditOn
<1>21. ClientCreditOn(TRUE, s, up, down2, c2) /\ StreamCreditOn(TRUE, s, up, down2, c2)
  BY <1>2, <1>6 DEF ClientCreditOn, StreamCreditOn
<1>22. ClientOn(c2, cs)
  BY <1>2 DEF ClientOn
<1> QED
  BY <1>11, <1>12, <1>17, <1>18, <1>19, <1>20, <1>21, <1>22

\* The answer ends, and with it the call: it is whole, and its handler has run.
LEMMA AnswerEnds ==
    ASSUME NEW s, NEW up, NEW down, NEW r, NEW c, NEW cs,
           Typed(TRUE, s, up, down, r, c, cs), ConnOn(TRUE, s, up, down, r, c, cs), ClientOn(c, cs),
           c.pc = "reading", Len(cs) # 0,
           NEW f, f = down[1], f.type = "HEADERS", f.last,
           NEW down2, Taken(down, down2),
           NEW cs2 \in Seq(Call), NEW outcome \in {"ok", "error"},
           cs2 = [cs EXCEPT ![Len(cs)] = [cs[Len(cs)] EXCEPT !.outcome = outcome, !.got = c.got]],
           NEW c2 \in ClientEnd, c2 = [c EXCEPT !.pc = "idle"]
    PROVE  /\ ConnOn(TRUE, s, up, down2, r, c2, cs2) /\ ClientOn(c2, cs2)
           /\ True(cs2[Len(cs)])
<1> USE DEF Typed, ConnOn, CreditOn
<1>1. /\ f \in Frame /\ 1 \in 1..Len(down) /\ down2 \in Seq(Frame) /\ down \in Seq(Frame)
  BY DEF Taken
<1>2. /\ c2.pc = "idle" /\ c2.conn = c.conn /\ c2.next = c.next /\ c2.stream = c.stream
      /\ c2.left = c.left /\ c2.seen = c.seen /\ c2.got = c.got
      /\ c2.connWindow = c.connWindow /\ c2.initial = c.initial /\ c2.window = c.window
  BY DEF ClientEnd
<1> DEFINE n == Len(cs)
           v == [cs[n] EXCEPT !.outcome = outcome, !.got = c.got]
<1>3. n \in 1..Len(cs) /\ n \in Nat /\ cs[n] \in Call
  OBVIOUS
<1>4. /\ v.size = cs[n].size /\ v.reply = cs[n].reply /\ v.ran = cs[n].ran
      /\ v.outcome = outcome /\ v.got = c.got
  BY <1>3 DEF Call
<1>5. cs2 = [cs EXCEPT ![n] = v]
  OBVIOUS
<1> HIDE DEF v
<1>6. /\ Len(cs2) = n /\ cs2[n] = v
      /\ \A x \in 1..Len(cs) : x # n => cs2[x] = cs[x]
  <2>1. cs \in Seq(Call)
    OBVIOUS
  <2> QED BY ONLY <1>3, <1>5, <2>1, Changed
<1>7. Holds(down, "HEADERS") /\ Ends(down, "HEADERS")
  BY <1>1 DEF Holds, Ends
<1>8. \A i \in 1..Len(down2) : down2[i].type = "GOAWAY"
  <2> SUFFICES ASSUME NEW i \in 1..Len(down2) PROVE down2[i].type = "GOAWAY"
    OBVIOUS
  <2>1. i + 1 \in 1..Len(down) /\ down2[i] = down[i + 1] /\ i + 1 > 1
    BY TakenAt
  <2>2. AnswerFrame(f, 1, down, r, c)
    BY <1>1 DEF AnswerOn
  <2> QED BY <2>1, <2>2 DEF AnswerFrame
<1>9. /\ AllData(down2) = 0 /\ AllData(down) = 0
      /\ \A t : OnWire(down, "DATA", t) = OnWire(down2, "DATA", t)
      /\ \A t : OnWire(down, "WINDOW_UPDATE", t) = OnWire(down2, "WINDOW_UPDATE", t)
      /\ ~Ends(down2, "HEADERS") /\ ~Holds(down2, "HEADERS") /\ ~Holds(down2, "DATA")
  <2>1. ~Ends(down2, "HEADERS") /\ ~Holds(down2, "HEADERS") /\ ~Holds(down2, "DATA")
    BY <1>8 DEF Ends, Holds
  <2>2. AllData(down2) = 0
    BY <2>1, <1>1, NoSuchFrames
  <2>3. AllData(down) = AllData(down2)
    BY DEF Taken
  <2> QED BY <2>1, <2>2, <2>3 DEF Taken, Counted
<1>10. cs[n].ran = 1 /\ c.got = cs[n].reply
  <2>1. cs[n].ran = 1 /\ c.got + AllData(down) = cs[n].reply
    BY <1>7 DEF AnswerOn
  <2>2. c.got \in Nat
    BY ClientNumbers
  <2> QED BY ONLY <2>1, <2>2, <1>9
<1>11. SocketOn(TRUE, s, up, down2, r)
  <2>1. s \notin {"none", "broken"}
    BY <1>1 DEF SocketOn
  <2> QED BY <2>1 DEF SocketOn
<1>12. SettingsUp(up, r) /\ SettingsDown(TRUE, down2, c2)
  BY SettingsTaken
<1>13. ThreadOn(up, r, cs2)
  <2>1. /\ Len(cs) <= Len(cs2)
        /\ \A x \in 1..Len(cs) : /\ cs2[x].size = cs[x].size /\ cs2[x].ran = cs[x].ran
                                 /\ NotRun(cs[x]) => NotRun(cs2[x])
    BY <1>3, <1>4, <1>6, <1>10 DEF NotRun
  <2>2. up \in Seq(Frame) /\ r \in ServerEnd /\ cs \in Seq(Call) /\ ThreadOn(up, r, cs)
    OBVIOUS
  <2> QED BY ONLY <2>1, <2>2, cs2 \in Seq(Call), ThreadKept
<1>14. LiveOn(s, up, down2, r, c2, cs2)
  <2> SUFFICES ASSUME s = "up" PROVE LiveOn(s, up, down2, r, c2, cs2)
    BY DEF LiveOn
  <2>1. AnsweringOn(up, down, r, c, cs) /\ r.stream < c.next
    BY DEF LiveOn
  <2>2. ~Waits(up, r) /\ r.pc # "answering"
    BY <2>1, <1>7 DEF AnsweringOn
  <2>3. r.pc \in {"none", "reading", "handling", "answering", "closed"} /\ r.pc \notin {"none", "closed"}
    BY DEF ServerEnd, SocketOn
  <2>4. r.pc = "reading"
    BY <2>2, <2>3 DEF Waits
  <2> QED BY <2>1, <2>2, <2>4, <1>2 DEF LiveOn
<1>18. AnswerOn(TRUE, down2, r, c2, cs2)
  <2>1. \A i \in 1..Len(down2) : AnswerFrame(down2[i], i, down2, r, c)
    BY FramesTaken DEF AnswerOn
  <2>2. \A i \in 1..Len(down2) : down2[i].stream = 0
    BY <1>1, <1>8 DEF Frame
  <2>3. \A i \in 1..Len(down2) : AnswerFrame(down2[i], i, down2, r, c2)
    BY <2>1, <2>2, <1>2 DEF AnswerFrame
  <2> QED BY ONLY <2>3, <1>2, <1>9 DEF AnswerOn
<1>19. SentOn(TRUE, up, c2)
  BY <1>2 DEF SentOn
<1>20. ServerCreditOn(s, up, down2, r) /\ AnswerCreditOn(s, up, down2, r)
  BY <1>9 DEF ServerCreditOn, AnswerCreditOn
<1>21. ClientCreditOn(TRUE, s, up, down2, c2) /\ StreamCreditOn(TRUE, s, up, down2, c2)
  BY <1>2, <1>9 DEF ClientCreditOn, StreamCreditOn
<1>22. ClientOn(c2, cs2)
  BY <1>2, <1>6 DEF ClientOn
<1>23. True(cs2[n])
  BY <1>4, <1>6, <1>10 DEF True
<1> QED
  BY <1>11, <1>12, <1>13, <1>14, <1>18, <1>19, <1>20, <1>21, <1>22, <1>23

\* The client gives back the credit of one frame, to the connection and the stream.
Returns(s, up, up2, id) ==
    /\ Repaid(up, up2, id)
    /\ s # "up" => up2 = up
    /\ s = "up" =>
         /\ OnWire(up2, "WINDOW_UPDATE", 0) = OnWire(up, "WINDOW_UPDATE", 0) + 1
         /\ OnWire(up2, "WINDOW_UPDATE", id) = OnWire(up, "WINDOW_UPDATE", id) + 1

\* A frame of the answer: both credits go back.
LEMMA AnswerGoesOn ==
    ASSUME NEW s, NEW up, NEW down, NEW r, NEW c, NEW cs,
           Typed(TRUE, s, up, down, r, c, cs), ConnOn(TRUE, s, up, down, r, c, cs), ClientOn(c, cs),
           c.pc = "reading",
           NEW f, f = down[1], f.type = "DATA", f.stream = c.stream,
           NEW down2, Taken(down, down2),
           NEW up2, Returns(s, up, up2, f.stream),
           NEW got, got = c.got + f.n,
           NEW c2 \in ClientEnd, c2 = [c EXCEPT !.got = got]
    PROVE  ConnOn(TRUE, s, up2, down2, r, c2, cs) /\ ClientOn(c2, cs)
<1> USE DEF Typed, ConnOn, ThreadOn, CreditOn
<1>1. /\ f \in Frame /\ 1 \in 1..Len(down) /\ down2 \in Seq(Frame)
  BY DEF Taken
<1>2. f.n = 1 /\ f.stream # 0
  BY <1>1 DEF Frame
<1> USE DEF Returns
<1>3. /\ c2.pc = c.pc /\ c2.conn = c.conn /\ c2.next = c.next /\ c2.stream = c.stream
      /\ c2.left = c.left /\ c2.seen = c.seen /\ c2.got = c.got + 1
      /\ c2.connWindow = c.connWindow /\ c2.initial = c.initial /\ c2.window = c.window
  BY <1>2 DEF ClientEnd
<1>4. Holds(down, "DATA")
  BY <1>1 DEF Holds
<1>6. /\ AllData(down) = AllData(down2) + 1 /\ AllData(down2) \in Nat
      /\ OnWire(down, "DATA", f.stream) = OnWire(down2, "DATA", f.stream) + 1
      /\ OnWire(down2, "DATA", f.stream) \in Nat
      /\ \A t : OnWire(down, "WINDOW_UPDATE", t) = OnWire(down2, "WINDOW_UPDATE", t)
      /\ Ends(down2, "HEADERS") <=> Ends(down, "HEADERS")
      /\ Holds(down2, "HEADERS") <=> Holds(down, "HEADERS")
      /\ Holds(down2, "GOAWAY") <=> Holds(down, "GOAWAY")
  BY <1>2 DEF Taken, Counted
<1>7. s = "up" => /\ ~Waits(up, r) /\ ~Holds(up, "HEADERS") /\ r.stream = c.stream
                  /\ SendingOn(up, r, c, cs) /\ AnsweringOn(up, down, r, c, cs) /\ r.stream < c.next
  <2> SUFFICES ASSUME s = "up"
               PROVE  /\ ~Waits(up, r) /\ ~Holds(up, "HEADERS") /\ r.stream = c.stream
                      /\ SendingOn(up, r, c, cs) /\ AnsweringOn(up, down, r, c, cs) /\ r.stream < c.next
    OBVIOUS
  <2>1. SendingOn(up, r, c, cs) /\ AnsweringOn(up, down, r, c, cs) /\ r.stream < c.next
    BY DEF LiveOn
  <2>2. ~Waits(up, r)
    BY <2>1, <1>4 DEF AnsweringOn
  <2> QED BY <2>1, <2>2 DEF Waits, SendingOn
<1>8. /\ Holds(up2, "HEADERS") <=> Holds(up, "HEADERS")
      /\ Ends(up2, "DATA") <=> Ends(up, "DATA")
      /\ AllData(up2) = AllData(up)
      /\ \A st : OnWire(up2, "DATA", st) = OnWire(up, "DATA", st)
      /\ \A i \in 1..Len(up2) :
           \/ i \in 1..Len(up) /\ up2[i] = up[i]
           \/ up2[i].type = "WINDOW_UPDATE" /\ up2[i].stream \in {0, f.stream}
  BY DEF Repaid
<1>9. \A i \in 1..Len(up2) : up2[i].type = "HEADERS" => i \in 1..Len(up) /\ up2[i] = up[i]
  BY <1>8
<1>11. SocketOn(TRUE, s, up2, down2, r)
  <2>1. s \notin {"none", "broken"}
    BY <1>1 DEF SocketOn
  <2> QED BY <2>1 DEF SocketOn
<1>12. SettingsUp(up2, r) /\ SettingsDown(TRUE, down2, c2)
  <2>1. SettingsUp(up, r) /\ Repaid(up, up2, f.stream)
    OBVIOUS
  <2>2. SettingsUp(up2, r)
    BY ONLY <2>1, SettingsRepaid
  <2> QED BY <2>2, SettingsTaken
<1>14. RequestOn(up2, r, cs)
  <2>1. CASE s # "up"
    BY <2>1
  <2>2. CASE s = "up"
    <3>1. Ordered(up2)
      BY OrderRepaid DEF RequestOn
    <3>2. ASSUME NEW i \in 1..Len(up2) PROVE FrameOn(up2[i], up2, r, cs)
      <4>1. CASE i \in 1..Len(up) /\ up2[i] = up[i]
        <5>1. FrameOn(up[i], up, r, cs)
          BY <4>1 DEF RequestOn
        <5> QED BY <4>1, <5>1, <1>8 DEF FrameOn
      <4>2. CASE up2[i].type = "WINDOW_UPDATE" /\ up2[i].stream \in {0, f.stream}
        <5>1. up2[i].stream <= r.stream
          <6>1. r.stream \in Nat /\ f.stream = r.stream
            BY <2>2, <1>7, ServerNumbers
          <6> QED BY ONLY <6>1, <4>2
        <5> QED BY <4>2, <5>1 DEF FrameOn
      <4> QED BY <4>1, <4>2, <1>8
    <3> QED BY <3>1, <3>2 DEF RequestOn
  <2> QED BY <2>1, <2>2
<1>15. WholeOn(up2, r, cs) /\ PendingOn(up2, r, cs)
  BY <1>8, <1>9 DEF WholeOn, PendingOn
<1>17. LiveOn(s, up2, down2, r, c2, cs)
  <2> SUFFICES ASSUME s = "up" PROVE LiveOn(s, up2, down2, r, c2, cs)
    BY DEF LiveOn
  <2>1. SendingOn(up2, r, c2, cs)
    BY <1>3, <1>7, <1>8, <1>9 DEF SendingOn
  <2>2. ~Waits(up2, r)
    BY <1>7, <1>8 DEF Waits
  <2>3. c2.got + AllData(down2) + r.left = c.got + AllData(down) + r.left
    <3>1. c.got \in Nat /\ r.left \in Nat
      BY ClientNumbers, ServerNumbers
    <3> QED BY ONLY <3>1, <1>3, <1>6
  <2>4. AnsweringOn(up2, down2, r, c2, cs)
    BY <2>2, <2>3, <1>3, <1>6, <1>7 DEF AnsweringOn
  <2> QED BY <2>1, <2>4, <1>3, <1>7 DEF LiveOn
<1>18. AnswerOn(TRUE, down2, r, c2, cs)
  <2>1. \A i \in 1..Len(down2) : AnswerFrame(down2[i], i, down2, r, c)
    BY FramesTaken DEF AnswerOn
  <2>2. \A i \in 1..Len(down2) : AnswerFrame(down2[i], i, down2, r, c2)
    BY <2>1, <1>3 DEF AnswerFrame
  <2>3. AnswerOn(TRUE, down, r, c, cs) /\ c.pc = "reading"
    OBVIOUS
  <2>4. c2.got + AllData(down2) = c.got + AllData(down)
    <3>1. c.got \in Nat
      BY ClientNumbers
    <3> QED BY ONLY <3>1, <1>3, <1>6
  <2> QED BY ONLY <2>2, <2>3, <2>4, <1>3, <1>6 DEF AnswerOn
<1>19. SentOn(TRUE, up2, c2)
  <2>1. c.next \in Nat /\ c.next # 0 /\ c.stream < c.next /\ f.stream = c.stream
    BY ClientNumbers DEF ClientOn
  <2>2. \A i \in 1..Len(up) : up[i].stream < c.next
    BY DEF SentOn
  <2> QED BY ONLY <2>1, <2>2, <1>3, <1>8 DEF SentOn
<1>20. ClientCreditOn(TRUE, s, up2, down2, c2) /\ StreamCreditOn(TRUE, s, up2, down2, c2)
  BY <1>3, <1>6, <1>8 DEF ClientCreditOn, StreamCreditOn
<1>21. ServerCreditOn(s, up2, down2, r)
  <2>1. OnWire(up, "WINDOW_UPDATE", 0) \in Nat /\ r.connWindow \in Nat
    BY NoSuchFrames, ServerNumbers
  <2>2. /\ s = "up" => OnWire(up2, "WINDOW_UPDATE", 0) = OnWire(up, "WINDOW_UPDATE", 0) + 1
        /\ s # "up" => OnWire(up2, "WINDOW_UPDATE", 0) = OnWire(up, "WINDOW_UPDATE", 0)
        /\ ServerCreditOn(s, up, down, r)
    OBVIOUS
  <2> QED BY ONLY <2>1, <2>2, <1>6, GrantIsNat DEF ServerCreditOn
<1>22. AnswerCreditOn(s, up2, down2, r)
  <2> SUFFICES ASSUME s = "up", r.pc \in {"handling", "answering"} \/ r.open # {}
               PROVE  AnswerCreditOn(s, up2, down2, r)
    BY DEF AnswerCreditOn
  <2>1. /\ r.stream = f.stream /\ OnWire(up, "WINDOW_UPDATE", r.stream) \in Nat
        /\ r.stream # 0 /\ r.stream \in 0..MaxCalls /\ r.window \in [Streams -> Int]
    BY <1>2, <1>7, NoSuchFrames, ServerNumbers
  <2>2. r.window[r.stream] \in Int
    BY <2>1, Http2Assumption DEF Streams
  <2>3. r.window[r.stream] + OnWire(down, "DATA", r.stream) + OnWire(up, "WINDOW_UPDATE", r.stream)
          = r.initial
    BY DEF AnswerCreditOn
  <2>4. OnWire(up2, "WINDOW_UPDATE", r.stream) = OnWire(up, "WINDOW_UPDATE", r.stream) + 1
    BY <2>1
  <2>5. r.window[r.stream] + OnWire(down2, "DATA", r.stream) + OnWire(up2, "WINDOW_UPDATE", r.stream)
          = r.initial
    BY ONLY <2>1, <2>2, <2>3, <2>4, <1>6
  <2> QED BY <2>5 DEF AnswerCreditOn
<1>23. ClientOn(c2, cs)
  BY <1>3 DEF ClientOn
<1> QED
  BY <1>11, <1>12, <1>14, <1>15, <1>17, <1>18, <1>19, <1>20, <1>21, <1>22, <1>23

-----------------------------------------------------------------------------
(* From one connection to all of them.                                     *)

\* The client's own connection does not notice what becomes of other calls.
LEMMA OwnKept ==
    ASSUME NEW s, NEW up, NEW down, NEW r, NEW c, NEW cs, NEW cs2 \in Seq(Call),
           Typed(TRUE, s, up, down, r, c, cs), ConnOn(TRUE, s, up, down, r, c, cs),
           Len(cs2) = Len(cs),
           \A x \in 1..Len(cs) : Wanted(x, up, r) => cs2[x] = cs[x],
           c.pc # "idle" => cs2[Len(cs)] = cs[Len(cs)]
    PROVE  ConnOn(TRUE, s, up, down, r, c, cs2)
<1> USE DEF Typed, ConnOn, CreditOn
<1>1. ThreadOn(up, r, cs2)
  <2>1. Len(cs) <= Len(cs2)
    OBVIOUS
  <2>2. up \in Seq(Frame) /\ r \in ServerEnd /\ cs \in Seq(Call) /\ cs2 \in Seq(Call) /\ ThreadOn(up, r, cs)
    OBVIOUS
  <2>3. \A x \in 1..Len(cs) : Wanted(x, up, r) =>
              /\ cs2[x].size = cs[x].size /\ cs2[x].ran = cs[x].ran
              /\ r.pc # "closed" /\ NotRun(cs[x]) => NotRun(cs2[x])
    OBVIOUS
  <2> QED BY ONLY <2>1, <2>2, <2>3, ThreadKept
<1>2. LiveOn(s, up, down, r, c, cs2)
  BY DEF LiveOn, SendingOn, AnsweringOn
<1>3. AnswerOn(TRUE, down, r, c, cs2)
  <2>1. CASE c.pc # "idle"
    BY <2>1 DEF AnswerOn
  <2>2. CASE c.pc = "idle"
    <3>1. \A i \in 1..Len(down) : down[i].stream = 0 /\ down[i] \in Frame
      BY <2>2 DEF AnswerOn, AnswerFrame
    <3>2. ~Ends(down, "HEADERS")
      BY <3>1 DEF Ends, Frame
    <3> QED BY <2>2, <3>2 DEF AnswerOn
  <2> QED BY <2>1, <2>2
<1> QED BY <1>1, <1>2, <1>3

\* A step of one thread, or of the client on its connection, that is right for that
\* connection is right for all of them.
LEMMA Step ==
    ASSUME HttpInv,
           NEW k \in Conns, NEW s2 \in {"none", "up", "shut", "gone", "broken"},
           NEW up2 \in Seq(Frame), NEW down2 \in Seq(Frame), NEW r2 \in ServerEnd,
           NEW c2 \in ClientEnd, NEW cs2 \in Seq(Call), Len(cs2) <= MaxCalls,
           socket' = [socket EXCEPT ![k] = s2],
           toServer' = [toServer EXCEPT ![k] = up2], toClient' = [toClient EXCEPT ![k] = down2],
           srv' = [srv EXCEPT ![k] = r2], cl' = c2, calls' = cs2,
           breaks' \in Nat, stopping' \in BOOLEAN,
           ConnOn(k = c2.conn, s2, up2, down2, r2, c2, cs2), ClientOn(c2, cs2),
           c2.conn = cl.conn, c2 = cl \/ k = cl.conn,
           c2.pc # "idle" => cl.pc # "idle" \/ Len(cs2) > Len(calls),
           Len(cs2) = Len(calls) \/ (k = cl.conn /\ Len(cs2) = Len(calls) + 1),
           \A x \in 1..Len(calls) : Wanted(x, up2, r2) => Asked(x, k),
           \A x \in 1..Len(calls) : cs2[x] # calls[x] =>
              /\ True(cs2[x])
              /\ Asked(x, k) \/ (x = Len(calls) /\ k = cl.conn /\ cl.pc # "idle"),
           Len(cs2) > Len(calls) => True(cs2[Len(cs2)])
    PROVE  HttpInv'
<1> USE DEF HttpInv
<1>1. WireTypeOK'
  BY DEF WireTypeOK
<1>2. /\ socket'[k] = s2 /\ toServer'[k] = up2 /\ toClient'[k] = down2 /\ srv'[k] = r2
      /\ \A j \in Conns : j # k => /\ socket'[j] = socket[j] /\ toServer'[j] = toServer[j]
                                   /\ toClient'[j] = toClient[j] /\ srv'[j] = srv[j]
  BY DEF WireTypeOK
<1>3. /\ Len(calls) \in Nat /\ Len(cs2) \in Nat /\ Len(calls) <= Len(cs2)
      /\ calls \in Seq(Call) /\ cl \in ClientEnd
  <2>1. calls \in Seq(Call) /\ cl \in ClientEnd
    BY DEF WireTypeOK
  <2> QED BY <2>1
<1>4. \A j \in Conns : Typed(j = cl.conn, socket[j], toServer[j], toClient[j], srv[j], cl, calls)
                       /\ Conn(j)
  BY DEF WireTypeOK, Typed
<1>5. ASSUME NEW j \in Conns, j # k, NEW x \in 1..Len(calls), Asked(x, j)
      PROVE  cs2[x] = calls[x]
  BY <1>5 DEF Apart
<1>6. ASSUME NEW j \in Conns, j # k
      PROVE  ConnOn(j = c2.conn, socket[j], toServer[j], toClient[j], srv[j], c2, cs2)
  <2>1. \A x \in 1..Len(calls) : Wanted(x, toServer[j], srv[j]) => cs2[x] = calls[x]
    BY <1>5, <1>6 DEF Asked
  <2>2. CASE j = cl.conn
    <3>1. c2 = cl /\ Len(cs2) = Len(calls) /\ (j = cl.conn) = TRUE /\ (j = c2.conn) = TRUE
      BY <1>6, <2>2
    <3>2. ASSUME cl.pc # "idle" PROVE cs2[Len(calls)] = calls[Len(calls)]
      <4>1. CASE Len(calls) \in 1..Len(calls)
        BY <4>1, <3>2, <1>6, <2>2 DEF Apart
      <4>2. CASE Len(calls) \notin 1..Len(calls)
        <5>1. Len(calls) = 0 /\ Len(cs2) = 0
          BY <4>2, <1>3, <3>1
        <5>2. calls = <<>> /\ cs2 = <<>>
          BY <5>1, <1>3
        <5> QED BY <5>2
      <4> QED BY <4>1, <4>2
    <3>3. /\ Typed(TRUE, socket[j], toServer[j], toClient[j], srv[j], cl, calls)
          /\ ConnOn(TRUE, socket[j], toServer[j], toClient[j], srv[j], cl, calls)
      BY <1>4, <3>1 DEF Conn
    <3>4. ConnOn(TRUE, socket[j], toServer[j], toClient[j], srv[j], cl, cs2)
      BY ONLY <2>1, <3>1, <3>2, <3>3, cs2 \in Seq(Call), OwnKept
    <3> QED BY <3>1, <3>4
  <2>3. CASE j # cl.conn
    <3>1. (j = cl.conn) = FALSE /\ (j = c2.conn) = FALSE
      BY <2>3
    <3>2. /\ Typed(FALSE, socket[j], toServer[j], toClient[j], srv[j], cl, calls)
          /\ ConnOn(FALSE, socket[j], toServer[j], toClient[j], srv[j], cl, calls)
      BY <1>4, <3>1 DEF Conn
    <3>3. ThreadOn(toServer[j], srv[j], cs2)
      <4>1. /\ toServer[j] \in Seq(Frame) /\ srv[j] \in ServerEnd
            /\ ThreadOn(toServer[j], srv[j], calls)
        BY <3>2 DEF Typed, ConnOn
      <4>2. \A x \in 1..Len(calls) : Wanted(x, toServer[j], srv[j]) =>
              /\ cs2[x].size = calls[x].size /\ cs2[x].ran = calls[x].ran
              /\ srv[j].pc # "closed" /\ NotRun(calls[x]) => NotRun(cs2[x])
        BY <2>1
      <4> QED BY ONLY <4>1, <4>2, <1>3, cs2 \in Seq(Call), ThreadKept
    <3>4. socket[j] # "up"
      BY <3>2 DEF ConnOn, SocketOn
    <3>5. ConnOn(FALSE, socket[j], toServer[j], toClient[j], srv[j], c2, cs2)
      BY ONLY <3>2, <3>3, <3>4, NotItsOwn
    <3> QED BY <3>1, <3>5
  <2> QED BY <2>2, <2>3
<1>7. ASSUME NEW j \in Conns PROVE Conn(j)'
  <2>1. CASE j = k
    BY <2>1, <1>2 DEF Conn
  <2>2. CASE j # k
    BY <2>2, <1>2, <1>6 DEF Conn
  <2> QED BY <2>1, <2>2
<1>8. /\ \A j \in Conns, x \in 1..Len(calls) : Asked(x, j)' => Asked(x, j)
      /\ \A j \in Conns : j # k => \A x : Asked(x, j)' => Asked(x, j)
  <2>1. ASSUME NEW j \in Conns, j # k, NEW x PROVE Asked(x, j)' <=> Asked(x, j)
    BY <2>1, <1>2 DEF Asked
  <2>2. ASSUME NEW x PROVE Asked(x, k)' <=> Wanted(x, up2, r2)
    BY <1>2 DEF Asked
  <2> QED BY <2>1, <2>2
<1>9. ASSUME NEW j \in Conns, j # k, NEW x \in 1..Len(cs2), Asked(x, j)' PROVE x \in 1..Len(calls)
  <2>1. Asked(x, j)
    BY <1>8, <1>9
  <2>2. ThreadOn(toServer[j], srv[j], calls) /\ toServer[j] \in Seq(Frame) /\ srv[j] \in ServerEnd
    BY <1>4 DEF Conn, ConnOn, Typed
  <2>3. CASE x = srv[j].call
    <3>1. x <= Len(calls)
      BY <2>2, <2>3 DEF ThreadOn, OpenOn
    <3> QED BY <3>1, <1>3
  <2>4. ASSUME NEW i \in 1..Len(toServer[j]), toServer[j][i].type = "HEADERS", toServer[j][i].n = x
        PROVE  x \in 1..Len(calls)
    <3>1. x <= Len(calls)
      BY <2>2, <2>4 DEF ThreadOn, RequestOn, FrameOn
    <3> QED BY <3>1, <1>3
  <2> QED BY <2>1, <2>3, <2>4 DEF Asked, Wanted
<1>10. Apart'
  <2>1. ASSUME NEW x \in 1..Len(cs2), NEW i \in Conns, NEW j \in Conns, Asked(x, i)', Asked(x, j)'
        PROVE  i = j
    <3>1. CASE x \in 1..Len(calls)
      BY <2>1, <3>1, <1>8 DEF Apart
    <3>2. CASE x \notin 1..Len(calls)
      BY <2>1, <3>2, <1>9
    <3> QED BY <3>1, <3>2
  <2>2. ASSUME c2.pc # "idle", NEW j \in Conns, Asked(Len(cs2), j)' PROVE j = c2.conn
    <3>1. CASE Len(cs2) = Len(calls) /\ Len(calls) # 0
      <4>1. Len(calls) \in 1..Len(calls) /\ cl.pc # "idle"
        BY <1>3, <2>2, <3>1
      <4> QED BY <4>1, <2>2, <3>1, <1>8 DEF Apart
    <3>2. CASE Len(cs2) # Len(calls)
      <4>1. k = c2.conn /\ Len(cs2) \in 1..Len(cs2) /\ Len(cs2) \notin 1..Len(calls)
        BY <3>2, <1>3
      <4> QED BY <4>1, <2>2, <1>9
    <3>3. CASE Len(cs2) = 0
      <4>1. c2.stream < c2.next /\ c2.next <= 1 /\ c2.stream # 0 /\ c2.next \in Nat /\ c2.stream \in Nat
        BY <2>2, <3>3, ClientNumbers DEF ClientOn
      <4> QED BY <4>1
    <3> QED BY <3>1, <3>2, <3>3, <1>3
  <2> QED BY <2>1, <2>2 DEF Apart
<1>11. Outcomes'
  <2>1. ASSUME NEW x \in 1..Len(cs2) PROVE True(cs2[x])
    <3>1. CASE x \in 1..Len(calls)
      BY <3>1 DEF Outcomes
    <3>2. CASE x \notin 1..Len(calls)
      <4>1. x = Len(cs2) /\ Len(cs2) > Len(calls)
        BY <3>2, <1>3
      <4> QED BY <4>1
    <3> QED BY <3>1, <3>2
  <2> QED BY <2>1 DEF Outcomes
<1> QED
  BY <1>1, <1>7, <1>10, <1>11

-----------------------------------------------------------------------------
(* The server's actions.                                                   *)

\* What HttpInv says of one connection.
LEMMA OnOne ==
    ASSUME HttpInv, NEW k \in Conns
    PROVE  /\ Typed(k = cl.conn, socket[k], toServer[k], toClient[k], srv[k], cl, calls)
           /\ ConnOn(k = cl.conn, socket[k], toServer[k], toClient[k], srv[k], cl, calls)
           /\ ClientOn(cl, calls) /\ cl \in ClientEnd /\ calls \in Seq(Call) /\ Len(calls) <= MaxCalls
           /\ Len(calls) \in Nat /\ breaks \in Nat /\ stopping \in BOOLEAN
           /\ srv[k] \in ServerEnd /\ toServer[k] \in Seq(Frame) /\ toClient[k] \in Seq(Frame)
           /\ socket[k] \in {"none", "up", "shut", "gone", "broken"}
           /\ socket = [socket EXCEPT ![k] = socket[k]]
           /\ toServer = [toServer EXCEPT ![k] = toServer[k]]
           /\ toClient = [toClient EXCEPT ![k] = toClient[k]]
           /\ srv = [srv EXCEPT ![k] = srv[k]]
<1>1. WireTypeOK
  BY DEF HttpInv
<1>2. /\ socket[k] \in {"none", "up", "shut", "gone", "broken"}
      /\ toServer[k] \in Seq(Frame) /\ toClient[k] \in Seq(Frame) /\ srv[k] \in ServerEnd
      /\ cl \in ClientEnd /\ calls \in Seq(Call) /\ Len(calls) <= MaxCalls
      /\ breaks \in Nat /\ stopping \in BOOLEAN
  BY <1>1 DEF WireTypeOK
<1>3. /\ socket = [socket EXCEPT ![k] = socket[k]]
      /\ toServer = [toServer EXCEPT ![k] = toServer[k]]
      /\ toClient = [toClient EXCEPT ![k] = toClient[k]]
      /\ srv = [srv EXCEPT ![k] = srv[k]]
  BY <1>1 DEF WireTypeOK
<1>4. Conn(k) /\ ClientOn(cl, calls)
  BY DEF HttpInv
<1>5. Len(calls) \in Nat
  BY <1>2
<1>6. Typed(k = cl.conn, socket[k], toServer[k], toClient[k], srv[k], cl, calls)
  BY <1>2 DEF Typed
<1> QED BY <1>2, <1>3, <1>4, <1>5, <1>6 DEF Conn

\* A step of a thread that leaves the calls alone.
LEMMA ThreadStep ==
    ASSUME HttpInv, NEW k \in Conns, NEW s2 \in {"none", "up", "shut", "gone", "broken"},
           NEW up2 \in Seq(Frame), NEW down2 \in Seq(Frame), NEW r2 \in ServerEnd,
           socket' = [socket EXCEPT ![k] = s2],
           toServer' = [toServer EXCEPT ![k] = up2], toClient' = [toClient EXCEPT ![k] = down2],
           srv' = [srv EXCEPT ![k] = r2], cl' = cl, calls' = calls,
           breaks' \in Nat, stopping' \in BOOLEAN,
           ConnOn(k = cl.conn, s2, up2, down2, r2, cl, calls),
           \A x \in 1..Len(calls) : Wanted(x, up2, r2) => Asked(x, k)
    PROVE  HttpInv'
<1>1. /\ ClientOn(cl, calls) /\ cl \in ClientEnd /\ calls \in Seq(Call) /\ Len(calls) <= MaxCalls
      /\ Len(calls) \in Nat
  BY OnOne
<1>2. ~(Len(calls) > Len(calls))
  BY <1>1
<1> QED
  BY <1>1, <1>2, Step

LEMMA SrvHeadersKeeps ==
    ASSUME HttpInv, NEW k \in Conns, SrvHeaders(k)
    PROVE  HttpInv'
<1> DEFINE own == k = cl.conn
           s == socket[k]
           up == toServer[k]
           down == toClient[k]
           r == srv[k]
           f == up[1]
           up2 == Tail(up)
           r2 == [r EXCEPT !.stream = f.stream, !.call = f.n, !.body = 0,
                           !.open = @ \union {f.stream}, !.window[f.stream] = r.initial]
<1>1. Typed(own, s, up, down, r, cl, calls) /\ ConnOn(own, s, up, down, r, cl, calls)
      /\ ClientOn(cl, calls) /\ r \in ServerEnd /\ up \in Seq(Frame)
  BY OnOne
<1>2. r.pc = "reading" /\ up # <<>>
  BY DEF SrvHeaders
<1>3. Taken(up, up2) /\ Head(up) = f
  BY <1>1, <1>2, TailIsTaken
<1>4. f.type = "HEADERS" /\ f \in Frame /\ f.stream # 0 /\ f.stream \in Streams
  <2>1. f.type = "HEADERS" /\ f \in Frame
    BY <1>3 DEF SrvHeaders, Taken
  <2>2. f.stream # 0
    BY <2>1 DEF Frame
  <2> QED BY <2>1, <2>2, FrameNumbers
<1>5. f.n <= Len(calls) /\ f.n \in 0..MaxCalls /\ f.n > r.call
  <2>1. f.n <= Len(calls) /\ f.n > r.call
    BY <1>1, <1>3, <1>4 DEF ConnOn, ThreadOn, RequestOn, FrameOn, Taken
  <2>2. Len(calls) <= MaxCalls /\ Len(calls) \in Nat /\ f.n \in Nat
    BY <1>4, OnOne, FrameNumbers
  <2> QED BY <2>1, <2>2, Http2Assumption
<1>6. r2 \in ServerEnd
  <2> DEFINE a == f.stream
             b == f.n
             w == [r.window EXCEPT ![a] = r.initial]
             o == r.open \union {a}
  <2>1. a \in 0..MaxCalls /\ b \in 0..MaxCalls /\ o \in SUBSET Streams
    BY <1>1, <1>4, <1>5, FrameNumbers, ServerNumbers
  <2>2. w \in [Streams -> Int]
    BY <1>1, <1>4, ServerNumbers
  <2>3. r2 = [r EXCEPT !.stream = a, !.call = b, !.body = 0, !.open = o, !.window = w]
    BY <1>1 DEF ServerEnd
  <2> HIDE DEF a, b, w, o, r, r2
  <2> QED BY <1>1, <2>1, <2>2, <2>3 DEF ServerEnd
<1>7. srv' = [srv EXCEPT ![k] = r2]
  BY <1>3 DEF SrvHeaders, Becomes
<1>8. /\ socket' = [socket EXCEPT ![k] = s] /\ toServer' = [toServer EXCEPT ![k] = up2]
      /\ toClient' = [toClient EXCEPT ![k] = down] /\ cl' = cl /\ calls' = calls
      /\ breaks' \in Nat /\ stopping' \in BOOLEAN
      /\ s \in {"none", "up", "shut", "gone", "broken"} /\ down \in Seq(Frame) /\ up2 \in Seq(Frame)
  BY <1>3, OnOne DEF SrvHeaders, Pop, Taken
<1>9. /\ r2.call = f.n
  BY <1>1 DEF ServerEnd
<1> HIDE DEF own, s, up2, down, r2
<1>10. ConnOn(own, s, up2, down, r2, cl, calls)
  <2>1. r2 = [r EXCEPT !.stream = f.stream, !.call = f.n, !.body = 0,
                           !.open = @ \union {f.stream}, !.window[f.stream] = r.initial]
    BY DEF r2
  <2> HIDE DEF up, r, f
  <2>2. f = up[1]
    BY DEF f
  <2> QED BY <1>1, <1>2, <1>3, <1>4, <1>6, <2>1, <2>2, ReadsHeaders
<1>11. \A x \in 1..Len(calls) : Wanted(x, up2, r2) => Asked(x, k)
  <2>1. 1 \in 1..Len(up) /\ \A i \in 1..Len(up2) : i + 1 \in 1..Len(up) /\ up2[i] = up[i + 1]
    BY <1>3, TakenAt
  <2> QED BY <2>1, <1>4, <1>9 DEF Asked, Wanted
<1> QED
  BY <1>6, <1>7, <1>8, <1>10, <1>11, ThreadStep DEF own

\* Credit for one unit, of the connection and maybe of a stream.
LEMMA OneRepaid ==
    ASSUME NEW ch \in Seq(Frame), NEW id, NEW t, t = ch \o <<Credit(0, 1)>>
    PROVE  /\ Repaid(ch, t, id) /\ t \in Seq(Frame)
           /\ OnWire(t, "WINDOW_UPDATE", 0) = OnWire(ch, "WINDOW_UPDATE", 0) + 1
           /\ id # 0 => OnWire(t, "WINDOW_UPDATE", id) = OnWire(ch, "WINDOW_UPDATE", id)
<1> DEFINE g == Credit(0, 1)
<1>1. /\ g \in Frame /\ g.type = "WINDOW_UPDATE" /\ g.stream = 0 /\ g.n = 1 /\ g.last = FALSE
  BY Http2Assumption DEF Credit, Frame, FrameTypes
<1>2. t = Append(ch, g)
  BY OneMore
<1> HIDE DEF g
<1>3. Given(ch, t, g)
  BY <1>1, <1>2, AppendIsGiven
<1>4. \A st : OnWire(t, "DATA", st) = OnWire(ch, "DATA", st)
  BY <1>1, <1>3 DEF Given, Counted
<1>5. \A st : /\ OnWire(ch, "WINDOW_UPDATE", st) \in Nat
              /\ OnWire(t, "WINDOW_UPDATE", st) = OnWire(ch, "WINDOW_UPDATE", st) +
                   (IF st = 0 THEN 1 ELSE 0)
  BY <1>1, <1>3 DEF Given, Counted
<1>6. AllData(t) = AllData(ch)
  BY <1>1, <1>3 DEF Given
<1>7. \A type : type # "WINDOW_UPDATE" =>
         (Holds(t, type) <=> Holds(ch, type)) /\ (Ends(t, type) <=> Ends(ch, type))
  BY <1>1, <1>3 DEF Given
<1>8. /\ ch \in Seq(Frame) /\ t \in Seq(Frame) /\ Len(t) \in Nat /\ Len(ch) \in Nat /\ Len(ch) <= Len(t)
      /\ \A i \in 1..Len(ch) : t[i] = ch[i] /\ i \in 1..Len(t)
      /\ \A i \in 1..Len(t) :
           i \in 1..Len(ch) \/ (t[i].type = "WINDOW_UPDATE" /\ t[i].stream \in {0, id})
  BY <1>1, <1>3 DEF Given
<1>9. \A st : OnWire(t, "WINDOW_UPDATE", st) \in Nat
  BY <1>5
<1>10. Repaid(ch, t, id)
  BY <1>4, <1>5, <1>6, <1>7, <1>8, <1>9 DEF Repaid
<1> QED
  BY <1>5, <1>8, <1>10

LEMMA BothRepaid ==
    ASSUME NEW ch \in Seq(Frame), NEW id \in Streams,
           NEW t, t = ch \o <<Credit(0, 1), Credit(id, 1)>>
    PROVE  /\ Repaid(ch, t, id) /\ t \in Seq(Frame)
           /\ OnWire(t, "WINDOW_UPDATE", 0) = OnWire(ch, "WINDOW_UPDATE", 0) + 1
           /\ OnWire(t, "WINDOW_UPDATE", id) = OnWire(ch, "WINDOW_UPDATE", id) + 1
<1> DEFINE g == Credit(0, 1)
           h == Credit(id, 1)
           m == ch \o <<g>>
<1>1. /\ h \in Frame /\ h.type = "WINDOW_UPDATE" /\ h.stream = id /\ h.n = 1 /\ h.last = FALSE
      /\ id # 0
  BY Http2Assumption DEF Credit, Frame, FrameTypes, Streams
<1>2. g \in Frame
  BY Http2Assumption DEF Credit, Frame, FrameTypes
<1>3. t = Append(m, h)
  BY <1>1, <1>2, OneMore, TwoMore
<1>4. /\ Repaid(ch, m, id) /\ m \in Seq(Frame)
      /\ OnWire(m, "WINDOW_UPDATE", 0) = OnWire(ch, "WINDOW_UPDATE", 0) + 1
      /\ OnWire(m, "WINDOW_UPDATE", id) = OnWire(ch, "WINDOW_UPDATE", id)
  BY <1>1, OneRepaid
<1> HIDE DEF m, g, h
<1>5. Given(m, t, h)
  BY <1>1, <1>3, <1>4, AppendIsGiven
<1>6. \A st : OnWire(t, "DATA", st) = OnWire(m, "DATA", st)
  BY ONLY <1>1, <1>5 DEF Given, Counted
<1>7. \A st : /\ OnWire(m, "WINDOW_UPDATE", st) \in Nat
              /\ OnWire(t, "WINDOW_UPDATE", st) = OnWire(m, "WINDOW_UPDATE", st) +
                   (IF st = id THEN 1 ELSE 0)
  BY ONLY <1>1, <1>5 DEF Given, Counted
<1>8. AllData(t) = AllData(m)
  BY ONLY <1>1, <1>5 DEF Given
<1>9. \A type : type # "WINDOW_UPDATE" =>
         (Holds(t, type) <=> Holds(m, type)) /\ (Ends(t, type) <=> Ends(m, type))
  BY ONLY <1>1, <1>5 DEF Given
<1>10. /\ t \in Seq(Frame) /\ Len(t) \in Nat /\ Len(ch) \in Nat /\ Len(ch) <= Len(t)
       /\ ch \in Seq(Frame)
       /\ \A i \in 1..Len(ch) : t[i] = ch[i] /\ i \in 1..Len(t)
       /\ \A i \in 1..Len(t) :
            i \in 1..Len(ch) \/ (t[i].type = "WINDOW_UPDATE" /\ t[i].stream \in {0, id})
  <2>1. /\ t \in Seq(Frame) /\ Len(t) \in Nat /\ Len(ch) \in Nat /\ Len(m) \in Nat
        /\ Len(ch) <= Len(m) /\ Len(t) = Len(m) + 1 /\ t[Len(t)] = h
        /\ \A i \in 1..Len(m) : t[i] = m[i]
        /\ \A i \in 1..Len(t) : i = Len(t) \/ i \in 1..Len(m)
        /\ \A i \in 1..Len(ch) : m[i] = ch[i] /\ i \in 1..Len(m)
        /\ \A i \in 1..Len(m) :
             i \in 1..Len(ch) \/ (m[i].type = "WINDOW_UPDATE" /\ m[i].stream \in {0, id})
    BY <1>4, <1>5 DEF Given, Repaid
  <2>2. Len(ch) <= Len(t) /\ \A i \in 1..Len(m) : i \in 1..Len(t)
    BY ONLY <2>1
  <2>3. \A i \in 1..Len(ch) : t[i] = ch[i] /\ i \in 1..Len(t)
    BY <2>1, <2>2
  <2>4. ASSUME NEW i \in 1..Len(t)
        PROVE  i \in 1..Len(ch) \/ (t[i].type = "WINDOW_UPDATE" /\ t[i].stream \in {0, id})
    BY <2>1, <1>1
  <2> QED BY <2>1, <2>2, <2>3, <2>4
<1>11. \A st : OnWire(t, "WINDOW_UPDATE", st) \in Nat
  BY ONLY <1>7
<1>12. Repaid(ch, t, id)
  BY ONLY <1>4, <1>6, <1>8, <1>9, <1>10, <1>11 DEF Repaid
<1>13. /\ OnWire(t, "WINDOW_UPDATE", 0) = OnWire(ch, "WINDOW_UPDATE", 0) + 1
       /\ OnWire(t, "WINDOW_UPDATE", id) = OnWire(ch, "WINDOW_UPDATE", id) + 1
  BY ONLY <1>1, <1>4, <1>7
<1> QED
  BY <1>10, <1>12, <1>13

LEMMA SameRepaid ==
    ASSUME NEW ch \in Seq(Frame), NEW id
    PROVE  Repaid(ch, ch, id)
BY NoSuchFrames DEF Repaid

LEMMA TellsOne ==
    ASSUME HttpInv, NEW k \in Conns, NEW f \in Frame, Tell(k, <<f>>)
    PROVE  \E down2 \in Seq(Frame) : /\ toClient' = [toClient EXCEPT ![k] = down2]
                                     /\ Told(socket[k], toClient[k], down2, f)
<1>1. toClient[k] \in Seq(Frame) /\ toClient = [toClient EXCEPT ![k] = toClient[k]]
  BY OnOne
<1>2. CASE socket[k] = "up"
  <2> DEFINE down2 == Append(toClient[k], f)
  <2>1. toClient' = [toClient EXCEPT ![k] = down2]
    BY <1>1, <1>2, OneMore DEF Tell, Reaches, Answer
  <2>2. down2 \in Seq(Frame) /\ Given(toClient[k], down2, f)
    BY <1>1, AppendIsGiven
  <2> QED BY <2>1, <2>2, <1>2 DEF Told
<1>3. CASE socket[k] # "up"
  BY <1>1, <1>3 DEF Tell, Reaches, Told
<1> QED BY <1>2, <1>3

LEMMA SrvDataKeeps ==
    ASSUME HttpInv, NEW k \in Conns, SrvData(k)
    PROVE  HttpInv'
<1> DEFINE own == k = cl.conn
           s == socket[k]
           up == toServer[k]
           down == toClient[k]
           r == srv[k]
           f == up[1]
           up2 == Tail(up)
           down2 == IF s = "up" THEN down \o Returned(f) ELSE down
           r2 == [r EXCEPT !.body = @ + f.n, !.open = IF f.last THEN @ \ {f.stream} ELSE @,
                           !.pc = IF f.last THEN "handling" ELSE @]
<1>1. Typed(own, s, up, down, r, cl, calls) /\ ConnOn(own, s, up, down, r, cl, calls)
      /\ ClientOn(cl, calls) /\ r \in ServerEnd /\ up \in Seq(Frame) /\ down \in Seq(Frame)
      /\ toClient = [toClient EXCEPT ![k] = toClient[k]]
  BY OnOne
<1>2. r.pc = "reading" /\ up # <<>>
  BY DEF SrvData
<1>3. Taken(up, up2) /\ Head(up) = f
  BY <1>1, <1>2, TailIsTaken
<1>4. f.type = "DATA" /\ f \in Frame /\ f.stream # 0 /\ f.stream \in Streams /\ f.n = 1 /\ f.last \in BOOLEAN
  <2>1. f.type = "DATA" /\ f \in Frame
    BY <1>3 DEF SrvData, Taken
  <2>2. f.stream # 0 /\ f.n = 1
    BY <2>1 DEF Frame
  <2> QED BY <2>1, <2>2, FrameNumbers
<1>6. r2 \in ServerEnd
  <2> DEFINE b == r.body + f.n
             o == IF f.last THEN r.open \ {f.stream} ELSE r.open
             p == IF f.last THEN "handling" ELSE r.pc
  <2>1. b \in Nat /\ o \in SUBSET Streams /\ p \in {"none", "reading", "handling", "answering", "closed"}
    BY <1>1, <1>2, <1>4, ServerNumbers
  <2>3. r2 = [r EXCEPT !.body = b, !.open = o, !.pc = p]
    BY <1>1 DEF ServerEnd
  <2> HIDE DEF b, o, p, r, r2
  <2> QED BY <1>1, <2>1, <2>3 DEF ServerEnd
<1>7. srv' = [srv EXCEPT ![k] = r2]
  BY <1>3 DEF SrvData, Becomes
<1>8. toClient' = [toClient EXCEPT ![k] = down2]
  BY <1>1, <1>3 DEF SrvData, Tell, Reaches, Answer
<1>9. /\ socket' = [socket EXCEPT ![k] = s] /\ toServer' = [toServer EXCEPT ![k] = up2]
      /\ cl' = cl /\ calls' = calls
      /\ breaks' \in Nat /\ stopping' \in BOOLEAN
      /\ s \in {"none", "up", "shut", "gone", "broken"} /\ up2 \in Seq(Frame)
  BY <1>3, OnOne DEF SrvData, Pop, Taken
<1>10. r2.call = r.call
  BY <1>1 DEF ServerEnd
<1>11. /\ Repaid(down, down2, f.stream) /\ down2 \in Seq(Frame)
       /\ s # "up" => down2 = down
       /\ s = "up" => OnWire(down2, "WINDOW_UPDATE", 0) = OnWire(down, "WINDOW_UPDATE", 0) + 1
       /\ s = "up" => OnWire(down2, "WINDOW_UPDATE", f.stream)
                        = OnWire(down, "WINDOW_UPDATE", f.stream) + IF f.last THEN 0 ELSE 1
  <2>1. CASE s # "up"
    <3>1. down2 = down
      BY <2>1
    <3> QED BY <2>1, <3>1, <1>1, SameRepaid
  <2>2. CASE s = "up" /\ f.last
    <3>1. down2 = down \o <<Credit(0, 1)>>
      BY <2>2, <1>1, <1>4 DEF Returned
    <3>2. OnWire(down, "WINDOW_UPDATE", f.stream) + 0 = OnWire(down, "WINDOW_UPDATE", f.stream)
      BY <1>1, NoSuchFrames
    <3> HIDE DEF down2, down, f, s
    <3> QED BY <2>2, <3>1, <3>2, <1>1, <1>4, OneRepaid
  <2>3. CASE s = "up" /\ ~f.last
    <3>1. down2 = down \o <<Credit(0, 1), Credit(f.stream, 1)>>
      BY <2>3, <1>1, <1>4 DEF Returned
    <3> HIDE DEF down2, down, f, s
    <3> QED BY <2>3, <3>1, <1>1, <1>4, BothRepaid
  <2> QED BY <2>1, <2>2, <2>3, <1>4
<1> HIDE DEF own, s, up2, down2, r2
<1>12. ConnOn(own, s, up2, down2, r2, cl, calls)
  <2>1. r2 = [r EXCEPT !.body = @ + f.n, !.open = IF f.last THEN @ \ {f.stream} ELSE @,
                       !.pc = IF f.last THEN "handling" ELSE @]
    BY DEF r2
  <2> HIDE DEF up, r, f, down
  <2>2. f = up[1]
    BY DEF f
  <2> QED BY <1>1, <1>2, <1>3, <1>4, <1>6, <1>11, <2>1, <2>2, ReadsData
<1>13. \A x \in 1..Len(calls) : Wanted(x, up2, r2) => Asked(x, k)
  <2>1. \A i \in 1..Len(up2) : i + 1 \in 1..Len(up) /\ up2[i] = up[i + 1]
    BY <1>3, TakenAt
  <2> QED BY <2>1, <1>10 DEF Asked, Wanted
<1> QED
  BY <1>6, <1>7, <1>8, <1>9, <1>11, <1>12, <1>13, ThreadStep DEF own

LEMMA SrvCreditKeeps ==
    ASSUME HttpInv, NEW k \in Conns, SrvCredit(k)
    PROVE  HttpInv'
<1> DEFINE own == k = cl.conn
           s == socket[k]
           up == toServer[k]
           down == toClient[k]
           r == srv[k]
           f == up[1]
           up2 == Tail(up)
           w == [x \in Streams |-> r.window[x] + IF x \in r.open THEN f.n ELSE 0]
           i2 == Window + f.n
           ra == [r EXCEPT !.initial = i2, !.window = w]
           rb == [r EXCEPT !.connWindow = @ + f.n]
           rc == [r EXCEPT !.window[f.stream] = @ + f.n]
           r2 == IF f.type = "SETTINGS" THEN ra ELSE IF f.stream = 0 THEN rb ELSE rc
<1>1. Typed(own, s, up, down, r, cl, calls) /\ ConnOn(own, s, up, down, r, cl, calls)
      /\ ClientOn(cl, calls) /\ r \in ServerEnd /\ up \in Seq(Frame) /\ down \in Seq(Frame)
  BY OnOne
<1>3. Taken(up, up2) /\ Head(up) = f
  BY <1>1, TailIsTaken DEF SrvCredit
<1>4. /\ f \in Frame /\ f.type \in {"WINDOW_UPDATE", "SETTINGS"} /\ f.n \in Nat
      /\ f.stream # 0 => f.stream \in Streams
      /\ f.type = "SETTINGS" => f.n = Raise
  <2>1. f.type \in {"WINDOW_UPDATE", "SETTINGS"} /\ f \in Frame
    BY <1>3 DEF SrvCredit, Taken
  <2> QED BY <2>1, FrameNumbers DEF Frame
<1>5. /\ r.connWindow \in Nat /\ r.window \in [Streams -> Int] /\ r.open \subseteq Streams
  BY <1>1, ServerNumbers
<1>6. r2 \in ServerEnd
  <2>1. ASSUME f.type = "SETTINGS" PROVE ra \in ServerEnd
    <3>1. w \in [Streams -> Int] /\ i2 \in Windows
      BY <2>1, <1>4, <1>5 DEF Windows
    <3> HIDE DEF w, i2, r
    <3> QED BY <1>1, <3>1 DEF ServerEnd
  <2>2. rb \in ServerEnd
    <3> DEFINE a == r.connWindow + f.n
    <3>1. a \in Nat
      BY <1>4, <1>5
    <3>2. rb = [r EXCEPT !.connWindow = a]
      BY <1>1 DEF ServerEnd
    <3> HIDE DEF a, r, rb
    <3> QED BY <1>1, <3>1, <3>2 DEF ServerEnd
  <2>3. ASSUME f.stream # 0 PROVE rc \in ServerEnd
    <3> DEFINE v == [r.window EXCEPT ![f.stream] = @ + f.n]
    <3>1. v \in [Streams -> Int]
      BY <1>4, <1>5, <2>3
    <3>2. rc = [r EXCEPT !.window = v]
      BY <1>1 DEF ServerEnd
    <3> HIDE DEF v, r, rc
    <3> QED BY <1>1, <3>1, <3>2 DEF ServerEnd
  <2> HIDE DEF ra, rb, rc
  <2> QED BY <2>1, <2>2, <2>3
<1>7. srv' = [srv EXCEPT ![k] = r2]
  <2>1. CASE f.type = "SETTINGS"
    BY <2>1, <1>3 DEF SrvCredit, Becomes
  <2>2. CASE f.type # "SETTINGS" /\ f.stream = 0
    BY <2>2, <1>3 DEF SrvCredit, Becomes
  <2>3. CASE f.type # "SETTINGS" /\ f.stream # 0
    BY <2>3, <1>3 DEF SrvCredit, Becomes
  <2> QED BY <2>1, <2>2, <2>3
<1>8. /\ socket' = [socket EXCEPT ![k] = s] /\ toServer' = [toServer EXCEPT ![k] = up2]
      /\ toClient' = [toClient EXCEPT ![k] = down] /\ cl' = cl /\ calls' = calls
      /\ breaks' \in Nat /\ stopping' \in BOOLEAN
      /\ s \in {"none", "up", "shut", "gone", "broken"} /\ up2 \in Seq(Frame)
  BY <1>3, OnOne DEF SrvCredit, Pop, Taken
<1>9. r2.call = r.call
  BY <1>1 DEF ServerEnd
<1>10. ConnOn(own, s, up2, down, r2, cl, calls)
  <2>1. CASE f.type = "SETTINGS"
    <3>1. r2 = [r EXCEPT !.initial = i2, !.window = w] /\ f = up[1]
      BY <2>1
    <3> HIDE DEF own, s, up, down, r, f, up2, w, i2, ra, rb, rc, r2
    <3> QED BY <2>1, <3>1, <1>1, <1>3, <1>6, TakesSettings
  <2>2. CASE f.type # "SETTINGS" /\ f.stream = 0
    <3>1. r2 = [r EXCEPT !.connWindow = @ + f.n] /\ f = up[1] /\ f.type = "WINDOW_UPDATE"
      BY <2>2, <1>4
    <3> HIDE DEF own, s, up, down, r, f, up2, w, i2, ra, rb, rc, r2
    <3> QED BY <2>2, <3>1, <1>1, <1>3, <1>6, TakesForConnection
  <2>3. CASE f.type # "SETTINGS" /\ f.stream # 0
    <3>1. r2 = [r EXCEPT !.window[f.stream] = @ + f.n] /\ f = up[1] /\ f.type = "WINDOW_UPDATE"
      BY <2>3, <1>4
    <3> HIDE DEF own, s, up, down, r, f, up2, w, i2, ra, rb, rc, r2
    <3> QED BY <2>3, <3>1, <1>1, <1>3, <1>6, TakesForStream
  <2> QED BY <2>1, <2>2, <2>3
<1>11. \A x \in 1..Len(calls) : Wanted(x, up2, r2) => Asked(x, k)
  <2>1. \A i \in 1..Len(up2) : i + 1 \in 1..Len(up) /\ up2[i] = up[i + 1]
    BY <1>3, TakenAt
  <2> HIDE DEF r2
  <2> QED BY <2>1, <1>9 DEF Asked, Wanted
<1> HIDE DEF own, s, up2, down, r2
<1> QED
  BY <1>1, <1>6, <1>7, <1>8, <1>10, <1>11, ThreadStep DEF own

LEMMA SrvSendKeeps ==
    ASSUME HttpInv, NEW k \in Conns, SrvSend(k)
    PROVE  HttpInv'
<1> DEFINE own == k = cl.conn
           s == socket[k]
           up == toServer[k]
           down == toClient[k]
           r == srv[k]
           a == r.left - 1
           b == r.connWindow - 1
           w == [r.window EXCEPT ![r.stream] = @ - 1]
           r2 == [r EXCEPT !.left = r.left - 1, !.connWindow = r.connWindow - 1,
                           !.window[r.stream] = r.window[r.stream] - 1]
           f == Data(r.stream, 1, FALSE)
<1>1. Typed(own, s, up, down, r, cl, calls) /\ ConnOn(own, s, up, down, r, cl, calls)
      /\ ClientOn(cl, calls) /\ r \in ServerEnd /\ up \in Seq(Frame) /\ down \in Seq(Frame)
  BY OnOne
<1>2. r.pc = "answering" /\ r.left > 0 /\ r.connWindow >= 1
  <2>1. r.connWindow \in Nat
    BY <1>1, ServerNumbers
  <2> QED BY <2>1 DEF SrvSend, Starved
<1>3. r.stream \in Streams
  <2>1. r.stream # 0
    BY <1>1, <1>2 DEF ConnOn, ThreadOn, OpenOn
  <2> QED BY <1>1, <2>1 DEF ServerEnd, Streams
<1>4. f \in Frame
  BY <1>3, Http2Assumption DEF Data, Frame, FrameTypes, Streams
<1>5. r2 = [r EXCEPT !.left = a, !.connWindow = b, !.window = w]
  BY <1>1 DEF ServerEnd
<1>6. r2 \in ServerEnd
  <2>1. a \in Nat /\ b \in Nat
    BY <1>1, <1>2, ServerNumbers
  <2>2. w \in [Streams -> Int]
    BY <1>1, <1>3, ServerNumbers
  <2> HIDE DEF a, b, w, r, r2
  <2> QED BY <1>1, <2>1, <2>2, <1>5 DEF ServerEnd
<1>7. srv' = [srv EXCEPT ![k] = r2]
  BY DEF SrvSend, Becomes
<1>8. Tell(k, <<f>>)
  BY DEF SrvSend
<1>9. /\ socket' = [socket EXCEPT ![k] = s] /\ toServer' = [toServer EXCEPT ![k] = up]
      /\ cl' = cl /\ calls' = calls
      /\ breaks' \in Nat /\ stopping' \in BOOLEAN
      /\ s \in {"none", "up", "shut", "gone", "broken"}
  BY OnOne DEF SrvSend
<1>10. r2 = [r EXCEPT !.left = @ - 1, !.connWindow = @ - 1, !.window[r.stream] = @ - 1]
  BY <1>1 DEF ServerEnd
<1>11. r2.call = r.call
  BY <1>1 DEF ServerEnd
<1> HIDE DEF a, b, w, r2, f
<1>12. PICK down2 \in Seq(Frame) : /\ toClient' = [toClient EXCEPT ![k] = down2]
                                   /\ Told(s, down, down2, f)
  BY <1>4, <1>8, TellsOne
<1>13. Told(s, down, down2, Data(r.stream, 1, FALSE))
  BY <1>12 DEF f
<1> HIDE DEF own, s, up, down, r
<1>14. ConnOn(own, s, up, down2, r2, cl, calls)
  BY ONLY <1>1, <1>2, <1>6, <1>10, <1>13, Sends
<1>15. \A x \in 1..Len(calls) : Wanted(x, up, r2) => Asked(x, k)
  BY <1>11 DEF Asked, Wanted, up, r
<1> QED
  BY <1>1, <1>6, <1>7, <1>9, <1>12, <1>14, <1>15, ThreadStep DEF own

LEMMA SrvTrailersKeeps ==
    ASSUME HttpInv, NEW k \in Conns, SrvTrailers(k)
    PROVE  HttpInv'
<1> DEFINE own == k = cl.conn
           s == socket[k]
           up == toServer[k]
           down == toClient[k]
           r == srv[k]
           w == [r.window EXCEPT ![r.stream] = 0]
           r2 == [r EXCEPT !.pc = "reading", !.window[r.stream] = 0]
           f == Headers(r.stream, 0, TRUE)
<1>1. Typed(own, s, up, down, r, cl, calls) /\ ConnOn(own, s, up, down, r, cl, calls)
      /\ ClientOn(cl, calls) /\ r \in ServerEnd /\ up \in Seq(Frame) /\ down \in Seq(Frame)
  BY OnOne
<1>2. r.pc = "answering" /\ r.left = 0
  BY DEF SrvTrailers
<1>3. r.stream \in Streams
  <2>1. r.stream # 0
    BY <1>1, <1>2 DEF ConnOn, ThreadOn, OpenOn
  <2> QED BY <1>1, <2>1 DEF ServerEnd, Streams
<1>4. f \in Frame
  BY <1>3, Http2Assumption DEF Headers, Frame, FrameTypes, Streams
<1>5. r2 = [r EXCEPT !.pc = "reading", !.window = w]
  BY <1>1 DEF ServerEnd
<1>6. r2 \in ServerEnd
  <2>2. w \in [Streams -> Int]
    BY <1>1, <1>3, ServerNumbers
  <2> HIDE DEF w, r, r2
  <2> QED BY <1>1, <2>2, <1>5 DEF ServerEnd
<1>7. srv' = [srv EXCEPT ![k] = r2]
  BY DEF SrvTrailers, Becomes
<1>8. Tell(k, <<f>>)
  BY DEF SrvTrailers
<1>9. /\ socket' = [socket EXCEPT ![k] = s] /\ toServer' = [toServer EXCEPT ![k] = up]
      /\ cl' = cl /\ calls' = calls
      /\ breaks' \in Nat /\ stopping' \in BOOLEAN
      /\ s \in {"none", "up", "shut", "gone", "broken"}
  BY OnOne DEF SrvTrailers
<1>10. r2 = [r EXCEPT !.pc = "reading", !.window[r.stream] = 0]
  OBVIOUS
<1>11. r2.call = r.call
  BY <1>1 DEF ServerEnd
<1> HIDE DEF w, r2, f
<1>12. PICK down2 \in Seq(Frame) : /\ toClient' = [toClient EXCEPT ![k] = down2]
                                   /\ Told(s, down, down2, f)
  BY <1>4, <1>8, TellsOne
<1>13. Told(s, down, down2, Headers(r.stream, 0, TRUE))
  BY <1>12 DEF f
<1> HIDE DEF own, s, up, down, r
<1>14. ConnOn(own, s, up, down2, r2, cl, calls)
  BY ONLY <1>1, <1>2, <1>6, <1>10, <1>13, SendsTrailers
<1>15. \A x \in 1..Len(calls) : Wanted(x, up, r2) => Asked(x, k)
  BY <1>11 DEF Asked, Wanted, up, r
<1> QED
  BY <1>1, <1>6, <1>7, <1>9, <1>12, <1>14, <1>15, ThreadStep DEF own

LEMMA SrvLeaveKeeps ==
    ASSUME HttpInv, NEW k \in Conns, SrvLeave(k)
    PROVE  HttpInv'
<1> DEFINE own == k = cl.conn
           s == socket[k]
           s2 == IF s = "up" THEN "gone" ELSE s
           up == toServer[k]
           down == toClient[k]
           r == srv[k]
           r2 == [r EXCEPT !.pc = "closed"]
<1>1. Typed(own, s, up, down, r, cl, calls) /\ ConnOn(own, s, up, down, r, cl, calls)
      /\ ClientOn(cl, calls) /\ r \in ServerEnd /\ up \in Seq(Frame) /\ down \in Seq(Frame)
      /\ s \in {"none", "up", "shut", "gone", "broken"}
  BY OnOne
<1>2. r.pc \in {"reading", "answering"}
  BY DEF SrvLeave, Starved
<1>4. Goaway \in Frame
  BY Http2Assumption DEF Goaway, Frame, FrameTypes
<1>6. r2 \in ServerEnd
  BY <1>1 DEF ServerEnd
<1>7. srv' = [srv EXCEPT ![k] = r2]
  BY DEF SrvLeave, Becomes
<1>8. Tell(k, <<Goaway>>)
  BY DEF SrvLeave
<1>9. /\ socket' = [socket EXCEPT ![k] = s2] /\ toServer' = [toServer EXCEPT ![k] = up]
      /\ cl' = cl /\ calls' = calls
      /\ breaks' \in Nat /\ stopping' \in BOOLEAN
      /\ s2 \in {"none", "up", "shut", "gone", "broken"}
  BY <1>1, OnOne DEF SrvLeave
<1>11. r2.call = r.call /\ r2 = [r EXCEPT !.pc = "closed"] /\ s2 = IF s = "up" THEN "gone" ELSE s
  BY <1>1 DEF ServerEnd
<1> HIDE DEF r2, s2
<1>12. PICK down2 \in Seq(Frame) : /\ toClient' = [toClient EXCEPT ![k] = down2]
                                   /\ Told(s, down, down2, Goaway)
  BY <1>4, <1>8, TellsOne
<1> HIDE DEF own, s, up, down, r
<1>14. ConnOn(own, s2, up, down2, r2, cl, calls)
  BY ONLY <1>1, <1>2, <1>6, <1>11, <1>12, Leaves
<1>15. \A x \in 1..Len(calls) : Wanted(x, up, r2) => Asked(x, k)
  BY <1>11 DEF Asked, Wanted, up, r
<1> QED
  BY <1>1, <1>6, <1>7, <1>9, <1>12, <1>14, <1>15, ThreadStep DEF own

LEMMA SrvHandleKeeps ==
    ASSUME HttpInv, NEW k \in Conns, SrvHandle(k)
    PROVE  HttpInv'
<1> DEFINE own == k = cl.conn
           s == socket[k]
           up == toServer[k]
           down == toClient[k]
           r == srv[k]
           reply == calls[r.call].reply
           v == [calls[r.call] EXCEPT !.ran = @ + 1]
           cs2 == [calls EXCEPT ![r.call] = v]
           r2 == [r EXCEPT !.left = reply, !.pc = IF reply = 0 THEN "reading" ELSE "answering"]
           f == Headers(r.stream, 0, reply = 0)
<1>1. Typed(own, s, up, down, r, cl, calls) /\ ConnOn(own, s, up, down, r, cl, calls)
      /\ ClientOn(cl, calls) /\ r \in ServerEnd /\ up \in Seq(Frame) /\ down \in Seq(Frame)
      /\ cl \in ClientEnd /\ calls \in Seq(Call) /\ Len(calls) <= MaxCalls /\ Len(calls) \in Nat
  BY OnOne
<1>2. r.pc = "handling"
  BY DEF SrvHandle
<1>3. r.stream \in Streams /\ r.call \in 1..Len(calls) /\ calls[r.call] \in Call
  <2>1. r.stream # 0 /\ r.call # 0 /\ r.call <= Len(calls)
    BY <1>1, <1>2 DEF ConnOn, ThreadOn, OpenOn
  <2>2. r.call \in Nat
    BY <1>1, ServerNumbers
  <2> QED BY <1>1, <2>1, <2>2 DEF ServerEnd, Streams
<1>4. NotRun(calls[r.call])
  BY <1>1, <1>2 DEF ConnOn, ThreadOn, PendingOn
<1>5. reply \in Nat /\ v \in Call /\ v.outcome = calls[r.call].outcome
  BY <1>3 DEF Call
<1>6. r2 \in ServerEnd
  <2> HIDE DEF reply, r
  <2> QED BY <1>1, <1>5 DEF ServerEnd
<1>7. f \in Frame
  BY <1>3, Http2Assumption DEF Headers, Frame, FrameTypes, Streams
<1>8. srv' = [srv EXCEPT ![k] = r2]
  BY DEF SrvHandle, Becomes
<1>9. Tell(k, <<f>>)
  BY DEF SrvHandle
<1>10. calls' = cs2
  BY DEF SrvHandle
<1>11. /\ socket' = [socket EXCEPT ![k] = s] /\ toServer' = [toServer EXCEPT ![k] = up] /\ cl' = cl
       /\ breaks' \in Nat /\ stopping' \in BOOLEAN
       /\ s \in {"none", "up", "shut", "gone", "broken"}
  BY OnOne DEF SrvHandle
<1>12. r2.call = r.call
  BY <1>1 DEF ServerEnd
<1> HIDE DEF v, r2, f
<1>13. /\ cs2 \in Seq(Call) /\ Len(cs2) = Len(calls) /\ cs2[r.call] = v
       /\ \A x \in 1..Len(calls) : x # r.call => cs2[x] = calls[x]
  BY <1>1, <1>3, <1>5, Changed
<1>14. \A x \in 1..Len(calls) : cs2[x].outcome = calls[x].outcome
  BY <1>5, <1>13
<1>15. True(cs2[r.call])
  BY <1>4, <1>5, <1>13 DEF NotRun, True
<1> HIDE DEF cs2
<1>16. ClientOn(cl, cs2)
  <2>1. cl.pc # "idle" => Len(calls) \in 1..Len(calls)
    <3>1. cl.pc # "idle" => cl.next = cl.stream + 1 /\ cl.stream # 0 /\ cl.next <= Len(calls) + 1
          /\ cl.stream \in Nat
      BY <1>1, ClientNumbers DEF ClientOn
    <3> QED BY <3>1, <1>1
  <2> QED BY <2>1, <1>1, <1>13, <1>14 DEF ClientOn
<1>17. PICK down2 \in Seq(Frame) : /\ toClient' = [toClient EXCEPT ![k] = down2]
                                   /\ Told(s, down, down2, f)
  BY <1>7, <1>9, TellsOne
<1>18. v = [calls[r.call] EXCEPT !.ran = @ + 1] /\ cs2 = [calls EXCEPT ![r.call] = v]
       /\ f.type = "HEADERS" /\ f.stream = r.stream /\ (f.last <=> reply = 0)
       /\ reply = calls[r.call].reply
       /\ r2 = [r EXCEPT !.left = reply, !.pc = IF reply = 0 THEN "reading" ELSE "answering"]
  BY DEF f, Headers, r2, v, cs2
<1> HIDE DEF own, s, up, down, r, reply
<1>19. ConnOn(own, s, up, down2, r2, cl, cs2)
  BY ONLY <1>1, <1>2, <1>6, <1>10, <1>17, <1>18, Handles
<1>20. \A x \in 1..Len(calls) : Wanted(x, up, r2) => Asked(x, k)
  BY <1>12 DEF Asked, Wanted, up, r
<1>21. \A x \in 1..Len(calls) : cs2[x] # calls[x] => True(cs2[x]) /\ Asked(x, k)
  BY <1>13, <1>15 DEF Asked, Wanted, r
<1>22. ~(Len(cs2) > Len(calls)) /\ Len(cs2) <= MaxCalls /\ Len(cs2) = Len(calls)
  BY <1>1, <1>13
<1> QED
  BY <1>1, <1>6, <1>8, <1>10, <1>11, <1>13, <1>16, <1>17, <1>19, <1>20, <1>21, <1>22, Step DEF own

LEMMA BreakKeeps ==
    ASSUME HttpInv, NEW k \in Conns, Break(k)
    PROVE  HttpInv'
<1>1. /\ Typed(k = cl.conn, "up", toServer[k], toClient[k], srv[k], cl, calls)
      /\ ConnOn(k = cl.conn, "up", toServer[k], toClient[k], srv[k], cl, calls)
      /\ ClientOn(cl, calls) /\ srv[k] \in ServerEnd
      /\ srv' = [srv EXCEPT ![k] = srv[k]]
  BY OnOne DEF Break
<1>2. /\ socket' = [socket EXCEPT ![k] = "broken"] /\ toServer' = [toServer EXCEPT ![k] = <<>>]
      /\ toClient' = [toClient EXCEPT ![k] = <<>>] /\ cl' = cl /\ calls' = calls
      /\ breaks' \in Nat /\ stopping' \in BOOLEAN /\ <<>> \in Seq(Frame)
  BY OnOne DEF Break, Spend
<1>3. ConnOn(k = cl.conn, "broken", <<>>, <<>>, srv[k], cl, calls)
  BY <1>1, Breaks
<1>4. \A x \in 1..Len(calls) : Wanted(x, <<>>, srv[k]) => Asked(x, k)
  BY NoFrames DEF Wanted, Asked
<1> QED
  BY <1>1, <1>2, <1>3, <1>4, ThreadStep

LEMMA StopKeeps ==
    ASSUME HttpInv, Stop \/ UNCHANGED httpVars
    PROVE  HttpInv'
<1>1. /\ UNCHANGED <<toServer, toClient, socket, cl, srv, calls>>
      /\ breaks' \in Nat /\ stopping' \in BOOLEAN
  <2>1. WireTypeOK
    BY DEF HttpInv
  <2>2. CASE Stop
    BY <2>1, <2>2 DEF Stop, Spend, WireTypeOK
  <2>3. CASE UNCHANGED httpVars
    BY <2>1, <2>3 DEF httpVars, WireTypeOK
  <2> QED BY <2>2, <2>3
<1>2. WireTypeOK'
  BY <1>1 DEF HttpInv, WireTypeOK
<1>3. (\A k \in Conns : Conn(k))'
  BY <1>1 DEF HttpInv, Conn
<1>4. ClientOn(cl, calls)' /\ Outcomes'
  BY <1>1 DEF HttpInv, Outcomes
<1>5. Apart'
  BY <1>1 DEF HttpInv, Apart, Asked
<1> QED BY <1>2, <1>3, <1>4, <1>5 DEF HttpInv

-----------------------------------------------------------------------------
(* The client's actions.                                                   *)

\* What HttpInv says of the client's own connection.
LEMMA OnOwn ==
    ASSUME HttpInv, cl.conn # 0
    PROVE  LET k == cl.conn IN
           /\ k \in Conns
           /\ Typed(TRUE, socket[k], toServer[k], toClient[k], srv[k], cl, calls)
           /\ ConnOn(TRUE, socket[k], toServer[k], toClient[k], srv[k], cl, calls)
<1> DEFINE k == cl.conn
<1>1. cl \in ClientEnd
  BY DEF HttpInv, WireTypeOK
<1>2. k \in Conns
  <2>1. k \in 0..MaxConns
    BY <1>1 DEF ClientEnd
  <2> QED BY <2>1, Http2Assumption DEF Conns
<1>3. (k = cl.conn) = TRUE
  OBVIOUS
<1>4. /\ Typed(k = cl.conn, socket[k], toServer[k], toClient[k], srv[k], cl, calls)
      /\ ConnOn(k = cl.conn, socket[k], toServer[k], toClient[k], srv[k], cl, calls)
  <2> HIDE DEF k
  <2> QED BY <1>2, OnOne
<1> QED BY <1>2, <1>3, <1>4

LEMMA Working ==
    ASSUME HttpInv, cl.pc # "idle"
    PROVE  cl.conn # 0 /\ Len(calls) # 0 /\ Len(calls) \in 1..Len(calls) /\ cl.stream \in Streams
<1>1. ClientOn(cl, calls) /\ cl \in ClientEnd /\ Len(calls) \in Nat
  BY DEF HttpInv, WireTypeOK
<1>2. cl.conn # 0 /\ cl.stream # 0 /\ cl.next = cl.stream + 1 /\ cl.next <= Len(calls) + 1
      /\ cl.stream \in 0..MaxCalls /\ cl.stream \in Nat
  BY <1>1, ClientNumbers DEF ClientOn, ClientEnd
<1> QED BY <1>1, <1>2, Http2Assumption DEF Streams

\* A step of the client that leaves the calls alone.
LEMMA ClientStep ==
    ASSUME HttpInv, cl.conn # 0, NEW k, k = cl.conn,
           NEW up2 \in Seq(Frame), NEW down2 \in Seq(Frame), NEW c2 \in ClientEnd,
           socket' = socket,
           toServer' = [toServer EXCEPT ![k] = up2], toClient' = [toClient EXCEPT ![k] = down2],
           srv' = srv, cl' = c2, calls' = calls, breaks' = breaks, stopping' = stopping,
           ConnOn(TRUE, socket[k], up2, down2, srv[k], c2, calls), ClientOn(c2, calls),
           c2.conn = cl.conn, c2.pc # "idle" => cl.pc # "idle",
           \A x \in 1..Len(calls) : Wanted(x, up2, srv[k]) => Asked(x, k)
    PROVE  HttpInv'
<1>1. k \in Conns
  BY OnOwn
<1> DEFINE s == socket[k]
           r == srv[k]
<1>2. /\ calls \in Seq(Call) /\ Len(calls) <= MaxCalls /\ Len(calls) \in Nat /\ breaks \in Nat
      /\ stopping \in BOOLEAN /\ r \in ServerEnd
      /\ s \in {"none", "up", "shut", "gone", "broken"}
      /\ socket = [socket EXCEPT ![k] = s] /\ srv = [srv EXCEPT ![k] = r]
  BY <1>1, OnOne
<1>3. ~(Len(calls) > Len(calls)) /\ breaks' \in Nat
  BY <1>2
<1>4. stopping' \in BOOLEAN
  BY <1>2
<1>5. socket' = [socket EXCEPT ![k] = s] /\ srv' = [srv EXCEPT ![k] = r]
  BY <1>2
<1>6. (k = c2.conn) = TRUE
  OBVIOUS
<1>7. ConnOn(k = c2.conn, s, up2, down2, r, c2, calls)
  BY <1>6
<1>8. \A x \in 1..Len(calls) : Wanted(x, up2, r) => Asked(x, k)
  OBVIOUS
<1> HIDE DEF s, r
<1>9. /\ toServer' = [toServer EXCEPT ![k] = up2] /\ toClient' = [toClient EXCEPT ![k] = down2]
      /\ cl' = c2 /\ calls' = calls /\ ClientOn(c2, calls) /\ k = cl.conn
      /\ c2.conn = cl.conn /\ (c2.pc # "idle" => cl.pc # "idle")
      /\ up2 \in Seq(Frame) /\ down2 \in Seq(Frame) /\ c2 \in ClientEnd /\ HttpInv
  OBVIOUS
<1> QED
  BY ONLY <1>1, <1>2, <1>3, <1>4, <1>5, <1>7, <1>8, <1>9, Step

LEMMA DeliversOne ==
    ASSUME HttpInv, cl.conn # 0, NEW k, k = cl.conn, NEW f \in Frame, Deliver(<<f>>)
    PROVE  \E up2 \in Seq(Frame) : /\ toServer' = [toServer EXCEPT ![k] = up2]
                                   /\ Told(socket[k], toServer[k], up2, f)
<1>0. k \in Conns
  BY OnOwn
<1>1. toServer[k] \in Seq(Frame) /\ toServer = [toServer EXCEPT ![k] = toServer[k]]
  BY <1>0, OnOne
<1>2. CASE socket[k] = "up"
  <2> DEFINE up2 == Append(toServer[k], f)
  <2>1. toServer' = [toServer EXCEPT ![k] = up2]
    BY <1>1, <1>2, OneMore DEF Deliver
  <2>2. up2 \in Seq(Frame) /\ Given(toServer[k], up2, f)
    BY <1>1, AppendIsGiven
  <2> QED BY <2>1, <2>2, <1>2 DEF Told
<1>3. CASE socket[k] # "up"
  BY <1>1, <1>3 DEF Deliver, Told
<1> QED BY <1>2, <1>3

LEMMA SendBodyKeeps ==
    ASSUME HttpInv, SendBody
    PROVE  HttpInv'
<1> DEFINE k == cl.conn
           s == socket[k]
           up == toServer[k]
           down == toClient[k]
           r == srv[k]
           last == cl.left = 1
           f == Data(cl.stream, 1, last)
           a == cl.left - 1
           b == cl.connWindow - 1
           w == cl.window - 1
           p == IF cl.left = 1 THEN "reading" ELSE "sending"
           c2 == [cl EXCEPT !.left = @ - 1, !.connWindow = @ - 1, !.window = @ - 1, !.pc = p]
<1>1. cl.pc = "sending" /\ cl.connWindow >= 1 /\ cl.window >= 1
  BY DEF SendBody, HasCredit
<1>2. cl.conn # 0 /\ cl.stream \in Streams
  BY <1>1, Working
<1>3. /\ k \in Conns
      /\ Typed(TRUE, s, up, down, r, cl, calls) /\ ConnOn(TRUE, s, up, down, r, cl, calls)
  BY <1>2, OnOwn
<1>4. ClientOn(cl, calls) /\ cl \in ClientEnd /\ down \in Seq(Frame)
      /\ toClient = [toClient EXCEPT ![k] = down]
  BY <1>3, OnOne
<1>5. f \in Frame /\ f.type = "DATA"
  BY <1>2, Http2Assumption DEF Data, Frame, FrameTypes, Streams
<1>6. c2 \in ClientEnd
  <2>1. a \in Nat /\ b \in Nat /\ w \in Nat /\ p \in {"idle", "sending", "reading"}
    BY <1>1, <1>4, ClientNumbers DEF ClientOn
  <2>2. c2 = [cl EXCEPT !.left = a, !.connWindow = b, !.window = w, !.pc = p]
    BY <1>4 DEF ClientEnd
  <2> HIDE DEF a, b, w, p, c2
  <2> QED BY <1>4, <2>1, <2>2 DEF ClientEnd
<1>7. cl' = c2 /\ Deliver(<<f>>)
  BY DEF SendBody, IsLast
<1>8. toClient' = [toClient EXCEPT ![k] = down] /\ UNCHANGED <<socket, srv, calls, breaks, stopping>>
  BY <1>4 DEF SendBody
<1>9. /\ c2 = [cl EXCEPT !.left = @ - 1, !.connWindow = @ - 1, !.window = @ - 1, !.pc = p]
      /\ p = IF cl.left = 1 THEN "reading" ELSE "sending"
      /\ c2.conn = cl.conn /\ (last <=> cl.left = 1)
  BY <1>4 DEF ClientEnd
<1> HIDE DEF c2, f
<1>10. PICK up2 \in Seq(Frame) : toServer' = [toServer EXCEPT ![k] = up2] /\ Told(s, up, up2, f)
  BY <1>2, <1>5, <1>7, DeliversOne
<1>11. f.type = "DATA" /\ f.stream = cl.stream /\ f.n = 1 /\ (f.last <=> cl.left = 1)
  BY DEF f, Data
<1>12. \A x \in 1..Len(calls) : Wanted(x, up2, r) => Asked(x, k)
  BY <1>5, <1>10 DEF Asked, Wanted, Told, Given
<1> HIDE DEF s, up, down, r, k, a, b, w, p, last
<1>13. ConnOn(TRUE, s, up2, down, r, c2, calls) /\ ClientOn(c2, calls)
  BY ONLY <1>1, <1>3, <1>4, <1>6, <1>9, <1>10, <1>11, SendsBody
<1> QED
  BY <1>1, <1>2, <1>4, <1>6, <1>7, <1>8, <1>9, <1>10, <1>12, <1>13, ClientStep DEF k, s, up, down, r

LEMMA RequestKeeps ==
    ASSUME HttpInv, NEW size \in 1..MaxBody, NEW reply \in 0..MaxBody, Request(size, reply)
    PROVE  HttpInv'
<1> DEFINE k == cl.conn
           s == socket[k]
           up == toServer[k]
           down == toClient[k]
           r == srv[k]
           f == Headers(cl.next, Len(calls) + 1, FALSE)
           call == [size |-> size, reply |-> reply, outcome |-> "none", ran |-> 0, got |-> 0]
           cs2 == Append(calls, call)
           n == cl.next + 1
           i == cl.initial
           c2 == [cl EXCEPT !.pc = "sending", !.stream = cl.next, !.next = @ + 1, !.left = size,
                            !.seen = FALSE, !.got = 0, !.window = cl.initial]
<1>1. cl.pc = "idle" /\ cl.conn # 0 /\ Len(calls) < MaxCalls
  BY DEF Request, Current
<1>2. /\ k \in Conns
      /\ Typed(TRUE, s, up, down, r, cl, calls) /\ ConnOn(TRUE, s, up, down, r, cl, calls)
  BY <1>1, OnOwn
<1>3. /\ ClientOn(cl, calls) /\ cl \in ClientEnd /\ calls \in Seq(Call) /\ Len(calls) \in Nat
      /\ down \in Seq(Frame) /\ r \in ServerEnd /\ s \in {"none", "up", "shut", "gone", "broken"}
      /\ breaks \in Nat /\ stopping \in BOOLEAN
      /\ toClient = [toClient EXCEPT ![k] = down]
      /\ socket = [socket EXCEPT ![k] = s] /\ srv = [srv EXCEPT ![k] = r]
  <2> HIDE DEF k
  <2> QED BY <1>2, OnOne
<1>4. cl.next \in Streams
  <2>1. cl.next \in Nat \ {0} /\ cl.next <= Len(calls) + 1
    BY <1>3 DEF ClientOn, ClientEnd
  <2> QED BY <2>1, <1>1, <1>3, Http2Assumption DEF Streams
<1>5. f \in Frame /\ f.type = "HEADERS" /\ f.n = Len(calls) + 1
  BY <1>3, <1>4, Http2Assumption DEF Headers, Frame, FrameTypes, Streams
<1>6. call \in Call /\ call.ran = 0 /\ call.outcome = "none" /\ call.size = size
  BY Http2Assumption DEF Call
<1>7. c2 = [cl EXCEPT !.pc = "sending", !.stream = cl.next, !.next = @ + 1, !.left = call.size,
                      !.seen = FALSE, !.got = 0, !.window = cl.initial]
  BY <1>6
<1>8. c2 \in ClientEnd
  <2>1. n \in Nat \ {0} /\ i \in Nat /\ cl.next \in 0..MaxCalls /\ size \in Nat
    BY <1>3, <1>4, ClientNumbers, Http2Assumption DEF Streams
  <2>2. c2 = [cl EXCEPT !.pc = "sending", !.stream = cl.next, !.next = n, !.left = size,
                        !.seen = FALSE, !.got = 0, !.window = i]
    BY <1>3 DEF ClientEnd
  <2> HIDE DEF n, i, c2
  <2> QED BY <1>3, <2>1, <2>2 DEF ClientEnd
<1>9. cl' = c2 /\ calls' = cs2 /\ Deliver(<<f>>)
  BY DEF Request, Current
<1>10. /\ toClient' = [toClient EXCEPT ![k] = down]
       /\ socket' = [socket EXCEPT ![k] = s] /\ srv' = [srv EXCEPT ![k] = r]
       /\ breaks' \in Nat /\ stopping' \in BOOLEAN
  BY <1>3 DEF Request
<1>11. c2.conn = cl.conn /\ c2.pc = "sending"
  BY <1>3 DEF ClientEnd
<1> HIDE DEF c2, f, call
<1>12. /\ cs2 \in Seq(Call) /\ Len(cs2) = Len(calls) + 1 /\ cs2[Len(cs2)] = call
       /\ \A x \in 1..Len(calls) : cs2[x] = calls[x]
  BY <1>3, <1>6
<1>13. True(cs2[Len(cs2)])
  BY <1>6, <1>12 DEF True
<1>14. cs2 = Append(calls, call)
  OBVIOUS
<1> HIDE DEF cs2
<1>15. PICK up2 \in Seq(Frame) : toServer' = [toServer EXCEPT ![k] = up2] /\ Told(s, up, up2, f)
  BY <1>1, <1>5, <1>9, DeliversOne
<1>16. Told(s, up, up2, Headers(cl.next, Len(calls) + 1, FALSE))
  BY <1>15 DEF f
<1>17. \A x \in 1..Len(calls) : Wanted(x, up2, r) => Asked(x, k)
  <2>1. \A x \in 1..Len(calls) : x # Len(calls) + 1
    BY <1>3
  <2> QED BY <2>1, <1>5, <1>15 DEF Asked, Wanted, Told, Given
<1> HIDE DEF s, up, down, r, k
<1>18. ConnOn(TRUE, s, up2, down, r, c2, cs2) /\ ClientOn(c2, cs2)
  BY ONLY <1>1, <1>2, <1>3, <1>4, <1>6, <1>7, <1>8, <1>14, <1>16, k = cl.conn, Requests DEF k
<1>19. (k = c2.conn) = TRUE /\ k = cl.conn
  BY <1>11 DEF k
<1>20. ConnOn(k = c2.conn, s, up2, down, r, c2, cs2)
  BY <1>18, <1>19
<1>21. Len(cs2) <= MaxCalls /\ Len(cs2) > Len(calls)
  BY <1>1, <1>3, <1>12, Http2Assumption
<1>22. /\ k \in Conns /\ s \in {"none", "up", "shut", "gone", "broken"}
       /\ up2 \in Seq(Frame) /\ down \in Seq(Frame) /\ r \in ServerEnd
       /\ socket' = [socket EXCEPT ![k] = s]
       /\ toServer' = [toServer EXCEPT ![k] = up2] /\ toClient' = [toClient EXCEPT ![k] = down]
       /\ srv' = [srv EXCEPT ![k] = r] /\ breaks' \in Nat /\ stopping' \in BOOLEAN
       /\ ConnOn(k = c2.conn, s, up2, down, r, c2, cs2) /\ ClientOn(c2, cs2)
  BY ONLY <1>2, <1>3, <1>10, <1>15, <1>18, <1>20
<1>23. /\ c2 \in ClientEnd /\ cs2 \in Seq(Call) /\ Len(cs2) <= MaxCalls
       /\ cl' = c2 /\ calls' = cs2 /\ c2.conn = cl.conn /\ k = cl.conn
       /\ Len(cs2) = Len(calls) + 1 /\ Len(cs2) > Len(calls) /\ True(cs2[Len(cs2)])
       /\ \A x \in 1..Len(calls) : Wanted(x, up2, r) => Asked(x, k)
       /\ \A x \in 1..Len(calls) : cs2[x] = calls[x]
  BY ONLY <1>8, <1>9, <1>11, <1>12, <1>13, <1>17, <1>19, <1>21
<1> QED
  BY ONLY HttpInv, <1>22, <1>23, Step

\* A frame the client takes from its own connection.
LEMMA TakesOne ==
    ASSUME HttpInv, cl.pc # "idle", toClient[cl.conn] # <<>>,
           NEW k, k = cl.conn, NEW f, f = Head(toClient[k]), Pop(toClient, k)
    PROVE  \E down2 \in Seq(Frame) : /\ toClient' = [toClient EXCEPT ![k] = down2]
                                     /\ Taken(toClient[k], down2)
                                     /\ f = toClient[k][1] /\ f \in Frame
<1>1. k \in Conns
  BY Working, OnOwn
<1>2. toClient[k] \in Seq(Frame)
  BY <1>1, OnOne
<1>3. Taken(toClient[k], Tail(toClient[k])) /\ Head(toClient[k]) = toClient[k][1]
  BY <1>2, TailIsTaken
<1>4. toClient' = [toClient EXCEPT ![k] = Tail(toClient[k])]
  BY DEF Pop
<1>5. Tail(toClient[k]) \in Seq(Frame) /\ toClient[k][1] \in Frame
  BY <1>3 DEF Taken
<1> QED BY <1>3, <1>4, <1>5

LEMMA ReadCreditKeeps ==
    ASSUME HttpInv, ReadCredit
    PROVE  HttpInv'
<1> DEFINE k == cl.conn
           s == socket[k]
           up == toServer[k]
           down == toClient[k]
           r == srv[k]
           f == Head(down)
           w == cl.window + (Window + f.n - cl.initial)
           i == Window + f.n
           a == cl.connWindow + f.n
           b == cl.window + f.n
           ca == [cl EXCEPT !.connWindow = @ + f.n]
           cb == [cl EXCEPT !.window = @ + f.n]
           cs == [cl EXCEPT !.initial = Window + f.n, !.window = @ + (Window + f.n - cl.initial)]
           c2 == IF f.type = "SETTINGS" THEN cs ELSE IF f.stream = 0 THEN ca ELSE cb
<1>1. cl.pc # "idle" /\ down # <<>> /\ f.type \in {"WINDOW_UPDATE", "SETTINGS"} /\ Pop(toClient, k)
  BY DEF ReadCredit, Reads
<1>2. cl.conn # 0
  BY <1>1, Working
<1>3. /\ k \in Conns
      /\ Typed(TRUE, s, up, down, r, cl, calls) /\ ConnOn(TRUE, s, up, down, r, cl, calls)
  BY <1>2, OnOwn
<1>4. ClientOn(cl, calls) /\ cl \in ClientEnd /\ up \in Seq(Frame)
      /\ toServer = [toServer EXCEPT ![k] = up]
  <2> HIDE DEF k
  <2> QED BY <1>3, OnOne
<1>5. toServer' = [toServer EXCEPT ![k] = up] /\ UNCHANGED <<socket, srv, calls, breaks, stopping>>
  BY <1>4 DEF ReadCredit
<1>6. cl' = c2
  BY DEF ReadCredit, Adjusted, Credited
<1>7. PICK down2 \in Seq(Frame) : /\ toClient' = [toClient EXCEPT ![k] = down2]
                                  /\ Taken(down, down2) /\ f = down[1] /\ f \in Frame
  BY <1>1, TakesOne
<1>8. /\ f.n \in Nat /\ cl.connWindow \in Nat /\ cl.window \in Nat /\ cl.initial \in Nat
      /\ f.type = "SETTINGS" => f.n = Raise /\ cl.initial = Window
  <2>1. 1 \in 1..Len(down)
    BY <1>7, TakenAt
  <2> QED BY <2>1, <1>3, <1>4, <1>7, FrameNumbers, ClientNumbers DEF ConnOn, SettingsDown, Frame
<1>9. ca \in ClientEnd /\ cb \in ClientEnd
  <2>1. a \in Nat /\ b \in Nat
    BY <1>8
  <2>2. ca = [cl EXCEPT !.connWindow = a] /\ cb = [cl EXCEPT !.window = b]
    BY <1>4 DEF ClientEnd
  <2> HIDE DEF a, b, ca, cb
  <2> QED BY <1>4, <2>1, <2>2 DEF ClientEnd
<1>10. f.type = "SETTINGS" => cs \in ClientEnd
  <2> SUFFICES ASSUME f.type = "SETTINGS" PROVE cs \in ClientEnd
    OBVIOUS
  <2>1. w \in Nat /\ i \in Windows
    BY <1>8, Http2Assumption DEF Windows
  <2>2. cs = [cl EXCEPT !.initial = i, !.window = w]
    BY <1>4 DEF ClientEnd
  <2> HIDE DEF i, w, cs
  <2> QED BY <1>4, <2>1, <2>2 DEF ClientEnd
<1>11. c2 \in ClientEnd /\ c2.conn = cl.conn /\ c2.pc = cl.pc
  <2>1. /\ ca.conn = cl.conn /\ cb.conn = cl.conn /\ cs.conn = cl.conn
        /\ ca.pc = cl.pc /\ cb.pc = cl.pc /\ cs.pc = cl.pc
    BY <1>4 DEF ClientEnd
  <2> HIDE DEF ca, cb, cs
  <2> QED BY <2>1, <1>9, <1>10
<1>12. ConnOn(TRUE, s, up, down2, r, c2, calls) /\ ClientOn(c2, calls)
  <2>1. CASE f.type = "SETTINGS"
    <3>1. c2 = [cl EXCEPT !.initial = Window + f.n, !.window = @ + (Window + f.n - cl.initial)]
      BY <2>1
    <3> HIDE DEF k, s, up, down, r, f, c2, ca, cb, cs
    <3> QED BY ONLY <1>1, <1>3, <1>4, <1>7, <1>11, <2>1, <3>1, ClientTakesSettings
  <2>2. CASE f.type # "SETTINGS"
    <3>1. c2 = IF f.stream = 0 THEN ca ELSE cb
      BY <2>2
    <3>2. CASE f.stream = 0
      <4>1. c2 = [cl EXCEPT !.connWindow = @ + f.n]
        BY <3>1, <3>2
      <4> HIDE DEF k, s, up, down, r, f, c2, ca, cb, cs
      <4> QED BY <1>1, <1>3, <1>4, <1>7, <1>11, <2>2, <3>2, <4>1, ClientTakesCredit
    <3>3. CASE f.stream # 0
      <4>1. c2 = [cl EXCEPT !.window = @ + f.n]
        BY <3>1, <3>3
      <4> HIDE DEF k, s, up, down, r, f, c2, ca, cb, cs
      <4> QED BY <1>1, <1>3, <1>4, <1>7, <1>11, <2>2, <3>3, <4>1, ClientTakesCredit
    <3> QED BY <3>2, <3>3
  <2> QED BY <2>1, <2>2
<1>13. \A x \in 1..Len(calls) : Wanted(x, up, r) => Asked(x, k)
  BY DEF Asked
<1> HIDE DEF c2
<1> QED
  BY <1>1, <1>2, <1>4, <1>5, <1>6, <1>7, <1>11, <1>12, <1>13, ClientStep

\* A GOAWAY under a call whose answer has begun.
LEMMA LateGoawayKeeps ==
    ASSUME HttpInv, Reads, toClient[cl.conn] # <<>>, Head(toClient[cl.conn]).type = "GOAWAY",
           Pop(toClient, cl.conn), cl.seen,
           cl' = [cl EXCEPT !.goaway = TRUE], UNCHANGED <<socket, calls, toServer, srv, stopping, breaks>>
    PROVE  HttpInv'
<1> DEFINE k == cl.conn
           s == socket[k]
           up == toServer[k]
           down == toClient[k]
           r == srv[k]
           f == Head(down)
           c2 == [cl EXCEPT !.goaway = TRUE]
<1>1. cl.pc # "idle" /\ down # <<>> /\ f.type = "GOAWAY" /\ Pop(toClient, k) /\ cl.seen
  BY DEF Reads
<1>2. cl.conn # 0
  BY <1>1, Working
<1>3. /\ k \in Conns
      /\ Typed(TRUE, s, up, down, r, cl, calls) /\ ConnOn(TRUE, s, up, down, r, cl, calls)
  BY <1>2, OnOwn
<1>4. ClientOn(cl, calls) /\ cl \in ClientEnd /\ up \in Seq(Frame)
      /\ toServer = [toServer EXCEPT ![k] = up]
  <2> HIDE DEF k
  <2> QED BY <1>3, OnOne
<1>5. toServer' = [toServer EXCEPT ![k] = up] /\ UNCHANGED <<socket, srv, calls, breaks, stopping>>
  BY <1>4
<1>7. PICK down2 \in Seq(Frame) : /\ toClient' = [toClient EXCEPT ![k] = down2]
                                  /\ Taken(down, down2) /\ f = down[1] /\ f \in Frame
  BY <1>1, TakesOne
<1>8. c2 \in ClientEnd /\ c2.conn = cl.conn /\ c2.pc = cl.pc /\ cl' = c2
  BY <1>4 DEF ClientEnd
<1>9. ConnOn(TRUE, s, up, down2, r, c2, calls) /\ ClientOn(c2, calls)
  <2>1. c2 = [cl EXCEPT !.goaway = TRUE]
    OBVIOUS
  <2> HIDE DEF k, s, up, down, r, f, c2
  <2> QED BY ONLY <1>1, <1>3, <1>4, <1>7, <1>8, <2>1, ClientTakesGoaway
<1>10. \A x \in 1..Len(calls) : Wanted(x, up, r) => Asked(x, k)
  BY DEF Asked
<1> HIDE DEF c2
<1> QED
  BY <1>1, <1>2, <1>4, <1>5, <1>7, <1>8, <1>9, <1>10, ClientStep

\* The HEADERS that begin the answer.
LEMMA AnswerBeginsKeeps ==
    ASSUME HttpInv, cl.pc = "reading", toClient[cl.conn] # <<>>,
           NEW f, f = Head(toClient[cl.conn]), f.type = "HEADERS", ~f.last,
           Pop(toClient, cl.conn),
           cl' = [cl EXCEPT !.seen = TRUE], UNCHANGED <<socket, calls, toServer, srv, stopping, breaks>>
    PROVE  HttpInv'
<1> DEFINE k == cl.conn
           s == socket[k]
           up == toServer[k]
           down == toClient[k]
           r == srv[k]
           c2 == [cl EXCEPT !.seen = TRUE]
<1>1. cl.pc = "reading" /\ cl.pc # "idle" /\ down # <<>> /\ f = Head(down) /\ Pop(toClient, k)
      /\ f.type = "HEADERS" /\ ~f.last
  OBVIOUS
<1>2. cl.conn # 0
  BY <1>1, Working
<1>3. /\ k \in Conns
      /\ Typed(TRUE, s, up, down, r, cl, calls) /\ ConnOn(TRUE, s, up, down, r, cl, calls)
  BY <1>2, OnOwn
<1>4. ClientOn(cl, calls) /\ cl \in ClientEnd /\ up \in Seq(Frame)
      /\ toServer = [toServer EXCEPT ![k] = up]
  <2> HIDE DEF k
  <2> QED BY <1>3, OnOne
<1>5. toServer' = [toServer EXCEPT ![k] = up] /\ UNCHANGED <<socket, srv, calls, breaks, stopping>>
  BY <1>4
<1>7. PICK down2 \in Seq(Frame) : /\ toClient' = [toClient EXCEPT ![k] = down2]
                                  /\ Taken(down, down2) /\ f = down[1] /\ f \in Frame
  BY <1>1, TakesOne
<1>8. c2 \in ClientEnd /\ c2.conn = cl.conn /\ c2.pc = cl.pc /\ cl' = c2
  BY <1>4 DEF ClientEnd
<1>9. ConnOn(TRUE, s, up, down2, r, c2, calls) /\ ClientOn(c2, calls)
  <2>1. c2 = [cl EXCEPT !.seen = TRUE]
    OBVIOUS
  <2> HIDE DEF k, s, up, down, r, c2
  <2> QED BY ONLY <1>1, <1>3, <1>4, <1>7, <1>8, <2>1, AnswerBegins
<1>10. \A x \in 1..Len(calls) : Wanted(x, up, r) => Asked(x, k)
  BY DEF Asked
<1> HIDE DEF c2
<1> QED
  BY <1>1, <1>2, <1>4, <1>5, <1>7, <1>8, <1>9, <1>10, ClientStep

\* The HEADERS that end it.
LEMMA AnswerEndsKeeps ==
    ASSUME HttpInv, cl.pc = "reading", toClient[cl.conn] # <<>>,
           NEW f, f = Head(toClient[cl.conn]), f.type = "HEADERS", f.last,
           Pop(toClient, cl.conn),
           NEW outcome \in {"ok", "error"},
           calls' = [calls EXCEPT ![Len(calls)] =
                        [calls[Len(calls)] EXCEPT !.outcome = outcome, !.got = cl.got]],
           cl' = [cl EXCEPT !.pc = "idle"], UNCHANGED <<socket, toServer, srv, stopping, breaks>>
    PROVE  HttpInv'
<1> DEFINE k == cl.conn
           s == socket[k]
           up == toServer[k]
           down == toClient[k]
           r == srv[k]
           n == Len(calls)
           v == [calls[n] EXCEPT !.outcome = outcome, !.got = cl.got]
           cs2 == [calls EXCEPT ![n] = v]
           c2 == [cl EXCEPT !.pc = "idle"]
<1>1. cl.pc = "reading" /\ cl.pc # "idle" /\ down # <<>> /\ f = Head(down) /\ Pop(toClient, k)
      /\ f.type = "HEADERS" /\ f.last
  OBVIOUS
<1>2. cl.conn # 0 /\ n # 0 /\ n \in 1..n
  BY <1>1, Working
<1>3. /\ k \in Conns
      /\ Typed(TRUE, s, up, down, r, cl, calls) /\ ConnOn(TRUE, s, up, down, r, cl, calls)
  BY <1>2, OnOwn
<1>4. /\ ClientOn(cl, calls) /\ cl \in ClientEnd /\ calls \in Seq(Call) /\ n \in Nat /\ n <= MaxCalls
      /\ up \in Seq(Frame) /\ r \in ServerEnd /\ s \in {"none", "up", "shut", "gone", "broken"}
      /\ breaks \in Nat /\ stopping \in BOOLEAN
      /\ toServer = [toServer EXCEPT ![k] = up]
      /\ socket = [socket EXCEPT ![k] = s] /\ srv = [srv EXCEPT ![k] = r]
  <2> HIDE DEF k
  <2> QED BY <1>3, OnOne
<1>5. /\ toServer' = [toServer EXCEPT ![k] = up] /\ socket' = [socket EXCEPT ![k] = s]
      /\ srv' = [srv EXCEPT ![k] = r] /\ breaks' \in Nat /\ stopping' \in BOOLEAN
  <2>1. UNCHANGED <<socket, toServer, srv, stopping, breaks>>
    OBVIOUS
  <2> QED BY ONLY <2>1, <1>4
<1>6. v \in Call
  <2>1. calls[n] \in Call /\ cl.got \in Nat
    BY <1>2, <1>4, ClientNumbers
  <2> QED BY <2>1 DEF Call
<1>7. PICK down2 \in Seq(Frame) : /\ toClient' = [toClient EXCEPT ![k] = down2]
                                  /\ Taken(down, down2) /\ f = down[1] /\ f \in Frame
  BY <1>1, TakesOne
<1>8. c2 \in ClientEnd /\ c2.conn = cl.conn /\ c2.pc = "idle" /\ cl' = c2
  BY <1>4 DEF ClientEnd
<1>9. calls' = cs2
  OBVIOUS
<1>10. /\ cs2 \in Seq(Call) /\ Len(cs2) = n /\ cs2[n] = v
       /\ \A x \in 1..n : x # n => cs2[x] = calls[x]
  <2> HIDE DEF v
  <2> QED BY <1>2, <1>4, <1>6, Changed
<1>11. ConnOn(TRUE, s, up, down2, r, c2, cs2) /\ ClientOn(c2, cs2) /\ True(cs2[n])
  <2>1. c2 = [cl EXCEPT !.pc = "idle"]
    OBVIOUS
  <2>2. cs2 = [calls EXCEPT ![Len(calls)] = [calls[Len(calls)] EXCEPT !.outcome = outcome, !.got = cl.got]]
    OBVIOUS
  <2>3. outcome \in {"ok", "error"} /\ Len(calls) # 0 /\ cs2 \in Seq(Call)
    BY <1>2, <1>10
  <2> HIDE DEF k, s, up, down, r, c2, cs2, v
  <2>4. n = Len(calls)
    OBVIOUS
  <2> HIDE DEF n
  <2> QED BY ONLY <1>1, <1>3, <1>4, <1>7, <1>8, <2>1, <2>2, <2>3, <2>4, AnswerEnds
<1>12. \A x \in 1..n : Wanted(x, up, r) => Asked(x, k)
  BY DEF Asked
<1> HIDE DEF c2, cs2, v
<1>13. \A x \in 1..n : cs2[x] # calls[x] => True(cs2[x]) /\ x = n
  BY <1>10, <1>11
<1>14. (k = c2.conn) = TRUE /\ k = cl.conn
  BY <1>8
<1>15. ConnOn(k = c2.conn, s, up, down2, r, c2, cs2)
  BY <1>11, <1>14
<1>16. ~(Len(cs2) > n) /\ Len(cs2) <= MaxCalls
  BY <1>4, <1>10
<1> HIDE DEF k, s, up, down, r
<1>17. \A x \in 1..Len(calls) : cs2[x] # calls[x] =>
              /\ True(cs2[x])
              /\ Asked(x, k) \/ (x = Len(calls) /\ k = cl.conn /\ cl.pc # "idle")
  BY <1>1, <1>13, <1>14
<1>18. /\ k \in Conns /\ s \in {"none", "up", "shut", "gone", "broken"}
       /\ up \in Seq(Frame) /\ down2 \in Seq(Frame) /\ r \in ServerEnd
       /\ socket' = [socket EXCEPT ![k] = s]
       /\ toServer' = [toServer EXCEPT ![k] = up] /\ toClient' = [toClient EXCEPT ![k] = down2]
       /\ srv' = [srv EXCEPT ![k] = r] /\ breaks' \in Nat /\ stopping' \in BOOLEAN
       /\ ConnOn(k = c2.conn, s, up, down2, r, c2, cs2) /\ ClientOn(c2, cs2)
  BY <1>3, <1>4, <1>5, <1>7, <1>11, <1>15
<1>19. /\ c2 \in ClientEnd /\ cs2 \in Seq(Call) /\ Len(cs2) <= MaxCalls
       /\ cl' = c2 /\ calls' = cs2 /\ c2.conn = cl.conn /\ k = cl.conn /\ c2.pc = "idle"
       /\ Len(cs2) = Len(calls) /\ ~(Len(cs2) > Len(calls))
       /\ \A x \in 1..Len(calls) : Wanted(x, up, r) => Asked(x, k)
  BY <1>8, <1>9, <1>10, <1>12, <1>14, <1>16
<1> HIDE DEF n
<1> QED
  BY ONLY HttpInv, <1>17, <1>18, <1>19, Step

LEMMA ReadDataKeeps ==
    ASSUME HttpInv, ReadData
    PROVE  HttpInv'
<1> DEFINE k == cl.conn
           s == socket[k]
           up == toServer[k]
           down == toClient[k]
           r == srv[k]
           f == Head(down)
           up2 == IF s = "up" THEN up \o <<Credit(0, 1), Credit(cl.stream, 1)>> ELSE up
           a == cl.got + f.n
           c2 == [cl EXCEPT !.got = @ + f.n]
<1>1. cl.pc = "reading" /\ cl.pc # "idle" /\ down # <<>> /\ Pop(toClient, k)
      /\ f.type = "DATA" /\ f.stream = cl.stream /\ cl' = c2
  BY DEF ReadData
<1>2. cl.conn # 0 /\ cl.stream \in Streams
  BY <1>1, Working
<1>3. /\ k \in Conns
      /\ Typed(TRUE, s, up, down, r, cl, calls) /\ ConnOn(TRUE, s, up, down, r, cl, calls)
  BY <1>2, OnOwn
<1>4. ClientOn(cl, calls) /\ cl \in ClientEnd /\ up \in Seq(Frame)
      /\ toServer = [toServer EXCEPT ![k] = up]
  <2> HIDE DEF k
  <2> QED BY <1>3, OnOne
<1>5. UNCHANGED <<socket, srv, calls, breaks, stopping>>
  BY DEF ReadData
<1>6. PICK down2 \in Seq(Frame) : /\ toClient' = [toClient EXCEPT ![k] = down2]
                                  /\ Taken(down, down2) /\ f = down[1] /\ f \in Frame
  BY <1>1, TakesOne
<1>7. f.n = 1
  BY <1>1, <1>6 DEF Frame
<1>8. toServer' = [toServer EXCEPT ![k] = up2]
  BY <1>1, <1>4, <1>7 DEF ReadData, Deliver, Replenish
<1>9. c2 \in ClientEnd /\ c2.conn = cl.conn /\ c2.pc = cl.pc
  <2>1. a \in Nat
    BY <1>4, <1>7, ClientNumbers
  <2>2. c2 = [cl EXCEPT !.got = a]
    BY <1>4 DEF ClientEnd
  <2> HIDE DEF a
  <2> QED BY <1>4, <2>1, <2>2 DEF ClientEnd
<1>10. /\ Repaid(up, up2, f.stream) /\ up2 \in Seq(Frame)
       /\ s # "up" => up2 = up
       /\ s = "up" => OnWire(up2, "WINDOW_UPDATE", 0) = OnWire(up, "WINDOW_UPDATE", 0) + 1
       /\ s = "up" => OnWire(up2, "WINDOW_UPDATE", f.stream) = OnWire(up, "WINDOW_UPDATE", f.stream) + 1
  <2>1. CASE s # "up"
    <3>1. up2 = up
      BY <2>1
    <3> QED BY <2>1, <3>1, <1>4, SameRepaid
  <2>2. CASE s = "up"
    <3>1. up2 = up \o <<Credit(0, 1), Credit(cl.stream, 1)>>
      BY <2>2
    <3> HIDE DEF up2, up, f, s
    <3> QED BY <2>2, <3>1, <1>1, <1>2, <1>4, BothRepaid
  <2> QED BY <2>1, <2>2
<1>11. ConnOn(TRUE, s, up2, down2, r, c2, calls) /\ ClientOn(c2, calls)
  <2>1. c2 = [cl EXCEPT !.got = a] /\ a = cl.got + f.n
    BY <1>4 DEF ClientEnd
  <2>2. cl.pc = "reading" /\ f.type = "DATA" /\ f.stream = cl.stream
    BY <1>1
  <2>3. Returns(s, up, up2, f.stream)
    BY <1>10 DEF Returns
  <2> HIDE DEF k, s, up, up2, down, r, f, c2, a
  <2> QED BY ONLY <1>3, <1>4, <1>6, <1>9, <2>1, <2>2, <2>3, AnswerGoesOn
<1>12. \A x \in 1..Len(calls) : Wanted(x, up2, r) => Asked(x, k)
  <2>1. \A i \in 1..Len(up2) : up2[i].type = "HEADERS" => i \in 1..Len(up) /\ up2[i] = up[i]
    BY <1>10 DEF Repaid
  <2> HIDE DEF up2
  <2> QED BY <2>1 DEF Asked, Wanted
<1> HIDE DEF c2, up2
<1> QED
  BY <1>1, <1>2, <1>4, <1>5, <1>6, <1>8, <1>9, <1>10, <1>11, <1>12, ClientStep

\* The client gives a call up and closes the connection under it.
LEMMA FailKeeps ==
    ASSUME HttpInv, cl.pc # "idle", NEW what \in {"unavailable", "refused", "deadline"}, Fail(what),
           what = "refused" => calls[Len(calls)].ran = 0 /\ srv[cl.conn].pc = "closed",
           toClient' = toClient \/ (toClient[cl.conn] # <<>> /\ Pop(toClient, cl.conn)),
           UNCHANGED <<toServer, srv, stopping>>, breaks' \in Nat
    PROVE  HttpInv'
<1> DEFINE n == Len(calls)
           v == [calls[n] EXCEPT !.outcome = what]
           cs2 == [calls EXCEPT ![n] = v]
<1> USE DEF HttpInv
<1>1. /\ WireTypeOK /\ calls \in Seq(Call) /\ n \in Nat /\ n <= MaxCalls /\ n \in 1..n
      /\ cl \in ClientEnd /\ ClientOn(cl, calls) /\ cl.conn \in Conns
      /\ calls[n] \in Call /\ calls[n].outcome = "none"
  <2>1. WireTypeOK /\ n \in 1..n /\ cl.conn # 0 /\ cl.conn \in Conns /\ ClientOn(cl, calls)
    BY Working, OnOwn
  <2> QED BY <2>1 DEF WireTypeOK, ClientOn
<1>2. /\ calls' = cs2 /\ cl' = Idle
      /\ socket' = [socket EXCEPT ![cl.conn] = IF @ = "up" THEN "shut" ELSE @]
  BY DEF Fail, Outcome, Current, AfterFailure, Closed, Shut, Idle
<1>3. v \in Call /\ v.size = calls[n].size /\ v.ran = calls[n].ran /\ v.outcome = what
  BY <1>1 DEF Call
<1> HIDE DEF v
<1>4. /\ cs2 \in Seq(Call) /\ Len(cs2) = n /\ cs2[n] = v
      /\ \A x \in 1..n : x # n => cs2[x] = calls[x]
  BY <1>1, <1>3, Changed
<1> HIDE DEF cs2
<1>5. \A k \in Conns : toServer'[k] = toServer[k] /\ srv'[k] = srv[k]
  OBVIOUS
<1>6. ASSUME NEW k \in Conns
      PROVE  /\ toClient'[k] = toClient[k] \/ Taken(toClient[k], toClient'[k])
             /\ toClient'[k] \in Seq(Frame)
  <2>1. toClient \in [Conns -> Seq(Frame)]
    BY <1>1 DEF WireTypeOK
  <2>2. CASE toClient'[k] = toClient[k]
    BY <2>1, <2>2
  <2>3. CASE toClient'[k] # toClient[k]
    <3>1. k = cl.conn /\ toClient[k] # <<>> /\ toClient'[k] = Tail(toClient[k])
      BY <1>1, <2>1, <2>3 DEF Pop
    <3>2. Taken(toClient[k], toClient'[k])
      BY <2>1, <3>1, TailIsTaken
    <3> QED BY <3>2 DEF Taken
  <2> QED BY <2>2, <2>3
<1>7. toClient' \in [Conns -> Seq(Frame)]
  <2>1. toClient' \in [Conns -> Seq(Frame)]
    <3>1. CASE toClient' = toClient
      BY <1>1, <3>1 DEF WireTypeOK
    <3>2. CASE toClient[cl.conn] # <<>> /\ Pop(toClient, cl.conn)
      <4>1. toClient'[cl.conn] \in Seq(Frame) /\ toClient \in [Conns -> Seq(Frame)]
        BY <1>1, <1>6 DEF WireTypeOK
      <4> QED BY <1>1, <3>2, <4>1 DEF Pop
    <3> QED BY <3>1, <3>2
  <2> QED BY <2>1
<1>8. WireTypeOK'
  <2>1. Idle \in ClientEnd
    BY Http2Assumption DEF Idle, ClientEnd, Windows
  <2>2. socket' \in [Conns -> {"none", "up", "shut", "gone", "broken"}]
    BY <1>1, <1>2 DEF WireTypeOK
  <2>3. stopping' \in BOOLEAN /\ toServer' \in [Conns -> Seq(Frame)] /\ srv' \in [Conns -> ServerEnd]
    <3>1. UNCHANGED <<toServer, srv, stopping>>
      OBVIOUS
    <3> QED BY ONLY <3>1, <1>1 DEF WireTypeOK
  <2> QED BY <2>1, <2>2, <2>3, <1>1, <1>2, <1>4, <1>7 DEF WireTypeOK
<1>9. ClientOn(Idle, cs2)
  BY <1>1, <1>4, Http2Assumption DEF ClientOn, Idle
<1>10. ASSUME NEW k \in Conns PROVE Conn(k)'
  <2> DEFINE s == socket[k]
             up == toServer[k]
             r == srv[k]
  <2>1. /\ Typed(k = cl.conn, s, up, toClient[k], r, cl, calls)
        /\ ConnOn(k = cl.conn, s, up, toClient[k], r, cl, calls)
        /\ up \in Seq(Frame) /\ r \in ServerEnd
    BY OnOne
  <2>2. ThreadOn(up, r, calls)
    BY <2>1 DEF ConnOn
  <2>3. ASSUME NEW x \in 1..n, Wanted(x, up, r)
        PROVE  /\ cs2[x].size = calls[x].size /\ cs2[x].ran = calls[x].ran
               /\ r.pc # "closed" /\ NotRun(calls[x]) => NotRun(cs2[x])
    <3>1. CASE x # n
      BY <1>4, <3>1
    <3>2. CASE x = n
      <4>1. k = cl.conn
        BY <2>3, <3>2 DEF Apart, Asked
      <4>2. what = "refused" => r.pc = "closed"
        BY <4>1
      <4> QED BY <1>3, <1>4, <3>2, <4>2 DEF NotRun
    <3> QED BY <3>1, <3>2
  <2>4. Len(calls) <= Len(cs2)
    BY <1>1, <1>4
  <2> HIDE DEF s, up, r
  <2>5. ThreadOn(up, r, cs2)
    BY ONLY <1>1, <1>4, <2>1, <2>2, <2>3, <2>4, ThreadKept
  <2>6. (socket'[k] = s \/ (s = "up" /\ socket'[k] = "shut")) /\ socket'[k] # "up"
    <3>1. socket \in [Conns -> {"none", "up", "shut", "gone", "broken"}]
      BY <1>1 DEF WireTypeOK
    <3>2. CASE k = cl.conn
      BY <1>2, <3>1, <3>2 DEF s
    <3>3. CASE k # cl.conn
      <4>1. s # "up"
        BY <2>1, <3>3 DEF ConnOn, SocketOn
      <4> QED BY <1>1, <1>2, <3>1, <3>3, <4>1 DEF s
    <3> QED BY <3>2, <3>3
  <2>7. ConnOn(FALSE, socket'[k], up, toClient'[k], r, Idle, cs2)
    BY ONLY <1>6, <2>1, <2>5, <2>6, NotItsOwn
  <2>8. (k = Idle.conn) = FALSE
    BY DEF Idle, Conns
  <2> QED BY <1>2, <1>5, <2>7, <2>8 DEF Conn, up, r
<1>11. Apart'
  <2>1. \A x, k : k \in Conns => (Asked(x, k)' <=> Asked(x, k))
    BY <1>5 DEF Asked
  <2>2. cl'.pc = "idle" /\ Len(calls') = n
    BY <1>2, <1>4 DEF Idle
  <2> QED BY <2>1, <2>2 DEF Apart
<1>12. Outcomes'
  <2>1. True(v)
    BY <1>3 DEF True
  <2> QED BY <2>1, <1>2, <1>4 DEF Outcomes
<1> QED
  BY <1>2, <1>8, <1>9, <1>10, <1>11, <1>12

LEMMA ReadGoawayKeeps ==
    ASSUME HttpInv, ReadGoaway
    PROVE  HttpInv'
<1> DEFINE k == cl.conn
           down == toClient[k]
           f == Head(down)
<1>1. cl.pc # "idle" /\ down # <<>> /\ f.type = "GOAWAY" /\ Pop(toClient, k) /\ Reads
  BY DEF ReadGoaway, Reads
<1>2. UNCHANGED <<toServer, srv, stopping, breaks>>
  BY DEF ReadGoaway
<1>3. CASE cl.seen
  <2>1. cl' = [cl EXCEPT !.goaway = TRUE] /\ UNCHANGED <<socket, calls>>
    BY <1>3 DEF ReadGoaway, GoawayEnds
  <2>2. UNCHANGED <<socket, calls, toServer, srv, stopping, breaks>>
    BY <1>2, <2>1
  <2> QED BY <1>1, <1>3, <2>1, <2>2, LateGoawayKeeps
<1>4. CASE ~cl.seen
  <2>1. Fail("refused")
    BY <1>4 DEF ReadGoaway, GoawayEnds
  <2>2. k \in Conns /\ ConnOn(TRUE, socket[k], toServer[k], down, srv[k], cl, calls)
    BY <1>1, Working, OnOwn
  <2>3. down \in Seq(Frame)
    <3> HIDE DEF k
    <3> QED BY <2>2, OnOne
  <2>4. Head(down) = down[1] /\ 1 \in 1..Len(down)
    BY <1>1, <2>3, TailIsTaken, TakenAt
  <2>5. 1 = Len(down) /\ srv[k].pc = "closed"
    BY <1>1, <2>2, <2>4 DEF ConnOn, AnswerOn, AnswerFrame
  <2>6. Holds(down, "GOAWAY") /\ ~Holds(down, "HEADERS")
    BY <1>1, <2>4, <2>5 DEF Holds
  <2>7. calls[Len(calls)].ran = 0
    BY <1>1, <1>4, <2>2, <2>6 DEF ConnOn, AnswerOn
  <2>8. breaks' \in Nat
    BY <1>2 DEF HttpInv, WireTypeOK
  <2>9. UNCHANGED <<toServer, srv, stopping>>
    BY <1>2
  <2> QED BY <1>1, <2>1, <2>5, <2>7, <2>8, <2>9, FailKeeps
<1> QED BY <1>3, <1>4

LEMMA ReadHeadersKeeps ==
    ASSUME HttpInv, ReadHeaders
    PROVE  HttpInv'
<1> DEFINE k == cl.conn
           down == toClient[k]
           f == Head(down)
<1>1. cl.pc = "reading" /\ down # <<>> /\ f.type = "HEADERS" /\ Pop(toClient, k)
  BY DEF ReadHeaders
<1>2. UNCHANGED <<toServer, srv, stopping, breaks>>
  BY DEF ReadHeaders
<1>3. breaks' \in Nat /\ UNCHANGED <<toServer, srv, stopping>>
  BY <1>2 DEF HttpInv, WireTypeOK
<1>4. CASE f.stream # cl.stream
  <2>1. Fail("unavailable")
    BY <1>4 DEF ReadHeaders
  <2> QED BY <1>1, <1>3, <2>1, FailKeeps
<1>5. CASE f.stream = cl.stream /\ f.last
  <2> DEFINE outcome == IF cl.got > 0 THEN "ok" ELSE "error"
             n == Len(calls)
  <2>1. /\ calls' = [calls EXCEPT ![Current].outcome = IF cl.got > 0 THEN "ok" ELSE "error",
                                  ![Current].got = cl.got]
        /\ cl' = [cl EXCEPT !.pc = "idle"] /\ UNCHANGED socket
    BY <1>5 DEF ReadHeaders
  <2>2. n \in 1..n /\ calls \in Seq(Call) /\ calls[n] \in Call
    <3>1. n \in 1..n /\ calls \in Seq(Call)
      BY <1>1, Working DEF HttpInv, WireTypeOK
    <3> QED BY <3>1
  <2>3. calls' = [calls EXCEPT ![n] = [calls[n] EXCEPT !.outcome = outcome, !.got = cl.got]]
    BY <2>1, <2>2 DEF Current, Call
  <2>4. outcome \in {"ok", "error"} /\ UNCHANGED <<socket, toServer, srv, stopping, breaks>>
    BY <1>2, <2>1
  <2> HIDE DEF outcome, f
  <2>5. f = Head(down)
    BY DEF f
  <2> QED BY <1>1, <1>5, <2>1, <2>3, <2>4, <2>5, AnswerEndsKeeps
<1>6. CASE f.stream = cl.stream /\ ~f.last
  <2>1. cl' = [cl EXCEPT !.seen = TRUE] /\ UNCHANGED <<socket, calls>>
    BY <1>6 DEF ReadHeaders
  <2>2. UNCHANGED <<socket, calls, toServer, srv, stopping, breaks>>
    BY <1>2, <2>1
  <2> HIDE DEF f
  <2>5. f = Head(down)
    BY DEF f
  <2> QED BY <1>1, <1>6, <2>1, <2>2, <2>5, AnswerBeginsKeeps
<1> QED BY <1>4, <1>5, <1>6

LEMMA HangsUpKeeps ==
    ASSUME HttpInv, HangsUp \/ Deadline
    PROVE  HttpInv'
<1>1. breaks \in Nat
  BY DEF HttpInv, WireTypeOK
<1>2. CASE HangsUp
  <2>1. Fail("unavailable") /\ cl.pc # "idle" /\ toClient' = toClient /\ breaks' \in Nat
        /\ UNCHANGED <<toServer, srv, stopping>>
    BY <1>1, <1>2 DEF HangsUp
  <2> QED BY <2>1, FailKeeps
<1>3. CASE Deadline
  <2>1. Fail("deadline") /\ cl.pc # "idle" /\ toClient' = toClient /\ breaks' \in Nat
        /\ UNCHANGED <<toServer, srv, stopping>>
    BY <1>1, <1>3 DEF Deadline, Reads, Spend
  <2> QED BY <2>1, FailKeeps
<1> QED BY <1>2, <1>3

LEMMA PrefaceOnWire ==
    /\ Preface \in Seq(Frame) /\ Len(Preface) = 2
    /\ Preface[1] = Settings /\ Preface[2] = Credit(0, Raise)
    /\ AllData(Preface) = 0 /\ OnWire(Preface, "WINDOW_UPDATE", 0) = Raise
<1> DEFINE e == << >>
           g == Settings
           h == Credit(0, Raise)
           m == Append(e, g)
<1>1. e \in Seq(Frame) /\ AllData(e) = 0 /\ \A type, st : OnWire(e, type, st) = 0
  BY NoFrames
<1>2. /\ g \in Frame /\ g.type = "SETTINGS"
      /\ h \in Frame /\ h.type = "WINDOW_UPDATE" /\ h.stream = 0 /\ h.n = Raise
  BY Http2Assumption DEF Settings, Credit, Frame, FrameTypes
<1>3. Preface = Append(m, h) /\ Len(Preface) = 2 /\ Preface[1] = Settings
      /\ Preface[2] = Credit(0, Raise)
  BY DEF Preface
<1> HIDE DEF e, g, h, m
<1>4. m \in Seq(Frame) /\ Given(e, m, g)
  BY <1>1, <1>2, AppendIsGiven DEF m
<1>5. Preface \in Seq(Frame) /\ Given(m, Preface, h)
  BY <1>2, <1>3, <1>4, AppendIsGiven DEF Given
<1>6. AllData(m) = 0 /\ OnWire(m, "WINDOW_UPDATE", 0) = 0
  BY ONLY <1>1, <1>2, <1>4 DEF Given, Counted
<1>7. AllData(Preface) = 0 /\ OnWire(Preface, "WINDOW_UPDATE", 0) = Raise
  <2>1. Raise \in Nat
    BY Http2Assumption
  <2> QED BY ONLY <2>1, <1>2, <1>5, <1>6 DEF Given, Counted
<1> QED
  BY <1>3, <1>5, <1>7

LEMMA GreetingOnWire ==
    ASSUME NEW refuses \in BOOLEAN,
           NEW down, down = IF refuses THEN Append(Preface, Goaway) ELSE Preface
    PROVE  /\ down \in Seq(Frame)
           /\ down[1] = Settings
           /\ \A i \in 1..Len(down) : /\ down[i].stream = 0
                                      /\ down[i].type \in {"SETTINGS", "WINDOW_UPDATE", "GOAWAY"}
                                      /\ down[i].type = "SETTINGS" => i = 1
                                      /\ down[i].type = "GOAWAY" => i = Len(down) /\ refuses
           /\ AllData(down) = 0 /\ OnWire(down, "WINDOW_UPDATE", 0) = Raise
<1>1. /\ Settings.type = "SETTINGS" /\ Settings.stream = 0
      /\ Credit(0, Raise).type = "WINDOW_UPDATE" /\ Credit(0, Raise).stream = 0
      /\ Goaway.type = "GOAWAY" /\ Goaway.stream = 0 /\ Goaway \in Frame
  BY Http2Assumption DEF Settings, Credit, Goaway, Frame, FrameTypes
<1>2. CASE refuses
  <2>1. down = Append(Preface, Goaway)
    BY <1>2
  <2>2. Given(Preface, down, Goaway)
    BY <2>1, <1>1, PrefaceOnWire, AppendIsGiven
  <2>3. /\ Len(down) = 3 /\ down[1] = Settings /\ down[2] = Credit(0, Raise) /\ down[3] = Goaway
        /\ down \in Seq(Frame)
    BY ONLY <2>2, PrefaceOnWire DEF Given
  <2>4. AllData(down) = 0 /\ OnWire(down, "WINDOW_UPDATE", 0) = Raise
    <3>1. Raise \in Nat
      BY Http2Assumption
    <3> QED BY ONLY <3>1, <2>2, <1>1, PrefaceOnWire DEF Given, Counted
  <2>5. \A i \in 1..Len(down) : i = 1 \/ i = 2 \/ (i = 3 /\ i = Len(down))
    BY ONLY <2>3
  <2> QED BY ONLY <2>3, <2>4, <2>5, <1>1, <1>2
<1>3. CASE ~refuses
  <2>1. down = Preface
    BY <1>3
  <2>2. \A i \in 1..Len(down) : i = 1 \/ i = 2
    BY ONLY <2>1, PrefaceOnWire
  <2> QED BY ONLY <2>1, <2>2, <1>1, <1>3, PrefaceOnWire
<1> QED BY <1>2, <1>3

\* A connection just dialled: each side has written its preface, and a server at its
\* limit has hung up.
LEMMA Opens ==
    ASSUME NEW k \in Conns, NEW refuses \in BOOLEAN, NEW cs \in Seq(Call),
           NEW c2, c2 = [Idle EXCEPT !.conn = k],
           NEW p, p = IF refuses THEN "closed" ELSE "reading",
           NEW r2, r2 = [Absent EXCEPT !.pc = p],
           NEW down2, down2 = IF refuses THEN Append(Preface, Goaway) ELSE Preface,
           NEW s2, s2 = IF refuses THEN "gone" ELSE "up"
    PROVE  /\ c2 \in ClientEnd /\ r2 \in ServerEnd /\ down2 \in Seq(Frame) /\ Preface \in Seq(Frame)
           /\ ClientOn(c2, cs) /\ ConnOn(TRUE, s2, Preface, down2, r2, c2, cs)
<1> DEFINE up2 == Preface
<1>1. /\ c2.pc = "idle" /\ c2.conn = k /\ c2.next = 1 /\ c2.stream = 0
      /\ c2.connWindow = Window /\ c2.window = Window /\ c2.initial = Window
      /\ c2 \in ClientEnd
  <2>1. k \in 0..MaxConns
    BY Http2Assumption DEF Conns
  <2>2. Idle \in ClientEnd
    BY Http2Assumption DEF Idle, ClientEnd, Windows
  <2>3. c2 \in ClientEnd
    BY <2>1, <2>2 DEF ClientEnd
  <2>4. c2.pc = "idle" /\ c2.conn = k
    BY DEF Idle
  <2>5. c2.next = 1 /\ c2.stream = 0
        /\ c2.connWindow = Window /\ c2.window = Window /\ c2.initial = Window
    BY DEF Idle
  <2> QED BY <2>3, <2>4, <2>5
<1>2. /\ r2.pc = p /\ r2.stream = 0 /\ r2.call = 0 /\ r2.open = {} /\ r2.connWindow = Window
      /\ r2.initial = Window /\ p \in {"closed", "reading"}
      /\ r2 \in ServerEnd
  <2>1. Absent \in ServerEnd
    BY Http2Assumption DEF Absent, ServerEnd, Windows
  <2>2. r2 \in ServerEnd
    BY <2>1 DEF ServerEnd
  <2> QED BY <2>2 DEF Absent
<1>3. /\ down2 \in Seq(Frame) /\ down2[1] = Settings
      /\ \A i \in 1..Len(down2) : /\ down2[i].stream = 0
                                  /\ down2[i].type \in {"SETTINGS", "WINDOW_UPDATE", "GOAWAY"}
                                  /\ down2[i].type = "SETTINGS" => i = 1
                                  /\ down2[i].type = "GOAWAY" => i = Len(down2) /\ refuses
      /\ AllData(down2) = 0 /\ OnWire(down2, "WINDOW_UPDATE", 0) = Raise
  BY GreetingOnWire
<1>4. /\ up2 \in Seq(Frame) /\ AllData(up2) = 0 /\ OnWire(up2, "WINDOW_UPDATE", 0) = Raise
      /\ \A i \in 1..Len(up2) : /\ up2[i].stream = 0
                                /\ up2[i].type \in {"SETTINGS", "WINDOW_UPDATE"}
                                /\ up2[i].type = "SETTINGS" => i = 1
  <2>1. /\ Settings.type = "SETTINGS" /\ Settings.stream = 0
        /\ Credit(0, Raise).type = "WINDOW_UPDATE" /\ Credit(0, Raise).stream = 0
    BY DEF Settings, Credit
  <2>2. \A i \in 1..Len(up2) : i = 1 \/ i = 2
    BY ONLY PrefaceOnWire
  <2> QED BY ONLY <2>1, <2>2, PrefaceOnWire
<1>5. /\ ~Holds(up2, "HEADERS") /\ ~Holds(down2, "HEADERS")
      /\ ~Ends(up2, "DATA") /\ ~Ends(down2, "HEADERS")
  BY <1>3, <1>4 DEF Ends, Holds
<1>6. /\ s2 \in {"gone", "up"} /\ (s2 = "up" => p = "reading") /\ (s2 = "gone" => p = "closed")
      /\ (refuses => p = "closed")
  OBVIOUS
<1> HIDE DEF up2
<1>7. ClientOn(c2, cs)
  <2>1. Len(cs) \in Nat /\ Window \in Nat /\ c2.conn # 0
    BY <1>1, Http2Assumption DEF Conns
  <2> QED BY <1>1, <2>1 DEF ClientOn
<1>8. SocketOn(TRUE, s2, up2, down2, r2) /\ SettingsUp(up2, r2) /\ SettingsDown(TRUE, down2, c2)
      /\ SentOn(TRUE, up2, c2)
  BY <1>1, <1>2, <1>3, <1>4, <1>6 DEF SocketOn, SettingsUp, SettingsDown, SentOn
<1>9. ThreadOn(up2, r2, cs)
  <2>1. OpenOn(r2, cs)
    BY <1>2 DEF OpenOn
  <2>2. RequestOn(up2, r2, cs)
    BY <1>2, <1>4 DEF RequestOn, FrameOn, Ordered
  <2>3. WholeOn(up2, r2, cs) /\ PendingOn(up2, r2, cs)
    BY <1>2, <1>4, <1>5 DEF WholeOn, PendingOn
  <2> QED BY <2>1, <2>2, <2>3 DEF ThreadOn
<1>10. LiveOn(s2, up2, down2, r2, c2, cs)
  BY <1>1, <1>2, <1>5, <1>6 DEF LiveOn, Waits
<1>11. AnswerOn(TRUE, down2, r2, c2, cs)
  <2>1. \A i \in 1..Len(down2) : AnswerFrame(down2[i], i, down2, r2, c2)
    BY <1>2, <1>3, <1>6 DEF AnswerFrame
  <2> QED BY <2>1, <1>1, <1>5 DEF AnswerOn
<1>12. CreditOn(TRUE, s2, up2, down2, r2, c2)
  <2>1. Window \in Nat /\ Raise \in Nat
    BY Http2Assumption
  <2>2. ClientCreditOn(TRUE, s2, up2, down2, c2)
    BY ONLY <2>1, <1>1, <1>3, <1>4 DEF ClientCreditOn, Granted
  <2>3. ServerCreditOn(s2, up2, down2, r2)
    BY ONLY <2>1, <1>2, <1>3, <1>4 DEF ServerCreditOn, Granted
  <2>4. StreamCreditOn(TRUE, s2, up2, down2, c2) /\ AnswerCreditOn(s2, up2, down2, r2)
    BY <1>1, <1>2 DEF StreamCreditOn, AnswerCreditOn
  <2> QED BY <2>2, <2>3, <2>4 DEF CreditOn
<1> QED
  BY <1>1, <1>2, <1>3, <1>4, <1>7, <1>8, <1>9, <1>10, <1>11, <1>12 DEF ConnOn, up2

LEMMA DialKeeps ==
    ASSUME HttpInv, NEW k \in Conns, Dial(k)
    PROVE  HttpInv'
<1> DEFINE refuses == Refuses
           c2 == [Idle EXCEPT !.conn = k]
           p == IF refuses THEN "closed" ELSE "reading"
           r2 == [Absent EXCEPT !.pc = p]
           down2 == IF refuses THEN Append(Preface, Goaway) ELSE Preface
           s2 == IF refuses THEN "gone" ELSE "up"
<1> USE DEF HttpInv
<1>1. /\ WireTypeOK /\ calls \in Seq(Call) /\ Len(calls) \in Nat /\ Len(calls) <= MaxCalls
      /\ cl.pc = "idle" /\ cl.conn # k /\ srv[k] = Absent /\ srv[k].pc = "none"
  <2>1. Conn(k) /\ socket[k] = "none" /\ cl.pc = "idle"
    BY DEF Dial
  <2>2. SocketOn(k = cl.conn, socket[k], toServer[k], toClient[k], srv[k])
    BY <2>1 DEF Conn, ConnOn
  <2>3. k # cl.conn /\ srv[k] = Absent /\ srv[k].pc = "none"
    BY <2>1, <2>2 DEF SocketOn, Absent
  <2> QED BY <2>1, <2>3, OnOne
<1>2. refuses \in BOOLEAN
  BY DEF Refuses
<1>3. /\ toServer' = [toServer EXCEPT ![k] = Preface] /\ toClient' = [toClient EXCEPT ![k] = down2]
      /\ cl' = c2 /\ UNCHANGED <<stopping, calls, breaks>>
  BY DEF Dial, Closed
<1>4. srv' = [srv EXCEPT ![k] = r2]
  <2>1. srv' = [srv EXCEPT ![k] = [srv[k] EXCEPT !.pc = p]]
    BY <1>1 DEF Dial, WireTypeOK
  <2> QED BY <1>1, <2>1
<1>5. /\ socket' \in [Conns -> {"none", "up", "shut", "gone", "broken"}]
      /\ socket'[k] = s2
      /\ \A j \in Conns : j # k =>
           \/ socket'[j] = socket[j] /\ j # cl.conn
           \/ j = cl.conn /\ socket[j] = "up" /\ socket'[j] = "shut"
           \/ j = cl.conn /\ socket[j] # "up" /\ socket'[j] = socket[j]
  <2>1. socket' = [j \in Conns |-> IF j = k THEN s2
                                   ELSE IF j = cl.conn THEN Shut(j)[j] ELSE socket[j]]
    BY <1>1 DEF Dial
  <2>2. socket \in [Conns -> {"none", "up", "shut", "gone", "broken"}]
    BY <1>1 DEF WireTypeOK
  <2>3. \A j \in Conns : Shut(j)[j] = IF socket[j] = "up" THEN "shut" ELSE socket[j]
    BY <2>2 DEF Shut
  <2>4. s2 \in {"gone", "up"}
    OBVIOUS
  <2> HIDE DEF s2
  <2>5. \A j \in Conns : socket'[j] = IF j = k THEN s2
                                      ELSE IF j = cl.conn THEN Shut(j)[j] ELSE socket[j]
    BY <2>1
  <2> QED BY <2>1, <2>2, <2>3, <2>4, <2>5
<1>6. p = (IF refuses THEN "closed" ELSE "reading") /\ c2 = [Idle EXCEPT !.conn = k]
      /\ r2 = [Absent EXCEPT !.pc = p] /\ down2 = (IF refuses THEN Append(Preface, Goaway) ELSE Preface)
      /\ s2 = (IF refuses THEN "gone" ELSE "up")
  OBVIOUS
<1> HIDE DEF c2, r2, p, down2, s2, refuses
<1>7. /\ c2 \in ClientEnd /\ r2 \in ServerEnd /\ down2 \in Seq(Frame) /\ Preface \in Seq(Frame)
      /\ ClientOn(c2, calls) /\ ConnOn(TRUE, s2, Preface, down2, r2, c2, calls)
  BY <1>1, <1>2, <1>6, Opens
<1>8. c2.pc = "idle" /\ c2.conn = k /\ r2.call = 0
  BY <1>6 DEF Idle, Absent
<1>9. WireTypeOK'
  <2>1. stopping' \in BOOLEAN
    BY <1>1, <1>3 DEF WireTypeOK
  <2>2. /\ toServer' \in [Conns -> Seq(Frame)] /\ toClient' \in [Conns -> Seq(Frame)]
        /\ srv' \in [Conns -> ServerEnd]
    BY <1>1, <1>3, <1>4, <1>7 DEF WireTypeOK
  <2>3. cl' \in ClientEnd /\ calls' \in Seq(Call) /\ Len(calls') <= MaxCalls /\ breaks' \in Nat
    BY <1>1, <1>3, <1>7 DEF WireTypeOK
  <2> QED BY <2>1, <2>2, <2>3, <1>5 DEF WireTypeOK
<1>10. /\ toServer'[k] = Preface /\ toClient'[k] = down2 /\ srv'[k] = r2
       /\ \A j \in Conns : j # k => /\ toServer'[j] = toServer[j]
                                    /\ toClient'[j] = toClient[j] /\ srv'[j] = srv[j]
  BY <1>1, <1>3, <1>4 DEF WireTypeOK
<1>11. ASSUME NEW j \in Conns PROVE Conn(j)'
  <2>1. CASE j = k
    <3>1. (j = c2.conn) = TRUE
      BY <1>8, <2>1
    <3>2. ConnOn(j = c2.conn, s2, Preface, down2, r2, c2, calls)
      BY ONLY <1>7, <3>1
    <3>3. /\ socket'[j] = s2 /\ toServer'[j] = Preface /\ toClient'[j] = down2 /\ srv'[j] = r2
          /\ cl' = c2 /\ calls' = calls
      BY <1>3, <1>5, <1>10, <2>1
    <3> QED BY ONLY <3>2, <3>3 DEF Conn
  <2>2. CASE j # k
    <3>1. (j = c2.conn) = FALSE
      BY <1>8, <2>2
    <3>2. /\ Typed(j = cl.conn, socket[j], toServer[j], toClient[j], srv[j], cl, calls)
          /\ ConnOn(j = cl.conn, socket[j], toServer[j], toClient[j], srv[j], cl, calls)
      BY OnOne
    <3>3. ThreadOn(toServer[j], srv[j], calls)
      BY <3>2 DEF ConnOn
    <3>4. (socket'[j] = socket[j] \/ (socket[j] = "up" /\ socket'[j] = "shut")) /\ socket'[j] # "up"
      <4>1. j # cl.conn => socket[j] # "up"
        BY <3>2 DEF ConnOn, SocketOn
      <4> QED BY <1>5, <2>2, <4>1
    <3>5. ConnOn(FALSE, socket'[j], toServer[j], toClient[j], srv[j], c2, calls)
      BY ONLY <3>2, <3>3, <3>4, NotItsOwn
    <3> QED BY <1>3, <1>10, <2>2, <3>1, <3>5 DEF Conn
  <2> QED BY <2>1, <2>2
<1>12. Apart'
  <2>1. \A j \in Conns : j # k => \A x : Asked(x, j)' <=> Asked(x, j)
    BY <1>10 DEF Asked
  <2>2. \A x \in 1..Len(calls) : ~Asked(x, k)'
    <3>1. \A i \in 1..Len(Preface) : Preface[i].type # "HEADERS"
      <4>1. \A i \in 1..Len(Preface) : i = 1 \/ i = 2
        BY ONLY PrefaceOnWire
      <4> QED BY <4>1, PrefaceOnWire DEF Settings, Credit
    <3> QED BY <3>1, <1>1, <1>8, <1>10 DEF Asked, Wanted
  <2> QED BY <2>1, <2>2, <1>3, <1>8 DEF Apart
<1>13. Outcomes'
  BY <1>3 DEF Outcomes
<1>14. ClientOn(cl, calls)'
  BY <1>3, <1>7
<1> QED
  BY <1>9, <1>11, <1>12, <1>13, <1>14

-----------------------------------------------------------------------------
(* The transport keeps its promises.                                       *)

LEMMA HttpInvInit == HttpInit => HttpInv
<1> SUFFICES ASSUME HttpInit PROVE HttpInv
  OBVIOUS
<1> USE DEF HttpInit
<1>1. Absent \in ServerEnd /\ Idle \in ClientEnd /\ <<>> \in Seq(Frame) /\ <<>> \in Seq(Call)
  BY Http2Assumption DEF Absent, ServerEnd, Idle, ClientEnd, Windows
<1>2. WireTypeOK
  <2>1. stopping \in BOOLEAN
    OBVIOUS
  <2>2. /\ toServer \in [Conns -> Seq(Frame)] /\ toClient \in [Conns -> Seq(Frame)]
        /\ socket \in [Conns -> {"none", "up", "shut", "gone", "broken"}]
        /\ cl \in ClientEnd /\ srv \in [Conns -> ServerEnd]
    BY <1>1
  <2>3. calls \in Seq(Call) /\ Len(calls) <= MaxCalls /\ breaks \in Nat
    BY <1>1, Http2Assumption
  <2> QED BY <2>1, <2>2, <2>3 DEF WireTypeOK
<1>3. ClientOn(cl, calls)
  BY Http2Assumption DEF ClientOn, Idle
<1>4. ASSUME NEW k \in Conns PROVE Conn(k)
  <2>1. /\ socket[k] = "none" /\ toServer[k] = <<>> /\ toClient[k] = <<>> /\ srv[k] = Absent
        /\ cl = Idle /\ (k = cl.conn) = FALSE
    BY DEF Idle, Conns
  <2>2. Absent.pc = "none" /\ Absent.open = {} /\ Absent.stream = 0 /\ Absent.call = 0
    BY DEF Absent
  <2>3. SocketOn(FALSE, "none", <<>>, <<>>, Absent)
    BY <2>2 DEF SocketOn
  <2>4. SettingsUp(<<>>, Absent) /\ SettingsDown(FALSE, <<>>, cl) /\ SentOn(FALSE, <<>>, cl)
    BY NoFrames DEF SettingsUp, SettingsDown, SentOn
  <2>5. ThreadOn(<<>>, Absent, calls)
    <3>1. OpenOn(Absent, calls)
      BY <2>2 DEF OpenOn
    <3>2. RequestOn(<<>>, Absent, calls) /\ WholeOn(<<>>, Absent, calls)
      BY NoFrames DEF RequestOn, Ordered, WholeOn
    <3>3. PendingOn(<<>>, Absent, calls)
      BY <2>2, NoFrames DEF PendingOn
    <3> QED BY <3>1, <3>2, <3>3 DEF ThreadOn
  <2>6. LiveOn("none", <<>>, <<>>, Absent, cl, calls) /\ AnswerOn(FALSE, <<>>, Absent, cl, calls)
    BY DEF LiveOn, AnswerOn
  <2>7. CreditOn(FALSE, "none", <<>>, <<>>, Absent, cl)
    BY <2>2 DEF CreditOn, ClientCreditOn, StreamCreditOn, ServerCreditOn, AnswerCreditOn
  <2>8. ConnOn(FALSE, "none", <<>>, <<>>, Absent, cl, calls)
    BY ONLY <2>3, <2>4, <2>5, <2>6, <2>7 DEF ConnOn
  <2> QED BY ONLY <2>1, <2>8 DEF Conn
<1>5. Apart /\ Outcomes
  BY DEF Apart, Outcomes, Idle
<1> QED BY <1>2, <1>3, <1>4, <1>5 DEF HttpInv

LEMMA HttpInvStep == HttpInv /\ [HttpNext]_httpVars => HttpInv'
<1> SUFFICES ASSUME HttpInv, [HttpNext]_httpVars PROVE HttpInv'
  OBVIOUS
<1>1. ASSUME NEW k \in Conns, Dial(k) PROVE HttpInv'
  BY <1>1, DialKeeps
<1>2. ASSUME NEW k \in Conns, Thread(k) PROVE HttpInv'
  BY <1>2, SrvHeadersKeeps, SrvDataKeeps, SrvCreditKeeps, SrvHandleKeeps, SrvSendKeeps,
     SrvTrailersKeeps, SrvLeaveKeeps DEF Thread
<1>3. ASSUME NEW k \in Conns, Break(k) PROVE HttpInv'
  BY <1>3, BreakKeeps
<1>4. ASSUME Client PROVE HttpInv'
  BY <1>4, RequestKeeps, SendBodyKeeps, ReadCreditKeeps, ReadGoawayKeeps, ReadHeadersKeeps,
     ReadDataKeeps, HangsUpKeeps DEF Client
<1>5. CASE Deadline
  BY <1>5, HangsUpKeeps
<1>6. CASE Stop \/ UNCHANGED httpVars
  BY <1>6, StopKeeps
<1> QED
  BY <1>1, <1>2, <1>3, <1>4, <1>5, <1>6 DEF HttpNext

LEMMA HttpInvHolds == HttpSpec => []HttpInv
BY HttpInvInit, HttpInvStep, PTL DEF HttpSpec

\* What either side may still send never exceeds what it was granted.
LEMMA WindowsAreBounded ==
    ASSUME HttpInv
    PROVE  /\ cl.connWindow \in 0..(Window + Raise) /\ cl.window \in 0..(Window + Raise)
           /\ \A k \in Conns : srv[k].connWindow \in 0..(Window + Raise)
<1>1. /\ cl \in ClientEnd /\ ClientOn(cl, calls) /\ Window \in Nat /\ Raise \in Nat
      /\ cl.connWindow \in Nat /\ cl.window \in Nat /\ cl.initial \in Windows
  BY Http2Assumption, ClientNumbers DEF HttpInv, WireTypeOK, ClientEnd
<1>2. cl.window \in 0..(Window + Raise)
  BY <1>1 DEF ClientOn, Windows
<1>3. cl.connWindow \in 0..(Window + Raise)
  <2>1. CASE cl.conn = 0
    BY <1>1, <2>1 DEF ClientOn, Idle
  <2>2. CASE cl.conn # 0
    <3> DEFINE k == cl.conn
    <3>1. k \in Conns /\ ClientCreditOn(TRUE, socket[k], toServer[k], toClient[k], cl)
      BY <2>2, OnOwn DEF ConnOn, CreditOn
    <3>2. toServer[k] \in Seq(Frame) /\ toClient[k] \in Seq(Frame)
      <4> HIDE DEF k
      <4> QED BY <3>1, OnOne
    <3>3. AllData(toServer[k]) \in Nat /\ OnWire(toClient[k], "WINDOW_UPDATE", 0) \in Nat
      BY <3>2, NoSuchFrames
    <3> QED BY ONLY <1>1, <3>1, <3>3 DEF ClientCreditOn, Granted
  <2> QED BY <2>1, <2>2
<1>4. ASSUME NEW k \in Conns PROVE srv[k].connWindow \in 0..(Window + Raise)
  <2>1. /\ srv[k] \in ServerEnd /\ toServer[k] \in Seq(Frame) /\ toClient[k] \in Seq(Frame)
        /\ ConnOn(k = cl.conn, socket[k], toServer[k], toClient[k], srv[k], cl, calls)
    BY OnOne
  <2>2. CASE srv[k].pc = "none"
    <3>1. srv[k] = Absent
      BY <2>1, <2>2 DEF ConnOn, SocketOn
    <3> QED BY <1>1, <3>1 DEF Absent
  <2>3. CASE srv[k].pc # "none"
    <3>1. ServerCreditOn(socket[k], toServer[k], toClient[k], srv[k])
      BY <2>1 DEF ConnOn, CreditOn
    <3>2. /\ AllData(toClient[k]) \in Nat /\ OnWire(toServer[k], "WINDOW_UPDATE", 0) \in Nat
          /\ srv[k].connWindow \in Nat
      BY <2>1, NoSuchFrames, ServerNumbers
    <3> QED BY ONLY <1>1, <2>3, <3>1, <3>2 DEF ServerCreditOn, Granted
  <2> QED BY <2>2, <2>3
<1> QED BY <1>2, <1>3, <1>4

\* Every value of the transport stays in its range, and no window is overdrawn or
\* raised beyond what the protocol and the preface grant (Http2Connection::sendBody,
\* Http2Server::sendData).
THEOREM HttpTypeCorrect == HttpSpec => []HttpTypeOK
<1>1. HttpInv => HttpTypeOK
  <2> SUFFICES ASSUME HttpInv PROVE HttpTypeOK
    OBVIOUS
  <2>1. WireTypeOK
    BY DEF HttpInv
  <2>2. /\ \A k \in Conns : socket[k] \in {"none", "up", "shut", "gone", "broken"}
        /\ \A k \in Conns : /\ srv[k].pc \in {"none", "reading", "handling", "answering", "closed"}
                            /\ srv[k].open \subseteq Streams
    BY <2>1 DEF WireTypeOK, ServerEnd
  <2>3. cl.pc \in {"idle", "sending", "reading"} /\ cl.conn \in 0..MaxConns
    BY <2>1 DEF WireTypeOK, ClientEnd
  <2>4. \A c \in 1..Len(calls) :
          calls[c].outcome \in {"none", "ok", "error", "unavailable", "refused", "deadline"}
    <3>1. \A c \in 1..Len(calls) : calls[c] \in Call
      BY <2>1 DEF WireTypeOK
    <3> QED BY <3>1 DEF Call
  <2> QED
    BY <2>2, <2>3, <2>4, WindowsAreBounded DEF HttpTypeOK
<1> QED
  BY <1>1, HttpInvHolds, PTL

\* For any number of calls, frames, connections and breaks, and any windows: what a
\* side may still send, what it has on the way and what is on the way back to it add
\* up to what it was granted, for the connection and for the stream, in both
\* directions, for as long as the connection stands (Http2Connection::sendBody,
\* handleConnectionFrame, Http2Server::handleData).
THEOREM CreditIsNeverLost == HttpSpec => []CreditIsConserved
<1>1. HttpInv => CreditIsConserved
  <2> SUFFICES ASSUME HttpInv, Connected PROVE CreditIsConserved
    BY DEF CreditIsConserved
  <2> DEFINE k == cl.conn
             up == toServer[k]
             down == toClient[k]
             r == srv[k]
  <2>1. cl.conn # 0 /\ socket[k] = "up"
    BY DEF Connected
  <2>2. ConnOn(TRUE, "up", up, down, r, cl, calls) /\ ClientOn(cl, calls)
    BY <2>1, OnOwn DEF HttpInv
  <2> HIDE DEF up, down, r
  <2>3. cl.connWindow + AllData(up) + OnWire(down, "WINDOW_UPDATE", 0) = Window + Raise
    BY <2>2 DEF ConnOn, CreditOn, ClientCreditOn, Granted
  <2>4. r.connWindow + AllData(down) + OnWire(up, "WINDOW_UPDATE", 0) = Window + Raise
    BY <2>2 DEF ConnOn, CreditOn, ServerCreditOn, SocketOn, Granted
  <2>5. cl.pc = "sending" =>
          cl.window + OnWire(up, "DATA", cl.stream) + OnWire(down, "WINDOW_UPDATE", cl.stream)
            = cl.initial
    BY <2>2 DEF ConnOn, CreditOn, StreamCreditOn, ClientOn
  <2>6. r.pc = "answering" =>
          r.window[r.stream] + OnWire(down, "DATA", r.stream) + OnWire(up, "WINDOW_UPDATE", r.stream)
            = r.initial
    BY <2>2 DEF ConnOn, CreditOn, AnswerCreditOn
  <2> QED
    BY ONLY <2>3, <2>4, <2>5, <2>6 DEF CreditIsConserved, k, up, down, r
<1> QED
  BY <1>1, HttpInvHolds, PTL

\* For any number of calls, connections and breaks: an answer taken for whole is the
\* whole answer of that call's own handler, a call reported as refused never ran, and
\* a handler runs once, with the whole body (Channel::invoke, Http2Server::serve).
THEOREM OutcomesAreTrue == HttpSpec => []OutcomeIsTrue
<1>1. HttpInv => OutcomeIsTrue
  <2> SUFFICES ASSUME HttpInv PROVE OutcomeIsTrue
    OBVIOUS
  <2>1. \A c \in 1..Len(calls) :
          /\ calls[c].outcome \in {"ok", "error"} => calls[c].ran = 1 /\ calls[c].got = calls[c].reply
          /\ calls[c].outcome = "refused" => calls[c].ran = 0
    BY DEF HttpInv, Outcomes, True
  <2>2. ASSUME NEW k \in Conns, srv[k].pc \in {"handling", "answering"}
        PROVE  srv[k].body = calls[srv[k].call].size /\ calls[srv[k].call].ran <= 1
    <3>1. PendingOn(toServer[k], srv[k], calls)
      BY DEF HttpInv, Conn, ConnOn, ThreadOn
    <3>2. srv[k].body = calls[srv[k].call].size
      BY <2>2, <3>1 DEF PendingOn
    <3>3. calls[srv[k].call].ran = 0 \/ calls[srv[k].call].ran = 1
      BY <2>2, <3>1 DEF PendingOn, NotRun
    <3> QED BY ONLY <3>2, <3>3
  <2> QED
    BY <2>1, <2>2 DEF OutcomeIsTrue
<1> QED
  BY <1>1, HttpInvHolds, PTL
=============================================================================

----------------------- MODULE TranscriptArchiveProofs -----------------------
(***************************************************************************)
(* What holds of TranscriptArchive for any number of editors, packets and  *)
(* restarts: nothing of a transcript is ahead of the sound, the tier takes *)
(* back nothing a person wrote, and, each without the races that break it, *)
(* what an editor was answered is stored, what is forgotten is stored, and *)
(* nobody overwrites what they have not seen.  And what holds of those who *)
(* read it in parts (StoreReaders): the walk through the list, the trace   *)
(* window and the review panel show everything, once.                      *)
(***************************************************************************)
EXTENDS TranscriptArchive, StoreReaders, WellFoundedInduction, FiniteSetTheorems, TLAPS

-----------------------------------------------------------------------------
(* The inductive invariants, in named parts.                               *)

\* A transcript holds nothing ahead of the sound that was answered.
BoundedBy(h, t) ==
    /\ t \in Transcripts /\ t.settled <= h
    /\ \A p \in Words : p > h => t.text[p] = "gap"
Bounded(t) == BoundedBy(heard, t)

Handlers == [pc : Pcs, at : Places, base : Nat, snap : Transcripts,
             saw : {"gap", "guess", "machine"} \cup Editors, later : SUBSET Editors]
HandlerIsSound(h, r) == r \in Handlers /\ BoundedBy(h, r.snap) /\ r.at \in {Name} \cup (1..h)

Counters ==
    /\ phase \in {"running", "closing", "forgotten", "down"}
    /\ stopped \in BOOLEAN /\ unsaved \in BOOLEAN
    /\ heard \in 0..MaxHeard /\ offset \in 0..heard /\ restarts \in 0..MaxRestart
    /\ manual \subseteq Words
    /\ fpc \in {"waiting", "pushing", "answered", "writing", "flushing", "flushed", "saved", "over"}
    /\ fpc = "pushing" => heard < MaxHeard

Sound ==
    /\ Counters
    /\ Bounded(live) /\ Bounded(store) /\ Bounded(fsnap)
    /\ ed \in [Editors -> Handlers]
    /\ \A e \in Editors : HandlerIsSound(heard, ed[e])

\* Where the forwarder and the handlers can be in each phase.
Phases ==
    /\ phase \in {"forgotten", "down"} => fpc = "over"
    /\ Listed /\ stopped => fpc = "over"
    /\ Listed => \A e \in Editors : ed[e].pc \notin {"archive", "saving"}
    /\ phase = "down" =>
         /\ live = Empty
         /\ \A e \in Editors : ed[e].pc \in {"idle", "read", "answered"}

\* Words a person wrote are out of the reach of this stream's corrections.
Mine == \A p \in Words : live.text[p] \in Editors => p <= offset \/ p \in manual

\* The transcript in memory may still be written; the stored one is edited only
\* when it may not.
InUse ==
    \/ Listed
    \/ /\ "copies" \notin Races /\ "closing" \notin Races
       /\ fpc \notin {"waiting", "over"} \/ \E e \in Editors : HoldsLive(e)

OneSaving ==
    \A e \in Editors : ed[e].pc = "saving" =>
        ~InUse /\ \A f \in Editors : ed[f].pc = "saving" => e = f

\* One snapshot is on its way at a time.
OneSnapshot ==
    /\ fpc = "writing" => \A e \in Editors : ed[e].pc # "writing"
    /\ \A e, f \in Editors : ed[e].pc = "writing" /\ ed[f].pc = "writing" => e = f

Same(t, u) == t.text = u.text /\ t.revision = u.revision /\ t.done = u.done
Pending == \E e \in Editors : ed[e].pc = "applied"
Writing == \E e \in Editors : ed[e].pc = "writing"

\* While the version is the saved one, what is stored or on its way is the text
\* in memory.
SavedIsCurrent ==
    Listed /\ ~unsaved =>
        /\ fpc # "writing" /\ ~Writing => store.text = live.text
        /\ fpc = "writing" => fsnap.text = live.text
        /\ \A e \in Editors : ed[e].pc = "writing" => ed[e].snap.text = live.text

\* After the final save the last snapshot is the whole transcript.
LastIsWhole ==
    /\ InUse /\ fpc \in {"flushed", "saved", "over"} => live.done
    /\ InUse /\ fpc \in {"saved", "over"} /\ ~Pending =>
         /\ ~Writing => Same(store, live)
         /\ \A e \in Editors : ed[e].pc = "writing" => Same(ed[e].snap, live)

UpToDate == SavedIsCurrent /\ LastIsWhole

\* Whoever edited a place, or edited it later, stands there.
Holds(e, t) == t.text[ed[e].at] \in {e} \cup ed[e].later

\* An answered edit is in every copy that can still be written.
Stored ==
    \A e \in Editors :
        /\ ed[e].pc = "answered" =>
             /\ Holds(e, store)
             /\ fpc = "writing" => Holds(e, fsnap)
             /\ \A f \in Editors : ed[f].pc \in {"writing", "saving"} => Holds(e, ed[f].snap)
        /\ ed[e].pc \in {"applied", "writing", "answered"} /\ InUse => Holds(e, live)
        /\ ed[e].pc \in {"writing", "saving"} => Holds(e, ed[e].snap)

\* An earlier copy of the same revision differs only by words not heard yet.
Precedes(t, u) ==
    /\ t.revision <= u.revision
    /\ t.revision = u.revision =>
         \A p \in Words : Promoted(t.text)[p] \in {"gap", Promoted(u.text)[p]}

Ordered ==
    /\ InUse =>
         /\ Precedes(store, live)
         /\ fpc = "writing" => Precedes(store, fsnap) /\ Precedes(fsnap, live)
         /\ \A e \in Editors : ed[e].pc = "writing" =>
              Precedes(store, ed[e].snap) /\ Precedes(ed[e].snap, live)
    /\ \A e \in Editors : ed[e].pc = "saving" => ed[e].snap.revision = store.revision + 1

\* What an editor was shown is what a copy of that revision holds.
Settled(x) == IF x = "guess" THEN "machine" ELSE x
Matches(e, t) == ed[e].base = t.revision => Promoted(t.text)[ed[e].at] \in {"gap", Settled(ed[e].saw)}

BasedOnMemory(e) ==
    ed[e].base <= live.revision /\ (ed[e].base = live.revision => live.text[ed[e].at] = ed[e].saw)

BasedOnStore(e) ==
    /\ Matches(e, store)
    /\ InUse => ed[e].base <= live.revision /\ Matches(e, live)
    /\ fpc = "writing" => Matches(e, fsnap)
    /\ \A f \in Editors : ed[f].pc = "writing" => Matches(e, ed[f].snap)
    /\ phase = "closing" \/ ~InUse => ed[e].base <= store.revision

Based ==
    /\ \A e \in Editors : ed[e].at # Name =>
         /\ ed[e].pc = "live" \/ (ed[e].pc = "read" /\ Listed) => BasedOnMemory(e)
         /\ ed[e].pc \in {"read", "archive"} => BasedOnStore(e)
    /\ phase = "down" => \A e \in Editors : ed[e].pc # "read"

-----------------------------------------------------------------------------
(* Lemmas about numbers and transcripts.                                   *)

Below == {ss \in Nat \X Nat : ss[1] < ss[2]}

\* Every non-empty set of natural numbers has a least element.
LEMMA LeastNatural ==
    ASSUME NEW T \in SUBSET Nat, T # {}
    PROVE  \E n \in T : \A m \in T : n <= m
<1>1. IsWellFoundedOn(Below, Nat)
  BY NatLessThanWellFounded DEF OpToRel, Below
<1>2. PICK n \in T : \A m \in T : ~(<<m, n>> \in Below)
  BY <1>1, WFMin
<1>3. ASSUME NEW m \in T PROVE n <= m
  <2>1. <<m, n>> \in Nat \X Nat /\ ~(<<m, n>> \in Below)
    BY <1>2
  <2> QED
    BY <2>1 DEF Below
<1> QED
  BY <1>3

\* Max of a bounded set of natural numbers is one of them.
LEMMA MaxIsMember ==
    ASSUME NEW k \in Nat, NEW T \in SUBSET (0..k), T # {}
    PROVE  Max(T) \in T
<1> DEFINE U == {x \in 0..k : k - x \in T}
<1>1. PICK x \in T : TRUE
  OBVIOUS
<1>2. k - x \in U /\ U \in SUBSET Nat
  BY <1>1
<1>3. PICK n \in U : \A m \in U : n <= m
  BY <1>2, LeastNatural
<1>4. k - n \in T
  BY <1>3
<1>5. ASSUME NEW y \in T PROVE k - n >= y
  <2>1. k - y \in U /\ y \in 0..k /\ n \in 0..k
    BY <1>3
  <2>2. n <= k - y
    BY <1>3, <2>1
  <2> QED
    BY <2>1, <2>2
<1> QED
  BY <1>4, <1>5 DEF Max

\* An editor is not one of the marks of the tier's words.
LEMMA Persons == \A e \in Editors : e # "gap" /\ e # "guess" /\ e # "machine"
BY ArchiveAssumption

\* A transcript with a new text, boundary and revision has those and its old mark.
LEMMA NewTextAndRevision ==
    ASSUME NEW t \in Transcripts, NEW x, NEW y, NEW z
    PROVE  LET r == [t EXCEPT !.text = x, !.settled = y, !.revision = z]
           IN  /\ r.text = x /\ r.settled = y /\ r.revision = z /\ r.done = t.done
               /\ x \in Text /\ y \in 0..MaxHeard /\ z \in Nat => r \in Transcripts
BY DEF Transcripts

\* What each operation makes of a transcript.
LEMMA AppliedFacts ==
    ASSUME Sound, fpc = "pushing", NEW c \in {0} \cup (offset + 1..heard + 1)
    PROVE  LET t == Applied(live, heard + 1, c)
           IN  /\ BoundedBy(heard + 1, t)
               /\ t.text[Name] = live.text[Name]
               /\ \A p \in Words : t.text[p] = IF p \in Rewrites(c) THEN "machine"
                                               ELSE IF p = heard + 1 THEN "guess" ELSE live.text[p]
               /\ t.revision = IF c > 0 THEN live.revision + 1 ELSE live.revision
               /\ t.done = live.done
<1> USE ArchiveAssumption DEF Sound, Counters, Bounded, BoundedBy, Transcripts, Text, Places, Words, Name, Rewrites
<1> DEFINE guessed == [live.text EXCEPT ![heard + 1] = "guess"]
           text == [p \in Places |-> IF p \in Rewrites(c) THEN "machine" ELSE guessed[p]]
           settled == IF c > live.settled THEN c ELSE live.settled
           revision == IF c > 0 THEN live.revision + 1 ELSE live.revision
<1>0. Applied(live, heard + 1, c)
        = [live EXCEPT !.text = text, !.settled = settled, !.revision = revision]
  BY Zenon DEF Applied, Boundary
<1> DEFINE t == Applied(live, heard + 1, c)
<1>1. /\ t.text = text /\ t.settled = settled /\ t.revision = revision /\ t.done = live.done
      /\ text \in Text /\ settled \in 0..MaxHeard /\ revision \in Nat => t \in Transcripts
  <2> HIDE DEF text, settled, revision
  <2>1. live \in Transcripts
    OBVIOUS
  <2> HIDE DEF Sound, Text, Transcripts, BoundedBy
  <2> DEFINE r == [live EXCEPT !.text = text, !.settled = settled, !.revision = revision]
  <2>2. /\ r.text = text /\ r.settled = settled /\ r.revision = revision /\ r.done = live.done
        /\ text \in Text /\ settled \in 0..MaxHeard /\ revision \in Nat => r \in Transcripts
    BY <2>1, NewTextAndRevision
  <2>3. t = r
    BY <1>0
  <2> HIDE DEF t, r
  <2> QED
    BY <2>2, <2>3
<1>2. heard + 1 \in Words /\ heard \in Nat /\ offset \in Nat
  OBVIOUS
<1>3. guessed \in Text
  BY <1>2
<1>4. text \in Text
  BY <1>3
<1>5. settled \in 0..MaxHeard /\ settled <= heard + 1 /\ revision \in Nat
  BY <1>2
<1>6. \A p \in Words : text[p] = IF p \in Rewrites(c) THEN "machine"
                                 ELSE IF p = heard + 1 THEN "guess" ELSE live.text[p]
  BY <1>3
<1>7. text[Name] = live.text[Name]
  BY <1>2, <1>3
<1>8. \A p \in Words : p > heard + 1 => text[p] = "gap"
  BY <1>2, <1>6
<1> HIDE DEF text, settled, revision, t
<1> QED
  BY <1>1, <1>4, <1>5, <1>6, <1>7, <1>8 DEF t, revision

LEMMA PromotedFacts ==
    ASSUME NEW x \in Text
    PROVE  /\ Promoted(x) \in Text /\ Promoted(x)[Name] = x[Name]
           /\ \A p \in Words : Promoted(x)[p] = Settled(x[p])
           /\ Guesses(x) = {} => Promoted(x) = x
BY DEF Promoted, Guesses, Settled, Text, Places, Name, Words

LEMMA EndedFacts ==
    ASSUME Sound, NEW tail \in BOOLEAN
    PROVE  LET t == Ended(live, tail)
           IN  /\ Bounded(t) /\ t.text = Promoted(live.text) /\ t.done
               /\ t.revision >= live.revision
               /\ t.revision = live.revision => Guesses(live.text) = {}
<1> DEFINE left == IF tail THEN {} ELSE Guesses(live.text)
           text == Promoted(live.text)
           settled == IF tail THEN heard ELSE live.settled
           revision == live.revision + (IF tail THEN 1 ELSE 0) + (IF left # {} THEN 1 ELSE 0)
           r == [live EXCEPT !.text = text, !.settled = settled, !.revision = revision, !.done = TRUE]
           t == Ended(live, tail)
<1>1. t = r
  BY Zenon DEF Ended
<1>2. /\ live \in Transcripts /\ live.text \in Text /\ live.revision \in Nat
      /\ live.settled \in 0..MaxHeard /\ live.settled <= heard /\ heard \in 0..MaxHeard
      /\ \A p \in Words : p > heard => live.text[p] = "gap"
  BY DEF Sound, Counters, Bounded, BoundedBy, HandlerIsSound, Transcripts
<1>3. /\ text \in Text /\ settled \in 0..MaxHeard /\ settled <= heard /\ revision \in Nat
      /\ revision >= live.revision
      /\ revision = live.revision => Guesses(live.text) = {}
  BY <1>2, PromotedFacts
<1>4. \A p \in Words : p > heard => text[p] = "gap"
  BY <1>2, PromotedFacts DEF Settled
<1> HIDE DEF text, settled, revision, left
<1>5. /\ r.text = text /\ r.settled = settled /\ r.revision = revision /\ r.done = TRUE
      /\ r \in Transcripts
  BY <1>2, <1>3 DEF Transcripts
<1> HIDE DEF t, r
<1> QED
  BY <1>1, <1>3, <1>4, <1>5 DEF Bounded, BoundedBy, t, text

LEMMA RestoredFacts ==
    ASSUME Sound, NEW u, Bounded(u)
    PROVE  LET t == Restored(u)
           IN  /\ Bounded(t) /\ t.text = Promoted(u.text) /\ t.done = u.done
               /\ t.revision = u.revision
<1> DEFINE text == Promoted(u.text)
           settled == Max({u.settled} \cup Guesses(u.text))
           r == [u EXCEPT !.text = text, !.settled = settled]
           t == Restored(u)
<1>1. t = r
  BY Zenon DEF Restored
<1>2. /\ u \in Transcripts /\ u.text \in Text /\ u.revision \in Nat
      /\ u.settled \in 0..heard /\ heard \in 0..MaxHeard /\ MaxHeard \in Nat
      /\ \A p \in Words : p > heard => u.text[p] = "gap"
  BY ArchiveAssumption DEF Sound, Counters, Bounded, BoundedBy, HandlerIsSound, Transcripts
<1>3. text \in Text /\ \A p \in Words : p > heard => text[p] = "gap"
  BY <1>2, PromotedFacts DEF Settled
<1>4. settled \in 0..heard
  <2>1. {u.settled} \cup Guesses(u.text) \in SUBSET (0..heard)
    BY <1>2 DEF Guesses, Words
  <2>2. heard \in Nat /\ {u.settled} \cup Guesses(u.text) # {}
    BY <1>2
  <2> QED
    BY <2>1, <2>2, MaxIsMember
<1> HIDE DEF text, settled
<1>5. /\ r.text = text /\ r.settled = settled /\ r.revision = u.revision /\ r.done = u.done
      /\ r \in Transcripts
  <2>1. settled \in 0..MaxHeard
    BY <1>2, <1>4
  <2> QED
    BY <1>2, <1>3, <2>1 DEF Transcripts
<1> HIDE DEF t, r
<1> QED
  BY <1>1, <1>2, <1>3, <1>4, <1>5 DEF Bounded, BoundedBy, t, text

LEMMA EditedFacts ==
    ASSUME Sound, NEW u, Bounded(u), NEW e \in Editors
    PROVE  LET t == Edited(u, e)
           IN  /\ Bounded(t) /\ t.text = [u.text EXCEPT ![ed[e].at] = e] /\ t.done = u.done
               /\ t.revision = u.revision + 1
<1> DEFINE text == [u.text EXCEPT ![ed[e].at] = e]
           r == [u EXCEPT !.text = text, !.revision = u.revision + 1]
           t == Edited(u, e)
<1>2. /\ u \in Transcripts /\ u.text \in Text /\ u.revision \in Nat
      /\ u.settled \in 0..heard /\ heard \in 0..MaxHeard /\ MaxHeard \in Nat
      /\ \A p \in Words : p > heard => u.text[p] = "gap"
      /\ ed[e].at \in {Name} \cup (1..heard)
  BY ArchiveAssumption DEF Sound, Counters, Bounded, BoundedBy, HandlerIsSound, Transcripts
<1>1. t = r
  BY <1>2 DEF Edited, Transcripts
<1>3. text \in Text /\ \A p \in Words : p > heard => text[p] = "gap"
  BY <1>2 DEF Text, Places, Words, Name
<1> HIDE DEF text
<1>5. /\ r.text = text /\ r.settled = u.settled /\ r.revision = u.revision + 1 /\ r.done = u.done
      /\ r \in Transcripts
  <2>1. u.settled \in 0..MaxHeard /\ u.revision + 1 \in Nat
    BY <1>2
  <2> QED
    BY <1>2, <1>3, <2>1 DEF Transcripts
<1> HIDE DEF t, r
<1> QED
  BY <1>1, <1>2, <1>3, <1>5 DEF Bounded, BoundedBy, t, text

\* The empty transcript, and sound that grows, stay within the bounds.
LEMMA EmptyIsBounded ==
    ASSUME NEW h \in 0..MaxHeard
    PROVE  /\ BoundedBy(h, Empty) /\ Empty.revision = 0 /\ ~Empty.done
           /\ \A p \in Words : Empty.text[p] = "gap"
           /\ HandlerIsSound(h, Idle) /\ Idle \in Handlers /\ Idle.pc = "idle"
<1>1. Empty \in Transcripts /\ Empty.settled = 0 /\ Empty.revision = 0 /\ ~Empty.done
  BY ArchiveAssumption DEF Empty, Transcripts, Text, Places, Words, Name
<1>2. \A p \in Words : Empty.text[p] = "gap"
  BY DEF Empty, Places, Words, Name
<1>3. Idle \in Handlers /\ Idle.snap = Empty /\ Idle.at = Name /\ Idle.pc = "idle"
  BY <1>1 DEF Idle, Handlers, Pcs, Places
<1> QED
  BY <1>1, <1>2, <1>3 DEF BoundedBy, HandlerIsSound

LEMMA BoundedGrows ==
    ASSUME NEW h \in Nat, NEW k \in Nat, h <= k
    PROVE  /\ \A t : BoundedBy(h, t) => BoundedBy(k, t)
           /\ \A r : HandlerIsSound(h, r) => HandlerIsSound(k, r)
<1>1. ASSUME NEW t, BoundedBy(h, t) PROVE BoundedBy(k, t)
  <2>1. t \in Transcripts /\ t.settled \in 0..MaxHeard
    BY <1>1 DEF BoundedBy, Transcripts
  <2> QED
    BY <1>1, <2>1, ArchiveAssumption DEF BoundedBy, Words
<1>2. ASSUME NEW r, HandlerIsSound(h, r) PROVE HandlerIsSound(k, r)
  <2>1. (1..h) \subseteq (1..k)
    OBVIOUS
  <2> QED
    BY <1>1, <1>2, <2>1 DEF HandlerIsSound
<1> QED
  BY <1>1, <1>2

\* One handler's entry is replaced; the others are as they were.
LEMMA EntryReplaced ==
    ASSUME Sound, NEW e \in Editors, NEW r, HandlerIsSound(heard, r),
           ed' = [ed EXCEPT ![e] = r], heard' = heard
    PROVE  ed' \in [Editors -> Handlers] /\ \A f \in Editors : HandlerIsSound(heard', ed'[f])
BY DEF Sound, HandlerIsSound

LEMMA SoundStep == ASSUME Sound, Phases, [Next]_vars PROVE Sound'
<1> USE ArchiveAssumption
<1>1. /\ heard \in Nat /\ heard \in 0..MaxHeard /\ MaxHeard \in Nat /\ offset \in 0..heard
      /\ BoundedBy(heard, live) /\ BoundedBy(heard, store) /\ BoundedBy(heard, fsnap)
      /\ BoundedBy(heard, Empty) /\ HandlerIsSound(heard, Idle)
      /\ \A f \in Editors : ed[f] \in Handlers /\ HandlerIsSound(heard, ed[f])
  BY EmptyIsBounded DEF Sound, Counters, Bounded
<1>2. ASSUME NEW e \in Editors, NEW p \in Pcs
      PROVE  /\ HandlerIsSound(heard, [ed[e] EXCEPT !.pc = p])
             /\ \A t : BoundedBy(heard, t) =>
                  /\ HandlerIsSound(heard, [ed[e] EXCEPT !.pc = p, !.snap = t])
                  /\ HandlerIsSound(heard, [Idle EXCEPT !.pc = p, !.at = ed[e].at, !.snap = t])
  <2>1. ed[e] \in Handlers /\ HandlerIsSound(heard, ed[e]) /\ Idle \in Handlers
    BY <1>1, EmptyIsBounded
  <2>2. HandlerIsSound(heard, [ed[e] EXCEPT !.pc = p])
    BY <2>1 DEF HandlerIsSound, Handlers
  <2>3. ASSUME NEW t, BoundedBy(heard, t)
        PROVE  /\ HandlerIsSound(heard, [ed[e] EXCEPT !.pc = p, !.snap = t])
               /\ HandlerIsSound(heard, [Idle EXCEPT !.pc = p, !.at = ed[e].at, !.snap = t])
    <3>1. t \in Transcripts
      BY <2>3 DEF BoundedBy
    <3> QED
      BY <2>1, <2>3, <3>1 DEF HandlerIsSound, Handlers
  <2> QED
    BY <2>2, <2>3
<1>3. ASSUME NEW e \in Editors, NEW pc \in Pcs, NEW t, BoundedBy(heard, t), Accept(e, pc, t),
             heard' = heard
      PROVE  ed' \in [Editors -> Handlers] /\ \A f \in Editors : HandlerIsSound(heard', ed'[f])
  <2>1. ASSUME NEW f \in Editors
        PROVE  HandlerIsSound(heard, [ed[f] EXCEPT !.later = @ \cup {e}])
    BY <1>1 DEF HandlerIsSound, Handlers
  <2>2. \A f \in Editors :
          \/ ed'[f] = [Idle EXCEPT !.pc = pc, !.at = ed[e].at, !.snap = t]
          \/ ed'[f] = ed[f] \/ ed'[f] = [ed[f] EXCEPT !.later = @ \cup {e}]
    BY <1>3 DEF Accept
  <2>4. HandlerIsSound(heard, [Idle EXCEPT !.pc = pc, !.at = ed[e].at, !.snap = t])
    BY <1>2, <1>3
  <2>3. \A f \in Editors : HandlerIsSound(heard, ed'[f])
    BY <1>1, <2>1, <2>2, <2>4
  <2> QED
    BY <1>3, <2>3 DEF Accept, HandlerIsSound
<1>4. CASE UNCHANGED vars \/ AtRest \/ Forget
  BY <1>4 DEF Sound, Counters, Bounded, vars, forwarder, AtRest, Forget, Listed
<1>5. CASE Push \/ TierAway \/ SaveNotDue \/ BeginFlush \/ Finish
  BY <1>5 DEF Sound, Counters, Bounded, Push, TierAway, SaveNotDue, BeginFlush, Finish
<1>6. CASE SaveSnapshot \/ SaveWrite \/ FinalSave
  BY <1>6, <1>1 DEF Sound, Counters, Bounded, SaveSnapshot, SaveWrite, FinalSave, FinalRow
<1>7. CASE Answer
  <2>1. PICK c \in {0} \cup (offset + 1..heard + 1) : live' = Applied(live, heard + 1, c)
    BY <1>7 DEF Answer
  <2>2. BoundedBy(heard', live')
    BY <1>7, <2>1, AppliedFacts DEF Answer
  <2>3. heard' = heard + 1 /\ heard' \in 0..MaxHeard /\ offset' \in 0..heard' /\ heard' \in Nat
    BY <1>1, <1>7 DEF Answer, Sound, Counters
  <2>4. /\ BoundedBy(heard', store) /\ BoundedBy(heard', fsnap)
        /\ \A f \in Editors : HandlerIsSound(heard', ed[f])
    BY <1>1, <2>3, BoundedGrows
  <2>5. Counters'
    BY <1>7, <2>3 DEF Answer, Sound, Counters
  <2> QED
    BY <1>7, <2>2, <2>4, <2>5 DEF Answer, Sound, Bounded
<1>8. CASE Flush
  <2>1. PICK tail \in BOOLEAN : live' = Ended(live, tail /\ heard > offset)
    BY <1>8 DEF Flush
  <2>2. BoundedBy(heard, live')
    BY <2>1, EndedFacts DEF Bounded
  <2>3. Counters'
    BY <1>8 DEF Flush, Sound, Counters
  <2> QED
    BY <1>8, <2>2, <2>3 DEF Flush, Sound, Bounded
<1>9. ASSUME NEW e \in Editors, Read(e) PROVE Sound'
  <2>1. PICK p \in {Name} \cup {q \in Words : Shown.text[q] # "gap"} :
           ed' = [ed EXCEPT ![e] = [Idle EXCEPT !.pc = "read", !.at = p, !.base = Shown.revision,
                                                !.saw = Shown.text[p]]]
    BY <1>9 DEF Read
  <2> DEFINE r == [Idle EXCEPT !.pc = "read", !.at = p, !.base = Shown.revision,
                               !.saw = Shown.text[p]]
  <2>2. BoundedBy(heard, Shown)
    BY <1>1 DEF Shown
  <2>3. Shown \in Transcripts /\ Shown.text \in Text /\ Shown.revision \in Nat
    BY <2>2 DEF BoundedBy, Transcripts
  <2>4. p \in Places /\ p \in {Name} \cup (1..heard) /\ Shown.text[p] \in {"gap", "guess", "machine"} \cup Editors
    BY <1>1, <2>2, <2>3 DEF BoundedBy, Places, Words, Text
  <2>5. HandlerIsSound(heard, r)
    <3> HIDE DEF Shown
    <3>1. Idle \in Handlers /\ HandlerIsSound(heard, Idle) /\ "read" \in Pcs
      BY <1>1, EmptyIsBounded DEF Pcs
    <3> QED
      BY <2>3, <2>4, <3>1 DEF HandlerIsSound, Handlers
  <2>6. ed' \in [Editors -> Handlers] /\ \A f \in Editors : HandlerIsSound(heard', ed'[f])
    BY <1>9, <2>1, <2>5, EntryReplaced DEF Read, forwarder
  <2> QED
    BY <1>9, <2>6 DEF Read, Sound, Counters, Bounded, forwarder
<1>10. ASSUME NEW e \in Editors, Find(e) PROVE Sound'
  <2>1. PICK pc \in {"live", "archive"} : ed' = [ed EXCEPT ![e] = [ed[e] EXCEPT !.pc = pc]]
    BY <1>10, <1>1 DEF Find
  <2>2. HandlerIsSound(heard, [ed[e] EXCEPT !.pc = pc])
    BY <1>2 DEF Pcs
  <2>3. ed' \in [Editors -> Handlers] /\ \A f \in Editors : HandlerIsSound(heard', ed'[f])
    BY <1>10, <2>1, <2>2, EntryReplaced DEF Find, forwarder
  <2> QED
    BY <1>10, <2>3 DEF Find, Sound, Counters, Bounded, forwarder
<1>11. ASSUME NEW e \in Editors, EditLive(e) PROVE Sound'
  <2>1. CASE Refuse(e) /\ UNCHANGED <<live, manual, unsaved>>
    <3>1. ed' \in [Editors -> Handlers] /\ \A f \in Editors : HandlerIsSound(heard', ed'[f])
      BY <1>1, <1>11, <2>1, EntryReplaced DEF EditLive, Refuse, forwarder
    <3> QED
      BY <1>11, <2>1, <3>1 DEF EditLive, Sound, Counters, Bounded, forwarder
  <2>2. CASE /\ live' = Edited(live, e) /\ unsaved' = UnsavedAfterEdit(e)
             /\ manual' = manual \cup ({ed[e].at} \ {Name})
             /\ Accept(e, "applied", Empty)
    <3>1. ed' \in [Editors -> Handlers] /\ \A f \in Editors : HandlerIsSound(heard', ed'[f])
      BY <1>1, <1>3, <1>11, <2>2 DEF EditLive, forwarder, Pcs
    <3>2. BoundedBy(heard, live')
      BY <2>2, EditedFacts DEF Sound, Bounded
    <3>3. manual' \subseteq Words
      <4>1. manual \subseteq Words /\ ed[e].at \in {Name} \cup (1..heard)
        BY <1>1 DEF Sound, Counters, HandlerIsSound
      <4>2. {ed[e].at} \ {Name} \subseteq Words
        BY <1>1, <4>1 DEF Words
      <4> QED
        BY <2>2, <4>1, <4>2
    <3> QED
      BY <1>11, <2>2, <3>1, <3>2, <3>3 DEF EditLive, Sound, Counters, Bounded, forwarder,
                                          UnsavedAfterEdit
  <2> QED
    BY <1>11, <2>1, <2>2 DEF EditLive
<1>12. ASSUME NEW e \in Editors, EditSnapshot(e) PROVE Sound'
  <2>1. ed' = [ed EXCEPT ![e] = [ed[e] EXCEPT !.pc = "writing", !.snap = live]]
    BY <1>12, <1>1 DEF EditSnapshot, Sound
  <2>2. ed' \in [Editors -> Handlers] /\ \A f \in Editors : HandlerIsSound(heard', ed'[f])
    BY <1>1, <1>2, <1>12, <2>1, EntryReplaced DEF EditSnapshot, forwarder, Pcs
  <2> QED
    BY <1>12, <2>2 DEF EditSnapshot, Sound, Counters, Bounded, forwarder
<1>13. ASSUME NEW e \in Editors, EditArchived(e) PROVE Sound'
  <2>1. CASE Refuse(e)
    <3>1. ed' \in [Editors -> Handlers] /\ \A f \in Editors : HandlerIsSound(heard', ed'[f])
      BY <1>1, <1>13, <2>1, EntryReplaced DEF EditArchived, Refuse, forwarder
    <3> QED
      BY <1>13, <2>1, <3>1 DEF EditArchived, Sound, Counters, Bounded, forwarder
  <2>2. CASE Accept(e, "saving", Edited(Restored(store), e))
    <3>1. Bounded(Restored(store)) /\ Bounded(Edited(Restored(store), e))
      BY RestoredFacts, EditedFacts DEF Sound
    <3>2. ed' \in [Editors -> Handlers] /\ \A f \in Editors : HandlerIsSound(heard', ed'[f])
      BY <1>3, <1>13, <2>2, <3>1 DEF EditArchived, forwarder, Pcs, Bounded
    <3> QED
      BY <1>13, <2>2, <3>2 DEF EditArchived, Sound, Counters, Bounded, forwarder
  <2> QED
    BY <1>13, <2>1, <2>2 DEF EditArchived
<1>14. ASSUME NEW e \in Editors, EditWrite(e) PROVE Sound'
  <2>1. ed' = [ed EXCEPT ![e] = [ed[e] EXCEPT !.pc = "answered", !.snap = Empty]]
    BY <1>14, <1>1 DEF EditWrite, Sound
  <2>2. ed' \in [Editors -> Handlers] /\ \A f \in Editors : HandlerIsSound(heard', ed'[f])
    BY <1>1, <1>2, <1>14, <2>1, EntryReplaced DEF EditWrite, forwarder, Pcs
  <2>3. BoundedBy(heard, store')
    BY <1>1, <1>14 DEF EditWrite, HandlerIsSound
  <2> QED
    BY <1>14, <2>2, <2>3 DEF EditWrite, Sound, Counters, Bounded, forwarder
<1>15. ASSUME ed' \in [Editors -> {Idle} \cup {ed[f] : f \in Editors}], heard' = heard
       PROVE  ed' \in [Editors -> Handlers] /\ \A f \in Editors : HandlerIsSound(heard', ed'[f])
  BY <1>1, <1>15, EmptyIsBounded
<1>16. CASE Shutdown
  <2>1. ed' \in [Editors -> Handlers] /\ \A f \in Editors : HandlerIsSound(heard', ed'[f])
    BY <1>15, <1>16 DEF Shutdown, Kept, forwarder
  <2> QED
    BY <1>16, <2>1 DEF Shutdown, Sound, Counters, Bounded, forwarder
<1>17. CASE Down
  <2>1. ed' \in [Editors -> Handlers] /\ \A f \in Editors : HandlerIsSound(heard', ed'[f])
    BY <1>15, <1>17 DEF Down, Kept
  <2>2. Counters'
    <3>1. /\ phase' = "down" /\ heard' = heard /\ offset' = 0 /\ restarts' = restarts
          /\ manual' = {} /\ fpc' = "over"
      BY <1>17 DEF Down
    <3>2. stopped' \in BOOLEAN /\ unsaved' \in BOOLEAN
      BY <1>17 DEF Down, Sound, Counters
    <3>3. restarts \in 0..MaxRestart
      BY DEF Sound, Counters
    <3> QED
      BY <1>1, <3>1, <3>2, <3>3 DEF Counters
  <2> QED
    BY <1>1, <1>17, <2>1, <2>2 DEF Down, Sound, Bounded
<1>18. CASE Restart
  <2>1. BoundedBy(heard, live')
    BY <1>1, <1>18, RestoredFacts DEF Restart, Sound, Bounded
  <2>2. Counters'
    <3>1. unsaved' \in BOOLEAN
      BY <1>18 DEF Restart, Sound, Counters, HasRow
    <3> QED
      BY <1>1, <1>18, <3>1 DEF Restart, Sound, Counters, StreamStart
  <2> QED
    BY <1>18, <2>1, <2>2 DEF Restart, Sound, Bounded
<1> QED
  BY <1>4, <1>5, <1>6, <1>7, <1>8, <1>9, <1>10, <1>11, <1>12, <1>13, <1>14, <1>16, <1>17, <1>18
     DEF Next, Forwarder, Editor

-----------------------------------------------------------------------------
(* What the editors' steps make of the handlers.                           *)

Counts(pc) == pc \in {"applied", "writing", "saving", "answered"}

\* An accepted edit: its editor moves on, and who edited the place before is told.
LEMMA AcceptMoves ==
    ASSUME Sound, NEW e \in Editors, NEW pc, NEW t, Accept(e, pc, t)
    PROVE  /\ ed'[e].pc = pc /\ ed'[e].at = ed[e].at /\ ed'[e].snap = t /\ ed'[e].later = {}
           /\ \A f \in Editors \ {e} :
                /\ ed'[f].pc = ed[f].pc /\ ed'[f].at = ed[f].at /\ ed'[f].snap = ed[f].snap
                /\ ed'[f].base = ed[f].base /\ ed'[f].saw = ed[f].saw
                /\ ed[f].later \subseteq ed'[f].later
                /\ Counts(ed[f].pc) /\ ed[f].at = ed[e].at => e \in ed'[f].later
<1>1. \A f \in Editors : ed[f] \in Handlers
  BY DEF Sound
<1>2. ed'[e] = [Idle EXCEPT !.pc = pc, !.at = ed[e].at, !.snap = t]
  BY DEF Accept
<1>3. ed'[e].pc = pc /\ ed'[e].at = ed[e].at /\ ed'[e].snap = t /\ ed'[e].later = {}
  BY <1>2 DEF Idle
<1>4. \A f \in Editors \ {e} :
        ed'[f] = IF Counts(ed[f].pc) /\ ed[f].at = ed[e].at
                 THEN [ed[f] EXCEPT !.later = @ \cup {e}] ELSE ed[f]
  BY DEF Accept, Counts
<1> QED
  BY <1>1, <1>3, <1>4 DEF Handlers

\* A refused one begins again; the others stay.
LEMMA RefuseMoves ==
    ASSUME Sound, NEW e \in Editors, Refuse(e)
    PROVE  ed'[e] = Idle /\ ed'[e].pc = "idle" /\ \A f \in Editors \ {e} : ed'[f] = ed[f]
BY EmptyIsBounded DEF Sound, Counters, Refuse, Idle

\* A step of one handler that changes its place in the code and its snapshot only.
Moves(e, pc, t) ==
    /\ ed'[e].pc = pc /\ ed'[e].snap = t
    /\ ed'[e].at = ed[e].at /\ ed'[e].later = ed[e].later
    /\ ed'[e].base = ed[e].base /\ ed'[e].saw = ed[e].saw
    /\ \A f \in Editors \ {e} : ed'[f] = ed[f]

LEMMA HandlerMoves ==
    ASSUME Sound, NEW e \in Editors
    PROVE  /\ Find(e) => Moves(e, IF Listed THEN "live" ELSE "archive", ed[e].snap)
           /\ EditSnapshot(e) => Moves(e, "writing", live)
           /\ EditWrite(e) => Moves(e, "answered", Empty)
<1>1. ed \in [Editors -> Handlers] /\ ed[e] \in Handlers
  BY DEF Sound
<1>2. Find(e) => Moves(e, IF Listed THEN "live" ELSE "archive", ed[e].snap)
  BY <1>1 DEF Find, Moves, Handlers
<1>3. EditSnapshot(e) => Moves(e, "writing", live)
  BY <1>1 DEF EditSnapshot, Moves, Handlers
<1>4. EditWrite(e) => Moves(e, "answered", Empty)
  BY <1>1 DEF EditWrite, Moves, Handlers
<1> QED
  BY <1>2, <1>3, <1>4

\* An editor that reads is shown a place that holds something.
LEMMA ReadMoves ==
    ASSUME Sound, NEW e \in Editors, Read(e)
    PROVE  /\ ed'[e].pc = "read" /\ ed'[e].base = Shown.revision
           /\ ed'[e].at \in Places /\ ed'[e].saw = Shown.text[ed'[e].at]
           /\ ed'[e].at # Name => ed'[e].saw # "gap"
           /\ \A f \in Editors \ {e} : ed'[f] = ed[f]
<1>1. PICK p \in {Name} \cup {q \in Words : Shown.text[q] # "gap"} :
         ed' = [ed EXCEPT ![e] = [Idle EXCEPT !.pc = "read", !.at = p, !.base = Shown.revision,
                                              !.saw = Shown.text[p]]]
  BY DEF Read
<1>2. ed \in [Editors -> Handlers]
  BY DEF Sound
<1>3. /\ ed'[e] = [Idle EXCEPT !.pc = "read", !.at = p, !.base = Shown.revision,
                               !.saw = Shown.text[p]]
      /\ \A f \in Editors \ {e} : ed'[f] = ed[f]
  BY <1>1, <1>2
<1>4. /\ ed'[e].pc = "read" /\ ed'[e].at = p /\ ed'[e].base = Shown.revision
      /\ ed'[e].saw = Shown.text[p]
  <2> HIDE DEF Shown
  <2> QED
    BY <1>3 DEF Idle
<1> QED
  BY <1>3, <1>4 DEF Places

-----------------------------------------------------------------------------
(* Phases, and the words a person wrote.                                   *)

LEMMA PhasesStep == ASSUME Sound, Phases, [Next]_vars PROVE Phases'
<1> USE DEF Phases, Listed
<1>1. CASE UNCHANGED vars \/ AtRest
  BY <1>1 DEF vars, forwarder, AtRest
<1>2. CASE Push \/ TierAway \/ SaveNotDue \/ BeginFlush \/ Finish
  BY <1>2 DEF Push, TierAway, SaveNotDue, BeginFlush, Finish, Sound, Counters
<1>3. CASE Answer \/ Flush
  BY <1>3 DEF Answer, Flush
<1>4. CASE SaveSnapshot \/ SaveWrite \/ FinalSave
  BY <1>4 DEF SaveSnapshot, SaveWrite, FinalSave, MaySave
<1>5. ASSUME NEW e \in Editors, Read(e) PROVE Phases'
  BY <1>5, ReadMoves DEF Read, Up, forwarder
<1>6. ASSUME NEW e \in Editors, Find(e) \/ EditSnapshot(e) \/ EditWrite(e) PROVE Phases'
  <2>1. \A f \in Editors : \/ ed'[f].pc = ed[f].pc
                           \/ ed'[f].pc = IF Listed THEN "live" ELSE "archive"
                           \/ ed'[f].pc \in {"writing", "answered"}
    BY <1>6, HandlerMoves DEF Moves
  <2>2. UNCHANGED <<phase, stopped, live, fpc>> /\ phase # "down"
    BY <1>6 DEF Find, EditSnapshot, EditWrite, Up, forwarder
  <2> QED
    BY <2>1, <2>2
<1>7. ASSUME NEW e \in Editors, EditLive(e) PROVE Phases'
  <2>1. \A f \in Editors : ed'[f].pc = ed[f].pc \/ ed'[f].pc \in {"applied", "idle"}
    BY <1>7, AcceptMoves, RefuseMoves DEF EditLive
  <2> QED
    BY <1>7, <2>1 DEF EditLive, Up, forwarder
<1>8. ASSUME NEW e \in Editors, EditArchived(e) PROVE Phases'
  <2>1. \A f \in Editors : ed'[f].pc = ed[f].pc \/ ed'[f].pc \in {"saving", "idle"}
    BY <1>8, AcceptMoves, RefuseMoves DEF EditArchived
  <2> QED
    BY <1>8, <2>1 DEF EditArchived, Up, forwarder
<1>9. CASE Forget \/ Shutdown
  BY <1>9 DEF Forget, Shutdown, forwarder
<1>10. CASE Down
  <2>1. \A f \in Editors : ed'[f].pc \in {"idle", "read", "answered"}
    BY <1>10 DEF Down, Kept, Idle
  <2> QED
    BY <1>10, <2>1 DEF Down
<1>11. CASE Restart
  BY <1>11 DEF Restart
<1> QED
  BY <1>1, <1>2, <1>3, <1>4, <1>5, <1>6, <1>7, <1>8, <1>9, <1>10, <1>11
     DEF Next, Forwarder, Editor

\* Whatever the tier does to the text in memory, a person's words stay, and it
\* writes none; so does a restart with what was stored.
LEMMA PersonsStay ==
    ASSUME Sound, Mine
    PROVE  /\ Answer \/ Flush =>
                \A p \in Places : \/ live.text[p] \in Editors /\ live'.text[p] = live.text[p]
                                  \/ live.text[p] \notin Editors /\ live'.text[p] \notin Editors
           /\ \A u : Bounded(u) =>
                \A p \in Places : \/ u.text[p] \in Editors /\ Restored(u).text[p] = u.text[p]
                                  \/ u.text[p] \notin Editors /\ Restored(u).text[p] \notin Editors
<1>1. ASSUME NEW x \in Text
      PROVE  \A p \in Places : \/ x[p] \in Editors /\ Promoted(x)[p] = x[p]
                               \/ x[p] \notin Editors /\ Promoted(x)[p] \notin Editors
  BY <1>1, PromotedFacts, Persons DEF Places, Settled
<1>2. ASSUME Answer
      PROVE  \A p \in Places : \/ live.text[p] \in Editors /\ live'.text[p] = live.text[p]
                               \/ live.text[p] \notin Editors /\ live'.text[p] \notin Editors
  <2>1. PICK c \in {0} \cup (offset + 1..heard + 1) : live' = Applied(live, heard + 1, c)
    BY <1>2 DEF Answer
  <2>2. \A p \in Words : live'.text[p] = IF p \in Rewrites(c) THEN "machine"
                                         ELSE IF p = heard + 1 THEN "guess" ELSE live.text[p]
    BY <1>2, <2>1, AppliedFacts DEF Answer
  <2>3. live'.text[Name] = live.text[Name]
    BY <1>2, <2>1, AppliedFacts DEF Answer
  <2>4. ASSUME NEW p \in Words, live.text[p] \in Editors
        PROVE  p \notin Rewrites(c) /\ p # heard + 1
    <3>1. offset \in Nat /\ heard \in Nat /\ (p > heard => live.text[p] = "gap") /\ p \in Nat
      BY ArchiveAssumption DEF Sound, Counters, Bounded, BoundedBy, Words
    <3> QED
      BY <2>4, <3>1, Persons DEF Mine, Rewrites
  <2>5. ASSUME NEW p \in Words
        PROVE  \/ live.text[p] \in Editors /\ live'.text[p] = live.text[p]
               \/ live.text[p] \notin Editors /\ live'.text[p] \notin Editors
    <3>1. live'.text[p] = IF p \in Rewrites(c) THEN "machine"
                          ELSE IF p = heard + 1 THEN "guess" ELSE live.text[p]
      BY <2>2
    <3> QED
      BY <2>4, <3>1, Persons
  <2> QED
    BY <2>3, <2>5 DEF Places
<1>3. ASSUME Flush
      PROVE  \A p \in Places : \/ live.text[p] \in Editors /\ live'.text[p] = live.text[p]
                               \/ live.text[p] \notin Editors /\ live'.text[p] \notin Editors
  <2>1. PICK tail \in BOOLEAN : live' = Ended(live, tail /\ heard > offset)
    BY <1>3 DEF Flush
  <2>2. live'.text = Promoted(live.text)
    BY <2>1, EndedFacts
  <2>3. live.text \in Text
    BY DEF Sound, Bounded, BoundedBy, Transcripts
  <2> QED
    BY <1>1, <2>2, <2>3
<1>4. ASSUME NEW u, Bounded(u)
      PROVE  \A p \in Places : \/ u.text[p] \in Editors /\ Restored(u).text[p] = u.text[p]
                               \/ u.text[p] \notin Editors /\ Restored(u).text[p] \notin Editors
  <2>1. Restored(u).text = Promoted(u.text) /\ u.text \in Text
    BY <1>4, RestoredFacts DEF Bounded, BoundedBy, Transcripts
  <2> QED
    BY <1>1, <2>1
<1> QED
  BY <1>2, <1>3, <1>4

LEMMA MineStep == ASSUME Sound, Phases, Mine, [Next]_vars PROVE Mine'
<1> USE DEF Mine
<1>1. /\ heard \in Nat /\ offset \in Nat /\ Words \subseteq Nat /\ Words \subseteq Places
      /\ \A p \in Words : p > heard => live.text[p] = "gap" /\ store.text[p] = "gap"
  BY ArchiveAssumption DEF Sound, Counters, Bounded, BoundedBy, Words, Places
<1>2. CASE UNCHANGED <<live, offset, manual>>
  BY <1>2
<1>3. CASE Answer \/ Flush
  BY <1>1, <1>3, PersonsStay DEF Answer, Flush
<1>4. ASSUME NEW e \in Editors, EditLive(e) PROVE Mine'
  <2>1. CASE UNCHANGED live
    BY <1>4, <2>1 DEF EditLive, forwarder
  <2>2. CASE live' = Edited(live, e) /\ manual' = manual \cup ({ed[e].at} \ {Name})
    <3>1. live'.text = [live.text EXCEPT ![ed[e].at] = e] /\ live.text \in Text
      BY <2>2, EditedFacts DEF Sound, Bounded, BoundedBy, Transcripts
    <3>2. \A p \in Words : p # ed[e].at => live'.text[p] = live.text[p]
      BY <3>1 DEF Text, Places
    <3>3. Name \notin Words
      BY ArchiveAssumption DEF Name, Words
    <3> QED
      BY <1>4, <2>2, <3>2, <3>3 DEF EditLive, forwarder
  <2> QED
    BY <1>4, <2>1, <2>2 DEF EditLive
<1>5. CASE Down
  BY <1>5, Persons, EmptyIsBounded, ArchiveAssumption DEF Down
<1>6. CASE Restart
  <2>1. CASE UNCHANGED <<live, offset>>
    BY <1>6, <2>1 DEF Restart
  <2>2. CASE live' = Restored(store) /\ offset' = heard
    <3>1. ASSUME NEW p \in Words, live'.text[p] \in Editors PROVE p <= heard
      <4>1. store.text[p] \in Editors
        BY <1>1, <2>2, <3>1, PersonsStay DEF Sound
      <4> QED
        BY <1>1, <4>1, Persons
    <3> QED
      BY <1>6, <2>2, <3>1 DEF Restart
  <2> QED
    BY <1>6, <2>1, <2>2 DEF Restart, StreamStart
<1>7. CASE Push \/ TierAway \/ SaveSnapshot \/ SaveWrite \/ SaveNotDue \/ BeginFlush \/ FinalSave \/ Finish
  BY <1>2, <1>7 DEF Push, TierAway, SaveSnapshot, SaveWrite, SaveNotDue, BeginFlush, FinalSave, Finish
<1>8. ASSUME NEW e \in Editors, Read(e) \/ Find(e) \/ EditSnapshot(e) \/ EditArchived(e) \/ EditWrite(e)
      PROVE  Mine'
  BY <1>2, <1>8 DEF Read, Find, EditSnapshot, EditArchived, EditWrite, forwarder
<1>9. CASE Forget \/ Shutdown \/ AtRest \/ UNCHANGED vars
  BY <1>2, <1>9 DEF Forget, Shutdown, AtRest, vars, forwarder
<1> QED
  BY <1>3, <1>4, <1>5, <1>6, <1>7, <1>8, <1>9 DEF Next, Forwarder, Editor

LEMMA PeopleStep ==
    ASSUME Sound, Phases, Mine, [Next]_vars,
           NEW p \in Words, live.text[p] \in Editors, Up'
    PROVE  live'.text[p] \in Editors
<1>1. Words \subseteq Places
  BY DEF Places
<1>2. CASE Answer \/ Flush
  BY <1>1, <1>2, PersonsStay
<1>3. ASSUME NEW e \in Editors, EditLive(e) PROVE live'.text[p] \in Editors
  <2>1. CASE live' = Edited(live, e)
    <3>1. live'.text = [live.text EXCEPT ![ed[e].at] = e] /\ live.text \in Text
      BY <2>1, EditedFacts DEF Sound, Bounded, BoundedBy, Transcripts
    <3> QED
      BY <3>1, <1>1 DEF Text
  <2> QED
    BY <1>3, <2>1 DEF EditLive
<1>4. CASE Down
  BY <1>4 DEF Down, Up
<1>5. CASE Restart
  <2>1. live = Empty
    BY <1>5 DEF Restart, Phases
  <2> QED
    BY <2>1, EmptyIsBounded, Persons, ArchiveAssumption
<1>6. CASE Push \/ TierAway \/ SaveSnapshot \/ SaveWrite \/ SaveNotDue \/ BeginFlush \/ FinalSave \/ Finish
  BY <1>6 DEF Push, TierAway, SaveSnapshot, SaveWrite, SaveNotDue, BeginFlush, FinalSave, Finish
<1>7. ASSUME NEW e \in Editors, Read(e) \/ Find(e) \/ EditSnapshot(e) \/ EditArchived(e) \/ EditWrite(e)
      PROVE  live'.text[p] \in Editors
  BY <1>7 DEF Read, Find, EditSnapshot, EditArchived, EditWrite, forwarder
<1>8. CASE Forget \/ Shutdown \/ AtRest \/ UNCHANGED vars
  BY <1>8 DEF Forget, Shutdown, AtRest, vars, forwarder
<1> QED
  BY <1>2, <1>3, <1>4, <1>5, <1>6, <1>7, <1>8 DEF Next, Forwarder, Editor

-----------------------------------------------------------------------------
(* When the transcript in memory may still be written, and the copies.     *)

\* Only a restart puts a transcript into memory again.
LEMMA UseEnds ==
    ASSUME Sound, Phases, [Next]_vars, InUse'
    PROVE  InUse \/ (Restart /\ ~stopped /\ phase = "down")
<1> USE DEF InUse, HoldsLive, Listed
<1>1. CASE UNCHANGED vars \/ AtRest
  BY <1>1 DEF vars, forwarder, AtRest
<1>2. CASE Push \/ TierAway \/ SaveNotDue \/ BeginFlush \/ Finish \/ Answer \/ Flush
  BY <1>2 DEF Push, TierAway, SaveNotDue, BeginFlush, Finish, Answer, Flush, Listed
<1>3. CASE SaveSnapshot \/ SaveWrite \/ FinalSave
  BY <1>3 DEF SaveSnapshot, SaveWrite, FinalSave, MaySave
<1>4. ASSUME NEW e \in Editors, Read(e) PROVE InUse
  BY <1>4, ReadMoves DEF Read, forwarder
<1>5. ASSUME NEW e \in Editors, Find(e) PROVE InUse
  BY <1>5, HandlerMoves DEF Find, forwarder, Moves
<1>6. ASSUME NEW e \in Editors, EditSnapshot(e) PROVE InUse
  BY <1>6, HandlerMoves DEF EditSnapshot, forwarder, Moves
<1>7. ASSUME NEW e \in Editors, EditWrite(e) PROVE InUse
  BY <1>7, HandlerMoves DEF EditWrite, forwarder, Moves
<1>8. ASSUME NEW e \in Editors, EditLive(e) PROVE InUse
  <2>1. \A f \in Editors : ed'[f].pc = ed[f].pc \/ f = e
    BY <1>8, AcceptMoves, RefuseMoves DEF EditLive
  <2> QED
    BY <1>8, <2>1 DEF EditLive, forwarder
<1>9. ASSUME NEW e \in Editors, EditArchived(e) PROVE InUse
  <2>1. \A f \in Editors : ed'[f].pc = ed[f].pc \/ ed'[f].pc \in {"saving", "idle"}
    BY <1>9, AcceptMoves, RefuseMoves DEF EditArchived
  <2> QED
    BY <1>9, <2>1 DEF EditArchived, forwarder
<1>10. CASE Forget \/ Shutdown
  BY <1>10 DEF Forget, Shutdown, forwarder
<1>11. CASE Down
  <2>1. \A f \in Editors : ed'[f].pc \in {"idle", "read", "answered"}
    BY <1>11 DEF Down, Kept, Idle
  <2> QED
    BY <1>11, <2>1 DEF Down
<1>12. CASE Restart
  BY <1>12 DEF Restart, Phases
<1> QED
  BY <1>1, <1>2, <1>3, <1>4, <1>5, <1>6, <1>7, <1>8, <1>9, <1>10, <1>11, <1>12
     DEF Next, Forwarder, Editor

LEMMA OneSavingStep == ASSUME Sound, Phases, OneSaving, [Next]_vars PROVE OneSaving'
<1>1. CASE \E e \in Editors : EditArchived(e)
  <2>1. PICK e \in Editors : EditArchived(e)
    BY <1>1
  <2>2. CASE Refuse(e)
    <3>1. \A f \in Editors : ed'[f].pc = "saving" => ed[f].pc = "saving"
      BY <2>2, RefuseMoves
    <3>2. InUse' => InUse
      BY <2>1, UseEnds DEF EditArchived, Restart, Up
    <3> QED
      BY <3>1, <3>2 DEF OneSaving
  <2>3. CASE Accept(e, "saving", Edited(Restored(store), e)) /\ NoOtherCopy
    <3>1. ed'[e].pc = "saving" /\ \A f \in Editors \ {e} : ed'[f].pc = ed[f].pc
      BY <2>3, AcceptMoves
    <3>2. \A f \in Editors : ed[f].pc # "saving"
      BY <2>1 DEF EditArchived, ArchiveFree
    <3>3. ~Listed /\ phase \in {"closing", "forgotten"} /\ ed[e].pc = "archive"
      BY <2>1 DEF EditArchived, Phases, Up, Listed
    <3>4. ~InUse'
      BY <2>1, <2>3, <3>1, <3>3 DEF EditArchived, InUse, HoldsLive, NoOtherCopy, Listed, Phases, forwarder
    <3> QED
      BY <3>1, <3>2, <3>4 DEF OneSaving
  <2> QED
    BY <2>1, <2>2, <2>3 DEF EditArchived
<1>2. CASE ~\E e \in Editors : EditArchived(e)
  <2>1. \A f \in Editors : ed'[f].pc = "saving" => ed[f].pc = "saving"
    <3>1. CASE ed' = ed
      BY <3>1
    <3>2. ASSUME NEW e \in Editors, EditLive(e)
          PROVE \A f \in Editors : ed'[f].pc = "saving" => ed[f].pc = "saving"
      BY <3>2, AcceptMoves, RefuseMoves DEF EditLive
    <3>3. ASSUME NEW e \in Editors, Read(e) \/ Find(e) \/ EditSnapshot(e) \/ EditWrite(e)
          PROVE \A f \in Editors : ed'[f].pc = "saving" => ed[f].pc = "saving"
      BY <3>3, HandlerMoves, ReadMoves DEF Moves
    <3>4. CASE Down \/ Shutdown
      BY <3>4 DEF Down, Shutdown, Kept, Idle
    <3>5. CASE UNCHANGED vars \/ AtRest \/ Forget \/ Restart
      BY <3>1, <3>5 DEF vars, AtRest, Forget, Restart
    <3>6. CASE Forwarder
      BY <3>1, <3>6 DEF Forwarder, Push, Answer, TierAway, SaveSnapshot, SaveWrite, SaveNotDue,
                        BeginFlush, Flush, FinalSave, Finish
    <3> QED
      BY <1>2, <3>2, <3>3, <3>4, <3>5, <3>6 DEF Next, Editor
  <2> QED
    BY <2>1, UseEnds DEF OneSaving, Phases
<1> QED
  BY <1>1, <1>2

LEMMA OneSnapshotStep ==
    ASSUME Sound, OneSnapshot, [Next]_vars, "snapshots" \notin Races PROVE OneSnapshot'
<1> USE DEF OneSnapshot
<1>1. CASE UNCHANGED vars \/ AtRest \/ Forget
  BY <1>1 DEF vars, forwarder, AtRest, Forget
<1>2. CASE Push \/ TierAway \/ SaveNotDue \/ BeginFlush \/ Finish \/ Answer \/ Flush \/ SaveWrite \/ FinalSave
  BY <1>2 DEF Push, TierAway, SaveNotDue, BeginFlush, Finish, Answer, Flush, SaveWrite, FinalSave
<1>3. CASE SaveSnapshot
  BY <1>3 DEF SaveSnapshot, NoOtherSnapshot
<1>4. ASSUME NEW e \in Editors, Read(e) PROVE OneSnapshot'
  <2>1. \A f \in Editors : ed'[f].pc = ed[f].pc \/ ed'[f].pc = "read"
    BY <1>4, ReadMoves
  <2> QED
    BY <1>4, <2>1 DEF Read, forwarder
<1>5. ASSUME NEW e \in Editors, Find(e) PROVE OneSnapshot'
  BY <1>5, HandlerMoves DEF Find, forwarder, Moves
<1>6. ASSUME NEW e \in Editors, EditSnapshot(e) PROVE OneSnapshot'
  <2>1. \A f \in Editors : ed'[f].pc = ed[f].pc \/ f = e
    BY <1>6, HandlerMoves DEF Moves
  <2>2. fpc' = fpc /\ fpc # "writing" /\ \A f \in Editors : ed[f].pc # "writing"
    BY <1>6 DEF EditSnapshot, NoOtherSnapshot, forwarder
  <2> QED
    BY <2>1, <2>2
<1>7. ASSUME NEW e \in Editors, EditWrite(e) PROVE OneSnapshot'
  <2>1. \A f \in Editors : ed'[f].pc = ed[f].pc \/ ed'[f].pc = "answered"
    BY <1>7, HandlerMoves DEF Moves
  <2> QED
    BY <1>7, <2>1 DEF EditWrite, forwarder
<1>8. ASSUME NEW e \in Editors, EditLive(e) \/ EditArchived(e) PROVE OneSnapshot'
  <2>1. \A f \in Editors : ed'[f].pc = ed[f].pc \/ ed'[f].pc \in {"applied", "saving", "idle"}
    BY <1>8, AcceptMoves, RefuseMoves DEF EditLive, EditArchived
  <2> QED
    BY <1>8, <2>1 DEF EditLive, EditArchived, forwarder
<1>9. CASE Shutdown \/ Down
  <2>1. \A f \in Editors : ed'[f].pc = ed[f].pc \/ ed'[f].pc = "idle"
    BY <1>9 DEF Shutdown, Down, Kept, Idle
  <2> QED
    BY <1>9, <2>1 DEF Shutdown, Down, forwarder
<1>10. CASE Restart
  BY <1>10 DEF Restart
<1> QED
  BY <1>1, <1>2, <1>3, <1>4, <1>5, <1>6, <1>7, <1>8, <1>9, <1>10
     DEF Next, Forwarder, Editor

-----------------------------------------------------------------------------
(* What is stored when nothing is on its way.                              *)

LEMMA NotInUse ==
    ASSUME Sound, Phases
    PROVE  Down \/ (Restart /\ stopped) => ~InUse'
<1>1. CASE Down
  <2>1. \A f \in Editors : ed'[f].pc \in {"idle", "read", "answered"}
    BY <1>1 DEF Down, Kept, Idle
  <2> QED
    BY <1>1, <2>1 DEF Down, InUse, HoldsLive, Listed
<1>2. CASE Restart /\ stopped
  BY <1>2 DEF Restart, InUse, HoldsLive, Listed, Phases
<1> QED
  BY <1>1, <1>2

LEMMA UpToDateStep ==
    ASSUME Sound, Phases, OneSaving, OneSaving', OneSnapshot, UpToDate, [Next]_vars,
           "snapshots" \notin Races
    PROVE  UpToDate'
<1> USE DEF UpToDate, SavedIsCurrent, LastIsWhole, Pending, Writing, Same
<1>1. InUse' => InUse \/ (Restart /\ ~stopped /\ phase = "down")
  BY UseEnds
<1>2. Restart => phase = "down"
  BY DEF Restart
<1>3. CASE UNCHANGED vars \/ AtRest
  <2>1. InUse' => InUse
    BY <1>3 DEF vars, forwarder, AtRest, InUse, HoldsLive, Listed
  <2> QED
    BY <1>3, <2>1 DEF vars, forwarder, AtRest, Listed
<1>4. CASE Push \/ TierAway \/ SaveNotDue \/ BeginFlush
  BY <1>4 DEF Push, TierAway, SaveNotDue, BeginFlush, Listed
<1>5. CASE Finish
  <2>1. InUse' => InUse
    BY <1>1, <1>5 DEF Finish, Restart, Phases
  <2> QED
    BY <1>5, <2>1 DEF Finish, Listed
<1>6. CASE Answer
  BY <1>6 DEF Answer
<1>7. CASE Flush
  <2>1. live'.done
    BY <1>7, EndedFacts DEF Flush
  <2> QED
    BY <1>7, <2>1 DEF Flush
<1>8. CASE SaveSnapshot
  BY <1>8 DEF SaveSnapshot, NoOtherSnapshot
<1>9. CASE SaveWrite
  BY <1>9 DEF SaveWrite, OneSnapshot, Listed
<1>10. CASE FinalSave
  <2>1. InUse' => InUse
    BY <1>1, <1>10 DEF FinalSave, Restart, Phases
  <2>2. \A f \in Editors : ed'[f].pc # "writing"
    BY <1>10 DEF FinalSave, NoOtherSnapshot
  <2> QED
    BY <1>10, <2>1, <2>2 DEF FinalSave, FinalRow
<1>11. ASSUME NEW e \in Editors, Read(e) \/ Find(e) PROVE UpToDate'
  <2>1. /\ ed[e].pc \in {"idle", "read"} /\ ed'[e].pc \in {"read", "live", "archive"}
        /\ \A f \in Editors \ {e} : ed'[f] = ed[f]
    BY <1>11, ReadMoves, HandlerMoves DEF Read, Find, Moves
  <2>2. InUse' => InUse
    BY <1>1, <1>11 DEF Read, Find, Restart, Up
  <2>3. UNCHANGED <<phase, live, unsaved, fpc, store, fsnap>>
    BY <1>11 DEF Read, Find, forwarder
  <2>4. \A f \in Editors : /\ ed'[f].pc = "writing" <=> ed[f].pc = "writing"
                           /\ ed'[f].pc = "applied" <=> ed[f].pc = "applied"
                           /\ ed'[f].pc = "writing" => ed'[f].snap = ed[f].snap
    BY <2>1
  <2> QED
    BY <2>2, <2>3, <2>4 DEF Listed
<1>12. ASSUME NEW e \in Editors, EditLive(e) PROVE UpToDate'
  <2>1. InUse' => InUse
    BY <1>1, <1>12 DEF EditLive, Restart, Up
  <2>2. CASE Refuse(e) /\ UNCHANGED <<live, manual, unsaved>>
    <3>1. /\ ed[e].pc = "live" /\ ed'[e].pc = "idle"
          /\ \A f \in Editors \ {e} : ed'[f] = ed[f]
      BY <1>12, <2>2, RefuseMoves DEF EditLive
    <3> QED
      BY <1>12, <2>1, <2>2, <3>1 DEF EditLive, forwarder, Listed
  <2>3. CASE live' = Edited(live, e) /\ unsaved' = UnsavedAfterEdit(e) /\ Accept(e, "applied", Empty)
    <3>1. live'.done = live.done
      BY <2>3, EditedFacts DEF Sound
    <3>2. ed'[e].pc = "applied" /\ unsaved'
      BY <2>3, AcceptMoves DEF UnsavedAfterEdit
    <3> QED
      BY <1>12, <2>1, <3>1, <3>2 DEF EditLive, forwarder
  <2> QED
    BY <1>12, <2>2, <2>3 DEF EditLive
<1>13. ASSUME NEW e \in Editors, EditSnapshot(e) PROVE UpToDate'
  <2>1. /\ ed'[e].pc = "writing" /\ ed'[e].snap = live
        /\ \A f \in Editors \ {e} : ed'[f] = ed[f]
    BY <1>13, HandlerMoves DEF Moves
  <2>2. fpc # "writing" /\ \A f \in Editors : ed[f].pc # "writing"
    BY <1>13 DEF EditSnapshot, NoOtherSnapshot
  <2>3. InUse' => InUse
    BY <1>1, <1>13 DEF EditSnapshot, Restart, Up
  <2> QED
    BY <1>13, <2>1, <2>2, <2>3 DEF EditSnapshot, forwarder
<1>14. ASSUME NEW e \in Editors, EditArchived(e) PROVE UpToDate'
  <2>1. InUse' => InUse
    BY <1>1, <1>14 DEF EditArchived, Restart, Up
  <2>2. ~Listed /\ ~Listed' /\ ed[e].pc = "archive"
    BY <1>14 DEF EditArchived, Phases, Listed
  <2>3. CASE Refuse(e)
    <3>1. ed'[e].pc = "idle" /\ \A f \in Editors \ {e} : ed'[f] = ed[f]
      BY <2>3, RefuseMoves
    <3> QED
      BY <1>14, <2>1, <2>2, <3>1 DEF EditArchived, forwarder
  <2>4. CASE Accept(e, "saving", Edited(Restored(store), e))
    <3>1. ~InUse'
      BY <2>4, AcceptMoves DEF OneSaving
    <3> QED
      BY <2>2, <3>1
  <2> QED
    BY <1>14, <2>3, <2>4 DEF EditArchived
<1>15. ASSUME NEW e \in Editors, EditWrite(e) PROVE UpToDate'
  <2>1. InUse' => InUse
    BY <1>1, <1>15 DEF EditWrite, Restart, Up
  <2>2. /\ ed'[e].pc = "answered" /\ \A f \in Editors \ {e} : ed'[f] = ed[f]
        /\ store' = ed[e].snap
    BY <1>15, HandlerMoves DEF Moves, EditWrite
  <2>3. UNCHANGED <<phase, live, unsaved, fpc>>
    BY <1>15 DEF EditWrite, forwarder
  <2>4. CASE ed[e].pc = "writing"
    <3>1. fpc # "writing" /\ \A f \in Editors \ {e} : ed[f].pc # "writing"
      BY <2>4 DEF OneSnapshot
    <3> QED
      BY <2>1, <2>2, <2>3, <2>4, <3>1 DEF Listed
  <2>5. CASE ed[e].pc = "saving"
    BY <2>1, <2>3, <2>5 DEF OneSaving, InUse, Listed
  <2> QED
    BY <1>15, <2>4, <2>5 DEF EditWrite
<1>16. CASE Forget \/ Shutdown
  <2>1. InUse /\ ~Listed'
    BY <1>16 DEF Forget, Shutdown, InUse, Listed
  <2>2. \A f \in Editors : ed'[f] = ed[f] \/ (ed[f].pc = "read" /\ ed'[f].pc \in {"read", "idle"})
    BY <1>16 DEF Forget, Shutdown, Kept, Idle
  <2> QED
    BY <1>16, <2>1, <2>2 DEF Forget, Shutdown, forwarder
<1>17. CASE Down \/ (Restart /\ stopped)
  BY <1>17, NotInUse DEF InUse
<1>18. CASE Restart /\ ~stopped
  <2>1. /\ fpc' = "waiting" /\ store' = store /\ ed' = ed /\ live' = Restored(store)
        /\ unsaved' = HasRow /\ \A f \in Editors : ed[f].pc # "writing"
    BY <1>18 DEF Restart, Phases
  <2>2. CASE HasRow
    BY <2>1, <2>2
  <2>3. CASE ~HasRow
    <3>1. store = Empty /\ Bounded(store)
      BY <2>3 DEF HasRow, Sound
    <3>2. live'.text = Promoted(store.text)
      BY <2>1, <3>1, RestoredFacts
    <3>3. store.text \in Text /\ Guesses(store.text) = {}
      BY <3>1, EmptyIsBounded, ArchiveAssumption DEF Guesses, Bounded, BoundedBy, Transcripts, Sound, Counters
    <3> QED
      BY <2>1, <3>2, <3>3, PromotedFacts
  <2> QED
    BY <2>2, <2>3
<1> QED
  BY <1>3, <1>4, <1>5, <1>6, <1>7, <1>8, <1>9, <1>10, <1>11, <1>12, <1>13, <1>14, <1>15, <1>16,
     <1>17, <1>18 DEF Next, Forwarder, Editor

-----------------------------------------------------------------------------
(* Where an answered edit is.                                              *)

LEMMA StoredStep ==
    ASSUME Sound, Phases, Mine, OneSaving, OneSaving', OneSnapshot, Stored, [Next]_vars,
           Races \cap {"snapshots", "copies", "closing"} = {}
    PROVE  Stored'
<1> USE DEF Stored, Holds
<1>1. InUse' => InUse \/ (Restart /\ ~stopped /\ phase = "down")
  BY UseEnds
<1>2. /\ fpc \notin {"waiting", "over"} => InUse
      /\ \A f \in Editors : HoldsLive(f) => InUse
      /\ \A f \in Editors : ed[f].pc = "saving" => ~InUse
  BY DEF InUse, OneSaving
<1>3. \A f \in Editors : ed[f].at \in Places
  BY DEF Sound, Handlers
<1>4. CASE UNCHANGED vars \/ AtRest \/ Forget
  <2>1. InUse' => InUse
    BY <1>4 DEF vars, forwarder, AtRest, Forget, InUse, HoldsLive, Listed
  <2> QED
    BY <1>4, <2>1 DEF vars, forwarder, AtRest, Forget
<1>5. CASE Push \/ TierAway \/ SaveNotDue \/ BeginFlush \/ Finish
  <2>1. InUse' => InUse
    BY <1>1, <1>5 DEF Push, TierAway, SaveNotDue, BeginFlush, Finish, Restart, Phases
  <2> QED
    BY <1>5, <2>1 DEF Push, TierAway, SaveNotDue, BeginFlush, Finish
<1>6. CASE Answer \/ Flush
  <2>1. InUse
    BY <1>2, <1>6 DEF Answer, Flush
  <2>2. \A p \in Places : live.text[p] \in Editors => live'.text[p] = live.text[p]
    BY <1>6, PersonsStay
  <2>3. /\ UNCHANGED <<store, ed, fsnap>> /\ fpc' # "writing"
    BY <1>6 DEF Answer, Flush
  <2>4. \A f \in Editors : ed[f].later \subseteq Editors
    BY DEF Sound, Handlers
  <2>5. ASSUME NEW e \in Editors, Holds(e, live) PROVE Holds(e, live)'
    BY <1>3, <2>2, <2>3, <2>4, <2>5
  <2> QED
    BY <2>1, <2>3, <2>5
<1>7. CASE SaveSnapshot
  <2>1. InUse
    BY <1>2, <1>7 DEF SaveSnapshot, MaySave, InUse
  <2> QED
    BY <1>7, <2>1 DEF SaveSnapshot
<1>8. CASE SaveWrite
  <2>1. InUse
    BY <1>2, <1>8 DEF SaveWrite
  <2> QED
    BY <1>8, <2>1 DEF SaveWrite
<1>9. CASE FinalSave
  <2>1. InUse
    BY <1>2, <1>9 DEF FinalSave
  <2> QED
    BY <1>9, <2>1 DEF FinalSave, FinalRow
<1>10. ASSUME NEW e \in Editors, Read(e) \/ Find(e) PROVE Stored'
  <2>1. /\ ed[e].pc \in {"idle", "read"} /\ ed'[e].pc \in {"read", "live", "archive"}
        /\ \A f \in Editors \ {e} : ed'[f] = ed[f]
    BY <1>10, ReadMoves, HandlerMoves DEF Read, Find, Moves
  <2>2. InUse' => InUse
    BY <1>1, <1>10 DEF Read, Find, Restart, Up
  <2>3. UNCHANGED <<live, fpc, store, fsnap>>
    BY <1>10 DEF Read, Find, forwarder
  <2> QED
    BY <2>1, <2>2, <2>3
<1>11. ASSUME NEW e \in Editors, EditLive(e) PROVE Stored'
  <2>1. InUse
    BY <1>2, <1>11 DEF EditLive, HoldsLive
  <2>2. CASE Refuse(e) /\ UNCHANGED <<live, manual, unsaved>>
    <3>1. /\ ed'[e].pc = "idle" /\ \A f \in Editors \ {e} : ed'[f] = ed[f]
      BY <2>2, RefuseMoves
    <3> QED
      BY <1>11, <2>1, <2>2, <3>1 DEF EditLive, forwarder
  <2>3. CASE live' = Edited(live, e) /\ Accept(e, "applied", Empty)
    <3>1. live'.text = [live.text EXCEPT ![ed[e].at] = e] /\ live.text \in Text
      BY <2>3, EditedFacts DEF Sound, Bounded, BoundedBy, Transcripts
    <3>2. /\ ed'[e].pc = "applied" /\ ed'[e].at = ed[e].at
          /\ \A f \in Editors \ {e} :
               /\ ed'[f].pc = ed[f].pc /\ ed'[f].at = ed[f].at /\ ed'[f].snap = ed[f].snap
               /\ ed[f].later \subseteq ed'[f].later
               /\ Counts(ed[f].pc) /\ ed[f].at = ed[e].at => e \in ed'[f].later
      BY <2>3, AcceptMoves
    <3>3. UNCHANGED <<store, fsnap, fpc>>
      BY <1>11 DEF EditLive, forwarder
    <3>4. live'.text[ed[e].at] = e /\ \A p \in Places : p # ed[e].at => live'.text[p] = live.text[p]
      BY <1>3, <3>1 DEF Text
    <3>5. ASSUME NEW f \in Editors \ {e}, Counts(ed[f].pc), Holds(f, live) PROVE Holds(f, live)'
      BY <1>3, <3>2, <3>4, <3>5
    <3>6. Holds(e, live)'
      BY <3>2, <3>4
    <3> QED
      BY <2>1, <3>2, <3>3, <3>5, <3>6 DEF Counts
  <2> QED
    BY <1>11, <2>2, <2>3 DEF EditLive
<1>12. ASSUME NEW e \in Editors, EditSnapshot(e) PROVE Stored'
  <2>1. /\ ed[e].pc = "applied" /\ ed'[e].pc = "writing" /\ ed'[e].snap = live
        /\ ed'[e].at = ed[e].at /\ ed'[e].later = ed[e].later
        /\ \A f \in Editors \ {e} : ed'[f] = ed[f]
    BY <1>12, HandlerMoves DEF Moves, EditSnapshot
  <2>2. InUse
    BY <1>2, <2>1 DEF HoldsLive
  <2> QED
    BY <1>12, <2>1, <2>2 DEF EditSnapshot, forwarder
<1>13. ASSUME NEW e \in Editors, EditArchived(e) PROVE Stored'
  <2>1. InUse' => InUse
    BY <1>1, <1>13 DEF EditArchived, Restart, Up
  <2>2. CASE Refuse(e)
    <3>1. ed'[e].pc = "idle" /\ \A f \in Editors \ {e} : ed'[f] = ed[f]
      BY <2>2, RefuseMoves
    <3> QED
      BY <1>13, <2>1, <3>1 DEF EditArchived, forwarder
  <2>3. CASE Accept(e, "saving", Edited(Restored(store), e))
    <3> DEFINE t == Edited(Restored(store), e)
    <3>1. /\ ed'[e].pc = "saving" /\ ed'[e].at = ed[e].at /\ ed'[e].snap = t
          /\ \A f \in Editors \ {e} :
               /\ ed'[f].pc = ed[f].pc /\ ed'[f].at = ed[f].at /\ ed'[f].snap = ed[f].snap
               /\ ed[f].later \subseteq ed'[f].later
               /\ Counts(ed[f].pc) /\ ed[f].at = ed[e].at => e \in ed'[f].later
      BY <2>3, AcceptMoves
    <3>2. ~InUse'
      BY <3>1 DEF OneSaving
    <3>3. UNCHANGED <<store, fsnap, fpc>>
      BY <1>13 DEF EditArchived, forwarder
    <3>4. Bounded(Restored(store)) /\ Restored(store).text \in Text
      BY RestoredFacts DEF Sound, Bounded, BoundedBy, Transcripts
    <3>5. t.text = [Restored(store).text EXCEPT ![ed[e].at] = e]
      BY <3>4, EditedFacts
    <3>6. /\ t.text[ed[e].at] = e
          /\ \A p \in Places : p # ed[e].at => t.text[p] = Restored(store).text[p]
      BY <1>3, <3>4, <3>5 DEF Text
    <3>7. \A p \in Places : store.text[p] \in Editors => Restored(store).text[p] = store.text[p]
      BY PersonsStay DEF Sound
    <3> HIDE DEF t
    <3>8. ASSUME NEW f \in Editors \ {e}, ed[f].pc = "answered"
          PROVE  t.text[ed'[f].at] \in {f} \cup ed'[f].later
      <4>1. Holds(f, store) /\ ed[f].later \subseteq Editors
        BY <3>8 DEF Sound, Handlers
      <4>2. CASE ed[f].at = ed[e].at
        BY <3>1, <3>6, <3>8, <4>2 DEF Counts
      <4>3. CASE ed[f].at # ed[e].at
        <5>1. t.text[ed[f].at] = store.text[ed[f].at]
          BY <1>3, <3>6, <3>7, <4>1, <4>3
        <5> QED
          BY <3>1, <4>1, <5>1
      <4> QED
        BY <4>2, <4>3
    <3>9. t.text[ed'[e].at] = e
      BY <3>1, <3>6
    <3> QED
      BY <3>1, <3>2, <3>3, <3>8, <3>9
  <2> QED
    BY <1>13, <2>2, <2>3 DEF EditArchived
<1>14. ASSUME NEW e \in Editors, EditWrite(e) PROVE Stored'
  <2>1. InUse' => InUse
    BY <1>1, <1>14 DEF EditWrite, Restart, Up
  <2>2. /\ ed[e].pc \in {"writing", "saving"} /\ ed'[e].pc = "answered"
        /\ ed'[e].at = ed[e].at /\ ed'[e].later = ed[e].later
        /\ \A f \in Editors \ {e} : ed'[f] = ed[f]
        /\ store' = ed[e].snap
    BY <1>14, HandlerMoves DEF Moves, EditWrite
  <2>3. UNCHANGED <<live, fsnap, fpc>>
    BY <1>14 DEF EditWrite, forwarder
  <2>4. fpc # "writing" /\ \A f \in Editors \ {e} : ed[f].pc \notin {"writing", "saving"}
    BY <1>2, <2>2 DEF OneSnapshot, OneSaving, HoldsLive
  <2>5. InUse => ed[e].pc = "writing"
    BY <1>2, <2>2
  <2> QED
    BY <2>1, <2>2, <2>3, <2>4, <2>5
<1>15. CASE Shutdown \/ Down
  <2>1. \A f \in Editors : \/ ed'[f] = ed[f]
                           \/ ed'[f].pc = "idle"
    BY <1>15 DEF Shutdown, Down, Kept, Idle
  <2>2. CASE Shutdown
    <3>1. InUse
      BY <2>2 DEF Shutdown, InUse
    <3> QED
      BY <2>1, <2>2, <3>1 DEF Shutdown, forwarder
  <2>3. CASE Down
    <3>1. ~InUse' /\ fpc' # "writing" /\ store' = store
      BY <2>3, NotInUse DEF Down
    <3>2. \A f \in Editors : ed'[f].pc \in {"idle", "read", "answered"}
      BY <2>3 DEF Down, Kept, Idle
    <3> QED
      BY <2>1, <3>1, <3>2
  <2> QED
    BY <1>15, <2>2, <2>3
<1>16. CASE Restart
  <2>1. /\ UNCHANGED <<store, ed>> /\ fpc' # "writing"
        /\ \A f \in Editors : ed[f].pc \in {"idle", "read", "answered"}
    BY <1>16 DEF Restart, Phases
  <2>2. InUse' => live' = Restored(store)
    BY <1>16, NotInUse DEF Restart
  <2>3. \A p \in Places : store.text[p] \in Editors => Restored(store).text[p] = store.text[p]
    BY PersonsStay DEF Sound
  <2>4. \A f \in Editors : ed[f].later \subseteq Editors
    BY DEF Sound, Handlers
  <2>5. ASSUME NEW f \in Editors, InUse', Holds(f, store) PROVE Holds(f, live)'
    BY <1>3, <2>1, <2>2, <2>3, <2>4, <2>5
  <2> QED
    BY <2>1, <2>5
<1> QED
  BY <1>4, <1>5, <1>6, <1>7, <1>8, <1>9, <1>10, <1>11, <1>12, <1>13, <1>14, <1>15, <1>16
     DEF Next, Forwarder, Editor

-----------------------------------------------------------------------------
(* The order of the copies.                                                *)

LEMMA PrecedesFacts ==
    /\ \A t \in Transcripts : Precedes(t, t)
    /\ \A t, u, v \in Transcripts : Precedes(t, u) /\ Precedes(u, v) => Precedes(t, v)
<1>1. \A t \in Transcripts : Precedes(t, t)
  BY DEF Precedes, Transcripts
<1>2. ASSUME NEW t \in Transcripts, NEW u \in Transcripts, NEW v \in Transcripts,
             Precedes(t, u), Precedes(u, v)
      PROVE  Precedes(t, v)
  <2>1. t.revision \in Nat /\ u.revision \in Nat /\ v.revision \in Nat
    BY DEF Transcripts
  <2>2. t.revision <= v.revision
    BY <1>2, <2>1 DEF Precedes
  <2>3. ASSUME t.revision = v.revision, NEW p \in Words
        PROVE  Promoted(t.text)[p] \in {"gap", Promoted(v.text)[p]}
    <3>1. t.revision = u.revision /\ u.revision = v.revision
      BY <1>2, <2>1, <2>3 DEF Precedes
    <3> QED
      BY <1>2, <3>1 DEF Precedes
  <2> QED
    BY <2>2, <2>3 DEF Precedes
<1> QED
  BY <1>1, <1>2

\* While its revision stands, the transcript in memory only gains words at the
\* end.
Grows ==
    /\ live.revision <= live'.revision
    /\ live.revision = live'.revision =>
         \A p \in Words : p <= heard => live'.text[p] = live.text[p]

LEMMA MemoryGrows ==
    ASSUME Sound
    PROVE  /\ Answer \/ Flush => Grows
           /\ \A e \in Editors : live' = Edited(live, e) => Grows /\ live'.revision = live.revision + 1
<1>1. /\ live.revision \in Nat /\ live.text \in Text /\ heard \in Nat /\ Bounded(live)
      /\ offset \in 0..heard
  BY ArchiveAssumption DEF Sound, Counters, Bounded, BoundedBy, Transcripts
<1>2. ASSUME Answer PROVE Grows
  <2>1. PICK c \in {0} \cup (offset + 1..heard + 1) : live' = Applied(live, heard + 1, c)
    BY <1>2 DEF Answer
  <2>2. /\ \A p \in Words : live'.text[p] = IF p \in Rewrites(c) THEN "machine"
                                            ELSE IF p = heard + 1 THEN "guess" ELSE live.text[p]
        /\ live'.revision = IF c > 0 THEN live.revision + 1 ELSE live.revision
    BY <1>2, <2>1, AppliedFacts DEF Answer
  <2>3. CASE c = 0
    <3>1. Rewrites(c) = {} /\ live'.revision = live.revision
      BY <1>1, <2>2, <2>3 DEF Rewrites
    <3> QED
      BY <1>1, <2>2, <3>1 DEF Grows, Words
  <2>4. CASE c # 0
    <3>1. live'.revision = live.revision + 1
      BY <1>1, <2>2, <2>4
    <3> QED
      BY <1>1, <3>1 DEF Grows
  <2> QED
    BY <2>3, <2>4
<1>3. ASSUME Flush PROVE Grows
  <2>1. PICK tail \in BOOLEAN : live' = Ended(live, tail /\ heard > offset)
    BY <1>3 DEF Flush
  <2>2. /\ live'.text = Promoted(live.text) /\ live'.revision >= live.revision
        /\ live'.revision = live.revision => Guesses(live.text) = {}
        /\ live'.revision \in Nat
    BY <2>1, EndedFacts DEF Bounded, BoundedBy, Transcripts
  <2> QED
    BY <1>1, <2>2, PromotedFacts DEF Grows
<1>4. ASSUME NEW e \in Editors, live' = Edited(live, e)
      PROVE  Grows /\ live'.revision = live.revision + 1
  <2>1. live'.revision = live.revision + 1
    BY <1>1, <1>4, EditedFacts
  <2> QED
    BY <1>1, <2>1 DEF Grows
<1> QED
  BY <1>2, <1>3, <1>4

LEMMA GrowsPrecedes ==
    ASSUME Sound, Sound', Grows
    PROVE  Precedes(live, live') /\ \A t \in Transcripts : Precedes(t, live) => Precedes(t, live')
<1>1. /\ live \in Transcripts /\ live' \in Transcripts /\ live.text \in Text /\ live'.text \in Text
      /\ \A p \in Words : p > heard => live.text[p] = "gap"
      /\ heard \in Nat /\ Words \subseteq Nat
  BY ArchiveAssumption DEF Sound, Counters, Bounded, BoundedBy, Transcripts, Words
<1>2. ASSUME live.revision = live'.revision, NEW p \in Words
      PROVE  Promoted(live.text)[p] \in {"gap", Promoted(live'.text)[p]}
  <2>1. /\ Promoted(live.text)[p] = Settled(live.text[p])
        /\ Promoted(live'.text)[p] = Settled(live'.text[p])
    BY <1>1, PromotedFacts
  <2>2. CASE p <= heard
    BY <1>2, <2>1, <2>2 DEF Grows
  <2>3. CASE p > heard
    BY <1>1, <2>1, <2>3 DEF Settled
  <2> QED
    BY <1>1, <2>2, <2>3
<1>3. Precedes(live, live')
  BY <1>2 DEF Precedes, Grows
<1> QED
  BY <1>1, <1>3, PrecedesFacts

LEMMA OrderedStep ==
    ASSUME Sound, Sound', Phases, OneSaving, OneSaving', OneSnapshot, Ordered, [Next]_vars,
           Races = {}
    PROVE  Ordered'
<1> USE DEF Ordered
<1>1. InUse' => InUse \/ (Restart /\ ~stopped /\ phase = "down")
  BY UseEnds
<1>2. /\ fpc \notin {"waiting", "over"} => InUse
      /\ \A f \in Editors : HoldsLive(f) => InUse
      /\ \A f \in Editors : ed[f].pc = "saving" => ~InUse
  BY DEF InUse, OneSaving
<1>3. /\ live \in Transcripts /\ store \in Transcripts /\ fsnap \in Transcripts
      /\ \A f \in Editors : ed[f].snap \in Transcripts
  BY DEF Sound, Bounded, BoundedBy, HandlerIsSound
<1>4. CASE UNCHANGED vars \/ AtRest \/ Forget
  <2>1. InUse' => InUse
    BY <1>4 DEF vars, forwarder, AtRest, Forget, InUse, HoldsLive, Listed
  <2> QED
    BY <1>4, <2>1 DEF vars, forwarder, AtRest, Forget
<1>5. CASE Push \/ TierAway \/ SaveNotDue \/ BeginFlush \/ Finish
  <2>1. InUse' => InUse
    BY <1>1, <1>5 DEF Push, TierAway, SaveNotDue, BeginFlush, Finish, Restart, Phases
  <2> QED
    BY <1>5, <2>1 DEF Push, TierAway, SaveNotDue, BeginFlush, Finish
<1>6. CASE Answer \/ Flush
  <2>1. InUse
    BY <1>2, <1>6 DEF Answer, Flush
  <2>2. \A t \in Transcripts : Precedes(t, live) => Precedes(t, live')
    BY <1>6, MemoryGrows, GrowsPrecedes
  <2>3. UNCHANGED <<store, ed, fsnap>> /\ fpc' # "writing"
    BY <1>6 DEF Answer, Flush
  <2> QED
    BY <1>3, <2>1, <2>2, <2>3
<1>7. CASE SaveSnapshot
  <2>1. InUse /\ Precedes(live, live)
    BY <1>2, <1>3, <1>7, PrecedesFacts DEF SaveSnapshot, MaySave, InUse
  <2>2. \A f \in Editors : ed[f].pc # "writing"
    BY <1>7 DEF SaveSnapshot, NoOtherSnapshot
  <2> QED
    BY <1>7, <2>1, <2>2 DEF SaveSnapshot
<1>8. CASE SaveWrite
  <2>1. InUse
    BY <1>2, <1>8 DEF SaveWrite
  <2> QED
    BY <1>2, <1>8, <2>1 DEF SaveWrite, OneSnapshot
<1>9. CASE FinalSave
  <2>1. InUse /\ Precedes(live, live)
    BY <1>2, <1>3, <1>9, PrecedesFacts DEF FinalSave
  <2>2. \A f \in Editors : ed[f].pc # "writing"
    BY <1>9 DEF FinalSave, NoOtherSnapshot
  <2> QED
    BY <1>2, <1>9, <2>1, <2>2 DEF FinalSave, FinalRow
<1>10. ASSUME NEW e \in Editors, Read(e) \/ Find(e) PROVE Ordered'
  <2>1. /\ ed'[e].pc \in {"read", "live", "archive"} /\ \A f \in Editors \ {e} : ed'[f] = ed[f]
    BY <1>10, ReadMoves, HandlerMoves DEF Find, Moves
  <2>2. InUse' => InUse
    BY <1>1, <1>10 DEF Read, Find, Restart, Up
  <2>3. UNCHANGED <<live, fpc, store, fsnap>>
    BY <1>10 DEF Read, Find, forwarder
  <2> QED
    BY <2>1, <2>2, <2>3
<1>11. ASSUME NEW e \in Editors, EditLive(e) PROVE Ordered'
  <2>1. InUse /\ UNCHANGED <<store, fsnap, fpc>>
    BY <1>2, <1>11 DEF EditLive, HoldsLive, forwarder
  <2>2. CASE Refuse(e) /\ UNCHANGED <<live, manual, unsaved>>
    <3>1. ed'[e].pc = "idle" /\ \A f \in Editors \ {e} : ed'[f] = ed[f]
      BY <2>2, RefuseMoves
    <3> QED
      BY <2>1, <2>2, <3>1
  <2>3. CASE live' = Edited(live, e) /\ Accept(e, "applied", Empty)
    <3>1. \A t \in Transcripts : Precedes(t, live) => Precedes(t, live')
      BY <2>3, MemoryGrows, GrowsPrecedes
    <3>2. /\ ed'[e].pc = "applied"
          /\ \A f \in Editors \ {e} : ed'[f].pc = ed[f].pc /\ ed'[f].snap = ed[f].snap
      BY <2>3, AcceptMoves
    <3> QED
      BY <1>3, <2>1, <3>1, <3>2
  <2> QED
    BY <1>11, <2>2, <2>3 DEF EditLive
<1>12. ASSUME NEW e \in Editors, EditSnapshot(e) PROVE Ordered'
  <2>1. /\ ed[e].pc = "applied" /\ ed'[e].pc = "writing" /\ ed'[e].snap = live
        /\ \A f \in Editors \ {e} : ed'[f] = ed[f]
    BY <1>12, HandlerMoves DEF Moves, EditSnapshot
  <2>2. InUse /\ Precedes(live, live)
    BY <1>2, <1>3, <2>1, PrecedesFacts DEF HoldsLive
  <2> QED
    BY <1>12, <2>1, <2>2 DEF EditSnapshot, forwarder
<1>13. ASSUME NEW e \in Editors, EditArchived(e) PROVE Ordered'
  <2>1. InUse' => InUse
    BY <1>1, <1>13 DEF EditArchived, Restart, Up
  <2>2. UNCHANGED <<live, fpc, store, fsnap>>
    BY <1>13 DEF EditArchived, forwarder
  <2>3. CASE Refuse(e)
    <3>1. ed'[e].pc = "idle" /\ \A f \in Editors \ {e} : ed'[f] = ed[f]
      BY <2>3, RefuseMoves
    <3> QED
      BY <2>1, <2>2, <3>1
  <2>4. CASE Accept(e, "saving", Edited(Restored(store), e))
    <3>1. /\ ed'[e].pc = "saving" /\ ed'[e].snap = Edited(Restored(store), e)
          /\ \A f \in Editors \ {e} : ed'[f].pc = ed[f].pc /\ ed'[f].snap = ed[f].snap
      BY <2>4, AcceptMoves
    <3>2. ~InUse'
      BY <3>1 DEF OneSaving
    <3>4. Bounded(Restored(store)) /\ Restored(store).revision = store.revision
      BY RestoredFacts DEF Sound
    <3>3. ed'[e].snap.revision = store.revision + 1
      <4>1. Edited(Restored(store), e).revision = Restored(store).revision + 1
        BY <3>4, EditedFacts
      <4> QED
        BY <3>1, <3>4, <4>1
    <3> QED
      BY <2>2, <3>1, <3>2, <3>3
  <2> QED
    BY <1>13, <2>3, <2>4 DEF EditArchived
<1>14. ASSUME NEW e \in Editors, EditWrite(e) PROVE Ordered'
  <2>1. InUse' => InUse
    BY <1>1, <1>14 DEF EditWrite, Restart, Up
  <2>2. /\ ed[e].pc \in {"writing", "saving"} /\ ed'[e].pc = "answered"
        /\ \A f \in Editors \ {e} : ed'[f] = ed[f]
        /\ store' = ed[e].snap
    BY <1>14, HandlerMoves DEF Moves, EditWrite
  <2>3. UNCHANGED <<live, fsnap, fpc>>
    BY <1>14 DEF EditWrite, forwarder
  <2>4. fpc # "writing" /\ \A f \in Editors \ {e} : ed[f].pc \notin {"writing", "saving"}
    BY <1>2, <2>2 DEF OneSnapshot, OneSaving, HoldsLive
  <2>5. InUse => ed[e].pc = "writing"
    BY <1>2, <2>2
  <2> QED
    BY <2>1, <2>2, <2>3, <2>4, <2>5
<1>15. CASE Shutdown
  <2>1. InUse /\ \A f \in Editors : ed'[f] = ed[f] \/ ed'[f].pc = "idle"
    BY <1>15 DEF Shutdown, Kept, Idle, InUse
  <2> QED
    BY <1>15, <2>1 DEF Shutdown, forwarder
<1>16. CASE Down
  <2>1. ~InUse' /\ \A f \in Editors : ed'[f].pc \in {"idle", "read", "answered"}
    BY <1>16, NotInUse DEF Down, Kept, Idle
  <2> QED
    BY <2>1
<1>17. CASE Restart
  <2>1. /\ UNCHANGED <<store, ed>> /\ fpc' # "writing"
        /\ \A f \in Editors : ed[f].pc \in {"idle", "read", "answered"}
    BY <1>17 DEF Restart, Phases
  <2>2. InUse' => live' = Restored(store)
    BY <1>17, NotInUse DEF Restart
  <2>3. Precedes(store, Restored(store))
    <3>1. /\ Restored(store).revision = store.revision
          /\ Restored(store).text = Promoted(store.text)
          /\ store.text \in Text /\ Promoted(store.text) \in Text
          /\ store.revision \in Nat
      BY <1>3, RestoredFacts, PromotedFacts DEF Sound, Transcripts
    <3>2. \A p \in Words : Promoted(Promoted(store.text))[p] = Promoted(store.text)[p]
      BY <3>1, PromotedFacts DEF Settled
    <3> QED
      BY <3>1, <3>2 DEF Precedes
  <2> QED
    BY <2>1, <2>2, <2>3
<1> QED
  BY <1>4, <1>5, <1>6, <1>7, <1>8, <1>9, <1>10, <1>11, <1>12, <1>13, <1>14, <1>15, <1>16, <1>17
     DEF Next, Forwarder, Editor

-----------------------------------------------------------------------------
(* What an editor was shown.                                               *)

LEMMA BasedStep ==
    ASSUME Sound, Sound', Phases, OneSaving, OneSnapshot, UpToDate, Ordered, Based,
           [Next]_vars, Races = {}
    PROVE  Based'
<1> USE DEF Based, BasedOnMemory, BasedOnStore, Matches
<1>1. InUse' => InUse \/ (Restart /\ ~stopped /\ phase = "down")
  BY UseEnds
<1>2. /\ fpc \notin {"waiting", "over"} => InUse
      /\ \A f \in Editors : HoldsLive(f) => InUse
      /\ \A f \in Editors : ed[f].pc = "saving" => ~InUse
      /\ Listed => InUse
      /\ fpc' \notin {"waiting", "over"} => InUse'
      /\ Listed' => InUse'
      /\ \A f \in Editors : ed'[f].pc \in {"live", "applied", "writing"} => InUse'
  BY DEF InUse, OneSaving, HoldsLive
<1>3. /\ live \in Transcripts /\ store \in Transcripts /\ fsnap \in Transcripts
      /\ live.revision \in Nat /\ store.revision \in Nat /\ fsnap.revision \in Nat
      /\ live.text \in Text /\ store.text \in Text /\ fsnap.text \in Text
      /\ heard \in Nat
      /\ phase \in {"running", "closing", "forgotten", "down"}
  BY ArchiveAssumption DEF Sound, Counters, Bounded, BoundedBy, Transcripts
<1>4. \A f \in Editors : /\ ed[f].snap \in Transcripts /\ ed[f].snap.text \in Text
                         /\ ed[f].snap.revision \in Nat /\ ed[f].base \in Nat
                         /\ ed[f].at # Name => ed[f].at \in Words /\ ed[f].at <= heard
  BY <1>3 DEF Sound, HandlerIsSound, Handlers, Transcripts, Words, Places
<1>5. ASSUME Grows, live' \in Transcripts, NEW f \in Editors, ed[f].at # Name, ed'[f] = ed[f]
      PROVE  /\ BasedOnMemory(f) => BasedOnMemory(f)'
             /\ ed[f].base <= live.revision /\ Matches(f, live)
                  => ed'[f].base <= live'.revision /\ Matches(f, live)'
  <2>1. /\ live'.revision \in Nat /\ live'.text \in Text
        /\ ed[f].base = live'.revision /\ ed[f].base <= live.revision
             => live.revision = live'.revision /\ ed[f].base = live.revision
    BY <1>3, <1>4, <1>5 DEF Grows, Transcripts
  <2>2. live.revision = live'.revision => live'.text[ed[f].at] = live.text[ed[f].at]
    BY <1>4, <1>5 DEF Grows
  <2>3. /\ Promoted(live.text)[ed[f].at] = Settled(live.text[ed[f].at])
        /\ Promoted(live'.text)[ed[f].at] = Settled(live'.text[ed[f].at])
    BY <1>3, <1>4, <1>5, <2>1, PromotedFacts
  <2>4. ed[f].base <= live.revision => ed[f].base <= live'.revision
    BY <1>3, <1>4, <1>5, <2>1 DEF Grows
  <2> QED
    BY <1>5, <2>1, <2>2, <2>3, <2>4
<1>6. CASE UNCHANGED vars \/ AtRest
  <2>1. InUse' <=> InUse
    BY <1>6 DEF vars, forwarder, AtRest, InUse, HoldsLive, Listed
  <2> QED
    BY <1>6, <2>1 DEF vars, forwarder, AtRest, Listed
<1>7. CASE Push \/ TierAway \/ SaveNotDue \/ BeginFlush \/ Finish
  <2>1. /\ UNCHANGED <<phase, live, store, ed>> /\ fpc' # "writing"
        /\ phase \in {"running", "closing"}
    BY <1>3, <1>7 DEF Push, TierAway, SaveNotDue, BeginFlush, Finish, Phases, Listed
  <2>2. (InUse' => InUse) /\ (phase' = "running" => InUse')
    BY <1>1, <1>2, <2>1 DEF Restart, Listed
  <2> QED
    BY <2>1, <2>2 DEF Listed
<1>8. CASE Answer \/ Flush
  <2>1. InUse /\ InUse' /\ Grows
    BY <1>2, <1>8, MemoryGrows DEF Answer, Flush
  <2>2. UNCHANGED <<phase, store, ed, fsnap>> /\ fpc' # "writing" /\ live' \in Transcripts
    BY <1>8 DEF Answer, Flush, Sound, Bounded, BoundedBy
  <2>3. ASSUME NEW f \in Editors, ed[f].at # Name
        PROVE  /\ ed[f].pc = "live" \/ (ed[f].pc = "read" /\ Listed) => BasedOnMemory(f)'
               /\ ed[f].pc \in {"read", "archive"} => BasedOnStore(f)'
    <3>1. ed'[f] = ed[f]
      BY <2>2
    <3> QED
      BY <1>5, <2>1, <2>2, <2>3, <3>1
  <2> QED
    BY <2>2, <2>3 DEF Listed
<1>9. CASE SaveSnapshot
  <2>1. InUse /\ InUse'
    BY <1>2, <1>9 DEF SaveSnapshot, MaySave
  <2> QED
    BY <1>9, <2>1 DEF SaveSnapshot, Listed
<1>10. CASE SaveWrite
  <2>1. InUse /\ phase \in {"running", "closing"} /\ (phase' = "running" => InUse')
    BY <1>2, <1>3, <1>10 DEF SaveWrite, Phases, Listed
  <2>2. store.revision <= fsnap.revision
    BY <1>10, <2>1 DEF Ordered, Precedes, SaveWrite
  <2>3. UNCHANGED <<phase, live, ed>> /\ fpc' = "waiting" /\ store' = fsnap /\ fpc = "writing"
    BY <1>10 DEF SaveWrite
  <2>4. \A f \in Editors : phase = "closing" /\ ed[f].base <= store.revision
                              => ed[f].base <= store'.revision
    BY <1>3, <1>4, <2>2, <2>3
  <2> QED
    BY <2>1, <2>3, <2>4 DEF Listed
<1>11. CASE FinalSave
  <2>1. InUse /\ InUse'
    BY <1>2, <1>11 DEF FinalSave
  <2>2. store.revision <= live.revision
    BY <2>1 DEF Ordered, Precedes
  <2>3. UNCHANGED <<phase, live, ed>> /\ fpc' = "saved" /\ store' = live
    BY <1>11 DEF FinalSave, FinalRow
  <2>4. \A f \in Editors : ed[f].base <= store.revision => ed[f].base <= store'.revision
    BY <1>3, <1>4, <2>2, <2>3
  <2> QED
    BY <2>1, <2>3, <2>4 DEF Listed
<1>12. ASSUME NEW e \in Editors, Read(e) PROVE Based'
  <2>1. /\ ed[e].pc = "idle" /\ ed'[e].pc = "read"
        /\ UNCHANGED <<phase, live, store, fsnap, fpc>> /\ phase # "down"
    BY <1>12, ReadMoves DEF Read, Up, forwarder
  <2>2. /\ ed'[e].base = Shown.revision /\ ed'[e].at \in Places
        /\ ed'[e].saw = Shown.text[ed'[e].at]
        /\ ed'[e].at # Name => ed'[e].saw # "gap"
        /\ \A f \in Editors \ {e} : ed'[f] = ed[f]
    BY <1>12, ReadMoves
  <2>3. InUse' <=> InUse
    BY <1>1, <1>12, <2>1, <2>2 DEF Read, Restart, Up, InUse, HoldsLive, Listed
  <2>4. \A f \in Editors : ed'[f].pc = "writing" => f # e /\ ed[f].pc = "writing" /\ InUse
    BY <1>2, <2>1, <2>2 DEF HoldsLive
  <2> DEFINE at == ed'[e].at
             saw == ed'[e].saw
  <2>5. ASSUME at # Name PROVE BasedOnStore(e)' /\ (Listed => BasedOnMemory(e)')
    <3>1. at \in Words /\ saw # "gap"
      BY <2>2, <2>5 DEF Places
    <3>2. \A t \in Transcripts : Promoted(t.text)[at] = Settled(t.text[at])
      BY <3>1, PromotedFacts DEF Transcripts
    <3>3. CASE Listed
      <4>1. ed'[e].base = live.revision /\ saw = live.text[at] /\ InUse
        BY <1>2, <2>2, <3>3 DEF Shown
      <4>2. \A t \in Transcripts : Precedes(t, live) /\ t.revision = live.revision
                                     => Promoted(t.text)[at] \in {"gap", Settled(saw)}
        BY <1>3, <3>1, <3>2, <4>1 DEF Precedes
      <4>3. Precedes(live, live)
        BY <1>3, PrecedesFacts
      <4> QED
        BY <1>3, <1>4, <2>1, <2>2, <2>3, <2>4, <3>3, <4>1, <4>2, <4>3 DEF Ordered, Listed
    <3>4. CASE ~Listed
      <4>1. ed'[e].base = store.revision /\ saw = store.text[at]
        BY <2>2, <3>4 DEF Shown
      <4>2. \A t \in Transcripts : Precedes(store, t) /\ t.revision = store.revision
                                     => Promoted(t.text)[at] \in {"gap", Settled(saw)}
        BY <1>3, <3>1, <3>2, <4>1 DEF Precedes, Settled
      <4>3. Precedes(store, store)
        BY <1>3, PrecedesFacts
      <4>4. InUse => store.revision <= live.revision
        BY DEF Ordered, Precedes
      <4>5. fpc = "writing" => InUse
        BY <1>2
      <4> QED
        BY <1>3, <1>4, <2>1, <2>2, <2>3, <2>4, <3>4, <4>1, <4>2, <4>3, <4>4, <4>5 DEF Ordered, Listed
    <3> QED
      BY <3>3, <3>4
  <2>6. ASSUME NEW f \in Editors \ {e}, ed[f].at # Name
        PROVE  /\ ed'[f].pc = "live" \/ (ed'[f].pc = "read" /\ Listed') => BasedOnMemory(f)'
               /\ ed'[f].pc \in {"read", "archive"} => BasedOnStore(f)'
    <3>1. ed'[f] = ed[f]
      BY <2>2
    <3> QED
      BY <2>1, <2>2, <2>3, <2>4, <2>6, <3>1 DEF Listed
  <2> QED
    BY <2>1, <2>2, <2>5, <2>6 DEF Listed
<1>13. ASSUME NEW e \in Editors, Find(e) PROVE Based'
  <2>1. /\ ed[e].pc = "read" /\ ed'[e].pc = IF Listed THEN "live" ELSE "archive"
        /\ ed'[e].at = ed[e].at /\ ed'[e].base = ed[e].base /\ ed'[e].saw = ed[e].saw
        /\ \A f \in Editors \ {e} : ed'[f] = ed[f]
        /\ UNCHANGED <<phase, live, store, fsnap, fpc>> /\ phase # "down"
    BY <1>13, HandlerMoves DEF Find, Moves, Up, forwarder
  <2>2. InUse' <=> InUse
    BY <1>1, <1>2, <1>13, <2>1 DEF Find, Restart, Up, InUse, HoldsLive, Listed
  <2>3. \A f \in Editors : ed'[f].pc = "writing" => ed[f].pc = "writing" /\ ed'[f] = ed[f]
    BY <2>1
  <2>4. \A f \in Editors : /\ ed'[f].at = ed[f].at /\ ed'[f].base = ed[f].base /\ ed'[f].saw = ed[f].saw
                           /\ ed'[f].pc \in {"read", "archive"} => ed[f].pc \in {"read", "archive"}
                           /\ ed'[f].pc = "live" => ed[f].pc = "live" \/ (ed[f].pc = "read" /\ Listed)
                           /\ ed'[f].pc = "read" => ed[f].pc = "read"
    BY <2>1
  <2> QED
    BY <2>1, <2>2, <2>3, <2>4 DEF Listed
<1>14. ASSUME NEW e \in Editors, EditSnapshot(e) PROVE Based'
  <2>1. /\ ed[e].pc = "applied" /\ ed'[e].pc = "writing" /\ ed'[e].snap = live
        /\ \A f \in Editors \ {e} : ed'[f] = ed[f]
        /\ UNCHANGED <<phase, live, store, fsnap, fpc>> /\ phase # "down"
    BY <1>14, HandlerMoves DEF EditSnapshot, Moves, Up, forwarder
  <2>2. InUse' /\ InUse
    BY <1>2, <2>1 DEF HoldsLive
  <2> QED
    BY <2>1, <2>2 DEF Listed
<1>15. ASSUME NEW e \in Editors, EditLive(e) PROVE Based'
  <2>1. /\ ed[e].pc = "live" /\ InUse /\ UNCHANGED <<phase, store, fsnap, fpc>> /\ phase # "down"
    BY <1>2, <1>15 DEF EditLive, HoldsLive, Up, forwarder
  <2>2. CASE Refuse(e) /\ UNCHANGED <<live, manual, unsaved>>
    <3>1. ed'[e].pc = "idle" /\ \A f \in Editors \ {e} : ed'[f] = ed[f]
      BY <2>2, RefuseMoves
    <3>2. ~InUse' /\ phase # "closing" => store.revision = live.revision
      <4>1. SUFFICES ASSUME ~InUse', phase # "closing" PROVE store.revision = live.revision
        OBVIOUS
      <4>2. phase = "forgotten" /\ fpc = "over"
        BY <1>2, <1>3, <2>1, <4>1 DEF Phases, Listed
      <4>3. \A f \in Editors : ed[f].pc \notin {"applied", "writing"}
        BY <1>2, <2>1, <3>1, <4>1
      <4> QED
        BY <2>1, <4>2, <4>3 DEF UpToDate, LastIsWhole, Pending, Writing, Same
    <3> QED
      BY <2>1, <2>2, <3>1, <3>2 DEF Listed
  <2>3. CASE live' = Edited(live, e) /\ Accept(e, "applied", Empty)
    <3>1. Grows /\ live' \in Transcripts
      BY <2>3, MemoryGrows DEF Sound, Bounded, BoundedBy
    <3>2. /\ ed'[e].pc = "applied"
          /\ \A f \in Editors \ {e} :
               /\ ed'[f].pc = ed[f].pc /\ ed'[f].at = ed[f].at /\ ed'[f].snap = ed[f].snap
               /\ ed'[f].base = ed[f].base /\ ed'[f].saw = ed[f].saw
      BY <2>3, AcceptMoves
    <3>3. InUse'
      BY <1>2, <3>2
    <3>4. ASSUME NEW f \in Editors \ {e}, ed[f].at # Name
          PROVE  /\ ed'[f].pc = "live" \/ (ed'[f].pc = "read" /\ Listed') => BasedOnMemory(f)'
                 /\ ed'[f].pc \in {"read", "archive"} => BasedOnStore(f)'
      <4>1. live'.revision = live.revision + 1 /\ ed[f].base \in Nat
        BY <1>4, <2>3, MemoryGrows
      <4>2. ed[f].base <= live.revision => ed[f].base <= live'.revision /\ ed[f].base # live'.revision
        BY <1>3, <4>1
      <4> QED
        BY <2>1, <3>2, <3>3, <3>4, <4>2 DEF Listed
    <3> QED
      BY <2>1, <3>2, <3>4
  <2> QED
    BY <1>15, <2>2, <2>3 DEF EditLive
<1>16. ASSUME NEW e \in Editors, EditArchived(e) PROVE Based'
  <2>1. /\ ed[e].pc = "archive" /\ ~Listed /\ phase \in {"closing", "forgotten"}
        /\ UNCHANGED <<phase, live, store, fsnap, fpc>> /\ (InUse' => InUse)
    BY <1>1, <1>16 DEF EditArchived, Phases, Up, Listed, Restart, forwarder
  <2>2. CASE Refuse(e)
    <3>1. ed'[e].pc = "idle" /\ \A f \in Editors \ {e} : ed'[f] = ed[f]
      BY <2>2, RefuseMoves
    <3>2. InUse' <=> InUse
      BY <2>1, <3>1 DEF InUse, HoldsLive, Listed
    <3> QED
      BY <2>1, <3>1, <3>2 DEF Listed
  <2>3. CASE Accept(e, "saving", Edited(Restored(store), e)) /\ NoOtherCopy
    <3>1. /\ ed'[e].pc = "saving"
          /\ \A f \in Editors \ {e} :
               /\ ed'[f].pc = ed[f].pc /\ ed'[f].at = ed[f].at /\ ed'[f].snap = ed[f].snap
               /\ ed'[f].base = ed[f].base /\ ed'[f].saw = ed[f].saw
      BY <2>3, AcceptMoves
    <3>2. ~InUse
      BY <2>1, <2>3 DEF InUse, HoldsLive, Listed, NoOtherCopy, Phases
    <3> QED
      BY <2>1, <3>1, <3>2 DEF Listed
  <2> QED
    BY <1>16, <2>2, <2>3 DEF EditArchived
<1>17. ASSUME NEW e \in Editors, EditWrite(e) PROVE Based'
  <2>1. /\ ed[e].pc \in {"writing", "saving"} /\ ed'[e].pc = "answered"
        /\ \A f \in Editors \ {e} : ed'[f] = ed[f]
        /\ UNCHANGED <<phase, live, fsnap, fpc>> /\ phase # "down" /\ store' = ed[e].snap
    BY <1>17, HandlerMoves DEF EditWrite, Moves, Up, forwarder
  <2>2. InUse' => InUse
    BY <1>1, <1>17 DEF EditWrite, Restart, Up
  <2>3. CASE ed[e].pc = "writing"
    <3>1. InUse /\ store.revision <= ed[e].snap.revision
      BY <1>2, <2>3 DEF HoldsLive, Ordered, Precedes
    <3>2. ~InUse' /\ phase # "closing" => store'.revision = live.revision
      <4>1. SUFFICES ASSUME ~InUse', phase # "closing" PROVE store'.revision = live.revision
        OBVIOUS
      <4>2. phase = "forgotten" /\ fpc = "over"
        BY <1>2, <1>3, <2>1, <4>1 DEF Phases, Listed
      <4>3. \A f \in Editors : ed[f].pc # "applied"
        BY <1>2, <2>1, <2>3, <4>1
      <4> QED
        BY <2>1, <2>3, <3>1, <4>2, <4>3 DEF UpToDate, LastIsWhole, Pending, Same
    <3>3. \A f \in Editors : ed[f].base <= store.revision => ed[f].base <= store'.revision
      BY <1>3, <1>4, <2>1, <3>1
    <3> QED
      BY <2>1, <2>2, <2>3, <3>1, <3>2, <3>3 DEF Listed
  <2>4. CASE ed[e].pc = "saving"
    <3>1. ~InUse /\ ~InUse' /\ ~Listed /\ store'.revision = store.revision + 1
      BY <1>2, <2>1, <2>2, <2>4 DEF Ordered
    <3>2. \A f \in Editors : ed[f].base <= store.revision
                               => ed[f].base <= store'.revision /\ ed[f].base # store'.revision
      BY <1>3, <1>4, <3>1
    <3> QED
      BY <2>1, <3>1, <3>2 DEF Listed
  <2> QED
    BY <2>1, <2>3, <2>4
<1>18. CASE Shutdown
  <2>1. /\ InUse /\ UNCHANGED <<live, store, fsnap, fpc>> /\ phase' = "closing"
        /\ \A f \in Editors : ed[f].pc # "archive"
        /\ \A f \in Editors : \/ ed[f].pc # "read" /\ ed'[f] = ed[f]
                              \/ ed'[f].pc = "idle"
    BY <1>2, <1>18 DEF Shutdown, Kept, Idle, Phases, forwarder
  <2> QED
    BY <2>1 DEF Listed
<1>19. CASE Forget
  <2>1. /\ InUse /\ Listed /\ UNCHANGED <<live, store, fsnap, fpc, ed>> /\ phase' = "forgotten"
        /\ fpc = "over"
    BY <1>2, <1>19 DEF Forget, Phases, forwarder
  <2>2. ~InUse' => store.revision = live.revision
    BY <1>2, <2>1 DEF UpToDate, LastIsWhole, Pending, Writing, Same
  <2> QED
    BY <2>1, <2>2 DEF Listed
<1>20. CASE Down
  <2>1. \A f \in Editors : ed'[f].pc \in {"idle", "answered"}
    BY <1>20 DEF Down, Kept, Idle
  <2> QED
    BY <2>1
<1>21. CASE Restart
  <2>1. ed' = ed /\ \A f \in Editors : ed[f].pc \in {"idle", "answered"}
    BY <1>21 DEF Restart, Phases
  <2> QED
    BY <2>1
<1> QED
  BY <1>6, <1>7, <1>8, <1>9, <1>10, <1>11, <1>12, <1>13, <1>14, <1>15, <1>16, <1>17, <1>18,
     <1>19, <1>20, <1>21 DEF Next, Forwarder, Editor
-----------------------------------------------------------------------------
(* What an accepted edit was based on.                                     *)

\* An edit is accepted by EditLive or EditArchived, at the revision it names.
LEMMA AcceptedAtItsBase ==
    ASSUME Sound, [Next]_vars, NEW e \in Editors, ed[e].at # Name
    PROVE  /\ ed[e].pc = "live" /\ ed'[e].pc = "applied" => ed[e].base = live.revision
           /\ ed[e].pc = "archive" /\ ed'[e].pc = "saving" => ed[e].base = store.revision
<1> DEFINE Goal == /\ ed[e].pc = "live" /\ ed'[e].pc = "applied" => ed[e].base = live.revision
                   /\ ed[e].pc = "archive" /\ ed'[e].pc = "saving" => ed[e].base = store.revision
<1> SUFFICES Goal
  OBVIOUS
<1>1. ed'[e].pc = ed[e].pc => Goal
  OBVIOUS
<1>2. CASE UNCHANGED ed
  BY <1>1, <1>2
<1>3. ASSUME NEW f \in Editors, Editor(f) PROVE Goal
  <2>1. CASE f # e
    <3>1. ed'[e].pc = ed[e].pc
      <4>1. CASE Read(f)
        BY <2>1, <4>1, ReadMoves
      <4>2. CASE Find(f) \/ EditSnapshot(f) \/ EditWrite(f)
        BY <2>1, <4>2, HandlerMoves DEF Moves
      <4>3. CASE EditLive(f) \/ EditArchived(f)
        BY <2>1, <4>3, AcceptMoves, RefuseMoves DEF EditLive, EditArchived
      <4> QED
        BY <1>3, <4>1, <4>2, <4>3 DEF Editor
    <3> QED
      BY <1>1, <3>1
  <2>2. CASE f = e
    <3>1. CASE Read(e)
      BY <3>1 DEF Read
    <3>2. CASE Find(e) \/ EditSnapshot(e) \/ EditWrite(e)
      BY <3>2 DEF Find, EditSnapshot, EditWrite, Sound, Handlers
    <3>3. CASE EditLive(e)
      <4>1. Accept(e, "applied", Empty) => BaseMatches(live, e)
        BY <3>3, AcceptMoves, RefuseMoves DEF EditLive
      <4> QED
        BY <3>3, <4>1, RefuseMoves DEF EditLive, BaseMatches
    <3>4. CASE EditArchived(e)
      <4>1. Restored(store).revision = store.revision
        BY RestoredFacts DEF Sound
      <4>2. ed'[e].pc = "saving" => BaseMatches(Restored(store), e)
        BY <3>4, RefuseMoves DEF EditArchived
      <4> QED
        BY <3>4, <4>1, <4>2 DEF EditArchived, BaseMatches
    <3> QED
      BY <1>3, <2>2, <3>1, <3>2, <3>3, <3>4 DEF Editor
  <2> QED
    BY <2>1, <2>2
<1>4. CASE Shutdown \/ Down
  <2>1. ed'[e].pc \in {ed[e].pc, "idle", "read"}
    BY <1>4 DEF Shutdown, Down, Kept, Idle
  <2> QED
    BY <1>1, <2>1
<1>5. CASE Forwarder \/ Forget \/ Restart \/ AtRest \/ UNCHANGED vars
  BY <1>2, <1>5 DEF Forwarder, Push, Answer, TierAway, SaveSnapshot, SaveWrite, SaveNotDue,
     BeginFlush, Flush, FinalSave, Finish, Forget, Restart, AtRest, vars
<1> QED
  BY <1>3, <1>4, <1>5 DEF Next

LEMMA ReplacesWhatWasSeen ==
    ASSUME Sound, Based, [Next]_vars, NEW e \in Editors, ed[e].at # Name
    PROVE  /\ ed[e].pc = "live" /\ ed'[e].pc = "applied" => live.text[ed[e].at] = ed[e].saw
           /\ ed[e].pc = "archive" /\ ed'[e].pc = "saving" =>
                Promoted(store.text)[ed[e].at] \in {"gap", Settled(ed[e].saw)}
<1>1. ed[e].pc = "live" => BasedOnMemory(e)
  BY DEF Based
<1>2. ed[e].pc = "archive" => Matches(e, store)
  BY DEF Based, BasedOnStore
<1> QED
  BY <1>1, <1>2, AcceptedAtItsBase DEF BasedOnMemory, Matches

-----------------------------------------------------------------------------
(* The theorems.                                                           *)

LEMMA ArchiveInit ==
    Init => /\ Sound /\ Phases /\ Mine /\ OneSaving /\ OneSnapshot
            /\ UpToDate /\ Stored /\ Ordered /\ Based
<1> SUFFICES ASSUME Init
             PROVE  /\ Sound /\ Phases /\ Mine /\ OneSaving /\ OneSnapshot
                    /\ UpToDate /\ Stored /\ Ordered /\ Based
  OBVIOUS
<1> USE DEF Init, Listed
<1>1. BoundedBy(0, Empty) /\ HandlerIsSound(0, Idle) /\ Idle \in Handlers /\ Idle.pc = "idle"
  BY EmptyIsBounded, ArchiveAssumption
<1>2. Empty \in Transcripts /\ \A p \in Words : Empty.text[p] = "gap"
  BY EmptyIsBounded, ArchiveAssumption DEF BoundedBy
<1>3. \A e \in Editors : ed[e] = Idle
  OBVIOUS
<1>4. Counters
  <2>1. stopped \in BOOLEAN /\ unsaved \in BOOLEAN
    OBVIOUS
  <2>2. heard \in 0..MaxHeard /\ offset \in 0..heard /\ restarts \in 0..MaxRestart
    BY ArchiveAssumption
  <2>3. /\ phase \in {"running", "closing", "forgotten", "down"}
        /\ fpc \in {"waiting", "pushing", "answered", "writing", "flushing", "flushed", "saved", "over"}
        /\ fpc # "pushing" /\ manual \subseteq Words
    OBVIOUS
  <2> QED
    BY <2>1, <2>2, <2>3 DEF Counters
<1>5. Sound
  BY <1>1, <1>3, <1>4 DEF Sound, Bounded
<1>6. Phases /\ OneSaving /\ OneSnapshot /\ Stored /\ Based
  BY <1>1, <1>3 DEF Phases, OneSaving, OneSnapshot, Stored, Based
<1>7. Mine
  BY <1>2, Persons DEF Mine
<1>8. UpToDate
  BY <1>1, <1>3 DEF UpToDate, SavedIsCurrent, LastIsWhole, Writing
<1>9. Ordered
  BY <1>1, <1>2, <1>3, PrecedesFacts DEF Ordered
<1> QED
  BY <1>5, <1>6, <1>7, <1>8, <1>9

\* Every variable of a meeting's transcript stays within its type and no boundary
\* is ahead of the sound, whatever races happen (LiveTranscript, SessionStore).
THEOREM ArchiveTypeCorrect == Spec => []TypeOK
<1>1. Sound => TypeOK
  BY DEF Sound, Counters, Bounded, BoundedBy, TypeOK, Handlers
<1>2. Sound /\ Phases /\ [Next]_vars => Sound' /\ Phases'
  BY SoundStep, PhasesStep
<1> QED
  BY <1>1, <1>2, ArchiveInit, PTL DEF Spec

\* For any number of editors, packets and restarts, and whatever races happen: what
\* replaces a word a person wrote is another person's word (LiveTranscript::apply,
\* m_manualSpans).
THEOREM TierReplacesNoEdit == Spec => OnlyPeopleReplaceEdits
<1> DEFINE I == Sound /\ Phases /\ Mine
<1>1. Init => I
  BY ArchiveInit
<1>2. I /\ [Next]_vars => I'
  BY SoundStep, PhasesStep, MineStep
<1>3. I /\ [Next]_vars =>
        [\A p \in Words : live.text[p] \in Editors /\ Up' => live'.text[p] \in Editors]_vars
  BY PeopleStep
<1> QED
  BY <1>1, <1>2, <1>3, PTL DEF Spec, OnlyPeopleReplaceEdits

\* Unless a snapshot may be taken while another waits to be written: a meeting that
\* is over has its whole text in the store, and what the forwarder does not save
\* again is there or on its way (SessionBuffer::saveState, BufferHub::forget).
THEOREM FinishedMeetingIsStored ==
    ASSUME "snapshots" \notin Races
    PROVE  Spec => []FinishedIsStored
<1> DEFINE I == Sound /\ Phases /\ OneSaving /\ OneSnapshot /\ UpToDate
<1>1. Init => I
  BY ArchiveInit
<1>2. I /\ [Next]_vars => I'
  BY SoundStep, PhasesStep, OneSavingStep, OneSnapshotStep, UpToDateStep
<1>3. I => FinishedIsStored
  <2> SUFFICES ASSUME I PROVE FinishedIsStored
    OBVIOUS
  <2>1. ASSUME Listed, stopped, \A e \in Editors : ed[e].pc \notin {"applied", "writing"}
        PROVE  store.text = live.text /\ store.done
    <3>1. fpc = "over" /\ InUse /\ ~Pending /\ ~Writing
      BY <2>1 DEF Phases, InUse, Pending, Writing
    <3>2. Same(store, live) /\ live.done
      BY <3>1 DEF UpToDate, LastIsWhole
    <3> QED
      BY <3>2 DEF Same
  <2>2. ASSUME Listed, ~unsaved, fpc # "writing", \A e \in Editors : ed[e].pc # "writing"
        PROVE  store.text = live.text
    BY <2>2 DEF UpToDate, SavedIsCurrent, Writing
  <2> QED
    BY <2>1, <2>2 DEF FinishedIsStored
<1> QED
  BY <1>1, <1>2, <1>3, PTL DEF Spec

\* For any number of editors, packets and restarts, when no snapshot or copy is
\* overtaken by another: an edit that was answered is in the store until a later
\* edit of the same place, also across restarts (SessionBuffer::editText,
\* BufferHub::editArchived, m_archiveMutex).
THEOREM AnsweredEditsSurvive ==
    ASSUME Races \cap {"snapshots", "copies", "closing"} = {}
    PROVE  Spec => []AnsweredEditIsStored
<1> DEFINE I == Sound /\ Phases /\ Mine /\ OneSaving /\ OneSnapshot /\ Stored
<1>1. Init => I
  BY ArchiveInit
<1>2. I /\ [Next]_vars => I'
  BY SoundStep, PhasesStep, MineStep, OneSavingStep, OneSnapshotStep, StoredStep
<1>3. I => AnsweredEditIsStored
  BY DEF Stored, Holds, AnsweredEditIsStored
<1> QED
  BY <1>1, <1>2, <1>3, PTL DEF Spec

\* For any number of editors and packets, without the four races: an edit that is
\* accepted replaces the text its editor was shown, in memory as in the archive
\* (LiveTranscript::applyEdit and its base revision).
THEOREM NobodyOverwritesUnseen ==
    ASSUME Races = {}
    PROVE  Spec => EditsReplaceWhatWasSeen
<1> DEFINE I == Sound /\ Phases /\ OneSaving /\ OneSnapshot /\ UpToDate /\ Ordered /\ Based
<1>1. Init => I
  BY ArchiveInit
<1>2. I /\ [Next]_vars => I'
  BY SoundStep, PhasesStep, OneSavingStep, OneSnapshotStep, UpToDateStep, OrderedStep, BasedStep
<1>3. I /\ [Next]_vars =>
        [\A e \in Editors : ed[e].at # Name =>
            /\ ed[e].pc = "live" /\ ed'[e].pc = "applied" => live.text[ed[e].at] = ed[e].saw
            /\ ed[e].pc = "archive" /\ ed'[e].pc = "saving" =>
                 Promoted(store.text)[ed[e].at]
                   \in {"gap", IF ed[e].saw = "guess" THEN "machine" ELSE ed[e].saw}]_vars
  BY ReplacesWhatWasSeen DEF Settled
<1> QED
  BY <1>1, <1>2, <1>3, PTL DEF Spec, EditsReplaceWhatWasSeen

-----------------------------------------------------------------------------
(* The walk through the list of meetings.                                  *)

SessionRows == [at : Nat, id : Nat]
Cursors == {Start} \cup {CursorOf(m) : m \in SessionRows}

\* What was shown is not after the cursor; what was there all along was shown
\* or is.
WalkTypeOK ==
    /\ rows \in SUBSET SessionRows /\ IsFiniteSet(rows)
    /\ walk = [cursor |-> walk.cursor, over |-> walk.over, seen |-> walk.seen,
               again |-> walk.again, whole |-> walk.whole]
    /\ walk.cursor \in Cursors /\ walk.over \in BOOLEAN /\ walk.again \in BOOLEAN
    /\ walk.seen \in SUBSET SessionRows /\ walk.whole \in SUBSET rows
WalkBegins == IsStart(walk.cursor) /\ ~walk.over => walk.seen = {}
WalkGoesOn ==
    ~IsStart(walk.cursor) =>
        /\ \A m \in walk.seen : ~IsAfter(m, walk.cursor)
        /\ \A m \in walk.whole : m \in walk.seen \/ IsAfter(m, walk.cursor)
WalkEnds == walk.over => walk.whole \subseteq walk.seen
WalkInv == WalkTypeOK /\ WalkBegins /\ WalkGoesOn /\ WalkEnds /\ ~walk.again

LEMMA AfterIsOlder ==
    ASSUME NEW m \in SessionRows, NEW o \in SessionRows
    PROVE  /\ IsAfter(m, CursorOf(o)) <=> Newer(o, m)
           /\ ~IsStart(CursorOf(o))
<1>1. o.at \in Nat /\ m.at \in Nat /\ o.id \in Nat /\ m.id \in Nat BY DEF SessionRows
<1>2. (o.at * 1000) \div 1000 = o.at BY <1>1
<1>3. CursorOf(o).at = o.at * 1000 /\ CursorOf(o).id = o.id BY DEF CursorOf, Micro
<1>4. IsAfter(m, CursorOf(o)) <=> (m.at < o.at \/ (m.at = o.at /\ m.id < o.id))
    BY <1>2, <1>3 DEF IsAfter, Micro
<1>5. Start.id = -1 BY DEF Start
<1>6. ~IsStart(CursorOf(o)) BY <1>1, <1>3, <1>5 DEF IsStart
<1> QED BY <1>1, <1>4, <1>6 DEF Newer

LEMMA NewerIsOrder ==
    /\ \A a, b \in SessionRows : a = b \/ Newer(a, b) \/ Newer(b, a)
    /\ \A a, b, c \in SessionRows : Newer(a, b) /\ Newer(b, c) => Newer(a, c)
    /\ \A a \in SessionRows : ~Newer(a, a)
<1>1. \A a \in SessionRows : a = [at |-> a.at, id |-> a.id] /\ a.at \in Nat /\ a.id \in Nat BY DEF SessionRows
<1>2. ASSUME NEW a \in SessionRows, NEW b \in SessionRows PROVE a = b \/ Newer(a, b) \/ Newer(b, a)
  <2>1. CASE a.at = b.at /\ a.id = b.id BY <1>1, <2>1
  <2>2. CASE ~(a.at = b.at /\ a.id = b.id) BY <1>1, <2>2 DEF Newer
  <2> QED BY <2>1, <2>2
<1> QED BY <1>1, <1>2 DEF Newer

\* LIMIT cuts at the end: what is not on the page is older than all that is.
LEMMA PageIsNewest ==
    ASSUME NEW found \in SUBSET SessionRows, IsFiniteSet(found), NEW n \in Nat,
           NEW m \in found \ FirstRows(found, n), NEW o \in FirstRows(found, n)
    PROVE  Newer(o, m)
<1> DEFINE Above(x) == {y \in found : Newer(y, x)}
<1>1. o \in found /\ m \in found /\ o # m BY DEF FirstRows
<1>2. Cardinality(Above(o)) < n /\ ~(Cardinality(Above(m)) < n) BY <1>1 DEF FirstRows
<1>3. ASSUME Newer(m, o) PROVE FALSE
  <2>1. Above(m) \subseteq Above(o)
      BY <1>1, <1>3, NewerIsOrder
  <2>2. IsFiniteSet(Above(o)) /\ IsFiniteSet(Above(m)) BY FS_Subset
  <2>3. Cardinality(Above(m)) <= Cardinality(Above(o)) BY <2>1, <2>2, FS_Subset
  <2>4. Cardinality(Above(m)) \in Nat /\ Cardinality(Above(o)) \in Nat BY <2>2, FS_CardinalityType
  <2> HIDE DEF Above
  <2> QED BY <1>2, <2>3, <2>4
<1> QED BY <1>1, <1>3, NewerIsOrder

LEMMA ShortPageIsAll ==
    ASSUME NEW found \in SUBSET SessionRows, IsFiniteSet(found), NEW n \in Nat, ~(Cardinality(found) > n)
    PROVE  FirstRows(found, n) = found
<1> SUFFICES ASSUME NEW m \in found PROVE Cardinality({o \in found : Newer(o, m)}) < n
    BY DEF FirstRows
<1> DEFINE B == {o \in found : Newer(o, m)}
<1>1. m \notin B BY NewerIsOrder
<1>2. B \subseteq found \ {m} BY <1>1
<1>3. IsFiniteSet(found \ {m}) /\ Cardinality(found \ {m}) = Cardinality(found) - 1
    BY FS_RemoveElement
<1>4. IsFiniteSet(B) /\ Cardinality(B) <= Cardinality(found \ {m}) BY <1>2, <1>3, FS_Subset
<1>5. Cardinality(B) \in Nat /\ Cardinality(found) \in Nat BY <1>4, FS_CardinalityType
<1> HIDE DEF B
<1>6. Cardinality(B) < n BY <1>3, <1>4, <1>5
<1> QED BY <1>6 DEF B

LEMMA WalkStarts == ListInit => WalkInv
<1> SUFFICES ASSUME ListInit PROVE WalkInv OBVIOUS
<1>1. rows = {} /\ walk = [cursor |-> Start, over |-> FALSE, seen |-> {}, again |-> FALSE, whole |-> {}]
    BY DEF ListInit
<1>2. /\ walk.cursor = Start /\ walk.over = FALSE /\ walk.seen = {} /\ walk.again = FALSE
      /\ walk.whole = {}
    BY <1>1
<1>3. IsFiniteSet(rows) BY <1>1, FS_EmptySet
<1>4. WalkTypeOK BY <1>1, <1>2, <1>3 DEF WalkTypeOK, Cursors
<1> QED BY <1>2, <1>4 DEF WalkInv, WalkBegins, WalkGoesOn, WalkEnds, IsStart

LEMMA PageWalks ==
    ASSUME WalkInv, NEW limit \in Nat, ListPage(limit)
    PROVE  WalkInv'
<1> DEFINE wanted == ListWanted(limit)
           found == Found(walk.cursor)
           page == FirstRows(found, wanted)
           c == walk.cursor
           whole == IF IsStart(c) THEN rows ELSE walk.whole
<1>1. /\ rows \in SUBSET SessionRows /\ IsFiniteSet(rows) /\ c \in Cursors /\ walk.again = FALSE
      /\ walk.seen \in SUBSET SessionRows /\ walk.whole \in SUBSET rows
  <2>1. walk.again \in BOOLEAN /\ ~walk.again BY DEF WalkInv, WalkTypeOK
  <2> QED BY <2>1 DEF WalkInv, WalkTypeOK
<1>2. wanted \in Nat BY ListingAssumption DEF ListWanted
<1>3. ~walk.over /\ rows' = rows /\ ListSessions(wanted, found) BY DEF ListPage
<1>4. found \subseteq rows /\ IsFiniteSet(found) /\ found \in SUBSET SessionRows
  <2>1. found \subseteq rows BY DEF Found
  <2> QED BY <1>1, <2>1, FS_Subset
<1>5. page \subseteq found BY DEF FirstRows
<1>6. whole \in SUBSET rows BY <1>1
<1>7. walk.seen \cap page = {}
  <2>1. CASE IsStart(c) BY <1>3, <2>1 DEF WalkInv, WalkBegins
  <2>2. CASE ~IsStart(c) BY <1>5, <2>2 DEF WalkInv, WalkGoesOn, Found
  <2> QED BY <2>1, <2>2
<1>8. \A m \in whole : m \in walk.seen \/ m \in found
  <2>1. CASE IsStart(c) BY <2>1 DEF Found
  <2>2. CASE ~IsStart(c) BY <1>1, <2>2 DEF WalkInv, WalkGoesOn, Found
  <2> QED BY <2>1, <2>2
<1>9. ASSUME NEW next \in Cursors, NEW over \in BOOLEAN, over = IsStart(next), Shows(page, next)
      PROVE  /\ WalkTypeOK' /\ ~walk'.again
             /\ walk'.cursor = next /\ walk'.over = over /\ walk'.seen = walk.seen \cup page
             /\ walk'.whole = whole
  <2>1. walk' = [cursor |-> next, over |-> over, seen |-> walk.seen \cup page,
                 again |-> FALSE, whole |-> whole]
    <3>1. walk' = [cursor |-> next, over |-> IsStart(next), seen |-> walk.seen \cup page,
                   again |-> walk.again \/ walk.seen \cap page # {}, whole |-> whole]
        BY <1>9 DEF Shows
    <3>2. (walk.again \/ walk.seen \cap page # {}) = FALSE BY <1>1, <1>7
    <3> QED BY <1>9, <3>1, <3>2
  <2>2. walk.seen \cup page \in SUBSET SessionRows BY <1>1, <1>4, <1>5
  <2> HIDE DEF page, whole
  <2>3. /\ walk'.cursor = next /\ walk'.over = over /\ walk'.seen = walk.seen \cup page
        /\ walk'.again = FALSE /\ walk'.whole = whole
      BY <2>1
  <2>4. walk' = [cursor |-> walk'.cursor, over |-> walk'.over, seen |-> walk'.seen,
                 again |-> walk'.again, whole |-> walk'.whole]
      BY <2>1, <2>3
  <2> QED BY <1>1, <1>3, <1>6, <1>9, <2>2, <2>3, <2>4 DEF WalkTypeOK
<1>10. CASE Cardinality(found) > wanted
  <2>1. PICK last \in page : (\A m \in page \ {last} : Newer(m, last)) /\ Shows(page, CursorOf(last))
      BY <1>3, <1>10 DEF ListSessions
  <2>2. last \in SessionRows BY <1>4, <1>5
  <2>3. CursorOf(last) \in Cursors BY <2>2 DEF Cursors
  <2>4. IsStart(CursorOf(last)) = FALSE BY <2>2, AfterIsOlder
  <2>5. /\ WalkTypeOK' /\ ~walk'.again /\ walk'.cursor = CursorOf(last) /\ walk'.over = FALSE
        /\ walk'.seen = walk.seen \cup page /\ walk'.whole = whole
      BY <1>9, <2>1, <2>3, <2>4
  <2>6. ASSUME NEW m \in found, m \notin page PROVE IsAfter(m, CursorOf(last))
    <3>1. Newer(last, m) BY <1>2, <1>4, <2>6, PageIsNewest
    <3> QED BY <1>4, <2>2, <3>1, AfterIsOlder
  <2>7. ASSUME NEW m \in walk.seen \cup page PROVE ~IsAfter(m, CursorOf(last))
    <3>0. m \in SessionRows BY <1>1, <1>4, <1>5
    <3>1. CASE m \in page
      <4>1. m = last \/ Newer(m, last) BY <2>1, <3>1
      <4>2. ~Newer(last, m) BY <2>2, <3>0, <4>1, NewerIsOrder
      <4> QED BY <2>2, <3>0, <4>2, AfterIsOlder
    <3>2. CASE m \in walk.seen
      <4>1. ~IsStart(c) BY <1>3, <3>2 DEF WalkInv, WalkBegins
      <4>2. PICK o \in SessionRows : c = CursorOf(o) BY <1>1, <4>1 DEF Cursors, IsStart
      <4>3. ~IsAfter(m, c) /\ IsAfter(last, c) BY <1>5, <2>1, <3>2, <4>1 DEF WalkInv, WalkGoesOn, Found
      <4>4. ~Newer(o, m) /\ Newer(o, last) BY <2>2, <3>0, <4>2, <4>3, AfterIsOlder
      <4>5. ~Newer(last, m) BY <2>2, <3>0, <4>4, NewerIsOrder
      <4> QED BY <2>2, <3>0, <4>5, AfterIsOlder
    <3> QED BY <2>7, <3>1, <3>2
  <2> HIDE DEF page, whole, found
  <2>8. WalkGoesOn' BY <1>8, <2>5, <2>6, <2>7 DEF WalkGoesOn, IsAfter
  <2>9. WalkBegins' /\ WalkEnds'
    <3>1. ~IsStart(walk'.cursor) /\ ~walk'.over BY <2>4, <2>5
    <3> QED BY <3>1 DEF WalkBegins, WalkEnds, IsStart
  <2> QED BY <2>5, <2>8, <2>9 DEF WalkInv
<1>11. CASE ~(Cardinality(found) > wanted)
  <2>1. page = found BY <1>2, <1>4, <1>11, ShortPageIsAll
  <2>2. Shows(page, Start) BY <1>3, <1>11 DEF ListSessions
  <2>3. Start \in Cursors /\ IsStart(Start) = TRUE BY DEF Cursors, IsStart
  <2>4. /\ WalkTypeOK' /\ ~walk'.again /\ walk'.cursor = Start /\ walk'.over = TRUE
        /\ walk'.seen = walk.seen \cup page /\ walk'.whole = whole
      BY <1>9, <2>2, <2>3
  <2> HIDE DEF page, whole, found
  <2>5. walk'.whole \subseteq walk'.seen BY <1>8, <2>1, <2>4
  <2>6. IsStart(walk'.cursor) /\ walk'.over BY <2>3, <2>4
  <2>7. WalkBegins' /\ WalkGoesOn' /\ WalkEnds'
      BY <2>5, <2>6 DEF WalkBegins, WalkGoesOn, WalkEnds, IsStart
  <2> QED BY <2>4, <2>7 DEF WalkInv
<1> QED BY <1>10, <1>11

LEMMA WalkStep ==
    ASSUME WalkInv, [ListNext]_listVars, Ids \subseteq Nat, MaxAt \in Nat
    PROVE  WalkInv'
<1>1. CASE UNCHANGED listVars
    BY <1>1 DEF listVars, WalkInv, WalkTypeOK, WalkBegins, WalkGoesOn, WalkEnds, IsAfter, IsStart
<1>2. ASSUME NEW at \in 1..MaxAt, NEW id \in Ids, Hold(at, id) PROVE WalkInv'
  <2> DEFINE new == [at |-> at, id |-> id]
  <2>1. rows' = rows \cup {new} /\ walk' = walk BY <1>2 DEF Hold
  <2>2. new \in SessionRows BY DEF SessionRows
  <2>3. rows \in SUBSET SessionRows /\ IsFiniteSet(rows) BY DEF WalkInv, WalkTypeOK
  <2> HIDE DEF new
  <2>4. IsFiniteSet(rows') BY <2>1, <2>3, FS_AddElement
  <2>5. rows' \in SUBSET SessionRows /\ rows \subseteq rows' BY <2>1, <2>2, <2>3
  <2>6. WalkTypeOK' BY <2>1, <2>4, <2>5 DEF WalkInv, WalkTypeOK
  <2>7. WalkBegins' /\ WalkGoesOn' /\ WalkEnds' /\ ~walk'.again
      BY <2>1 DEF WalkInv, WalkBegins, WalkGoesOn, WalkEnds, IsAfter, IsStart
  <2> QED BY <2>6, <2>7 DEF WalkInv
<1>3. ASSUME NEW m \in rows, Erase(m) PROVE WalkInv'
  <2>1. /\ rows' = rows \ {m}
        /\ walk' = [cursor |-> walk.cursor, over |-> walk.over, seen |-> walk.seen,
                    again |-> walk.again, whole |-> walk.whole \ {m}]
      BY <1>3 DEF Erase
  <2>2. /\ walk'.cursor = walk.cursor /\ walk'.over = walk.over /\ walk'.seen = walk.seen
        /\ walk'.again = walk.again /\ walk'.whole = walk.whole \ {m}
      BY <2>1
  <2>3. rows \in SUBSET SessionRows /\ IsFiniteSet(rows) BY DEF WalkInv, WalkTypeOK
  <2>4. IsFiniteSet(rows') BY <2>1, <2>3, FS_RemoveElement
  <2>5. walk' = [cursor |-> walk'.cursor, over |-> walk'.over, seen |-> walk'.seen,
                 again |-> walk'.again, whole |-> walk'.whole]
      BY <2>1, <2>2
  <2>6. WalkTypeOK' BY <2>1, <2>2, <2>4, <2>5 DEF WalkInv, WalkTypeOK
  <2>7. WalkBegins' /\ WalkGoesOn' /\ WalkEnds'
      BY <2>2 DEF WalkInv, WalkBegins, WalkGoesOn, WalkEnds, IsAfter, IsStart
  <2> QED BY <2>2, <2>6, <2>7 DEF WalkInv
<1>4. ASSUME NEW limit \in 0..(MostPage + 1), ListPage(limit) PROVE WalkInv'
  <2>1. limit \in Nat BY ListingAssumption
  <2> QED BY <1>4, <2>1, PageWalks
<1> QED BY <1>1, <1>2, <1>3, <1>4 DEF ListNext

\* A walk through the list of meetings shows all that were there throughout and
\* none twice, for every set of meetings and any limits of its pages
\* (SessionStore::listSessions).
THEOREM WalkLosesNothing == ListSpec => []WalkIsComplete
<1>1. ListInit => WalkInv BY WalkStarts
<1>2. WalkInv /\ [ListNext]_listVars => WalkInv' BY WalkStep, ListingAssumption
<1>3. WalkInv => WalkIsComplete BY DEF WalkInv, WalkEnds, WalkIsComplete
<1> QED BY <1>1, <1>2, <1>3, PTL DEF ListSpec

-----------------------------------------------------------------------------
(* The window on the trace.                                                *)

Events == [id : Nat, seq : Nat, stage : Stages]
TraceAnswers ==
    [events : Seq(Events), hasMore : BOOLEAN, stale : BOOLEAN, next : Nat, rest : SUBSET Events]
Feeds == [mode : Modes, stage : {AnyStage}, cards : Seq(Events), from : Nat, missed : {{}},
          after : [Modes -> Nat], asking : [Modes -> TraceAnswers \cup {None}]]

\* What was written is numbered, and what waits comes after it.
StoreOK ==
    /\ trace = [seq |-> trace.seq, id |-> trace.id, pending |-> trace.pending, ended |-> trace.ended]
    /\ trace.seq \in Nat /\ trace.id \in Nat
    /\ stored \in SUBSET Events /\ IsFiniteSet(stored)
    /\ trace.pending \in SUBSET Events /\ IsFiniteSet(trace.pending)
    /\ \A e \in stored \cup trace.pending : 0 < e.seq /\ e.seq <= trace.seq /\ e.id < trace.id
    /\ \A a, b \in stored \cup trace.pending : a.seq = b.seq => a = b
    /\ \A e \in stored, p \in trace.pending : e.seq < p.seq

\* A cursor that no event can come below any more.
Passed(n) ==
    /\ n \in Nat /\ n <= trace.seq
    /\ stored = {} => n = 0
    /\ \A p \in trace.pending : n < p.seq

Rising(list) == \A i, j \in DOMAIN list : i < j => list[i].seq < list[j].seq
Between(list, from, to) == \A i \in DOMAIN list : from < list[i].seq /\ list[i].seq <= to
Lists(list, e) == \E i \in DOMAIN list : list[i] = e

TraceAnswerOK(mode) ==
    LET answer == feed.asking[mode] IN
    answer # None /\ ~answer.stale =>
        /\ mode = feed.mode /\ Passed(answer.next)
        /\ feed.after[mode] <= answer.next
        /\ Rising(answer.events) /\ Between(answer.events, feed.after[mode], answer.next)
        /\ \A e \in stored : feed.after[mode] < e.seq /\ e.seq <= answer.next => Lists(answer.events, e)
        /\ ~answer.hasMore => answer.rest = {}

Pushed(mode, cards, e) == mode = "live" /\ Len(cards) = MaxCards /\ e.seq < cards[1].seq
CardsOK(mode, cards, from, to) ==
    /\ Rising(cards) /\ Between(cards, from, to) /\ from <= to
    /\ \A e \in stored : from < e.seq /\ e.seq <= to => Lists(cards, e) \/ Pushed(mode, cards, e)

FeedInv ==
    /\ StoreOK
    /\ feed \in Feeds
    /\ \A mode \in Modes : Passed(feed.after[mode]) /\ TraceAnswerOK(mode)
    /\ CardsOK(feed.mode, feed.cards, feed.from, feed.after[feed.mode])

LEMMA EventOrder ==
    /\ \A a, b, c \in Events : Before(a, b) /\ Before(b, c) => Before(a, c)
    /\ \A a \in Events : ~Before(a, a)
    /\ \A a \in Events : a.seq \in Nat /\ a.id \in Nat
    /\ \A a, b \in Events : Before(a, b) => a.seq <= b.seq
<1>1. \A a \in Events : a.seq \in Nat /\ a.id \in Nat BY DEF Events
<1> QED BY <1>1 DEF Before

LEMMA FirstAreFirst ==
    ASSUME NEW found \in SUBSET Events, IsFiniteSet(found), NEW n \in Nat,
           NEW l \in FirstOf(found, n), NEW e \in found, Before(e, l)
    PROVE  e \in FirstOf(found, n)
<1> DEFINE Under(x) == {o \in found : Before(o, x)}
<1>1. l \in found /\ Cardinality(Under(l)) < n BY DEF FirstOf
<1>2. Under(e) \subseteq Under(l) BY <1>1, EventOrder
<1>3. IsFiniteSet(Under(e)) /\ IsFiniteSet(Under(l)) BY FS_Subset
<1>4. Cardinality(Under(e)) <= Cardinality(Under(l)) BY <1>2, <1>3, FS_Subset
<1>5. Cardinality(Under(e)) \in Nat /\ Cardinality(Under(l)) \in Nat BY <1>3, FS_CardinalityType
<1>6. Cardinality(Under(e)) < n
  <2> HIDE DEF Under
  <2> QED BY <1>1, <1>4, <1>5
<1> QED BY <1>6 DEF FirstOf

LEMMA ShortReadIsAll ==
    ASSUME NEW found \in SUBSET Events, IsFiniteSet(found), NEW n \in Nat, Cardinality(found) <= n
    PROVE  FirstOf(found, n) = found
<1> SUFFICES ASSUME NEW e \in found PROVE Cardinality({o \in found : Before(o, e)}) < n
    BY DEF FirstOf
<1> DEFINE B == {o \in found : Before(o, e)}
<1>1. e \notin B BY EventOrder
<1>2. B \subseteq found \ {e} BY <1>1
<1>3. IsFiniteSet(found \ {e}) /\ Cardinality(found \ {e}) = Cardinality(found) - 1
    BY FS_RemoveElement
<1>4. IsFiniteSet(B) /\ Cardinality(B) <= Cardinality(found \ {e}) BY <1>2, <1>3, FS_Subset
<1>5. Cardinality(B) \in Nat /\ Cardinality(found) \in Nat BY <1>4, FS_CardinalityType
<1> HIDE DEF B
<1>6. Cardinality(B) < n BY <1>3, <1>4, <1>5
<1> QED BY <1>6 DEF B

LEMMA ListsInOrder ==
    ASSUME NEW events \in SUBSET Events, IsFiniteSet(events), NEW list \in InOrder(events)
    PROVE  /\ list \in Seq(Events) /\ Len(list) \in Nat /\ DOMAIN list = 1..Len(list)
           /\ \A i \in DOMAIN list : list[i] \in events
           /\ \A i, j \in DOMAIN list : i < j => Before(list[i], list[j])
           /\ \A e \in events : Lists(list, e)
<1>1. Cardinality(events) \in Nat BY FS_CardinalityType
<1>2. /\ list \in [1..Cardinality(events) -> events]
      /\ \A i, j \in DOMAIN list : i < j => Before(list[i], list[j])
      /\ \A e \in events : \E i \in DOMAIN list : list[i] = e
    BY DEF InOrder
<1>3. list \in [1..Cardinality(events) -> Events] BY <1>2
<1>4. list \in Seq(Events) BY <1>1, <1>3
<1>5. Len(list) \in Nat /\ DOMAIN list = 1..Len(list) BY <1>4
<1>6. \A i \in DOMAIN list : list[i] \in events BY <1>2
<1> QED BY <1>2, <1>4, <1>5, <1>6 DEF Lists

\* The window drops from the front what is too much for it.
LEMMA ShownIsEnd ==
    ASSUME NEW mode \in Modes, NEW all \in Seq(Events)
    PROVE  LET cards == CardsShown(mode, all) IN
           /\ cards \in Seq(Events) /\ Len(cards) \in Nat /\ DOMAIN cards = 1..Len(cards)
           /\ \E k \in Nat : /\ Len(all) = Len(cards) + k
                             /\ \A i \in 1..Len(cards) : cards[i] = all[i + k]
                             /\ k > 0 => mode = "live" /\ Len(cards) = MaxCards
           /\ mode = "live" /\ Len(all) >= MaxCards => Len(cards) = MaxCards
<1> DEFINE cards == CardsShown(mode, all)
<1>0. MaxCards \in Nat /\ MaxCards > 0 /\ Len(all) \in Nat BY TraceAssumption
<1>1. CASE mode = "live" /\ Len(all) > MaxCards
  <2> DEFINE k == Len(all) - MaxCards
  <2>1. k \in Nat /\ k > 0 /\ k + 1 \in 1..Len(all) BY <1>0, <1>1
  <2>2. cards = SubSeq(all, k + 1, Len(all)) BY <1>0, <1>1 DEF CardsShown, Newest
  <2> HIDE DEF cards
  <2>3. cards \in Seq(Events) /\ Len(cards) = Len(all) - k BY <1>0, <2>1, <2>2
  <2>4. DOMAIN cards = 1..Len(cards) /\ Len(cards) = MaxCards BY <1>0, <2>3
  <2>5. \A i \in 1..Len(cards) : cards[i] = all[i + k] BY <1>0, <2>1, <2>2, <2>3
  <2>6. Len(all) = Len(cards) + k BY <1>0, <2>1, <2>3
  <2>7. \E x \in Nat : /\ Len(all) = Len(cards) + x
                       /\ \A i \in 1..Len(cards) : cards[i] = all[i + x]
                       /\ x > 0 => mode = "live" /\ Len(cards) = MaxCards
      BY <1>1, <2>1, <2>4, <2>5, <2>6
  <2> QED BY <1>0, <2>3, <2>4, <2>7 DEF cards
<1>2. CASE ~(mode = "live" /\ Len(all) > MaxCards)
  <2>1. cards = all BY <1>0, <1>2 DEF CardsShown, Newest
  <2> HIDE DEF cards
  <2>2. \A i \in 1..Len(cards) : cards[i] = all[i + 0] BY <1>0, <2>1
  <2>3. \E x \in Nat : /\ Len(all) = Len(cards) + x
                       /\ \A i \in 1..Len(cards) : cards[i] = all[i + x]
                       /\ x > 0 => mode = "live" /\ Len(cards) = MaxCards
      BY <1>0, <2>1, <2>2
  <2>4. mode = "live" /\ Len(all) >= MaxCards => Len(cards) = MaxCards BY <1>0, <1>2, <2>1
  <2> QED BY <1>0, <2>1, <2>3, <2>4 DEF cards
<1> QED BY <1>1, <1>2

\* An answer takes its place after the cards.
LEMMA CardsGrow ==
    ASSUME NEW mode \in Modes, NEW cards \in Seq(Events), NEW events \in Seq(Events),
           NEW from \in Nat, NEW after \in Nat, NEW next \in Nat,
           CardsOK(mode, cards, from, after), after <= next, stored \in SUBSET Events,
           Rising(events), Between(events, after, next),
           \A e \in stored : after < e.seq /\ e.seq <= next => Lists(events, e)
    PROVE  CardsOK(mode, CardsShown(mode, cards \o events), from, next)
<1> DEFINE all == cards \o events
           new == CardsShown(mode, all)
           n == Len(cards)
<1>1. /\ n \in Nat /\ Len(events) \in Nat /\ DOMAIN cards = 1..n /\ DOMAIN events = 1..Len(events)
      /\ all \in Seq(Events) /\ Len(all) = n + Len(events) /\ DOMAIN all = 1..Len(all)
    OBVIOUS
<1>2. /\ \A i \in 1..n : all[i] = cards[i]
      /\ \A i \in 1..Len(events) : all[i + n] = events[i]
    OBVIOUS
<1>3. \A i \in DOMAIN all : i \in 1..n \/ (i - n \in 1..Len(events) /\ all[i] = events[i - n]) BY <1>1, <1>2
<1>4. /\ Rising(cards) /\ Between(cards, from, after) /\ from <= after
      /\ \A e \in stored : from < e.seq /\ e.seq <= after => Lists(cards, e) \/ Pushed(mode, cards, e)
    BY DEF CardsOK
<1>5. \A i \in DOMAIN all : all[i] \in Events /\ all[i].seq \in Nat BY <1>1, EventOrder
<1> HIDE DEF all
<1>6. ASSUME NEW i \in DOMAIN all
      PROVE  /\ i \in 1..n => from < all[i].seq /\ all[i].seq <= after
             /\ i \notin 1..n => after < all[i].seq /\ all[i].seq <= next
  <2>1. CASE i \in 1..n BY <1>1, <1>2, <1>4, <2>1 DEF Between
  <2>2. CASE i \notin 1..n
    <3>1. i - n \in DOMAIN events /\ all[i] = events[i - n] BY <1>1, <1>3, <2>2
    <3> QED BY <2>2, <3>1 DEF Between
  <2> QED BY <2>1, <2>2
<1>7. Between(all, from, next)
  <2> SUFFICES ASSUME NEW i \in DOMAIN all PROVE from < all[i].seq /\ all[i].seq <= next BY DEF Between
  <2> QED BY <1>4, <1>5, <1>6
<1>8. Rising(all)
  <2> SUFFICES ASSUME NEW i \in DOMAIN all, NEW j \in DOMAIN all, i < j PROVE all[i].seq < all[j].seq
      BY DEF Rising
  <2>1. CASE j \in 1..n
    <3>1. i \in 1..n BY <1>1, <2>1
    <3> QED BY <1>1, <1>2, <1>4, <2>1, <3>1 DEF Rising
  <2>2. CASE i \in 1..n /\ j \notin 1..n BY <1>5, <1>6, <2>2
  <2>3. CASE i \notin 1..n
    <3>1. j \notin 1..n BY <1>1, <2>3
    <3>2. i - n \in DOMAIN events /\ all[i] = events[i - n] BY <1>1, <1>3, <2>3
    <3>3. j - n \in DOMAIN events /\ all[j] = events[j - n] BY <1>1, <1>3, <3>1
    <3>4. i - n < j - n BY <1>1
    <3> QED BY <3>2, <3>3, <3>4 DEF Rising
  <2> QED BY <2>1, <2>2, <2>3
<1>9. /\ new \in Seq(Events) /\ Len(new) \in Nat /\ DOMAIN new = 1..Len(new)
      /\ \E k \in Nat : /\ Len(all) = Len(new) + k
                        /\ \A i \in 1..Len(new) : new[i] = all[i + k]
                        /\ k > 0 => mode = "live" /\ Len(new) = MaxCards
      /\ mode = "live" /\ Len(all) >= MaxCards => Len(new) = MaxCards
    BY <1>1, ShownIsEnd
<1> HIDE DEF new
<1>10. PICK k \in Nat : /\ Len(all) = Len(new) + k
                        /\ \A i \in 1..Len(new) : new[i] = all[i + k]
                        /\ k > 0 => mode = "live" /\ Len(new) = MaxCards
    BY <1>9
<1>11. \A i \in DOMAIN new : i + k \in DOMAIN all /\ new[i] = all[i + k] BY <1>1, <1>9, <1>10
<1>12. Between(new, from, next) BY <1>7, <1>11 DEF Between
<1>13. Rising(new)
  <2> SUFFICES ASSUME NEW i \in DOMAIN new, NEW j \in DOMAIN new, i < j PROVE new[i].seq < new[j].seq
      BY DEF Rising
  <2>1. i + k < j + k BY <1>9
  <2> QED BY <1>8, <1>11, <2>1 DEF Rising
<1>14. from <= next BY <1>4
<1>15. MaxCards \in Nat /\ MaxCards > 0 BY TraceAssumption
<1>16. ASSUME NEW e \in stored, NEW i \in DOMAIN all, all[i] = e
       PROVE  Lists(new, e) \/ Pushed(mode, new, e)
  <2>1. CASE i > k
    <3>1. i - k \in DOMAIN new /\ new[i - k] = all[i] BY <1>1, <1>9, <1>10, <2>1
    <3> QED BY <1>16, <3>1 DEF Lists
  <2>2. CASE i <= k
    <3>0. k > 0 BY <1>1, <2>2
    <3>1. k > 0 /\ mode = "live" /\ Len(new) = MaxCards BY <1>10, <3>0
    <3>5. 1 \in 1..Len(new) BY <1>9, <1>15, <3>1
    <3>6. 1 \in DOMAIN new BY <1>9, <3>5
    <3>2. 1 \in DOMAIN new /\ new[1] = all[1 + k] /\ 1 + k \in DOMAIN all BY <1>11, <3>6
    <3>3. i < 1 + k BY <1>1, <2>2
    <3>4. all[i].seq < all[1 + k].seq BY <1>8, <3>2, <3>3 DEF Rising
    <3> QED BY <1>16, <3>1, <3>2, <3>4 DEF Pushed
  <2> QED BY <1>1, <2>1, <2>2
<1>17. ASSUME NEW e \in stored, from < e.seq, e.seq <= next
       PROVE  Lists(new, e) \/ Pushed(mode, new, e)
  <2>0. e.seq \in Nat BY EventOrder
  <2>1. CASE after < e.seq
    <3>1. Lists(events, e) BY <1>17, <2>1
    <3>2. PICK i \in DOMAIN events : events[i] = e BY <3>1 DEF Lists
    <3>3. i + n \in DOMAIN all /\ all[i + n] = e BY <1>1, <1>2, <3>2
    <3> QED BY <1>16, <3>3
  <2>2. CASE e.seq <= after /\ Lists(cards, e)
    <3>1. PICK i \in DOMAIN cards : cards[i] = e BY <2>2 DEF Lists
    <3>2. i \in DOMAIN all /\ all[i] = e BY <1>1, <1>2, <3>1
    <3> QED BY <1>16, <3>2
  <2>3. CASE e.seq <= after /\ Pushed(mode, cards, e)
    <3>1. mode = "live" /\ n = MaxCards /\ e.seq < cards[1].seq BY <2>3 DEF Pushed
    <3>2. Len(new) = MaxCards BY <1>1, <1>9, <3>1
    <3>7. 1 \in 1..Len(new) BY <1>9, <1>15, <3>2
    <3>8. 1 \in DOMAIN new BY <1>9, <3>7
    <3>3. 1 \in DOMAIN new /\ new[1] = all[1 + k] /\ 1 + k \in DOMAIN all BY <1>11, <3>8
    <3>4. 1 \in DOMAIN all /\ all[1] = cards[1] BY <1>1, <1>2, <1>15, <3>1
    <3>5. all[1].seq <= all[1 + k].seq
      <4>1. CASE k = 0 BY <1>5, <3>4, <4>1
      <4>2. CASE k > 0
        <5>1. 1 < 1 + k BY <4>2
        <5>2. all[1].seq < all[1 + k].seq BY <1>8, <3>3, <3>4, <5>1 DEF Rising
        <5> QED BY <1>5, <3>3, <3>4, <5>2
      <4> QED BY <4>1, <4>2
    <3>6. e.seq < new[1].seq BY <1>5, <2>0, <3>1, <3>3, <3>4, <3>5
    <3> QED BY <3>1, <3>2, <3>6 DEF Pushed
  <2> QED BY <1>4, <1>17, <2>0, <2>1, <2>2, <2>3
<1> QED BY <1>12, <1>13, <1>14, <1>17 DEF CardsOK, new, all

LEMMA FeedTypes ==
    ASSUME NEW f \in Feeds
    PROVE  /\ f.mode \in Modes /\ f.stage = AnyStage /\ f.cards \in Seq(Events) /\ f.from \in Nat
           /\ f.missed = {} /\ f.after \in [Modes -> Nat] /\ f.asking \in [Modes -> TraceAnswers \cup {None}]
           /\ \A m \in Modes : f.after[m] \in Nat
           /\ \A m \in Modes : f.asking[m] # None => f.asking[m] \in TraceAnswers
<1>1. /\ f.mode \in Modes /\ f.stage \in {AnyStage} /\ f.cards \in Seq(Events) /\ f.from \in Nat
      /\ f.missed \in {{}} /\ f.after \in [Modes -> Nat] /\ f.asking \in [Modes -> TraceAnswers \cup {None}]
    BY DEF Feeds
<1> QED BY <1>1

LEMMA AnyIsAll ==
    ASSUME NEW events
    PROVE  OfStage(events, AnyStage) = events
BY DEF OfStage

\* What is true of an answer when it is made.
LEMMA AskAnswers ==
    ASSUME FeedInv, NEW mode \in Modes, Ask(mode)
    PROVE  FeedInv'
<1> DEFINE after == feed.after[mode]
           found == {e \in stored : e.seq > after}
           read == FirstOf(found, TracePage + 1)
           mine == OfStage(read, feed.stage)
           all == OfStage(stored, feed.stage)
           page == FirstOf(mine, TracePage)
<1>1. /\ StoreOK /\ feed \in Feeds
      /\ \A m \in Modes : Passed(feed.after[m]) /\ TraceAnswerOK(m)
      /\ CardsOK(feed.mode, feed.cards, feed.from, feed.after[feed.mode])
    BY DEF FeedInv
<1>2. feed.stage = AnyStage /\ after \in Nat /\ feed.after \in [Modes -> Nat]
      /\ feed.asking \in [Modes -> TraceAnswers \cup {None}]
    BY <1>1, FeedTypes
<1>3. /\ stored \in SUBSET Events /\ IsFiniteSet(stored)
      /\ \A a, b \in stored : a.seq = b.seq => a = b
      /\ \A e \in stored : 0 < e.seq /\ e.seq <= trace.seq
      /\ \A e \in stored, p \in trace.pending : e.seq < p.seq
      /\ trace.seq \in Nat /\ trace.pending \in SUBSET Events
    BY <1>1 DEF StoreOK
<1>4. TracePage \in Nat /\ TracePage + 1 \in Nat BY TraceAssumption
<1>40. mine = read /\ all = stored BY <1>2, AnyIsAll
<1>5. PICK events \in InOrder(page) :
        feed' = [feed EXCEPT !.asking = [feed.asking EXCEPT ![mode] =
                   [events |-> events, hasMore |-> Cardinality(found) > TracePage /\ mine = read,
                    stale |-> FALSE, next |-> NextSeq(events, after),
                    rest |-> {e \in all : e.seq > NextSeq(events, after)}]]]
    BY DEF Ask, Cursor
<1> HIDE DEF mine, all
<1>6. feed.mode = mode /\ stored' = stored /\ trace' = trace BY DEF Ask
<1>7. /\ found \subseteq stored /\ IsFiniteSet(found) /\ read \subseteq found /\ IsFiniteSet(read)
      /\ page \subseteq read /\ IsFiniteSet(page)
  <2>1. found \subseteq stored OBVIOUS
  <2>2. read \subseteq found /\ page \subseteq mine BY DEF FirstOf
  <2> QED BY <1>3, <1>40, <2>1, <2>2, FS_Subset
<1>8. found \in SUBSET Events /\ read \in SUBSET Events /\ page \in SUBSET Events BY <1>3, <1>7
<1>9. \A e \in stored : e.seq \in Nat BY <1>3, EventOrder
<1>10. \A e \in found : after < e.seq BY <1>2, <1>9
<1>11. ASSUME NEW e \in found, NEW l \in page, e.seq <= l.seq PROVE e \in page
  <2>1. e = l \/ Before(e, l)
    <3>1. CASE e.seq = l.seq BY <1>3, <1>7, <3>1
    <3>2. CASE e.seq < l.seq BY <3>2 DEF Before
    <3> QED BY <1>7, <1>9, <1>11, <3>1, <3>2
  <2>2. CASE e = l BY <2>2
  <2>3. CASE Before(e, l)
    <3>1. l \in read BY <1>7
    <3> HIDE DEF found, read, page
    <3>2. e \in read BY <1>4, <1>7, <1>8, <2>3, <3>1, FirstAreFirst DEF read
    <3> QED BY <1>4, <1>7, <1>8, <1>40, <2>3, <3>2, FirstAreFirst DEF page
  <2> QED BY <2>1, <2>2, <2>3
<1>12. ASSUME ~(Cardinality(found) > TracePage) PROVE page = found
  <2> HIDE DEF found
  <2>1. Cardinality(found) \in Nat BY <1>7, FS_CardinalityType
  <2>2. Cardinality(found) <= TracePage /\ Cardinality(found) <= TracePage + 1 BY <1>4, <1>12, <2>1
  <2>3. read = found BY <1>4, <1>7, <1>8, <2>2, ShortReadIsAll
  <2>4. FirstOf(found, TracePage) = found BY <1>4, <1>7, <1>8, <2>2, ShortReadIsAll
  <2> QED BY <1>40, <2>3, <2>4 DEF page
<1> DEFINE next == NextSeq(events, after)
           more == Cardinality(found) > TracePage /\ mine = read
           rest == {e \in all : e.seq > next}
           answer == [events |-> events, hasMore |-> more, stale |-> FALSE, next |-> next, rest |-> rest]
<1>13. (more <=> Cardinality(found) > TracePage) /\ rest \subseteq stored BY <1>40
<1> HIDE DEF page, read, found
<1>14. /\ events \in Seq(Events) /\ Len(events) \in Nat /\ DOMAIN events = 1..Len(events)
       /\ \A i \in DOMAIN events : events[i] \in page
       /\ \A i, j \in DOMAIN events : i < j => Before(events[i], events[j])
       /\ \A e \in page : Lists(events, e)
    BY <1>7, <1>8, ListsInOrder
<1>15. \A i \in DOMAIN events : events[i] \in found /\ events[i] \in stored /\ events[i] \in Events
    BY <1>7, <1>8, <1>14
<1>16. Rising(events)
  <2> SUFFICES ASSUME NEW i \in DOMAIN events, NEW j \in DOMAIN events, i < j
               PROVE  events[i].seq < events[j].seq
      BY DEF Rising
  <2>1. Before(events[i], events[j]) BY <1>14
  <2>2. events[i].seq # events[j].seq
    <3> SUFFICES ASSUME events[i].seq = events[j].seq PROVE FALSE OBVIOUS
    <3>1. events[i] = events[j] BY <1>3, <1>15
    <3> QED BY <1>15, <2>1, <3>1, EventOrder
  <2> QED BY <1>9, <1>15, <2>1, <2>2, EventOrder
<1>17. \A e \in page : e.seq <= next /\ after <= next /\ Lists(events, e)
  <2> SUFFICES ASSUME NEW e \in page PROVE e.seq <= next /\ after <= next /\ Lists(events, e) OBVIOUS
  <2>1. Lists(events, e) BY <1>14
  <2>2. PICK i \in DOMAIN events : events[i] = e BY <2>1 DEF Lists
  <2>3. Len(events) \in DOMAIN events /\ i <= Len(events) BY <1>14, <2>2
  <2>4. events # <<>> BY <1>14, <2>2
  <2>5. next = events[Len(events)].seq BY <2>4 DEF NextSeq
  <2>6. e.seq <= next
    <3>1. CASE i = Len(events) BY <1>9, <1>15, <2>2, <2>5, <3>1
    <3>2. CASE i # Len(events)
      <4>1. i < Len(events) BY <1>14, <2>2, <2>3, <3>2
      <4>2. events[i].seq < events[Len(events)].seq BY <1>16, <2>2, <2>3, <4>1 DEF Rising
      <4> QED BY <1>9, <1>15, <2>2, <2>3, <2>5, <4>2
    <3> QED BY <3>1, <3>2
  <2>7. after < next BY <1>10, <1>15, <2>3, <2>5
  <2>8. next \in Nat BY <1>9, <1>15, <2>3, <2>5
  <2>9. after <= next BY <1>2, <2>7, <2>8
  <2> QED BY <2>1, <2>6, <2>9
<1>18. events = <<>> => page = {} /\ next = after BY <1>14 DEF NextSeq, Lists
<1>19. events # <<>> => Len(events) \in DOMAIN events /\ events[Len(events)] \in page
                        /\ next = events[Len(events)].seq
    BY <1>14 DEF NextSeq
<1> HIDE DEF next
<1>20. Passed(next) /\ after <= next /\ next \in Nat
  <2>1. CASE events = <<>> BY <1>1, <1>2, <1>18, <2>1
  <2>2. CASE events # <<>>
    <3>1. events[Len(events)] \in stored BY <1>15, <1>19, <2>2
    <3>2. next \in Nat /\ next <= trace.seq /\ stored # {} BY <1>3, <1>9, <1>19, <2>2, <3>1
    <3>3. \A p \in trace.pending : next < p.seq BY <1>3, <1>19, <2>2, <3>1
    <3>4. after <= next BY <1>17, <1>19, <2>2
    <3> QED BY <3>2, <3>3, <3>4 DEF Passed
  <2> QED BY <2>1, <2>2
<1>21. Between(events, after, next)
  <2> SUFFICES ASSUME NEW i \in DOMAIN events PROVE after < events[i].seq /\ events[i].seq <= next BY DEF Between
  <2>1. events[i] \in found /\ events[i] \in page BY <1>14, <1>15
  <2> QED BY <1>10, <1>17, <2>1
<1>22. ASSUME NEW e \in stored, after < e.seq, e.seq <= next PROVE Lists(events, e)
  <2>1. e \in found BY <1>22 DEF found
  <2>2. CASE events = <<>> BY <1>2, <1>9, <1>18, <1>22, <2>2
  <2>3. CASE events # <<>>
    <3>1. e \in page BY <1>11, <1>19, <1>22, <2>1, <2>3
    <3> QED BY <1>14, <3>1
  <2> QED BY <2>2, <2>3
<1>23. ASSUME ~more PROVE rest = {}
  <2> SUFFICES ASSUME NEW e \in rest PROVE FALSE OBVIOUS
  <2>1. e \in stored /\ e.seq > next BY <1>40
  <2>2. after < e.seq BY <1>2, <1>9, <1>20, <2>1
  <2>3. e \in found BY <2>1, <2>2 DEF found
  <2>4. e \in page BY <1>12, <1>13, <1>23, <2>3
  <2>5. e.seq <= next BY <1>17, <2>4
  <2> QED BY <1>9, <1>20, <2>1, <2>5
<1>24. answer \in TraceAnswers
  <2>1. more \in BOOLEAN /\ rest \in SUBSET Events BY <1>3, <1>13
  <2> HIDE DEF more, rest
  <2> QED BY <1>14, <1>20, <2>1 DEF TraceAnswers
<1>25. answer.events = events /\ answer.hasMore = more /\ ~answer.stale /\ answer.next = next /\ answer.rest = rest
    OBVIOUS
<1>26. feed' = [feed EXCEPT !.asking = [feed.asking EXCEPT ![mode] = answer]] BY <1>5 DEF next
<1> HIDE DEF answer, more, rest
<1>27. /\ feed'.mode = feed.mode /\ feed'.cards = feed.cards /\ feed'.from = feed.from /\ feed'.after = feed.after
       /\ feed'.asking = [feed.asking EXCEPT ![mode] = answer] /\ feed' \in Feeds
  <2>1. [feed.asking EXCEPT ![mode] = answer] \in [Modes -> TraceAnswers \cup {None}] BY <1>2, <1>24
  <2> QED BY <1>1, <1>26, <2>1 DEF Feeds
<1>28. feed'.asking[mode] = answer /\ \A m \in Modes \ {mode} : feed'.asking[m] = feed.asking[m] BY <1>2, <1>27
<1>29. StoreOK' BY <1>1, <1>6 DEF StoreOK
<1>30. \A m \in Modes : Passed(feed.after[m])' BY <1>1, <1>6, <1>27 DEF Passed
<1>31. TraceAnswerOK(mode)' BY <1>6, <1>16, <1>20, <1>21, <1>22, <1>23, <1>25, <1>27, <1>28 DEF TraceAnswerOK, Passed
<1>32. \A m \in Modes \ {mode} : TraceAnswerOK(m)'
  <2> SUFFICES ASSUME NEW m \in Modes \ {mode} PROVE TraceAnswerOK(m)' OBVIOUS
  <2>1. TraceAnswerOK(m) BY <1>1
  <2> QED BY <1>6, <1>27, <1>28, <2>1 DEF TraceAnswerOK, Passed
<1>33. CardsOK(feed.mode, feed.cards, feed.from, feed.after[feed.mode])' BY <1>1, <1>6, <1>27 DEF CardsOK, Pushed
<1> QED BY <1>27, <1>29, <1>30, <1>31, <1>32, <1>33 DEF FeedInv

\* What is written keeps what came last.
LEMMA LastIsKept ==
    ASSUME NEW before \in SUBSET Events, NEW events \in SUBSET Events, NEW last \in events,
           \A e \in before \cup events : e.id <= last.id
    PROVE  AppendTrace(before, events) \subseteq before \cup events /\ last \in AppendTrace(before, events)
<1> DEFINE all == before \cup events
           Later(e) == {o \in all : o.stage = e.stage /\ o.id > e.id}
<1>1. AppendTrace(before, events)
        = {e \in all : (\E w \in events : w.stage = e.stage) => Cardinality(Later(e)) < KeepPerStage}
    BY DEF AppendTrace
<1>2. Later(last) = {} BY EventOrder
<1>4. Cardinality({}) = 0 /\ KeepPerStage \in Nat /\ KeepPerStage > 0 BY FS_EmptySet, TraceAssumption
<1>3. Cardinality(Later(last)) < KeepPerStage BY <1>2, <1>4
<1> HIDE DEF Later
<1> QED BY <1>1, <1>3

LEMMA DrainIsNewer ==
    ASSUME FeedInv, NEW stage \in Stages, NEW flush \in BOOLEAN, DrainTrace(stage, flush)
    PROVE  FeedInv'
<1> DEFINE event == [id |-> trace.id, seq |-> trace.seq + 1, stage |-> stage]
           pending == trace.pending \cup {event}
           due == flush \/ Cardinality(pending) >= Batch
<1>1. /\ StoreOK /\ feed \in Feeds
      /\ \A m \in Modes : Passed(feed.after[m]) /\ TraceAnswerOK(m)
      /\ CardsOK(feed.mode, feed.cards, feed.from, feed.after[feed.mode])
    BY DEF FeedInv
<1>2. /\ trace.seq \in Nat /\ trace.id \in Nat
      /\ stored \in SUBSET Events /\ IsFiniteSet(stored)
      /\ trace.pending \in SUBSET Events /\ IsFiniteSet(trace.pending)
      /\ \A e \in stored \cup trace.pending : 0 < e.seq /\ e.seq <= trace.seq /\ e.id < trace.id
      /\ \A a, b \in stored \cup trace.pending : a.seq = b.seq => a = b
      /\ \A e \in stored, p \in trace.pending : e.seq < p.seq
    BY <1>1 DEF StoreOK
<1>3. /\ stored' = IF due THEN AppendTrace(stored, pending) ELSE stored
      /\ trace' = [seq |-> trace.seq + 1, id |-> trace.id + 1,
                   pending |-> IF due THEN {} ELSE pending, ended |-> flush]
      /\ feed' = feed
    BY DEF DrainTrace
<1>4. event \in Events /\ event.seq = trace.seq + 1 /\ event.id = trace.id BY <1>2 DEF Events
<1> HIDE DEF event, due
<1>5. pending \in SUBSET Events /\ IsFiniteSet(pending) /\ event \in pending BY <1>2, <1>4, FS_AddElement
<1>6. \A e \in stored \cup trace.pending : e.seq \in Nat /\ e.id \in Nat BY <1>2, EventOrder
<1>7. \A e \in stored \cup pending : e.id <= event.id BY <1>2, <1>4, <1>6
<1>8. AppendTrace(stored, pending) \subseteq stored \cup pending /\ event \in AppendTrace(stored, pending)
    BY <1>2, <1>5, <1>7, LastIsKept
<1>9. /\ stored' \subseteq stored \cup pending
      /\ ~due => stored' = stored
      /\ due => event \in stored'
    BY <1>3, <1>8
<1>10. /\ trace'.seq = trace.seq + 1 /\ trace'.id = trace.id + 1 /\ trace'.ended = flush
       /\ due => trace'.pending = {}
       /\ ~due => trace'.pending = pending
    BY <1>3
<1>11. stored' \cup trace'.pending \subseteq stored \cup pending BY <1>9, <1>10
<1>12. /\ \A e \in stored \cup pending : e \in stored \cup trace.pending \/ e = event
       /\ \A p \in pending : p \in trace.pending \/ p = event
    OBVIOUS
<1> HIDE DEF pending
<1>13. StoreOK'
  <2>1. trace' = [seq |-> trace'.seq, id |-> trace'.id, pending |-> trace'.pending, ended |-> trace'.ended]
      BY <1>3
  <2>2. trace'.seq \in Nat /\ trace'.id \in Nat BY <1>2, <1>10
  <2>3. stored \cup pending \in SUBSET Events /\ IsFiniteSet(stored \cup pending) BY <1>2, <1>5, FS_Union
  <2>4. /\ stored' \in SUBSET Events /\ IsFiniteSet(stored')
        /\ trace'.pending \in SUBSET Events /\ IsFiniteSet(trace'.pending)
      BY <1>11, <2>3, FS_Subset
  <2>5. ASSUME NEW e \in stored' \cup trace'.pending PROVE 0 < e.seq /\ e.seq <= trace'.seq /\ e.id < trace'.id
    <3>1. e \in stored \cup trace.pending \/ e = event BY <1>11, <1>12
    <3> QED BY <1>2, <1>4, <1>6, <1>10, <3>1
  <2>6. ASSUME NEW a \in stored' \cup trace'.pending, NEW b \in stored' \cup trace'.pending, a.seq = b.seq
        PROVE  a = b
    <3>1. a \in stored \cup trace.pending \/ a = event BY <1>11, <1>12
    <3>2. b \in stored \cup trace.pending \/ b = event BY <1>11, <1>12
    <3> QED BY <1>2, <1>4, <1>6, <2>6, <3>1, <3>2
  <2>7. ASSUME NEW e \in stored', NEW p \in trace'.pending PROVE e.seq < p.seq
    <3>1. ~due BY <1>10, <2>7
    <3>2. e \in stored /\ p \in pending BY <1>9, <1>10, <2>7, <3>1
    <3>3. p \in trace.pending \/ p = event BY <1>12, <3>2
    <3> QED BY <1>2, <1>4, <1>6, <3>2, <3>3
  <2> QED BY <2>1, <2>2, <2>4, <2>5, <2>6, <2>7 DEF StoreOK
<1>14. ASSUME NEW n, Passed(n) PROVE Passed(n)'
  <2>1. /\ n \in Nat /\ n <= trace.seq
        /\ stored = {} => n = 0
        /\ \A p \in trace.pending : n < p.seq
      BY <1>14 DEF Passed
  <2>2. n <= trace'.seq BY <1>2, <1>10, <2>1
  <2>3. stored' = {} => n = 0 BY <1>9, <2>1
  <2>4. ASSUME NEW p \in trace'.pending PROVE n < p.seq
    <3>1. p \in pending BY <1>10, <2>4
    <3>2. p \in trace.pending \/ p = event BY <1>12, <3>1
    <3> QED BY <1>2, <1>4, <2>1, <3>2
  <2> QED BY <2>1, <2>2, <2>3, <2>4 DEF Passed
<1>15. ASSUME NEW n, Passed(n), NEW e \in stored', e.seq <= n PROVE e \in stored
  <2>1. n \in Nat /\ n <= trace.seq /\ \A p \in trace.pending : n < p.seq BY <1>15 DEF Passed
  <2>2. e \in stored \cup trace.pending \/ e = event BY <1>9, <1>12
  <2> QED BY <1>2, <1>4, <1>6, <1>15, <2>1, <2>2
<1>16. \A m \in Modes : Passed(feed.after[m])'
  <2> SUFFICES ASSUME NEW m \in Modes PROVE Passed(feed.after[m])' OBVIOUS
  <2>1. Passed(feed.after[m]) BY <1>1
  <2> DEFINE n == feed.after[m]
  <2> HIDE DEF n
  <2>2. n' = n BY <1>3 DEF n
  <2>3. Passed(n) BY <2>1 DEF n
  <2>4. Passed(n)' BY <1>2, <1>9, <1>10, <1>14, <2>2, <2>3 DEF Passed
  <2> QED BY <2>4 DEF n
<1>17. \A m \in Modes : TraceAnswerOK(m)'
  <2> SUFFICES ASSUME NEW m \in Modes PROVE TraceAnswerOK(m)' OBVIOUS
  <2> DEFINE answer == feed.asking[m]
  <2>1. TraceAnswerOK(m) BY <1>1
  <2>2. CASE answer # None /\ ~answer.stale
    <3>1. /\ m = feed.mode /\ Passed(answer.next)
          /\ feed.after[m] <= answer.next
          /\ Rising(answer.events) /\ Between(answer.events, feed.after[m], answer.next)
          /\ \A e \in stored : feed.after[m] < e.seq /\ e.seq <= answer.next => Lists(answer.events, e)
          /\ ~answer.hasMore => answer.rest = {}
        BY <2>1, <2>2 DEF TraceAnswerOK
    <3>2. \A e \in stored' : feed.after[m] < e.seq /\ e.seq <= answer.next => Lists(answer.events, e)
        BY <1>15, <3>1
    <3>3. \A n : n = answer.next => (Passed(n) => n \in Nat /\ n <= trace'.seq /\ (stored' = {} => n = 0)
                                       /\ \A p \in trace'.pending : n < p.seq)
        BY <1>14 DEF Passed
    <3> QED BY <1>3, <3>1, <3>2, <3>3 DEF TraceAnswerOK, Passed
  <2> QED BY <1>3, <2>2 DEF TraceAnswerOK
<1>18. CardsOK(feed.mode, feed.cards, feed.from, feed.after[feed.mode])'
  <2> DEFINE after == feed.after[feed.mode]
  <2>1. feed.mode \in Modes BY <1>1, FeedTypes
  <2>2. Passed(after) BY <1>1, <2>1
  <2>3. CardsOK(feed.mode, feed.cards, feed.from, after) BY <1>1
  <2>4. \A e \in stored' : e.seq <= after => e \in stored BY <1>15, <2>2
  <2> QED BY <1>3, <2>3, <2>4 DEF CardsOK, Pushed
<1> QED BY <1>1, <1>3, <1>13, <1>16, <1>17, <1>18 DEF FeedInv

LEMMA RestartIsEmpty ==
    ASSUME TraceRaces = {}, FeedInv, RestartTrace
    PROVE  FeedInv'
<1>1. /\ StoreOK /\ feed \in Feeds
      /\ \A m \in Modes : Passed(feed.after[m]) /\ TraceAnswerOK(m)
      /\ CardsOK(feed.mode, feed.cards, feed.from, feed.after[feed.mode])
    BY DEF FeedInv
<1>2. stored = {} /\ stored' = stored /\ feed' = feed
      /\ trace' = [seq |-> 0, id |-> trace.id, pending |-> {}, ended |-> FALSE]
    BY DEF RestartTrace
<1>3. trace.id \in Nat BY <1>1 DEF StoreOK
<1>4. trace'.seq = 0 /\ trace'.id = trace.id /\ trace'.pending = {} /\ trace'.ended = FALSE BY <1>2
<1>5. StoreOK' BY <1>2, <1>3, <1>4, FS_EmptySet DEF StoreOK
<1>6. \A m \in Modes : Passed(feed.after[m])' BY <1>1, <1>2, <1>4 DEF Passed
<1>7. \A m \in Modes : TraceAnswerOK(m)' BY <1>1, <1>2, <1>4 DEF TraceAnswerOK, Passed
<1>8. CardsOK(feed.mode, feed.cards, feed.from, feed.after[feed.mode])' BY <1>1, <1>2 DEF CardsOK, Pushed
<1> QED BY <1>1, <1>2, <1>5, <1>6, <1>7, <1>8 DEF FeedInv

\* A question that is over leaves the others as they are.
LEMMA UnansweredIsOver ==
    ASSUME FeedInv, NEW mode \in Modes, UNCHANGED <<stored, trace>>,
           feed' = [feed EXCEPT !.asking = [feed.asking EXCEPT ![mode] = None]]
    PROVE  FeedInv'
<1>1. /\ StoreOK /\ feed \in Feeds
      /\ \A m \in Modes : Passed(feed.after[m]) /\ TraceAnswerOK(m)
      /\ CardsOK(feed.mode, feed.cards, feed.from, feed.after[feed.mode])
    BY DEF FeedInv
<1>2. feed.asking \in [Modes -> TraceAnswers \cup {None}] BY <1>1, FeedTypes
<1>3. /\ feed'.mode = feed.mode /\ feed'.cards = feed.cards /\ feed'.from = feed.from /\ feed'.after = feed.after
      /\ feed'.asking = [feed.asking EXCEPT ![mode] = None] /\ feed' \in Feeds
  <2>1. [feed.asking EXCEPT ![mode] = None] \in [Modes -> TraceAnswers \cup {None}] BY <1>2
  <2> QED BY <1>1, <2>1 DEF Feeds
<1>4. feed'.asking[mode] = None /\ \A m \in Modes \ {mode} : feed'.asking[m] = feed.asking[m] BY <1>2, <1>3
<1>5. StoreOK' BY <1>1 DEF StoreOK
<1>6. \A m \in Modes : Passed(feed.after[m])' BY <1>1, <1>3 DEF Passed
<1>7. \A m \in Modes : TraceAnswerOK(m)'
  <2> SUFFICES ASSUME NEW m \in Modes PROVE TraceAnswerOK(m)' OBVIOUS
  <2>1. TraceAnswerOK(m) BY <1>1
  <2>2. CASE m = mode BY <1>4, <2>2 DEF TraceAnswerOK
  <2>3. CASE m # mode
    <3>1. feed'.asking[m] = feed.asking[m] BY <1>4, <2>3
    <3> QED BY <1>3, <2>1, <3>1 DEF TraceAnswerOK, Passed
  <2> QED BY <2>2, <2>3
<1>8. CardsOK(feed.mode, feed.cards, feed.from, feed.after[feed.mode])' BY <1>1, <1>3 DEF CardsOK, Pushed
<1> QED BY <1>3, <1>5, <1>6, <1>7, <1>8 DEF FeedInv

LEMMA AnsweredIsShown ==
    ASSUME FeedInv, NEW mode \in Modes, Answered(mode)
    PROVE  FeedInv'
<1> DEFINE answer == feed.asking[mode]
           cards == CardsShown(mode, feed.cards \o answer.events)
           after == [feed.after EXCEPT ![mode] = answer.next]
<1>1. /\ StoreOK /\ feed \in Feeds
      /\ \A m \in Modes : Passed(feed.after[m]) /\ TraceAnswerOK(m)
      /\ CardsOK(feed.mode, feed.cards, feed.from, feed.after[feed.mode])
    BY DEF FeedInv
<1>2. answer # None /\ UNCHANGED <<stored, trace>> BY DEF Answered
<1>3. CASE answer.stale
  <2>1. feed' = [feed EXCEPT !.asking = [feed.asking EXCEPT ![mode] = None]]
      BY <1>3 DEF Answered, IsCurrent
  <2> QED BY <1>2, <2>1, UnansweredIsOver
<1>4. CASE ~answer.stale
  <2>1. /\ mode = feed.mode /\ Passed(answer.next)
        /\ feed.after[mode] <= answer.next
        /\ Rising(answer.events) /\ Between(answer.events, feed.after[mode], answer.next)
        /\ \A e \in stored : feed.after[mode] < e.seq /\ e.seq <= answer.next => Lists(answer.events, e)
        /\ ~answer.hasMore => answer.rest = {}
      BY <1>1, <1>2, <1>4 DEF TraceAnswerOK
  <2>2. /\ feed.cards \in Seq(Events) /\ feed.from \in Nat /\ feed.missed = {}
        /\ feed.after \in [Modes -> Nat] /\ feed.after[mode] \in Nat
        /\ feed.asking \in [Modes -> TraceAnswers \cup {None}]
      BY <1>1, FeedTypes
  <2>3. answer \in TraceAnswers BY <1>1, <1>2, FeedTypes
  <2>4. answer.events \in Seq(Events) /\ answer.next \in Nat BY <2>3 DEF TraceAnswers
  <2>5. answer.next = 0 => feed.after[mode] = answer.next BY <2>1, <2>2, <2>4
  <2>6. [feed.after EXCEPT ![mode] = IF answer.next = 0 THEN @ ELSE answer.next] = after
    <3>1. (IF answer.next = 0 THEN feed.after[mode] ELSE answer.next) = answer.next BY <2>5
    <3> QED BY <3>1
  <2>7. (IF answer.hasMore THEN feed.missed ELSE answer.rest) = {} BY <2>1, <2>2
  <2>8. feed' = [feed EXCEPT !.asking = [feed.asking EXCEPT ![mode] = None], !.cards = cards,
                             !.after = [feed.after EXCEPT ![mode] = IF answer.next = 0 THEN @ ELSE answer.next],
                             !.missed = IF answer.hasMore THEN feed.missed ELSE answer.rest]
      BY <1>4 DEF Answered, IsCurrent
  <2>9. feed' = [feed EXCEPT !.asking = [feed.asking EXCEPT ![mode] = None], !.cards = cards,
                             !.after = after, !.missed = {}]
      BY <2>6, <2>7, <2>8
  <2>10. CardsOK(mode, feed.cards, feed.from, feed.after[mode]) BY <1>1, <2>1
  <2>11. stored \in SUBSET Events BY <1>1 DEF StoreOK
  <2>12. CardsOK(mode, cards, feed.from, answer.next)
    <3> DEFINE was == feed.cards
               more == answer.events
               from == feed.from
               low == feed.after[mode]
               high == answer.next
    <3>1. /\ was \in Seq(Events) /\ more \in Seq(Events) /\ from \in Nat /\ low \in Nat /\ high \in Nat
          /\ CardsOK(mode, was, from, low) /\ low <= high /\ stored \in SUBSET Events
          /\ Rising(more) /\ Between(more, low, high)
          /\ \A e \in stored : low < e.seq /\ e.seq <= high => Lists(more, e)
        BY <2>1, <2>2, <2>4, <2>10, <2>11
    <3> HIDE DEF was, more, from, low, high
    <3>2. CardsOK(mode, CardsShown(mode, was \o more), from, high) BY ONLY <3>1, CardsGrow, mode \in Modes
    <3> QED BY <3>2 DEF was, more, from, high
  <2>13. cards \in Seq(Events)
    <3>1. feed.cards \o answer.events \in Seq(Events) BY <2>2, <2>4
    <3> QED BY <3>1, ShownIsEnd
  <2>14. after \in [Modes -> Nat] /\ after[mode] = answer.next
         /\ \A m \in Modes \ {mode} : after[m] = feed.after[m]
      BY <2>2, <2>4
  <2> HIDE DEF cards, after
  <2>15. /\ feed'.mode = feed.mode /\ feed'.cards = cards /\ feed'.from = feed.from /\ feed'.after = after
         /\ feed'.asking = [feed.asking EXCEPT ![mode] = None] /\ feed' \in Feeds
    <3>1. [feed.asking EXCEPT ![mode] = None] \in [Modes -> TraceAnswers \cup {None}] BY <2>2
    <3> QED BY <1>1, <2>9, <2>13, <2>14, <3>1 DEF Feeds
  <2>16. feed'.asking[mode] = None /\ \A m \in Modes \ {mode} : feed'.asking[m] = feed.asking[m]
      BY <2>2, <2>15
  <2>17. StoreOK' BY <1>1, <1>2 DEF StoreOK
  <2>18. \A m \in Modes : Passed(feed.after[m])'
    <3> SUFFICES ASSUME NEW m \in Modes PROVE Passed(feed.after[m])' OBVIOUS
    <3>1. CASE m = mode BY <1>2, <2>1, <2>14, <2>15, <3>1 DEF Passed
    <3>2. CASE m # mode BY <1>1, <1>2, <2>14, <2>15, <3>2 DEF Passed
    <3> QED BY <3>1, <3>2
  <2>19. \A m \in Modes : TraceAnswerOK(m)'
    <3> SUFFICES ASSUME NEW m \in Modes PROVE TraceAnswerOK(m)' OBVIOUS
    <3>1. CASE m = mode BY <2>16, <3>1 DEF TraceAnswerOK
    <3>2. CASE m # mode
      <4>1. TraceAnswerOK(m) BY <1>1
      <4>2. ~(feed.asking[m] # None /\ ~feed.asking[m].stale) BY <2>1, <3>2, <4>1 DEF TraceAnswerOK
      <4>3. feed'.asking[m] = feed.asking[m] BY <2>16, <3>2
      <4> QED BY <4>2, <4>3 DEF TraceAnswerOK
    <3> QED BY <3>1, <3>2
  <2>20. CardsOK(feed.mode, feed.cards, feed.from, feed.after[feed.mode])'
      BY <1>2, <2>1, <2>12, <2>14, <2>15 DEF CardsOK, Pushed
  <2> QED BY <2>15, <2>17, <2>18, <2>19, <2>20 DEF FeedInv
<1>5. answer.stale \in BOOLEAN
  <2>1. answer \in TraceAnswers BY <1>1, <1>2, FeedTypes
  <2> QED BY <2>1 DEF TraceAnswers
<1> QED BY <1>3, <1>4, <1>5

\* The view begins anew, where nothing has been shown yet.
LEMMA BegunIsEmpty ==
    ASSUME FeedInv, UNCHANGED <<stored, trace>>, NEW view \in Feeds, view.asking = feed.asking,
           NEW after \in [Modes -> Nat], \A m \in Modes : Passed(after[m]),
           NEW from \in Nat, from = after[view.mode], feed' = Begun(view, after, from)
    PROVE  FeedInv'
<1>1. StoreOK /\ feed \in Feeds BY DEF FeedInv
<1>2. feed.asking \in [Modes -> TraceAnswers \cup {None}] BY <1>1, FeedTypes
<1> DEFINE asking == [m \in Modes |-> Stale(feed.asking[m])]
<1>3. ASSUME NEW m \in Modes
      PROVE  /\ asking[m] \in TraceAnswers \cup {None}
             /\ asking[m] # None => asking[m].stale
  <2>0. asking[m] = Stale(feed.asking[m]) OBVIOUS
  <2>1. CASE feed.asking[m] = None BY <2>0, <2>1 DEF Stale
  <2>2. CASE feed.asking[m] # None
    <3>1. feed.asking[m] \in TraceAnswers BY <1>2, <2>2
    <3>2. asking[m] = [feed.asking[m] EXCEPT !.stale = TRUE] BY <2>0, <2>2 DEF Stale
    <3>3. asking[m] \in TraceAnswers /\ asking[m].stale = TRUE BY <3>1, <3>2 DEF TraceAnswers
    <3> QED BY <3>3
  <2> QED BY <2>1, <2>2
<1>4. asking \in [Modes -> TraceAnswers \cup {None}] BY <1>3
<1>5. feed' = [view EXCEPT !.asking = [m \in Modes |-> Stale(view.asking[m])], !.cards = <<>>,
                           !.missed = {}, !.after = after, !.from = from]
    BY DEF Begun
<1>6. feed' = [view EXCEPT !.asking = asking, !.cards = <<>>, !.missed = {}, !.after = after, !.from = from]
    BY <1>5
<1> HIDE DEF asking
<1>7. /\ feed'.mode = view.mode /\ feed'.cards = <<>> /\ feed'.from = from /\ feed'.after = after
      /\ feed'.asking = asking /\ feed' \in Feeds
  <2>1. <<>> \in Seq(Events) OBVIOUS
  <2> QED BY <1>4, <1>6, <2>1 DEF Feeds
<1>8. StoreOK' BY <1>1 DEF StoreOK
<1>9. \A m \in Modes : Passed(feed.after[m])' BY <1>7 DEF Passed
<1>10. \A m \in Modes : TraceAnswerOK(m)' BY <1>3, <1>7 DEF TraceAnswerOK
<1>11. CardsOK(feed.mode, feed.cards, feed.from, feed.after[feed.mode])'
  <2>1. \A e \in stored : e.seq \in Nat
    <3>1. stored \in SUBSET Events BY <1>1 DEF StoreOK
    <3> QED BY <3>1, EventOrder
  <2>2. Rising(<<>>) /\ Between(<<>>, from, from) BY DEF Rising, Between
  <2>3. \A e \in stored : ~(from < e.seq /\ e.seq <= from) BY <2>1
  <2> QED BY <1>7, <2>2, <2>3 DEF CardsOK
<1> QED BY <1>7, <1>8, <1>9, <1>10, <1>11 DEF FeedInv

LEMMA NothingIsPassed ==
    ASSUME FeedInv
    PROVE  Passed(0) /\ \A m \in Modes : Passed(feed.after[m])
<1>1. StoreOK /\ \A m \in Modes : Passed(feed.after[m]) BY DEF FeedInv
<1>2. trace.seq \in Nat /\ \A p \in trace.pending : 0 < p.seq BY <1>1 DEF StoreOK
<1> QED BY <1>1, <1>2 DEF Passed

LEMMA ReloadBegins ==
    ASSUME FeedInv, TraceRaces = {}, NEW stage, Reload(stage)
    PROVE  FeedInv'
<1> DEFINE view == [feed EXCEPT !.stage = AnyStage]
           after == [feed.after EXCEPT ![feed.mode] = 0]
<1>1. feed \in Feeds BY DEF FeedInv
<1>2. feed.mode \in Modes /\ feed.stage = AnyStage /\ feed.after \in [Modes -> Nat] BY <1>1, FeedTypes
<1>3. stage = AnyStage /\ UNCHANGED <<stored, trace>> BY DEF Reload
<1>4. feed' = Begun(view, after, 0) BY <1>3 DEF Reload
<1>5. view \in Feeds /\ view.asking = feed.asking /\ view.mode = feed.mode BY <1>1 DEF Feeds
<1>6. after \in [Modes -> Nat] /\ after[feed.mode] = 0
      /\ \A m \in Modes : after[m] = 0 \/ after[m] = feed.after[m]
    BY <1>2
<1>7. \A m \in Modes : Passed(after[m]) BY <1>6, NothingIsPassed
<1> HIDE DEF view, after
<1>8. 0 \in Nat /\ 0 = after[view.mode] BY <1>5, <1>6
<1> QED BY <1>3, <1>4, <1>5, <1>6, <1>7, <1>8, BegunIsEmpty

LEMMA ClearBegins ==
    ASSUME FeedInv, Clear
    PROVE  FeedInv'
<1> DEFINE after == [feed.after EXCEPT !["live"] = 0]
           from == IF feed.mode = "live" THEN 0 ELSE feed.after["pages"]
<1>1. feed \in Feeds BY DEF FeedInv
<1>2. feed.mode \in Modes /\ feed.after \in [Modes -> Nat] BY <1>1, FeedTypes
<1>3. UNCHANGED <<stored, trace>> /\ feed' = Begun(feed, after, from) BY DEF Clear
<1>4. after \in [Modes -> Nat] /\ from = after[feed.mode] /\ from \in Nat
      /\ \A m \in Modes : after[m] = 0 \/ after[m] = feed.after[m]
    BY <1>2 DEF Modes
<1>5. \A m \in Modes : Passed(after[m]) BY <1>4, NothingIsPassed
<1> HIDE DEF from, after
<1> QED BY <1>1, <1>3, <1>4, <1>5, BegunIsEmpty

LEMMA SyncBegins ==
    ASSUME FeedInv, SyncMode
    PROVE  FeedInv'
<1>1. feed \in Feeds BY DEF FeedInv
<1>2. feed.mode \in Modes /\ feed.after \in [Modes -> Nat] BY <1>1, FeedTypes
<1>3. UNCHANGED <<stored, trace>> BY DEF SyncMode
<1>4. CASE feed.mode = "live"
  <2> DEFINE view == [feed EXCEPT !.mode = "pages"]
             after == [feed.after EXCEPT !["pages"] = feed.after["live"]]
             from == feed.after["live"]
  <2>1. feed' = Begun(view, after, from) BY <1>4 DEF SyncMode
  <2>2. view \in Feeds /\ view.asking = feed.asking /\ view.mode = "pages" BY <1>1 DEF Feeds, Modes
  <2>3. /\ after \in [Modes -> Nat] /\ from = after["pages"] /\ from \in Nat
        /\ \A m \in Modes : \E n \in Modes : after[m] = feed.after[n]
      BY <1>2 DEF Modes
  <2>4. \A m \in Modes : Passed(after[m]) BY <2>3, NothingIsPassed
  <2> HIDE DEF view, after, from
  <2>5. from = after[view.mode] BY <2>2, <2>3
  <2> QED BY <1>3, <2>1, <2>2, <2>3, <2>4, <2>5, BegunIsEmpty
<1>5. CASE feed.mode # "live"
  <2> DEFINE view == [feed EXCEPT !.mode = "live"]
             after == [feed.after EXCEPT !["live"] = 0]
  <2>1. feed' = Begun(view, after, 0) BY <1>5 DEF SyncMode
  <2>2. view \in Feeds /\ view.asking = feed.asking /\ view.mode = "live" BY <1>1 DEF Feeds, Modes
  <2>3. /\ after \in [Modes -> Nat] /\ 0 = after["live"]
        /\ \A m \in Modes : after[m] = 0 \/ after[m] = feed.after[m]
      BY <1>2 DEF Modes
  <2>4. \A m \in Modes : Passed(after[m]) BY <2>3, NothingIsPassed
  <2> HIDE DEF view, after
  <2>5. 0 \in Nat /\ 0 = after[view.mode] BY <2>2, <2>3
  <2> QED BY <1>3, <2>1, <2>2, <2>3, <2>4, <2>5, BegunIsEmpty
<1> QED BY <1>4, <1>5

\* The cards are every event from where they begin to the cursor, once and in
\* their order, and the window is told that there is no more only when there is
\* no more: for any number of events, any batch, page and limit on the cards,
\* while no meeting is restored after it wrote and the window asks for every
\* stage (TraceWindow::poll, SessionStore::traceHistory).
THEOREM FeedLosesNothing == ASSUME TraceRaces = {} PROVE TraceSpec => []FeedIsComplete
<1>1. TraceInit => FeedInv
  <2> SUFFICES ASSUME TraceInit PROVE FeedInv OBVIOUS
  <2>1. /\ stored = {}
        /\ trace = [seq |-> 0, id |-> 0, pending |-> {}, ended |-> FALSE]
        /\ feed = [mode |-> "live", stage |-> AnyStage, cards |-> <<>>, from |-> 0, missed |-> {},
                   after |-> [m \in Modes |-> 0], asking |-> [m \in Modes |-> None]]
      BY DEF TraceInit
  <2>2. StoreOK BY <2>1, FS_EmptySet DEF StoreOK
  <2>3. /\ feed.mode = "live" /\ feed.cards = <<>> /\ feed.from = 0
        /\ feed.after = [m \in Modes |-> 0] /\ feed.asking = [m \in Modes |-> None]
      BY <2>1
  <2>4. feed \in Feeds
    <3>1. <<>> \in Seq(Events) OBVIOUS
    <3> QED BY <2>1, <3>1 DEF Feeds, Modes
  <2>5. \A m \in Modes : feed.after[m] = 0 /\ feed.asking[m] = None BY <2>3
  <2>6. Passed(0) BY <2>1 DEF Passed
  <2>7. \A m \in Modes : Passed(feed.after[m]) /\ TraceAnswerOK(m) BY <2>5, <2>6 DEF TraceAnswerOK
  <2>8. feed.after[feed.mode] = 0 BY <2>3, <2>5 DEF Modes
  <2>9. CardsOK(feed.mode, feed.cards, feed.from, feed.after[feed.mode])
      BY <2>1, <2>3, <2>8 DEF CardsOK, Rising, Between
  <2> QED BY <2>2, <2>4, <2>7, <2>9 DEF FeedInv
<1>2. ASSUME FeedInv, [TraceNext]_traceVars PROVE FeedInv'
  <2>1. CASE UNCHANGED traceVars
      BY <1>2, <2>1 DEF traceVars, FeedInv, StoreOK, Passed, TraceAnswerOK, CardsOK, Pushed
  <2>2. ASSUME NEW stage \in Stages, NEW flush \in BOOLEAN, DrainTrace(stage, flush) PROVE FeedInv'
      BY <1>2, <2>2, DrainIsNewer
  <2>3. CASE RestartTrace BY <1>2, <2>3, RestartIsEmpty
  <2>4. ASSUME NEW mode \in Modes, Ask(mode) PROVE FeedInv' BY <1>2, <2>4, AskAnswers
  <2>5. ASSUME NEW mode \in Modes, Answered(mode) PROVE FeedInv' BY <1>2, <2>5, AnsweredIsShown
  <2>6. ASSUME NEW mode \in Modes, Unanswered(mode) PROVE FeedInv'
      BY <1>2, <2>6, UnansweredIsOver DEF Unanswered
  <2>7. ASSUME NEW stage \in Stages \cup {AnyStage}, Reload(stage) PROVE FeedInv'
      BY <1>2, <2>7, ReloadBegins
  <2>8. CASE SyncMode BY <1>2, <2>8, SyncBegins
  <2>9. CASE Clear BY <1>2, <2>9, ClearBegins
  <2> QED BY <1>2, <2>1, <2>2, <2>3, <2>4, <2>5, <2>6, <2>7, <2>8, <2>9 DEF TraceNext
<1>3. FeedInv => FeedIsComplete
  <2> SUFFICES ASSUME FeedInv PROVE FeedIsComplete OBVIOUS
  <2>1. feed.stage = AnyStage /\ feed.missed = {} BY FeedTypes DEF FeedInv
  <2>2. CardsOK(feed.mode, feed.cards, feed.from, feed.after[feed.mode]) BY DEF FeedInv
  <2>3. \A i, j \in DOMAIN feed.cards : i < j => feed.cards[i].seq < feed.cards[j].seq
      BY <2>2 DEF CardsOK, Rising
  <2>4. OfStage(stored, feed.stage) = stored BY <2>1, AnyIsAll
  <2> QED BY <2>1, <2>2, <2>3, <2>4 DEF FeedIsComplete, CardsOK, Lists, Pushed
<1> QED BY <1>1, <1>2, <1>3, PTL DEF TraceSpec

\* No cursor loses anything, for every set of meetings and every limit of a
\* page, under the hypothesis of FeedLosesNothing: the walk and the window share
\* no state (SessionStore::listSessions, SessionStore::traceHistory).
THEOREM CursorsAreComplete == ASSUME TraceRaces = {} PROVE ReadersSpec => []CursorsLoseNothing
<1>1. WalkIsComplete /\ FeedIsComplete => CursorsLoseNothing BY DEF CursorsLoseNothing
<1>2. ReadersSpec => ListSpec /\ TraceSpec BY DEF ReadersSpec
<1>3. ListSpec => []WalkIsComplete BY WalkLosesNothing
<1>4. TraceSpec => []FeedIsComplete BY FeedLosesNothing
<1> QED BY <1>1, <1>2, <1>3, <1>4, PTL

-----------------------------------------------------------------------------
(* The review panel.                                                       *)

ReviewRows == [words : SUBSET Nat, text : Nat]
Views == UNION {[I -> ReviewRows] : I \in SUBSET Nat}
Meetings == [rows : Seq(ReviewRows), seen : Nat, final : BOOLEAN, rev : Nat]
Answers == [final : BOOLEAN, seen : Nat, rev : Nat, rows : Views]
Requests == [session : Sessions, cursor : Nat, covered : Nat, index : Nat, answer : Answers]
Panels == [session : Sessions \cup {NoSession}, loading : BOOLEAN, request : Requests \cup {NoRequest},
           rows : Views, known : Nat, info : {"none", "loading", "shown", "error"},
           final : BOOLEAN, timer : BOOLEAN, boundary : Nat, rev : Nat]

\* What is drawn is of the meeting, and has its words below a place.
Parts(view, m) ==
    \A i \in DOMAIN view :
        i \in DOMAIN m.rows /\ view[i].words \subseteq m.rows[i].words /\ view[i].text = m.rows[i].text
Has(view, m, n) ==
    \A i \in DOMAIN m.rows : \A t \in m.rows[i].words :
        t < n => i \in DOMAIN view /\ t \in view[i].words
Once(view, n) ==
    \A t \in 0..(n - 1) : \E i \in DOMAIN view :
        t \in view[i].words /\ \A j \in DOMAIN view : t \in view[j].words => j = i
Counted(m) ==
    /\ m.seen <= Length
    /\ \A i \in DOMAIN m.rows : m.rows[i].words \subseteq 0..(m.seen - 1)
    /\ Once(m.rows, m.seen)
AskedOK(r, m) ==
    /\ r.index < MaxWindows /\ r.index * Window <= r.cursor
    /\ r.cursor <= r.answer.seen /\ r.covered <= r.answer.seen
    /\ r.answer.seen <= m.seen /\ r.answer.rev <= m.rev
AnswerOK(r, m) ==
    /\ Parts(r.answer.rows, m)
    /\ \A i \in DOMAIN m.rows : \A t \in m.rows[i].words :
         t < r.answer.seen /\ Within(t, r.cursor) =>
           i \in DOMAIN r.answer.rows /\ t \in r.answer.rows[i].words
    /\ \A i \in DOMAIN r.answer.rows : \A t \in m.rows[i].words : t + 1 >= r.cursor
LoadOK(p, m) ==
    /\ p.request \in Requests
    /\ p.request.session = p.session /\ p.info \in {"loading", "shown"}
    /\ p.known <= p.request.answer.seen
    /\ AskedOK(p.request, m) /\ AnswerOK(p.request, m)
    /\ Parts(p.rows, m) /\ Has(p.rows, m, p.request.cursor)
RunningOK(p, m) ==
    /\ Parts(p.rows, m) /\ Has(p.rows, m, p.boundary)
    /\ p.known <= p.boundary /\ p.boundary <= m.seen
OverOK(p, m) ==
    /\ Once(p.rows, p.known) /\ p.known <= m.seen /\ p.rev <= m.rev
    /\ p.rev = m.rev => Parts(p.rows, m)
ShownOK(p, m) == IF p.final THEN OverOK(p, m) ELSE RunningOK(p, m)
LoadingInv == panel.loading => panel.session \in Sessions /\ LoadOK(panel, meeting[panel.session])
ShownInv ==
    panel.info = "shown" /\ ~panel.loading =>
        panel.session \in Sessions /\ ShownOK(panel, meeting[panel.session])
MeetingsInv == meeting \in [Sessions -> Meetings] /\ \A s \in Sessions : Counted(meeting[s])
PanelTypeOK == panel \in Panels /\ (panel.info = "loading" => panel.loading)
ReviewInv == MeetingsInv /\ PanelTypeOK /\ LoadingInv /\ ShownInv

\* A transcript that only went on.
Continues(m, n) ==
    /\ m.seen <= n.seen /\ m.rev <= n.rev
    /\ \A i \in DOMAIN m.rows :
         i \in DOMAIN n.rows /\ m.rows[i].words \subseteq n.rows[i].words /\ m.rows[i].text = n.rows[i].text
    /\ \A i \in DOMAIN n.rows : \A t \in n.rows[i].words :
         t < m.seen => i \in DOMAIN m.rows /\ t \in m.rows[i].words

LEMMA RowsOfMeeting ==
    ASSUME NEW m \in Meetings
    PROVE  /\ m.rows \in Seq(ReviewRows) /\ Len(m.rows) \in Nat /\ DOMAIN m.rows = 1..Len(m.rows)
           /\ \A i \in DOMAIN m.rows : m.rows[i] \in ReviewRows /\ m.rows[i].words \subseteq Nat
                                        /\ m.rows[i].text \in Nat
           /\ m.seen \in Nat /\ m.final \in BOOLEAN /\ m.rev \in Nat
<1>1. m.rows \in Seq(ReviewRows) /\ m.seen \in Nat /\ m.final \in BOOLEAN /\ m.rev \in Nat BY DEF Meetings
<1>2. ASSUME NEW i \in DOMAIN m.rows PROVE m.rows[i] \in ReviewRows BY <1>1
<1>3. \A row \in ReviewRows : row.words \subseteq Nat /\ row.text \in Nat BY DEF ReviewRows
<1>4. Len(m.rows) \in Nat /\ DOMAIN m.rows = 1..Len(m.rows) BY <1>1
<1> QED BY <1>1, <1>2, <1>3, <1>4

LEMMA PartsContinue ==
    ASSUME NEW view, NEW m, NEW n, Continues(m, n), Parts(view, m)
    PROVE  Parts(view, n)
BY DEF Continues, Parts

LEMMA HasContinues ==
    ASSUME NEW view, NEW m, NEW n \in Meetings, NEW k \in Int, m.seen \in Nat, k <= m.seen,
           Continues(m, n), Has(view, m, k)
    PROVE  Has(view, n, k)
<1> SUFFICES ASSUME NEW i \in DOMAIN n.rows, NEW t \in n.rows[i].words, t < k
             PROVE  i \in DOMAIN view /\ t \in view[i].words
    BY DEF Has
<1>1. t \in Nat BY RowsOfMeeting
<1>2. i \in DOMAIN m.rows /\ t \in m.rows[i].words BY <1>1 DEF Continues
<1> QED BY <1>2 DEF Has

LEMMA LoadContinues ==
    ASSUME NEW p \in Panels, NEW m \in Meetings, NEW n \in Meetings, Continues(m, n), LoadOK(p, m)
    PROVE  LoadOK(p, n)
<1> DEFINE r == p.request
<1>0. r \in Requests /\ r.answer \in Answers BY DEF LoadOK, Requests
<1>1. r.cursor \in Nat /\ r.answer.seen \in Nat /\ r.answer.rev \in Nat /\ m.seen \in Nat /\ n.seen \in Nat
      /\ m.rev \in Nat /\ n.rev \in Nat
    BY <1>0 DEF Requests, Answers, Meetings
<1>2. AskedOK(r, m) /\ AnswerOK(r, m) BY DEF LoadOK
<1> HIDE DEF r
<1>3. AskedOK(r, n) BY <1>1, <1>2 DEF AskedOK, Continues
<1>4. AnswerOK(r, n)
  <2>1. Parts(r.answer.rows, n) BY <1>2, PartsContinue DEF AnswerOK
  <2>2. ASSUME NEW i \in DOMAIN n.rows, NEW t \in n.rows[i].words, t < r.answer.seen, Within(t, r.cursor)
        PROVE  i \in DOMAIN r.answer.rows /\ t \in r.answer.rows[i].words
    <3>0. t \in Nat BY RowsOfMeeting
    <3>1. t < m.seen BY <1>1, <1>2, <2>2, <3>0 DEF AskedOK
    <3>2. i \in DOMAIN m.rows /\ t \in m.rows[i].words BY <3>1 DEF Continues
    <3> QED BY <1>2, <2>2, <3>2 DEF AnswerOK
  <2>3. ASSUME NEW i \in DOMAIN r.answer.rows, NEW t \in n.rows[i].words PROVE t + 1 >= r.cursor
    <3>1. i \in DOMAIN m.rows /\ i \in DOMAIN n.rows BY <1>2 DEF AnswerOK, Parts, Continues
    <3>2. t \in Nat BY <3>1, RowsOfMeeting
    <3>3. CASE t < m.seen
      <4>1. t \in m.rows[i].words BY <3>1, <3>3 DEF Continues
      <4> QED BY <1>2, <4>1 DEF AnswerOK
    <3>4. CASE m.seen <= t BY <1>1, <1>2, <3>2, <3>4 DEF AskedOK
    <3> QED BY <1>1, <3>2, <3>3, <3>4
  <2> QED BY <2>1, <2>2, <2>3 DEF AnswerOK
<1>5. Parts(p.rows, n) BY PartsContinue DEF LoadOK
<1>6. r.cursor <= m.seen BY <1>1, <1>2 DEF AskedOK
<1>7. Has(p.rows, n, r.cursor) 
  <2>1. Has(p.rows, m, r.cursor) BY DEF LoadOK, r
  <2> QED BY <1>1, <1>6, <2>1, HasContinues
<1> QED BY <1>3, <1>4, <1>5, <1>7 DEF LoadOK, r

LEMMA ShownContinues ==
    ASSUME NEW p \in Panels, NEW m \in Meetings, NEW n \in Meetings, Continues(m, n), ShownOK(p, m)
    PROVE  ShownOK(p, n)
<1>1. p.known \in Nat /\ p.boundary \in Nat /\ p.rev \in Nat /\ m.seen \in Nat /\ n.seen \in Nat
      /\ m.rev \in Nat /\ n.rev \in Nat
    BY DEF Panels, Meetings
<1>2. CASE p.final
  <2>1. OverOK(p, m) BY <1>2 DEF ShownOK
  <2>2. p.known <= n.seen /\ p.rev <= n.rev BY <1>1, <2>1 DEF OverOK, Continues
  <2>3. p.rev = n.rev => Parts(p.rows, n)
    <3> SUFFICES ASSUME p.rev = n.rev PROVE Parts(p.rows, n) OBVIOUS
    <3>1. p.rev = m.rev BY <1>1, <2>1 DEF OverOK, Continues
    <3> QED BY <2>1, <3>1, PartsContinue DEF OverOK
  <2> QED BY <1>2, <2>1, <2>2, <2>3 DEF ShownOK, OverOK
<1>3. CASE ~p.final
  <2>1. RunningOK(p, m) BY <1>3 DEF ShownOK
  <2>2. Parts(p.rows, n) BY <2>1, PartsContinue DEF RunningOK
  <2>3. Has(p.rows, n, p.boundary) BY <1>1, <2>1, HasContinues DEF RunningOK
  <2>4. p.boundary <= n.seen BY <1>1, <2>1 DEF RunningOK, Continues
  <2> QED BY <1>3, <2>1, <2>2, <2>3, <2>4 DEF ShownOK, RunningOK
<1> QED BY <1>2, <1>3

\* A word goes to one row, the last or a new one.
Gets(old, new, k, t) ==
    /\ new \in Seq(ReviewRows) /\ DOMAIN new = DOMAIN old \cup {k}
    /\ \A i \in DOMAIN old : new[i].text = old[i].text /\ (i # k => new[i].words = old[i].words)
    /\ k \in DOMAIN old => new[k].words = old[k].words \cup {t}
    /\ k \notin DOMAIN old => new[k].words = {t}

LEMMA LongerByOne ==
    ASSUME NEW old \in Seq(ReviewRows), NEW t \in Nat, NEW new \in Longer(old, t)
    PROVE  \E k \in Nat : Gets(old, new, k, t)
<1>0. Len(old) \in Nat /\ DOMAIN old = 1..Len(old) OBVIOUS
<1>1. CASE new = Append(old, Row(t))
  <2>1. Row(t) \in ReviewRows /\ Row(t).words = {t} BY DEF Row, ReviewRows
  <2>2. new \in Seq(ReviewRows) /\ Len(new) = Len(old) + 1 BY <1>1, <2>1
  <2>3. DOMAIN new = DOMAIN old \cup {Len(old) + 1} BY <1>0, <2>2
  <2>4. \A i \in DOMAIN old : new[i] = old[i] BY <1>0, <1>1
  <2>5. new[Len(old) + 1] = Row(t) BY <1>0, <1>1
  <2>6. Len(old) + 1 \notin DOMAIN old BY <1>0
  <2>7. Gets(old, new, Len(old) + 1, t) BY <2>1, <2>2, <2>3, <2>4, <2>5, <2>6 DEF Gets
  <2> QED BY <1>0, <2>7
<1>2. CASE 1 \in DOMAIN old /\ new = [old EXCEPT ![Len(old)] = [words |-> @.words \cup {t}, text |-> @.text]]
  <2> DEFINE row == [words |-> old[Len(old)].words \cup {t}, text |-> old[Len(old)].text]
  <2>1. Len(old) \in DOMAIN old BY <1>0, <1>2
  <2>2. old[Len(old)] \in ReviewRows BY <2>1
  <2>3. row \in ReviewRows BY <2>2 DEF ReviewRows
  <2>4. row.words = old[Len(old)].words \cup {t} /\ row.text = old[Len(old)].text OBVIOUS
  <2>5. new = [old EXCEPT ![Len(old)] = row] BY <1>2
  <2> HIDE DEF row
  <2>6. new \in Seq(ReviewRows) /\ DOMAIN new = DOMAIN old
    <3>1. old \in [1..Len(old) -> ReviewRows] BY <1>0
    <3>2. new \in [1..Len(old) -> ReviewRows] BY <1>0, <2>1, <2>3, <2>5, <3>1
    <3>3. new \in Seq(ReviewRows) BY <1>0, <3>2
    <3> QED BY <1>0, <3>2, <3>3
  <2>7. new[Len(old)] = row /\ \A i \in DOMAIN old : i # Len(old) => new[i] = old[i] BY <2>1, <2>5
  <2>8. Gets(old, new, Len(old), t) BY <2>1, <2>4, <2>6, <2>7 DEF Gets
  <2> QED BY <1>0, <2>8
<1> QED BY <1>1, <1>2 DEF Longer

LEMMA WordCounts ==
    ASSUME NEW m \in Meetings, Counted(m), m.seen < Length, NEW n \in Meetings,
           NEW k \in Nat, Gets(m.rows, n.rows, k, m.seen), n.seen = m.seen + 1, n.rev = m.rev + 1
    PROVE  Counted(n) /\ Continues(m, n)
<1>0. /\ m.seen \in Nat /\ n.seen \in Nat /\ m.rev \in Nat /\ n.rev \in Nat
      /\ Length \in Nat
    BY ReviewAssumption, RowsOfMeeting
<1> DEFINE t0 == m.seen
<1>1. /\ DOMAIN n.rows = DOMAIN m.rows \cup {k}
      /\ \A i \in DOMAIN m.rows : n.rows[i].text = m.rows[i].text /\ (i # k => n.rows[i].words = m.rows[i].words)
      /\ k \in DOMAIN m.rows => n.rows[k].words = m.rows[k].words \cup {t0}
      /\ k \notin DOMAIN m.rows => n.rows[k].words = {t0}
    BY DEF Gets
<1>2. \A i \in DOMAIN m.rows : m.rows[i].words \subseteq 0..(t0 - 1) BY DEF Counted
<1>3. \A i \in DOMAIN n.rows : \A t \in n.rows[i].words :
         (t = t0 /\ i = k) \/ (t \in 0..(t0 - 1) /\ i \in DOMAIN m.rows /\ t \in m.rows[i].words)
    BY <1>1, <1>2
<1>4. \A i \in DOMAIN m.rows : \A t \in m.rows[i].words : i \in DOMAIN n.rows /\ t \in n.rows[i].words
    BY <1>1
<1>5. t0 \in n.rows[k].words /\ k \in DOMAIN n.rows BY <1>1
<1>6. Continues(m, n)
  <2>1. \A i \in DOMAIN m.rows :
         i \in DOMAIN n.rows /\ m.rows[i].words \subseteq n.rows[i].words /\ m.rows[i].text = n.rows[i].text
    BY <1>1, <1>4
  <2>2. \A i \in DOMAIN n.rows : \A t \in n.rows[i].words :
         t < m.seen => i \in DOMAIN m.rows /\ t \in m.rows[i].words
    BY <1>0, <1>3
  <2> QED BY <1>0, <2>1, <2>2 DEF Continues
<1>7. \A i \in DOMAIN n.rows : n.rows[i].words \subseteq 0..(n.seen - 1) BY <1>0, <1>3
<1>8. Once(n.rows, n.seen)
  <2> SUFFICES ASSUME NEW t \in 0..(n.seen - 1)
               PROVE  \E i \in DOMAIN n.rows :
                         t \in n.rows[i].words /\ \A j \in DOMAIN n.rows : t \in n.rows[j].words => j = i
    BY DEF Once
  <2>1. CASE t = t0
    <3>1. \A j \in DOMAIN n.rows : t \in n.rows[j].words => j = k BY <1>0, <1>3, <2>1
    <3> QED BY <1>5, <2>1, <3>1
  <2>2. CASE t # t0
    <3>1. t \in 0..(t0 - 1) BY <1>0, <2>2
    <3>2. PICK i \in DOMAIN m.rows :
             t \in m.rows[i].words /\ \A j \in DOMAIN m.rows : t \in m.rows[j].words => j = i
        BY <3>1 DEF Counted, Once
    <3>3. \A j \in DOMAIN n.rows : t \in n.rows[j].words => j = i BY <1>3, <2>2, <3>2
    <3> QED BY <1>4, <3>2, <3>3
  <2> QED BY <2>1, <2>2
<1>9. n.seen <= Length BY <1>0
<1> QED BY <1>6, <1>7, <1>8, <1>9 DEF Counted

LEMMA CommittedCounts ==
    ASSUME MeetingsInv, NEW s \in Sessions, NEW over \in BOOLEAN, Committed(s, over)
    PROVE  /\ MeetingsInv' /\ Continues(meeting[s], meeting'[s])
           /\ \A o \in Sessions \ {s} : meeting'[o] = meeting[o]
<1> DEFINE m == meeting[s]
<1>1. m \in Meetings /\ Counted(m) BY DEF MeetingsInv
<1>2. m.seen < Length BY DEF Committed
<1>3. PICK newRows \in Longer(m.rows, m.seen) :
         meeting' = [meeting EXCEPT ![s] = [rows |-> newRows, seen |-> @.seen + 1,
                                            final |-> over, rev |-> @.rev + 1]]
    BY DEF Committed
<1> DEFINE n == [rows |-> newRows, seen |-> m.seen + 1, final |-> over, rev |-> m.rev + 1]
<1>4. meeting' = [meeting EXCEPT ![s] = n] BY <1>3
<1>5. n.rows = newRows /\ n.seen = m.seen + 1 /\ n.rev = m.rev + 1 OBVIOUS
<1>6. m.rows \in Seq(ReviewRows) /\ m.seen \in Nat /\ m.rev \in Nat BY <1>1, RowsOfMeeting
<1> HIDE DEF m
<1>7. PICK k \in Nat : Gets(m.rows, newRows, k, m.seen) BY <1>3, <1>6, LongerByOne
<1>8. n \in Meetings
  <2>1. newRows \in Seq(ReviewRows) BY <1>7 DEF Gets
  <2>2. m.seen + 1 \in Nat /\ m.rev + 1 \in Nat BY <1>6
  <2> QED BY <2>1, <2>2 DEF Meetings
<1> HIDE DEF n
<1>9. Counted(n) /\ Continues(m, n) BY <1>1, <1>2, <1>5, <1>7, <1>8, WordCounts
<1>10. meeting \in [Sessions -> Meetings] /\ \A o \in Sessions : Counted(meeting[o]) BY DEF MeetingsInv
<1>11. meeting' \in [Sessions -> Meetings] BY <1>4, <1>8, <1>10
<1>12. meeting'[s] = n /\ \A o \in Sessions \ {s} : meeting'[o] = meeting[o] BY <1>4, <1>10
<1>13. \A o \in Sessions : Counted(meeting'[o]) BY <1>9, <1>10, <1>12
<1> QED BY <1>9, <1>11, <1>12, <1>13 DEF MeetingsInv, m

LEMMA FinishedCounts ==
    ASSUME MeetingsInv, NEW s \in Sessions,
           meeting' = [meeting EXCEPT ![s] = [rows |-> @.rows, seen |-> @.seen,
                                              final |-> TRUE, rev |-> @.rev]]
    PROVE  /\ MeetingsInv' /\ Continues(meeting[s], meeting'[s])
           /\ \A o \in Sessions \ {s} : meeting'[o] = meeting[o]
<1> DEFINE m == meeting[s]
           n == [rows |-> m.rows, seen |-> m.seen, final |-> TRUE, rev |-> m.rev]
<1>1. m \in Meetings /\ Counted(m) BY DEF MeetingsInv
<1>2. meeting' = [meeting EXCEPT ![s] = n] OBVIOUS
<1>3. n.rows = m.rows /\ n.seen = m.seen /\ n.rev = m.rev OBVIOUS
<1>4. m.rows \in Seq(ReviewRows) /\ m.seen \in Nat /\ m.rev \in Nat BY <1>1, RowsOfMeeting
<1> HIDE DEF m
<1>5. n \in Meetings BY <1>4 DEF Meetings
<1> HIDE DEF n
<1>6. Counted(n) BY <1>1, <1>3 DEF Counted
<1>7. Continues(m, n) BY <1>3, <1>4 DEF Continues
<1>8. meeting \in [Sessions -> Meetings] /\ \A o \in Sessions : Counted(meeting[o]) BY DEF MeetingsInv
<1>9. meeting' \in [Sessions -> Meetings] BY <1>2, <1>5, <1>8
<1>10. meeting'[s] = n /\ \A o \in Sessions \ {s} : meeting'[o] = meeting[o] BY <1>2, <1>8
<1>11. \A o \in Sessions : Counted(meeting'[o]) BY <1>6, <1>8, <1>10
<1> QED BY <1>7, <1>9, <1>10, <1>11 DEF MeetingsInv, m

LEMMA RevisedCounts ==
    ASSUME MeetingsInv, NEW s \in Sessions, NEW newRows \in Seq(ReviewRows),
           meeting' = Revised(s, newRows),
           \A i \in DOMAIN newRows : newRows[i].words \subseteq 0..(meeting[s].seen - 1),
           Once(newRows, meeting[s].seen)
    PROVE  /\ MeetingsInv' /\ meeting'[s].rows = newRows
           /\ meeting'[s].seen = meeting[s].seen /\ meeting'[s].rev = meeting[s].rev + 1
           /\ \A o \in Sessions \ {s} : meeting'[o] = meeting[o]
<1> DEFINE m == meeting[s]
           n == [rows |-> newRows, seen |-> m.seen, final |-> m.final, rev |-> m.rev + 1]
<1>1. m \in Meetings /\ Counted(m) BY DEF MeetingsInv
<1>2. meeting' = [meeting EXCEPT ![s] = n] BY DEF Revised
<1>3. n.rows = newRows /\ n.seen = m.seen /\ n.rev = m.rev + 1 OBVIOUS
<1>4. m.seen \in Nat /\ m.rev \in Nat /\ m.final \in BOOLEAN BY <1>1, RowsOfMeeting
<1>5. Counted(n) BY <1>1, <1>3 DEF Counted
<1> HIDE DEF m
<1>6. n \in Meetings BY <1>4 DEF Meetings
<1> HIDE DEF n
<1>8. meeting \in [Sessions -> Meetings] /\ \A o \in Sessions : Counted(meeting[o]) BY DEF MeetingsInv
<1>9. meeting' \in [Sessions -> Meetings] BY <1>2, <1>6, <1>8
<1>10. meeting'[s] = n /\ \A o \in Sessions \ {s} : meeting'[o] = meeting[o] BY <1>2, <1>8
<1>11. \A o \in Sessions : Counted(meeting'[o]) BY <1>5, <1>8, <1>10
<1> QED BY <1>3, <1>9, <1>10, <1>11 DEF MeetingsInv, m

LEMMA EditedCounts ==
    ASSUME MeetingsInv, NEW s \in Sessions, NEW i \in DOMAIN meeting[s].rows, meeting' = Reworded(s, i)
    PROVE  /\ MeetingsInv'
           /\ meeting'[s].seen = meeting[s].seen /\ meeting'[s].rev = meeting[s].rev + 1
           /\ \A o \in Sessions \ {s} : meeting'[o] = meeting[o]
<1> DEFINE old == meeting[s].rows
           row == [words |-> old[i].words, text |-> old[i].text + 1]
           new == [old EXCEPT ![i] = row]
<1>1. meeting[s] \in Meetings /\ Counted(meeting[s]) BY DEF MeetingsInv
<1>2. old \in Seq(ReviewRows) /\ Len(old) \in Nat /\ DOMAIN old = 1..Len(old) /\ old[i] \in ReviewRows
    BY <1>1, RowsOfMeeting
<1>3. meeting' = Revised(s, new) BY DEF Reworded
<1>4. old[i].words \in SUBSET Nat /\ old[i].text + 1 \in Nat BY <1>2 DEF ReviewRows
<1>5. row \in ReviewRows /\ row.words = old[i].words BY <1>4 DEF ReviewRows
<1>6. \A j \in DOMAIN old : old[j].words \subseteq 0..(meeting[s].seen - 1) BY <1>1 DEF Counted
<1>7. Once(old, meeting[s].seen) BY <1>1 DEF Counted
<1> HIDE DEF old, row
<1>8. old \in [1..Len(old) -> ReviewRows] BY <1>2
<1>9. new \in [1..Len(old) -> ReviewRows] BY <1>5, <1>8
<1>10. new \in Seq(ReviewRows) BY <1>2, <1>9
<1>11. DOMAIN new = DOMAIN old /\ \A j \in DOMAIN old : new[j].words = old[j].words BY <1>2, <1>5
<1> HIDE DEF new
<1>12. \A j \in DOMAIN new : new[j].words \subseteq 0..(meeting[s].seen - 1) BY <1>6, <1>11
<1>13. Once(new, meeting[s].seen) BY <1>7, <1>11 DEF Once
<1> QED BY <1>3, <1>10, <1>12, <1>13, RevisedCounts

LEMMA SplicedCounts ==
    ASSUME MeetingsInv, NEW s \in Sessions, NEW i \in DOMAIN meeting[s].rows,
           i < Len(meeting[s].rows), meeting' = Revised(s, Spliced(meeting[s].rows, i))
    PROVE  /\ MeetingsInv'
           /\ meeting'[s].seen = meeting[s].seen /\ meeting'[s].rev = meeting[s].rev + 1
           /\ \A o \in Sessions \ {s} : meeting'[o] = meeting[o]
<1> DEFINE old == meeting[s].rows
           n == Len(old)
           both == [words |-> old[i].words \cup old[i + 1].words, text |-> old[i].text + old[i + 1].text]
           new == Spliced(old, i)
<1>1. meeting[s] \in Meetings /\ Counted(meeting[s]) BY DEF MeetingsInv
<1>2. n \in Nat /\ DOMAIN old = 1..n /\ \A j \in DOMAIN old : old[j] \in ReviewRows
    BY <1>1, RowsOfMeeting
<1>3. \A j \in DOMAIN old : old[j].words \subseteq 0..(meeting[s].seen - 1) BY <1>1 DEF Counted
<1>4. Once(old, meeting[s].seen) BY <1>1 DEF Counted
<1>5. i \in 1..(n - 1) /\ i + 1 \in DOMAIN old /\ i \in DOMAIN old BY <1>2
<1>6. meeting' = Revised(s, new) OBVIOUS
<1>7. new = [j \in 1..(n - 1) |-> IF j < i THEN old[j] ELSE IF j > i THEN old[j + 1] ELSE both]
    BY DEF Spliced
<1> HIDE DEF old, n, new
<1>8. both \in ReviewRows
  <2>1. old[i].words \in SUBSET Nat /\ old[i + 1].words \in SUBSET Nat
        /\ old[i].text \in Nat /\ old[i + 1].text \in Nat
      BY <1>2, <1>5 DEF ReviewRows
  <2> QED BY <2>1 DEF ReviewRows
<1>9. both.words = old[i].words \cup old[i + 1].words OBVIOUS
<1> HIDE DEF both
<1>10. new \in [1..(n - 1) -> ReviewRows] BY <1>2, <1>7, <1>8
<1>11. new \in Seq(ReviewRows) BY <1>2, <1>5, <1>10
<1>12. DOMAIN new = 1..(n - 1) BY <1>10
<1>13. \A j \in 1..(n - 1) : /\ j < i => new[j].words = old[j].words
                             /\ j > i => new[j].words = old[j + 1].words
                             /\ j = i => new[j].words = old[i].words \cup old[i + 1].words
    BY <1>2, <1>5, <1>7, <1>9
<1>14. \A j \in DOMAIN new : new[j].words \subseteq 0..(meeting[s].seen - 1)
  <2> SUFFICES ASSUME NEW j \in 1..(n - 1) PROVE new[j].words \subseteq 0..(meeting[s].seen - 1) BY <1>12
  <2>1. j \in DOMAIN old /\ j + 1 \in DOMAIN old BY <1>2
  <2>2. j < i \/ j > i \/ j = i BY <1>5
  <2> QED BY <1>3, <1>5, <1>13, <2>1, <2>2
<1>15. Once(new, meeting[s].seen)
  <2> SUFFICES ASSUME NEW t \in 0..(meeting[s].seen - 1)
               PROVE  \E j \in DOMAIN new :
                         t \in new[j].words /\ \A l \in DOMAIN new : t \in new[l].words => l = j
    BY DEF Once
  <2>1. PICK o \in DOMAIN old :
           t \in old[o].words /\ \A l \in DOMAIN old : t \in old[l].words => l = o
      BY <1>4 DEF Once
  <2> DEFINE to == IF o <= i THEN o ELSE o - 1
  <2>2. o \in 1..n /\ to \in 1..(n - 1) BY <1>2, <1>5, <2>1
  <2>3. t \in new[to].words
    <3>1. CASE o < i BY <1>13, <2>1, <2>2, <3>1
    <3>2. CASE o = i BY <1>13, <2>1, <2>2, <3>2
    <3>3. CASE o = i + 1
      <4>1. to = i BY <1>5, <3>3
      <4> QED BY <1>5, <1>13, <2>1, <3>3, <4>1
    <3>4. CASE o > i + 1
      <4>1. to = o - 1 /\ to > i /\ to + 1 = o BY <1>5, <2>2, <3>4
      <4> QED BY <1>13, <2>1, <2>2, <4>1
    <3> QED BY <1>5, <2>2, <3>1, <3>2, <3>3, <3>4
  <2>4. ASSUME NEW l \in DOMAIN new, t \in new[l].words PROVE l = to
    <3>1. l \in 1..(n - 1) /\ l \in DOMAIN old /\ l + 1 \in DOMAIN old BY <1>2, <1>12
    <3>2. CASE l < i
      <4>1. l = o BY <1>13, <2>1, <2>4, <3>1, <3>2
      <4> QED BY <1>5, <3>1, <3>2, <4>1
    <3>3. CASE l > i
      <4>1. l + 1 = o BY <1>13, <2>1, <2>4, <3>1, <3>3
      <4> QED BY <1>5, <3>1, <3>3, <4>1
    <3>4. CASE l = i
      <4>1. t \in old[i].words \/ t \in old[i + 1].words BY <1>13, <2>4, <3>1, <3>4
      <4>2. o = i \/ o = i + 1 BY <1>5, <2>1, <4>1
      <4> QED BY <1>5, <3>4, <4>2
    <3> QED BY <1>5, <3>1, <3>2, <3>3, <3>4
  <2> QED BY <1>12, <2>2, <2>3, <2>4
<1> QED BY <1>6, <1>11, <1>14, <1>15, RevisedCounts

LEMMA IsView ==
    ASSUME NEW I \in SUBSET Nat, NEW view \in [I -> ReviewRows]
    PROVE  view \in Views
BY DEF Views

LEMMA ViewRow ==
    ASSUME NEW view \in Views
    PROVE  /\ DOMAIN view \subseteq Nat /\ view \in [DOMAIN view -> ReviewRows]
           /\ \A i \in DOMAIN view : view[i] \in ReviewRows
<1>1. PICK I \in SUBSET Nat : view \in [I -> ReviewRows] BY DEF Views
<1> QED BY <1>1

LEMMA InsertedIsView ==
    ASSUME NEW old \in Views, NEW new \in Views
    PROVE  InsertRows(old, new) \in Views
<1> DEFINE I == DOMAIN old \cup DOMAIN new
<1>1. I \in SUBSET Nat BY ViewRow
<1>2. \A i \in DOMAIN old : old[i] \in ReviewRows BY ViewRow
<1>3. \A i \in DOMAIN new : new[i] \in ReviewRows BY ViewRow
<1>4. InsertRows(old, new) \in [I -> ReviewRows] BY <1>2, <1>3 DEF InsertRows
<1> HIDE DEF I
<1> QED BY <1>1, <1>4, IsView

LEMMA RowsAreView ==
    ASSUME NEW m \in Meetings
    PROVE  m.rows \in Views
<1>1. m.rows \in Seq(ReviewRows) /\ Len(m.rows) \in Nat BY RowsOfMeeting
<1>2. m.rows \in [1..Len(m.rows) -> ReviewRows] BY <1>1
<1>3. 1..Len(m.rows) \in SUBSET Nat BY <1>1
<1> QED BY <1>2, <1>3, IsView

LEMMA EmptyIsView == <<>> \in Views
<1>1. <<>> \in [{} -> ReviewRows] OBVIOUS
<1>2. {} \in SUBSET Nat OBVIOUS
<1> QED BY <1>1, <1>2, IsView

LEMMA OnceByParts ==
    ASSUME NEW m \in Meetings, Counted(m), NEW view, NEW n \in Nat, n <= m.seen,
           Parts(view, m), Has(view, m, n)
    PROVE  Once(view, n)
<1> SUFFICES ASSUME NEW t \in 0..(n - 1)
             PROVE  \E i \in DOMAIN view :
                       t \in view[i].words /\ \A j \in DOMAIN view : t \in view[j].words => j = i
    BY DEF Once
<1>1. m.seen \in Nat BY RowsOfMeeting
<1>2. t \in 0..(m.seen - 1) /\ t < n BY <1>1
<1>3. PICK i \in DOMAIN m.rows :
         t \in m.rows[i].words /\ \A j \in DOMAIN m.rows : t \in m.rows[j].words => j = i
    BY <1>2 DEF Counted, Once
<1>4. i \in DOMAIN view /\ t \in view[i].words BY <1>2, <1>3 DEF Has
<1>5. \A j \in DOMAIN view : t \in view[j].words => j = i BY <1>3 DEF Parts
<1> QED BY <1>4, <1>5

LEMMA OnceIsOne ==
    ASSUME NEW view, NEW n \in Nat, Once(view, n), NEW t \in 0..(n - 1)
    PROVE  Cardinality({i \in DOMAIN view : t \in view[i].words}) = 1
<1>1. PICK i \in DOMAIN view :
         t \in view[i].words /\ \A j \in DOMAIN view : t \in view[j].words => j = i
    BY DEF Once
<1>2. {j \in DOMAIN view : t \in view[j].words} = {i} BY <1>1
<1>3. Cardinality({i}) = 1 BY FS_Singleton
<1> QED BY <1>2, <1>3

LEMMA SnapshotIsAnswer ==
    ASSUME MeetingsInv, NEW s \in Sessions, NEW c \in Nat
    PROVE  Snapshot(s, c) \in Answers /\ DOMAIN Snapshot(s, c).rows \subseteq DOMAIN meeting[s].rows
<1> DEFINE all == meeting[s].rows
           some == {i \in DOMAIN all : \E t \in all[i].words : Within(t, c)}
           view == [i \in some |-> Clipped(all[i], c)]
<1>1. meeting[s] \in Meetings BY DEF MeetingsInv
<1>2. /\ \A i \in DOMAIN all : all[i] \in ReviewRows
      /\ DOMAIN all = 1..Len(all) /\ Len(all) \in Nat
      /\ meeting[s].seen \in Nat /\ meeting[s].final \in BOOLEAN /\ meeting[s].rev \in Nat
    BY <1>1, RowsOfMeeting
<1>3. \A row \in ReviewRows : Clipped(row, c) \in ReviewRows BY DEF ReviewRows, Clipped
<1>4. some \in SUBSET Nat BY <1>2
<1>5. view \in [some -> ReviewRows] BY <1>2, <1>3
<1> HIDE DEF some
<1>6. view \in Views BY <1>4, <1>5, IsView
<1>7. Snapshot(s, c) = [final |-> meeting[s].final, seen |-> meeting[s].seen, rev |-> meeting[s].rev,
                        rows |-> view]
    BY DEF Snapshot, some
<1>8. DOMAIN view \subseteq DOMAIN all BY DEF some
<1> HIDE DEF view
<1> QED BY <1>2, <1>6, <1>7, <1>8 DEF Answers

\* The windows of a load: what one answer has.
LEMMA RequestIsOK ==
    ASSUME MeetingsInv, NEW s \in Sessions, NEW c \in Nat, NEW covered \in Nat, NEW index \in Nat,
           \A i \in DOMAIN meeting[s].rows : ~Cuts(c, meeting[s].rows[i]),
           c <= meeting[s].seen, covered <= meeting[s].seen,
           index < MaxWindows, index * Window <= c
    PROVE  LET r == Request(s, c, covered, index) IN
           /\ r \in Requests /\ r.session = s /\ r.cursor = c
           /\ r.answer.seen = meeting[s].seen
           /\ AskedOK(r, meeting[s]) /\ AnswerOK(r, meeting[s])
<1> DEFINE all == meeting[s].rows
           some == {i \in DOMAIN all : \E t \in all[i].words : Within(t, c)}
           r == Request(s, c, covered, index)
           a == Snapshot(s, c)
<1>1. meeting[s] \in Meetings BY DEF MeetingsInv
<1>2. /\ \A i \in DOMAIN all : all[i].words \subseteq Nat
      /\ meeting[s].seen \in Nat /\ meeting[s].rev \in Nat
    BY <1>1, RowsOfMeeting
<1>3. a \in Answers BY SnapshotIsAnswer
<1>4. /\ r.session = s /\ r.cursor = c /\ r.covered = covered /\ r.index = index /\ r.answer = a
      /\ r \in Requests
    BY <1>3 DEF Request, Requests
<1>5. a.seen = meeting[s].seen /\ a.rev = meeting[s].rev BY DEF Snapshot
<1>6. DOMAIN a.rows = some /\ \A i \in some : a.rows[i] = Clipped(all[i], c) BY DEF Snapshot
<1>12. \A row : /\ Clipped(row, c).words = {t \in row.words : Within(t, c)}
                /\ Clipped(row, c).text = row.text
    BY DEF Clipped
<1>13. \A i \in some : /\ i \in DOMAIN all /\ a.rows[i].words = {t \in all[i].words : Within(t, c)}
                        /\ a.rows[i].text = all[i].text
  <2> TAKE i \in some
  <2>1. a.rows[i] = Clipped(all[i], c) BY <1>6
  <2>2. i \in DOMAIN all OBVIOUS
  <2> QED BY <1>12, <2>1, <2>2
<1> HIDE DEF r, a
<1>7. AskedOK(r, meeting[s]) BY <1>2, <1>4, <1>5 DEF AskedOK
<1>8. Parts(r.answer.rows, meeting[s])
  <2> SUFFICES ASSUME NEW i \in some
               PROVE  i \in DOMAIN all /\ a.rows[i].words \subseteq all[i].words /\ a.rows[i].text = all[i].text
      BY <1>4, <1>6 DEF Parts
  <2>1. a.rows[i].words = {t \in all[i].words : Within(t, c)} BY <1>13
  <2> QED BY <1>13, <2>1
<1>9. ASSUME NEW i \in DOMAIN all, NEW t \in all[i].words, Within(t, c)
      PROVE  i \in DOMAIN a.rows /\ t \in a.rows[i].words
  <2>1. i \in some BY <1>9
  <2>2. a.rows[i].words = {u \in all[i].words : Within(u, c)} BY <1>13, <2>1
  <2> QED BY <1>6, <1>9, <2>1, <2>2
<1>10. ASSUME NEW i \in DOMAIN a.rows, NEW t \in all[i].words PROVE t + 1 >= c
  <2>1. i \in DOMAIN all /\ \E u \in all[i].words : u + 1 >= c BY <1>6 DEF Within
  <2>2. ~(t + 1 < c) BY <2>1 DEF Cuts
  <2>3. t \in Nat BY <1>2, <2>1
  <2> QED BY <2>2, <2>3
<1>11. AnswerOK(r, meeting[s]) BY <1>4, <1>5, <1>8, <1>9, <1>10 DEF AnswerOK
<1> HIDE DEF all, some
<1> QED BY <1>4, <1>5, <1>7, <1>11 DEF r

\* The answer takes its place among the rows.
LEMMA InsertedHas ==
    ASSUME NEW p \in Panels, NEW m \in Meetings, LoadOK(p, m)
    PROVE  LET view == InsertRows(p.rows, p.request.answer.rows) IN
           /\ Parts(view, m)
           /\ \A n \in Nat : n <= p.request.answer.seen /\ n <= p.request.cursor + Window + 1
                => Has(view, m, n)
<1> DEFINE r == p.request
           new == r.answer.rows
           old == p.rows
           view == InsertRows(old, new)
<1>1. r \in Requests /\ AnswerOK(r, m) /\ Parts(old, m) /\ Has(old, m, r.cursor) BY DEF LoadOK
<1>2. r.cursor \in Nat /\ r.answer.seen \in Nat BY <1>1 DEF Requests, Answers
<1>3. r.cursor <= r.answer.seen BY DEF LoadOK, AskedOK
<1> HIDE DEF r
<1>4. /\ DOMAIN view = DOMAIN old \cup DOMAIN new
      /\ \A i \in DOMAIN new : view[i] = new[i]
      /\ \A i \in DOMAIN old : i \notin DOMAIN new => view[i] = old[i]
    BY DEF InsertRows
<1>5. Parts(new, m) BY <1>1 DEF AnswerOK
<1> HIDE DEF view, old
<1>6. Parts(view, m)
  <2> SUFFICES ASSUME NEW i \in DOMAIN view
               PROVE  i \in DOMAIN m.rows /\ view[i].words \subseteq m.rows[i].words
                      /\ view[i].text = m.rows[i].text
      BY DEF Parts
  <2>1. CASE i \in DOMAIN new BY <1>4, <1>5, <2>1 DEF Parts
  <2>2. CASE i \notin DOMAIN new
    <3>1. i \in DOMAIN old /\ view[i] = old[i] BY <1>4, <2>2
    <3> QED BY <1>1, <3>1 DEF Parts
  <2> QED BY <2>1, <2>2
<1>7. ASSUME NEW n \in Nat, n <= r.answer.seen, n <= r.cursor + Window + 1 PROVE Has(view, m, n)
  <2> SUFFICES ASSUME NEW i \in DOMAIN m.rows, NEW t \in m.rows[i].words, t < n
               PROVE  i \in DOMAIN view /\ t \in view[i].words
      BY DEF Has
  <2>0. t \in Nat /\ Window \in Nat BY RowsOfMeeting, ReviewAssumption
  <2>1. CASE i \in DOMAIN new
    <3>1. t + 1 >= r.cursor BY <1>1, <2>1 DEF AnswerOK
    <3>2. Within(t, r.cursor) /\ t < r.answer.seen BY <1>2, <1>7, <2>0, <3>1 DEF Within
    <3>3. t \in new[i].words BY <1>1, <3>2 DEF AnswerOK
    <3> QED BY <1>4, <2>1, <3>3
  <2>2. CASE i \notin DOMAIN new
    <3>1. ~Within(t, r.cursor) \/ ~(t < r.answer.seen) BY <1>1, <2>2 DEF AnswerOK
    <3>2. t < r.cursor BY <1>2, <1>7, <2>0, <3>1 DEF Within
    <3>3. i \in DOMAIN old /\ t \in old[i].words BY <1>1, <3>2 DEF Has
    <3> QED BY <1>4, <2>2, <3>3
  <2> QED BY <2>1, <2>2
<1> QED BY <1>6, <1>7 DEF view, old, r

LEMMA LoadBegins ==
    ASSUME MeetingsInv, NEW p \in Panels, ~p.loading, NEW c \in Nat,
           p.session \in Sessions, p.info \in {"loading", "shown"}, c <= meeting[p.session].seen,
           \A i \in DOMAIN meeting[p.session].rows : ~Cuts(c, meeting[p.session].rows[i]),
           Parts(p.rows, meeting[p.session]), Has(p.rows, meeting[p.session], c)
    PROVE  LET q == Load(p, p.session, c) IN
           q \in Panels /\ q.loading /\ q.session = p.session /\ LoadOK(q, meeting[p.session])
<1> DEFINE s == p.session
           m == meeting[s]
           r == Request(s, c, 0, 0)
           q == Load(p, s, c)
<1>1. m \in Meetings BY DEF MeetingsInv
<1>2. m.seen \in Nat BY <1>1, RowsOfMeeting
<1>3. 0 < MaxWindows /\ Window \in Nat /\ 0 * Window <= c BY ReviewAssumption
<1>4. /\ r \in Requests /\ r.session = s /\ r.cursor = c /\ r.answer.seen = m.seen
      /\ AskedOK(r, m) /\ AnswerOK(r, m)
  <2>1. 0 <= m.seen /\ 0 \in Nat BY <1>2
  <2> HIDE DEF r
  <2> QED BY <1>3, <2>1, RequestIsOK DEF r
<1> HIDE DEF r
<1>5. q = [p EXCEPT !.loading = TRUE, !.request = r, !.known = m.seen] BY DEF Load, r
<1>6. /\ q \in Panels /\ q.loading /\ q.session = p.session /\ q.request = r /\ q.known = m.seen
      /\ q.rows = p.rows /\ q.info = p.info
    BY <1>2, <1>4, <1>5 DEF Panels
<1> HIDE DEF q
<1>7. q.known <= r.answer.seen BY <1>2, <1>4, <1>6
<1>8. LoadOK(q, m) BY <1>4, <1>6, <1>7 DEF LoadOK
<1> QED BY <1>6, <1>8 DEF q

LEMMA OpenLoads ==
    ASSUME ReviewInv, ~panel.loading, NEW s \in Sessions, meeting' = meeting,
           panel' = Load(Cleared(panel, s), s, 0)
    PROVE  ReviewInv'
<1> DEFINE p == Cleared(panel, s)
<1>1. panel \in Panels /\ MeetingsInv BY DEF ReviewInv, PanelTypeOK
<1>2. /\ p \in Panels /\ p.session = s /\ p.rows = <<>> /\ p.info = "loading" /\ p.loading = panel.loading
    BY <1>1, EmptyIsView DEF Cleared, Panels
<1> HIDE DEF p
<1>3. meeting[s] \in Meetings BY <1>1 DEF MeetingsInv
<1>4. /\ \A i \in DOMAIN meeting[s].rows : meeting[s].rows[i].words \subseteq Nat
      /\ meeting[s].seen \in Nat
    BY <1>3, RowsOfMeeting
<1>5. \A i \in DOMAIN meeting[s].rows : ~Cuts(0, meeting[s].rows[i])
  <2> SUFFICES ASSUME NEW i \in DOMAIN meeting[s].rows, NEW t \in meeting[s].rows[i].words, t + 1 < 0
               PROVE  FALSE
      BY DEF Cuts
  <2>1. t \in Nat BY <1>4
  <2> QED BY <2>1
<1>6. Parts(p.rows, meeting[s]) BY <1>2 DEF Parts
<1>7. Has(p.rows, meeting[s], 0)
  <2> SUFFICES ASSUME NEW i \in DOMAIN meeting[s].rows, NEW t \in meeting[s].rows[i].words, t < 0
               PROVE  FALSE
      BY DEF Has
  <2>1. t \in Nat BY <1>4
  <2> QED BY <2>1
<1>8. ~p.loading /\ p.session \in Sessions /\ p.info \in {"loading", "shown"} BY <1>2
<1>9. 0 \in Nat /\ 0 <= meeting[s].seen BY <1>4
<1> DEFINE q == Load(p, s, 0)
<1>10. q \in Panels /\ q.loading /\ q.session = s /\ LoadOK(q, meeting[s])
  <2> HIDE DEF q
  <2>1. \A d \in Nat : d <= meeting[p.session].seen /\ Has(p.rows, meeting[p.session], d)
            /\ (\A i \in DOMAIN meeting[p.session].rows : ~Cuts(d, meeting[p.session].rows[i]))
          => LET z == Load(p, p.session, d) IN
             z \in Panels /\ z.loading /\ z.session = p.session /\ LoadOK(z, meeting[p.session])
      BY <1>1, <1>2, <1>6, <1>8, LoadBegins
  <2> QED BY <1>2, <1>5, <1>7, <1>9, <2>1 DEF q
<1>11. panel' = q BY DEF p
<1> HIDE DEF q
<1>12. MeetingsInv' BY <1>1 DEF MeetingsInv
<1>13. PanelTypeOK' BY <1>10, <1>11 DEF PanelTypeOK
<1>14. LoadingInv' BY <1>10, <1>11 DEF LoadingInv
<1>15. ShownInv' BY <1>10, <1>11 DEF ShownInv
<1> QED BY <1>12, <1>13, <1>14, <1>15 DEF ReviewInv

LEMMA OnlyContinues ==
    ASSUME ReviewInv, MeetingsInv', panel' = panel, NEW s \in Sessions,
           Continues(meeting[s], meeting'[s]), \A o \in Sessions \ {s} : meeting'[o] = meeting[o]
    PROVE  ReviewInv'
<1>1. panel \in Panels /\ PanelTypeOK' BY DEF ReviewInv, PanelTypeOK
<1>2. \A o \in Sessions : meeting[o] \in Meetings /\ meeting'[o] \in Meetings BY DEF ReviewInv, MeetingsInv
<1>3. LoadingInv'
  <2> SUFFICES ASSUME panel.loading
               PROVE  panel.session \in Sessions /\ LoadOK(panel, meeting'[panel.session])
      BY DEF LoadingInv
  <2>1. panel.session \in Sessions /\ LoadOK(panel, meeting[panel.session]) BY DEF ReviewInv, LoadingInv
  <2>2. CASE panel.session = s BY <1>1, <1>2, <2>1, <2>2, LoadContinues
  <2>3. CASE panel.session # s BY <2>1, <2>3
  <2> QED BY <2>1, <2>2, <2>3
<1>4. ShownInv'
  <2> SUFFICES ASSUME panel.info = "shown", ~panel.loading
               PROVE  panel.session \in Sessions /\ ShownOK(panel, meeting'[panel.session])
      BY DEF ShownInv
  <2>1. panel.session \in Sessions /\ ShownOK(panel, meeting[panel.session]) BY DEF ReviewInv, ShownInv
  <2>2. CASE panel.session = s BY <1>1, <1>2, <2>1, <2>2, ShownContinues
  <2>3. CASE panel.session # s BY <2>1, <2>3
  <2> QED BY <2>1, <2>2, <2>3
<1> QED BY <1>1, <1>3, <1>4 DEF ReviewInv

LEMMA OnlyRevised ==
    ASSUME ReviewInv, MeetingsInv', panel' = panel, NEW s \in Sessions, ReviewRaces = {}, Unread(s),
           meeting'[s].seen = meeting[s].seen, meeting'[s].rev = meeting[s].rev + 1,
           \A o \in Sessions \ {s} : meeting'[o] = meeting[o]
    PROVE  ReviewInv'
<1>1. panel \in Panels /\ PanelTypeOK' BY DEF ReviewInv, PanelTypeOK
<1>2. meeting[s] \in Meetings BY DEF ReviewInv, MeetingsInv
<1>3. meeting[s].seen \in Nat /\ meeting[s].rev \in Nat BY <1>2, RowsOfMeeting
<1>4. panel.session = s => panel.final /\ ~panel.loading BY DEF Unread
<1>5. LoadingInv'
  <2> SUFFICES ASSUME panel.loading
               PROVE  panel.session \in Sessions /\ LoadOK(panel, meeting'[panel.session])
      BY DEF LoadingInv
  <2>1. panel.session \in Sessions /\ LoadOK(panel, meeting[panel.session]) BY DEF ReviewInv, LoadingInv
  <2> QED BY <1>4, <2>1
<1>6. ShownInv'
  <2> SUFFICES ASSUME panel.info = "shown", ~panel.loading
               PROVE  panel.session \in Sessions /\ ShownOK(panel, meeting'[panel.session])
      BY DEF ShownInv
  <2>1. panel.session \in Sessions /\ ShownOK(panel, meeting[panel.session]) BY DEF ReviewInv, ShownInv
  <2>2. CASE panel.session = s
    <3>1. panel.final /\ OverOK(panel, meeting[s]) BY <1>4, <2>1, <2>2 DEF ShownOK
    <3>2. panel.rev \in Nat BY <1>1 DEF Panels
    <3>3. panel.rev <= meeting'[s].rev /\ panel.rev # meeting'[s].rev BY <1>3, <3>1, <3>2 DEF OverOK
    <3>4. OverOK(panel, meeting'[s]) BY <3>1, <3>3 DEF OverOK
    <3> QED BY <2>1, <2>2, <3>1, <3>4 DEF ShownOK
  <2>3. CASE panel.session # s BY <2>1, <2>3
  <2> QED BY <2>1, <2>2, <2>3
<1> QED BY <1>1, <1>5, <1>6 DEF ReviewInv

\* No meeting is longer than all windows together.
WindowsSuffice == Length <= MaxWindows * Window + 1

\* The last window of a load reaches the end of what was asked for.
LEMMA WindowsReach ==
    ASSUME WindowsSuffice, NEW index \in Nat, NEW cursor \in Nat, NEW seen \in Nat,
           index * Window <= cursor, seen <= Length, index < MaxWindows,
           ~(cursor + Window < seen /\ index + 1 < MaxWindows)
    PROVE  seen <= cursor + Window + 1
<1>1. /\ Window \in Nat /\ MaxWindows \in Nat /\ Length \in Nat BY ReviewAssumption
<1>2. CASE seen <= cursor + Window BY <1>1, <1>2
<1>3. CASE index + 1 = MaxWindows
  <2>1. MaxWindows * Window = index * Window + Window
    <3>1. (index + 1) * Window = index * Window + Window BY <1>1
    <3> QED BY <1>3, <3>1
  <2>2. index * Window \in Nat BY <1>1
  <2>3. Length <= index * Window + Window + 1 BY <2>1 DEF WindowsSuffice
  <2> HIDE DEF WindowsSuffice
  <2> QED BY <1>1, <2>2, <2>3
<1> QED BY <1>1, <1>2, <1>3

LEMMA NextWindow ==
    ASSUME ReviewInv, ReviewRaces = {}, WindowsSuffice, WindowArrives
    PROVE  ReviewInv'
<1> DEFINE s == panel.session
           m == meeting[s]
           r == panel.request
           a == r.answer
           view == InsertRows(panel.rows, a.rows)
           covered == qMax(r.covered, a.seen)
           next == r.cursor + Window
           filled == [panel EXCEPT !.rows = view, !.rev = a.rev, !.final = a.final, !.boundary = a.seen]
           r2 == Request(s, next, covered, r.index + 1)
<1>1. panel.loading /\ meeting' = meeting BY DEF WindowArrives
<1>2. s \in Sessions /\ LoadOK(panel, m) BY <1>1 DEF ReviewInv, LoadingInv
<1>3. panel \in Panels /\ MeetingsInv BY DEF ReviewInv, PanelTypeOK
<1>4. m \in Meetings /\ Counted(m) BY <1>2, <1>3 DEF MeetingsInv
<1>5. m.seen \in Nat /\ m.rev \in Nat /\ m.seen <= Length BY <1>4, RowsOfMeeting DEF Counted
<1>6. r \in Requests /\ r.session = s BY <1>2 DEF LoadOK
<1>7. /\ r.cursor \in Nat /\ r.index \in Nat /\ r.covered \in Nat /\ a \in Answers
      /\ a.seen \in Nat /\ a.rev \in Nat /\ a.final \in BOOLEAN /\ a.rows \in Views
    BY <1>6 DEF Requests, Answers
<1>8. /\ r.index < MaxWindows /\ r.index * Window <= r.cursor /\ r.covered <= a.seen
      /\ a.seen <= m.seen /\ a.rev <= m.rev
    BY <1>2 DEF LoadOK, AskedOK
<1>9. panel.known \in Nat /\ panel.known <= a.seen BY <1>2, <1>3 DEF LoadOK, Panels
<1>10. covered = a.seen BY <1>7, <1>8 DEF qMax
<1>11. Window \in Nat /\ MaxWindows \in Nat /\ Length \in Nat BY ReviewAssumption
<1>12. /\ Parts(view, m)
       /\ \A n \in Nat : n <= a.seen /\ n <= r.cursor + Window + 1 => Has(view, m, n)
    BY <1>2, <1>3, <1>4, InsertedHas
<1>13. view \in Views BY <1>3, <1>7, InsertedIsView DEF Panels
<1>14. IF MoreWindows(next, covered, r.index)
       THEN /\ Uncut(s, next)
            /\ panel' = [filled EXCEPT !.info = "loading", !.request = r2]
       ELSE panel' = [filled EXCEPT !.loading = FALSE, !.request = NoRequest, !.info = "shown",
                                    !.timer = ~a.final]
    BY <1>6 DEF WindowArrives, WindowShown
<1> HIDE DEF view
<1>15. /\ filled \in Panels /\ filled.rows = view /\ filled.rev = a.rev /\ filled.final = a.final
       /\ filled.boundary = a.seen /\ filled.session = s /\ filled.known = panel.known
       /\ filled.loading = panel.loading
    BY <1>3, <1>7, <1>13 DEF Panels
<1>16. MeetingsInv' BY <1>1, <1>3 DEF MeetingsInv
<1> HIDE DEF filled, a, r
<1>17. CASE MoreWindows(next, covered, r.index)
  <2>1. next < a.seen /\ r.index + 1 < MaxWindows BY <1>10, <1>17 DEF MoreWindows
  <2>2. panel' = [filled EXCEPT !.info = "loading", !.request = r2] BY <1>14, <1>17
  <2>3. \A i \in DOMAIN m.rows : ~Cuts(next, m.rows[i]) BY <1>14, <1>17 DEF Uncut
  <2>4. (r.index + 1) * Window <= next
    <3>1. (r.index + 1) * Window = r.index * Window + Window BY <1>7, <1>11
    <3>2. r.index * Window \in Nat BY <1>7, <1>11
    <3> QED BY <1>7, <1>8, <1>11, <3>1, <3>2
  <2>5. next \in Nat /\ covered \in Nat /\ r.index + 1 \in Nat /\ next <= m.seen /\ covered <= m.seen
      BY <1>5, <1>7, <1>8, <1>10, <1>11, <2>1
  <2>6. /\ r2 \in Requests /\ r2.session = s /\ r2.cursor = next /\ r2.answer.seen = m.seen
        /\ AskedOK(r2, m) /\ AnswerOK(r2, m)
    <3> HIDE DEF r2, next, covered, m
    <3>1. LET z == Request(s, next, covered, r.index + 1) IN
           /\ z \in Requests /\ z.session = s /\ z.cursor = next
           /\ z.answer.seen = meeting[s].seen
           /\ AskedOK(z, meeting[s]) /\ AnswerOK(z, meeting[s])
      <4>1. \A i \in DOMAIN meeting[s].rows : ~Cuts(next, meeting[s].rows[i]) BY <2>3 DEF m
      <4>2. next <= meeting[s].seen /\ covered <= meeting[s].seen BY <2>5 DEF m
      <4> QED BY <1>2, <1>3, <2>1, <2>4, <2>5, <4>1, <4>2, RequestIsOK
    <3> QED BY <3>1 DEF r2, m
  <2> HIDE DEF r2
  <2>7. /\ panel' \in Panels /\ panel'.loading = panel.loading /\ panel'.session = s
        /\ panel'.info = "loading" /\ panel'.request = r2 /\ panel'.rows = view
        /\ panel'.known = panel.known
      BY <1>15, <2>2, <2>6 DEF Panels
  <2>8. panel.known <= m.seen BY <1>5, <1>7, <1>8, <1>9
  <2>9. Has(view, m, next) BY <1>7, <1>11, <1>12, <2>1, <2>5
  <2> HIDE DEF next, covered
  <2>10. LoadOK(panel', m) BY <1>12, <2>6, <2>7, <2>8, <2>9 DEF LoadOK
  <2>11. PanelTypeOK' BY <1>1, <2>7 DEF PanelTypeOK
  <2>12. LoadingInv' BY <1>1, <1>2, <2>7, <2>10 DEF LoadingInv
  <2>13. ShownInv' BY <1>1, <2>7 DEF ShownInv
  <2> QED BY <1>16, <2>11, <2>12, <2>13 DEF ReviewInv
<1>18. CASE ~MoreWindows(next, covered, r.index)
  <2>1. panel' = [filled EXCEPT !.loading = FALSE, !.request = NoRequest, !.info = "shown",
                                !.timer = ~a.final]
      BY <1>14, <1>18
  <2>2. a.seen <= r.cursor + Window + 1
    <3>1. ~(r.cursor + Window < a.seen /\ r.index + 1 < MaxWindows) BY <1>10, <1>18 DEF MoreWindows
    <3>2. a.seen <= Length BY <1>5, <1>7, <1>8, <1>11
    <3> QED BY <1>7, <1>8, <3>1, <3>2, WindowsReach
  <2>3. /\ panel' \in Panels /\ panel'.loading = FALSE /\ panel'.info = "shown"
        /\ panel'.session = s /\ panel'.rows = view /\ panel'.rev = a.rev /\ panel'.final = a.final
        /\ panel'.boundary = a.seen /\ panel'.known = panel.known
      BY <1>7, <1>15, <2>1 DEF Panels
  <2>4. Has(view, m, a.seen) BY <1>7, <1>12, <2>2
  <2>5. Has(view, m, panel.known)
    <3>1. panel.known <= r.cursor + Window + 1 BY <1>7, <1>9, <1>11, <2>2
    <3> QED BY <1>9, <1>12, <3>1
  <2>6. panel.known <= m.seen BY <1>5, <1>7, <1>8, <1>9
  <2> HIDE DEF next, covered
  <2>7. Once(view, panel.known)
    <3> HIDE DEF m
    <3> QED BY <1>4, <1>9, <1>12, <2>5, <2>6, OnceByParts
  <2>8. RunningOK(panel', m) BY <1>8, <1>9, <1>12, <2>3, <2>4 DEF RunningOK
  <2>9. OverOK(panel', m) BY <1>8, <1>12, <2>3, <2>6, <2>7 DEF OverOK
  <2>10. ShownOK(panel', m) BY <2>8, <2>9 DEF ShownOK
  <2>11. PanelTypeOK' BY <2>3 DEF PanelTypeOK
  <2>12. LoadingInv' BY <2>3 DEF LoadingInv
  <2>13. ShownInv' BY <1>1, <1>2, <2>3, <2>10 DEF ShownInv
  <2> QED BY <1>16, <2>11, <2>12, <2>13 DEF ReviewInv
<1> QED BY <1>17, <1>18

LEMMA FailedWindow ==
    ASSUME ReviewInv, WindowFails
    PROVE  ReviewInv'
<1>1. panel.loading /\ meeting' = meeting BY DEF WindowFails
<1>2. panel.session \in Sessions /\ LoadOK(panel, meeting[panel.session])
    BY <1>1 DEF ReviewInv, LoadingInv
<1>3. panel.request.session = panel.session BY <1>2 DEF LoadOK
<1>4. panel' = [panel EXCEPT !.loading = FALSE, !.request = NoRequest, !.info = "error"]
    BY <1>3 DEF WindowFails
<1>5. panel \in Panels /\ MeetingsInv BY DEF ReviewInv, PanelTypeOK
<1>6. panel' \in Panels /\ panel'.loading = FALSE /\ panel'.info = "error" BY <1>4, <1>5 DEF Panels
<1>7. MeetingsInv' BY <1>1, <1>5 DEF MeetingsInv
<1> QED BY <1>6, <1>7 DEF ReviewInv, PanelTypeOK, LoadingInv, ShownInv

LEMMA TailLoads ==
    ASSUME ReviewInv, ReviewRaces = {}, RefreshTail
    PROVE  ReviewInv'
<1> DEFINE s == panel.session
           m == meeting[s]
           c == qMax(0, panel.boundary - Window)
           q == Load(panel, s, c)
<1>1. /\ panel.info = "shown" /\ ~panel.final /\ ~panel.loading /\ Uncut(s, c)
      /\ panel' = q /\ meeting' = meeting
    BY DEF RefreshTail, GoesOn
<1>2. s \in Sessions /\ RunningOK(panel, m) BY <1>1 DEF ReviewInv, ShownInv, ShownOK
<1>3. panel \in Panels /\ MeetingsInv BY DEF ReviewInv, PanelTypeOK
<1>4. m \in Meetings BY <1>2, <1>3 DEF MeetingsInv
<1>5. m.seen \in Nat /\ panel.boundary \in Nat /\ panel.boundary <= m.seen
    BY <1>2, <1>3, <1>4, RowsOfMeeting DEF RunningOK, Panels
<1>6. c \in Nat /\ c <= panel.boundary /\ c <= m.seen BY <1>5, ReviewAssumption DEF qMax
<1> HIDE DEF c, q, m
<1>7. \A i \in DOMAIN meeting[s].rows : ~Cuts(c, meeting[s].rows[i]) BY <1>1 DEF Uncut
<1>8. Parts(panel.rows, meeting[s]) BY <1>2 DEF RunningOK, m
<1>9. Has(panel.rows, meeting[s], c)
  <2> SUFFICES ASSUME NEW i \in DOMAIN m.rows, NEW t \in m.rows[i].words, t < c
               PROVE  i \in DOMAIN panel.rows /\ t \in panel.rows[i].words
      BY DEF Has, m
  <2>1. t \in Nat BY <1>4, RowsOfMeeting
  <2>2. t < panel.boundary BY <1>5, <1>6, <2>1
  <2> QED BY <1>2, <2>2 DEF RunningOK, Has
<1>10. q \in Panels /\ q.loading /\ q.session = s /\ LoadOK(q, meeting[s])
  <2>1. c <= meeting[s].seen BY <1>6 DEF m
  <2>2. panel.info \in {"loading", "shown"} BY <1>1
  <2> QED BY <1>1, <1>2, <1>3, <1>6, <1>7, <1>8, <1>9, <2>1, <2>2, LoadBegins DEF q
<1>11. MeetingsInv' BY <1>1, <1>3 DEF MeetingsInv
<1>12. PanelTypeOK' BY <1>1, <1>10 DEF PanelTypeOK
<1>13. LoadingInv' BY <1>1, <1>2, <1>10 DEF LoadingInv
<1>14. ShownInv' BY <1>1, <1>10 DEF ShownInv
<1> QED BY <1>11, <1>12, <1>13, <1>14 DEF ReviewInv

\* A correction that was taken: the panel has what the meeting has.
LEMMA EditSaves ==
    ASSUME ReviewInv, ReviewRaces = {}, panel.info = "shown", ~panel.loading,
           NEW i \in DOMAIN panel.rows, panel.rev = meeting[panel.session].rev,
           meeting' = Reworded(panel.session, i),
           panel' = [panel EXCEPT !.rows = InsertRows(panel.rows, Reworded(panel.session, i)[panel.session].rows),
                                  !.rev = Reworded(panel.session, i)[panel.session].rev]
    PROVE  ReviewInv'
<1> DEFINE s == panel.session
           m == meeting[s]
           n == meeting'[s]
           view == InsertRows(panel.rows, n.rows)
<1>1. s \in Sessions /\ ShownOK(panel, m) BY DEF ReviewInv, ShownInv
<1>2. panel \in Panels /\ MeetingsInv BY DEF ReviewInv, PanelTypeOK
<1>3. Parts(panel.rows, m)
  <2>1. CASE panel.final BY <1>1, <2>1 DEF ShownOK, OverOK
  <2>2. CASE ~panel.final BY <1>1, <2>2 DEF ShownOK, RunningOK
  <2> QED BY <2>1, <2>2
<1>4. i \in DOMAIN m.rows BY <1>3 DEF Parts
<1>5. /\ MeetingsInv' /\ n.seen = m.seen /\ n.rev = m.rev + 1
    <2>1. i \in DOMAIN meeting[s].rows /\ meeting' = Reworded(s, i) BY <1>4
    <2> HIDE DEF s
    <2> QED BY <1>1, <1>2, <2>1, EditedCounts
<1>6. n \in Meetings /\ Counted(n) BY <1>1, <1>5 DEF MeetingsInv
<1>7. n.seen \in Nat /\ n.rev \in Nat /\ n.rows \in Views BY <1>6, RowsOfMeeting, RowsAreView
<1>8. DOMAIN n.rows = DOMAIN m.rows
  <2>1. m \in Meetings /\ meeting \in [Sessions -> Meetings] BY <1>1, <1>2 DEF MeetingsInv
  <2>2. n.rows = [m.rows EXCEPT ![i] = [words |-> @.words, text |-> @.text + 1]]
      BY <1>1, <2>1 DEF Reworded, Revised
  <2> QED BY <2>2
<1>9. panel' = [panel EXCEPT !.rows = view, !.rev = n.rev] OBVIOUS
<1> HIDE DEF n, m
<1>10. view = n.rows
  <2>1. DOMAIN panel.rows \subseteq DOMAIN n.rows BY <1>3, <1>8 DEF Parts
  <2>2. view = [j \in DOMAIN n.rows |-> n.rows[j]] BY <2>1 DEF InsertRows
  <2>3. n.rows \in [DOMAIN n.rows -> ReviewRows] BY <1>7, ViewRow
  <2> QED BY <2>2, <2>3
<1> HIDE DEF view
<1>11. /\ panel' \in Panels /\ panel'.rows = n.rows /\ panel'.rev = n.rev /\ panel'.session = s
       /\ panel'.known = panel.known /\ panel'.boundary = panel.boundary /\ panel'.final = panel.final
       /\ panel'.loading = panel.loading /\ panel'.info = panel.info
    BY <1>2, <1>7, <1>9, <1>10 DEF Panels
<1>12. panel.known \in Nat /\ panel.boundary \in Nat BY <1>2 DEF Panels
<1>13. Parts(n.rows, n) BY DEF Parts
<1>14. \A k \in Nat : Has(n.rows, n, k) BY DEF Has
<1>15. ShownOK(panel', n)
  <2>1. CASE panel.final
    <3>1. panel.known <= n.seen BY <1>1, <1>5, <2>1 DEF ShownOK, OverOK
    <3>2. Once(n.rows, panel.known) BY <1>6, <1>12, <1>13, <1>14, <3>1, OnceByParts
    <3>3. n.rev <= n.rev BY <1>7
    <3> QED BY <1>11, <1>13, <2>1, <3>1, <3>2, <3>3 DEF ShownOK, OverOK
  <2>2. CASE ~panel.final
    <3>1. panel.known <= panel.boundary /\ panel.boundary <= n.seen
        BY <1>1, <1>5, <2>2 DEF ShownOK, RunningOK
    <3> QED BY <1>11, <1>12, <1>13, <1>14, <2>2, <3>1 DEF ShownOK, RunningOK
  <2> QED BY <2>1, <2>2
<1>16. PanelTypeOK' BY <1>11 DEF PanelTypeOK
<1>17. LoadingInv' BY <1>11 DEF LoadingInv
<1>18. ShownInv' BY <1>1, <1>11, <1>15 DEF ShownInv, n
<1> QED BY <1>5, <1>16, <1>17, <1>18 DEF ReviewInv

LEMMA ReviewStarts == ReviewInit => ReviewInv
<1> SUFFICES ASSUME ReviewInit PROVE ReviewInv OBVIOUS
<1> DEFINE m1 == [rows |-> <<>>, seen |-> 0, final |-> FALSE, rev |-> 0]
           m2 == [rows |-> <<Row(0)>>, seen |-> 1, final |-> TRUE, rev |-> 1]
<1>1. meeting = [s \in Sessions |-> IF s = 1 THEN m1 ELSE m2] BY DEF ReviewInit
<1>2. m1 \in Meetings
  <2>1. <<>> \in Seq(ReviewRows) OBVIOUS
  <2> QED BY <2>1 DEF Meetings
<1>3. Row(0) \in ReviewRows /\ Row(0).words = {0} BY DEF Row, ReviewRows
<1>4. m2 \in Meetings
  <2>1. <<Row(0)>> \in Seq(ReviewRows) BY <1>3
  <2> QED BY <2>1 DEF Meetings
<1>5. Counted(m1)
  <2>1. m1.rows = <<>> /\ m1.seen = 0 OBVIOUS
  <2> HIDE DEF m1
  <2>2. 0 <= Length BY ReviewAssumption
  <2>3. Once(m1.rows, m1.seen) BY <2>1 DEF Once
  <2> QED BY <2>1, <2>2, <2>3 DEF Counted
<1>6. Counted(m2)
  <2>1. m2.rows = <<Row(0)>> /\ m2.seen = 1 OBVIOUS
  <2> HIDE DEF m2
  <2>2. DOMAIN m2.rows = {1} /\ m2.rows[1].words = {0} BY <1>3, <2>1
  <2>3. Once(m2.rows, m2.seen)
    <3> SUFFICES ASSUME NEW t \in 0..(m2.seen - 1)
                 PROVE  \E i \in DOMAIN m2.rows :
                           t \in m2.rows[i].words /\ \A j \in DOMAIN m2.rows : t \in m2.rows[j].words => j = i
        BY DEF Once
    <3>1. t = 0 BY <2>1
    <3> QED BY <2>2, <3>1
  <2>4. \A i \in DOMAIN m2.rows : m2.rows[i].words \subseteq 0..(m2.seen - 1) BY <2>1, <2>2
  <2>5. 1 <= Length BY ReviewAssumption
  <2> QED BY <2>1, <2>3, <2>4, <2>5 DEF Counted
<1> HIDE DEF m1, m2
<1>7. MeetingsInv
  <2>1. meeting \in [Sessions -> Meetings] BY <1>1, <1>2, <1>4
  <2>2. \A s \in Sessions : meeting[s] = m1 \/ meeting[s] = m2 BY <1>1
  <2> QED BY <1>5, <1>6, <2>1, <2>2 DEF MeetingsInv
<1>8. panel = [session |-> NoSession, loading |-> FALSE, request |-> NoRequest, rows |-> <<>>,
               known |-> 0, info |-> "none", final |-> FALSE, timer |-> FALSE,
               boundary |-> 0, rev |-> 0]
    BY DEF ReviewInit
<1>9. panel \in Panels BY <1>8, EmptyIsView DEF Panels
<1>10. panel.loading = FALSE /\ panel.info = "none" BY <1>8
<1> QED BY <1>7, <1>9, <1>10 DEF ReviewInv, PanelTypeOK, LoadingInv, ShownInv

LEMMA ReviewStep ==
    ASSUME ReviewInv, ReviewRaces = {}, WindowsSuffice, [ReviewNext]_reviewVars
    PROVE  ReviewInv'
<1>0. MeetingsInv /\ panel \in Panels BY DEF ReviewInv, PanelTypeOK
<1>1. CASE UNCHANGED reviewVars
  <2> USE <1>1 DEF reviewVars
  <2>1. MeetingsInv' BY <1>0 DEF MeetingsInv
  <2>2. PanelTypeOK' BY DEF ReviewInv, PanelTypeOK
  <2>3. LoadingInv' BY DEF ReviewInv, LoadingInv
  <2>4. ShownInv' BY DEF ReviewInv, ShownInv
  <2> QED BY <2>1, <2>2, <2>3, <2>4 DEF ReviewInv
<1>2. ASSUME NEW s \in Sessions, CommitWord(s) PROVE ReviewInv'
  <2>1. Committed(s, FALSE) /\ panel' = panel BY <1>2 DEF CommitWord
  <2>2. /\ MeetingsInv' /\ Continues(meeting[s], meeting'[s])
        /\ \A o \in Sessions \ {s} : meeting'[o] = meeting[o]
      BY <1>0, <2>1, CommittedCounts
  <2> QED BY <2>1, <2>2, OnlyContinues
<1>3. ASSUME NEW s \in Sessions, FinishMeeting(s) PROVE ReviewInv'
  <2>1. panel' = panel BY <1>3 DEF FinishMeeting
  <2>2. /\ MeetingsInv' /\ Continues(meeting[s], meeting'[s])
        /\ \A o \in Sessions \ {s} : meeting'[o] = meeting[o]
    <3>1. CASE Committed(s, TRUE) BY <1>0, <3>1, CommittedCounts
    <3>2. CASE meeting' = [meeting EXCEPT ![s] = [rows |-> @.rows, seen |-> @.seen,
                                                  final |-> TRUE, rev |-> @.rev]]
        BY <1>0, <3>2, FinishedCounts
    <3> QED BY <1>3, <3>1, <3>2 DEF FinishMeeting
  <2> QED BY <2>1, <2>2, OnlyContinues
<1>4. ASSUME NEW s \in Sessions, Open(s) PROVE ReviewInv'
  <2>1. ~panel.loading /\ meeting' = meeting /\ panel' = Load(Cleared(panel, s), s, 0)
      BY <1>4 DEF Open, AtEase
  <2> QED BY <2>1, OpenLoads
<1>5. ASSUME NEW s \in Sessions, NEW i \in DOMAIN meeting[s].rows, OtherEdits(s, i) PROVE ReviewInv'
  <2>1. Unread(s) /\ meeting' = Reworded(s, i) /\ panel' = panel BY <1>5 DEF OtherEdits
  <2>2. /\ MeetingsInv'
        /\ meeting'[s].seen = meeting[s].seen /\ meeting'[s].rev = meeting[s].rev + 1
        /\ \A o \in Sessions \ {s} : meeting'[o] = meeting[o]
      BY <1>0, <2>1, EditedCounts
  <2> QED BY <2>1, <2>2, OnlyRevised
<1>6. ASSUME NEW s \in Sessions, NEW i \in DOMAIN meeting[s].rows, OtherMerges(s, i) PROVE ReviewInv'
  <2>1. /\ Unread(s) /\ i < Len(meeting[s].rows) /\ panel' = panel
        /\ meeting' = Revised(s, Spliced(meeting[s].rows, i))
      BY <1>6 DEF OtherMerges
  <2>2. /\ MeetingsInv'
        /\ meeting'[s].seen = meeting[s].seen /\ meeting'[s].rev = meeting[s].rev + 1
        /\ \A o \in Sessions \ {s} : meeting'[o] = meeting[o]
      BY <1>0, <2>1, SplicedCounts
  <2> QED BY <2>1, <2>2, OnlyRevised
<1>7. CASE WindowArrives BY <1>7, NextWindow
<1>8. CASE WindowFails BY <1>8, FailedWindow
<1>9. CASE RefreshTail BY <1>9, TailLoads
<1>10. ASSUME NEW i \in DOMAIN panel.rows, SaveEdit(i) PROVE ReviewInv'
  <2> DEFINE s == panel.session
  <2>1. panel.info = "shown" /\ ~panel.loading BY <1>10 DEF SaveEdit, GoesOn, AtEase
  <2>2. CASE panel.rev = meeting[s].rev
    <3>1. /\ meeting' = Reworded(s, i)
          /\ panel' = [panel EXCEPT !.rows = InsertRows(@, Reworded(s, i)[s].rows),
                                    !.rev = Reworded(s, i)[s].rev]
        BY <1>10, <2>2 DEF SaveEdit
    <3>2. panel' = [panel EXCEPT !.rows = InsertRows(panel.rows, Reworded(s, i)[s].rows),
                                 !.rev = Reworded(s, i)[s].rev]
        BY <3>1
    <3> QED BY <2>1, <2>2, <3>1, <3>2, EditSaves
  <2>3. CASE panel.rev # meeting[s].rev
    <3>1. panel' = Load(Cleared(panel, s), s, 0) /\ meeting' = meeting BY <1>10, <2>3 DEF SaveEdit
    <3>2. s \in Sessions BY <2>1 DEF ReviewInv, ShownInv
    <3> QED BY <2>1, <3>1, <3>2, OpenLoads
  <2> QED BY <2>2, <2>3
<1> QED BY <1>1, <1>2, <1>3, <1>4, <1>5, <1>6, <1>7, <1>8, <1>9, <1>10 DEF ReviewNext

LEMMA ReviewShows ==
    ASSUME ReviewInv
    PROVE  PanelIsWhole
<1> DEFINE s == panel.session
           m == meeting[s]
<1>1. panel \in Panels /\ MeetingsInv /\ (panel.info = "loading" => panel.loading)
    BY DEF ReviewInv, PanelTypeOK
<1>2. ASSUME panel.info = "shown", ~panel.loading
      PROVE  /\ Once(panel.rows, panel.known)
             /\ panel.rev = m.rev => Parts(panel.rows, m)
  <2>1. s \in Sessions /\ ShownOK(panel, m) BY <1>2 DEF ReviewInv, ShownInv
  <2>2. CASE panel.final BY <2>1, <2>2 DEF ShownOK, OverOK
  <2>3. CASE ~panel.final
    <3>1. RunningOK(panel, m) BY <2>1, <2>3 DEF ShownOK
    <3>2. m \in Meetings /\ Counted(m) BY <1>1, <2>1 DEF MeetingsInv
    <3>3. panel.known \in Nat /\ panel.boundary \in Nat /\ m.seen \in Nat
        BY <1>1, <3>2, RowsOfMeeting DEF Panels
    <3>4. panel.known <= m.seen BY <3>1, <3>3 DEF RunningOK
    <3>5. Has(panel.rows, m, panel.known)
      <4> SUFFICES ASSUME NEW i \in DOMAIN m.rows, NEW t \in m.rows[i].words, t < panel.known
                   PROVE  i \in DOMAIN panel.rows /\ t \in panel.rows[i].words
          BY DEF Has
      <4>1. t \in Nat BY <3>2, RowsOfMeeting
      <4>2. t < panel.boundary BY <3>1, <3>3, <4>1 DEF RunningOK
      <4> QED BY <3>1, <4>2 DEF RunningOK, Has
    <3>6. Parts(panel.rows, m) BY <3>1 DEF RunningOK
    <3> HIDE DEF m
    <3>7. Once(panel.rows, panel.known) BY <3>2, <3>3, <3>4, <3>5, <3>6, OnceByParts
    <3> QED BY <3>6, <3>7
  <2> QED BY <2>2, <2>3
<1>3. panel.known \in Nat BY <1>1 DEF Panels
<1>4. ASSUME panel.info = "shown", ~panel.loading, NEW t \in 0..(panel.known - 1)
      PROVE  Cardinality({i \in DOMAIN panel.rows : t \in panel.rows[i].words}) = 1
    BY <1>2, <1>3, <1>4, OnceIsOne
<1>5. ASSUME panel.info = "shown", ~panel.loading, panel.rev = m.rev, NEW i \in DOMAIN panel.rows
      PROVE  i \in DOMAIN m.rows /\ panel.rows[i].text = m.rows[i].text
    BY <1>2, <1>5 DEF Parts
<1> QED BY <1>1, <1>4, <1>5 DEF PanelIsWhole

\* The review panel shows every word of a meeting once, for any window and any
\* meeting that all windows together hold (33 hours in the code), and what it
\* would correct is what the server has.
THEOREM PanelShowsTheWhole ==
    ASSUME ReviewRaces = {}, Length <= MaxWindows * Window + 1
    PROVE  ReviewSpec => []PanelIsWhole
<1>1. ReviewInit => ReviewInv BY ReviewStarts
<1>2. WindowsSuffice BY DEF WindowsSuffice
<1>3. ReviewInv /\ [ReviewNext]_reviewVars => ReviewInv' BY <1>2, ReviewStep
<1>4. ReviewInv => PanelIsWhole BY ReviewShows
<1> QED BY <1>1, <1>3, <1>4, PTL DEF ReviewSpec
=============================================================================

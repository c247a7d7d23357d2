------------------------ MODULE SessionJournalProofs ------------------------
(***************************************************************************)
(* What holds of SessionJournal for any number of packets, crashes and     *)
(* failed writes, and any segment size: an accepted packet that was not    *)
(* forwarded can be recovered, and while the disk works recovery finds     *)
(* exactly what the session had in memory.                                 *)
(***************************************************************************)
EXTENDS SessionJournal, SequenceTheorems, WellFoundedInduction, TLAPS

-----------------------------------------------------------------------------
(* The inductive invariants.                                               *)

\* Whole records; a file may end with half a record.
Kept == {Meta, Stopped} \cup [kind : {"packet", "progress"}, seq : Seqs]
Clean(f) == f \in Seq(Kept)
Neat(f) == f \in Seq(Kept \cup {Torn}) /\ \A i \in 1..(Len(f) - 1) : f[i] # Torn
Items(f) == {f[i] : i \in DOMAIN f} \ {Torn}

OnDisk(r) == \E i \in DOMAIN files : r \in Items(files[i])
Packet(s) == Record("packet", s)
Progress(s) == Record("progress", s)

Counters ==
    /\ isOpen \in BOOLEAN /\ up \in BOOLEAN /\ failed \in BOOLEAN /\ ended \in BOOLEAN
    /\ queue \subseteq Seqs /\ lastAccepted \in 0..MaxSeq /\ segment \in Nat
    /\ accepted \subseteq Seqs /\ forwarded \subseteq Seqs
    /\ failures \in 0..MaxFailures /\ crashes \in 0..MaxCrash
    /\ highs \in Seq([index : Nat, high : 0..MaxSeq])

\* A segment may end with half a record only when it is closed, or when the rest of
\* the record is in the buffer.
Segments ==
    /\ \E n \in Nat : DOMAIN files \subseteq 1..n
    /\ files = [i \in DOMAIN files |-> files[i]]
    /\ \A i \in DOMAIN files : Neat(files[i])
    /\ Clean(unwritten)
    /\ isOpen =>
         /\ up /\ ~ended
         /\ segment \in DOMAIN files /\ \A i \in DOMAIN files : i <= segment
         /\ unwritten = <<>> => Clean(files[segment])
         /\ highs # <<>> /\ highs[Len(highs)].index = segment
         /\ \A i, j \in 1..Len(highs) : i < j => highs[i].index < highs[j].index
    /\ ~isOpen => unwritten = <<>>

Typed == Counters /\ Segments

\* A segment that may be retired holds no packet above the mark kept of it.
Marks ==
    /\ isOpen => \A i \in 1..Len(highs), s \in Seqs :
         /\ i < Len(highs) \/ ~failed
         /\ highs[i].index \in DOMAIN files /\ Packet(s) \in Items(files[highs[i].index])
         => s <= highs[i].high
    /\ ~failed => \A s \in Seqs : Packet(s) \notin Items(unwritten)

\* A Stopped record is written once everything accepted was forwarded.
StopIsLast ==
    /\ OnDisk(Stopped) \/ Stopped \in Items(unwritten) => ended
    /\ ended => accepted \subseteq forwarded
    /\ ended /\ up => queue = {}

\* What was accepted and not forwarded is on disk, and the marks of progress are
\* behind it.
Durable ==
    /\ \A s \in accepted \ forwarded : OnDisk(Packet(s))
    /\ \A p \in Seqs : OnDisk(Progress(p)) \/ Progress(p) \in Items(unwritten) => 1..p \subseteq forwarded
    /\ up => /\ accepted \subseteq forwarded \cup queue
             /\ 1..lastAccepted \subseteq forwarded \cup queue
             /\ \A s \in queue : OnDisk(Packet(s))
             /\ \A s \in Seqs : OnDisk(Packet(s)) \/ Packet(s) \in Items(unwritten) => s <= lastAccepted + 1
    /\ ~up => \A s \in Seqs : OnDisk(Packet(s)) =>
                 \A t \in 1..(s - 1) : t \in forwarded \/ OnDisk(Packet(t))

\* While the disk works, the disk is the memory.
Exact ==
    failures = 0 =>
        /\ unwritten = <<>> /\ ~failed
        /\ up /\ ~ended => isOpen
        /\ files = <<>> \/ OnDisk(Meta)
        /\ isOpen => Meta \in Items(files[segment])
        /\ up /\ DOMAIN files # {} =>
             /\ OnDisk(Stopped) <=> ended
             /\ \A t \in Seqs : OnDisk(Packet(t)) =>
                  t <= lastAccepted /\ (t \in queue \/ \E p \in Seqs : OnDisk(Progress(p)) /\ t <= p)
             /\ \A p \in Seqs : OnDisk(Progress(p)) => p <= lastAccepted /\ \A t \in queue : p < t
             /\ lastAccepted = 0 \/ OnDisk(Packet(lastAccepted))
        /\ isOpen /\ Len(highs) > 1 => Packet(lastAccepted) \in Items(files[segment])
        /\ ~up => \A p \in Seqs : OnDisk(Progress(p)) => \E t \in Seqs : p <= t /\ OnDisk(Packet(t))
-----------------------------------------------------------------------------
(* Lemmas about numbers.                                                   *)

Below == {ss \in Nat \X Nat : ss[1] < ss[2]}

\* Every non-empty set of natural numbers has a least element.
LEMMA LeastNatural ==
    ASSUME NEW T \in SUBSET Nat, T # {}
    PROVE  \E n \in T : \A m \in T : n <= m
<1>1. IsWellFoundedOn(Below, Nat)
  BY NatLessThanWellFounded DEF OpToRel, Below
<1>2. PICK n \in T : \A m \in T : ~(<<m, n>> \in Below)
  BY <1>1, WFMin
<1>3. ASSUME NEW m \in T PROVE n <= m
  <2>1. <<m, n>> \in Nat \X Nat /\ ~(<<m, n>> \in Below)
    BY <1>2
  <2> QED
    BY <2>1 DEF Below
<1> QED
  BY <1>3

\* Max of a bounded set of natural numbers is the greatest of them.
LEMMA MaxIsMember ==
    ASSUME NEW k \in Nat, NEW T \in SUBSET (0..k), T # {}
    PROVE  Max(T) \in T /\ \A y \in T : y <= Max(T)
<1> DEFINE U == {x \in 0..k : k - x \in T}
<1>1. PICK x \in T : TRUE
  OBVIOUS
<1>2. k - x \in U /\ U \in SUBSET Nat
  BY <1>1
<1>3. PICK n \in U : \A m \in U : n <= m
  BY <1>2, LeastNatural
<1>4. k - n \in T
  BY <1>3
<1>5. ASSUME NEW y \in T PROVE k - n >= y
  <2>1. k - y \in U /\ y \in 0..k /\ n \in 0..k
    BY <1>3
  <2>2. n <= k - y
    BY <1>3, <2>1
  <2> QED
    BY <2>1, <2>2
<1> QED
  BY <1>4, <1>5 DEF Max

-----------------------------------------------------------------------------
(* Lemmas about files.                                                     *)

LEMMA RecordKinds ==
    /\ Torn \notin Kept /\ Meta \in Kept /\ Stopped \in Kept
    /\ \A s \in Seqs : Packet(s) \in Kept /\ Progress(s) \in Kept
<1>1. Torn \notin Kept
  <2>1. \A r \in Kept : r.kind # "torn"
    BY DEF Kept, Meta, Stopped, Record
  <2>2. Torn.kind = "torn"
    BY DEF Torn, Record
  <2> QED
    BY <2>1, <2>2
<1>2. \A s \in Seqs : Packet(s) \in Kept /\ Progress(s) \in Kept
  BY DEF Kept, Packet, Progress, Record
<1> QED
  BY <1>1, <1>2 DEF Kept

LEMMA EmptyFile == Clean(<<>>) /\ Neat(<<>>) /\ Items(<<>>) = {}
BY DEF Clean, Neat, Items

\* A file without a half record.
LEMMA CleanFile ==
    ASSUME NEW f, Clean(f)
    PROVE  Neat(f) /\ Items(f) = {f[i] : i \in DOMAIN f} /\ Items(f) \subseteq Kept
<1>1. f \in Seq(Kept \cup {Torn}) /\ Len(f) \in Nat /\ DOMAIN f = 1..Len(f)
  BY DEF Clean
<1>2. \A i \in 1..Len(f) : f[i] \in Kept
  BY <1>1 DEF Clean
<1> QED
  BY <1>1, <1>2, RecordKinds DEF Neat, Items

\* Recovery reads everything but a half record at the end.
LEMMA NeatIsReadable ==
    ASSUME NEW f, Neat(f)
    PROVE  Readable(f) = Items(f)
<1>1. Len(f) \in Nat /\ DOMAIN f = 1..Len(f)
  BY DEF Neat
<1>2. ASSUME NEW k \in DOMAIN f, f[k] # Torn PROVE \A n \in 1..k : f[n] # Torn
  BY <1>1, <1>2 DEF Neat
<1>3. ASSUME NEW k \in DOMAIN f, \A n \in 1..k : f[n] # Torn PROVE f[k] # Torn
  BY <1>1, <1>3
<1> QED
  BY <1>2, <1>3 DEF Readable, Items

\* Completing a half record leaves the whole ones.
LEMMA WholeFile ==
    ASSUME NEW f, NEW b, Neat(f), Clean(b), b = <<>> => Clean(f)
    PROVE  Clean(Whole(f, b)) /\ Items(Whole(f, b)) = Items(f)
<1>1. Len(f) \in Nat /\ DOMAIN f = 1..Len(f) /\ f \in Seq(Kept \cup {Torn})
  BY DEF Neat
<1>2. CASE b # <<>> /\ f # <<>> /\ f[Len(f)] = Torn
  <2> DEFINE g == SubSeq(f, 1, Len(f) - 1)
  <2>1. Len(f) >= 1
    BY <1>1, <1>2
  <2>2. /\ g \in Seq(Kept) /\ Len(g) = Len(f) - 1 /\ DOMAIN g = 1..(Len(f) - 1)
        /\ \A i \in 1..(Len(f) - 1) : g[i] = f[i]
    <3>1. \A i \in 1..(Len(f) - 1) : f[i] \in Kept
      BY <1>1 DEF Neat
    <3> QED
      BY <1>1, <2>1, <3>1
  <2>3. Whole(f, b) = g
    BY <1>2 DEF Whole
  <2> HIDE DEF g
  <2>4. Items(g) = {f[i] : i \in 1..(Len(f) - 1)}
    <3>1. Clean(g)
      BY <2>2 DEF Clean
    <3>2. Items(g) = {g[i] : i \in 1..(Len(f) - 1)}
      BY <2>2, <3>1, CleanFile
    <3> QED
      BY <2>2, <3>2
  <2>5. Items(f) = {f[i] : i \in 1..(Len(f) - 1)}
    BY <1>1, <1>2, <2>1 DEF Items, Neat
  <2> QED
    BY <2>2, <2>3, <2>4, <2>5 DEF Clean
<1>3. CASE ~(b # <<>> /\ f # <<>> /\ f[Len(f)] = Torn)
  <2>1. Clean(f)
    <3>1. CASE b = <<>> \/ f = <<>>
      BY <3>1, EmptyFile
    <3>2. CASE f # <<>> /\ f[Len(f)] # Torn
      <4>1. \A i \in 1..Len(f) : f[i] \in Kept
        BY <1>1, <3>2 DEF Neat
      <4> QED
        BY <1>1, <4>1 DEF Clean
    <3> QED
      BY <1>3, <3>1, <3>2
  <2> QED
    BY <1>3, <2>1 DEF Whole
<1> QED
  BY <1>2, <1>3

LEMMA JoinedFiles ==
    ASSUME NEW f, NEW g, Clean(f), Neat(g)
    PROVE  /\ Neat(f \o g) /\ Items(f \o g) = Items(f) \cup Items(g)
           /\ Clean(g) => Clean(f \o g)
<1>1. /\ f \in Seq(Kept \cup {Torn}) /\ g \in Seq(Kept \cup {Torn})
      /\ Len(f) \in Nat /\ Len(g) \in Nat /\ DOMAIN f = 1..Len(f) /\ DOMAIN g = 1..Len(g)
  BY CleanFile DEF Clean, Neat
<1>2. /\ f \o g \in Seq(Kept \cup {Torn}) /\ Len(f \o g) = Len(f) + Len(g)
      /\ DOMAIN (f \o g) = 1..(Len(f) + Len(g))
      /\ \A i \in 1..Len(f) : (f \o g)[i] = f[i]
      /\ \A i \in 1..Len(g) : (f \o g)[Len(f) + i] = g[i]
  BY <1>1
<1>3. \A i \in 1..(Len(f) + Len(g)) :
        i \in 1..Len(f) \/ (i - Len(f) \in 1..Len(g) /\ i = Len(f) + (i - Len(f)))
  BY <1>1
<1>4. \A i \in 1..Len(f) : f[i] \in Kept /\ f[i] # Torn
  BY RecordKinds DEF Clean
<1>5. Neat(f \o g)
  <2> SUFFICES ASSUME NEW i \in 1..(Len(f) + Len(g) - 1) PROVE (f \o g)[i] # Torn
    BY <1>2 DEF Neat
  <2>1. CASE i \in 1..Len(f)
    BY <1>2, <1>4, <2>1
  <2>2. CASE i \notin 1..Len(f)
    <3>1. i - Len(f) \in 1..(Len(g) - 1) /\ i = Len(f) + (i - Len(f))
      BY <1>1, <2>2
    <3>2. (f \o g)[i] = g[i - Len(f)]
      BY <1>1, <1>2, <3>1
    <3> QED
      BY <3>1, <3>2 DEF Neat
  <2> QED
    BY <2>1, <2>2
<1>6. {(f \o g)[i] : i \in 1..(Len(f) + Len(g))} = {f[i] : i \in 1..Len(f)} \cup {g[i] : i \in 1..Len(g)}
  <2>1. ASSUME NEW i \in 1..(Len(f) + Len(g))
        PROVE  (\E j \in 1..Len(f) : (f \o g)[i] = f[j]) \/ (\E j \in 1..Len(g) : (f \o g)[i] = g[j])
    BY <1>2, <1>3
  <2>2. \A i \in 1..Len(f) : i \in 1..(Len(f) + Len(g)) /\ (f \o g)[i] = f[i]
    BY <1>1, <1>2
  <2>3. \A i \in 1..Len(g) : Len(f) + i \in 1..(Len(f) + Len(g)) /\ (f \o g)[Len(f) + i] = g[i]
    BY <1>1, <1>2
  <2> DEFINE A == {(f \o g)[i] : i \in 1..(Len(f) + Len(g))}
             B == {f[i] : i \in 1..Len(f)}
             C == {g[i] : i \in 1..Len(g)}
  <2>4. A \subseteq B \cup C
    BY <2>1
  <2>5. B \subseteq A
    BY <2>2
  <2>6. C \subseteq A
    BY <2>3
  <2> QED
    BY <2>4, <2>5, <2>6
<1>7. ASSUME Clean(g) PROVE Clean(f \o g)
  BY <1>1, <1>7 DEF Clean
<1> QED
  BY <1>1, <1>2, <1>5, <1>6, <1>7 DEF Items

LEMMA AppendedFile ==
    ASSUME NEW f, Clean(f), NEW r \in Kept
    PROVE  Clean(Append(f, r)) /\ Items(Append(f, r)) = Items(f) \cup {r} /\ Append(f, r) # <<>>
<1>1. <<r>> \in Seq(Kept) /\ Append(f, r) = f \o <<r>> /\ Append(f, r) # <<>>
  BY DEF Clean
<1>2. Clean(<<r>>) /\ Items(<<r>>) = {r}
  BY <1>1, CleanFile DEF Clean
<1> QED
  BY <1>1, <1>2, CleanFile, JoinedFiles

\* The file once the buffer and the record are out.
LEMMA WrittenFile ==
    ASSUME NEW f, NEW b, Neat(f), Clean(b), b = <<>> => Clean(f), NEW r \in Kept
    PROVE  /\ Clean(Written(f, b, r)) /\ Neat(Written(f, b, r))
           /\ Items(Written(f, b, r)) = Items(f) \cup Items(b) \cup {r}
<1>1. Clean(Whole(f, b) \o b) /\ Items(Whole(f, b) \o b) = Items(f) \cup Items(b)
  BY WholeFile, JoinedFiles, CleanFile
<1> QED
  BY <1>1, AppendedFile, CleanFile DEF Written

\* A failed write: what was whole stays, what is new was due, and a half record has
\* its rest in the buffer.
LEMMA HalfFile ==
    ASSUME NEW f, NEW b, Neat(f), Clean(b), b = <<>> => Clean(f), NEW r \in Kept,
           NEW half \in HalfWritten(f, b, r)
    PROVE  /\ Neat(half.file) /\ Clean(half.rest)
           /\ half.rest = <<>> => Clean(half.file)
           /\ Items(f) \subseteq Items(half.file)
           /\ Items(half.file) \subseteq Items(f) \cup Items(b) \cup {r}
           /\ Items(half.rest) \subseteq Items(b) \cup {r}
<1> DEFINE due == Append(b, r)
<1>1. Clean(due) /\ Items(due) = Items(b) \cup {r}
  BY AppendedFile
<1>2. PICK n \in 0..Len(due), torn \in BOOLEAN :
        half = [file |-> Whole(f, b) \o Cut(due, n, n < Len(due) /\ torn),
                rest |-> SubSeq(due, n + 1, Len(due))]
  BY DEF HalfWritten
<1> HIDE DEF due
<1>3. /\ Len(due) \in Nat /\ DOMAIN due = 1..Len(due) /\ due \in Seq(Kept)
      /\ n \in Nat /\ n <= Len(due)
  BY <1>1, <1>2 DEF Clean
<1>4. Clean(SubSeq(due, 1, n)) /\ Items(SubSeq(due, 1, n)) \subseteq Items(due)
  <2> DEFINE g == SubSeq(due, 1, n)
  <2>1. g \in Seq(Kept) /\ DOMAIN g = 1..n /\ \A i \in 1..n : g[i] = due[i] /\ i \in 1..Len(due)
    BY <1>3
  <2>2. Clean(g) /\ Items(g) = {g[i] : i \in 1..n}
    BY <2>1, CleanFile DEF Clean
  <2> HIDE DEF g
  <2>3. Items(g) \subseteq Items(due)
    BY <1>1, <1>3, <2>1, <2>2, CleanFile
  <2> QED
    BY <2>2, <2>3 DEF g
<1>5. Clean(half.rest) /\ Items(half.rest) \subseteq Items(due) /\ (half.rest = <<>> => n = Len(due))
  <2> DEFINE g == SubSeq(due, n + 1, Len(due))
  <2>1. /\ g \in Seq(Kept) /\ Len(g) = Len(due) - n /\ DOMAIN g = 1..(Len(due) - n)
        /\ \A i \in 1..(Len(due) - n) : g[i] = due[n + i] /\ n + i \in 1..Len(due)
    <3>1. n + 1 \in 1..(Len(due) + 1) /\ n \in Nat /\ n <= Len(due)
      BY <1>3
    <3>2. g \in Seq(Kept) /\ Len(g) = Len(due) - n
      BY <1>3, <3>1, SubSeqProperties
    <3>3. \A i \in 1..(Len(due) - n) : g[i] = due[(n + 1) + i - 1] /\ n + i \in 1..Len(due)
      <4>1. \A i \in (n + 1)..Len(due) : due[i] \in Kept
        BY <1>3
      <4>2. \A i \in 1..(Len(due) - (n + 1) + 1) : g[i] = due[(n + 1) + i - 1]
        BY <1>3, <4>1, SubSeqProperties
      <4>3. Len(due) - (n + 1) + 1 = Len(due) - n
        BY <1>3
      <4> HIDE DEF g
      <4>4. \A i \in 1..(Len(due) - n) : n + i \in 1..Len(due)
        BY <1>3
      <4> QED
        BY <4>2, <4>3, <4>4
    <3>4. \A i \in 1..(Len(due) - n) : (n + 1) + i - 1 = n + i
      BY <3>1
    <3> QED
      BY <3>2, <3>3, <3>4
  <2>2. Clean(g) /\ Items(g) = {g[i] : i \in 1..(Len(due) - n)}
    BY <2>1, CleanFile DEF Clean
  <2>3. half.rest = g
    BY <1>2
  <2> HIDE DEF g
  <2>4. Items(g) \subseteq Items(due)
    BY <1>1, <1>3, <2>1, <2>2, CleanFile
  <2>5. g = <<>> => n = Len(due)
    <3>1. g = <<>> => Len(due) - n = 0
      BY <2>1
    <3>2. \A x, y \in Nat : x - y = 0 => y = x
      OBVIOUS
    <3>3. n \in Nat /\ Len(due) \in Nat
      BY <1>3
    <3> QED
      BY <3>1, <3>2, <3>3
  <2> QED
    BY <2>2, <2>3, <2>4, <2>5
<1>6. /\ Neat(Cut(due, n, n < Len(due) /\ torn))
      /\ Items(Cut(due, n, n < Len(due) /\ torn)) \subseteq Items(due)
      /\ n = Len(due) => Clean(Cut(due, n, n < Len(due) /\ torn))
  <2>1. CASE n < Len(due) /\ torn
    <3>1. Neat(<<Torn>>) /\ Items(<<Torn>>) = {}
      BY DEF Neat, Items
    <3>2. Cut(due, n, n < Len(due) /\ torn) = SubSeq(due, 1, n) \o <<Torn>>
      BY <2>1 DEF Cut
    <3>3. /\ Neat(SubSeq(due, 1, n) \o <<Torn>>)
          /\ Items(SubSeq(due, 1, n) \o <<Torn>>) = Items(SubSeq(due, 1, n)) \cup {}
      BY <1>4, <3>1, JoinedFiles
    <3>4. n # Len(due)
      <4>1. \A x, y \in Nat : x < y => x # y
        OBVIOUS
      <4>2. n \in Nat /\ Len(due) \in Nat /\ n < Len(due)
        BY <1>3, <2>1
      <4> QED
        BY <4>1, <4>2
    <3> QED
      BY <1>4, <3>2, <3>3, <3>4
  <2>2. CASE ~(n < Len(due) /\ torn)
    <3>1. Cut(due, n, n < Len(due) /\ torn) = SubSeq(due, 1, n) \o <<>>
      BY <2>2 DEF Cut
    <3>2. SubSeq(due, 1, n) \o <<>> = SubSeq(due, 1, n)
      BY <1>4 DEF Clean
    <3> QED
      BY <1>4, <3>1, <3>2, CleanFile
  <2> QED
    BY <2>1, <2>2
<1>7. half.file = Whole(f, b) \o Cut(due, n, n < Len(due) /\ torn)
  BY <1>2
<1>8. /\ Neat(half.file) /\ Items(half.file) = Items(f) \cup Items(Cut(due, n, n < Len(due) /\ torn))
      /\ n = Len(due) => Clean(half.file)
  BY <1>6, <1>7, WholeFile, JoinedFiles
<1> QED
  BY <1>1, <1>5, <1>6, <1>8

LEMMA ClosedFile ==
    ASSUME NEW f, NEW b, Neat(f), Clean(b), b = <<>> => Clean(f), NEW c \in Closed(f, b)
    PROVE  Neat(c) /\ Items(f) \subseteq Items(c) /\ Items(c) \subseteq Items(f) \cup Items(b)
<1>1. CASE c = f
  BY <1>1
<1>2. CASE c = Whole(f, b) \o b
  <2>1. Clean(Whole(f, b)) /\ Items(Whole(f, b)) = Items(f) /\ Neat(b)
    BY WholeFile, CleanFile
  <2> QED
    BY <1>2, <2>1, JoinedFiles
<1> QED
  BY <1>1, <1>2 DEF Closed
-----------------------------------------------------------------------------
(* What the operations make of the segments and of the marks.              *)

\* One segment is rewritten, another perhaps begun.
LEMMA FileReplaced ==
    ASSUME Typed, isOpen, NEW c, NEW g, g = [files EXCEPT ![segment] = c]
    PROVE  /\ DOMAIN g = DOMAIN files /\ g[segment] = c
           /\ \A i \in DOMAIN files : i # segment => g[i] = files[i]
           /\ g = [i \in DOMAIN g |-> g[i]]
BY DEF Typed, Segments

LEMMA FileAdded ==
    ASSUME NEW g, g = [i \in DOMAIN g |-> g[i]], NEW n, n \notin DOMAIN g, NEW x,
           NEW h, h = WithFile(g, n, x)
    PROVE  /\ DOMAIN h = DOMAIN g \cup {n} /\ h[n] = x
           /\ \A i \in DOMAIN g : h[i] = g[i]
           /\ h = [i \in DOMAIN h |-> h[i]]
BY DEF WithFile

\* The disk gains records of the buffer and new ones, each in one segment.
Retains ==
    /\ DOMAIN files \subseteq DOMAIN files'
    /\ \A i \in DOMAIN files : Items(files[i]) \subseteq Items(files'[i])

Within(k, new) ==
    \A i \in DOMAIN files' : Items(files'[i]) \subseteq
         (IF i \in DOMAIN files THEN Items(files[i]) ELSE {})
           \cup (IF i = segment THEN Items(unwritten) ELSE {})
           \cup (IF i = k THEN new ELSE {})

Gains(k, new) == Retains /\ Within(k, new)

\* The marks: a new one, or the last one raised.
MarkRaised(s) ==
    /\ highs' \in Seq([index : Nat, high : 0..MaxSeq])
    /\ Len(highs') = Len(highs)
    /\ \A i \in 1..Len(highs) : highs'[i].index = highs[i].index
    /\ \A i \in 1..(Len(highs) - 1) : highs'[i] = highs[i]
    /\ highs'[Len(highs)].high = s

MarkAdded(s) ==
    /\ highs' \in Seq([index : Nat, high : 0..MaxSeq])
    /\ Len(highs') = Len(highs) + 1
    /\ \A i \in 1..Len(highs) : highs'[i] = highs[i]
    /\ highs'[Len(highs) + 1].index = segment + 1 /\ highs'[Len(highs) + 1].high = s

LEMMA MarksMove ==
    ASSUME Typed, isOpen, NEW s \in 0..MaxSeq
    PROVE  /\ highs' = WithHigh(highs, s) => MarkRaised(s)
           /\ highs' = WithHigh(Append(highs, NewSegment(segment + 1)), s) => MarkAdded(s)
           /\ highs' = Append(highs, NewSegment(segment + 1)) => MarkAdded(0)
<1> DEFINE MM == [index : Nat, high : 0..MaxSeq]
<1>1. highs \in Seq(MM) /\ Len(highs) \in Nat \ {0} /\ segment \in Nat /\ 0 \in 0..MaxSeq
  BY JournalAssumption DEF Typed, Counters, Segments
<1>2. NewSegment(segment + 1) \in MM /\ NewSegment(segment + 1).index = segment + 1
      /\ NewSegment(segment + 1).high = 0
  BY <1>1 DEF NewSegment
<1>3. ASSUME NEW hs \in Seq(MM), Len(hs) \in Nat \ {0}
      PROVE  /\ WithHigh(hs, s) \in Seq(MM) /\ Len(WithHigh(hs, s)) = Len(hs)
             /\ \A i \in 1..Len(hs) : WithHigh(hs, s)[i].index = hs[i].index
             /\ \A i \in 1..(Len(hs) - 1) : WithHigh(hs, s)[i] = hs[i]
             /\ WithHigh(hs, s)[Len(hs)].high = s
  <2>1. hs[Len(hs)] \in MM
    <3>1. Len(hs) \in 1..Len(hs)
      BY <1>3
    <3> HIDE DEF MM
    <3> QED
      BY <3>1, ElementOfSeq
  <2> DEFINE m == [hs[Len(hs)] EXCEPT !.high = s]
  <2>2. m \in MM /\ m.high = s /\ m.index = hs[Len(hs)].index
    BY <2>1
  <2>3. WithHigh(hs, s) = [hs EXCEPT ![Len(hs)] = m]
    BY DEF WithHigh
  <2> HIDE DEF m
  <2> QED
    BY <1>3, <2>2, <2>3
<1>4. ASSUME highs' = WithHigh(highs, s) PROVE MarkRaised(s)
  BY <1>1, <1>3, <1>4 DEF MarkRaised
<1>5. LET hs == Append(highs, NewSegment(segment + 1))
      IN  /\ hs \in Seq(MM) /\ Len(hs) = Len(highs) + 1 /\ Len(hs) \in Nat \ {0}
          /\ \A i \in 1..Len(highs) : hs[i] = highs[i]
          /\ hs[Len(highs) + 1] = NewSegment(segment + 1)
  BY <1>1, <1>2
<1>6. ASSUME highs' = Append(highs, NewSegment(segment + 1)) PROVE MarkAdded(0)
  BY <1>1, <1>2, <1>5, <1>6 DEF MarkAdded
<1>7. ASSUME highs' = WithHigh(Append(highs, NewSegment(segment + 1)), s) PROVE MarkAdded(s)
  <2> DEFINE hs == Append(highs, NewSegment(segment + 1))
  <2>1. /\ hs \in Seq(MM) /\ Len(hs) = Len(highs) + 1 /\ Len(hs) \in Nat \ {0}
        /\ \A i \in 1..Len(highs) : hs[i] = highs[i]
        /\ hs[Len(highs) + 1] = NewSegment(segment + 1)
    BY <1>5
  <2>2. highs' = WithHigh(hs, s)
    BY <1>7
  <2> HIDE DEF hs
  <2>3. /\ highs' \in Seq(MM) /\ Len(highs') = Len(hs)
        /\ \A i \in 1..Len(hs) : highs'[i].index = hs[i].index
        /\ \A i \in 1..(Len(hs) - 1) : highs'[i] = hs[i]
        /\ highs'[Len(hs)].high = s
    BY <1>3, <2>1, <2>2
  <2>4. Len(hs) - 1 = Len(highs) /\ Len(highs) + 1 \in 1..Len(hs)
    BY <1>1, <2>1
  <2> QED
    BY <1>2, <2>1, <2>3, <2>4 DEF MarkAdded
<1> QED
  BY <1>4, <1>6, <1>7

LEMMA MarkIsTyped ==
    ASSUME Counters, NEW i \in 1..Len(highs)
    PROVE  highs[i].index \in Nat /\ highs[i].high \in 0..MaxSeq
<1> DEFINE MM == [index : Nat, high : 0..MaxSeq]
<1>1. highs \in Seq(MM)
  BY DEF Counters
<1> HIDE DEF MM
<1>2. highs[i] \in MM
  BY <1>1, ElementOfSeq
<1> QED
  BY <1>2 DEF MM

\* What an operation that keeps the journal open must see to.
LEMMA SegmentsWhenOpen ==
    ASSUME Typed, isOpen, isOpen', up', ~ended',
           DOMAIN files' = DOMAIN files \cup {segment'},
           files' = [i \in DOMAIN files' |-> files'[i]],
           \A i \in DOMAIN files' : Neat(files'[i]),
           Clean(unwritten'), unwritten' = <<>> => Clean(files'[segment']),
           \/ segment' = segment /\ (UNCHANGED highs \/ \E h \in 0..MaxSeq : MarkRaised(h))
           \/ segment' = segment + 1 /\ \E h \in 0..MaxSeq : MarkAdded(h)
    PROVE  Segments'
<1>1. segment \in Nat /\ segment \in DOMAIN files /\ Len(highs) \in Nat \ {0}
  BY DEF Typed, Counters, Segments
<1>2. \E n \in Nat : DOMAIN files' \subseteq 1..n
  <2>1. PICK n \in Nat : DOMAIN files \subseteq 1..n
    BY DEF Typed, Segments
  <2>2. DOMAIN files' \subseteq 1..(n + 1)
    BY <1>1, <2>1
  <2> QED
    BY <2>1, <2>2
<1>3. segment' \in DOMAIN files' /\ \A i \in DOMAIN files' : i <= segment'
  <2>1. \A i \in DOMAIN files : i \in Nat /\ i <= segment
    BY DEF Typed, Segments
  <2> QED
    BY <1>1, <2>1
<1> DEFINE Ordered ==
             /\ highs' # <<>> /\ highs'[Len(highs')].index = segment'
             /\ \A i, j \in 1..Len(highs') : i < j => highs'[i].index < highs'[j].index
<1>4. Ordered
  <2>0. \A i \in 1..Len(highs) : highs[i].index \in Nat
    BY MarkIsTyped DEF Typed
  <2>1. /\ highs[Len(highs)].index = segment
        /\ \A i, j \in 1..Len(highs) : i < j => highs[i].index < highs[j].index
        /\ \A i \in 1..Len(highs) : highs[i].index \in Nat
    BY <2>0 DEF Typed, Segments
  <2>2. CASE UNCHANGED <<highs, segment>>
    BY <2>1, <2>2 DEF Typed, Segments
  <2>3. ASSUME segment' = segment, NEW h \in 0..MaxSeq, MarkRaised(h) PROVE Ordered
    <3>1. Len(highs') = Len(highs) /\ \A i \in 1..Len(highs) : highs'[i].index = highs[i].index
      BY <2>3 DEF MarkRaised
    <3>2. highs' # <<>> /\ Len(highs) \in 1..Len(highs)
      BY <1>1, <3>1
    <3> QED
      BY <1>1, <2>1, <2>3, <3>1, <3>2
  <2>4. ASSUME segment' = segment + 1, NEW h \in 0..MaxSeq, MarkAdded(h) PROVE Ordered
    <3>1. /\ Len(highs') = Len(highs) + 1 /\ highs'[Len(highs) + 1].index = segment + 1
          /\ \A i \in 1..Len(highs) : highs'[i].index = highs[i].index
      BY <2>4 DEF MarkAdded
    <3>2. \A i \in 1..Len(highs) : highs[i].index <= segment
      BY <1>1, <2>1
    <3>3. \A i, j \in 1..Len(highs') : i < j => highs'[i].index < highs'[j].index
      <4> SUFFICES ASSUME NEW i \in 1..Len(highs'), NEW j \in 1..Len(highs'), i < j
                   PROVE  highs'[i].index < highs'[j].index
        OBVIOUS
      <4>1. i \in 1..Len(highs) /\ (j \in 1..Len(highs) \/ j = Len(highs) + 1)
        BY <1>1, <3>1
      <4>2. CASE j \in 1..Len(highs)
        BY <2>1, <3>1, <4>1, <4>2
      <4>3. CASE j = Len(highs) + 1
        <5>1. highs'[i].index = highs[i].index /\ highs'[j].index = segment + 1
          BY <3>1, <4>1, <4>3
        <5>2. highs[i].index <= segment /\ highs[i].index \in Nat
          BY <2>1, <3>2, <4>1
        <5> QED
          BY <1>1, <5>1, <5>2
      <4> QED
        BY <4>1, <4>2, <4>3
    <3>4. highs' # <<>>
      BY <1>1, <3>1
    <3> QED
      BY <2>4, <3>1, <3>3, <3>4
  <2>5. CASE segment' = segment /\ UNCHANGED highs
    BY <2>2, <2>5
  <2>6. CASE segment' = segment /\ \E h \in 0..MaxSeq : MarkRaised(h)
    <3>1. PICK h \in 0..MaxSeq : MarkRaised(h)
      BY <2>6
    <3> QED
      BY <2>3, <2>6, <3>1
  <2>7. CASE segment' = segment + 1 /\ \E h \in 0..MaxSeq : MarkAdded(h)
    <3>1. PICK h \in 0..MaxSeq : MarkAdded(h)
      BY <2>7
    <3> QED
      BY <2>4, <2>7, <3>1
  <2> QED
    BY <2>5, <2>6, <2>7
<1> QED
  BY <1>2, <1>3, <1>4 DEF Segments

\* The open file and its buffer.
LEMMA OpenFile ==
    ASSUME Typed, isOpen
    PROVE  /\ Neat(files[segment]) /\ Clean(unwritten)
           /\ unwritten = <<>> => Clean(files[segment])
           /\ segment \in DOMAIN files /\ segment + 1 \notin DOMAIN files /\ segment \in Nat
           /\ Clean(SegmentHead) /\ Neat(SegmentHead) /\ Items(SegmentHead) = {Meta}
           /\ SegmentHead # <<>>
<1>1. segment \in DOMAIN files /\ segment \in Nat /\ \A i \in DOMAIN files : i <= segment
  BY DEF Typed, Counters, Segments
<1>2. segment + 1 \notin DOMAIN files
  BY <1>1
<1>3. Clean(<<Meta>>) /\ Items(<<Meta>>) = {Meta}
  <2>1. Clean(<<Meta>>)
    BY RecordKinds DEF Clean
  <2> QED
    BY <2>1, CleanFile
<1> QED
  BY <1>1, <1>2, <1>3, CleanFile DEF Typed, Segments, SegmentHead

\* What happens to a rewritten segment, and to one that is begun.
LEMMA GainsWithin ==
    ASSUME Typed, isOpen, NEW c, NEW new, Items(files[segment]) \subseteq Items(c),
           Items(c) \subseteq Items(files[segment]) \cup Items(unwritten) \cup new,
           files' = [files EXCEPT ![segment] = c]
    PROVE  Gains(segment, new) /\ DOMAIN files' = DOMAIN files
BY FileReplaced, OpenFile DEF Gains, Retains, Within

LEMMA GainsAnother ==
    ASSUME Typed, isOpen, NEW c, NEW x, NEW new, Items(files[segment]) \subseteq Items(c),
           Items(c) \subseteq Items(files[segment]) \cup Items(unwritten),
           Items(x) \subseteq new, Neat(c), Neat(x),
           files' = WithFile([files EXCEPT ![segment] = c], segment + 1, x)
    PROVE  /\ Gains(segment + 1, new)
           /\ DOMAIN files' = DOMAIN files \cup {segment + 1} /\ files'[segment + 1] = x
           /\ files'[segment] = c
           /\ files' = [i \in DOMAIN files' |-> files'[i]]
           /\ \A i \in DOMAIN files' : Neat(files'[i])
<1> DEFINE g == [files EXCEPT ![segment] = c]
<1>1. /\ DOMAIN g = DOMAIN files /\ g[segment] = c /\ g = [i \in DOMAIN g |-> g[i]]
      /\ \A i \in DOMAIN files : i # segment => g[i] = files[i]
  BY FileReplaced
<1>2. files' = WithFile(g, segment + 1, x)
  OBVIOUS
<1> HIDE DEF g
<1>3. segment + 1 \notin DOMAIN g
  BY <1>1, OpenFile
<1>4. /\ DOMAIN files' = DOMAIN g \cup {segment + 1} /\ files'[segment + 1] = x
      /\ \A i \in DOMAIN g : files'[i] = g[i]
      /\ files' = [i \in DOMAIN files' |-> files'[i]]
  <2> DEFINE h == files'
  <2>1. h = WithFile(g, segment + 1, x)
    BY <1>2
  <2> HIDE DEF h
  <2>2. /\ DOMAIN h = DOMAIN g \cup {segment + 1} /\ h[segment + 1] = x
        /\ \A i \in DOMAIN g : h[i] = g[i]
        /\ h = [i \in DOMAIN h |-> h[i]]
    BY <1>1, <1>3, <2>1 DEF WithFile
  <2> QED
    BY <2>2 DEF h
<1>5. \A i \in DOMAIN files' : Neat(files'[i])
  BY <1>1, <1>4 DEF Typed, Segments
<1>6. segment # segment + 1 /\ segment \in DOMAIN files
  BY OpenFile
<1>7. Gains(segment + 1, new)
  BY <1>1, <1>3, <1>4, <1>6 DEF Gains, Retains, Within
<1> QED
  BY <1>1, <1>4, <1>5, <1>6, <1>7

\* A packet that is appended.
LEMMA PacketAppended ==
    ASSUME Typed, NEW s \in Seqs, AppendPacket(s)
    PROVE  /\ Segments' /\ Gains(segment', {Packet(s), Meta}) /\ unwritten' = <<>>
           /\ Packet(s) \in Items(files'[segment'])
           /\ \/ segment' = segment /\ MarkRaised(s)
              \/ segment' = segment + 1 /\ MarkAdded(s) /\ Meta \in Items(files'[segment'])
<1>1. isOpen /\ up /\ ~ended /\ isOpen' /\ up' /\ ~ended' /\ unwritten' = <<>>
  BY DEF AppendPacket
<1>2. s \in 0..MaxSeq /\ Packet(s) \in Kept /\ Record("packet", s) = Packet(s)
  BY RecordKinds, JournalAssumption DEF Seqs, Packet
<1>3. Clean(<<>>) /\ unwritten' = <<>>
  BY <1>1, EmptyFile
<1>4. CASE /\ files' = [files EXCEPT ![segment] = Written(files[segment], unwritten, Packet(s))]
           /\ highs' = WithHigh(highs, s) /\ segment' = segment
  <2> DEFINE c == Written(files[segment], unwritten, Packet(s))
  <2>1. Clean(c) /\ Neat(c) /\ Items(c) = Items(files[segment]) \cup Items(unwritten) \cup {Packet(s)}
    <3>1. /\ Neat(files[segment]) /\ Clean(unwritten)
          /\ unwritten = <<>> => Clean(files[segment])
      BY <1>1, OpenFile
    <3> QED
      BY <1>2, <3>1, WrittenFile
  <2>2. files' = [files EXCEPT ![segment] = c]
    BY <1>4
  <2> HIDE DEF c
  <2>3. Gains(segment, {Packet(s), Meta}) /\ DOMAIN files' = DOMAIN files
    BY <1>1, <2>1, <2>2, GainsWithin
  <2>4. /\ files'[segment] = c /\ files' = [i \in DOMAIN files' |-> files'[i]]
        /\ \A i \in DOMAIN files : i # segment => files'[i] = files[i]
    BY <1>1, <2>2, FileReplaced
  <2>5. \A i \in DOMAIN files' : Neat(files'[i])
    BY <2>1, <2>3, <2>4 DEF Typed, Segments
  <2>6. MarkRaised(s)
    BY <1>1, <1>2, <1>4, MarksMove
  <2>7. DOMAIN files' = DOMAIN files \cup {segment'}
    BY <1>1, <1>4, <2>3, OpenFile
  <2>8. Segments'
    BY <1>1, <1>2, <1>3, <1>4, <2>1, <2>4, <2>5, <2>6, <2>7, SegmentsWhenOpen
  <2> QED
    BY <1>3, <1>4, <2>1, <2>3, <2>4, <2>6, <2>8
<1>5. ASSUME NEW old \in Closed(files[segment], unwritten),
             files' = WithFile([files EXCEPT ![segment] = old], segment + 1,
                               Append(SegmentHead, Packet(s))),
             highs' = WithHigh(Append(highs, NewSegment(segment + 1)), s),
             segment' = segment + 1
      PROVE  /\ Segments' /\ Gains(segment', {Packet(s), Meta})
             /\ Packet(s) \in Items(files'[segment']) /\ Meta \in Items(files'[segment'])
             /\ MarkAdded(s)
  <2> DEFINE x == Append(SegmentHead, Packet(s))
  <2>1. Clean(x) /\ Neat(x) /\ Items(x) = {Meta, Packet(s)}
    BY <1>1, <1>2, OpenFile, AppendedFile, CleanFile
  <2>2. Neat(old) /\ Items(files[segment]) \subseteq Items(old)
        /\ Items(old) \subseteq Items(files[segment]) \cup Items(unwritten)
    BY <1>1, <1>5, OpenFile, ClosedFile
  <2>3. files' = WithFile([files EXCEPT ![segment] = old], segment + 1, x)
    BY <1>5
  <2> HIDE DEF x
  <2>4. /\ Gains(segment + 1, {Packet(s), Meta})
        /\ DOMAIN files' = DOMAIN files \cup {segment + 1} /\ files'[segment + 1] = x
        /\ files' = [i \in DOMAIN files' |-> files'[i]]
        /\ \A i \in DOMAIN files' : Neat(files'[i])
    BY <1>1, <2>1, <2>2, <2>3, GainsAnother
  <2>5. MarkAdded(s)
    BY <1>1, <1>2, <1>5, MarksMove
  <2>6. Segments'
    BY <1>1, <1>2, <1>3, <1>5, <2>1, <2>4, <2>5, SegmentsWhenOpen
  <2> QED
    BY <1>5, <2>1, <2>4, <2>5, <2>6
<1> QED
  BY <1>2, <1>3, <1>4, <1>5 DEF AppendPacket

-----------------------------------------------------------------------------
(* What the failing writes, the end, a crash and a restart make of them.   *)

\* A write that fails in the open segment.
LEMMA WriteCut ==
    ASSUME Typed, isOpen, NEW r \in Kept,
           NEW half \in HalfWritten(files[segment], unwritten, r),
           files' = [files EXCEPT ![segment] = half.file]
    PROVE  /\ Gains(segment, {r}) /\ DOMAIN files' = DOMAIN files
           /\ files'[segment] = half.file
           /\ files' = [i \in DOMAIN files' |-> files'[i]]
           /\ \A i \in DOMAIN files' : Neat(files'[i])
           /\ Clean(half.rest) /\ Items(half.rest) \subseteq Items(unwritten) \cup {r}
           /\ half.rest = <<>> => Clean(half.file)
<1>1. /\ Neat(half.file) /\ Clean(half.rest)
      /\ half.rest = <<>> => Clean(half.file)
      /\ Items(files[segment]) \subseteq Items(half.file)
      /\ Items(half.file) \subseteq Items(files[segment]) \cup Items(unwritten) \cup {r}
      /\ Items(half.rest) \subseteq Items(unwritten) \cup {r}
  BY OpenFile, HalfFile
<1>2. Gains(segment, {r}) /\ DOMAIN files' = DOMAIN files
  BY <1>1, GainsWithin
<1>3. /\ files'[segment] = half.file /\ files' = [i \in DOMAIN files' |-> files'[i]]
      /\ \A i \in DOMAIN files : i # segment => files'[i] = files[i]
  BY FileReplaced
<1>4. \A i \in DOMAIN files' : Neat(files'[i])
  BY <1>1, <1>2, <1>3 DEF Typed, Segments
<1> QED
  BY <1>1, <1>2, <1>3, <1>4

\* A write that fails in a segment just begun.
LEMMA HeadCut ==
    ASSUME Typed, isOpen, NEW r \in Kept, NEW head, head \in {<<>>, SegmentHead},
           NEW half \in HalfWritten(head, <<>>, r), NEW old \in Closed(files[segment], unwritten),
           files' = WithFile([files EXCEPT ![segment] = old], segment + 1, half.file)
    PROVE  /\ Gains(segment + 1, {r, Meta}) /\ DOMAIN files' = DOMAIN files \cup {segment + 1}
           /\ files'[segment + 1] = half.file
           /\ files' = [i \in DOMAIN files' |-> files'[i]]
           /\ \A i \in DOMAIN files' : Neat(files'[i])
           /\ Clean(half.rest) /\ Items(half.rest) \subseteq {r}
           /\ half.rest = <<>> => Clean(half.file)
<1>1. Clean(head) /\ Neat(head) /\ Items(head) \subseteq {Meta}
  BY OpenFile, EmptyFile
<1>2. /\ Neat(half.file) /\ Clean(half.rest)
      /\ half.rest = <<>> => Clean(half.file)
      /\ Items(half.file) \subseteq Items(head) \cup Items(<<>>) \cup {r}
      /\ Items(half.rest) \subseteq Items(<<>>) \cup {r}
  BY <1>1, EmptyFile, HalfFile
<1>3. Items(half.file) \subseteq {r, Meta} /\ Items(half.rest) \subseteq {r}
  BY <1>1, <1>2, EmptyFile
<1>4. /\ Neat(old) /\ Items(files[segment]) \subseteq Items(old)
      /\ Items(old) \subseteq Items(files[segment]) \cup Items(unwritten)
  BY OpenFile, ClosedFile
<1>5. /\ Gains(segment + 1, {r, Meta})
      /\ DOMAIN files' = DOMAIN files \cup {segment + 1} /\ files'[segment + 1] = half.file
      /\ files' = [i \in DOMAIN files' |-> files'[i]]
      /\ \A i \in DOMAIN files' : Neat(files'[i])
  BY <1>2, <1>3, <1>4, GainsAnother
<1> QED
  BY <1>2, <1>3, <1>5

\* A packet whose append fails: the mark of the segment is left as it was.
LEMMA PacketFailed ==
    ASSUME Typed, NEW s \in Seqs, AppendPacketFails(s)
    PROVE  /\ Segments' /\ \E k \in {segment, segment + 1} :
                Gains(k, {Packet(s), Meta}) /\ (isOpen' => k = segment')
           /\ Items(unwritten') \subseteq Items(unwritten) \cup {Packet(s), Meta}
           /\ isOpen' => \/ segment' = segment /\ UNCHANGED highs
                         \/ segment' = segment + 1 /\ MarkAdded(0)
<1>1. isOpen /\ up /\ ~ended /\ up' /\ ~ended'
  BY DEF AppendPacketFails
<1>2. 0 \in 0..MaxSeq /\ Packet(s) \in Kept /\ Meta \in Kept /\ Record("packet", s) = Packet(s)
  BY RecordKinds, JournalAssumption DEF Packet
<1>3. ASSUME CannotWrite(s), isOpen'
      PROVE  /\ Segments' /\ Gains(segment, {Packet(s), Meta})
             /\ Items(unwritten') \subseteq Items(unwritten) \cup {Packet(s), Meta}
  <2>1. PICK half \in HalfWritten(files[segment], unwritten, Packet(s)) :
          files' = [files EXCEPT ![segment] = half.file] /\ unwritten' = half.rest
    BY <1>2, <1>3 DEF CannotWrite
  <2>2. segment' = segment /\ UNCHANGED highs
    BY <1>3 DEF CannotWrite
  <2>3. /\ Gains(segment, {Packet(s)}) /\ DOMAIN files' = DOMAIN files
        /\ files'[segment] = half.file
        /\ files' = [i \in DOMAIN files' |-> files'[i]]
        /\ \A i \in DOMAIN files' : Neat(files'[i])
        /\ Clean(half.rest) /\ Items(half.rest) \subseteq Items(unwritten) \cup {Packet(s)}
        /\ half.rest = <<>> => Clean(half.file)
    BY <1>1, <1>2, <2>1, WriteCut
  <2>4. DOMAIN files' = DOMAIN files \cup {segment'}
    BY <1>1, <2>2, <2>3, OpenFile
  <2>5. Segments'
    BY <1>1, <1>3, <2>1, <2>2, <2>3, <2>4, SegmentsWhenOpen
  <2>6. Gains(segment, {Packet(s), Meta})
    BY <2>3 DEF Gains, Within
  <2> QED
    BY <2>1, <2>3, <2>5, <2>6
<1>4. ASSUME NEW r \in {Meta, Packet(s)}, NEW head, head \in {<<>>, SegmentHead},
             NEW old \in Closed(files[segment], unwritten), NEW half \in HalfWritten(head, <<>>, r),
             files' = WithFile([files EXCEPT ![segment] = old], segment + 1, half.file),
             unwritten' = half.rest, highs' = Append(highs, NewSegment(segment + 1)),
             segment' = segment + 1, isOpen'
      PROVE  /\ Segments' /\ Gains(segment + 1, {Packet(s), Meta}) /\ MarkAdded(0)
             /\ Items(unwritten') \subseteq Items(unwritten) \cup {Packet(s), Meta}
  <2>1. r \in Kept
    BY <1>2
  <2>2. /\ Gains(segment + 1, {r, Meta}) /\ DOMAIN files' = DOMAIN files \cup {segment + 1}
        /\ files'[segment + 1] = half.file
        /\ files' = [i \in DOMAIN files' |-> files'[i]]
        /\ \A i \in DOMAIN files' : Neat(files'[i])
        /\ Clean(half.rest) /\ Items(half.rest) \subseteq {r}
        /\ half.rest = <<>> => Clean(half.file)
    BY <1>1, <1>4, <2>1, HeadCut
  <2>3. MarkAdded(0)
    BY <1>1, <1>2, <1>4, MarksMove
  <2>4. Segments'
    BY <1>1, <1>2, <1>4, <2>2, <2>3, SegmentsWhenOpen
  <2>5. Gains(segment + 1, {Packet(s), Meta})
    BY <2>2 DEF Gains, Within
  <2> QED
    BY <1>4, <2>2, <2>3, <2>4, <2>5
<1>5. ASSUME CannotRotate, ~isOpen'
      PROVE  Segments' /\ Gains(segment, {Packet(s), Meta}) /\ unwritten' = <<>>
  <2>1. PICK old \in Closed(files[segment], unwritten) :
          files' = [files EXCEPT ![segment] = old] /\ unwritten' = <<>>
    BY <1>1, <1>5 DEF CannotRotate
  <2>2. /\ Neat(old) /\ Items(files[segment]) \subseteq Items(old)
        /\ Items(old) \subseteq Items(files[segment]) \cup Items(unwritten)
    BY <1>1, OpenFile, ClosedFile
  <2>3. Gains(segment, {Packet(s), Meta}) /\ DOMAIN files' = DOMAIN files
    BY <1>1, <2>1, <2>2, GainsWithin
  <2>4. /\ files'[segment] = old /\ files' = [i \in DOMAIN files' |-> files'[i]]
        /\ \A i \in DOMAIN files : i # segment => files'[i] = files[i]
    BY <1>1, <2>1, FileReplaced
  <2>5. /\ \A i \in DOMAIN files' : Neat(files'[i])
        /\ \E n \in Nat : DOMAIN files' \subseteq 1..n
    BY <2>2, <2>3, <2>4 DEF Typed, Segments
  <2> QED
    BY <1>5, <2>1, <2>3, <2>4, <2>5, EmptyFile DEF Segments
<1>6. ASSUME CannotRotate \/ CannotWriteAfterRotating(s), isOpen'
      PROVE  /\ Segments' /\ Gains(segment + 1, {Packet(s), Meta}) /\ MarkAdded(0)
             /\ Items(unwritten') \subseteq Items(unwritten) \cup {Packet(s), Meta}
             /\ segment' = segment + 1
  <2>1. CASE CannotRotate
    <3>1. PICK old \in Closed(files[segment], unwritten) :
            /\ \E half \in HalfWritten(<<>>, <<>>, Meta) :
                 /\ files' = WithFile([files EXCEPT ![segment] = old], segment + 1, half.file)
                 /\ unwritten' = half.rest
            /\ highs' = Append(highs, NewSegment(segment + 1))
      BY <1>6, <2>1 DEF CannotRotate
    <3>2. PICK half \in HalfWritten(<<>>, <<>>, Meta) :
            /\ files' = WithFile([files EXCEPT ![segment] = old], segment + 1, half.file)
            /\ unwritten' = half.rest
      BY <3>1
    <3>3. segment' = segment + 1
      BY <2>1 DEF CannotRotate
    <3> QED
      BY <1>4, <1>6, <3>1, <3>2, <3>3
  <2>2. CASE CannotWriteAfterRotating(s)
    <3>1. PICK old \in Closed(files[segment], unwritten) :
            \E half \in HalfWritten(SegmentHead, <<>>, Packet(s)) :
               /\ files' = WithFile([files EXCEPT ![segment] = old], segment + 1, half.file)
               /\ unwritten' = half.rest
      BY <1>2, <2>2 DEF CannotWriteAfterRotating
    <3>2. PICK half \in HalfWritten(SegmentHead, <<>>, Packet(s)) :
            /\ files' = WithFile([files EXCEPT ![segment] = old], segment + 1, half.file)
            /\ unwritten' = half.rest
      BY <3>1
    <3>3. segment' = segment + 1 /\ highs' = Append(highs, NewSegment(segment + 1))
      BY <2>2 DEF CannotWriteAfterRotating
    <3> QED
      BY <1>4, <1>6, <3>1, <3>2, <3>3
  <2> QED
    BY <1>6, <2>1, <2>2
<1>7. CannotRotate \/ CannotWrite(s) \/ CannotWriteAfterRotating(s)
  BY DEF AppendPacketFails
<1>8. CASE ~isOpen'
  <2>1. CannotRotate
    BY <1>1, <1>7, <1>8 DEF CannotWrite, CannotWriteAfterRotating
  <2> QED
    BY <1>5, <1>8, <2>1, EmptyFile
<1>9. CASE isOpen' /\ CannotWrite(s)
  <2>1. segment' = segment /\ UNCHANGED highs
    BY <1>9 DEF CannotWrite
  <2> QED
    BY <1>3, <1>9, <2>1
<1>10. CASE isOpen' /\ (CannotRotate \/ CannotWriteAfterRotating(s))
  BY <1>6, <1>10
<1> QED
  BY <1>7, <1>8, <1>9, <1>10

\* A Progress record that fails, and the records of the end.
LEMMA RecordFailed ==
    ASSUME Typed, isOpen, NEW r \in Kept, AppendFails(r), isOpen', up', ~ended',
           UNCHANGED <<segment, highs>>
    PROVE  /\ Segments' /\ Gains(segment, {r})
           /\ Items(unwritten') \subseteq Items(unwritten) \cup {r}
<1>1. PICK half \in HalfWritten(files[segment], unwritten, r) :
        files' = [files EXCEPT ![segment] = half.file] /\ unwritten' = half.rest
  BY DEF AppendFails
<1>2. /\ Gains(segment, {r}) /\ DOMAIN files' = DOMAIN files
      /\ files'[segment] = half.file
      /\ files' = [i \in DOMAIN files' |-> files'[i]]
      /\ \A i \in DOMAIN files' : Neat(files'[i])
      /\ Clean(half.rest) /\ Items(half.rest) \subseteq Items(unwritten) \cup {r}
      /\ half.rest = <<>> => Clean(half.file)
  BY <1>1, WriteCut
<1>3. DOMAIN files' = DOMAIN files \cup {segment'}
  BY <1>2, OpenFile
<1>4. Segments'
  BY <1>1, <1>2, <1>3, SegmentsWhenOpen
<1> QED
  BY <1>1, <1>2, <1>4

\* What is retired: the leading segments whose marks are below the Progress.
Retired(R) == {highs[i].index : i \in 1..R}

LEMMA RetiringLeading ==
    ASSUME Typed, isOpen, NEW s \in Seqs
    PROVE  /\ Retiring(s) \in 0..(Len(highs) - 1)
           /\ \A i \in 1..Retiring(s) : highs[i].high <= s
           /\ segment \notin Retired(Retiring(s))
<1>1. Len(highs) \in Nat \ {0}
  BY DEF Typed, Counters, Segments
<1>2. Retiring(s) \in 0..(Len(highs) - 1) /\ \A i \in 1..Retiring(s) : highs[i].high <= s
  <2>1. CASE Keep = "session"
    BY <1>1, <2>1 DEF Retiring
  <2>2. CASE Keep # "session"
    <3> DEFINE T == {k \in 0..(Len(highs) - 1) : \A i \in 1..k : highs[i].high \in 1..s}
    <3>1. 0 \in T /\ T \in SUBSET (0..(Len(highs) - 1)) /\ Len(highs) - 1 \in Nat
      BY <1>1
    <3>2. Retiring(s) = Max(T)
      BY <2>2 DEF Retiring
    <3>3. Max(T) \in T
      <4> HIDE DEF T
      <4> QED
        BY <3>1, MaxIsMember
    <3>4. Retiring(s) \in T
      BY <3>2, <3>3
    <3>5. s \in Nat
      BY JournalAssumption DEF Seqs
    <3> QED
      BY <3>4, <3>5
  <2> QED
    BY <2>1, <2>2
<1>3. ASSUME NEW i \in 1..Retiring(s) PROVE highs[i].index < segment
  <2>1. i \in 1..Len(highs) /\ Len(highs) \in 1..Len(highs) /\ i < Len(highs)
    BY <1>1, <1>2
  <2> QED
    BY <2>1 DEF Typed, Segments
<1>4. segment \in Nat
  BY DEF Typed, Counters
<1> QED
  BY <1>2, <1>3, <1>4 DEF Retired

\* The marks that are left of the segments that are left.
MarksShifted(R) ==
    /\ highs' \in Seq([index : Nat, high : 0..MaxSeq])
    /\ Len(highs') = Len(highs) - R
    /\ \A i \in 1..(Len(highs) - R) : highs'[i] = highs[R + i] /\ R + i \in 1..Len(highs)

LEMMA MarksRetired ==
    ASSUME Typed, isOpen, NEW R \in 0..(Len(highs) - 1), highs' = SubSeq(highs, R + 1, Len(highs))
    PROVE  MarksShifted(R)
<1> DEFINE MM == [index : Nat, high : 0..MaxSeq]
<1>1. highs \in Seq(MM) /\ Len(highs) \in Nat \ {0} /\ R \in Nat /\ R < Len(highs)
  <2>1. highs \in Seq(MM) /\ Len(highs) \in Nat \ {0}
    BY DEF Typed, Counters, Segments
  <2> QED
    BY <2>1
<1> HIDE DEF MM
<1>2. \A i \in (R + 1)..Len(highs) : highs[i] \in MM
  BY <1>1, ElementOfSeq
<1>3. /\ highs' \in Seq(MM) /\ Len(highs') = Len(highs) - R
  <2>1. R + 1 \in 1..(Len(highs) + 1)
    BY <1>1
  <2> QED
    BY <1>1, <1>2, <2>1, SubSeqProperties
<1>4. \A i \in 1..(Len(highs) - (R + 1) + 1) : highs'[i] = highs[(R + 1) + i - 1]
  BY <1>1, <1>2, SubSeqProperties
<1>5. /\ Len(highs) - (R + 1) + 1 = Len(highs) - R
      /\ \A i \in 1..(Len(highs) - R) : (R + 1) + i - 1 = R + i /\ R + i \in 1..Len(highs)
  BY <1>1
<1> QED
  BY <1>3, <1>4, <1>5 DEF MarksShifted, MM

\* A Progress record that is written, and the segments it retires.
LEMMA ProgressAppended ==
    ASSUME Typed, isOpen, NEW s \in Seqs, AppendProgress(s), isOpen', up', ~ended',
           UNCHANGED segment
    PROVE  /\ Segments' /\ Within(segment, {Progress(s)}) /\ unwritten' = <<>>
           /\ DOMAIN files' = DOMAIN files \ Retired(Retiring(s))
           /\ \A i \in DOMAIN files' : Items(files[i]) \subseteq Items(files'[i])
           /\ Progress(s) \in Items(files'[segment]) /\ segment \in DOMAIN files'
           /\ MarksShifted(Retiring(s))
<1> DEFINE R == Retiring(s)
           c == Written(files[segment], unwritten, Progress(s))
           w == [files EXCEPT ![segment] = c]
<1>1. /\ R \in 0..(Len(highs) - 1) /\ segment \notin Retired(R)
  BY RetiringLeading
<1>2. /\ files' = [i \in DOMAIN files \ Retired(R) |-> w[i]]
      /\ highs' = SubSeq(highs, R + 1, Len(highs)) /\ unwritten' = <<>>
  BY DEF AppendProgress, Retired, Progress
<1>3. Clean(c) /\ Neat(c) /\ Items(c) = Items(files[segment]) \cup Items(unwritten) \cup {Progress(s)}
  <2>1. /\ Neat(files[segment]) /\ Clean(unwritten)
        /\ unwritten = <<>> => Clean(files[segment])
    BY OpenFile
  <2>2. Progress(s) \in Kept
    BY RecordKinds
  <2> DEFINE d == Written(files[segment], unwritten, Progress(s))
  <2>3. Clean(d) /\ Neat(d) /\ Items(d) = Items(files[segment]) \cup Items(unwritten) \cup {Progress(s)}
    <3> HIDE DEF w, R
    <3> QED
      BY ONLY <2>1, <2>2, WrittenFile
  <2> QED
    BY <2>3
<1> HIDE DEF c
<1>4. /\ w[segment] = c /\ \A i \in DOMAIN files : i # segment => w[i] = files[i]
  BY FileReplaced
<1> HIDE DEF w, R
<1>5. /\ DOMAIN files' = DOMAIN files \ Retired(R)
      /\ \A i \in DOMAIN files' : files'[i] = w[i]
      /\ files' = [i \in DOMAIN files' |-> files'[i]]
  BY <1>2
<1>6. segment \in DOMAIN files' /\ files'[segment] = c
  BY <1>1, <1>4, <1>5, OpenFile
<1>7. \A i \in DOMAIN files' : i \in DOMAIN files /\ (i # segment => files'[i] = files[i])
  BY <1>4, <1>5
<1>8. Within(segment, {Progress(s)})
  BY <1>3, <1>6, <1>7 DEF Within
<1>9. \A i \in DOMAIN files' : Items(files[i]) \subseteq Items(files'[i]) /\ Neat(files'[i])
  BY <1>3, <1>6, <1>7 DEF Typed, Segments
<1>10. MarksShifted(R)
  BY <1>1, <1>2, MarksRetired
<1>11. /\ highs' # <<>> /\ highs'[Len(highs')].index = segment
       /\ \A i, j \in 1..Len(highs') : i < j => highs'[i].index < highs'[j].index
  <2>1. Len(highs) \in Nat \ {0} /\ R \in Nat /\ R < Len(highs)
    <3>1. Len(highs) \in Nat \ {0}
      BY DEF Typed, Counters, Segments
    <3> QED
      BY <1>1, <3>1
  <2>2. /\ Len(highs') = Len(highs) - R /\ Len(highs') \in Nat \ {0}
        /\ Len(highs') \in 1..(Len(highs) - R) /\ R + Len(highs') = Len(highs)
    BY <1>10, <2>1 DEF MarksShifted
  <2>3. highs'[Len(highs')] = highs[Len(highs)]
    BY <1>10, <2>2 DEF MarksShifted
  <2>4. highs' # <<>>
    BY <2>2
  <2>5. ASSUME NEW i \in 1..Len(highs'), NEW j \in 1..Len(highs'), i < j
        PROVE  highs'[i].index < highs'[j].index
    <3>1. /\ highs'[i] = highs[R + i] /\ highs'[j] = highs[R + j]
          /\ R + i \in 1..Len(highs) /\ R + j \in 1..Len(highs)
      BY <1>10, <2>2 DEF MarksShifted
    <3>2. R + i < R + j
      BY <2>1, <2>5
    <3> QED
      BY <3>1, <3>2 DEF Typed, Segments
  <2> QED
    BY <2>3, <2>4, <2>5 DEF Typed, Segments
<1>12. /\ \E n \in Nat : DOMAIN files' \subseteq 1..n
       /\ \A i \in DOMAIN files' : i <= segment
  BY <1>5 DEF Typed, Segments
<1>13. Segments'
  BY <1>2, <1>3, <1>5, <1>6, <1>9, <1>11, <1>12, EmptyFile DEF Segments
<1> QED
  BY <1>2, <1>3, <1>5, <1>6, <1>8, <1>9, <1>10, <1>13 DEF R

\* The end of a session.
LEMMA Ended ==
    ASSUME Typed, End
    PROVE  /\ Segments' /\ unwritten' = <<>> /\ Gains(segment, {Stopped})
           /\ DOMAIN files' = DOMAIN files
           /\ isOpen /\ UNCHANGED failures => segment \in DOMAIN files' /\ Stopped \in Items(files'[segment])
<1>1. ~isOpen' /\ unwritten' = <<>> /\ Clean(<<>>)
  BY EmptyFile DEF End
<1>2. CASE isOpen
  <2> DEFINE Closing(c) ==
               /\ Neat(c) /\ Items(files[segment]) \subseteq Items(c)
               /\ Items(c) \subseteq Items(files[segment]) \cup Items(unwritten) \cup {Stopped}
               /\ files' = [files EXCEPT ![segment] = c]
               /\ UNCHANGED failures => Stopped \in Items(c)
  <2>0. /\ Neat(files[segment]) /\ Clean(unwritten) /\ Stopped \in Kept
        /\ unwritten = <<>> => Clean(files[segment])
    BY <1>2, OpenFile, RecordKinds
  <2>1. \E c : Closing(c)
    <3>1. ASSUME files' = [files EXCEPT ![segment] = Written(files[segment], unwritten, Stopped)]
          PROVE  Closing(Written(files[segment], unwritten, Stopped))
      <4>1. /\ Neat(Written(files[segment], unwritten, Stopped))
            /\ Items(Written(files[segment], unwritten, Stopped)) =
                 Items(files[segment]) \cup Items(unwritten) \cup {Stopped}
        BY ONLY <2>0, WrittenFile
      <4> QED
        BY <3>1, <4>1
    <3>2. ASSUME DiskFails, NEW half \in HalfWritten(files[segment], unwritten, Stopped),
                 NEW f \in Closed(half.file, half.rest), files' = [files EXCEPT ![segment] = f]
          PROVE  Closing(f)
      <4>1. /\ Neat(half.file) /\ Clean(half.rest)
            /\ half.rest = <<>> => Clean(half.file)
            /\ Items(files[segment]) \subseteq Items(half.file)
            /\ Items(half.file) \subseteq Items(files[segment]) \cup Items(unwritten) \cup {Stopped}
            /\ Items(half.rest) \subseteq Items(unwritten) \cup {Stopped}
        BY ONLY <2>0, <3>2, HalfFile
      <4>2. Neat(f) /\ Items(half.file) \subseteq Items(f)
            /\ Items(f) \subseteq Items(half.file) \cup Items(half.rest)
        BY ONLY <3>2, <4>1, ClosedFile
      <4>3. failures' # failures
        BY <3>2 DEF DiskFails, Typed, Counters
      <4> QED
        BY <3>2, <4>1, <4>2, <4>3
    <3>3. \/ files' = [files EXCEPT ![segment] = Written(files[segment], unwritten, Stopped)]
          \/ /\ DiskFails
             /\ \E half \in HalfWritten(files[segment], unwritten, Stopped) :
                \E f \in Closed(half.file, half.rest) : files' = [files EXCEPT ![segment] = f]
      BY <1>2 DEF End
    <3> HIDE DEF Closing
    <3> QED
      BY <3>1, <3>2, <3>3
  <2>2. PICK c : Closing(c)
    BY <2>1
  <2>3. Gains(segment, {Stopped}) /\ DOMAIN files' = DOMAIN files
    BY <1>2, <2>2, GainsWithin
  <2>4. /\ files'[segment] = c /\ files' = [i \in DOMAIN files' |-> files'[i]]
        /\ \A i \in DOMAIN files : i # segment => files'[i] = files[i]
    BY <1>2, <2>2, FileReplaced
  <2>5. /\ \A i \in DOMAIN files' : Neat(files'[i])
        /\ \E n \in Nat : DOMAIN files' \subseteq 1..n
    BY <2>2, <2>3, <2>4 DEF Typed, Segments
  <2>6. Segments'
    BY <1>1, <2>4, <2>5 DEF Segments
  <2> QED
    BY <1>1, <1>2, <2>2, <2>3, <2>4, <2>6, OpenFile
<1>3. CASE ~isOpen
  <2>1. files' = files /\ unwritten' = unwritten
    BY <1>1, <1>3 DEF End, Typed, Segments
  <2>2. Gains(segment, {Stopped}) /\ DOMAIN files' = DOMAIN files
    BY <2>1 DEF Gains, Retains, Within
  <2>3. Segments'
    BY <1>1, <2>1 DEF Typed, Segments
  <2> QED
    BY <1>1, <1>3, <2>2, <2>3
<1> QED
  BY <1>2, <1>3

\* A file that is begun after the others.
LEMMA FileBegun ==
    ASSUME Typed, NEW n \in Nat, n >= 1, n \notin DOMAIN files, NEW x, Neat(x), NEW new,
           Items(x) \subseteq new, files' = WithFile(files, n, x)
    PROVE  /\ Gains(n, new) /\ DOMAIN files' = DOMAIN files \cup {n} /\ files'[n] = x
           /\ files' = [i \in DOMAIN files' |-> files'[i]]
           /\ \A i \in DOMAIN files' : Neat(files'[i])
           /\ \E m \in Nat : DOMAIN files' \subseteq 1..m
<1> DEFINE h == files'
<1>1. h = WithFile(files, n, x)
  OBVIOUS
<1> HIDE DEF h
<1>2. /\ DOMAIN h = DOMAIN files \cup {n} /\ h[n] = x
      /\ \A i \in DOMAIN files : h[i] = files[i]
      /\ h = [i \in DOMAIN h |-> h[i]]
  BY <1>1 DEF WithFile
<1>3. /\ DOMAIN files' = DOMAIN files \cup {n} /\ files'[n] = x
      /\ \A i \in DOMAIN files : files'[i] = files[i]
      /\ files' = [i \in DOMAIN files' |-> files'[i]]
  BY <1>2 DEF h
<1>4. Gains(n, new)
  BY <1>3 DEF Gains, Retains, Within
<1>5. \A i \in DOMAIN files' : Neat(files'[i])
  BY <1>3 DEF Typed, Segments
<1>6. \E m \in Nat : DOMAIN files' \subseteq 1..m
  <2>1. PICK m \in Nat : DOMAIN files \subseteq 1..m
    BY DEF Typed, Segments
  <2>2. DOMAIN files' \subseteq 1..(m + n)
    BY <1>3, <2>1
  <2> QED
    BY <2>2
<1> QED
  BY <1>3, <1>4, <1>5, <1>6

\* A crash.
LEMMA Crashed ==
    ASSUME Typed, Crash
    PROVE  /\ Segments' /\ unwritten' = <<>>
           /\ \E k : Gains(k, {Packet(lastAccepted + 1), Meta})
<1>1. ~isOpen' /\ unwritten' = <<>> /\ Clean(<<>>)
  BY EmptyFile DEF Crash
<1>2. CASE files' = files
  <2>1. Gains(segment, {Packet(lastAccepted + 1), Meta})
    BY <1>2 DEF Gains, Retains, Within
  <2>2. Segments'
    BY <1>1, <1>2 DEF Typed, Segments
  <2> QED
    BY <1>1, <2>1, <2>2
<1>3. ASSUME isOpen, lastAccepted < MaxSeq,
             NEW half \in HalfWritten(files[segment], unwritten, Packet(lastAccepted + 1)),
             files' = [files EXCEPT ![segment] = half.file]
      PROVE  Segments' /\ Gains(segment, {Packet(lastAccepted + 1), Meta})
  <2>1. Packet(lastAccepted + 1) \in Kept
    <3>1. lastAccepted + 1 \in Seqs
      BY <1>3, JournalAssumption DEF Typed, Counters, Seqs
    <3> QED
      BY <3>1, RecordKinds
  <2>2. /\ Gains(segment, {Packet(lastAccepted + 1)}) /\ DOMAIN files' = DOMAIN files
        /\ files' = [i \in DOMAIN files' |-> files'[i]]
        /\ \A i \in DOMAIN files' : Neat(files'[i])
    BY <1>3, <2>1, WriteCut
  <2>3. Gains(segment, {Packet(lastAccepted + 1), Meta})
    BY <2>2 DEF Gains, Within
  <2> QED
    BY <1>1, <2>2, <2>3 DEF Typed, Segments
<1>4. ASSUME isOpen, NEW half \in HalfWritten(<<>>, <<>>, Meta),
             files' = WithFile(files, segment + 1, half.file)
      PROVE  Segments' /\ Gains(segment + 1, {Packet(lastAccepted + 1), Meta})
  <2>1. Neat(half.file) /\ Items(half.file) \subseteq {Packet(lastAccepted + 1), Meta}
    BY EmptyFile, RecordKinds, HalfFile
  <2>2. segment + 1 \in Nat /\ segment + 1 >= 1 /\ segment + 1 \notin DOMAIN files
    BY <1>4, OpenFile DEF Typed, Counters
  <2>3. /\ Gains(segment + 1, {Packet(lastAccepted + 1), Meta})
        /\ files' = [i \in DOMAIN files' |-> files'[i]]
        /\ \A i \in DOMAIN files' : Neat(files'[i])
        /\ \E m \in Nat : DOMAIN files' \subseteq 1..m
    BY <1>4, <2>1, <2>2, FileBegun
  <2> QED
    BY <1>1, <2>3 DEF Segments
<1>5. \/ files' = files
      \/ /\ isOpen /\ lastAccepted < MaxSeq
         /\ \E half \in HalfWritten(files[segment], unwritten, Packet(lastAccepted + 1)) :
               files' = [files EXCEPT ![segment] = half.file]
      \/ /\ isOpen /\ \E half \in HalfWritten(<<>>, <<>>, Meta) :
                          files' = WithFile(files, segment + 1, half.file)
  BY DEF Crash, CrashRemains, Packet
<1> QED
  BY <1>1, <1>2, <1>3, <1>4, <1>5

-----------------------------------------------------------------------------
(* What recovery reads.                                                    *)

LEMMA RecordsOnDisk ==
    ASSUME Typed
    PROVE  Records = {r \in Kept : OnDisk(r)}
<1>1. \A i \in DOMAIN files : Readable(files[i]) = Items(files[i]) /\ Items(files[i]) \subseteq Kept
  <2> SUFFICES ASSUME NEW i \in DOMAIN files
               PROVE  Readable(files[i]) = Items(files[i]) /\ Items(files[i]) \subseteq Kept
    OBVIOUS
  <2>1. Neat(files[i])
    BY DEF Typed, Segments
  <2>2. Items(files[i]) \subseteq Kept
    <3>1. files[i] \in Seq(Kept \cup {Torn})
      BY <2>1 DEF Neat
    <3>2. \A k \in DOMAIN files[i] : files[i][k] \in Kept \cup {Torn}
      BY <3>1
    <3> QED
      BY <3>2 DEF Items
  <2> QED
    BY <2>1, <2>2, NeatIsReadable
<1> QED
  BY <1>1 DEF Records, OnDisk

LEMMA RecoveredRecords ==
    ASSUME Typed
    PROVE  /\ RecoveredPackets = {s \in Seqs : OnDisk(Packet(s))}
           /\ SeqsOf("progress", Records) = {p \in Seqs : OnDisk(Progress(p))}
           /\ RecoveredStopped <=> OnDisk(Stopped)
           /\ RecoveredMeta <=> OnDisk(Meta)
<1>1. \A r \in Kept : (r.kind = "packet" => r.seq \in Seqs /\ r = Packet(r.seq))
                      /\ (r.kind = "progress" => r.seq \in Seqs /\ r = Progress(r.seq))
  BY DEF Kept, Meta, Stopped, Record, Packet, Progress
<1>2. \A s \in Seqs : /\ Packet(s).kind = "packet" /\ Packet(s).seq = s
                      /\ Progress(s).kind = "progress" /\ Progress(s).seq = s
  BY DEF Packet, Progress, Record
<1>3. RecoveredPackets = {s \in Seqs : OnDisk(Packet(s))}
  <2>1. ASSUME NEW s \in RecoveredPackets PROVE s \in Seqs /\ OnDisk(Packet(s))
    <3>1. PICK r \in Records : r.kind = "packet" /\ r.seq = s
      BY DEF RecoveredPackets, SeqsOf
    <3>2. r \in Kept /\ OnDisk(r)
      BY RecordsOnDisk
    <3> QED
      BY <1>1, <3>1, <3>2
  <2>2. ASSUME NEW s \in Seqs, OnDisk(Packet(s)) PROVE s \in RecoveredPackets
    <3>1. Packet(s) \in Records
      BY <2>2, RecordsOnDisk, RecordKinds
    <3> QED
      BY <1>2, <3>1 DEF RecoveredPackets, SeqsOf
  <2> QED
    BY <2>1, <2>2
<1>4. SeqsOf("progress", Records) = {p \in Seqs : OnDisk(Progress(p))}
  <2>1. ASSUME NEW s \in SeqsOf("progress", Records) PROVE s \in Seqs /\ OnDisk(Progress(s))
    <3>1. PICK r \in Records : r.kind = "progress" /\ r.seq = s
      BY DEF SeqsOf
    <3>2. r \in Kept /\ OnDisk(r)
      BY RecordsOnDisk
    <3> QED
      BY <1>1, <3>1, <3>2
  <2>2. ASSUME NEW s \in Seqs, OnDisk(Progress(s)) PROVE s \in SeqsOf("progress", Records)
    <3>1. Progress(s) \in Records
      BY <2>2, RecordsOnDisk, RecordKinds
    <3> QED
      BY <1>2, <3>1 DEF SeqsOf
  <2> QED
    BY <2>1, <2>2
<1> QED
  BY <1>3, <1>4, RecordsOnDisk, RecordKinds DEF RecoveredStopped, RecoveredMeta

\* The marks recovery goes by.
LEMMA RecoveredMarks ==
    ASSUME Typed
    PROVE  /\ RecoveredLast \in 0..MaxSeq /\ RecoveredProgress \in 0..MaxSeq
           /\ RecoveredLast = 0 \/ (RecoveredLast \in Seqs /\ OnDisk(Packet(RecoveredLast)))
           /\ \A s \in Seqs : OnDisk(Packet(s)) => s <= RecoveredLast
           /\ RecoveredProgress = 0 \/ (RecoveredProgress \in Seqs /\ OnDisk(Progress(RecoveredProgress)))
           /\ \A p \in Seqs : OnDisk(Progress(p)) => p <= RecoveredProgress
           /\ RecoveredBacklog = {s \in Seqs : OnDisk(Packet(s)) /\ s > RecoveredProgress}
<1> DEFINE P == RecoveredPackets \cup {0}
           Q == SeqsOf("progress", Records) \cup {0}
<1>1. MaxSeq \in Nat /\ Seqs \subseteq 0..MaxSeq
  BY JournalAssumption DEF Seqs
<1>2. P \in SUBSET (0..MaxSeq) /\ Q \in SUBSET (0..MaxSeq) /\ P # {} /\ Q # {}
  <2>1. RecoveredPackets \subseteq Seqs /\ SeqsOf("progress", Records) \subseteq Seqs
    BY RecoveredRecords
  <2>2. 0 \in 0..MaxSeq
    BY <1>1
  <2> QED
    BY <1>1, <2>1, <2>2
<1>3. RecoveredLast = Max(P) /\ RecoveredProgress = Max(Q)
  BY DEF RecoveredLast, RecoveredProgress
<1>4. /\ P = {s \in Seqs : OnDisk(Packet(s))} \cup {0}
      /\ Q = {p \in Seqs : OnDisk(Progress(p))} \cup {0}
  BY RecoveredRecords
<1> HIDE DEF P, Q
<1>5. Max(P) \in P /\ \A y \in P : y <= Max(P)
  BY <1>1, <1>2, MaxIsMember
<1>6. Max(Q) \in Q /\ \A y \in Q : y <= Max(Q)
  BY <1>1, <1>2, MaxIsMember
<1>7. RecoveredBacklog = {s \in Seqs : OnDisk(Packet(s)) /\ s > RecoveredProgress}
  BY RecoveredRecords DEF RecoveredBacklog
<1>8. /\ RecoveredLast \in 0..MaxSeq
      /\ RecoveredLast = 0 \/ (RecoveredLast \in Seqs /\ OnDisk(Packet(RecoveredLast)))
      /\ \A s \in Seqs : OnDisk(Packet(s)) => s <= RecoveredLast
  <2>1. RecoveredLast \in P /\ \A y \in P : y <= RecoveredLast
    BY <1>3, <1>5
  <2> QED
    BY <1>2, <1>4, <2>1
<1>9. /\ RecoveredProgress \in 0..MaxSeq
      /\ RecoveredProgress = 0 \/ (RecoveredProgress \in Seqs /\ OnDisk(Progress(RecoveredProgress)))
      /\ \A p \in Seqs : OnDisk(Progress(p)) => p <= RecoveredProgress
  <2>1. RecoveredProgress \in Q /\ \A y \in Q : y <= RecoveredProgress
    BY <1>3, <1>6
  <2> QED
    BY <1>2, <1>4, <2>1
<1> QED
  BY <1>7, <1>8, <1>9

\* A restart begins the segment after the last.
LEMMA Recovered ==
    ASSUME Typed, Recover
    PROVE  /\ Segments' /\ segment' \in Nat
           /\ \E k : Gains(k, {Meta}) /\ (isOpen' => k = segment' /\ highs' = <<NewSegment(k)>>)
           /\ Items(unwritten') \subseteq {Meta}
           /\ highs' \in Seq([index : Nat, high : 0..MaxSeq])
           /\ ~isOpen' => unwritten' = <<>>
           /\ isOpen' => Items(files'[segment']) \subseteq {Meta}
           /\ UNCHANGED failures => /\ isOpen' /\ unwritten' = <<>> /\ ~failed'
                                    /\ Meta \in Items(files'[segment'])
<1>1. /\ ~up /\ ~isOpen /\ unwritten = <<>> /\ up' /\ ~ended' /\ segment' = NextSegment
      /\ OnDisk(Meta)
  BY RecoveredRecords DEF Recover, Typed, Segments
<1> DEFINE N == NextSegment
<1>2. N \in Nat /\ N >= 1 /\ N \notin DOMAIN files /\ \A i \in DOMAIN files : i <= N
  <2>1. PICK n \in Nat : DOMAIN files \subseteq 1..n
    BY DEF Typed, Segments
  <2>2. DOMAIN files # {} /\ DOMAIN files \in SUBSET (0..n)
    BY <1>1, <2>1 DEF OnDisk
  <2>3. /\ Max(DOMAIN files) \in DOMAIN files
        /\ \A i \in DOMAIN files : i <= Max(DOMAIN files)
    <3> DEFINE T == DOMAIN files
    <3>1. T # {} /\ T \in SUBSET (0..n)
      BY <2>2
    <3> HIDE DEF T
    <3>2. Max(T) \in T /\ \A y \in T : y <= Max(T)
      BY <2>1, <3>1, MaxIsMember
    <3> QED
      BY <3>2 DEF T
  <2>4. Max(DOMAIN files) \in Nat /\ \A i \in DOMAIN files : i \in Nat
    BY <2>2, <2>3
  <2> QED
    BY <2>3, <2>4 DEF NextSegment
<1>3. Contents(N) = <<>>
  BY <1>2 DEF Contents
<1>4. /\ Clean(SegmentHead) /\ Neat(SegmentHead) /\ Items(SegmentHead) = {Meta}
      /\ Clean(<<>>) /\ Neat(<<>>) /\ Items(<<>>) = {}
  <2>1. Clean(<<Meta>>)
    BY RecordKinds DEF Clean
  <2>2. Items(<<Meta>>) = {Meta}
    BY <2>1, CleanFile
  <2> QED
    BY <2>1, <2>2, CleanFile, EmptyFile DEF SegmentHead
<1> DEFINE MM == [index : Nat, high : 0..MaxSeq]
<1>5. /\ <<NewSegment(N)>> \in Seq(MM) /\ <<>> \in Seq(MM) /\ <<NewSegment(N)>>[1].index = N
      /\ Len(<<NewSegment(N)>>) = 1 /\ <<NewSegment(N)>> # <<>>
  <2>1. NewSegment(N) \in MM /\ NewSegment(N).index = N
    BY <1>2, JournalAssumption DEF NewSegment
  <2> QED
    BY <2>1
<1>6. ASSUME NEW x, Neat(x), Items(x) \subseteq {Meta}, Clean(unwritten'),
             unwritten' = <<>> => Clean(x), isOpen', highs' = <<NewSegment(N)>>,
             files' = WithFile(files, N, x)
      PROVE  Segments' /\ Gains(N, {Meta}) /\ files'[N] = x
  <2>1. /\ Gains(N, {Meta}) /\ DOMAIN files' = DOMAIN files \cup {N} /\ files'[N] = x
        /\ files' = [i \in DOMAIN files' |-> files'[i]]
        /\ \A i \in DOMAIN files' : Neat(files'[i])
        /\ \E m \in Nat : DOMAIN files' \subseteq 1..m
    BY <1>2, <1>6, FileBegun
  <2>2. segment' \in DOMAIN files' /\ \A i \in DOMAIN files' : i <= segment'
    BY <1>1, <1>2, <2>1
  <2>3. highs' # <<>> /\ highs'[Len(highs')].index = segment' /\ Len(highs') = 1
    BY <1>1, <1>5, <1>6
  <2>4. \A i, j \in 1..Len(highs') : ~(i < j)
    BY <2>3
  <2> QED
    BY <1>1, <1>6, <2>1, <2>2, <2>3, <2>4 DEF Segments
<1>7. CASE files' = WithFile(files, N, Contents(N) \o SegmentHead) /\ isOpen' /\ ~failed'
           /\ highs' = <<NewSegment(N)>> /\ UNCHANGED unwritten
  <2>1. Contents(N) \o SegmentHead = SegmentHead
    BY <1>3, <1>4 DEF Clean
  <2>2. Clean(unwritten') /\ Items(unwritten') = {} /\ unwritten' = <<>>
    BY <1>1, <1>4, <1>7
  <2>3. Segments' /\ Gains(N, {Meta}) /\ files'[N] = SegmentHead
    BY <1>4, <1>6, <1>7, <2>1, <2>2
  <2> QED
    BY <1>1, <1>2, <1>4, <1>5, <1>7, <2>2, <2>3
<1>8. CASE DiskFails /\ ~isOpen' /\ highs' = <<>> /\ UNCHANGED <<files, unwritten>>
  <2>1. Gains(N, {Meta})
    BY <1>8 DEF Gains, Retains, Within
  <2>2. Segments'
    BY <1>1, <1>8 DEF Typed, Segments
  <2>3. failures' # failures
    BY <1>8 DEF DiskFails, Typed, Counters
  <2> QED
    BY <1>1, <1>2, <1>4, <1>5, <1>8, <2>1, <2>2, <2>3
<1>9. ASSUME DiskFails, isOpen', highs' = <<NewSegment(N)>>, NEW half \in HalfWritten(<<>>, <<>>, Meta),
             files' = WithFile(files, N, Contents(N) \o half.file), unwritten' = half.rest
      PROVE  /\ Segments' /\ Gains(N, {Meta}) /\ Items(unwritten') \subseteq {Meta}
             /\ failures' # failures /\ Items(files'[N]) \subseteq {Meta}
  <2>1. /\ Neat(half.file) /\ Clean(half.rest)
        /\ half.rest = <<>> => Clean(half.file)
        /\ Items(half.file) \subseteq {Meta}
        /\ Items(half.rest) \subseteq {Meta}
    <3>1. /\ Neat(half.file) /\ Clean(half.rest)
          /\ half.rest = <<>> => Clean(half.file)
          /\ Items(half.file) \subseteq Items(<<>>) \cup Items(<<>>) \cup {Meta}
          /\ Items(half.rest) \subseteq Items(<<>>) \cup {Meta}
      BY <1>4, RecordKinds, HalfFile
    <3> QED
      BY <1>4, <3>1
  <2>2. Contents(N) \o half.file = half.file
    BY <1>3, <2>1 DEF Neat
  <2>3. failures' # failures
    BY <1>9 DEF DiskFails, Typed, Counters
  <2> QED
    BY <1>6, <1>9, <2>1, <2>2, <2>3
<1>10. \/ files' = WithFile(files, N, Contents(N) \o SegmentHead) /\ isOpen' /\ ~failed'
            /\ highs' = <<NewSegment(N)>> /\ UNCHANGED unwritten
       \/ DiskFails /\ ~isOpen' /\ highs' = <<>> /\ UNCHANGED <<files, unwritten>>
       \/ /\ DiskFails /\ isOpen' /\ highs' = <<NewSegment(N)>>
          /\ \E half \in HalfWritten(<<>>, <<>>, Meta) :
               files' = WithFile(files, N, Contents(N) \o half.file) /\ unwritten' = half.rest
  BY DEF Recover
<1>11. CASE /\ DiskFails /\ isOpen' /\ highs' = <<NewSegment(N)>>
            /\ \E half \in HalfWritten(<<>>, <<>>, Meta) :
                 files' = WithFile(files, N, Contents(N) \o half.file) /\ unwritten' = half.rest
  <2>1. /\ Segments' /\ Gains(N, {Meta}) /\ Items(unwritten') \subseteq {Meta}
        /\ failures' # failures /\ Items(files'[N]) \subseteq {Meta}
    BY <1>9, <1>11
  <2> QED
    BY <1>1, <1>2, <1>5, <1>11, <2>1
<1> QED
  BY <1>7, <1>8, <1>10, <1>11

-----------------------------------------------------------------------------
(* Every action keeps the types.                                           *)

\* A session with no segments left.
LEMMA Removed ==
    ASSUME Typed, ~isOpen, files' = <<>>, UNCHANGED <<unwritten, isOpen>>
    PROVE  Segments' /\ unwritten' = <<>> /\ unwritten = <<>> /\ \A r : ~OnDisk(r)'
<1>1. DOMAIN files' = {} /\ files' = [i \in DOMAIN files' |-> files'[i]]
  BY DEF Typed
<1>2. 0 \in Nat /\ DOMAIN files' \subseteq 1..0
  BY <1>1
<1> QED
  BY <1>1, <1>2 DEF Typed, Segments, OnDisk

LEMMA TypedStep ==
    ASSUME Typed, [Next]_vars
    PROVE  Typed'
<1> DEFINE MM == [index : Nat, high : 0..MaxSeq]
<1>0. /\ MaxSeq \in Nat /\ MaxCrash \in Nat /\ MaxFailures \in Nat
      /\ segment \in Nat /\ lastAccepted \in 0..MaxSeq /\ failures \in 0..MaxFailures
      /\ crashes \in 0..MaxCrash /\ highs \in Seq(MM) /\ <<>> \in Seq(MM)
  BY JournalAssumption DEF Typed, Counters
<1>1. ASSUME DiskFails PROVE failures' \in 0..MaxFailures
  BY <1>0, <1>1 DEF DiskFails
<1>2. ASSUME lastAccepted < MaxSeq PROVE lastAccepted + 1 \in Seqs /\ lastAccepted + 1 \in 0..MaxSeq
  BY <1>0, <1>2 DEF Seqs
<1>3. ASSUME lastAccepted < MaxSeq, AppendPacket(lastAccepted + 1) PROVE Typed'
  <2>1. Segments' /\ highs' \in Seq(MM) /\ segment' \in Nat
    <3>1. /\ Segments'
          /\ \/ segment' = segment /\ MarkRaised(lastAccepted + 1)
             \/ segment' = segment + 1 /\ MarkAdded(lastAccepted + 1)
      BY <1>2, <1>3, PacketAppended
    <3> QED
      BY <1>0, <3>1 DEF MarkRaised, MarkAdded
  <2>2. /\ isOpen' = isOpen /\ up' = up /\ failed' = failed /\ ended' = ended
        /\ queue' = queue \cup {lastAccepted + 1} /\ lastAccepted' = lastAccepted + 1
        /\ accepted' = accepted \cup {lastAccepted + 1}
        /\ UNCHANGED <<failures, forwarded, crashes>>
    BY <1>3 DEF AppendPacket
  <2>3. /\ isOpen' \in BOOLEAN /\ up' \in BOOLEAN /\ failed' \in BOOLEAN /\ ended' \in BOOLEAN
    BY <2>2 DEF Typed, Counters
  <2> QED
    BY <1>2, <1>3, <2>1, <2>2, <2>3 DEF Typed, Counters
<1>4. ASSUME lastAccepted < MaxSeq, AppendPacketFails(lastAccepted + 1) PROVE Typed'
  <2>1. Segments' /\ highs' \in Seq(MM) /\ segment' \in Nat
    <3>1. /\ Segments'
          /\ isOpen' => \/ segment' = segment /\ UNCHANGED highs
                        \/ segment' = segment + 1 /\ MarkAdded(0)
      BY <1>2, <1>4, PacketFailed
    <3>2. \/ isOpen'
          \/ ~isOpen' /\ highs' = highs /\ segment' = segment + 1
      BY <1>4 DEF AppendPacketFails, CannotRotate, CannotWrite, CannotWriteAfterRotating
    <3> QED
      BY <1>0, <3>1, <3>2 DEF MarkAdded
  <2>2. /\ up' = up /\ failed' = TRUE /\ ended' = ended
        /\ UNCHANGED <<queue, lastAccepted, accepted, forwarded, crashes>>
    BY <1>4 DEF AppendPacketFails
  <2>3. /\ up' \in BOOLEAN /\ failed' \in BOOLEAN /\ ended' \in BOOLEAN
    BY <2>2 DEF Typed, Counters
  <2>4. isOpen' \in BOOLEAN
    BY <1>4 DEF AppendPacketFails, CannotRotate, CannotWrite, CannotWriteAfterRotating, Typed, Counters
  <2>5. failures' \in 0..MaxFailures
    BY <1>1, <1>4 DEF AppendPacketFails
  <2> QED
    BY <2>1, <2>2, <2>3, <2>4, <2>5 DEF Typed, Counters
<1>5. ASSUME NEW s \in queue, Forward(s) PROVE Typed'
  <2>0. s \in Seqs /\ up /\ ~ended
    BY <1>5 DEF Forward, Typed, Counters
  <2>1. /\ isOpen' = isOpen /\ up' = up /\ failed' = failed /\ ended' = ended
        /\ queue' = queue \ {s} /\ forwarded' = forwarded \cup {s}
        /\ UNCHANGED <<segment, lastAccepted, accepted, crashes>>
    BY <1>5 DEF Forward
  <2>2. isOpen' \in BOOLEAN /\ up' \in BOOLEAN /\ failed' \in BOOLEAN /\ ended' \in BOOLEAN
    BY <2>1 DEF Typed, Counters
  <2>3. ASSUME isOpen, AppendProgress(s), UNCHANGED failures
        PROVE  Segments' /\ highs' \in Seq(MM) /\ failures' \in 0..MaxFailures
    <3>1. Segments' /\ MarksShifted(Retiring(s))
      BY <2>0, <2>1, <2>3, ProgressAppended
    <3> QED
      BY <1>0, <2>3, <3>1 DEF MarksShifted
  <2>4. ASSUME isOpen, AppendFails(Progress(s)), UNCHANGED highs
        PROVE  Segments' /\ highs' \in Seq(MM) /\ failures' \in 0..MaxFailures
    <3>1. Progress(s) \in Kept
      BY <2>0, RecordKinds
    <3>2. Segments'
      BY <2>0, <2>1, <2>4, <3>1, RecordFailed
    <3> QED
      BY <1>0, <1>1, <2>4, <3>2 DEF AppendFails
  <2>5. ASSUME ~isOpen, UNCHANGED <<files, unwritten, highs, failures>>
        PROVE  Segments' /\ highs' \in Seq(MM) /\ failures' \in 0..MaxFailures
    BY <1>0, <2>1, <2>5 DEF Typed, Segments
  <2>6. \/ isOpen /\ AppendProgress(s) /\ UNCHANGED failures
        \/ isOpen /\ AppendFails(Progress(s)) /\ UNCHANGED highs
        \/ ~isOpen /\ UNCHANGED <<files, unwritten, highs, failures>>
    BY <1>5 DEF Forward, Progress
  <2>7. Segments' /\ highs' \in Seq(MM) /\ failures' \in 0..MaxFailures
    BY <2>3, <2>4, <2>5, <2>6
  <2> QED
    BY <2>0, <2>1, <2>2, <2>7 DEF Typed, Counters
<1>6. CASE End
  <2>1. Segments'
    BY <1>6, Ended
  <2>2. failures' \in 0..MaxFailures
    BY <1>0, <1>1, <1>6 DEF End
  <2>3. /\ ended' = TRUE /\ isOpen' = FALSE /\ up' = up /\ failed' = failed
        /\ UNCHANGED <<segment, highs, queue, lastAccepted, accepted, forwarded, crashes>>
    BY <1>6 DEF End
  <2>4. up' \in BOOLEAN /\ failed' \in BOOLEAN
    BY <2>3 DEF Typed, Counters
  <2> QED
    BY <2>1, <2>2, <2>3, <2>4 DEF Typed, Counters
<1>7. CASE Crash
  <2>1. Segments'
    BY <1>7, Crashed
  <2>2. /\ up' = FALSE /\ isOpen' = FALSE /\ failed' = FALSE /\ ended' = ended
        /\ highs' = <<>> /\ segment' = 0 /\ queue' = {} /\ lastAccepted' = 0
        /\ UNCHANGED <<failures, accepted, forwarded>>
    BY <1>7 DEF Crash
  <2>3. crashes' \in 0..MaxCrash
    BY <1>0, <1>7 DEF Crash
  <2>4. /\ ended' \in BOOLEAN /\ up' \in BOOLEAN /\ isOpen' \in BOOLEAN /\ failed' \in BOOLEAN
    BY <2>2 DEF Typed, Counters
  <2>5. queue' \subseteq Seqs /\ lastAccepted' \in 0..MaxSeq /\ segment' \in Nat /\ highs' \in Seq(MM)
    BY <1>0, <2>2
  <2>6. accepted' \subseteq Seqs /\ forwarded' \subseteq Seqs /\ failures' \in 0..MaxFailures
    BY <2>2 DEF Typed, Counters
  <2> QED
    BY <2>1, <2>3, <2>4, <2>5, <2>6 DEF Typed, Counters
<1>8. CASE Recover
  <2>1. Segments' /\ segment' \in Nat /\ highs' \in Seq(MM)
    BY <1>8, Recovered
  <2>2. queue' \subseteq Seqs /\ lastAccepted' \in 0..MaxSeq
    BY <1>8, RecoveredMarks DEF Recover
  <2>3. /\ up' = TRUE /\ ended' = FALSE /\ isOpen' \in BOOLEAN /\ failed' \in BOOLEAN
        /\ UNCHANGED <<accepted, forwarded, crashes>>
    BY <1>8 DEF Recover
  <2>4. failures' \in 0..MaxFailures
    BY <1>0, <1>1, <1>8 DEF Recover
  <2> QED
    BY <2>1, <2>2, <2>3, <2>4 DEF Typed, Counters
<1>9. CASE Forget \/ RecoverEnded
  <2>1. files' = <<>> /\ UNCHANGED <<unwritten, isOpen>> /\ ~isOpen
    BY <1>9 DEF Forget, RecoverEnded, Typed, Segments
  <2>2. Segments'
    BY <2>1, Removed
  <2>3. UNCHANGED <<isOpen, segment, highs, up, failed, queue, lastAccepted, ended,
                    failures, accepted, forwarded, crashes>>
    BY <1>9 DEF Forget, RecoverEnded
  <2>4. Counters'
    BY <2>3 DEF Typed, Counters
  <2> QED
    BY <2>2, <2>4 DEF Typed
<1>10. CASE UNCHANGED vars
  BY <1>10 DEF vars, journal, Typed, Counters, Segments
<1> QED
  BY <1>3, <1>4, <1>5, <1>6, <1>7, <1>8, <1>9, <1>10 DEF Next, RecoverSkips

-----------------------------------------------------------------------------
(* What the operations make of the disk as a whole.                        *)

LEMMA RecordsDiffer ==
    /\ Meta # Stopped
    /\ \A s : /\ Packet(s) # Meta /\ Packet(s) # Stopped
              /\ Progress(s) # Meta /\ Progress(s) # Stopped
              /\ \A t : Packet(s) # Progress(t)
              /\ \A t : (Packet(s) = Packet(t) => s = t) /\ (Progress(s) = Progress(t) => s = t)
<1>1. Meta.kind = "meta" /\ Stopped.kind = "stopped"
  BY DEF Meta, Stopped, Record
<1>2. \A s : /\ Packet(s).kind = "packet" /\ Packet(s).seq = s
             /\ Progress(s).kind = "progress" /\ Progress(s).seq = s
  BY DEF Packet, Progress, Record
<1> QED
  BY <1>1, <1>2

LEMMA DiskWithin ==
    ASSUME NEW k, NEW new, Within(k, new), NEW r, OnDisk(r)'
    PROVE  OnDisk(r) \/ r \in Items(unwritten) \/ r \in new
BY DEF Within, OnDisk

LEMMA DiskRetained ==
    ASSUME Retains, NEW r, OnDisk(r)
    PROVE  OnDisk(r)'
BY DEF Retains, OnDisk

LEMMA DiskUnchanged ==
    ASSUME UNCHANGED files, NEW r
    PROVE  OnDisk(r)' <=> OnDisk(r)
BY DEF OnDisk

\* The marks that are left bound what was there before.
LEMMA MarksStay ==
    ASSUME Typed, Marks, isOpen, NEW k, NEW new, Within(k, new),
           NEW i \in 1..Len(highs), NEW s \in Seqs, i < Len(highs) \/ ~failed,
           highs[i].index \in DOMAIN files', Packet(s) \in Items(files'[highs[i].index]),
           highs[i].index = k => Packet(s) \notin new
    PROVE  s <= highs[i].high
<1> DEFINE n == highs[i].index
<1>1. n = segment => ~failed
  <2>1. i < Len(highs) => n < segment
    <3>1. Len(highs) \in 1..Len(highs)
      BY DEF Typed, Counters, Segments
    <3> QED
      BY <3>1 DEF Typed, Segments
  <2>2. n \in Nat /\ segment \in Nat
    BY MarkIsTyped DEF Typed, Counters
  <2> QED
    BY <2>1, <2>2
<1>2. n = segment => Packet(s) \notin Items(unwritten)
  BY <1>1 DEF Marks
<1>3. n \in DOMAIN files /\ Packet(s) \in Items(files[n])
  BY <1>2 DEF Within
<1> QED
  BY <1>3 DEF Marks

-----------------------------------------------------------------------------
(* Every action keeps the invariants.                                      *)

LEMMA MarksStep ==
    ASSUME Typed, Durable, Marks, [Next]_vars
    PROVE  Marks'
<1> DEFINE Bounded(i, t) ==
             /\ i < Len(highs') \/ ~failed'
             /\ highs'[i].index \in DOMAIN files' /\ Packet(t) \in Items(files'[highs'[i].index])
             => t <= highs'[i].high
<1>0. /\ MaxSeq \in Nat /\ segment \in Nat /\ lastAccepted \in 0..MaxSeq /\ Len(highs) \in Nat
      /\ isOpen => Len(highs) \in 1..Len(highs) /\ highs[Len(highs)].index = segment
      /\ isOpen => \A i \in 1..Len(highs) : highs[i].index <= segment
  <2>1. /\ MaxSeq \in Nat /\ segment \in Nat /\ lastAccepted \in 0..MaxSeq /\ Len(highs) \in Nat
        /\ isOpen => Len(highs) \in 1..Len(highs) /\ highs[Len(highs)].index = segment
    BY JournalAssumption DEF Typed, Counters, Segments
  <2>2. ASSUME isOpen, NEW i \in 1..Len(highs) PROVE highs[i].index <= segment
    <3>1. CASE i = Len(highs)
      BY <2>1, <2>2, <3>1
    <3>2. CASE i # Len(highs)
      <4>1. i < Len(highs)
        BY <2>1, <3>2
      <4>2. highs[i].index < segment /\ highs[i].index \in Nat
        BY <2>1, <2>2, <4>1, MarkIsTyped DEF Typed, Segments
      <4> QED
        BY <2>1, <4>2
    <3> QED
      BY <3>1, <3>2
  <2> QED
    BY <2>1, <2>2
<1>1. ASSUME lastAccepted < MaxSeq, AppendPacket(lastAccepted + 1) PROVE Marks'
  <2> DEFINE s == lastAccepted + 1
  <2>1. s \in Seqs /\ isOpen /\ ~failed /\ ~failed' /\ up
    BY <1>0, <1>1 DEF Seqs, AppendPacket
  <2>2. /\ Within(segment', {Packet(s), Meta}) /\ unwritten' = <<>>
        /\ \/ segment' = segment /\ MarkRaised(s)
           \/ segment' = segment + 1 /\ MarkAdded(s)
    BY <1>1, <2>1, PacketAppended DEF Gains
  <2>4. \A t \in Seqs : Packet(t) \in {Packet(s), Meta} => t = s
    BY RecordsDiffer
  <2>5. \A t \in Seqs : OnDisk(Packet(t)) => t <= s
    BY <2>1 DEF Durable
  <2>6. ASSUME segment' = segment, MarkRaised(s), NEW i \in 1..Len(highs'), NEW t \in Seqs
        PROVE  Bounded(i, t)
    <3>1. /\ i \in 1..Len(highs) /\ Len(highs') = Len(highs) /\ highs'[i].index = highs[i].index
          /\ i # Len(highs) => i \in 1..(Len(highs) - 1) /\ highs'[i] = highs[i] /\ i < Len(highs)
          /\ i = Len(highs) => highs'[i].high = s
      BY <1>0, <2>6 DEF MarkRaised
    <3> SUFFICES ASSUME highs[i].index \in DOMAIN files', Packet(t) \in Items(files'[highs[i].index])
                 PROVE  t <= highs'[i].high
      BY <3>1
    <3>2. CASE i = Len(highs)
      <4>1. OnDisk(Packet(t))'
        BY DEF OnDisk
      <4>2. OnDisk(Packet(t)) \/ t = s
        BY <2>1, <2>2, <2>4, <2>6, <4>1, DiskWithin DEF Marks
      <4> QED
        BY <2>1, <2>5, <3>1, <3>2, <4>2 DEF Seqs
    <3>3. CASE i # Len(highs)
      <4>1. highs[i].index < segment
        BY <1>0, <2>1, <3>1, <3>3 DEF Typed, Segments
      <4>2. highs[i].index # segment
        BY <1>0, <2>1, <3>1, <4>1, MarkIsTyped DEF Typed
      <4> QED
        BY <2>1, <2>2, <2>6, <3>1, <3>3, <4>2, MarksStay
    <3> QED
      BY <3>2, <3>3
  <2>7. ASSUME segment' = segment + 1, MarkAdded(s), NEW i \in 1..Len(highs'), NEW t \in Seqs
        PROVE  Bounded(i, t)
    <3>1. /\ i \in 1..Len(highs) \/ i = Len(highs) + 1
          /\ i \in 1..Len(highs) => highs'[i] = highs[i]
          /\ i = Len(highs) + 1 => highs'[i].index = segment + 1 /\ highs'[i].high = s
      BY <1>0, <2>7 DEF MarkAdded
    <3> SUFFICES ASSUME highs'[i].index \in DOMAIN files', Packet(t) \in Items(files'[highs'[i].index])
                 PROVE  t <= highs'[i].high
      OBVIOUS
    <3>2. CASE i = Len(highs) + 1
      <4>1. Packet(t) \in {Packet(s), Meta}
        <5>1. segment + 1 \notin DOMAIN files /\ segment # segment + 1
          BY <2>1, OpenFile
        <5> QED
          BY <2>2, <2>7, <3>1, <3>2, <5>1 DEF Within
      <4> QED
        BY <1>0, <2>4, <3>1, <3>2, <4>1
    <3>3. CASE i \in 1..Len(highs)
      <4>1. highs[i].index # segment + 1
        <5>1. highs[i].index <= segment /\ highs[i].index \in Nat
          BY <1>0, <2>1, <3>3, MarkIsTyped DEF Typed
        <5> QED
          BY <1>0, <5>1
      <4> QED
        BY <2>1, <2>2, <2>7, <3>1, <3>3, <4>1, MarksStay
    <3> QED
      BY <3>1, <3>2, <3>3
  <2>8. \A t \in Seqs : Packet(t) \notin Items(unwritten')
    BY <2>2, EmptyFile
  <2> QED
    BY <2>2, <2>6, <2>7, <2>8 DEF Marks
<1>2. ASSUME lastAccepted < MaxSeq, AppendPacketFails(lastAccepted + 1) PROVE Marks'
  <2> DEFINE s == lastAccepted + 1
  <2>1. s \in Seqs /\ isOpen /\ failed'
    BY <1>0, <1>2 DEF Seqs, AppendPacketFails
  <2>2. PICK k \in {segment, segment + 1} :
          Gains(k, {Packet(s), Meta}) /\ (isOpen' => k = segment')
    BY <1>2, <2>1, PacketFailed
  <2>3. isOpen' => \/ segment' = segment /\ UNCHANGED highs
                   \/ segment' = segment + 1 /\ MarkAdded(0)
    BY <1>2, <2>1, PacketFailed
  <2>4. ASSUME isOpen', NEW i \in 1..Len(highs'), i < Len(highs'), NEW t \in Seqs
        PROVE  Bounded(i, t)
    <3>1. /\ i \in 1..Len(highs) /\ highs'[i] = highs[i]
          /\ k = segment => i < Len(highs)
      <4>1. CASE segment' = segment /\ UNCHANGED highs
        BY <2>4, <4>1
      <4>2. CASE segment' = segment + 1 /\ MarkAdded(0)
        <5>1. Len(highs') = Len(highs) + 1 /\ \A j \in 1..Len(highs) : highs'[j] = highs[j]
          BY <4>2 DEF MarkAdded
        <5>2. i \in 1..Len(highs)
          BY <1>0, <2>4, <5>1
        <5>3. k # segment
          BY <1>0, <2>2, <2>4, <4>2
        <5> QED
          BY <5>1, <5>2, <5>3
      <4> QED
        BY <2>3, <2>4, <4>1, <4>2
    <3>2. highs[i].index # k
      <4>1. highs[i].index \in Nat /\ highs[i].index <= segment
        BY <1>0, <2>1, <3>1, MarkIsTyped DEF Typed
      <4>2. CASE k = segment
        <5>1. highs[i].index < segment
          BY <1>0, <2>1, <3>1, <4>2 DEF Typed, Segments
        <5> QED
          BY <1>0, <4>1, <4>2, <5>1
      <4>3. CASE k = segment + 1
        BY <1>0, <4>1, <4>3
      <4> QED
        BY <2>2, <4>2, <4>3
    <3>3. i < Len(highs) \/ ~failed
      BY <1>2 DEF AppendPacketFails
    <3> QED
      BY <2>1, <2>2, <3>1, <3>2, <3>3, MarksStay DEF Gains
  <2> QED
    BY <2>1, <2>4 DEF Marks
<1>3. ASSUME NEW s \in queue, Forward(s) PROVE Marks'
  <2>1. s \in Seqs /\ up /\ ~ended /\ isOpen' = isOpen /\ failed' = failed /\ segment' = segment
        /\ up' /\ ~ended'
    BY <1>3 DEF Forward, Typed, Counters
  <2>2. \A t : Packet(t) \notin {Progress(s)}
    BY RecordsDiffer
  <2>3. ASSUME isOpen, AppendProgress(s) PROVE Marks'
    <3>1. /\ Within(segment, {Progress(s)}) /\ unwritten' = <<>> /\ MarksShifted(Retiring(s))
      BY <2>1, <2>3, ProgressAppended
    <3>2. Retiring(s) \in 0..(Len(highs) - 1)
      BY <2>1, <2>3, RetiringLeading
    <3> DEFINE R == Retiring(s)
    <3>3. ASSUME NEW i \in 1..Len(highs'), NEW t \in Seqs PROVE Bounded(i, t)
      <4>1. /\ Len(highs') = Len(highs) - R /\ highs'[i] = highs[R + i] /\ R + i \in 1..Len(highs)
        BY <3>1 DEF MarksShifted
      <4>2. i < Len(highs') => R + i < Len(highs)
        BY <1>0, <3>2, <4>1
      <4> QED
        BY <2>1, <2>2, <2>3, <3>1, <4>1, <4>2, MarksStay
    <3> QED
      BY <3>1, <3>3, EmptyFile DEF Marks
  <2>4. ASSUME isOpen, AppendFails(Progress(s)), UNCHANGED highs PROVE Marks'
    <3>1. Progress(s) \in Kept
      BY <2>1, RecordKinds
    <3>2. Within(segment, {Progress(s)}) /\ Items(unwritten') \subseteq Items(unwritten) \cup {Progress(s)}
      BY <2>1, <2>4, <3>1, RecordFailed DEF Gains
    <3>3. ASSUME NEW i \in 1..Len(highs'), NEW t \in Seqs PROVE Bounded(i, t)
      BY <2>1, <2>2, <2>4, <3>2, <3>3, MarksStay
    <3> QED
      BY <2>1, <2>2, <3>2, <3>3 DEF Marks
  <2>5. ASSUME ~isOpen, UNCHANGED unwritten PROVE Marks'
    BY <2>1, <2>5 DEF Marks
  <2>6. \/ isOpen /\ AppendProgress(s)
        \/ isOpen /\ AppendFails(Progress(s)) /\ UNCHANGED highs
        \/ ~isOpen /\ UNCHANGED unwritten
    BY <1>3 DEF Forward, Progress
  <2> QED
    BY <2>3, <2>4, <2>5, <2>6
<1>4. CASE End \/ Crash
  <2>1. ~isOpen' /\ unwritten' = <<>>
    BY <1>4 DEF End, Crash
  <2> QED
    BY <2>1, EmptyFile DEF Marks
<1>5. CASE Recover
  <2>1. PICK k : Gains(k, {Meta}) /\ (isOpen' => k = segment' /\ highs' = <<NewSegment(k)>>)
    BY <1>5, Recovered
  <2>2. /\ Items(unwritten') \subseteq {Meta} /\ ~isOpen /\ unwritten = <<>> /\ segment' = NextSegment
    BY <1>5, Recovered DEF Recover, Typed, Segments
  <2>3. ASSUME isOpen' PROVE \A t : Packet(t) \notin Items(files'[segment'])
    BY <1>5, <2>3, Recovered, RecordsDiffer
  <2>4. ASSUME isOpen', NEW i \in 1..Len(highs'), NEW t \in Seqs PROVE Bounded(i, t)
    <3>1. highs' = <<NewSegment(segment')>>
      BY <2>1, <2>4
    <3>2. i = 1 /\ Len(highs') = 1 /\ highs'[1].index = segment'
      BY <3>1, <2>4 DEF NewSegment
    <3> QED
      BY <2>3, <2>4, <3>2
  <2> QED
    BY <2>2, <2>4, RecordsDiffer DEF Marks
<1>6. CASE Forget \/ RecoverEnded
  <2>1. files' = <<>> /\ ~isOpen' /\ unwritten' = unwritten /\ unwritten = <<>>
    BY <1>6 DEF Forget, RecoverEnded, Typed, Segments
  <2> QED
    BY <2>1, EmptyFile DEF Marks
<1>7. CASE UNCHANGED vars
  BY <1>7 DEF vars, journal, Marks
<1> QED
  BY <1>1, <1>2, <1>3, <1>4, <1>5, <1>6, <1>7 DEF Next, RecoverSkips

\* Every write but the last record is no Stopped record; every step that forwards
\* adds to what was forwarded.
LEMMA StopIsLastStep ==
    ASSUME Typed, Durable, StopIsLast, [Next]_vars
    PROVE  StopIsLast'
<1> DEFINE Stop == OnDisk(Stopped) \/ Stopped \in Items(unwritten)
<1>1. ASSUME NEW k, NEW new, Within(k, new), Items(unwritten') \subseteq Items(unwritten) \cup new,
             Stopped \notin new, OnDisk(Stopped)' \/ Stopped \in Items(unwritten')
      PROVE  Stop
  BY <1>1, DiskWithin
<1>2. ASSUME lastAccepted < MaxSeq,
             AppendPacket(lastAccepted + 1) \/ AppendPacketFails(lastAccepted + 1)
      PROVE  StopIsLast'
  <2> DEFINE s == lastAccepted + 1
  <2>1. s \in Seqs /\ ~ended /\ ~ended' /\ Stopped \notin {Packet(s), Meta}
    BY <1>2, JournalAssumption, RecordsDiffer DEF Seqs, AppendPacket, AppendPacketFails, Typed, Counters
  <2>2. /\ \E k : Within(k, {Packet(s), Meta})
        /\ Items(unwritten') \subseteq Items(unwritten) \cup {Packet(s), Meta}
    <3>1. CASE AppendPacket(s)
      BY <2>1, <3>1, PacketAppended, EmptyFile DEF Gains
    <3>2. CASE AppendPacketFails(s)
      BY <2>1, <3>2, PacketFailed DEF Gains
    <3> QED
      BY <1>2, <3>1, <3>2
  <2>3. OnDisk(Stopped)' \/ Stopped \in Items(unwritten') => Stop
    BY <1>1, <2>1, <2>2
  <2> QED
    BY <2>1, <2>3 DEF StopIsLast
<1>3. ASSUME NEW s \in queue, Forward(s) PROVE StopIsLast'
  <2>1. /\ s \in Seqs /\ up /\ ~ended /\ ~ended' /\ isOpen' = isOpen /\ up' = up /\ segment' = segment
        /\ Stopped \notin {Progress(s)} /\ Progress(s) \in Kept
    BY <1>3, RecordsDiffer, RecordKinds DEF Forward, Typed, Counters
  <2>2. CASE isOpen
    <3>1. /\ Within(segment, {Progress(s)})
          /\ Items(unwritten') \subseteq Items(unwritten) \cup {Progress(s)}
      <4>1. CASE AppendProgress(s)
        BY <2>1, <2>2, <4>1, ProgressAppended, EmptyFile
      <4>2. CASE AppendFails(Progress(s)) /\ UNCHANGED highs
        BY <2>1, <2>2, <4>2, RecordFailed DEF Gains
      <4> QED
        BY <1>3, <2>2, <4>1, <4>2 DEF Forward, Progress
    <3>2. OnDisk(Stopped)' \/ Stopped \in Items(unwritten') => Stop
      BY <1>1, <2>1, <3>1
    <3> QED
      BY <2>1, <3>2 DEF StopIsLast
  <2>3. CASE ~isOpen
    <3>1. UNCHANGED <<files, unwritten>>
      BY <1>3, <2>3 DEF Forward
    <3> QED
      BY <2>1, <3>1, DiskUnchanged DEF StopIsLast
  <2> QED
    BY <2>2, <2>3
<1>4. CASE End
  BY <1>4 DEF End, StopIsLast, Durable
<1>5. CASE Crash
  <2>1. ended' = ended /\ ~up' /\ UNCHANGED <<accepted, forwarded>>
    BY <1>5 DEF Crash
  <2>2. /\ \E k : Within(k, {Packet(lastAccepted + 1), Meta})
        /\ Items(unwritten') \subseteq Items(unwritten) \cup {Packet(lastAccepted + 1), Meta}
    BY <1>5, Crashed, EmptyFile DEF Gains
  <2>3. Stopped \notin {Packet(lastAccepted + 1), Meta}
    BY RecordsDiffer
  <2>4. OnDisk(Stopped)' \/ Stopped \in Items(unwritten') => Stop
    BY <1>1, <2>2, <2>3
  <2> QED
    BY <2>1, <2>4 DEF StopIsLast
<1>6. CASE Recover
  <2>1. ~OnDisk(Stopped) /\ Stopped \notin Items(unwritten) /\ ended' = FALSE
    BY <1>6, RecoveredRecords, EmptyFile DEF Recover, Typed, Segments
  <2>2. /\ \E k : Within(k, {Meta})
        /\ Items(unwritten') \subseteq Items(unwritten) \cup {Meta}
    BY <1>6, Recovered DEF Gains
  <2>3. ~(OnDisk(Stopped)' \/ Stopped \in Items(unwritten'))
    BY <1>1, <2>1, <2>2, RecordsDiffer
  <2> QED
    BY <2>1, <2>3 DEF StopIsLast
<1>7. CASE Forget \/ RecoverEnded
  <2>1. /\ files' = <<>> /\ ~isOpen /\ UNCHANGED <<unwritten, isOpen, up, queue, ended, accepted, forwarded>>
    BY <1>7 DEF Forget, RecoverEnded, Typed, Segments
  <2>2. ~OnDisk(Stopped)' /\ unwritten' = <<>>
    BY <2>1, Removed
  <2> QED
    BY <2>1, <2>2, EmptyFile DEF StopIsLast
<1>8. CASE UNCHANGED vars
  BY <1>8 DEF vars, journal, StopIsLast, OnDisk
<1> QED
  BY <1>2, <1>3, <1>4, <1>5, <1>6, <1>7, <1>8 DEF Next, RecoverSkips

LEMMA DurableStep ==
    ASSUME Typed, Marks, StopIsLast, Durable, [Next]_vars
    PROVE  Durable'
<1>0. /\ MaxSeq \in Nat /\ Seqs = 1..MaxSeq /\ lastAccepted \in 0..MaxSeq
      /\ queue \subseteq Seqs /\ accepted \subseteq Seqs /\ forwarded \subseteq Seqs
  BY JournalAssumption DEF Typed, Counters, Seqs
<1>1. ASSUME NEW s, s = lastAccepted + 1, lastAccepted < MaxSeq, AppendPacket(s) PROVE Durable'
  <2>1. /\ s \in Seqs /\ up /\ up' /\ queue' = queue \cup {s} /\ accepted' = accepted \cup {s}
        /\ forwarded' = forwarded /\ lastAccepted' = s /\ s \in Nat
    BY <1>0, <1>1 DEF AppendPacket
  <2>2. /\ Gains(segment', {Packet(s), Meta}) /\ unwritten' = <<>> /\ Segments'
        /\ Packet(s) \in Items(files'[segment'])
    BY <1>1, <2>1, PacketAppended
  <2>3. OnDisk(Packet(s))'
    <3>1. segment' \in DOMAIN files'
      BY <1>1, <2>2 DEF Segments, AppendPacket
    <3> QED
      BY <2>2, <3>1 DEF OnDisk
  <2>4. \A t : OnDisk(Packet(t)) => OnDisk(Packet(t))'
    BY <2>2, DiskRetained DEF Gains
  <2>5. \A p : OnDisk(Progress(p))' => OnDisk(Progress(p)) \/ Progress(p) \in Items(unwritten)
    BY <2>2, DiskWithin, RecordsDiffer DEF Gains
  <2>6. \A t : OnDisk(Packet(t))' => OnDisk(Packet(t)) \/ Packet(t) \in Items(unwritten) \/ t = s
    BY <2>2, DiskWithin, RecordsDiffer DEF Gains
  <2>7. \A r : r \notin Items(unwritten')
    BY <2>2, EmptyFile
  <2>8. 1..s \subseteq forwarded \cup queue'
    <3>1. 1..s = 1..lastAccepted \cup {s}
      BY <1>0, <1>1
    <3> QED
      BY <2>1, <3>1 DEF Durable
  <2>11. \A t \in accepted' \ forwarded' : OnDisk(Packet(t))'
    BY <2>1, <2>3, <2>4 DEF Durable
  <2>12. \A t \in queue' : OnDisk(Packet(t))'
    BY <2>1, <2>3, <2>4 DEF Durable
  <2>13. accepted' \subseteq forwarded' \cup queue'
    BY <2>1 DEF Durable
  <2>14. \A p \in Seqs : OnDisk(Progress(p))' \/ Progress(p) \in Items(unwritten') => 1..p \subseteq forwarded'
    BY <2>1, <2>5, <2>7 DEF Durable
  <2>10. \A t \in Seqs : OnDisk(Packet(t))' => t <= lastAccepted' + 1
    <3> SUFFICES ASSUME NEW t \in Seqs, OnDisk(Packet(t))' PROVE t <= s + 1
      BY <2>1
    <3>1. t <= s \/ t = s
      BY <1>1, <2>1, <2>6 DEF Durable
    <3> QED
      BY <1>0, <2>1, <3>1
  <2> QED
    BY <2>1, <2>7, <2>8, <2>10, <2>11, <2>12, <2>13, <2>14 DEF Durable
<1>2. ASSUME lastAccepted < MaxSeq, AppendPacketFails(lastAccepted + 1) PROVE Durable'
  <2> DEFINE s == lastAccepted + 1
  <2>1. /\ s \in Seqs /\ up /\ up' /\ UNCHANGED <<queue, accepted, forwarded, lastAccepted>>
    BY <1>0, <1>2 DEF AppendPacketFails
  <2>2. PICK k : Gains(k, {Packet(s), Meta})
    BY <1>2, <2>1, PacketFailed
  <2>3. Items(unwritten') \subseteq Items(unwritten) \cup {Packet(s), Meta}
    BY <1>2, <2>1, PacketFailed
  <2>4. \A t : OnDisk(Packet(t)) => OnDisk(Packet(t))'
    BY <2>2, DiskRetained DEF Gains
  <2>5. \A p : OnDisk(Progress(p))' \/ Progress(p) \in Items(unwritten')
           => OnDisk(Progress(p)) \/ Progress(p) \in Items(unwritten)
    BY <2>2, <2>3, DiskWithin, RecordsDiffer DEF Gains
  <2>6. \A t : OnDisk(Packet(t))' \/ Packet(t) \in Items(unwritten')
           => OnDisk(Packet(t)) \/ Packet(t) \in Items(unwritten) \/ t = s
    BY <2>2, <2>3, DiskWithin, RecordsDiffer DEF Gains
  <2>7. \A t \in Seqs : OnDisk(Packet(t))' \/ Packet(t) \in Items(unwritten') => t <= lastAccepted' + 1
    <3> SUFFICES ASSUME NEW t \in Seqs, OnDisk(Packet(t))' \/ Packet(t) \in Items(unwritten')
                 PROVE  t <= s
      BY <2>1
    <3>1. t <= s \/ t = s
      BY <2>1, <2>6 DEF Durable
    <3> QED
      BY <1>0, <3>1
  <2> QED
    BY <2>1, <2>4, <2>5, <2>7 DEF Durable
<1>3. ASSUME NEW s \in queue, Forward(s) PROVE Durable'
  <2>1. /\ s \in Seqs /\ up /\ up' /\ ~ended /\ ~ended' /\ isOpen' = isOpen /\ segment' = segment
        /\ queue' = queue \ {s} /\ forwarded' = forwarded \cup {s}
        /\ UNCHANGED <<accepted, lastAccepted>> /\ \A t \in queue : s <= t
    BY <1>0, <1>3 DEF Forward
  <2>2. 1..s \subseteq forwarded'
    <3> SUFFICES ASSUME NEW t \in 1..s, t # s PROVE t \in forwarded
      BY <2>1
    <3>1. s <= lastAccepted + 1
      BY <2>1 DEF Durable
    <3>2. t \in 1..lastAccepted /\ t < s
      BY <1>0, <2>1, <3>1
    <3>3. t \notin queue
      BY <1>0, <2>1, <3>2
    <3> QED
      BY <2>1, <3>2, <3>3 DEF Durable
  <2>3. \A t \in queue' : t > s /\ OnDisk(Packet(t))
    BY <1>0, <2>1 DEF Durable
  <2>4. /\ accepted' \subseteq forwarded' \cup queue'
        /\ 1..lastAccepted' \subseteq forwarded' \cup queue'
    BY <2>1 DEF Durable
  <2> DEFINE Lasting == \A t \in queue' : OnDisk(Packet(t))'
             Ahead == \A p \in Seqs : OnDisk(Progress(p))' \/ Progress(p) \in Items(unwritten')
                        => p = s \/ OnDisk(Progress(p)) \/ Progress(p) \in Items(unwritten)
             Same == \A t \in Seqs : OnDisk(Packet(t))' \/ Packet(t) \in Items(unwritten')
                       => OnDisk(Packet(t)) \/ Packet(t) \in Items(unwritten)
  <2>5. ASSUME Lasting, Ahead, Same PROVE Durable'
    <3>1. \A t \in accepted' \ forwarded' : OnDisk(Packet(t))'
      BY <2>4, <2>5
    <3>2. \A p \in Seqs : OnDisk(Progress(p))' \/ Progress(p) \in Items(unwritten') => 1..p \subseteq forwarded'
      BY <2>1, <2>2, <2>5 DEF Durable
    <3>3. \A t \in Seqs : OnDisk(Packet(t))' \/ Packet(t) \in Items(unwritten') => t <= lastAccepted' + 1
      BY <2>1, <2>5 DEF Durable
    <3> QED
      BY <2>1, <2>4, <2>5, <3>1, <3>2, <3>3 DEF Durable
  <2> HIDE DEF Lasting, Ahead, Same
  <2>6. ASSUME isOpen, AppendProgress(s) PROVE Durable'
    <3>1. /\ Within(segment, {Progress(s)}) /\ unwritten' = <<>>
          /\ DOMAIN files' = DOMAIN files \ Retired(Retiring(s))
          /\ \A i \in DOMAIN files' : Items(files[i]) \subseteq Items(files'[i])
      BY <2>1, <2>6, ProgressAppended
    <3>2. ASSUME NEW t \in queue' PROVE OnDisk(Packet(t))'
      <4>1. PICK i \in DOMAIN files : Packet(t) \in Items(files[i])
        BY <2>3 DEF OnDisk
      <4>2. ASSUME i \in Retired(Retiring(s)) PROVE FALSE
        <5>1. PICK j \in 1..Retiring(s) : i = highs[j].index
          BY <4>2 DEF Retired
        <5>2. j \in 1..Len(highs) /\ j < Len(highs) /\ highs[j].high <= s
          <6>1. Len(highs) \in Nat
            BY DEF Typed, Counters
          <6> QED
            BY <2>1, <2>6, <6>1, RetiringLeading
        <5>3. t \in Seqs /\ t <= highs[j].high /\ highs[j].high \in 0..MaxSeq
          BY <1>0, <2>1, <2>6, <4>1, <5>1, <5>2, MarkIsTyped DEF Marks, Typed
        <5> QED
          BY <1>0, <2>1, <2>3, <5>2, <5>3
      <4> QED
        BY <3>1, <4>1, <4>2 DEF OnDisk
    <3>3. Ahead /\ Same
      BY <3>1, DiskWithin, RecordsDiffer, EmptyFile DEF Ahead, Same
    <3> QED
      BY <2>5, <3>2, <3>3 DEF Lasting
  <2>7. ASSUME isOpen, AppendFails(Progress(s)), UNCHANGED highs PROVE Durable'
    <3>1. Gains(segment, {Progress(s)}) /\ Items(unwritten') \subseteq Items(unwritten) \cup {Progress(s)}
      BY <2>1, <2>7, RecordKinds, RecordFailed
    <3>2. Lasting
      BY <2>3, <3>1, DiskRetained DEF Gains, Lasting
    <3>3. Ahead /\ Same
      BY <3>1, DiskWithin, RecordsDiffer DEF Gains, Ahead, Same
    <3> QED
      BY <2>5, <3>2, <3>3
  <2>8. ASSUME UNCHANGED <<files, unwritten>> PROVE Durable'
    BY <2>3, <2>5, <2>8, DiskUnchanged DEF Lasting, Ahead, Same
  <2> QED
    BY <1>3, <2>6, <2>7, <2>8 DEF Forward, Progress
<1>4. CASE End
  <2>1. Gains(segment, {Stopped}) /\ unwritten' = <<>>
    BY <1>4, Ended
  <2>2. UNCHANGED <<up, queue, lastAccepted, accepted, forwarded>> /\ up
    BY <1>4 DEF End
  <2>3. \A t : OnDisk(Packet(t)) => OnDisk(Packet(t))'
    BY <2>1, DiskRetained DEF Gains
  <2>4. \A p : /\ OnDisk(Progress(p))' => OnDisk(Progress(p)) \/ Progress(p) \in Items(unwritten)
               /\ OnDisk(Packet(p))' => OnDisk(Packet(p)) \/ Packet(p) \in Items(unwritten)
    BY <2>1, DiskWithin, RecordsDiffer DEF Gains
  <2>5. \A r : r \notin Items(unwritten')
    BY <2>1, EmptyFile
  <2>6. \A p \in Seqs : OnDisk(Progress(p))' \/ Progress(p) \in Items(unwritten') => 1..p \subseteq forwarded'
    BY <2>2, <2>4, <2>5 DEF Durable
  <2>7. \A t \in Seqs : OnDisk(Packet(t))' \/ Packet(t) \in Items(unwritten') => t <= lastAccepted' + 1
    BY <2>2, <2>4, <2>5 DEF Durable
  <2>8. /\ \A t \in accepted' \ forwarded' : OnDisk(Packet(t))'
        /\ \A t \in queue' : OnDisk(Packet(t))'
    BY <2>2, <2>3 DEF Durable
  <2>9. up' /\ accepted' \subseteq forwarded' \cup queue' /\ 1..lastAccepted' \subseteq forwarded' \cup queue'
    BY <2>2 DEF Durable
  <2> QED
    BY <2>6, <2>7, <2>8, <2>9 DEF Durable
<1>5. CASE Crash
  <2>1. up /\ ~up' /\ UNCHANGED <<accepted, forwarded>>
    BY <1>5 DEF Crash
  <2>2. PICK k : Gains(k, {Packet(lastAccepted + 1), Meta})
    BY <1>5, Crashed
  <2>3. \A r : r \notin Items(unwritten')
    BY <1>5, Crashed, EmptyFile
  <2>4. \A r : OnDisk(r) => OnDisk(r)'
    BY <2>2, DiskRetained DEF Gains
  <2>5. \A p : /\ OnDisk(Progress(p))' => OnDisk(Progress(p)) \/ Progress(p) \in Items(unwritten)
               /\ OnDisk(Packet(p))' => OnDisk(Packet(p)) \/ Packet(p) \in Items(unwritten) \/ p = lastAccepted + 1
    BY <2>2, DiskWithin, RecordsDiffer DEF Gains
  <2>6. ASSUME NEW t \in Seqs, OnDisk(Packet(t))', NEW u \in 1..(t - 1)
        PROVE  u \in forwarded' \/ OnDisk(Packet(u))'
    <3>1. t <= lastAccepted + 1
      <4>0. OnDisk(Packet(t)) \/ Packet(t) \in Items(unwritten) \/ t = lastAccepted + 1
        BY <2>5, <2>6
      <4>1. t <= lastAccepted + 1 \/ t = lastAccepted + 1
        BY <2>1, <4>0 DEF Durable
      <4> QED
        BY <1>0, <4>1
    <3>2. u \in 1..lastAccepted
      BY <1>0, <3>1
    <3> QED
      BY <2>1, <2>4, <3>2 DEF Durable
  <2>7. \A p \in Seqs : OnDisk(Progress(p))' \/ Progress(p) \in Items(unwritten') => 1..p \subseteq forwarded'
    BY <2>1, <2>3, <2>5 DEF Durable
  <2>8. \A t \in accepted' \ forwarded' : OnDisk(Packet(t))'
    BY <2>1, <2>4 DEF Durable
  <2> QED
    BY <2>1, <2>6, <2>7, <2>8 DEF Durable
<1>6. CASE Recover
  <2>1. /\ ~up /\ up' /\ queue' = RecoveredBacklog /\ lastAccepted' = RecoveredLast
        /\ UNCHANGED <<accepted, forwarded>> /\ unwritten = <<>>
    BY <1>6 DEF Recover, Typed, Segments
  <2>2. PICK k : Gains(k, {Meta})
    BY <1>6, Recovered
  <2>3. \A r : OnDisk(r) => OnDisk(r)'
    BY <2>2, DiskRetained DEF Gains
  <2>4. \A p : /\ OnDisk(Progress(p))' \/ Progress(p) \in Items(unwritten') => OnDisk(Progress(p))
               /\ OnDisk(Packet(p))' \/ Packet(p) \in Items(unwritten') => OnDisk(Packet(p))
    BY <1>6, <2>1, <2>2, Recovered, DiskWithin, RecordsDiffer, EmptyFile DEF Gains
  <2>5. \A t \in Seqs : OnDisk(Packet(t)) => t \in forwarded \cup RecoveredBacklog
    <3> SUFFICES ASSUME NEW t \in Seqs, OnDisk(Packet(t)), ~(t > RecoveredProgress) PROVE t \in forwarded
      BY RecoveredMarks
    <3>1. RecoveredProgress \in 0..MaxSeq
      BY RecoveredMarks
    <3>2. t \in 1..RecoveredProgress /\ RecoveredProgress # 0
      BY <1>0, <3>1
    <3> QED
      BY <3>2, RecoveredMarks DEF Durable
  <2>6. 1..RecoveredLast \subseteq forwarded \cup RecoveredBacklog
    <3> SUFFICES ASSUME NEW t \in 1..RecoveredLast PROVE t \in forwarded \cup RecoveredBacklog
      OBVIOUS
    <3>1. RecoveredLast \in 1..MaxSeq /\ OnDisk(Packet(RecoveredLast)) /\ t \in Seqs
      BY <1>0, RecoveredMarks
    <3>2. t = RecoveredLast \/ t \in 1..(RecoveredLast - 1)
      BY <3>1
    <3>3. t \in forwarded \/ OnDisk(Packet(t))
      BY <1>0, <2>1, <3>1, <3>2 DEF Durable
    <3> QED
      BY <2>5, <3>1, <3>3
  <2>7. accepted \subseteq forwarded \cup RecoveredBacklog
    BY <1>0, <2>5 DEF Durable
  <2>8. \A t \in Seqs : OnDisk(Packet(t)) => t <= RecoveredLast + 1
    <3> SUFFICES ASSUME NEW t \in Seqs, OnDisk(Packet(t)) PROVE t <= RecoveredLast + 1
      OBVIOUS
    <3>1. t <= RecoveredLast /\ RecoveredLast \in 0..MaxSeq
      BY RecoveredMarks
    <3> QED
      BY <1>0, <3>1
  <2>9. \A t \in RecoveredBacklog : OnDisk(Packet(t))
    BY RecoveredMarks
  <2> QED
    <3>1. \A p \in Seqs : OnDisk(Progress(p))' \/ Progress(p) \in Items(unwritten') => 1..p \subseteq forwarded'
      BY <2>1, <2>4 DEF Durable
    <3>2. \A t \in accepted' \ forwarded' : OnDisk(Packet(t))'
      BY <2>1, <2>3 DEF Durable
    <3>3. \A t \in queue' : OnDisk(Packet(t))'
      BY <2>1, <2>3, <2>9
    <3>4. \A t \in Seqs : OnDisk(Packet(t))' \/ Packet(t) \in Items(unwritten') => t <= lastAccepted' + 1
      BY <2>1, <2>4, <2>8
    <3> QED
      BY <2>1, <2>6, <2>7, <3>1, <3>2, <3>3, <3>4 DEF Durable
<1>7. CASE Forget \/ RecoverEnded
  <2>1. /\ files' = <<>> /\ ~isOpen /\ ended
        /\ UNCHANGED <<unwritten, isOpen, up, queue, lastAccepted, ended, accepted, forwarded>>
    BY <1>7, RecoveredRecords DEF Forget, RecoverEnded, Typed, Segments, StopIsLast
  <2>2. \A r : ~OnDisk(r)' /\ r \notin Items(unwritten')
    BY <2>1, Removed, EmptyFile
  <2>3. accepted \subseteq forwarded /\ (up => queue = {})
    BY <2>1 DEF StopIsLast
  <2> QED
    BY <2>1, <2>2, <2>3 DEF Durable
<1>8. CASE UNCHANGED vars
  <2>1. \A r : OnDisk(r)' <=> OnDisk(r)
    BY <1>8, DiskUnchanged DEF vars, journal
  <2> QED
    BY <1>8, <2>1 DEF vars, journal, Durable
<1> QED
  BY <1>1, <1>2, <1>3, <1>4, <1>5, <1>6, <1>7, <1>8 DEF Next, RecoverSkips

\* While no write has failed, the last packet is in the open segment or in a
\* segment no Progress may retire.
LEMMA ExactStep ==
    ASSUME Typed, Typed', StopIsLast, Durable, Exact, [Next]_vars
    PROVE  Exact'
<1> SUFFICES ASSUME failures' = 0 PROVE Exact'
  BY DEF Exact
<1>0. /\ MaxSeq \in Nat /\ Seqs = 1..MaxSeq /\ lastAccepted \in 0..MaxSeq /\ segment \in Nat
      /\ queue \subseteq Seqs /\ Len(highs) \in Nat /\ failures \in Nat
  BY JournalAssumption DEF Typed, Counters, Seqs
<1>1. ~DiskFails
  BY <1>0 DEF DiskFails
<1>2. failures = 0
  BY <1>1 DEF Next, AppendPacket, AppendPacketFails, Forward, AppendFails, End, Forget, Crash,
              Recover, RecoverEnded, RecoverSkips, vars
<1>3. /\ unwritten = <<>> /\ ~failed /\ \A r : r \notin Items(unwritten)
      /\ up /\ ~ended => isOpen
      /\ files = <<>> \/ OnDisk(Meta)
      /\ isOpen => Meta \in Items(files[segment])
      /\ isOpen /\ Len(highs) > 1 => Packet(lastAccepted) \in Items(files[segment])
  BY <1>2, EmptyFile DEF Exact
<1>4. ASSUME up, DOMAIN files # {}
      PROVE  /\ OnDisk(Stopped) <=> ended
             /\ \A t \in Seqs : OnDisk(Packet(t)) =>
                  t <= lastAccepted /\ (t \in queue \/ \E p \in Seqs : OnDisk(Progress(p)) /\ t <= p)
             /\ \A p \in Seqs : OnDisk(Progress(p)) => p <= lastAccepted /\ \A t \in queue : p < t
             /\ lastAccepted = 0 \/ OnDisk(Packet(lastAccepted))
  BY <1>2, <1>4 DEF Exact
<1>5. isOpen => segment \in DOMAIN files /\ up /\ ~ended
  BY DEF Typed, Segments
<1>6. isOpen' => segment' \in DOMAIN files' /\ up' /\ ~ended'
  BY DEF Typed, Segments
<1>7. ASSUME NEW s, s = lastAccepted + 1, lastAccepted < MaxSeq, AppendPacket(s) PROVE Exact'
  <2>1. /\ s \in Seqs /\ s \in Nat /\ isOpen /\ isOpen' /\ up /\ up' /\ ~ended /\ ~ended' /\ ~failed'
        /\ queue' = queue \cup {s} /\ lastAccepted' = s
    BY <1>0, <1>7 DEF AppendPacket
  <2>2. /\ Gains(segment', {Packet(s), Meta}) /\ unwritten' = <<>>
        /\ Packet(s) \in Items(files'[segment'])
        /\ segment' = segment \/ Meta \in Items(files'[segment'])
    BY <1>7, <2>1, PacketAppended
  <2>3. /\ \A r : OnDisk(r) => OnDisk(r)'
        /\ \A r : OnDisk(r)' => OnDisk(r) \/ r = Packet(s) \/ r = Meta
    BY <1>3, <2>2, DiskRetained, DiskWithin DEF Gains
  <2>4. Meta \in Items(files'[segment'])
    BY <1>3, <1>5, <2>1, <2>2 DEF Gains, Retains
  <2>5. OnDisk(Meta)' /\ OnDisk(Packet(s))'
    BY <1>6, <2>1, <2>2, <2>4 DEF OnDisk
  <2>6. up /\ DOMAIN files # {}
    BY <1>5, <2>1
  <2>7. ~OnDisk(Stopped)'
    BY <1>4, <2>1, <2>3, <2>6, RecordsDiffer
  <2>8. ASSUME NEW t \in Seqs, OnDisk(Packet(t))'
        PROVE  t <= s /\ (t \in queue' \/ \E p \in Seqs : OnDisk(Progress(p))' /\ t <= p)
    <3>1. OnDisk(Packet(t)) \/ t = s
      BY <2>3, <2>8, RecordsDiffer
    <3>2. CASE t = s
      BY <2>1, <3>2
    <3>3. CASE OnDisk(Packet(t))
      <4>1. t <= lastAccepted /\ (t \in queue \/ \E p \in Seqs : OnDisk(Progress(p)) /\ t <= p)
        BY <1>4, <2>6, <3>3
      <4>2. t <= s
        BY <1>0, <1>7, <4>1
      <4> QED
        BY <2>1, <2>3, <4>1, <4>2
    <3> QED
      BY <3>1, <3>2, <3>3
  <2>9. ASSUME NEW p \in Seqs, OnDisk(Progress(p))'
        PROVE  p <= s /\ \A t \in queue' : p < t
    <3>1. p <= lastAccepted /\ \A t \in queue : p < t
      BY <1>4, <2>3, <2>6, <2>9, RecordsDiffer
    <3> QED
      BY <1>0, <1>7, <2>1, <3>1
  <2> QED
    BY <2>1, <2>2, <2>4, <2>5, <2>7, <2>8, <2>9 DEF Exact
<1>8. ASSUME NEW s \in queue, Forward(s) PROVE Exact'
  <2>1. /\ s \in Seqs /\ up /\ up' /\ ~ended /\ ~ended' /\ isOpen' = isOpen /\ isOpen /\ segment' = segment
        /\ queue' = queue \ {s} /\ failed' = failed /\ lastAccepted' = lastAccepted
        /\ \A t \in queue : s <= t
    BY <1>0, <1>3, <1>8 DEF Forward
  <2>2. AppendProgress(s)
    BY <1>1, <1>8, <2>1 DEF Forward, AppendFails
  <2>3. /\ Within(segment, {Progress(s)}) /\ unwritten' = <<>>
        /\ DOMAIN files' = DOMAIN files \ Retired(Retiring(s))
        /\ \A i \in DOMAIN files' : Items(files[i]) \subseteq Items(files'[i])
        /\ Progress(s) \in Items(files'[segment]) /\ segment \in DOMAIN files'
        /\ MarksShifted(Retiring(s))
    BY <2>1, <2>2, ProgressAppended
  <2>4. /\ Items(files[segment]) \subseteq Items(files'[segment])
        /\ OnDisk(Progress(s))'
    BY <2>3 DEF OnDisk
  <2>5. \A r : OnDisk(r)' => OnDisk(r) \/ r = Progress(s)
    BY <1>3, <2>3, DiskWithin
  <2>6. up /\ DOMAIN files # {}
    BY <1>5, <2>1
  <2>7. Meta \in Items(files'[segment]) /\ OnDisk(Meta)'
    <3>1. Meta \in Items(files'[segment])
      BY <1>3, <2>1, <2>4
    <3> QED
      BY <2>3, <3>1 DEF OnDisk
  <2>8. ~OnDisk(Stopped)'
    BY <1>4, <2>1, <2>5, <2>6, RecordsDiffer
  <2>9. s <= lastAccepted
    BY <1>4, <2>1, <2>6 DEF Durable
  <2>10. ASSUME NEW t \in Seqs, OnDisk(Packet(t))'
         PROVE  t <= lastAccepted /\ (t \in queue' \/ \E p \in Seqs : OnDisk(Progress(p))' /\ t <= p)
    <3>1. OnDisk(Packet(t))
      BY <2>5, <2>10, RecordsDiffer
    <3>2. t <= lastAccepted /\ (t \in queue \/ \E p \in Seqs : OnDisk(Progress(p)) /\ t <= p)
      BY <1>4, <2>6, <3>1
    <3>3. CASE t \in queue /\ t # s
      BY <2>1, <3>2, <3>3
    <3>4. CASE t = s
      BY <1>0, <2>1, <2>4, <3>2, <3>4
    <3>5. ASSUME NEW p \in Seqs, OnDisk(Progress(p)), t <= p PROVE t <= s
      <4>1. p < s
        BY <1>4, <2>6, <3>5
      <4> QED
        BY <1>0, <2>1, <3>5, <4>1
    <3> QED
      BY <2>1, <2>4, <3>2, <3>3, <3>4, <3>5
  <2>11. ASSUME NEW p \in Seqs, OnDisk(Progress(p))'
         PROVE  p <= lastAccepted /\ \A t \in queue' : p < t
    <3>1. CASE p = s
      BY <1>0, <2>1, <2>9, <3>1
    <3>2. CASE OnDisk(Progress(p))
      BY <1>4, <2>1, <2>6, <3>2
    <3> QED
      BY <2>5, <2>11, <3>1, <3>2, RecordsDiffer
  <2>12. /\ lastAccepted = 0 \/ OnDisk(Packet(lastAccepted))'
         /\ Len(highs') > 1 => Packet(lastAccepted) \in Items(files'[segment])
    <3>1. CASE Retiring(s) = 0
      <4>1. DOMAIN files' = DOMAIN files /\ Len(highs') = Len(highs)
        <5>1. Retired(0) = {}
          BY DEF Retired
        <5>2. DOMAIN files' = DOMAIN files
          BY <2>3, <3>1, <5>1
        <5>3. Len(highs') = Len(highs)
          BY <1>0, <2>3, <3>1 DEF MarksShifted
        <5> QED
          BY <5>2, <5>3
      <4>2. \A r : OnDisk(r) => OnDisk(r)'
        BY <2>3, <4>1 DEF OnDisk
      <4>3. lastAccepted = 0 \/ OnDisk(Packet(lastAccepted))
        BY <1>4, <2>6
      <4>4. Packet(lastAccepted) \in Items(files[segment]) => Packet(lastAccepted) \in Items(files'[segment])
        BY <2>4
      <4>5. OnDisk(Packet(lastAccepted)) => \E i \in DOMAIN files' : Packet(lastAccepted) \in Items(files'[i])
        BY <2>3, <4>1 DEF OnDisk
      <4> QED
        BY <1>3, <2>1, <4>1, <4>3, <4>4, <4>5 DEF OnDisk
    <3>2. CASE Retiring(s) # 0
      <4>1. Len(highs) > 1
        BY <1>0, <2>1, <3>2, RetiringLeading
      <4>2. Packet(lastAccepted) \in Items(files'[segment])
        BY <1>3, <2>1, <2>4, <4>1
      <4> QED
        BY <2>1, <2>3, <4>2 DEF OnDisk
    <3> QED
      BY <3>1, <3>2
  <2> QED
    BY <1>3, <2>1, <2>3, <2>7, <2>8, <2>10, <2>11, <2>12 DEF Exact
<1>9. CASE End
  <2>1. /\ up /\ up' /\ ~ended /\ ended' /\ ~isOpen' /\ isOpen /\ failed' = failed
        /\ UNCHANGED <<segment, queue, lastAccepted>> /\ UNCHANGED failures
    BY <1>1, <1>3, <1>9 DEF End
  <2>2. /\ Gains(segment, {Stopped}) /\ unwritten' = <<>> /\ DOMAIN files' = DOMAIN files
        /\ segment \in DOMAIN files' /\ Stopped \in Items(files'[segment])
    BY <1>9, <2>1, Ended
  <2>3. /\ \A r : OnDisk(r) => OnDisk(r)'
        /\ \A r : OnDisk(r)' => OnDisk(r) \/ r = Stopped
    BY <1>3, <2>2, DiskRetained, DiskWithin DEF Gains
  <2>4. OnDisk(Stopped)'
    BY <2>2 DEF OnDisk
  <2>5. DOMAIN files # {} /\ files # <<>>
    BY <1>5, <2>1
  <2>6. OnDisk(Meta)'
    BY <1>3, <2>3, <2>5
  <2>7. \A t : /\ OnDisk(Packet(t))' => OnDisk(Packet(t))
               /\ OnDisk(Progress(t))' => OnDisk(Progress(t))
    BY <2>3, RecordsDiffer
  <2>8. ASSUME NEW t \in Seqs, OnDisk(Packet(t))'
        PROVE  t <= lastAccepted /\ (t \in queue \/ \E p \in Seqs : OnDisk(Progress(p))' /\ t <= p)
    BY <1>4, <2>1, <2>3, <2>5, <2>7, <2>8
  <2>9. ASSUME NEW p \in Seqs, OnDisk(Progress(p))'
        PROVE  p <= lastAccepted /\ \A t \in queue : p < t
    BY <1>4, <2>1, <2>5, <2>7, <2>9
  <2>10. lastAccepted = 0 \/ \E i \in DOMAIN files' : Packet(lastAccepted) \in Items(files'[i])
    <3>1. lastAccepted = 0 \/ OnDisk(Packet(lastAccepted))
      BY <1>4, <2>1, <2>5
    <3> QED
      BY <2>2, <3>1 DEF OnDisk, Gains, Retains
  <2>11. lastAccepted' = 0 \/ OnDisk(Packet(lastAccepted))'
    BY <2>1, <2>10 DEF OnDisk
  <2> QED
    BY <1>3, <2>1, <2>2, <2>4, <2>6, <2>8, <2>9, <2>11 DEF Exact
<1>10. CASE Crash
  <2>1. up /\ ~up' /\ ~isOpen' /\ failed' = FALSE /\ unwritten' = <<>>
    BY <1>10 DEF Crash
  <2>2. PICK k : Gains(k, {Packet(lastAccepted + 1), Meta})
    BY <1>10, Crashed
  <2>3. /\ \A r : OnDisk(r) => OnDisk(r)'
        /\ \A r : OnDisk(r)' => OnDisk(r) \/ r = Packet(lastAccepted + 1) \/ r = Meta
    BY <1>3, <2>2, DiskRetained, DiskWithin DEF Gains
  <2>4. files' = <<>> \/ OnDisk(Meta)'
    <3>1. CASE files = <<>>
      <4>1. ~isOpen
        BY <1>5, <3>1
      <4> QED
        BY <1>10, <3>1, <4>1 DEF Crash, CrashRemains
    <3> QED
      BY <1>3, <2>3, <3>1
  <2>5. ASSUME NEW p \in Seqs, OnDisk(Progress(p))' PROVE \E t \in Seqs : p <= t /\ OnDisk(Packet(t))'
    <3>1. OnDisk(Progress(p))
      BY <2>3, <2>5, RecordsDiffer
    <3>2. DOMAIN files # {}
      BY <3>1 DEF OnDisk
    <3>3. p <= lastAccepted /\ (lastAccepted = 0 \/ OnDisk(Packet(lastAccepted)))
      BY <1>4, <2>1, <3>1, <3>2
    <3>4. lastAccepted \in Seqs /\ OnDisk(Packet(lastAccepted))
      BY <1>0, <3>3
    <3>5. \E t \in Seqs : p <= t /\ OnDisk(Packet(t))
      BY <3>3, <3>4
    <3> QED
      BY <2>3, <3>5
  <2> QED
    BY <2>1, <2>4, <2>5 DEF Exact
<1>11. CASE Recover
  <2>1. /\ ~up /\ up' /\ ~ended' /\ UNCHANGED failures /\ ~OnDisk(Stopped) /\ OnDisk(Meta)
        /\ queue' = RecoveredBacklog /\ lastAccepted' = RecoveredLast
    BY <1>1, <1>11, RecoveredRecords DEF Recover
  <2>2. PICK k : Gains(k, {Meta}) /\ (isOpen' => k = segment' /\ highs' = <<NewSegment(k)>>)
    BY <1>11, Recovered
  <2>3. /\ isOpen' /\ unwritten' = <<>> /\ ~failed' /\ Meta \in Items(files'[segment'])
    BY <1>11, <2>1, Recovered
  <2>4. /\ \A r : OnDisk(r) => OnDisk(r)'
        /\ \A r : OnDisk(r)' => OnDisk(r) \/ r = Meta
    BY <1>3, <2>2, DiskRetained, DiskWithin DEF Gains
  <2>5. OnDisk(Meta)' /\ ~OnDisk(Stopped)'
    BY <2>1, <2>4, RecordsDiffer
  <2>6. \A t : /\ OnDisk(Packet(t))' <=> OnDisk(Packet(t))
               /\ OnDisk(Progress(t))' <=> OnDisk(Progress(t))
    BY <2>4, RecordsDiffer
  <2>7. ASSUME NEW t \in Seqs, OnDisk(Packet(t))
        PROVE  /\ t <= RecoveredLast
               /\ t \in RecoveredBacklog \/ \E p \in Seqs : OnDisk(Progress(p)) /\ t <= p
    <3>1. t <= RecoveredLast /\ RecoveredProgress \in 0..MaxSeq
      BY <2>7, RecoveredMarks
    <3>2. CASE t > RecoveredProgress
      BY <2>7, <3>1, <3>2, RecoveredMarks
    <3>3. CASE ~(t > RecoveredProgress)
      <4>1. t <= RecoveredProgress /\ RecoveredProgress # 0
        BY <1>0, <3>1, <3>3
      <4> QED
        BY <3>1, <4>1, RecoveredMarks
    <3> QED
      BY <3>2, <3>3
  <2>8. ASSUME NEW p \in Seqs, OnDisk(Progress(p))
        PROVE  p <= RecoveredLast /\ \A t \in RecoveredBacklog : p < t
    <3>1. p <= RecoveredProgress /\ RecoveredProgress \in 0..MaxSeq /\ RecoveredLast \in 0..MaxSeq
      BY <2>8, RecoveredMarks
    <3>2. \A t \in RecoveredBacklog : t \in Seqs /\ t > RecoveredProgress
      BY RecoveredMarks
    <3>3. PICK t \in Seqs : p <= t /\ OnDisk(Packet(t))
      BY <1>2, <2>1, <2>8 DEF Exact
    <3>4. t <= RecoveredLast
      BY <3>3, RecoveredMarks
    <3> QED
      BY <1>0, <3>1, <3>2, <3>3, <3>4
  <2>9. RecoveredLast = 0 \/ \E i \in DOMAIN files' : Packet(RecoveredLast) \in Items(files'[i])
    <3>1. RecoveredLast = 0 \/ OnDisk(Packet(RecoveredLast))
      BY RecoveredMarks
    <3> QED
      BY <2>2, <3>1 DEF OnDisk, Gains, Retains
  <2>10. lastAccepted' = 0 \/ OnDisk(Packet(lastAccepted))'
    BY <2>1, <2>9 DEF OnDisk
  <2>11. Len(highs') = 1
    BY <2>2, <2>3
  <2>12. ~(Len(highs') > 1)
    BY <2>11
  <2>13. \A t \in Seqs : OnDisk(Packet(t))' =>
           t <= lastAccepted' /\ (t \in queue' \/ \E p \in Seqs : OnDisk(Progress(p))' /\ t <= p)
    BY <2>1, <2>6, <2>7
  <2>14. \A p \in Seqs : OnDisk(Progress(p))' => p <= lastAccepted' /\ \A t \in queue' : p < t
    BY <2>1, <2>6, <2>8
  <2> QED
    BY <2>1, <2>3, <2>5, <2>10, <2>12, <2>13, <2>14 DEF Exact
<1>12. CASE Forget \/ RecoverEnded
  <2>1. /\ files' = <<>> /\ DOMAIN files' = {} /\ ~isOpen /\ ~isOpen'
        /\ UNCHANGED <<unwritten, isOpen, failed, up, ended>>
    BY <1>12 DEF Forget, RecoverEnded, Typed, Segments
  <2>2. \A r : ~OnDisk(r)'
    BY <2>1, Removed
  <2>3. up' => ended'
    BY <1>3, <2>1
  <2> QED
    BY <1>3, <2>1, <2>2, <2>3 DEF Exact
<1>13. CASE UNCHANGED vars
  <2>1. \A r : OnDisk(r)' <=> OnDisk(r)
    BY <1>13, DiskUnchanged DEF vars, journal
  <2> QED
    BY <1>13, <2>1 DEF vars, journal, Exact, OnDisk
<1> QED
  BY <1>7, <1>8, <1>9, <1>10, <1>11, <1>12, <1>13, <1>1 DEF Next, RecoverSkips, AppendPacketFails

-----------------------------------------------------------------------------
(* The theorems.                                                           *)

Inv == Typed /\ Marks /\ StopIsLast /\ Durable /\ Exact

LEMMA Initial ==
    ASSUME Init
    PROVE  Inv
<1>1. /\ files = [i \in {1} |-> <<Meta>>] /\ DOMAIN files = {1} /\ files[1] = <<Meta>>
      /\ unwritten = <<>> /\ isOpen = TRUE /\ segment = 1 /\ highs = <<[index |-> 1, high |-> 0]>>
      /\ up = TRUE /\ failed = FALSE /\ queue = {} /\ lastAccepted = 0 /\ ended = FALSE
      /\ failures = 0 /\ accepted = {} /\ forwarded = {} /\ crashes = 0
  BY DEF Init
<1>2. Clean(<<Meta>>) /\ Neat(<<Meta>>) /\ Items(<<Meta>>) = {Meta}
      /\ Clean(<<>>) /\ Items(<<>>) = {}
  <2>1. Clean(<<Meta>>)
    BY RecordKinds DEF Clean
  <2>2. Items(<<Meta>>) = {Meta}
    BY <2>1, CleanFile
  <2> QED
    BY <2>1, <2>2, CleanFile, EmptyFile
<1>3. \A r : OnDisk(r) <=> r = Meta
  BY <1>1, <1>2 DEF OnDisk
<1>4. Len(highs) = 1 /\ highs[1].index = 1 /\ highs # <<>> /\ highs \in Seq([index : Nat, high : 0..MaxSeq])
  <2>1. [index |-> 1, high |-> 0] \in [index : Nat, high : 0..MaxSeq]
    BY JournalAssumption
  <2> QED
    BY <1>1, <2>1
<1>5. Counters
  <2>1. /\ isOpen \in BOOLEAN /\ up \in BOOLEAN /\ failed \in BOOLEAN /\ ended \in BOOLEAN
    BY <1>1
  <2>2. /\ queue \subseteq Seqs /\ lastAccepted \in 0..MaxSeq /\ segment \in Nat
        /\ accepted \subseteq Seqs /\ forwarded \subseteq Seqs
        /\ failures \in 0..MaxFailures /\ crashes \in 0..MaxCrash
    BY <1>1, JournalAssumption
  <2> QED
    BY <1>4, <2>1, <2>2 DEF Counters
<1>6. Segments
  <2>1. \E n \in Nat : DOMAIN files \subseteq 1..n
    BY <1>1
  <2>2. \A i, j \in 1..Len(highs) : ~(i < j)
    BY <1>4
  <2> QED
    BY <1>1, <1>2, <1>4, <2>1, <2>2 DEF Segments
<1>7. Marks
  BY <1>1, <1>2, <1>4, RecordsDiffer DEF Marks
<1>8. StopIsLast
  BY <1>1, <1>2, <1>3, RecordsDiffer DEF StopIsLast
<1>9. Durable
  <2>1. \A p : ~OnDisk(Progress(p)) /\ ~OnDisk(Packet(p))
    BY <1>3, RecordsDiffer
  <2>2. \A r : r \notin Items(unwritten)
    BY <1>1, <1>2
  <2>3. 1..lastAccepted = {}
    BY <1>1
  <2> QED
    BY <1>1, <2>1, <2>2, <2>3 DEF Durable
<1>10. Exact
  <2>1. \A p : ~OnDisk(Progress(p)) /\ ~OnDisk(Packet(p))
    BY <1>3, RecordsDiffer
  <2>2. OnDisk(Meta) /\ ~OnDisk(Stopped) /\ ~(Len(highs) > 1) /\ Meta \in Items(files[segment])
    BY <1>1, <1>2, <1>3, <1>4, RecordsDiffer
  <2> QED
    BY <1>1, <2>1, <2>2 DEF Exact
<1> QED
  BY <1>5, <1>6, <1>7, <1>8, <1>9, <1>10 DEF Inv, Typed

LEMMA Invariance == Spec => []Inv
<1>1. Init => Inv
  BY Initial
<1>2. Inv /\ [Next]_vars => Inv'
  BY TypedStep, MarksStep, StopIsLastStep, DurableStep, ExactStep DEF Inv
<1> QED
  BY <1>1, <1>2, PTL DEF Spec

\* The types, for any number of packets, crashes and failed writes: half a record is
\* never left in the buffer, and an open journal writes to the segment it remembers last.
THEOREM JournalTypeCorrect == Spec => []TypeOK
<1>1. Inv => TypeOK
  <2> SUFFICES ASSUME Counters, Segments PROVE TypeOK
    BY DEF Inv, Typed
  <2> DEFINE Any == [kind : {"meta", "packet", "progress", "stopped", "torn"}, seq : 0..MaxSeq]
             MM == [index : Nat, high : 0..MaxSeq]
  <2>1. Kept \cup {Torn} \subseteq Any
    BY JournalAssumption DEF Kept, Torn, Meta, Stopped, Record, Seqs
  <2>2. ASSUME NEW i \in DOMAIN files
        PROVE  i \in Nat /\ \A k \in DOMAIN files[i] : files[i][k] \in Any
    <3>1. i \in Nat
      BY DEF Segments
    <3>2. files[i] \in Seq(Kept \cup {Torn})
      BY DEF Segments, Neat
    <3>3. \A k \in DOMAIN files[i] : files[i][k] \in Kept \cup {Torn}
      BY <3>2
    <3> QED
      BY <2>1, <3>1, <3>3
  <2>3. \A k \in DOMAIN unwritten : unwritten[k] # Torn
    <3>1. unwritten \in Seq(Kept)
      BY DEF Segments, Clean
    <3>2. \A k \in DOMAIN unwritten : unwritten[k] \in Kept
      BY <3>1
    <3> QED
      BY <3>2, RecordKinds
  <2>4. \A i \in DOMAIN highs : highs[i] \in MM
    <3>1. highs \in Seq(MM)
      BY DEF Counters
    <3> HIDE DEF MM
    <3> QED
      BY <3>1
  <2> QED
    BY <2>2, <2>3, <2>4 DEF Counters, Segments, TypeOK
<1> QED
  BY <1>1, Invariance, PTL

\* jrn::Journal::append returned true, so the packet was answered: whatever writes
\* failed, segments were begun or retired and crashes tore since, store::recover finds
\* it unless the tier has it.
THEOREM AcceptedCanBeRecovered == Spec => []AcceptedIsRecoverable
<1>1. Inv => AcceptedIsRecoverable
  <2> SUFFICES ASSUME Typed, Durable, NEW s \in accepted, s \notin forwarded
               PROVE  s \in RecoveredBacklog
    BY DEF Inv, AcceptedIsRecoverable
  <2>1. s \in Seqs /\ OnDisk(Packet(s)) /\ MaxSeq \in Nat
    BY JournalAssumption DEF Durable, Typed, Counters
  <2>2. RecoveredProgress = 0 \/ ~(s \in 1..RecoveredProgress)
    BY RecoveredMarks DEF Durable
  <2>3. RecoveredProgress \in 0..MaxSeq
    BY RecoveredMarks
  <2>4. s > RecoveredProgress
    BY <2>1, <2>2, <2>3 DEF Seqs
  <2> QED
    BY <2>1, <2>4, RecoveredMarks
<1> QED
  BY <1>1, Invariance, PTL

\* While no write fails, what store::recover would read of the segments - the backlog,
\* the last seq and whether the session was stopped - is what the session has in memory.
THEOREM RecoveryFindsTheMemory == Spec => []RecoveryIsExact
<1>1. Inv => RecoveryIsExact
  <2> SUFFICES ASSUME Typed, Durable, Exact, failures = 0, DOMAIN files # {}
               PROVE  /\ RecoveredMeta
                      /\ up => RecoveredBacklog = queue
                      /\ up => RecoveredLast = lastAccepted
                      /\ up => RecoveredStopped = ended
    BY DEF Inv, RecoveryIsExact
  <2>1. RecoveredMeta
    BY RecoveredRecords DEF Exact
  <2>2. ASSUME up
        PROVE  RecoveredBacklog = queue /\ RecoveredLast = lastAccepted /\ RecoveredStopped = ended
    <3>1. /\ OnDisk(Stopped) <=> ended
          /\ \A t \in Seqs : OnDisk(Packet(t)) =>
               t <= lastAccepted /\ (t \in queue \/ \E p \in Seqs : OnDisk(Progress(p)) /\ t <= p)
          /\ \A p \in Seqs : OnDisk(Progress(p)) => p <= lastAccepted /\ \A t \in queue : p < t
          /\ lastAccepted = 0 \/ OnDisk(Packet(lastAccepted))
      BY <2>2 DEF Exact
    <3>2. /\ MaxSeq \in Nat /\ Seqs = 1..MaxSeq /\ queue \subseteq Seqs /\ lastAccepted \in 0..MaxSeq
          /\ RecoveredProgress \in 0..MaxSeq /\ RecoveredLast \in 0..MaxSeq
      BY JournalAssumption, RecoveredMarks DEF Seqs, Typed, Counters
    <3>3. ASSUME NEW t \in RecoveredBacklog PROVE t \in queue
      <4>1. t \in Seqs /\ OnDisk(Packet(t)) /\ t > RecoveredProgress
        BY RecoveredMarks
      <4>2. ASSUME NEW p \in Seqs, OnDisk(Progress(p)) PROVE ~(t <= p)
        <5>1. p <= RecoveredProgress
          BY <4>2, RecoveredMarks
        <5> QED
          BY <3>2, <4>1, <5>1
      <4> QED
        BY <3>1, <4>1, <4>2
    <3>4. ASSUME NEW t \in queue PROVE t \in RecoveredBacklog
      <4>1. t \in Seqs /\ OnDisk(Packet(t))
        BY <2>2, <3>2 DEF Durable
      <4>2. t > RecoveredProgress
        BY <3>1, <3>2, RecoveredMarks
      <4> QED
        BY <4>1, <4>2, RecoveredMarks
    <3>5. RecoveredLast = lastAccepted
      <4>1. RecoveredLast <= lastAccepted
        BY <3>1, <3>2, RecoveredMarks
      <4>2. lastAccepted <= RecoveredLast
        BY <3>1, <3>2, RecoveredMarks
      <4> QED
        BY <3>2, <4>1, <4>2
    <3>6. RecoveredStopped = ended
      <4>1. RecoveredStopped <=> ended
        BY <3>1, RecoveredRecords
      <4>2. RecoveredStopped \in BOOLEAN /\ ended \in BOOLEAN
        BY DEF RecoveredStopped, Typed, Counters
      <4> QED
        BY <4>1, <4>2
    <3> QED
      BY <3>3, <3>4, <3>5, <3>6
  <2> QED
    BY <2>1, <2>2
<1> QED
  BY <1>1, Invariance, PTL
=============================================================================

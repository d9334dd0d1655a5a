---------------------------- MODULE SpillProofs ----------------------------
(***************************************************************************)
(* The spill files keep what the dedup table promises, for every set of    *)
(* files and messages, every number of crashes, and whether or not         *)
(* restore_state reopens the files, as long as no file is deleted before   *)
(* the save that makes the deletion good.                                  *)
(***************************************************************************)
EXTENDS Spill, FiniteSetTheorems, SequenceTheorems, TLAPS

-----------------------------------------------------------------------------
(* Files as sequences of lines *)

(* t is s with lines added behind it. *)
Grows(s, t) == Len(s) <= Len(t) /\ \A i \in 1 .. Len(s) : t[i] = s[i]

(* A line that is there stays where it is when lines are added behind it. *)
LEMMA HasLineGrows ==
  ASSUME NEW s, NEW t, Len(s) \in Nat, Len(t) \in Nat, Grows(s, t),
         NEW from \in Nat \ {0}, NEW to \in Nat, NEW to2 \in Nat, to <= Len(s), to <= to2,
         NEW m, HasLine(s, m, from, to)
  PROVE  HasLine(t, m, from, to2)
<1>1. PICK i \in from .. to : s[i] = m
  BY DEF HasLine
<1>2. i \in 1 .. Len(s) /\ i \in from .. to2
  BY <1>1
<1> QED
  BY <1>1, <1>2 DEF HasLine, Grows

(* Draining a buffer moves its oldest line, and leaves the file's lines as   *)
(* they are.                                                                 *)
LEMMA DrainedLines ==
  ASSUME NEW d \in Seq(Line), NEW b \in Seq(Line), b # <<>>
  PROVE  /\ Append(d, Head(b)) \in Seq(Line) /\ Tail(b) \in Seq(Line)
         /\ Append(d, Head(b)) \o Tail(b) = d \o b
         /\ Grows(d, Append(d, Head(b)))
<1>1. /\ Head(b) \in Line /\ Tail(b) \in Seq(Line) /\ Len(Tail(b)) = Len(b) - 1
      /\ \A i \in 1 .. Len(Tail(b)) : Tail(b)[i] = b[i + 1]
      /\ Len(b) \in Nat /\ Len(b) >= 1 /\ Head(b) = b[1] /\ Len(d) \in Nat
  BY HeadTailProperties, EmptySeq, LenProperties
<1>2. /\ Append(d, Head(b)) \in Seq(Line) /\ Len(Append(d, Head(b))) = Len(d) + 1
      /\ \A i \in 1 .. Len(d) : Append(d, Head(b))[i] = d[i]
      /\ Append(d, Head(b))[Len(d) + 1] = b[1]
  BY <1>1, AppendProperties
<1> DEFINE a == Append(d, Head(b))
           r == Tail(b)
<1> HIDE DEF a, r
<1>3. /\ a \o r \in Seq(Line) /\ Len(a \o r) = Len(d) + Len(b)
      /\ \A i \in 1 .. Len(d) + Len(b) :
           (a \o r)[i] = IF i <= Len(d) + 1 THEN a[i] ELSE r[i - (Len(d) + 1)]
  BY <1>1, <1>2, ConcatProperties DEF a, r
<1>4. /\ d \o b \in Seq(Line) /\ Len(d \o b) = Len(d) + Len(b)
      /\ \A i \in 1 .. Len(d) + Len(b) : (d \o b)[i] = IF i <= Len(d) THEN d[i] ELSE b[i - Len(d)]
  BY ConcatProperties
<1>5. ASSUME NEW i \in 1 .. Len(d) + Len(b) PROVE (a \o r)[i] = (d \o b)[i]
  <2>0. i \in Nat /\ Len(d) \in Nat
    BY <1>1
  <2>1. CASE i <= Len(d)
    BY <1>1, <1>2, <1>3, <1>4, <2>1 DEF a
  <2>2. CASE i = Len(d) + 1
    <3>1. (a \o r)[i] = b[1] /\ i - Len(d) = 1 /\ ~(i <= Len(d))
      BY <1>1, <1>2, <1>3, <2>2 DEF a
    <3> QED
      BY <1>4, <3>1
  <2>3. CASE i > Len(d) + 1
    <3>1. (a \o r)[i] = r[i - (Len(d) + 1)] /\ (d \o b)[i] = b[i - Len(d)]
      BY <1>1, <1>3, <1>4, <2>3
    <3>2. i - (Len(d) + 1) \in 1 .. Len(r) /\ (i - (Len(d) + 1)) + 1 = i - Len(d)
      BY <1>1, <2>3 DEF r
    <3>3. r[i - (Len(d) + 1)] = b[(i - (Len(d) + 1)) + 1]
      BY <1>1, <3>2 DEF r
    <3> QED
      BY <3>1, <3>2, <3>3
  <2>4. i <= Len(d) \/ i = Len(d) + 1 \/ i > Len(d) + 1
    BY <2>0
  <2> QED
    BY <2>1, <2>2, <2>3, <2>4
<1>6. a \o r = d \o b
  BY <1>3, <1>4, <1>5, SeqEqual
<1>7. Grows(d, a)
  BY <1>1, <1>2 DEF Grows, a
<1> QED
  BY <1>1, <1>2, <1>6, <1>7 DEF a, r

(* A line appended to the buffer is the file's last. *)
LEMMA AppendedLines ==
  ASSUME NEW d \in Seq(Line), NEW b \in Seq(Line), NEW m \in Line
  PROVE  /\ Append(b, m) \in Seq(Line) /\ Append(b, m) # <<>>
         /\ Len(d \o Append(b, m)) = Len(d \o b) + 1
         /\ (d \o Append(b, m))[Len(d \o b) + 1] = m
         /\ Grows(d \o b, d \o Append(b, m))
<1>1. /\ Append(b, m) \in Seq(Line) /\ Len(Append(b, m)) = Len(b) + 1
      /\ \A i \in 1 .. Len(b) : Append(b, m)[i] = b[i]
      /\ Append(b, m)[Len(b) + 1] = m
      /\ Len(b) \in Nat /\ Len(d) \in Nat
  BY AppendProperties, LenProperties
<1> DEFINE a == Append(b, m)
<1> HIDE DEF a
<1>2. /\ d \o a \in Seq(Line) /\ Len(d \o a) = Len(d) + Len(b) + 1
      /\ \A i \in 1 .. Len(d) + Len(b) + 1 : (d \o a)[i] = IF i <= Len(d) THEN d[i] ELSE a[i - Len(d)]
  BY <1>1, ConcatProperties DEF a
<1>3. /\ d \o b \in Seq(Line) /\ Len(d \o b) = Len(d) + Len(b)
      /\ \A i \in 1 .. Len(d) + Len(b) : (d \o b)[i] = IF i <= Len(d) THEN d[i] ELSE b[i - Len(d)]
  BY ConcatProperties
<1>4. ASSUME NEW i \in 1 .. Len(d) + Len(b) PROVE (d \o a)[i] = (d \o b)[i]
  <2>0. i \in Nat /\ Len(d) \in Nat
    BY <1>1
  <2>1. CASE i <= Len(d)
    BY <1>1, <1>2, <1>3, <2>1
  <2>2. CASE i > Len(d)
    <3>1. i - Len(d) \in 1 .. Len(b)
      BY <1>1, <2>2
    <3>2. a[i - Len(d)] = b[i - Len(d)]
      BY <1>1, <3>1 DEF a
    <3> QED
      BY <1>1, <1>2, <1>3, <2>2, <3>2
  <2>3. i <= Len(d) \/ i > Len(d)
    BY <2>0
  <2> QED
    BY <2>1, <2>2, <2>3
<1>5. Grows(d \o b, d \o a)
  BY <1>1, <1>2, <1>3, <1>4 DEF Grows
<1>6. (d \o a)[Len(d) + Len(b) + 1] = m
  <2>1. /\ Len(d) + Len(b) + 1 \in 1 .. Len(d) + Len(b) + 1 /\ ~(Len(d) + Len(b) + 1 <= Len(d))
        /\ Len(d) + Len(b) + 1 - Len(d) = Len(b) + 1
    BY <1>1
  <2> QED
    BY <1>1, <1>2, <2>1 DEF a
<1>7. a # <<>>
  <2>1. Len(a) = Len(b) + 1
    BY <1>1 DEF a
  <2> QED
    BY <1>1, <2>1, EmptySeq
<1> QED
  BY <1>1, <1>2, <1>3, <1>5, <1>6, <1>7 DEF a

(* The lines of a file on disk and in the buffer, one behind the other. *)
LEMMA ConcatLines ==
  ASSUME NEW d \in Seq(Line), NEW b \in Seq(Line)
  PROVE  /\ d \o b \in Seq(Line) /\ Len(d) \in Nat /\ Len(d \o b) \in Nat
         /\ Grows(d, d \o b) /\ Grows(d, d)
         /\ d \o <<>> = d /\ <<>> \in Seq(Line)
<1>1. /\ d \o b \in Seq(Line) /\ Len(d \o b) = Len(d) + Len(b) /\ Len(d) \in Nat /\ Len(b) \in Nat
      /\ \A i \in 1 .. Len(d) + Len(b) : (d \o b)[i] = IF i <= Len(d) THEN d[i] ELSE b[i - Len(d)]
  BY ConcatProperties, LenProperties
<1> QED
  BY <1>1, ConcatEmptySeq, EmptySeq DEF Grows

(* Zero bytes behind a file. *)
LEMMA PaddedLines ==
  ASSUME NEW d \in Seq(Line), NEW k \in Nat
  PROVE  d \o [i \in 1 .. k |-> Nul] \in Seq(Line)
<1>1. [i \in 1 .. k |-> Nul] \in [1 .. k -> Line]
  BY DEF Line
<1>2. [i \in 1 .. k |-> Nul] \in Seq(Line)
  BY <1>1, SeqDef
<1> QED
  BY <1>2, ConcatProperties

(* A file that is long enough is cut to a prefix of it. *)
LEMMA TruncatedLines ==
  ASSUME NEW d \in Seq(Line), NEW n \in Nat, NEW there \in BOOLEAN,
         NEW t, t = IF n < Len(d) THEN SubSeq(d, 1, n)
                    ELSE IF n > Len(d) /\ there THEN d \o [i \in 1 .. (n - Len(d)) |-> Nul] ELSE d
  PROVE  /\ t \in Seq(Line)
         /\ n <= Len(d) => Grows(t, d) /\ Len(t) = n
<1>0. Len(d) \in Nat /\ \A i \in 1 .. Len(d) : d[i] \in Line
  BY LenProperties, ElementOfSeq
<1>1. CASE n < Len(d)
  <2>1. \A i \in 1 .. n : d[i] \in Line
    BY <1>0, <1>1
  <2>2. /\ SubSeq(d, 1, n) \in Seq(Line)
        /\ Len(SubSeq(d, 1, n)) = IF 1 <= n THEN n - 1 + 1 ELSE 0
        /\ \A i \in 1 .. n - 1 + 1 : SubSeq(d, 1, n)[i] = d[1 + i - 1]
    BY <2>1, SubSeqProperties
  <2>3. Len(t) = n /\ \A i \in 1 .. n : t[i] = d[i]
    BY <1>1, <2>2
  <2> QED
    BY <1>0, <1>1, <2>2, <2>3 DEF Grows
<1>2. CASE n = Len(d)
  BY <1>0, <1>2 DEF Grows
<1>3. CASE n > Len(d)
  <2>1. n - Len(d) \in Nat
    BY <1>0, <1>3
  <2> QED
    <3>1. d \o [i \in 1 .. (n - Len(d)) |-> Nul] \in Seq(Line)
      BY <2>1, PaddedLines
    <3>2. ~(n < Len(d)) /\ ~(n <= Len(d))
      BY <1>0, <1>3
    <3>3. CASE there
      BY <1>3, <3>1, <3>2, <3>3
    <3>4. CASE ~there
      BY <3>2, <3>4
    <3> QED
      BY <3>3, <3>4
<1> QED
  BY <1>0, <1>1, <1>2, <1>3

-----------------------------------------------------------------------------
(* The invariant, action by action *)

(* What a file is made of. *)
LEMMA FileType ==
  ASSUME TypeOK, NEW f \in Files
  PROVE  /\ disk[f] \in Seq(Line) /\ buffer[f] \in Seq(Line) /\ Lines(f) \in Seq(Line)
         /\ Len(disk[f]) \in Nat /\ Len(Lines(f)) \in Nat /\ Grows(disk[f], Lines(f))
BY ConcatLines DEF TypeOK, Lines

(* The same in the next state. *)
LEMMA FileTypeNext ==
  ASSUME TypeOK', NEW f \in Files
  PROVE  /\ disk'[f] \in Seq(Line) /\ buffer'[f] \in Seq(Line) /\ Lines(f)' \in Seq(Line)
         /\ Len(disk'[f]) \in Nat /\ Len(Lines(f)') \in Nat /\ Grows(disk'[f], Lines(f)')
<1>1. disk'[f] \in Seq(Line) /\ buffer'[f] \in Seq(Line)
  BY DEF TypeOK
<1> QED
  BY <1>1, ConcatLines DEF Lines

(* What a checkpoint covers stays covered while files only grow. *)
LEMMA CommittedGrows ==
  ASSUME SpillInv, TypeOK', stored # Never, StoredNeeded, UNCHANGED stored, NEW f \in Files,
         Grows(disk[f], disk'[f]), Grows(Lines(f), Lines(f)'),
         \A m \in seen' \ seen : f \in FilesOf[m] =>
            HasLine(Lines(f)', m, Len(Lines(f)) + 1, Len(Lines(f)'))
  PROVE  CommittedFile(f)'
<1>1. TypeOK /\ CommittedFile(f) /\ stored.seen \subseteq seen
  BY DEF SpillInv, CommittedOK
<1>2. /\ Len(disk[f]) \in Nat /\ Len(disk'[f]) \in Nat /\ Len(Lines(f)) \in Nat /\ Len(Lines(f)') \in Nat
      /\ Len(disk[f]) <= Len(disk'[f]) /\ Len(Lines(f)) <= Len(Lines(f)')
      /\ Len(disk[f]) <= Len(Lines(f))
  BY <1>1, FileType, FileTypeNext DEF Grows
<1>3. Kept(f) \in Nat /\ Kept(f)' \in Nat /\ Kept(f) <= Kept(f)'
      /\ Kept(f)' <= Len(disk'[f]) /\ Kept(f) <= Len(disk[f])
  BY <1>1, <1>2 DEF Kept, TypeOK, CommittedFile
<1>4. ASSUME NEW m \in stored.seen, f \in FilesOf[m] PROVE HasLine(disk'[f], m, 1, Kept(f)')
  <2>1. HasLine(disk[f], m, 1, Kept(f))
    BY <1>1, <1>4 DEF CommittedFile
  <2> QED
    BY <1>2, <1>3, <2>1, HasLineGrows
<1>5. ASSUME NEW m \in seen' \ stored.seen, f \in FilesOf[m] \cap DOMAIN stored.lens
      PROVE  HasLine(Lines(f)', m, stored.lens[f] + 1, Len(Lines(f)'))
  <2>1. stored.lens[f] \in Nat /\ stored.lens[f] <= Len(Lines(f))
    BY <1>1, <1>2, <1>3, <1>5 DEF Kept, TypeOK
  <2>2. CASE m \in seen
    <3>1. HasLine(Lines(f), m, stored.lens[f] + 1, Len(Lines(f)))
      BY <1>1, <1>5, <2>2 DEF CommittedFile
    <3>2. stored.lens[f] + 1 \in Nat \ {0}
      BY <2>1
    <3> QED
      BY <1>2, <3>1, <3>2, HasLineGrows
  <2>3. CASE m \notin seen
    <3>1. PICK i \in Len(Lines(f)) + 1 .. Len(Lines(f)') : Lines(f)'[i] = m
      BY <1>5, <2>3 DEF HasLine
    <3>2. i \in stored.lens[f] + 1 .. Len(Lines(f)')
      BY <1>2, <2>1, <3>1
    <3> QED
      BY <3>1, <3>2 DEF HasLine
  <2> QED
    BY <2>2, <2>3
<1> QED
  BY <1>3, <1>4, <1>5 DEF CommittedFile

(* All files together. *)
LEMMA CommittedStep ==
  ASSUME SpillInv, TypeOK', UNCHANGED <<stored, early>>, seen \subseteq seen', emitted => emitted',
         aborted => aborted',
         \A f \in Files : Grows(Lines(f), Lines(f)') /\ Grows(disk[f], disk'[f]),
         \A f \in Files : \A m \in seen' \ seen : f \in FilesOf[m] =>
            HasLine(Lines(f)', m, Len(Lines(f)) + 1, Len(Lines(f)'))
  PROVE  CommittedOK'
<1> SUFFICES ASSUME stored # Never
             PROVE  /\ stored.seen \subseteq seen'
                    /\ stored.emitted => emitted'
                    /\ stored.aborted => aborted'
                    /\ StoredNeeded => \A f \in Files : CommittedFile(f)'
  BY DEF CommittedOK, StoredNeeded
<1>1. stored.seen \subseteq seen /\ (stored.emitted => emitted) /\ (stored.aborted => aborted)
  BY DEF SpillInv, CommittedOK
<1>2. ASSUME StoredNeeded, NEW f \in Files PROVE CommittedFile(f)'
  BY <1>2, CommittedGrows
<1> QED
  BY <1>1, <1>2

(* Lines that were there stay there while files only grow. *)
LEMMA AllThereGrows ==
  ASSUME SpillInv, TypeOK', UNCHANGED <<emitted, aborted, early>>,
         \A f \in Files : Grows(Lines(f), Lines(f)'),
         \A f \in Files : \A m \in seen' \ seen : f \in FilesOf[m] =>
            HasLine(Lines(f)', m, Len(Lines(f)) + 1, Len(Lines(f)'))
  PROVE  AllThere'
<1> SUFFICES ASSUME Needed, NEW f \in Files, NEW m \in seen', f \in FilesOf[m]
             PROVE  HasLine(Lines(f)', m, 1, Len(Lines(f)'))
  BY DEF AllThere, Needed
<1>1. Len(Lines(f)) \in Nat /\ Len(Lines(f)') \in Nat /\ Len(Lines(f)) <= Len(Lines(f)')
  BY FileType, FileTypeNext DEF SpillInv, Grows
<1>2. CASE m \in seen
  <2>1. HasLine(Lines(f), m, 1, Len(Lines(f)))
    BY <1>2 DEF SpillInv, AllThere
  <2> QED
    BY <1>1, <2>1, HasLineGrows
<1>3. CASE m \notin seen
  <2>1. PICK i \in Len(Lines(f)) + 1 .. Len(Lines(f)') : Lines(f)'[i] = m
    BY <1>3 DEF HasLine
  <2>2. i \in 1 .. Len(Lines(f)')
    BY <1>1, <2>1
  <2> QED
    BY <2>1, <2>2 DEF HasLine
<1> QED
  BY <1>2, <1>3

(* Before the first message there are no lines and no checkpoint. *)
LEMMA InitSpill == Init => SpillInv
<1> SUFFICES ASSUME Init PROVE SpillInv
  OBVIOUS
<1>1. <<>> \in Seq(Line)
  BY EmptySeq
<1> QED
  BY <1>1 DEF Init, SpillInv, TypeOK, BufferedIsOpen, AllThere, CommittedOK

(* append adds the message's line to each of its files, behind what a       *)
(* checkpoint may have recorded.                                             *)
LEMMA AppendSpill ==
  ASSUME SpillInv, NEW m \in Input, AppendLines(m)
  PROVE  SpillInv'
<1>0. TypeOK /\ FilesOf[m] \subseteq Files
  BY SpillAssumption DEF SpillInv
<1>1. /\ ~emitted /\ seen' = seen \cup {m} /\ handles' = handles \cup FilesOf[m]
      /\ UNCHANGED <<disk, emitted, aborted, starting, stored, early, crashes>>
      /\ exists' \in {exists, exists \cup FilesOf[m]} /\ m \in Line
      /\ buffer' = [f \in Files |-> IF f \in FilesOf[m] THEN Append(buffer[f], m) ELSE buffer[f]]
  BY DEF AppendLines, Line
<1>2. TypeOK'
  <2>1. buffer' \in [Files -> Seq(Line)]
    BY <1>0, <1>1, AppendedLines DEF TypeOK
  <2> QED
    BY <1>0, <1>1, <2>1 DEF TypeOK
<1>3. \A f \in Files : Grows(Lines(f), Lines(f)') /\ Grows(disk[f], disk'[f])
  <2> SUFFICES ASSUME NEW f \in Files PROVE Grows(Lines(f), Lines(f)') /\ Grows(disk[f], disk'[f])
    OBVIOUS
  <2>1. disk[f] \in Seq(Line) /\ buffer[f] \in Seq(Line) /\ Lines(f) \in Seq(Line)
    BY <1>0, FileType
  <2>2. Grows(disk[f], disk[f]) /\ Grows(Lines(f), Lines(f))
    BY <2>1, ConcatLines
  <2>3. CASE f \in FilesOf[m]
    BY <1>1, <2>1, <2>2, <2>3, AppendedLines DEF Lines
  <2>4. CASE f \notin FilesOf[m]
    <3>1. Lines(f)' = Lines(f)
      BY <1>1, <2>4 DEF Lines
    <3> QED
      BY <1>1, <2>2, <3>1
  <2> QED
    BY <2>3, <2>4
<1>4. \A f \in Files : \A n \in seen' \ seen : f \in FilesOf[n] =>
         HasLine(Lines(f)', n, Len(Lines(f)) + 1, Len(Lines(f)'))
  <2> SUFFICES ASSUME NEW f \in Files, f \in FilesOf[m]
               PROVE  HasLine(Lines(f)', m, Len(Lines(f)) + 1, Len(Lines(f)'))
    BY <1>1
  <2>1. disk[f] \in Seq(Line) /\ buffer[f] \in Seq(Line) /\ Len(Lines(f)) \in Nat
    BY <1>0, FileType
  <2>2. Len(Lines(f)') = Len(Lines(f)) + 1 /\ Lines(f)'[Len(Lines(f)) + 1] = m
    BY <1>1, <2>1, AppendedLines DEF Lines
  <2>3. Len(Lines(f)) + 1 \in Len(Lines(f)) + 1 .. Len(Lines(f)')
    BY <2>1, <2>2
  <2> QED
    BY <2>2, <2>3 DEF HasLine
<1>5. BufferedIsOpen'
  BY <1>1 DEF SpillInv, BufferedIsOpen
<1>6. AllThere'
  BY <1>1, <1>2, <1>3, <1>4, AllThereGrows
<1>7. CommittedOK'
  BY <1>1, <1>2, <1>3, <1>4, CommittedStep
<1> QED
  BY <1>2, <1>5, <1>6, <1>7 DEF SpillInv

(* A buffer that is written out changes no file's lines. *)
LEMMA DrainSpill ==
  ASSUME SpillInv, NEW g \in Files, Drain(g)
  PROVE  SpillInv'
<1>0. TypeOK /\ buffer[g] # <<>> /\ disk[g] \in Seq(Line) /\ buffer[g] \in Seq(Line)
  BY DEF SpillInv, TypeOK, Drain
<1>1. /\ UNCHANGED <<handles, seen, emitted, aborted, starting, stored, early, crashes>>
      /\ exists' = exists \cup {g}
      /\ disk' = [disk EXCEPT ![g] = Append(disk[g], Head(buffer[g]))]
      /\ buffer' = [buffer EXCEPT ![g] = Tail(buffer[g])]
  BY DEF Drain
<1>2. TypeOK'
  BY <1>0, <1>1, DrainedLines DEF TypeOK
<1>3. \A f \in Files : Lines(f)' = Lines(f) /\ Grows(disk[f], disk'[f])
  <2> SUFFICES ASSUME NEW f \in Files PROVE Lines(f)' = Lines(f) /\ Grows(disk[f], disk'[f])
    OBVIOUS
  <2>1. CASE f = g
    BY <1>0, <1>1, <2>1, DrainedLines DEF Lines, TypeOK
  <2>2. CASE f # g
    <3>1. disk'[f] = disk[f] /\ buffer'[f] = buffer[f] /\ disk[f] \in Seq(Line)
      BY <1>0, <1>1, <2>2 DEF TypeOK
    <3> QED
      BY <3>1, ConcatLines DEF Lines
  <2> QED
    BY <2>1, <2>2
<1>4. \A f \in Files : Grows(Lines(f), Lines(f)')
  BY <1>0, <1>3, FileType, ConcatLines
<1>5. BufferedIsOpen'
  BY <1>0, <1>1 DEF SpillInv, BufferedIsOpen, TypeOK
<1>6. AllThere'
  BY <1>1, <1>2, <1>4, AllThereGrows
<1>7. CommittedOK'
  BY <1>1, <1>2, <1>3, <1>4, CommittedStep
<1> QED
  BY <1>2, <1>5, <1>6, <1>7 DEF SpillInv

(* A flush of every open file brings all lines to the disk. *)
LEMMA FlushAll ==
  ASSUME SpillInv, Flushed(handles)
  PROVE  /\ disk' \in [Files -> Seq(Line)] /\ buffer' \in [Files -> Seq(Line)]
         /\ exists' \subseteq Files
         /\ \A f \in Files : /\ disk'[f] = Lines(f) /\ buffer'[f] = <<>> /\ Lines(f)' = Lines(f)
                             /\ Grows(disk[f], disk'[f]) /\ Grows(Lines(f), Lines(f)')
<1>0. TypeOK /\ BufferedIsOpen
  BY DEF SpillInv
<1>1. ASSUME NEW f \in Files
      PROVE  /\ disk'[f] = Lines(f) /\ buffer'[f] = <<>> /\ Lines(f)' = Lines(f)
             /\ Grows(disk[f], disk'[f]) /\ Grows(Lines(f), Lines(f)')
             /\ disk'[f] \in Seq(Line) /\ buffer'[f] \in Seq(Line)
  <2>1. /\ disk[f] \in Seq(Line) /\ Lines(f) \in Seq(Line) /\ Grows(disk[f], Lines(f))
        /\ <<>> \in Seq(Line) /\ disk[f] \o <<>> = disk[f] /\ Lines(f) \o <<>> = Lines(f)
        /\ Grows(Lines(f), Lines(f))
    BY <1>0, FileType, ConcatLines
  <2>2. disk'[f] = Lines(f) /\ buffer'[f] = <<>>
    <3>1. CASE f \in handles
      BY <3>1 DEF Flushed
    <3>2. CASE f \notin handles
      <4>1. buffer[f] = <<>> /\ disk'[f] = disk[f] /\ buffer'[f] = buffer[f]
        BY <1>0, <3>2 DEF BufferedIsOpen, Flushed
      <4>2. Lines(f) = disk[f]
        BY <2>1, <4>1 DEF Lines
      <4> QED
        BY <4>1, <4>2
    <3> QED
      BY <3>1, <3>2
  <2>3. Lines(f)' = Lines(f)
    <3>1. Lines(f)' = disk'[f] \o buffer'[f]
      BY DEF Lines
    <3> QED
      BY <2>1, <2>2, <3>1
  <2> QED
    BY <2>1, <2>2, <2>3
<1>2. /\ disk' = [f \in Files |-> disk'[f]] /\ buffer' = [f \in Files |-> buffer'[f]]
  BY DEF Flushed
<1>3. /\ \A f \in Files : disk'[f] \in Seq(Line) /\ buffer'[f] \in Seq(Line)
  BY <1>1
<1>4. disk' \in [Files -> Seq(Line)] /\ buffer' \in [Files -> Seq(Line)]
  BY <1>2, <1>3
<1>5. exists' \subseteq Files
  BY <1>0 DEF Flushed, TypeOK
<1> QED
  BY <1>1, <1>4, <1>5

(* A checkpoint covers every line of the dedup table that it saves: the open *)
(* files by their lengths, the others because restore leaves them alone.     *)
LEMMA CheckpointSpill ==
  ASSUME SpillInv, Checkpoint
  PROVE  SpillInv'
<1>0. TypeOK
  BY DEF SpillInv
<1>1. /\ stored' = Snapshot /\ starting' = FALSE
      /\ Flushed(handles) /\ UNCHANGED <<handles, seen, emitted, aborted, early, crashes>>
  BY DEF Checkpoint
<1>2. /\ stored'.seen = seen /\ stored'.emitted = emitted /\ stored'.aborted = aborted
      /\ stored'.lens = [f \in handles |-> Len(Lines(f))] /\ DOMAIN stored'.lens = handles
  BY <1>1 DEF Snapshot
<1>3. /\ disk' \in [Files -> Seq(Line)] /\ buffer' \in [Files -> Seq(Line)] /\ exists' \subseteq Files
      /\ \A f \in Files : disk'[f] = Lines(f) /\ buffer'[f] = <<>> /\ Lines(f)' = Lines(f)
  BY <1>1, FlushAll
<1>4. TypeOK'
  <2>1. \A f \in handles : stored'.lens[f] \in Nat
    BY <1>0, <1>2, FileType DEF TypeOK
  <2> QED
    BY <1>0, <1>1, <1>2, <1>3, <2>1 DEF TypeOK
<1>5. BufferedIsOpen'
  BY <1>3 DEF BufferedIsOpen
<1>6. AllThere'
  BY <1>1, <1>3 DEF SpillInv, AllThere, Needed
<1>7. ASSUME Needed, NEW f \in Files PROVE CommittedFile(f)'
  <2>1. Len(Lines(f)) \in Nat /\ disk'[f] = Lines(f)
    BY <1>0, <1>3, FileType
  <2>2. Kept(f)' = Len(Lines(f))
    BY <1>2, <2>1 DEF Kept
  <2>3. ASSUME NEW m \in seen, f \in FilesOf[m] PROVE HasLine(disk'[f], m, 1, Kept(f)')
    BY <1>7, <2>1, <2>2, <2>3 DEF SpillInv, AllThere
  <2> QED
    BY <1>1, <1>2, <2>1, <2>2, <2>3 DEF CommittedFile
<1>8. CommittedOK'
  <2>1. StoredNeeded' => Needed
    BY <1>1, <1>2 DEF StoredNeeded, Needed
  <2> QED
    BY <1>1, <1>2, <1>7, <2>1 DEF CommittedOK
<1> QED
  BY <1>4, <1>5, <1>6, <1>8 DEF SpillInv

(* get_result reads the files and takes nothing out of them. *)
LEMMA EmitSpill ==
  ASSUME SpillInv, Emit
  PROVE  SpillInv'
<1>1. /\ ~emitted /\ emitted' = TRUE /\ Flushed(handles)
      /\ UNCHANGED <<seen, aborted, starting, stored, early, crashes>>
      /\ handles' \subseteq handles
  BY DEF Emit
<1>2. /\ disk' \in [Files -> Seq(Line)] /\ buffer' \in [Files -> Seq(Line)] /\ exists' \subseteq Files
      /\ \A f \in Files : /\ buffer'[f] = <<>> /\ Lines(f)' = Lines(f)
                          /\ Grows(disk[f], disk'[f]) /\ Grows(Lines(f), Lines(f)')
  BY <1>1, FlushAll
<1>3. TypeOK'
  BY <1>1, <1>2 DEF SpillInv, TypeOK
<1>4. BufferedIsOpen' /\ AllThere'
  BY <1>1, <1>2 DEF BufferedIsOpen, AllThere, Needed
<1>5. CommittedOK'
  BY <1>1, <1>2, <1>3, CommittedStep
<1> QED
  BY <1>3, <1>4, <1>5 DEF SpillInv

(* Files are deleted when no checkpoint needs them, or early records it. *)
LEMMA DeleteSpill ==
  ASSUME SpillInv, Free \/ Discard
  PROVE  SpillInv'
<1>1. <<>> \in Seq(Line)
  BY EmptySeq
<1>2. /\ disk' = [f \in Files |-> <<>>] /\ buffer' = [f \in Files |-> <<>>]
      /\ exists' = {} /\ handles' = {} /\ UNCHANGED <<seen, emitted, starting, stored, crashes>>
      /\ (emitted' \/ aborted') /\ (aborted => aborted') /\ aborted' \in BOOLEAN
      /\ early' \in BOOLEAN /\ (stored # Never => early' \/ stored.emitted)
  BY DEF Free, Discard, Deleted, SpillInv, TypeOK
<1>3. TypeOK' /\ BufferedIsOpen'
  BY <1>1, <1>2 DEF SpillInv, TypeOK, BufferedIsOpen
<1>4. AllThere' /\ CommittedOK'
  BY <1>2 DEF SpillInv, AllThere, Needed, CommittedOK, StoredNeeded
<1> QED
  BY <1>3, <1>4 DEF SpillInv

(* What restore_state leaves of a file: its lines up to the committed length. *)
LEMMA RestoredFile ==
  ASSUME SpillInv, Crash, stored # Never, NEW f \in Files
  PROVE  /\ disk'[f] \in Seq(Line) /\ buffer'[f] = <<>> /\ Lines(f)' = disk'[f]
         /\ Len(disk'[f]) \in Nat /\ Kept(f) \in Nat
         /\ StoredNeeded => /\ Len(disk'[f]) = Kept(f) /\ Kept(f)' = Kept(f)
                            /\ Grows(disk'[f], disk[f])
<1>0. TypeOK /\ disk[f] \in Seq(Line) /\ Len(disk[f]) \in Nat
  BY FileType DEF SpillInv
<1>1. /\ disk'[f] = IF f \in DOMAIN stored.lens THEN Truncated(f, stored.lens[f]) ELSE disk[f]
      /\ buffer'[f] = <<>> /\ stored' = stored
  BY DEF Crash, Restore
<1>2. StoredNeeded => Kept(f) <= Len(disk[f])
  BY DEF SpillInv, CommittedOK, CommittedFile
<1>3. CASE f \in DOMAIN stored.lens
  <2>1. stored.lens[f] \in Nat /\ Kept(f) = stored.lens[f] /\ Kept(f)' = stored.lens[f]
    BY <1>0, <1>1, <1>3 DEF TypeOK, Kept
  <2>2. disk'[f] = IF stored.lens[f] < Len(disk[f]) THEN SubSeq(disk[f], 1, stored.lens[f])
                   ELSE IF stored.lens[f] > Len(disk[f]) /\ f \in exists
                        THEN disk[f] \o [i \in 1 .. (stored.lens[f] - Len(disk[f])) |-> Nul]
                   ELSE disk[f]
    BY <1>1, <1>3 DEF Truncated
  <2>3. /\ disk'[f] \in Seq(Line)
        /\ stored.lens[f] <= Len(disk[f]) => Grows(disk'[f], disk[f]) /\ Len(disk'[f]) = stored.lens[f]
    BY <1>0, <2>1, <2>2, TruncatedLines
  <2>4. Len(disk'[f]) \in Nat /\ Lines(f)' = disk'[f]
    BY <1>1, <2>3, ConcatLines DEF Lines
  <2> QED
    BY <1>1, <1>2, <2>1, <2>3, <2>4
<1>4. CASE f \notin DOMAIN stored.lens
  <2>1. disk'[f] = disk[f] /\ Kept(f) = Len(disk[f]) /\ Kept(f)' = Len(disk[f])
    BY <1>1, <1>4 DEF Kept
  <2>2. Lines(f)' = disk'[f] /\ Grows(disk[f], disk[f])
    BY <1>0, <1>1, <2>1, ConcatLines DEF Lines
  <2> QED
    BY <1>0, <1>1, <2>1, <2>2
<1> QED
  BY <1>3, <1>4

(* A crash loses buffers and what was written after the checkpoint, and the  *)
(* dedup table goes back to the checkpoint with them.                        *)
LEMMA CrashSpill ==
  ASSUME SpillInv, Crash
  PROVE  SpillInv'
<1>0. TypeOK /\ <<>> \in Seq(Line)
  BY EmptySeq DEF SpillInv
<1>1. stored' = stored /\ early' = early /\ crashes' \in Nat /\ buffer' = [f \in Files |-> <<>>]
  BY <1>0 DEF Crash, TypeOK
<1>2. BufferedIsOpen'
  BY <1>1 DEF BufferedIsOpen
<1>3. CASE stored = Never
  <2>1. /\ disk' = [f \in Files |-> <<>>] /\ handles' = {} /\ seen' = {} /\ emitted' = FALSE
        /\ aborted' = FALSE /\ starting' = FALSE /\ exists' = {}
    BY <1>3 DEF Crash, Restore
  <2> QED
    BY <1>0, <1>1, <1>2, <1>3, <2>1 DEF SpillInv, TypeOK, AllThere, CommittedOK
<1>4. CASE stored # Never
  <2>1. /\ seen' = stored.seen /\ emitted' = stored.emitted /\ aborted' = stored.aborted
        /\ starting' = TRUE /\ exists' \subseteq exists \cup DOMAIN stored.lens
        /\ handles' \subseteq DOMAIN stored.lens
        /\ disk' = [f \in Files |-> disk'[f]]
    BY <1>4 DEF Crash, Restore
  <2>2. \A f \in Files :
          /\ disk'[f] \in Seq(Line) /\ Lines(f)' = disk'[f]
          /\ Len(disk'[f]) \in Nat /\ Kept(f) \in Nat
          /\ StoredNeeded => /\ Len(disk'[f]) = Kept(f) /\ Kept(f)' = Kept(f)
                             /\ Grows(disk'[f], disk[f])
    BY <1>4, RestoredFile
  <2>3. TypeOK'
    <3>1. disk' \in [Files -> Seq(Line)]
      BY <2>1, <2>2
    <3>2. buffer' \in [Files -> Seq(Line)]
      BY <1>0, <1>1
    <3> QED
      BY <1>0, <1>1, <1>4, <2>1, <3>1, <3>2 DEF TypeOK
  <2>4. ASSUME StoredNeeded, NEW f \in Files, NEW m \in stored.seen, f \in FilesOf[m]
        PROVE  HasLine(disk'[f], m, 1, Len(disk'[f]))
    <3>1. PICK i \in 1 .. Kept(f) : disk[f][i] = m
      BY <1>4, <2>4 DEF SpillInv, CommittedOK, CommittedFile, HasLine
    <3>2. i \in 1 .. Len(disk'[f])
      BY <2>2, <2>4, <3>1
    <3>3. disk'[f][i] = m
      BY <2>2, <2>4, <3>1, <3>2 DEF Grows
    <3> QED
      BY <3>2, <3>3 DEF HasLine
  <2>5. AllThere'
    <3>1. Needed' => StoredNeeded
      BY <1>1, <2>1 DEF Needed, StoredNeeded
    <3> QED
      BY <2>1, <2>2, <2>4, <3>1 DEF AllThere
  <2>6. ASSUME StoredNeeded, NEW f \in Files PROVE CommittedFile(f)'
    <3>1. Kept(f)' = Len(disk'[f]) /\ Len(disk'[f]) \in Nat
      BY <2>2, <2>6
    <3>2. \A m \in stored.seen : f \in FilesOf[m] => HasLine(disk'[f], m, 1, Kept(f)')
      BY <2>4, <2>6, <3>1
    <3> QED
      BY <1>1, <2>1, <3>1, <3>2 DEF CommittedFile
  <2>7. CommittedOK'
    BY <1>1, <2>1, <2>6 DEF CommittedOK, StoredNeeded
  <2> QED
    BY <1>2, <2>3, <2>5, <2>7 DEF SpillInv
<1> QED
  BY <1>3, <1>4

(* Every step of the controller preserves the invariant. *)
LEMMA NextSpill == SpillInv /\ [Next]_vars => SpillInv'
<1> SUFFICES ASSUME SpillInv, [Next]_vars PROVE SpillInv'
  OBVIOUS
<1>1. CASE \E m \in Input : AppendLines(m)
  BY <1>1, AppendSpill
<1>2. CASE \E f \in Files : Drain(f)
  BY <1>2, DrainSpill
<1>3. CASE Checkpoint
  BY <1>3, CheckpointSpill
<1>4. CASE Emit
  BY <1>4, EmitSpill
<1>5. CASE Free \/ Discard
  BY <1>5, DeleteSpill
<1>6. CASE Crash
  BY <1>6, CrashSpill
<1>7. CASE UNCHANGED vars
  <2>1. UNCHANGED <<disk, buffer, exists, handles, seen, emitted, aborted, starting, stored, early, crashes>>
    BY <1>7 DEF vars
  <2>2. TypeOK' /\ BufferedIsOpen'
    BY <2>1 DEF SpillInv, TypeOK, BufferedIsOpen
  <2>3. \A f \in Files : Grows(Lines(f), Lines(f)') /\ Grows(disk[f], disk'[f])
    BY <2>1, FileType, ConcatLines DEF SpillInv, Lines
  <2> QED
    BY <2>1, <2>2, <2>3, AllThereGrows, CommittedStep DEF SpillInv
<1> QED
  BY <1>1, <1>2, <1>3, <1>4, <1>5, <1>6, <1>7 DEF Next

-----------------------------------------------------------------------------
(* Counting lines *)

(* How many of the lines s are those of m, by what can be seen in s. *)
LEMMA CountLines ==
  ASSUME NEW s \in Seq(Line), NEW m
  PROVE  LET c == Cardinality({i \in 1 .. Len(s) : s[i] = m}) IN
         /\ c \in Nat
         /\ c >= 1 <=> \E i \in 1 .. Len(s) : s[i] = m
         /\ c = 0 <=> \A i \in 1 .. Len(s) : s[i] # m
         /\ c = 1 <=> \E i \in 1 .. Len(s) : s[i] = m /\ \A j \in 1 .. Len(s) : s[j] = m => j = i
<1> DEFINE T == {i \in 1 .. Len(s) : s[i] = m}
<1>1. IsFiniteSet(T)
  <2>1. Len(s) \in Nat
    BY LenProperties
  <2>2. IsFiniteSet(1 .. Len(s))
    BY <2>1, FS_Interval
  <2> QED
    BY <2>2, FS_Subset
<1>2. Cardinality(T) \in Nat /\ (Cardinality(T) = 0 <=> T = {}) /\ (Cardinality(T) = 1 <=> \E i : T = {i})
  BY <1>1, FS_CardinalityType, FS_EmptySet, FS_Singleton
<1>3. T = {} <=> \A i \in 1 .. Len(s) : s[i] # m
  OBVIOUS
<1>4. (\E i : T = {i}) <=>
        \E i \in 1 .. Len(s) : s[i] = m /\ \A j \in 1 .. Len(s) : s[j] = m => j = i
  <2>1. ASSUME NEW i, T = {i}
        PROVE  i \in 1 .. Len(s) /\ s[i] = m /\ \A j \in 1 .. Len(s) : s[j] = m => j = i
    <3>1. i \in T /\ \A j \in T : j = i
      BY <2>1
    <3> QED
      BY <3>1
  <2>2. ASSUME NEW i \in 1 .. Len(s), s[i] = m, \A j \in 1 .. Len(s) : s[j] = m => j = i
        PROVE  T = {i}
    BY <2>2
  <2> QED
    BY <2>1, <2>2
<1>5. Cardinality(T) >= 1 <=> T # {}
  BY <1>2
<1>6. T # {} <=> \E i \in 1 .. Len(s) : s[i] = m
  OBVIOUS
<1> QED
  BY <1>2, <1>3, <1>4, <1>5, <1>6

(* The dedup table keeps its promise: a message it holds, and which is       *)
(* therefore never applied again, has its line in each of its files until   *)
(* the client is emitted or dropped, wherever a crash falls between append,  *)
(* flush, save and truncate, unless the files were deleted by start() or by  *)
(* an Abort ahead of the save (ring_node.py:71-75 and 112-118).              *)
THEOREM NoLineLost == Spec => []NothingLost
<1>1. SpillInv => NothingLost
  <2> SUFFICES ASSUME SpillInv, Needed, NEW m \in seen, NEW f \in FilesOf[m]
               PROVE  LinesOf(m, f) >= 1
    BY DEF NothingLost
  <2>1. f \in Files /\ m \in Input
    BY SpillAssumption DEF SpillInv, TypeOK
  <2>2. Lines(f) \in Seq(Line) /\ \E i \in 1 .. Len(Lines(f)) : Lines(f)[i] = m
    BY <2>1, FileType DEF SpillInv, AllThere, HasLine
  <2> QED
    BY <2>2, CountLines DEF LinesOf
<1> QED
  BY InitSpill, NextSpill, <1>1, PTL DEF Spec

(* Files hold whole lines of messages, and a checkpoint lengths of files. *)
THEOREM SpillTyped == Spec => []TypeOK
<1>1. SpillInv => TypeOK
  BY DEF SpillInv
<1> QED
  BY InitSpill, NextSpill, <1>1, PTL DEF Spec

-----------------------------------------------------------------------------
(* A file that is exact stays exact *)

Once(s, m) == \E i \in 1 .. Len(s) : s[i] = m /\ \A j \in 1 .. Len(s) : s[j] = m => j = i
None(s, m) == \A i \in 1 .. Len(s) : s[i] # m

(* Exact, without counting. *)
LEMMA ExactMeans ==
  ASSUME TypeOK, NEW f \in Files
  PROVE  Exact(f) <=> \A m \in Input : /\ m \in seen /\ f \in FilesOf[m] => Once(Lines(f), m)
                                       /\ ~(m \in seen /\ f \in FilesOf[m]) => None(Lines(f), m)
<1>1. Lines(f) \in Seq(Line)
  BY FileType
<1>2. \A m \in Input : /\ LinesOf(m, f) = 1 <=> Once(Lines(f), m)
                       /\ LinesOf(m, f) = 0 <=> None(Lines(f), m)
  BY <1>1, CountLines DEF LinesOf, Once, None
<1> QED
  BY <1>2 DEF Exact

(* The same in the next state. *)
LEMMA ExactMeansNext ==
  ASSUME TypeOK', NEW f \in Files,
         \A m \in Input : /\ m \in seen' /\ f \in FilesOf[m] => Once(Lines(f)', m)
                          /\ ~(m \in seen' /\ f \in FilesOf[m]) => None(Lines(f)', m)
  PROVE  Exact(f)'
<1>1. Lines(f)' \in Seq(Line)
  BY FileTypeNext
<1>2. \A m \in Input : /\ LinesOf(m, f)' = 1 <=> Once(Lines(f)', m)
                       /\ LinesOf(m, f)' = 0 <=> None(Lines(f)', m)
  BY <1>1, CountLines DEF LinesOf, Once, None
<1> QED
  BY <1>2 DEF Exact

(* append: a message that is new to the table gets its one line. *)
LEMMA AppendExact ==
  ASSUME SpillInv, SpillInv', NEW n \in Input, AppendLines(n), NEW f \in Files, Exact(f)
  PROVE  Exact(f)'
<1>0. TypeOK /\ TypeOK' /\ n \notin seen /\ seen' = seen \cup {n}
  BY DEF SpillInv, AppendLines
<1>1. \A m \in Input : /\ m \in seen /\ f \in FilesOf[m] => Once(Lines(f), m)
                       /\ ~(m \in seen /\ f \in FilesOf[m]) => None(Lines(f), m)
  BY <1>0, ExactMeans
<1>2. CASE f \notin FilesOf[n]
  <2>1. Lines(f)' = Lines(f)
    BY <1>2 DEF AppendLines, Lines
  <2> QED
    BY <1>0, <1>1, <1>2, <2>1, ExactMeansNext
<1>3. CASE f \in FilesOf[n]
  <2> DEFINE s == Lines(f)
             t == Lines(f)'
             k == Len(Lines(f)) + 1
  <2>1. /\ disk[f] \in Seq(Line) /\ buffer[f] \in Seq(Line) /\ Len(s) \in Nat /\ n \in Line
    BY <1>0, FileType DEF Line
  <2>2. t = disk[f] \o Append(buffer[f], n) /\ s = disk[f] \o buffer[f]
    BY <1>3 DEF AppendLines, Lines
  <2> HIDE DEF s, t
  <2>3. Len(t) = k /\ t[k] = n /\ Grows(s, t)
    <3>1. k = Len(s) + 1
      BY DEF s
    <3>2. LET l == disk[f] \o buffer[f]
              a == disk[f] \o Append(buffer[f], n)
          IN  Len(a) = Len(l) + 1 /\ a[Len(l) + 1] = n /\ Grows(l, a)
      BY <2>1, AppendedLines
    <3> HIDE DEF k
    <3> QED
      BY <2>2, <3>1, <3>2
  <2>4. \A i \in 1 .. k : i = k \/ (i \in 1 .. Len(s) /\ t[i] = s[i])
    BY <2>1, <2>3 DEF Grows, s
  <2>5. k \in 1 .. Len(t) /\ \A i \in 1 .. Len(s) : i \in 1 .. Len(t) /\ t[i] = s[i]
    BY <2>1, <2>3 DEF Grows, s
  <2>6. ASSUME NEW m \in Input
        PROVE  /\ m \in seen' /\ f \in FilesOf[m] => Once(t, m)
               /\ ~(m \in seen' /\ f \in FilesOf[m]) => None(t, m)
    <3>1. CASE m = n
      <4>1. None(s, n)
        BY <1>0, <1>1 DEF s
      <4>2. \A j \in 1 .. Len(t) : t[j] = n => j = k
        BY <2>3, <2>4, <4>1 DEF None
      <4> QED
        BY <1>0, <1>3, <2>3, <2>5, <3>1, <4>2 DEF Once
    <3>2. CASE m # n /\ m \in seen' /\ f \in FilesOf[m]
      <4>1. PICK i \in 1 .. Len(s) : s[i] = m /\ \A j \in 1 .. Len(s) : s[j] = m => j = i
        BY <1>0, <1>1, <3>2 DEF Once, s
      <4>2. i \in 1 .. Len(t) /\ t[i] = m
        BY <2>5, <4>1
      <4>3. \A j \in 1 .. Len(t) : t[j] = m => j = i
        BY <2>3, <2>4, <3>2, <4>1
      <4> QED
        BY <3>2, <4>2, <4>3 DEF Once
    <3>3. CASE m # n /\ ~(m \in seen' /\ f \in FilesOf[m])
      <4>1. None(s, m)
        BY <1>0, <1>1, <3>3 DEF s
      <4>2. None(t, m)
        BY <2>3, <2>4, <3>3, <4>1 DEF None
      <4> QED
        BY <3>3, <4>2
    <3> QED
      BY <3>1, <3>2, <3>3
  <2> QED
    BY <1>0, <2>6, ExactMeansNext DEF t
<1> QED
  BY <1>2, <1>3

(* restore_state: the committed part of an exact file is exact for the saved *)
(* table, since the lines of the messages applied since are behind it.       *)
LEMMA CrashExact ==
  ASSUME SpillInv, SpillInv', Crash, Needed', stored # Never,
         NEW f \in Files, f \in DOMAIN stored.lens, Exact(f)
  PROVE  Exact(f)'
<1> DEFINE s == Lines(f)
           t == Lines(f)'
           n == stored.lens[f]
<1>0. TypeOK /\ TypeOK' /\ seen' = stored.seen /\ StoredNeeded
  BY DEF SpillInv, Crash, Restore, Needed, StoredNeeded
<1>1. \A m \in Input : /\ m \in seen /\ f \in FilesOf[m] => Once(s, m)
                       /\ ~(m \in seen /\ f \in FilesOf[m]) => None(s, m)
  BY <1>0, ExactMeans
<1>2. /\ stored.seen \subseteq seen
      /\ \A m \in stored.seen : f \in FilesOf[m] => HasLine(disk[f], m, 1, Kept(f))
      /\ \A m \in seen \ stored.seen : f \in FilesOf[m] => HasLine(s, m, n + 1, Len(s))
      /\ Kept(f) = n /\ n <= Len(disk[f])
  BY <1>0 DEF SpillInv, CommittedOK, CommittedFile, Kept
<1>3. /\ t = disk'[f] /\ Len(t) = n /\ n \in Nat /\ Grows(t, disk[f])
      /\ Grows(disk[f], s) /\ Len(disk[f]) \in Nat /\ Len(s) \in Nat
  BY <1>0, <1>2, RestoredFile, FileType
<1> HIDE DEF s, t, n
<1>4. Len(t) <= Len(s) /\ \A i \in 1 .. Len(t) : i \in 1 .. Len(s) /\ s[i] = t[i] /\ disk[f][i] = t[i]
  BY <1>3 DEF Grows
<1>5. ASSUME NEW m \in Input
      PROVE  /\ m \in seen' /\ f \in FilesOf[m] => Once(t, m)
             /\ ~(m \in seen' /\ f \in FilesOf[m]) => None(t, m)
  <2>1. CASE m \in stored.seen /\ f \in FilesOf[m]
    <3>1. PICK i \in 1 .. n : disk[f][i] = m
      BY <1>2, <2>1 DEF HasLine
    <3>2. i \in 1 .. Len(t) /\ t[i] = m
      BY <1>3, <1>4, <3>1
    <3>3. \A j \in 1 .. Len(t) : t[j] = m => j = i
      BY <1>1, <1>2, <1>4, <2>1, <3>2 DEF Once
    <3> QED
      BY <1>0, <2>1, <3>2, <3>3 DEF Once
  <2>2. CASE m \notin stored.seen /\ m \in seen /\ f \in FilesOf[m]
    <3>1. PICK k \in n + 1 .. Len(s) : s[k] = m
      BY <1>2, <2>2 DEF HasLine
    <3>2. k \in 1 .. Len(s) /\ \A i \in 1 .. Len(t) : i # k
      BY <1>3, <3>1
    <3>3. None(t, m)
      BY <1>1, <1>4, <2>2, <3>1, <3>2 DEF Once, None
    <3> QED
      BY <1>0, <2>2, <3>3
  <2>3. CASE ~(m \in seen /\ f \in FilesOf[m])
    <3>1. None(t, m)
      BY <1>1, <1>4, <2>3 DEF None
    <3> QED
      BY <1>0, <1>2, <2>3, <3>1
  <2> QED
    BY <1>2, <2>1, <2>2, <2>3
<1> QED
  BY <1>0, <1>5, ExactMeansNext DEF t

(* A step that moves lines from buffer to disk leaves an exact file exact. *)
LEMMA SameLinesExact ==
  ASSUME NEW f \in Files, Exact(f), Lines(f)' = Lines(f), seen' = seen
  PROVE  Exact(f)'
BY DEF Exact, LinesOf

(* A crash undoes appends and dedup entries together: a file that a         *)
(* checkpoint covers and that agrees with the table agrees with it after any *)
(* step.                                                                     *)
THEOREM ExactStaysExact == Spec => StaysExact
<1> DEFINE Covered == \A f \in Files :
             stored # Never /\ f \in DOMAIN stored.lens /\ Exact(f) => Exact(f)'
<1>1. SpillInv /\ SpillInv' /\ [Next]_vars => [Needed' => Covered]_vars
  <2> SUFFICES ASSUME SpillInv, SpillInv', Next, Needed', NEW f \in Files,
                      stored # Never, f \in DOMAIN stored.lens, Exact(f)
               PROVE  Exact(f)'
    OBVIOUS
  <2>1. CASE \E m \in Input : AppendLines(m)
    BY <2>1, AppendExact
  <2>2. CASE \E g \in Files : Drain(g)
    <3>1. PICK g \in Files : Drain(g)
      BY <2>2
    <3>2. Lines(f)' = Lines(f)
      <4>1. disk[f] \in Seq(Line) /\ buffer[f] \in Seq(Line)
        BY DEF SpillInv, TypeOK
      <4>2. CASE f = g
        BY <3>1, <4>1, <4>2, DrainedLines DEF Drain, Lines, SpillInv, TypeOK
      <4>3. CASE f # g
        BY <3>1, <4>3 DEF Drain, Lines, SpillInv, TypeOK
      <4> QED
        BY <4>2, <4>3
    <3> QED
      BY <3>1, <3>2, SameLinesExact DEF Drain
  <2>3. CASE Checkpoint
    BY <2>3, FlushAll, SameLinesExact DEF Checkpoint
  <2>4. CASE Emit \/ Free \/ Discard
    BY <2>4 DEF Emit, Free, Discard, Needed
  <2>5. CASE Crash
    BY <2>5, CrashExact
  <2> QED
    BY <2>1, <2>2, <2>3, <2>4, <2>5 DEF Next
<1> QED
  BY InitSpill, NextSpill, <1>1, PTL DEF Spec, StaysExact

-----------------------------------------------------------------------------
(* PersistentSpill: the files are reopened *)

(* A spill that reopens the files it truncates, as PersistentSpill does, has *)
(* in each checkpoint the length of every file the saved table needs, after  *)
(* any number of restarts.  (MultiShardSpill does not reopen them.)          *)
THEOREM ReopenedIsRecorded ==
  ASSUME Reopen
  PROVE  Spec => []EveryFileRecorded
<1> DEFINE Recorded == OpenIfUsed /\ EveryFileRecorded /\ (stored # Never => (stored.emitted => emitted) /\ (stored.aborted => aborted))
<1>1. Init => Recorded
  BY DEF Init, OpenIfUsed, EveryFileRecorded
<1>2. Recorded /\ [Next]_vars => Recorded'
  <2> SUFFICES ASSUME Recorded, [Next]_vars PROVE Recorded'
    OBVIOUS
  <2>1. CASE \E m \in Input : AppendLines(m)
    BY <2>1 DEF AppendLines, OpenIfUsed, EveryFileRecorded
  <2>2. CASE \E f \in Files : Drain(f)
    BY <2>2 DEF Drain, OpenIfUsed, EveryFileRecorded
  <2>3. CASE Checkpoint
    <3>1. /\ stored'.seen = seen /\ stored'.emitted = emitted /\ stored'.aborted = aborted
          /\ DOMAIN stored'.lens = handles /\ UNCHANGED <<handles, seen, emitted, aborted>>
      BY <2>3 DEF Checkpoint, Snapshot
    <3> QED
      BY <3>1 DEF OpenIfUsed, EveryFileRecorded
  <2>4. CASE Emit
    BY <2>4 DEF Emit, OpenIfUsed, EveryFileRecorded
  <2>5. CASE Free \/ Discard
    BY <2>5 DEF Free, Discard, OpenIfUsed, EveryFileRecorded
  <2>6. CASE Crash
    BY <2>6 DEF Crash, Restore, OpenIfUsed, EveryFileRecorded
  <2>7. CASE UNCHANGED vars
    BY <2>7 DEF vars, OpenIfUsed, EveryFileRecorded
  <2> QED
    BY <2>1, <2>2, <2>3, <2>4, <2>5, <2>6, <2>7 DEF Next
<1>3. Recorded => EveryFileRecorded
  OBVIOUS
<1> QED
  BY <1>1, <1>2, <1>3, PTL DEF Spec
=============================================================================

--------------------------- MODULE LogStoreProofs ---------------------------
(***************************************************************************)
(* Proofs about LogStore, for any number of days, suffixes and lines, any  *)
(* rotation limit and retention, and files that open or do not.            *)
(***************************************************************************)
EXTENDS LogStore, WellFoundedInduction, TLAPS

(* Synced(r, F, ch): writer r is on today's files F of channel ch.  Its    *)
(* counter is the last suffix there is, and when the open file is not that *)
(* one it is the base file of an earlier run, which is full.               *)
Synced(r, F, ch) ==
    /\ r.day = today
    /\ r.fd[ch] \in {0, r.suffix[ch]}
    /\ \A n \in 1 .. MaxSuffix : <<ch, today, n>> \in F <=> n <= r.suffix[ch]
    /\ <<ch, today, 0>> \in F
    /\ r.size[ch] = len[<<ch, today, r.fd[ch]>>]
    /\ r.suffix[ch] > r.fd[ch] => Full(r, ch)

\* Today's suffixes have no gap, and the base file below them is full.
NoGap(ch) ==
    /\ \E t \in Suffix : \A n \in 1 .. MaxSuffix : <<ch, today, n>> \in files <=> n <= t
    /\ \A n \in 1 .. MaxSuffix :
          <<ch, today, n>> \in files => Rotate > 0 /\ len[<<ch, today, 0>>] >= Rotate

\* Nothing is dated later than today, and the files that are open exist.
DiskInv ==
    /\ w.day <= today
    /\ \A f \in files : f[2] <= today
    /\ \A f \in File \ files : len[f] = 0
    /\ \A ch \in Ch : w.day = today /\ w.fd[ch] # Nil => <<ch, today, w.fd[ch]>> \in files

\* Lines of today are in files.
LinesInFiles(ch) ==
    \A i \in 1 .. Len(log) :
        log[i][1] = ch => \/ log[i][2] < today
                          \/ log[i][2] = today /\ log[i] \in files

\* The inductive invariant of one channel.
ChannelInv(ch) ==
    /\ NoGap(ch)
    /\ ~NeedsDay => Synced(w, files, ch)
    /\ LinesInFiles(ch)
    /\ InOrder(ch)

USE LogAssumption

-----------------------------------------------------------------------------
(* The counter that ensureDayLocked finds. *)

Less == {p \in Nat \X Nat : p[1] < p[2]}

\* The order of the natural numbers as a relation.
LEMMA LessIsWellFounded == IsWellFoundedOn(Less, Nat)
  BY NatLessThanWellFounded, Zenon DEF OpToRel, Less

\* A set of natural numbers has a least element.
LEMMA LeastNumber ==
    ASSUME NEW T \in SUBSET Nat, T # {}
    PROVE  \E x \in T : \A y \in T : x <= y
<1>1. PICK x \in T : \A y \in T : <<y, x>> \notin Less
  BY LessIsWellFounded, WFMin, Zenon
<1>2. ASSUME NEW y \in T
      PROVE  x <= y
  <2>1. <<y, x>> \notin Less
    BY <1>1
  <2>2. x \in Nat /\ y \in Nat
    OBVIOUS
  <2> QED
    BY <2>1, <2>2 DEF Less
<1> QED
  BY <1>2

\* highestSuffix ends: there is a last suffix before the first one missing.
LEMMA HighestExists ==
    ASSUME NEW ch
    PROVE  /\ HighestSuffix(ch) \in Suffix
           /\ \A i \in 1 .. HighestSuffix(ch) : <<ch, today, i>> \in files
           /\ HighestSuffix(ch) < MaxSuffix =>
                 <<ch, today, HighestSuffix(ch) + 1>> \notin files
<1> DEFINE Missing == {n \in 1 .. MaxSuffix + 1 :
                          n = MaxSuffix + 1 \/ <<ch, today, n>> \notin files}
<1>1. Missing \in SUBSET Nat /\ Missing # {}
  <2>1. MaxSuffix + 1 \in Missing
    BY DEF LogAssumption
  <2> QED
    BY <2>1 DEF LogAssumption
<1>2. PICK m \in Missing : \A n \in Missing : m <= n
  <2> HIDE DEF Missing
  <2> QED
    BY <1>1, LeastNumber
<1>3. /\ m - 1 \in Suffix
      /\ \A i \in 1 .. m - 1 : <<ch, today, i>> \in files
      /\ m - 1 < MaxSuffix => <<ch, today, (m - 1) + 1>> \notin files
  <2>1. m \in 1 .. MaxSuffix + 1
    OBVIOUS
  <2>2. m - 1 \in Suffix
    BY <2>1 DEF Suffix, LogAssumption
  <2>3. ASSUME NEW i \in 1 .. m - 1
        PROVE  <<ch, today, i>> \in files
    BY <1>2, <2>1 DEF LogAssumption
  <2>4. m - 1 < MaxSuffix => <<ch, today, (m - 1) + 1>> \notin files
    <3>1. (m - 1) + 1 = m
      BY <2>1
    <3> QED
      BY <3>1, <2>1 DEF LogAssumption
  <2> QED
    BY <2>2, <2>3, <2>4
<1> QED
  BY <1>3, Zenon DEF HighestSuffix

\* Where the suffixes have no gap, it is the last of them all.
LEMMA HighestIsLast ==
    ASSUME NEW ch, NEW t \in Suffix,
           \A n \in 1 .. MaxSuffix : <<ch, today, n>> \in files <=> n <= t
    PROVE  HighestSuffix(ch) = t
<1> DEFINE h == HighestSuffix(ch)
<1>1. /\ h \in Suffix
      /\ \A i \in 1 .. h : <<ch, today, i>> \in files
      /\ h < MaxSuffix => <<ch, today, h + 1>> \notin files
  BY HighestExists
<1> HIDE DEF h
<1>2. h <= t
  <2>1. CASE h = 0
    BY <2>1 DEF Suffix
  <2>2. CASE h # 0
    <3>1. h \in 1 .. h /\ h \in 1 .. MaxSuffix
      BY <1>1, <2>2 DEF Suffix
    <3> QED
      BY <1>1, <3>1
  <2> QED
    BY <2>1, <2>2
<1>3. t <= h
  <2>1. CASE h = MaxSuffix
    BY <2>1 DEF Suffix
  <2>2. CASE h # MaxSuffix
    <3>1. h < MaxSuffix /\ h + 1 \in 1 .. MaxSuffix
      BY <1>1, <2>2 DEF Suffix, LogAssumption
    <3>2. ~(h + 1 <= t)
      BY <1>1, <3>1
    <3> QED
      BY <1>1, <3>2 DEF Suffix
  <2> QED
    BY <2>1, <2>2
<1>4. h = t
  BY <1>1, <1>2, <1>3 DEF Suffix
<1> QED
  BY <1>4 DEF h
-----------------------------------------------------------------------------
(* Types. *)

\* What ensureDayLocked leaves is a writer, and files of the directory.
LEMMA ReadyType ==
    ASSUME TypeOK
    PROVE  Ready \in Writer /\ ReadyFiles \in SUBSET File
<1>1. \A ch \in Ch : HighestSuffix(ch) \in Suffix
  BY HighestExists
<1>2. \A ch \in Ch : <<ch, today, 0>> \in File
  BY DEF TypeOK, File, Suffix, LogAssumption
<1>3. DayOpened \in Writer
  <2>1. today \in 0 .. MaxDay /\ 0 \in Suffix
    BY DEF TypeOK, Day, Suffix, LogAssumption
  <2>2. [ch \in Ch |-> len[<<ch, today, 0>>]] \in [Ch -> Nat]
    BY <1>2 DEF TypeOK
  <2>3. [ch \in Ch |-> HighestSuffix(ch)] \in [Ch -> Suffix]
    BY <1>1
  <2>4. w.closed \in BOOLEAN
    BY DEF TypeOK, Writer
  <2> QED
    BY <2>1, <2>2, <2>3, <2>4 DEF DayOpened, Writer
<1> QED
  BY <1>2, <1>3 DEF Ready, ReadyFiles, TypeOK

\* One more line in a file.
LEMMA AddType ==
    ASSUME TypeOK, NEW f \in File, Add(f)
    PROVE  len' \in [File -> Nat] /\ log' \in Seq(File)
<1>1. len[f] + 1 \in Nat
  BY DEF TypeOK
<1> QED
  BY <1>1 DEF Add, TypeOK

\* Each action keeps the types.
LEMMA TypeStep ==
    ASSUME TypeOK, [Next]_vars
    PROVE  TypeOK'
<1>1. Ready \in Writer /\ ReadyFiles \in SUBSET File
  BY ReadyType
<1>2. CASE OpenDayFails
  <2>1. <<"serial", today, 0>> \in File
    BY DEF TypeOK, File, Ch, Suffix, LogAssumption
  <2> QED
    BY <1>2, <2>1 DEF OpenDayFails, NoLine, TypeOK, Writer
<1>3. ASSUME NEW ch \in Ch, Write(ch)
      PROVE  TypeOK'
  <2>1. <<ch, Ready.day, Ready.fd[ch]>> \in File
    <3>1. Ready.day = today
      BY DEF Ready, NeedsDay, DayOpened
    <3>2. Ready.fd[ch] \in Suffix
      BY <1>1, <1>3 DEF Write, Writer
    <3> QED
      BY <3>1, <3>2 DEF File, TypeOK
  <2>2. CASE w' = Ready /\ NoLine
    BY <1>1, <1>3, <2>2 DEF Write, NoLine, TypeOK
  <2>3. CASE /\ w' = [Ready EXCEPT !.size[ch] = @ + 1]
             /\ Add(<<ch, Ready.day, Ready.fd[ch]>>)
    <3>1. w' \in Writer
      BY <1>1, <2>3 DEF Writer
    <3>2. len' \in [File -> Nat] /\ log' \in Seq(File)
      BY <2>1, <2>3, AddType
    <3> QED
      BY <1>1, <1>3, <3>1, <3>2 DEF Write, TypeOK
  <2> QED
    BY <1>3, <2>2, <2>3 DEF Write
<1>4. ASSUME NEW ch \in Ch, WriteRotated(ch)
      PROVE  TypeOK'
  <2> DEFINE n    == Ready.suffix[ch] + 1
             f    == <<ch, Ready.day, n>>
             next == [Ready EXCEPT !.suffix[ch] = n, !.fd[ch] = n, !.size[ch] = 0]
  <2>1. n \in Suffix
    BY <1>1, <1>4 DEF WriteRotated, Writer, Suffix
  <2>2. f \in File
    BY <2>1 DEF Ready, NeedsDay, DayOpened, File, TypeOK
  <2>3. next \in Writer /\ [next EXCEPT !.size[ch] = 1] \in Writer
    <3> HIDE DEF n
    <3> QED
      BY <1>1, <2>1 DEF Writer
  <2>4. /\ files' = ReadyFiles \cup {f}
        /\ \/ w' = [next EXCEPT !.size[ch] = 1] /\ Add(f)
           \/ w' = next /\ NoLine
        /\ UNCHANGED today
    BY <1>4 DEF WriteRotated
  <2> HIDE DEF next, f
  <2>5. CASE NoLine
    BY <1>1, <2>2, <2>3, <2>4, <2>5 DEF NoLine, TypeOK
  <2>6. CASE Add(f)
    <3>1. len' \in [File -> Nat] /\ log' \in Seq(File)
      BY <2>2, <2>6, AddType
    <3> QED
      BY <1>1, <2>2, <2>3, <2>4, <3>1 DEF TypeOK
  <2> QED
    BY <2>4, <2>5, <2>6
<1>5. ASSUME NEW ch \in Ch, RotateFails(ch)
      PROVE  TypeOK'
  <2>1. Ready.suffix[ch] + 1 \in Suffix
    BY <1>1, <1>5 DEF RotateFails, Writer, Suffix
  <2> QED
    BY <1>1, <1>5, <2>1 DEF RotateFails, NoLine, TypeOK, Writer
<1>6. CASE Close
  BY <1>6 DEF Close, TypeOK, Writer
<1>7. CASE Restart
  BY <1>7 DEF Restart, NewWriter, TypeOK, Writer, Suffix, LogAssumption
<1>8. CASE Midnight
  BY <1>8 DEF Midnight, TypeOK, Day, LogAssumption
<1>9. CASE Sweep
  BY <1>9 DEF Sweep, TypeOK
<1>10. CASE UNCHANGED vars
  BY <1>10 DEF vars, TypeOK
<1> QED
  BY <1>2, <1>3, <1>4, <1>5, <1>6, <1>7, <1>8, <1>9, <1>10 DEF Next

\* The variables keep their types; in particular the suffix that
\* highestSuffix finds exists.
THEOREM TypeCorrect == Spec => []TypeOK
<1>1. Init => TypeOK
  BY DEF Init, NewWriter, TypeOK, Writer, Day, Suffix, LogAssumption
<1>2. TypeOK /\ [Next]_vars => TypeOK'
  BY TypeStep
<1> QED
  BY <1>1, <1>2, PTL DEF Spec

-----------------------------------------------------------------------------
(* The disk. *)

\* After ensureDayLocked the writer is on today's files.
LEMMA ReadyOpen ==
    ASSUME TypeOK, DiskInv, NEW ch \in Ch, Ready.fd[ch] # Nil
    PROVE  /\ Ready.day = today
           /\ Ready.fd[ch] \in Suffix
           /\ <<ch, today, Ready.fd[ch]>> \in ReadyFiles
<1>1. Ready.fd[ch] \in Suffix
  BY ReadyType DEF Writer
<1>2. CASE NeedsDay
  BY <1>1, <1>2 DEF Ready, ReadyFiles, DayOpened
<1>3. CASE ~NeedsDay
  BY <1>1, <1>3 DEF Ready, ReadyFiles, NeedsDay, DiskInv
<1> QED
  BY <1>2, <1>3

\* What is on the disk and ready for a write satisfies DiskInv.
LEMMA ReadyDisk ==
    ASSUME TypeOK, DiskInv
    PROVE  /\ Ready.day = today
           /\ \A f \in ReadyFiles : f[2] <= today
           /\ files \subseteq ReadyFiles
           /\ \A ch \in Ch : Ready.fd[ch] # Nil => <<ch, today, Ready.fd[ch]>> \in ReadyFiles
<1>1. today \in Nat
  BY DEF TypeOK, Day
<1>2. Ready.day = today
  BY DEF Ready, NeedsDay, DayOpened
<1>3. \A f \in ReadyFiles : f[2] <= today
  BY <1>1 DEF ReadyFiles, DiskInv
<1>4. files \subseteq ReadyFiles
  BY DEF ReadyFiles
<1> QED
  BY <1>2, <1>3, <1>4, ReadyOpen

\* Each action keeps DiskInv.
LEMMA DiskStep ==
    ASSUME TypeOK, DiskInv, [Next]_vars
    PROVE  DiskInv'
<1> today \in Nat /\ w.day \in Nat
  BY DEF TypeOK, Day, Writer
<1>1. /\ Ready \in Writer
      /\ ReadyFiles \in SUBSET File
      /\ Ready.day = today
      /\ \A f \in ReadyFiles : f[2] <= today
      /\ files \subseteq ReadyFiles
      /\ \A ch \in Ch : Ready.fd[ch] # Nil => <<ch, today, Ready.fd[ch]>> \in ReadyFiles
  BY ReadyType, ReadyDisk
<1>2. CASE OpenDayFails
  BY <1>2 DEF OpenDayFails, NoLine, DiskInv, TypeOK, Writer
<1>3. ASSUME NEW ch \in Ch, Write(ch)
      PROVE  DiskInv'
  <2>1. /\ w'.day = today /\ w'.fd = Ready.fd
        /\ files' = ReadyFiles /\ today' = today
    BY <1>1, <1>3 DEF Write, Writer
  <2>2. \A f \in File \ files' : len'[f] = 0
    <3>1. <<ch, Ready.day, Ready.fd[ch]>> \in ReadyFiles
      BY <1>1, <1>3 DEF Write
    <3>2. \A f \in File \ files : len[f] = 0
      BY DEF DiskInv
    <3> QED
      BY <1>1, <1>3, <3>1, <3>2 DEF Write, Add, NoLine, TypeOK
  <2> QED
    BY <1>1, <2>1, <2>2 DEF DiskInv
<1>4. ASSUME NEW ch \in Ch, WriteRotated(ch)
      PROVE  DiskInv'
  <2> DEFINE n == Ready.suffix[ch] + 1
             f == <<ch, Ready.day, n>>
  <2>1. /\ files' = ReadyFiles \cup {f}
        /\ Add(f) \/ NoLine
        /\ today' = today
    BY <1>4 DEF WriteRotated
  <2>2. w'.day = today /\ w'.fd = [Ready.fd EXCEPT ![ch] = n]
    BY <1>1, <1>4 DEF WriteRotated, Writer
  <2>3. \A c \in Ch : w'.fd[c] # Nil => <<c, today, w'.fd[c]>> \in files'
    BY <1>1, <2>1, <2>2 DEF Writer
  <2>4. \A g \in files' : g[2] <= today
    BY <1>1, <2>1
  <2>5. \A g \in File \ files' : len'[g] = 0
    <3> HIDE DEF f
    <3>1. \A g \in File \ files : len[g] = 0
      BY DEF DiskInv
    <3> QED
      BY <1>1, <2>1, <3>1 DEF Add, NoLine, TypeOK
  <2> QED
    BY <2>1, <2>2, <2>3, <2>4, <2>5 DEF DiskInv
<1>5. ASSUME NEW ch \in Ch, RotateFails(ch)
      PROVE  DiskInv'
  <2>1. /\ files' = ReadyFiles /\ len' = len /\ today' = today
        /\ w'.day = today /\ w'.fd = [Ready.fd EXCEPT ![ch] = Nil]
    BY <1>1, <1>5 DEF RotateFails, NoLine, Writer
  <2>2. \A c \in Ch : w'.fd[c] # Nil => <<c, today, w'.fd[c]>> \in files'
    BY <1>1, <2>1 DEF Writer
  <2> QED
    BY <1>1, <2>1, <2>2 DEF DiskInv
<1>6. CASE Close
  BY <1>6 DEF Close, DiskInv, TypeOK, Writer
<1>7. CASE Restart
  BY <1>7 DEF Restart, NewWriter, DiskInv
<1>8. CASE Midnight
  BY <1>8 DEF Midnight, DiskInv, TypeOK, File, Day
<1>9. CASE Sweep
  <2>1. PICK gone \in SUBSET {f \in files : f[2] <= today - Retention} :
             /\ files' = files \ gone
             /\ len' = [f \in File |-> IF f \in gone THEN 0 ELSE len[f]]
    BY <1>9 DEF Sweep
  <2>2. \A ch \in Ch, n \in Suffix : <<ch, today, n>> \notin gone
    BY <1>9, <2>1 DEF Sweep, LogAssumption
  <2>3. \A ch \in Ch : w.day = today /\ w.fd[ch] # Nil => <<ch, today, w.fd[ch]>> \in files'
    <3> SUFFICES ASSUME NEW ch \in Ch, w.day = today, w.fd[ch] # Nil
                 PROVE  <<ch, today, w.fd[ch]>> \in files'
      OBVIOUS
    <3>1. w.fd[ch] \in Suffix
      BY DEF TypeOK, Writer
    <3> QED
      BY <2>1, <2>2, <3>1 DEF DiskInv
  <2>4. UNCHANGED <<today, w>>
    BY <1>9 DEF Sweep
  <2>5. \A f \in File \ files' : len'[f] = 0
    BY <2>1 DEF DiskInv
  <2> QED
    BY <2>1, <2>3, <2>4, <2>5 DEF DiskInv
<1>10. CASE UNCHANGED vars
  BY <1>10 DEF vars, DiskInv
<1> QED
  BY <1>2, <1>3, <1>4, <1>5, <1>6, <1>7, <1>8, <1>9, <1>10 DEF Next

\* DiskInv holds throughout.
LEMMA DiskHolds == Spec => []DiskInv
<1>1. Init => DiskInv
  BY DEF Init, NewWriter, DiskInv, Day, LogAssumption
<1>2. TypeOK /\ DiskInv /\ [Next]_vars => DiskInv'
  BY DiskStep
<1> QED
  BY <1>1, <1>2, TypeCorrect, PTL DEF Spec

-----------------------------------------------------------------------------
(* The order of one channel. *)

\* After ensureDayLocked the writer is synced with the directory.
LEMMA ReadySynced ==
    ASSUME TypeOK, NEW ch \in Ch, NoGap(ch), ~NeedsDay => Synced(w, files, ch)
    PROVE  Synced(Ready, ReadyFiles, ch)
<1>1. CASE ~NeedsDay
  BY <1>1 DEF Ready, ReadyFiles
<1>2. CASE NeedsDay
  <2>1. PICK t \in Suffix : \A n \in 1 .. MaxSuffix : <<ch, today, n>> \in files <=> n <= t
    BY DEF NoGap
  <2>2. HighestSuffix(ch) = t
    BY <2>1, HighestIsLast
  <2>3. /\ Ready.day = today /\ Ready.fd[ch] = 0
        /\ Ready.suffix[ch] = t /\ Ready.size[ch] = len[<<ch, today, 0>>]
    BY <1>2, <2>2 DEF Ready, DayOpened
  <2>4. ReadyFiles = files \cup {<<c, today, 0>> : c \in Ch}
    BY <1>2 DEF ReadyFiles
  <2>5. \A n \in 1 .. MaxSuffix : <<ch, today, n>> \in ReadyFiles <=> n <= t
    BY <2>1, <2>4
  <2>6. t > 0 => Rotate > 0 /\ len[<<ch, today, 0>>] >= Rotate
    <3>1. t > 0 => t \in 1 .. MaxSuffix /\ t <= t
      BY DEF Suffix, LogAssumption
    <3> QED
      BY <2>1, <3>1 DEF NoGap
  <2>7. <<ch, today, 0>> \in ReadyFiles
    BY <2>4
  <2> QED
    BY <2>3, <2>5, <2>6, <2>7 DEF Synced, Full
<1> QED
  BY <1>1, <1>2

\* A line that goes to the last file of today keeps the order.
LEMMA LineAtEnd ==
    ASSUME TypeOK, NEW ch, LinesInFiles(ch), InOrder(ch), NEW f \in File, Add(f),
           files \subseteq files', today' = today,
           f[1] = ch => /\ f \in files' /\ f[2] = today
                        /\ \A g \in files : g[1] = ch /\ g[2] = today => g[3] <= f[3]
    PROVE  LinesInFiles(ch)' /\ InOrder(ch)'
<1> DEFINE k == Len(log)
<1>1. /\ k \in Nat /\ Len(log') = k + 1 /\ log'[k + 1] = f
      /\ \A i \in 1 .. k : log'[i] = log[i] /\ log[i] \in File
  BY DEF TypeOK, Add
<1> HIDE DEF k
<1>2. \A i \in 1 .. k : log[i][1] = ch =>
         log[i][2] < today \/ (log[i][2] = today /\ log[i] \in files)
  BY DEF LinesInFiles, k
<1>3. LinesInFiles(ch)'
  <2> SUFFICES ASSUME NEW i \in 1 .. k + 1, log'[i][1] = ch
               PROVE  log'[i][2] < today \/ (log'[i][2] = today /\ log'[i] \in files')
    BY <1>1 DEF LinesInFiles
  <2>1. CASE i = k + 1
    BY <1>1, <2>1
  <2>2. CASE i \in 1 .. k
    BY <1>1, <1>2, <2>2
  <2> QED
    BY <1>1, <2>1, <2>2
<1>4. InOrder(ch)'
  <2> SUFFICES ASSUME NEW i \in 1 .. k + 1, NEW j \in 1 .. k + 1,
                      i < j, log'[i][1] = ch, log'[j][1] = ch
               PROVE  Before(log'[i], log'[j])
    BY <1>1 DEF InOrder
  <2>1. i \in 1 .. k
    BY <1>1
  <2>2. CASE j = k + 1
    <3>1. log'[j] = f /\ log'[i] = log[i]
      BY <1>1, <2>1, <2>2
    <3>2. log[i][2] < today \/ (log[i][2] = today /\ log[i] \in files)
      BY <1>2, <2>1, <3>1
    <3> QED
      BY <3>1, <3>2 DEF Before
  <2>3. CASE j \in 1 .. k
    BY <1>1, <2>1, <2>3 DEF InOrder, k
  <2> QED
    BY <1>1, <2>2, <2>3
<1> QED
  BY <1>3, <1>4

\* Steps without a line keep the order as long as files of today stay.
LEMMA NoNewLine ==
    ASSUME NEW ch, LinesInFiles(ch), InOrder(ch), log' = log, today' = today,
           \A f \in files : f[2] = today => f \in files'
    PROVE  LinesInFiles(ch)' /\ InOrder(ch)'
  BY DEF LinesInFiles, InOrder

\* A write to the open file keeps the invariant of each channel.
LEMMA WriteKeeps ==
    ASSUME TypeOK, DiskInv, NEW ch \in Ch, ChannelInv(ch), NEW c \in Ch, Write(c)
    PROVE  ChannelInv(ch)'
<1> DEFINE f == <<c, Ready.day, Ready.fd[c]>>
<1>1. /\ Ready \in Writer /\ today \in Nat
      /\ \A g \in files : g \in ReadyFiles
      /\ \A n \in 1 .. MaxSuffix, e \in Ch :
            <<e, today, n>> \in ReadyFiles <=> <<e, today, n>> \in files
  BY ReadyType DEF ReadyFiles, TypeOK, Day
<1>2. Synced(Ready, ReadyFiles, ch)
  BY ReadySynced DEF ChannelInv
<1>3. f \in File /\ f \in ReadyFiles /\ Ready.day = today
  BY ReadyOpen DEF Write, File, TypeOK
<1>4. /\ files' = ReadyFiles /\ today' = today
      /\ w'.day = Ready.day /\ w'.fd = Ready.fd /\ w'.suffix = Ready.suffix
      /\ \/ w'.size = [Ready.size EXCEPT ![c] = @ + 1] /\ Add(f)
         \/ w'.size = Ready.size /\ NoLine
  BY <1>1 DEF Write, Writer
<1>5. c = ch => Ready.fd[ch] = Ready.suffix[ch]
  BY <1>1, <1>2 DEF Write, Synced, Writer, Suffix
<1>6. \A g \in File : len'[g] = len[g] \/ (g = f /\ len'[g] = len[g] + 1 /\ len[g] \in Nat)
  BY <1>3, <1>4 DEF Add, NoLine, TypeOK
<1>7. \A n \in Suffix : <<ch, today, n>> \in File
  BY DEF File, TypeOK
<1>8. NoGap(ch)'
  <2>1. \E t \in Suffix : \A n \in 1 .. MaxSuffix : <<ch, today, n>> \in files' <=> n <= t
    BY <1>1, <1>4 DEF ChannelInv, NoGap
  <2>2. <<ch, today, 0>> \in File
    BY <1>7 DEF Suffix, LogAssumption
  <2>3. len'[<<ch, today, 0>>] >= len[<<ch, today, 0>>]
    BY <2>2, <1>6 DEF TypeOK
  <2>4. \A n \in 1 .. MaxSuffix :
           <<ch, today, n>> \in files' => Rotate > 0 /\ len[<<ch, today, 0>>] >= Rotate
    BY <1>1, <1>4 DEF ChannelInv, NoGap
  <2>5. len[<<ch, today, 0>>] \in Nat /\ len'[<<ch, today, 0>>] \in Nat
    BY <2>2, <1>6 DEF TypeOK
  <2> QED
    BY <1>4, <2>1, <2>3, <2>4, <2>5 DEF NoGap, LogAssumption
<1>9. Synced(w, files, ch)'
  <2>1. w'.size[ch] = len'[<<ch, today, w'.fd[ch]>>]
    <3> DEFINE g == <<ch, today, Ready.fd[ch]>>
    <3>1. Ready.fd[ch] \in Suffix /\ g \in File
      BY <1>1, <1>2, <1>7 DEF Synced, Writer, Suffix, LogAssumption
    <3>2. Ready.size[ch] = len[g]
      BY <1>2 DEF Synced
    <3>3. CASE c = ch
      BY <1>1, <1>3, <1>4, <3>1, <3>2, <3>3 DEF Add, NoLine, TypeOK, Writer
    <3>4. CASE c # ch
      <4>1. g # f
        BY <3>4
      <4> QED
        BY <1>1, <1>4, <1>6, <3>1, <3>2, <3>4, <4>1 DEF Writer
    <3> QED
      BY <3>3, <3>4
  <2>2. w'.suffix[ch] > w'.fd[ch] => Full(w, ch)'
    <3>1. CASE c = ch
      BY <1>1, <1>4, <1>5, <3>1 DEF Writer, Suffix
    <3>2. CASE c # ch
      <4>1. w'.size[ch] = Ready.size[ch]
        BY <1>1, <1>4, <3>2 DEF Writer
      <4> QED
        BY <1>2, <1>4, <4>1 DEF Synced, Full
    <3> QED
      BY <3>1, <3>2
  <2> QED
    BY <1>2, <1>4, <2>1, <2>2 DEF Synced
<1>10. LinesInFiles(ch)' /\ InOrder(ch)'
  <2>1. CASE NoLine
    BY <1>1, <1>4, <2>1, NoNewLine DEF ChannelInv, NoLine
  <2>2. CASE Add(f)
    <3>1. ASSUME f[1] = ch, NEW g \in files, g[1] = ch, g[2] = today
          PROVE  g[3] <= f[3]
      <4>1. /\ g = <<ch, today, g[3]>> /\ g[3] \in Suffix
        BY <3>1 DEF TypeOK, File
      <4>2. g[3] <= Ready.suffix[ch]
        <5>1. CASE g[3] = 0
          BY <5>1, <1>1 DEF Writer, Suffix
        <5>2. CASE g[3] \in 1 .. MaxSuffix
          BY <1>1, <1>2, <4>1, <5>2 DEF Synced
        <5> QED
          BY <4>1, <5>1, <5>2 DEF Suffix
      <4> QED
        BY <1>5, <3>1, <4>2
    <3>2. LinesInFiles(ch) /\ InOrder(ch)
      BY DEF ChannelInv
    <3>3. f[1] = ch => /\ f \in files' /\ f[2] = today
                       /\ \A g \in files : g[1] = ch /\ g[2] = today => g[3] <= f[3]
      BY <1>3, <1>4, <3>1
    <3> HIDE DEF f
    <3> QED
      BY <1>1, <1>3, <1>4, <2>2, <3>2, <3>3, LineAtEnd
  <2> QED
    BY <1>4, <2>1, <2>2
<1> QED
  BY <1>8, <1>9, <1>10 DEF ChannelInv

\* A rotation keeps the invariant of each channel.
LEMMA RotationKeeps ==
    ASSUME TypeOK, DiskInv, NEW ch \in Ch, ChannelInv(ch), NEW c \in Ch, WriteRotated(c)
    PROVE  ChannelInv(ch)'
<1> DEFINE m == Ready.suffix[c] + 1
           f == <<c, Ready.day, m>>
<1>1. /\ Ready \in Writer /\ today \in Nat /\ Ready.day = today
      /\ \A g \in files : g \in ReadyFiles
      /\ \A n \in 1 .. MaxSuffix, e \in Ch :
            <<e, today, n>> \in ReadyFiles <=> <<e, today, n>> \in files
  BY ReadyType, ReadyDisk DEF ReadyFiles, TypeOK, Day
<1>2. Synced(Ready, ReadyFiles, ch)
  BY ReadySynced DEF ChannelInv
<1>3. m \in 1 .. MaxSuffix /\ Full(Ready, c)
  BY <1>1 DEF WriteRotated, Writer, Suffix
<1>4. f \in File
  BY <1>1, <1>3 DEF File, Suffix, TypeOK
<1>5. /\ files' = ReadyFiles \cup {f} /\ today' = today
      /\ w'.day = Ready.day
      /\ w'.fd = [Ready.fd EXCEPT ![c] = m]
      /\ w'.suffix = [Ready.suffix EXCEPT ![c] = m]
      /\ \/ w'.size = [Ready.size EXCEPT ![c] = 1] /\ Add(f)
         \/ w'.size = [Ready.size EXCEPT ![c] = 0] /\ NoLine
  <2> DEFINE next == [Ready EXCEPT !.suffix[c] = m, !.fd[c] = m, !.size[c] = 0]
  <2>1. /\ files' = ReadyFiles \cup {f} /\ today' = today
        /\ \/ w' = [next EXCEPT !.size[c] = 1] /\ Add(f)
           \/ w' = next /\ NoLine
    BY DEF WriteRotated
  <2> HIDE DEF m, f
  <2>2. /\ next \in Writer
        /\ next.day = Ready.day
        /\ next.fd = [Ready.fd EXCEPT ![c] = m]
        /\ next.suffix = [Ready.suffix EXCEPT ![c] = m]
        /\ next.size = [Ready.size EXCEPT ![c] = 0]
    <3>1. m \in Suffix
      BY <1>3 DEF Suffix
    <3>2. next \in Writer
      BY <1>1, <3>1 DEF Writer
    <3>3. next.day = Ready.day
      BY <1>1 DEF Writer
    <3>4. next.fd = [Ready.fd EXCEPT ![c] = m]
      BY <1>1 DEF Writer
    <3>5. next.suffix = [Ready.suffix EXCEPT ![c] = m]
      BY <1>1 DEF Writer
    <3>6. next.size = [Ready.size EXCEPT ![c] = 0]
      BY <1>1 DEF Writer
    <3> QED
      BY <3>2, <3>3, <3>4, <3>5, <3>6
  <2> HIDE DEF next
  <2>3. CASE w' = next /\ NoLine
    BY <2>1, <2>2, <2>3
  <2>4. CASE w' = [next EXCEPT !.size[c] = 1] /\ Add(f)
    <3>1. /\ w'.day = next.day /\ w'.fd = next.fd /\ w'.suffix = next.suffix
          /\ w'.size = [next.size EXCEPT ![c] = 1]
      BY <2>2, <2>4 DEF Writer
    <3>2. [next.size EXCEPT ![c] = 1] = [Ready.size EXCEPT ![c] = 1]
      BY <2>2, <1>1 DEF Writer
    <3> QED
      BY <2>1, <2>2, <2>4, <3>1, <3>2
  <2> QED
    BY <2>1, <2>3, <2>4
<1>6. c = ch => f \notin files /\ len[f] = 0
  <2>1. c = ch => f \notin files
    <3>1. c = ch => (f \in ReadyFiles <=> m <= Ready.suffix[ch])
      BY <1>1, <1>2, <1>3 DEF Synced
    <3>2. Ready.suffix[c] \in Int
      BY <1>1 DEF Writer, Suffix
    <3> QED
      BY <1>1, <3>1, <3>2
  <2> QED
    BY <1>4, <2>1 DEF DiskInv
<1>7. \A g \in File : len'[g] = len[g] \/ (g = f /\ len'[g] = len[g] + 1 /\ len[g] \in Nat)
  BY <1>4, <1>5 DEF Add, NoLine, TypeOK
<1>8. \A n \in Suffix : <<ch, today, n>> \in File
  BY DEF File, TypeOK
<1> HIDE DEF m
<1>9. NoGap(ch)'
  <2> DEFINE b == <<ch, today, 0>>
  <2>1. \E t \in Suffix : \A n \in 1 .. MaxSuffix : <<ch, today, n>> \in files' <=> n <= t
    <3>1. CASE c = ch
      <4>1. m \in Suffix /\ m = Ready.suffix[ch] + 1 /\ Ready.suffix[ch] \in Nat
        BY <1>1, <1>3, <3>1 DEF Suffix, Writer, m
      <4>2. \A n \in 1 .. MaxSuffix : <<ch, today, n>> \in files' <=> n <= m
        BY <1>1, <1>2, <1>5, <3>1, <4>1 DEF Synced
      <4> QED
        BY <4>1, <4>2
    <3>2. CASE c # ch
      BY <1>1, <1>5, <3>2 DEF ChannelInv, NoGap
    <3> QED
      BY <3>1, <3>2
  <2>2. b \in File /\ b # f
    BY <1>3, <1>8 DEF Suffix, LogAssumption
  <2>3. len'[b] = len[b]
    BY <1>7, <2>2
  <2>4. ASSUME NEW n \in 1 .. MaxSuffix, <<ch, today, n>> \in files'
        PROVE  Rotate > 0 /\ len[b] >= Rotate
    <3>1. CASE <<ch, today, n>> \in files
      BY <3>1 DEF ChannelInv, NoGap
    <3>2. CASE <<ch, today, n>> \notin files
      <4>1. c = ch
        BY <1>1, <1>5, <2>4, <3>2
      <4>2. CASE Ready.suffix[ch] = 0
        <5>1. Ready.size[ch] = len[b]
          BY <1>2, <4>2 DEF Synced
        <5> QED
          BY <1>3, <4>1, <5>1 DEF Full
      <4>3. CASE Ready.suffix[ch] # 0
        <5>1. Ready.suffix[ch] \in 1 .. MaxSuffix
          BY <1>1, <4>3 DEF Writer, Suffix
        <5>2. <<ch, today, Ready.suffix[ch]>> \in files
          BY <1>1, <1>2, <5>1 DEF Synced
        <5> QED
          BY <5>1, <5>2 DEF ChannelInv, NoGap
      <4> QED
        BY <4>2, <4>3
    <3> QED
      BY <3>1, <3>2
  <2> QED
    BY <1>5, <2>1, <2>3, <2>4 DEF NoGap
<1>10. Synced(w, files, ch)'
  <2>1. CASE c = ch
    <3>1. w'.fd[ch] = m /\ w'.suffix[ch] = m /\ w'.day = today
      BY <1>1, <1>5, <2>1 DEF Writer
    <3>2. \A n \in 1 .. MaxSuffix : <<ch, today, n>> \in files' <=> n <= m
      <4>1. m = Ready.suffix[ch] + 1 /\ Ready.suffix[ch] \in Nat
        BY <1>1, <2>1 DEF Suffix, Writer, m
      <4> QED
        BY <1>1, <1>2, <1>5, <2>1, <4>1 DEF Synced
    <3>3. w'.size[ch] = len'[f]
      <4>1. CASE NoLine
        BY <1>1, <1>4, <1>5, <1>6, <2>1, <4>1 DEF Add, NoLine, TypeOK, Writer
      <4>2. CASE Add(f)
        <5>1. len'[f] = 1 /\ len[f] = 0
          BY <1>4, <1>6, <2>1, <4>2 DEF Add, TypeOK
        <5> QED
          BY <1>1, <1>5, <2>1, <5>1 DEF NoLine, Writer
      <4> QED
        BY <1>5, <4>1, <4>2
    <3>4. <<ch, today, 0>> \in files'
      BY <1>2, <1>5 DEF Synced
    <3>5. m \in Nat
      BY <1>3
    <3> QED
      BY <1>1, <1>5, <2>1, <3>1, <3>2, <3>3, <3>4, <3>5 DEF Synced
  <2>2. CASE c # ch
    <3> DEFINE g == <<ch, today, Ready.fd[ch]>>
    <3>1. /\ w'.fd[ch] = Ready.fd[ch] /\ w'.suffix[ch] = Ready.suffix[ch]
          /\ w'.size[ch] = Ready.size[ch]
      BY <1>1, <1>5, <2>2 DEF Writer
    <3>2. g \in File /\ g # f
      BY <1>1, <1>2, <1>8, <2>2 DEF Synced, Writer, Suffix, LogAssumption
    <3>3. len'[g] = len[g]
      BY <1>7, <3>2
    <3>4. \A n \in 1 .. MaxSuffix : <<ch, today, n>> \in files' <=> n <= Ready.suffix[ch]
      BY <1>1, <1>2, <1>5, <2>2 DEF Synced
    <3> QED
      BY <1>1, <1>2, <1>5, <3>1, <3>3, <3>4 DEF Synced, Full
  <2> QED
    BY <2>1, <2>2
<1>11. LinesInFiles(ch)' /\ InOrder(ch)'
  <2>1. CASE NoLine
    BY <1>1, <1>5, <2>1, NoNewLine DEF ChannelInv, NoLine
  <2>2. CASE Add(f)
    <3>1. ASSUME f[1] = ch, NEW g \in files, g[1] = ch, g[2] = today
          PROVE  g[3] <= f[3]
      <4>1. g = <<ch, today, g[3]>> /\ g[3] \in Suffix
        BY <3>1 DEF TypeOK, File
      <4>2. CASE g[3] = 0
        BY <1>3, <4>2
      <4>3. CASE g[3] \in 1 .. MaxSuffix
        <5>1. g[3] <= Ready.suffix[ch]
          BY <1>1, <1>2, <4>1, <4>3 DEF Synced
        <5>2. m = Ready.suffix[ch] + 1 /\ Ready.suffix[ch] \in Nat
          BY <1>1, <3>1 DEF Writer, Suffix, m
        <5> QED
          BY <4>1, <5>1, <5>2 DEF Suffix
      <4> QED
        BY <4>1, <4>2, <4>3 DEF Suffix
    <3>2. LinesInFiles(ch) /\ InOrder(ch)
      BY DEF ChannelInv
    <3>3. f[1] = ch => /\ f \in files' /\ f[2] = today
                       /\ \A g \in files : g[1] = ch /\ g[2] = today => g[3] <= f[3]
      BY <1>1, <1>5, <3>1
    <3>4. files \subseteq files'
      BY <1>1, <1>5
    <3> HIDE DEF f
    <3> QED
      BY <1>4, <1>5, <2>2, <3>2, <3>3, <3>4, LineAtEnd
  <2> QED
    BY <1>5, <2>1, <2>2
<1> QED
  BY <1>9, <1>10, <1>11 DEF ChannelInv

\* The serial channel keeps it through every step; the other one does so as
\* long as files open.
LEMMA ChannelStep ==
    ASSUME TypeOK, DiskInv, NEW ch \in Ch, ChannelInv(ch), [Next]_vars,
           OpenMayFail => ch = "serial"
    PROVE  ChannelInv(ch)'
<1> today \in Nat /\ w.day \in Nat
  BY DEF TypeOK, Day, Writer
<1>1. Ready \in Writer /\ files \subseteq ReadyFiles
  BY ReadyType DEF ReadyFiles
<1>2. \A n \in 1 .. MaxSuffix : <<ch, today, n>> \in ReadyFiles <=> <<ch, today, n>> \in files
  BY DEF ReadyFiles
<1>3. CASE OpenDayFails
  <2>1. /\ NeedsDay' /\ files \subseteq files' /\ len' = len /\ log' = log /\ today' = today
        /\ \A n \in 1 .. MaxSuffix : <<ch, today, n>> \in files' <=> <<ch, today, n>> \in files
    BY <1>3 DEF OpenDayFails, NeedsDay, NoLine, TypeOK, Writer, Ch
  <2>2. NoGap(ch)'
    BY <2>1 DEF ChannelInv, NoGap
  <2> QED
    BY <2>1, <2>2, NoNewLine DEF ChannelInv
<1>4. ASSUME NEW c \in Ch, RotateFails(c)
      PROVE  ChannelInv(ch)'
  <2>1. /\ files' = ReadyFiles /\ len' = len /\ log' = log /\ today' = today
        /\ w'.day = Ready.day
        /\ w'.fd = [Ready.fd EXCEPT ![c] = Nil]
        /\ w'.size = Ready.size
        /\ w'.suffix = [Ready.suffix EXCEPT ![c] = @ + 1]
    BY <1>1, <1>4 DEF RotateFails, NoLine, Writer
  <2>2. NoGap(ch)'
    BY <1>2, <2>1 DEF ChannelInv, NoGap
  <2>3. LinesInFiles(ch)' /\ InOrder(ch)'
    BY <1>1, <2>1, NoNewLine DEF ChannelInv
  <2>4. ch = "serial"
    BY <1>4 DEF RotateFails
  <2>5. CASE c = "serial"
    <3>1. NeedsDay'
      BY <1>1, <2>1, <2>5 DEF NeedsDay, Writer
    <3> QED
      BY <2>2, <2>3, <3>1 DEF ChannelInv
  <2>6. CASE c # "serial"
    <3>1. Synced(Ready, ReadyFiles, ch)
      BY ReadySynced DEF ChannelInv
    <3>2. /\ w'.fd[ch] = Ready.fd[ch] /\ w'.suffix[ch] = Ready.suffix[ch]
          /\ w'.size[ch] = Ready.size[ch]
      BY <1>1, <2>1, <2>4, <2>6 DEF Writer
    <3>3. Synced(w, files, ch)'
      BY <2>1, <3>1, <3>2 DEF Synced, Full
    <3> QED
      BY <2>2, <2>3, <3>3 DEF ChannelInv
  <2> QED
    BY <2>5, <2>6
<1>5. CASE Close \/ Restart
  <2>1. NeedsDay' /\ UNCHANGED <<today, files, len, log>>
    <3>1. CASE Close
      <4>1. w'.fd = [c \in Ch |-> Nil]
        BY <3>1 DEF Close, TypeOK, Writer
      <4> QED
        BY <3>1, <4>1 DEF Close, NeedsDay, Ch
    <3>2. CASE Restart
      BY <3>2 DEF Restart, NewWriter, NeedsDay, Ch
    <3> QED
      BY <1>5, <3>1, <3>2
  <2> QED
    BY <2>1 DEF ChannelInv, NoGap, LinesInFiles, InOrder
<1>6. CASE Midnight
  <2>1. /\ today' = today + 1 /\ UNCHANGED <<files, len, log, w>>
        /\ \A f \in files : f[2] # today + 1
        /\ NeedsDay'
    BY <1>6 DEF Midnight, DiskInv, NeedsDay, TypeOK, File, Day
  <2>2. NoGap(ch)'
    <3>1. \A n \in 1 .. MaxSuffix : <<ch, today + 1, n>> \notin files
      BY <2>1
    <3>2. 0 \in Suffix /\ \A n \in 1 .. MaxSuffix : ~(n <= 0)
      BY DEF Suffix, LogAssumption
    <3> QED
      BY <2>1, <3>1, <3>2 DEF NoGap
  <2>3. LinesInFiles(ch)'
    <3> SUFFICES ASSUME NEW i \in 1 .. Len(log), log[i][1] = ch
                 PROVE  log[i][2] < today + 1
      BY <2>1 DEF LinesInFiles
    <3>1. log[i] \in File
      BY DEF TypeOK
    <3> QED
      BY <3>1 DEF ChannelInv, LinesInFiles, File, Day
  <2>4. InOrder(ch)'
    BY <2>1 DEF ChannelInv, InOrder
  <2> QED
    BY <2>1, <2>2, <2>3, <2>4 DEF ChannelInv
<1>7. CASE Sweep
  <2>1. PICK gone \in SUBSET {f \in files : f[2] <= today - Retention} :
             /\ files' = files \ gone
             /\ len' = [f \in File |-> IF f \in gone THEN 0 ELSE len[f]]
    BY <1>7 DEF Sweep
  <2>2. /\ \A f \in File : f[2] = today => f \notin gone
        /\ today' = today /\ log' = log /\ w' = w
    BY <1>7, <2>1 DEF Sweep, LogAssumption
  <2>3. \A n \in Suffix : /\ <<ch, today, n>> \in File
                          /\ <<ch, today, n>> \in files' <=> <<ch, today, n>> \in files
                          /\ len'[<<ch, today, n>>] = len[<<ch, today, n>>]
    <3> SUFFICES ASSUME NEW n \in Suffix
                 PROVE  /\ <<ch, today, n>> \in File
                        /\ <<ch, today, n>> \in files' <=> <<ch, today, n>> \in files
                        /\ len'[<<ch, today, n>>] = len[<<ch, today, n>>]
      OBVIOUS
    <3>1. <<ch, today, n>> \in File /\ <<ch, today, n>> \notin gone
      BY <2>2 DEF File, TypeOK
    <3> QED
      BY <2>1, <3>1
  <2>4. 0 \in Suffix /\ \A n \in 1 .. MaxSuffix : n \in Suffix
    BY DEF Suffix, LogAssumption
  <2>5. NoGap(ch)'
    BY <2>2, <2>3, <2>4 DEF ChannelInv, NoGap
  <2>6. (~NeedsDay => Synced(w, files, ch))'
    <3>1. NeedsDay' <=> NeedsDay
      BY <2>2 DEF NeedsDay
    <3>2. Synced(w, files, ch) => Synced(w, files, ch)'
      <4> SUFFICES ASSUME Synced(w, files, ch)
                   PROVE  Synced(w, files, ch)'
        OBVIOUS
      <4>1. w.fd[ch] \in Suffix
        BY <2>4 DEF Synced, TypeOK, Writer
      <4>2. len'[<<ch, today, w.fd[ch]>>] = len[<<ch, today, w.fd[ch]>>]
        BY <2>3, <4>1
      <4> QED
        BY <2>2, <2>3, <2>4, <4>2 DEF Synced, Full
    <3> QED
      BY <3>1, <3>2 DEF ChannelInv
  <2>7. LinesInFiles(ch)' /\ InOrder(ch)'
    <3>1. \A f \in files : f[2] = today => f \in files'
      BY <2>1, <2>2 DEF TypeOK
    <3> QED
      BY <2>2, <3>1, NoNewLine DEF ChannelInv
  <2> QED
    BY <2>5, <2>6, <2>7 DEF ChannelInv
<1>8. CASE UNCHANGED vars
  BY <1>8 DEF vars, ChannelInv, NoGap, NeedsDay, Synced, Full, LinesInFiles, InOrder
<1>9. ASSUME NEW c \in Ch, Write(c) \/ WriteRotated(c)
      PROVE  ChannelInv(ch)'
  BY <1>9, WriteKeeps, RotationKeeps
<1> QED
  BY <1>3, <1>4, <1>5, <1>6, <1>7, <1>8, <1>9 DEF Next

\* No device has a file, a session or a line at first.
LEMMA ChannelInit == Init => \A ch \in Ch : ChannelInv(ch)
<1> SUFFICES ASSUME Init, NEW ch \in Ch
             PROVE  ChannelInv(ch)
  OBVIOUS
<1>1. 0 \in Suffix /\ \A n \in 1 .. MaxSuffix : ~(n <= 0)
  BY DEF Suffix, LogAssumption
<1> QED
  BY <1>1 DEF Init, NewWriter, NeedsDay, Ch, ChannelInv, NoGap, LinesInFiles, InOrder

\* The serial log is in the order of writing, through restarts, midnights,
\* sweeps and files that do not open.
THEOREM SerialOrdered == Spec => []SerialInOrder
<1> DEFINE I == ChannelInv("serial")
<1>1. Init => I
  BY ChannelInit DEF Ch
<1>2. TypeOK /\ DiskInv /\ I /\ [Next]_vars => I'
  BY ChannelStep DEF Ch
<1>3. I => SerialInOrder
  BY DEF ChannelInv, SerialInOrder
<1> HIDE DEF I
<1> QED
  BY <1>1, <1>2, <1>3, TypeCorrect, DiskHolds, PTL DEF Spec

\* The events log is as long as files open: the assumption the run SuffixGap
\* shows to be needed.
THEOREM EventsOrdered ==
    ASSUME OpenMayFail = FALSE
    PROVE  Spec => []EventsInOrder
<1> DEFINE I == ChannelInv("events")
<1>1. Init => I
  BY ChannelInit DEF Ch
<1>2. TypeOK /\ DiskInv /\ I /\ [Next]_vars => I'
  BY ChannelStep DEF Ch
<1>3. I => EventsInOrder
  BY DEF ChannelInv, EventsInOrder
<1> HIDE DEF I
<1> QED
  BY <1>1, <1>2, <1>3, TypeCorrect, DiskHolds, PTL DEF Spec

-----------------------------------------------------------------------------
(* Sizes, handles and the sweep. *)

\* A serial line goes to a file that is not full.
LEMMA BoundStep ==
    ASSUME TypeOK, DiskInv, ChannelInv("serial"), SerialBounded, [Next]_vars
    PROVE  SerialBounded'
<1> SUFFICES ASSUME Rotate > 0, NEW g \in files', g[1] = "serial"
             PROVE  len'[g] <= Rotate
  BY DEF SerialBounded
<1>1. /\ TypeOK' /\ Ready \in Writer /\ ReadyFiles \in SUBSET File /\ Ready.day = today
      /\ Synced(Ready, ReadyFiles, "serial")
  BY TypeStep, ReadyType, ReadyDisk, ReadySynced DEF ChannelInv, Ch
<1>2. \A f \in File : f[1] = "serial" => len[f] <= Rotate
  BY DEF SerialBounded, DiskInv, LogAssumption
<1>3. g \in File
  BY <1>1 DEF TypeOK
<1>4. CASE UNCHANGED len
  BY <1>2, <1>3, <1>4
<1>5. ASSUME NEW ch \in Ch, Write(ch), ~NoLine
      PROVE  len'[g] <= Rotate
  <2> DEFINE f == <<ch, Ready.day, Ready.fd[ch]>>
  <2>1. len' = [len EXCEPT ![f] = @ + 1]
    BY <1>5 DEF Write, Add
  <2>2. CASE g = f
    <3>1. Ready.size["serial"] = len[g] /\ ~(Ready.size["serial"] >= Rotate)
      BY <1>1, <1>5, <2>2 DEF Synced, Write, Full
    <3>2. len'[g] = len[g] + 1 /\ len[g] \in Nat
      BY <1>3, <2>1, <2>2 DEF TypeOK
    <3> QED
      BY <3>1, <3>2 DEF LogAssumption
  <2>3. CASE g # f
    BY <1>2, <1>3, <2>1, <2>3 DEF TypeOK
  <2> QED
    BY <2>2, <2>3
<1>6. ASSUME NEW ch \in Ch, WriteRotated(ch), ~NoLine
      PROVE  len'[g] <= Rotate
  <2> DEFINE m == Ready.suffix[ch] + 1
             f == <<ch, Ready.day, m>>
  <2>1. len' = [len EXCEPT ![f] = @ + 1]
    BY <1>6 DEF WriteRotated, Add
  <2>2. CASE g = f
    <3>1. ch = "serial" /\ m \in 1 .. MaxSuffix /\ Ready.suffix[ch] \in Nat
      BY <1>1, <1>6, <2>2 DEF WriteRotated, Writer, Suffix
    <3>2. f \notin ReadyFiles
      BY <1>1, <3>1 DEF Synced
    <3>3. len[g] = 0
      BY <1>3, <2>2, <3>2 DEF ReadyFiles, DiskInv
    <3>4. len'[g] = 1
      BY <1>3, <2>1, <2>2, <3>3 DEF TypeOK
    <3> QED
      BY <3>4 DEF LogAssumption
  <2>3. CASE g # f
    BY <1>2, <1>3, <2>1, <2>3 DEF TypeOK
  <2> QED
    BY <2>2, <2>3
<1>7. CASE Sweep
  BY <1>2, <1>3, <1>7 DEF Sweep, LogAssumption
<1>8. \/ UNCHANGED len
      \/ \E ch \in Ch : (Write(ch) \/ WriteRotated(ch)) /\ ~NoLine
      \/ Sweep
  BY DEF Next, OpenDayFails, RotateFails, Close, Restart, Midnight, NoLine, vars
<1> QED
  BY <1>4, <1>5, <1>6, <1>7, <1>8

\* No serial file outgrows the rotation limit.
THEOREM SerialFilesBounded == Spec => []SerialBounded
<1> DEFINE I == ChannelInv("serial")
<1>1. Init => I /\ SerialBounded
  BY ChannelInit DEF Ch, Init, SerialBounded
<1>2. TypeOK /\ DiskInv /\ I /\ [Next]_vars => I'
  BY ChannelStep DEF Ch
<1>3. TypeOK /\ DiskInv /\ I /\ SerialBounded /\ [Next]_vars => SerialBounded'
  BY BoundStep
<1> HIDE DEF I
<1> QED
  BY <1>1, <1>2, <1>3, TypeCorrect, DiskHolds, PTL DEF Spec

\* No late call opens the files of a closed writer again (#58).
THEOREM ClosedStaysClosed == Spec => []ClosedHoldsNoFile
<1>1. Init => ClosedHoldsNoFile
  BY DEF Init, NewWriter, ClosedHoldsNoFile
<1>2. ASSUME TypeOK, ClosedHoldsNoFile, [Next]_vars
      PROVE  ClosedHoldsNoFile'
  <2>1. Ready \in Writer /\ (Accepts => Ready.closed = FALSE)
    BY <1>2, ReadyType DEF Ready, DayOpened, Accepts, TypeOK, Writer
  <2>2. CASE OpenDayFails
    BY <1>2, <2>2 DEF OpenDayFails, ClosedHoldsNoFile, TypeOK, Writer
  <2>3. ASSUME NEW ch \in Ch, Write(ch)
        PROVE  ClosedHoldsNoFile'
    BY <2>1, <2>3 DEF Write, ClosedHoldsNoFile, Writer
  <2>4. ASSUME NEW ch \in Ch, WriteRotated(ch)
        PROVE  ClosedHoldsNoFile'
    <3>1. w'.closed = Ready.closed
      BY <2>1, <2>4 DEF WriteRotated, Writer
    <3> QED
      BY <2>1, <2>4, <3>1 DEF WriteRotated, ClosedHoldsNoFile
  <2>5. ASSUME NEW ch \in Ch, RotateFails(ch)
        PROVE  ClosedHoldsNoFile'
    <3>1. w'.closed = Ready.closed
      BY <2>1, <2>5 DEF RotateFails, Writer
    <3> QED
      BY <2>1, <2>5, <3>1 DEF RotateFails, ClosedHoldsNoFile
  <2>6. CASE Close
    BY <1>2, <2>6 DEF Close, ClosedHoldsNoFile, TypeOK, Writer
  <2>7. CASE Restart
    BY <2>7 DEF Restart, NewWriter, ClosedHoldsNoFile
  <2>8. CASE UNCHANGED w
    BY <1>2, <2>8 DEF ClosedHoldsNoFile
  <2> QED
    BY <1>2, <2>2, <2>3, <2>4, <2>5, <2>6, <2>7, <2>8 DEF Next, Midnight, Sweep, vars
<1> QED
  BY <1>1, <1>2, TypeCorrect, PTL DEF Spec

\* No line goes to a file that the sweep has removed under its handle.
THEOREM LinesReachDisk == Spec => WritesToDisk
<1>1. ASSUME TypeOK, DiskInv, [Next]_vars
      PROVE  [\A f \in File : len'[f] > len[f] => f \in files']_vars
  <2> SUFFICES ASSUME Next, NEW g \in File, len'[g] > len[g]
               PROVE  g \in files'
    BY <1>1
  <2>1. len[g] \in Nat
    BY <1>1 DEF TypeOK
  <2>2. ASSUME NEW ch \in Ch, Write(ch)
        PROVE  g \in files'
    <3> DEFINE f == <<ch, Ready.day, Ready.fd[ch]>>
    <3>1. f \in ReadyFiles
      BY <1>1, <2>2, ReadyOpen DEF Write
    <3>2. files' = ReadyFiles /\ (Add(f) \/ NoLine)
      BY <2>2 DEF Write
    <3> HIDE DEF f
    <3> QED
      BY <1>1, <2>1, <3>1, <3>2 DEF Add, NoLine, TypeOK
  <2>3. ASSUME NEW ch \in Ch, WriteRotated(ch)
        PROVE  g \in files'
    <3> DEFINE f == <<ch, Ready.day, Ready.suffix[ch] + 1>>
    <3>1. f \in files' /\ (Add(f) \/ NoLine)
      BY <2>3 DEF WriteRotated
    <3> HIDE DEF f
    <3> QED
      BY <1>1, <2>1, <3>1 DEF Add, NoLine, TypeOK
  <2>4. CASE UNCHANGED len
    BY <2>1, <2>4
  <2>5. CASE Sweep
    <3>1. len'[g] = 0 \/ len'[g] = len[g]
      BY <2>5 DEF Sweep
    <3> QED
      BY <2>1, <3>1
  <2>6. \/ UNCHANGED len
        \/ \E ch \in Ch : Write(ch) \/ WriteRotated(ch)
        \/ Sweep
    BY DEF Next, OpenDayFails, RotateFails, Close, Restart, Midnight, NoLine
  <2> QED
    BY <2>2, <2>3, <2>4, <2>5, <2>6
<1> QED
  BY <1>1, TypeCorrect, DiskHolds, PTL DEF Spec, WritesToDisk

\* An events file that did not open is tried again by the next event.
THEOREM EventsTriedAgain == Spec => []EventsRecover
<1>1. Init => EventsRecover
  BY DEF Init, NewWriter, EventsRecover, Ch
<1>2. ASSUME TypeOK, EventsRecover, [Next]_vars
      PROVE  EventsRecover'
  <2>1. /\ Ready \in Writer
        /\ Ready.fd["serial"] # Nil
        /\ Ready.fd["events"] = Nil => Full(Ready, "events")
    <3>1. CASE NeedsDay
      BY <1>2, <3>1, ReadyType DEF Ready, DayOpened, Ch, Nil
    <3>2. CASE ~NeedsDay
      BY <1>2, <3>2, ReadyType DEF Ready, NeedsDay, EventsRecover
    <3> QED
      BY <3>1, <3>2
  <2>2. CASE OpenDayFails
    BY <1>2, <2>2 DEF OpenDayFails, EventsRecover, TypeOK, Writer, Ch
  <2>3. ASSUME NEW ch \in Ch, Write(ch)
        PROVE  EventsRecover'
    <3>1. w'.fd = Ready.fd /\ (ch = "events" \/ w'.size["events"] = Ready.size["events"])
      BY <2>1, <2>3 DEF Write, Writer, Ch
    <3>2. Ready.fd[ch] # Nil
      BY <2>3 DEF Write
    <3> QED
      BY <2>1, <3>1, <3>2 DEF EventsRecover, Full
  <2>4. ASSUME NEW ch \in Ch, WriteRotated(ch)
        PROVE  EventsRecover'
    <3> DEFINE n    == Ready.suffix[ch] + 1
               next == [Ready EXCEPT !.suffix[ch] = n, !.fd[ch] = n, !.size[ch] = 0]
    <3>1. n \in Suffix
      BY <2>1, <2>4 DEF WriteRotated, Writer, Suffix
    <3>2. w' = next \/ w' = [next EXCEPT !.size[ch] = 1]
      BY <2>4 DEF WriteRotated
    <3> HIDE DEF n
    <3>3. /\ w'.fd = [Ready.fd EXCEPT ![ch] = n]
          /\ ch = "events" \/ w'.size["events"] = Ready.size["events"]
      <4>1. /\ next \in Writer /\ next.fd = [Ready.fd EXCEPT ![ch] = n]
            /\ next.size = [Ready.size EXCEPT ![ch] = 0]
        BY <2>1, <3>1 DEF Writer
      <4> HIDE DEF next
      <4> QED
        BY <2>1, <3>2, <4>1 DEF Writer, Ch
    <3>4. n # Nil
      BY <3>1 DEF Suffix, Nil, LogAssumption
    <3>5. CASE ch = "events"
      BY <2>1, <3>3, <3>4, <3>5 DEF EventsRecover, Writer, Ch
    <3>6. CASE ch = "serial"
      BY <2>1, <3>3, <3>6 DEF EventsRecover, Full, Writer, Ch
    <3> QED
      BY <3>5, <3>6 DEF Ch
  <2>5. ASSUME NEW ch \in Ch, RotateFails(ch)
        PROVE  EventsRecover'
    <3>1. w'.fd = [Ready.fd EXCEPT ![ch] = Nil] /\ w'.size = Ready.size /\ Full(Ready, ch)
      BY <2>1, <2>5 DEF RotateFails, Writer
    <3> QED
      BY <2>1, <3>1 DEF EventsRecover, Full, Writer, Ch
  <2>6. CASE Close
    BY <1>2, <2>6 DEF Close, EventsRecover, TypeOK, Writer, Ch
  <2>7. CASE Restart
    BY <2>7 DEF Restart, NewWriter, EventsRecover, Ch
  <2>8. CASE UNCHANGED w
    BY <1>2, <2>8 DEF EventsRecover, Full
  <2> QED
    BY <1>2, <2>2, <2>3, <2>4, <2>5, <2>6, <2>7, <2>8 DEF Next, Midnight, Sweep, vars
<1> QED
  BY <1>1, <1>2, TypeCorrect, PTL DEF Spec
=============================================================================

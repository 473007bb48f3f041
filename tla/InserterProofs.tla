--------------------------- MODULE InserterProofs ---------------------------
(***************************************************************************)
(* Theorems about Inserter, for all record sizes, buffer sizes and bounds. *)
(***************************************************************************)
EXTENDS Inserter, SequenceTheorems, TLAPS

-----------------------------------------------------------------------------
(* The inductive invariant *)

\* What an index file holds on disk and in its buffer is the entries handed
\* to it, w words each, and the torn words of earlier processes.
Accounts(f, entries, w) ==
    f.torn <= f.disk /\ f.disk - f.torn + f.buf = w * Len(entries)

\* A stream that is not open buffers nothing, and only crashes tear entries.
Tidy(f) == (~opened => f.buf = 0) /\ ("crash" \notin past => f.torn = 0)

\* The values entries speak of have been flushed, and the offset in memory
\* does not run ahead of the values written.
NotAhead ==
    "reuse" \notin past =>
        /\ \A k \in 1..Len(index) : index[k].end <= values.disk
        /\ alive => toSerialize.end + pending <= Length(values)

\* The offset in memory is where the next entry begins; a process that has
\* opened nothing yet starts from 0.
NextEntryIsDue ==
    past \intersect {"restart", "drift", "reuse"} = {} /\ alive /\ ~fixed =>
        \/ toSerialize.end + pending = Length(values)
        \/ ~opened /\ toSerialize.id = 0 /\ toSerialize.end = 0 /\ pending = 0

\* Without ids of the client's the two counters run together.
CountersAgree ==
    alive /\ useSecondary /\ "ids" \notin past =>
        toSerialize.id = toTmpSerialize.id + (IF job.step = "secondary" THEN 1 ELSE 0)

\* A call in progress: the record is among the words without an entry until
\* its entry is written, for which the stream of the values has been
\* flushed; the secondary entry is written after the primary one.
JobFacts ==
    /\ job.step # "idle" => alive /\ opened
    /\ job.step \in {"flush", "primary"} =>
          /\ job.prev + job.size <= pending
          /\ "drift" \notin past => job.prev + job.size = pending
    /\ job.step = "primary" => ~fixed /\ values.buf = 0
    /\ job.step = "secondary" =>
          /\ useSecondary /\ Len(index) >= 1
          /\ index[Len(index)].begin = toSerialize.begin
          /\ index[Len(index)].id = toSerialize.id
    /\ job.idPtr # NoId => "ids" \in past

IInv ==
    /\ TypeOK
    /\ Accounts(primary, index, PrimaryWords)
    /\ Accounts(secondary, secIndex, SecondaryWords)
    /\ Tidy(primary) /\ Tidy(secondary)
    /\ NotAhead
    /\ NextEntryIsDue /\ EntriesDescribeRecords
    /\ CountersAgree /\ IndexesAgree
    /\ JobFacts
    /\ ~alive => ~opened

-----------------------------------------------------------------------------
(* The streams *)

LEMMA FlushEmpties ==
    ASSUME NEW f \in File
    PROVE  /\ Fflush(f) \in File
           /\ Fflush(f).disk = f.disk + f.buf
           /\ Fflush(f).buf = 0
           /\ Fflush(f).torn = f.torn
<1>1. f.disk \in Nat /\ f.buf \in 0..BufSize /\ f.torn \in Nat /\ BufSize \in Nat
  BY BufAssumption DEF File
<1>2. Fflush(f) = [disk |-> f.disk + f.buf, buf |-> 0, torn |-> f.torn]
  BY DEF Fflush
<1> QED
  BY <1>1, <1>2 DEF File

\* fwrite adds n words to a stream and takes nothing from the disk.
LEMMA FwriteAdds ==
    ASSUME NEW f \in File, NEW n \in Nat
    PROVE  /\ Fwrite(f, n) \in File
           /\ Length(Fwrite(f, n)) = Length(f) + n
           /\ Fwrite(f, n).disk >= f.disk
           /\ Fwrite(f, n).torn = f.torn
<1> DEFINE total == f.buf + n
           kept == IF total <= BufSize THEN total ELSE total % BufSize
<1>1. total \in Nat /\ f.disk \in Nat /\ f.torn \in Nat /\ BufSize \in Nat \ {0}
  BY BufAssumption DEF File
<1>2. kept \in 0..BufSize /\ kept <= total
  <2>1. CASE total <= BufSize
    BY <1>1, <2>1
  <2>2. CASE ~(total <= BufSize)
    <3>1. total % BufSize \in 0..(BufSize - 1)
      BY <1>1
    <3> QED
      BY <1>1, <2>2, <3>1
  <2> QED
    BY <2>1, <2>2
<1>3. Fwrite(f, n) = [disk |-> f.disk + total - kept, buf |-> kept, torn |-> f.torn]
  BY DEF Fwrite
<1> HIDE DEF kept, total
<1>4. /\ Fwrite(f, n) \in File /\ Fwrite(f, n).disk = f.disk + total - kept
      /\ Fwrite(f, n).buf = kept /\ Fwrite(f, n).torn = f.torn
  BY <1>1, <1>2, <1>3 DEF File
<1>5. total = f.buf + n
  BY DEF total
<1> QED
  BY <1>1, <1>2, <1>4, <1>5 DEF Length, File

\* The bytes past the last whole entry of a torn file are what a reader skips.
LEMMA TornArithmetic ==
    ASSUME NEW disk \in Int, NEW torn \in Int, NEW held \in Int,
           NEW rest \in Int, NEW whole \in Int,
           held = disk - torn, held = whole + rest, whole >= 0
    PROVE  torn + rest <= disk /\ disk - (torn + rest) = whole
  OBVIOUS

\* Of a file whose entries are accounted for, a crash leaves a prefix of the
\* entries, again accounted for, and loses at most what was buffered.
LEMMA KillTruncates ==
    ASSUME NEW f \in File, NEW S, NEW entries \in Seq(S), NEW w \in {2, 3},
           Accounts(f, entries, w)
    PROVE  /\ Durable(f, w) \in 0..Len(entries)
           /\ Killed(f, w) \in File /\ Killed(f, w).buf = 0
           /\ Accounts(Killed(f, w), SubSeq(entries, 1, Durable(f, w)), w)
           /\ w * (Len(entries) - Durable(f, w)) < BufSize + w
<1> DEFINE held == f.disk - f.torn
           d == Durable(f, w)
           r == held % w
<1>1. /\ f.disk \in Nat /\ f.buf \in 0..BufSize /\ f.torn \in Nat /\ BufSize \in Nat \ {0}
      /\ Len(entries) \in Nat /\ held \in Nat /\ held + f.buf = w * Len(entries)
      /\ held = f.disk - f.torn
  BY BufAssumption DEF File, Accounts
<1>2. /\ d \in Nat /\ held = w * d + r /\ r \in 0..(w - 1)
  <2>1. CASE w = 2
    BY <1>1, <2>1 DEF Durable
  <2>2. CASE w = 3
    BY <1>1, <2>2 DEF Durable
  <2> QED
    BY <2>1, <2>2
<1>3. Killed(f, w) = [disk |-> f.disk, buf |-> 0, torn |-> f.torn + r]
  BY DEF Killed
<1> HIDE DEF held, d, r
<1>4. /\ d <= Len(entries) /\ w * (Len(entries) - d) = f.buf + r
      /\ f.torn + r <= f.disk /\ f.disk - (f.torn + r) = w * d
  <2> DEFINE n == Len(entries)
  <2>0. /\ n \in Nat /\ held \in Nat /\ d \in Nat
        /\ f.buf \in Nat /\ f.disk \in Nat /\ f.torn \in Nat
    BY <1>1, <1>2
  <2>01. held = f.disk - f.torn
    BY <1>1
  <2>1. CASE w = 2
    <3>1. held + f.buf = 2 * n /\ held = 2 * d + r /\ r \in 0..1
      BY <1>1, <1>2, <2>1
    <3> HIDE DEF n
    <3>2. d <= n /\ 2 * (n - d) = f.buf + r
      BY <2>0, <3>1
    <3>3. w * d = 2 * d /\ w * (Len(entries) - d) = 2 * (n - d)
      BY <2>1 DEF n
    <3>4. d <= Len(entries)
      BY <3>2 DEF n
    <3>5. f.torn + r <= f.disk /\ f.disk - (f.torn + r) = 2 * d
      <4>1. 2 * d \in Nat /\ r \in Int
        BY <2>0, <3>1
      <4> QED
        BY <2>0, <2>01, <3>1, <4>1, TornArithmetic
    <3> QED
      BY <3>2, <3>3, <3>4, <3>5
  <2>2. CASE w = 3
    <3>1. held + f.buf = 3 * n /\ held = 3 * d + r /\ r \in 0..2
      BY <1>1, <1>2, <2>2
    <3> HIDE DEF n
    <3>2. d <= n /\ 3 * (n - d) = f.buf + r
      BY <2>0, <3>1
    <3>3. w * d = 3 * d /\ w * (Len(entries) - d) = 3 * (n - d)
      BY <2>2 DEF n
    <3>4. d <= Len(entries)
      BY <3>2 DEF n
    <3>5. f.torn + r <= f.disk /\ f.disk - (f.torn + r) = 3 * d
      <4>1. 3 * d \in Nat /\ r \in Int
        BY <2>0, <3>1
      <4> QED
        BY <2>0, <2>01, <3>1, <4>1, TornArithmetic
    <3> QED
      BY <3>2, <3>3, <3>4, <3>5
  <2> QED
    BY <2>1, <2>2
<1>5. Len(SubSeq(entries, 1, d)) = d
  BY <1>1, <1>2, <1>4, SubSeqProperties
<1>6. /\ Killed(f, w) \in File /\ Killed(f, w).buf = 0
      /\ Killed(f, w).disk = f.disk /\ Killed(f, w).torn = f.torn + r
  BY <1>1, <1>2, <1>3 DEF File
<1>7. Accounts(Killed(f, w), SubSeq(entries, 1, d), w)
  BY <1>1, <1>2, <1>4, <1>5, <1>6 DEF Accounts
<1>8. w * (Len(entries) - d) < BufSize + w
  BY <1>1, <1>2, <1>4
<1> QED
  BY <1>1, <1>2, <1>4, <1>6, <1>7, <1>8 DEF d

-----------------------------------------------------------------------------
(* Every step keeps the invariant *)

LEMMA InitIInv == Init => IInv
<1> SUFFICES ASSUME Init PROVE IInv
  OBVIOUS
<1>1. Empty \in File /\ Empty.disk = 0 /\ Empty.buf = 0 /\ Empty.torn = 0
  BY BufAssumption DEF Empty, File
<1>2. TypeOK
  <2>1. /\ toSerialize \in [id : Nat, begin : Nat, end : Nat] /\ toTmpSerialize \in SecEntry
        /\ index \in Seq(Entry) /\ secIndex \in Seq(SecEntry)
    BY DEF Init, SecEntry
  <2>2. fixed \in BOOLEAN /\ useSecondary \in BOOLEAN
    BY DEF Init
  <2> QED
    BY <1>1, <2>1, <2>2 DEF Init, TypeOK, NoJob
<1>3. Accounts(primary, index, PrimaryWords) /\ Accounts(secondary, secIndex, SecondaryWords)
  BY <1>1 DEF Init, Accounts, PrimaryWords, SecondaryWords
<1> QED
  BY <1>1, <1>2, <1>3 DEF Init, IInv, Tidy, NotAhead, NextEntryIsDue, EntriesDescribeRecords,
     CountersAgree, IndexesAgree, JobFacts, NoJob, Length

\* Steps that only flush: fclose in one action or another.  What such a step
\* may change beside the streams is named in the assumptions.
LEMMA FlushKeeps ==
    ASSUME IInv, FlushAll,
           UNCHANGED <<useSecondary, memoryVars, job, pending>>, Idle,
           past \subseteq past', "ids" \in past' => "ids" \in past,
           "crash" \in past' => "crash" \in past, "reuse" \in past' => "reuse" \in past,
           alive' => alive
    PROVE  /\ {values', primary', secondary'} \subseteq File
           /\ Length(values)' = Length(values)
           /\ primary'.buf = 0 /\ secondary'.buf = 0
           /\ UNCHANGED <<index, secIndex>>
           /\ Accounts(primary, index, PrimaryWords)'
           /\ Accounts(secondary, secIndex, SecondaryWords)'
           /\ Tidy(primary)' /\ Tidy(secondary)'
           /\ NotAhead' /\ EntriesDescribeRecords' /\ CountersAgree' /\ IndexesAgree'
           /\ JobFacts'
<1>1. values \in File /\ primary \in File /\ secondary \in File
  BY DEF IInv, TypeOK
<1>2. /\ values' = Fflush(values) /\ primary' = Fflush(primary)
      /\ secondary' = Fflush(secondary) /\ UNCHANGED <<index, secIndex>>
  BY DEF FlushAll
<1>3. /\ values' \in File /\ values'.disk = values.disk + values.buf /\ values'.buf = 0
      /\ primary' \in File /\ primary'.disk = primary.disk + primary.buf
      /\ primary'.buf = 0 /\ primary'.torn = primary.torn
      /\ secondary' \in File /\ secondary'.disk = secondary.disk + secondary.buf
      /\ secondary'.buf = 0 /\ secondary'.torn = secondary.torn
  BY <1>1, <1>2, FlushEmpties
<1>4. /\ values.disk \in Nat /\ values.buf \in Nat /\ BufSize \in Nat
      /\ primary.disk \in Nat /\ primary.buf \in Nat /\ primary.torn \in Nat
      /\ secondary.disk \in Nat /\ secondary.buf \in Nat /\ secondary.torn \in Nat
  BY <1>1, BufAssumption DEF File
<1>5. Length(values)' = Length(values)
  BY <1>3, <1>4 DEF Length
<1>6. /\ Accounts(primary, index, PrimaryWords)'
      /\ Accounts(secondary, secIndex, SecondaryWords)'
  <2>1. Accounts(primary, index, PrimaryWords)'
    BY <1>2, <1>3, <1>4 DEF IInv, Accounts, PrimaryWords
  <2>2. Accounts(secondary, secIndex, SecondaryWords)'
    BY <1>2, <1>3, <1>4 DEF IInv, Accounts, SecondaryWords
  <2> QED
    BY <2>1, <2>2
<1>7. Tidy(primary)' /\ Tidy(secondary)'
  BY <1>3 DEF IInv, Tidy
<1>8. NotAhead'
  <2> SUFFICES ASSUME "reuse" \notin past' PROVE NotAhead!2'
    BY DEF NotAhead
  <2>1. ASSUME NEW k \in 1..Len(index) PROVE index[k].end <= values'.disk
    <3>1. index[k] \in Entry
      BY DEF IInv, TypeOK
    <3>2. index[k].end <= values.disk
      BY DEF IInv, NotAhead
    <3>3. index[k].end \in Nat
      BY <3>1 DEF Entry
    <3> QED
      BY <1>3, <1>4, <3>2, <3>3
  <2> QED
    BY <1>2, <1>5, <2>1 DEF IInv, NotAhead, memoryVars
<1>9. EntriesDescribeRecords' /\ IndexesAgree' /\ CountersAgree'
  BY <1>2 DEF IInv, EntriesDescribeRecords, IndexesAgree, CountersAgree, memoryVars
<1>10. JobFacts'
  BY DEF IInv, JobFacts, Idle
<1> QED
  BY <1>2, <1>3, <1>5, <1>6, <1>7, <1>8, <1>9, <1>10

LEMMA LengthType == TypeOK => Length(values) \in Nat /\ pending \in Nat /\ toSerialize.end \in Nat
  BY BufAssumption DEF TypeOK, File, Length

LEMMA OpenKeeps == IInv /\ Open => IInv'
<1> SUFFICES ASSUME IInv, Open PROVE IInv'
  OBVIOUS
<1>1. /\ alive /\ Idle /\ FlushAll /\ opened' /\ named' = TRUE /\ opened' = TRUE
      /\ UNCHANGED <<fixed, useSecondary, alive, memoryVars, job, pending, starts>>
      /\ past \subseteq past' /\ past' \subseteq past \union {"restart"}
      /\ toSerialize.id = 0 /\ Length(values) > pending => "restart" \in past'
  BY DEF Open, Idle
<1>2. /\ {values', primary', secondary'} \subseteq File
      /\ Length(values)' = Length(values)
      /\ UNCHANGED <<index, secIndex>>
      /\ Accounts(primary, index, PrimaryWords)'
      /\ Accounts(secondary, secIndex, SecondaryWords)'
      /\ Tidy(primary)' /\ Tidy(secondary)'
      /\ NotAhead' /\ EntriesDescribeRecords' /\ CountersAgree' /\ IndexesAgree' /\ JobFacts'
  BY <1>1, FlushKeeps
<1>3. TypeOK'
  BY <1>1, <1>2 DEF IInv, TypeOK, Events, memoryVars
<1>4. NextEntryIsDue'
  <2> SUFFICES ASSUME past' \intersect {"restart", "drift", "reuse"} = {}, ~fixed
               PROVE  (toSerialize.end + pending = Length(values))'
    BY <1>1 DEF NextEntryIsDue
  <2>1. ~(toSerialize.id = 0 /\ Length(values) > pending)
    BY <1>1
  <2>2. \/ toSerialize.end + pending = Length(values)
        \/ toSerialize.id = 0 /\ toSerialize.end = 0 /\ pending = 0
    BY <1>1 DEF IInv, NextEntryIsDue
  <2>3. toSerialize.end + pending = Length(values)
    BY <2>1, <2>2, LengthType DEF IInv
  <2> QED
    BY <1>1, <1>2, <2>3 DEF memoryVars
<1> QED
  BY <1>1, <1>2, <1>3, <1>4 DEF IInv

LEMMA OpenFixedKeeps == IInv /\ OpenFixed => IInv'
<1> SUFFICES ASSUME IInv, OpenFixed PROVE IInv'
  OBVIOUS
<1>1. /\ alive /\ Idle /\ FlushAll /\ opened' = TRUE /\ named' = TRUE /\ fixed' = TRUE
      /\ UNCHANGED <<useSecondary, alive, memoryVars, job, pending, past, starts>>
  BY DEF OpenFixed, Idle
<1>2. /\ {values', primary', secondary'} \subseteq File
      /\ UNCHANGED <<index, secIndex>>
      /\ Accounts(primary, index, PrimaryWords)'
      /\ Accounts(secondary, secIndex, SecondaryWords)'
      /\ Tidy(primary)' /\ Tidy(secondary)'
      /\ NotAhead' /\ EntriesDescribeRecords' /\ CountersAgree' /\ IndexesAgree' /\ JobFacts'
  BY <1>1, FlushKeeps
<1>3. TypeOK'
  BY <1>1, <1>2 DEF IInv, TypeOK, memoryVars
<1> QED
  BY <1>1, <1>2, <1>3 DEF IInv, NextEntryIsDue

\* close() and the destructor.
LEMMA CloseKeeps == IInv /\ (Close \/ Exit) => IInv'
<1> SUFFICES ASSUME IInv, Close \/ Exit PROVE IInv'
  OBVIOUS
<1>1. /\ alive /\ Idle /\ FlushAll /\ opened' = FALSE /\ alive' \in BOOLEAN
      /\ UNCHANGED <<fixed, useSecondary, named, memoryVars, job, pending, past, starts>>
  BY DEF Close, Exit, IInv, TypeOK, Idle
<1>2. /\ {values', primary', secondary'} \subseteq File
      /\ Length(values)' = Length(values)
      /\ UNCHANGED <<index, secIndex>>
      /\ Accounts(primary, index, PrimaryWords)'
      /\ Accounts(secondary, secIndex, SecondaryWords)'
      /\ Tidy(primary)' /\ Tidy(secondary)'
      /\ NotAhead' /\ EntriesDescribeRecords' /\ CountersAgree' /\ IndexesAgree' /\ JobFacts'
  BY <1>1, FlushKeeps
<1>3. TypeOK'
  BY <1>1, <1>2 DEF IInv, TypeOK, memoryVars
<1>4. NextEntryIsDue'
  BY <1>1, <1>2 DEF IInv, NextEntryIsDue, memoryVars
<1> QED
  BY <1>1, <1>2, <1>3, <1>4 DEF IInv

LEMMA WriteNoIndexKeeps ==
    ASSUME IInv, NEW size \in Sizes, WriteNoIndex(size) PROVE IInv'
<1>1. /\ alive /\ job.step = "idle" /\ opened /\ values' = Fwrite(values, size) /\ pending' = pending + size
      /\ UNCHANGED <<fixed, useSecondary, alive, opened, named, primary, secondary, index,
                     secIndex, memoryVars, job, past, starts>>
  BY DEF WriteNoIndex, Idle
<1>2. size \in Nat /\ size > 0 /\ values \in File
  BY SizesAssumption DEF IInv, TypeOK
<1>3. /\ values' \in File /\ Length(values)' = Length(values) + size
      /\ values'.disk >= values.disk
  BY <1>1, <1>2, FwriteAdds DEF Length
<1>4. values.disk \in Nat /\ values'.disk \in Nat
  BY <1>2, <1>3 DEF File
<1>5. TypeOK'
  BY <1>1, <1>2, <1>3 DEF IInv, TypeOK, memoryVars
<1>6. NotAhead'
  <2> SUFFICES ASSUME "reuse" \notin past PROVE NotAhead!2'
    BY <1>1 DEF NotAhead
  <2>1. ASSUME NEW k \in 1..Len(index) PROVE index[k].end <= values'.disk
    <3>1. index[k] \in Entry
      BY DEF IInv, TypeOK
    <3>2. index[k].end <= values.disk
      BY DEF IInv, NotAhead
    <3>3. index[k].end \in Nat
      BY <3>1 DEF Entry
    <3> QED
      BY <1>3, <1>4, <3>2, <3>3
  <2>2. toSerialize.end + pending + size <= Length(values) + size
    BY <1>1, <1>2, LengthType DEF IInv, NotAhead
  <2> QED
    BY <1>1, <1>2, <1>3, <2>1, <2>2, LengthType DEF IInv, memoryVars
<1>7. NextEntryIsDue'
  BY <1>1, <1>2, <1>3, LengthType DEF IInv, NextEntryIsDue, memoryVars
<1>8. /\ Accounts(primary, index, PrimaryWords)'
      /\ Accounts(secondary, secIndex, SecondaryWords)'
      /\ Tidy(primary)' /\ Tidy(secondary)'
      /\ EntriesDescribeRecords' /\ CountersAgree' /\ IndexesAgree' /\ JobFacts'
  BY <1>1 DEF IInv, Accounts, Tidy, EntriesDescribeRecords, CountersAgree, IndexesAgree,
     JobFacts, memoryVars
<1> QED
  BY <1>1, <1>5, <1>6, <1>7, <1>8 DEF IInv

LEMMA EmptyFile == /\ Empty \in File /\ Empty.buf = 0 /\ Empty.torn = 0
                   /\ \A w \in {2, 3} : Accounts(Empty, <<>>, w)
<1>1. Empty = [disk |-> 0, buf |-> 0, torn |-> 0] /\ 0 \in 0..BufSize
  BY BufAssumption DEF Empty
<1>2. Empty \in File /\ Empty.disk = 0 /\ Empty.buf = 0 /\ Empty.torn = 0
  BY <1>1 DEF File
<1>3. Accounts(Empty, <<>>, 2) /\ Accounts(Empty, <<>>, 3)
  BY <1>2 DEF Accounts
<1> QED
  BY <1>2, <1>3

LEMMA DounlinkKeeps == IInv /\ Dounlink => IInv'
<1> SUFFICES ASSUME IInv, Dounlink PROVE IInv'
  OBVIOUS
<1>1. /\ alive /\ job.step = "idle" /\ opened' = FALSE /\ values' = Empty /\ pending' = 0
      /\ past' = past \union {"reuse"}
      /\ UNCHANGED <<fixed, useSecondary, alive, named, memoryVars, job, starts>>
  BY DEF Dounlink, Idle
<1>2. primary \in File /\ secondary \in File
  BY DEF IInv, TypeOK
<1>3. /\ primary' \in File /\ secondary' \in File
      /\ primary'.buf = 0 /\ secondary'.buf = 0
      /\ "crash" \notin past => primary'.torn = 0 /\ secondary'.torn = 0
      /\ Accounts(primary', index', PrimaryWords)
      /\ Accounts(secondary', secIndex', SecondaryWords)
      /\ \/ UNCHANGED <<index, secIndex>>
         \/ index' = <<>> /\ secIndex' = <<>>
  <2>1. CASE fixed
    <3>1. primary' = Fflush(primary) /\ secondary' = Fflush(secondary)
          /\ UNCHANGED <<index, secIndex>>
      BY <2>1 DEF Dounlink
    <3>2. /\ primary' \in File /\ primary'.disk = primary.disk + primary.buf
          /\ primary'.buf = 0 /\ primary'.torn = primary.torn
          /\ secondary' \in File /\ secondary'.disk = secondary.disk + secondary.buf
          /\ secondary'.buf = 0 /\ secondary'.torn = secondary.torn
      BY <1>2, <3>1, FlushEmpties
    <3>3. /\ primary.disk \in Nat /\ primary.buf \in Nat /\ primary.torn \in Nat
          /\ secondary.disk \in Nat /\ secondary.buf \in Nat /\ secondary.torn \in Nat
      BY <1>2, BufAssumption DEF File
    <3> QED
      BY <3>1, <3>2, <3>3 DEF IInv, Accounts, Tidy, PrimaryWords, SecondaryWords
  <2>2. CASE ~fixed
    <3>1. primary' = Empty /\ secondary' = Empty /\ index' = <<>> /\ secIndex' = <<>>
      BY <2>2 DEF Dounlink
    <3> QED
      BY <3>1, EmptyFile DEF PrimaryWords, SecondaryWords
  <2> QED
    BY <2>1, <2>2
<1>4. TypeOK'
  <2>1. index' \in Seq(Entry) /\ secIndex' \in Seq(SecEntry)
    <3>1. index \in Seq(Entry) /\ secIndex \in Seq(SecEntry)
      BY DEF IInv, TypeOK
    <3>2. <<>> \in Seq(Entry) /\ <<>> \in Seq(SecEntry)
      OBVIOUS
    <3>3. CASE UNCHANGED <<index, secIndex>>
      BY <3>1, <3>3
    <3>4. CASE index' = <<>> /\ secIndex' = <<>>
      BY <3>2, <3>4
    <3> QED
      BY <1>3, <3>3, <3>4
  <2> QED
    BY <1>1, <1>3, <2>1, EmptyFile DEF IInv, TypeOK, Events, memoryVars
<1>5. Accounts(primary, index, PrimaryWords)' /\ Accounts(secondary, secIndex, SecondaryWords)'
  BY <1>3 DEF Accounts, PrimaryWords, SecondaryWords
<1>6. Tidy(primary)' /\ Tidy(secondary)'
  BY <1>1, <1>3 DEF Tidy
<1>7. NotAhead' /\ NextEntryIsDue' /\ EntriesDescribeRecords'
  BY <1>1 DEF NotAhead, NextEntryIsDue, EntriesDescribeRecords
<1>8. CountersAgree' /\ IndexesAgree' /\ JobFacts'
  BY <1>1, <1>3 DEF IInv, CountersAgree, IndexesAgree, JobFacts, memoryVars
<1> QED
  BY <1>1, <1>4, <1>5, <1>6, <1>7, <1>8 DEF IInv

\* A kill drops buffers and the entries in them, and nothing else.
LEMMA KillKeeps == IInv /\ Kill => IInv'
<1> SUFFICES ASSUME IInv, Kill PROVE IInv'
  OBVIOUS
<1> DEFINE p == Durable(primary, PrimaryWords)
           s == Durable(secondary, SecondaryWords)
<1>1. /\ alive' = FALSE /\ opened' = FALSE /\ values' = [values EXCEPT !.buf = 0]
      /\ primary' = Killed(primary, PrimaryWords)
      /\ secondary' = Killed(secondary, SecondaryWords)
      /\ index' = SubSeq(index, 1, p) /\ secIndex' = SubSeq(secIndex, 1, s)
      /\ past' = past \union {"crash"} /\ job' = NoJob
      /\ UNCHANGED <<fixed, useSecondary, named, memoryVars, pending, starts>>
  BY DEF Kill
<1>2. /\ values \in File /\ primary \in File /\ secondary \in File
      /\ index \in Seq(Entry) /\ secIndex \in Seq(SecEntry)
      /\ Accounts(primary, index, PrimaryWords)
      /\ Accounts(secondary, secIndex, SecondaryWords)
  BY DEF IInv, TypeOK
<1>3. /\ p \in 0..Len(index) /\ primary' \in File /\ primary'.buf = 0
      /\ Accounts(primary', index', PrimaryWords)
  BY <1>1, <1>2, KillTruncates DEF PrimaryWords
<1>4. /\ s \in 0..Len(secIndex) /\ secondary' \in File /\ secondary'.buf = 0
      /\ Accounts(secondary', secIndex', SecondaryWords)
  BY <1>1, <1>2, KillTruncates DEF SecondaryWords
<1>5. values' \in File /\ values'.disk = values.disk
  BY <1>1, <1>2, BufAssumption DEF File
<1> HIDE DEF p, s
<1>6. /\ index' \in Seq(Entry) /\ Len(index') = p
      /\ \A k \in 1..p : k \in 1..Len(index) /\ index'[k] = index[k]
  BY <1>1, <1>2, <1>3, SubSeqProperties
<1>7. secIndex' \in Seq(SecEntry)
  BY <1>1, <1>2, <1>4, SubSeqProperties
<1>8. TypeOK'
  BY <1>1, <1>3, <1>4, <1>5, <1>6, <1>7 DEF IInv, TypeOK, Events, memoryVars, NoJob
<1>9. /\ Accounts(primary, index, PrimaryWords)'
      /\ Accounts(secondary, secIndex, SecondaryWords)'
  BY <1>3, <1>4 DEF Accounts, PrimaryWords, SecondaryWords
<1>10. Tidy(primary)' /\ Tidy(secondary)'
  BY <1>1, <1>3, <1>4 DEF Tidy
<1>11. NotAhead'
  BY <1>1, <1>5, <1>6 DEF IInv, NotAhead
<1>12. EntriesDescribeRecords'
  BY <1>1, <1>6 DEF IInv, EntriesDescribeRecords
<1>13. NextEntryIsDue' /\ CountersAgree' /\ IndexesAgree' /\ JobFacts'
  BY <1>1 DEF NextEntryIsDue, CountersAgree, IndexesAgree, JobFacts, NoJob
<1> QED
  BY <1>1, <1>8, <1>9, <1>10, <1>11, <1>12, <1>13 DEF IInv

LEMMA StartKeeps == IInv /\ Start => IInv'
<1> SUFFICES ASSUME IInv, Start PROVE IInv'
  OBVIOUS
<1>1. /\ ~alive /\ job.step = "idle" /\ alive' = TRUE /\ named' = FALSE /\ pending' = 0 /\ starts' = starts + 1
      /\ toSerialize' = [id |-> 0, begin |-> 0, end |-> 0]
      /\ toTmpSerialize' = [id |-> 0, offset |-> 0]
      /\ UNCHANGED <<fixed, useSecondary, opened, filesVars, job, past>>
  BY DEF Start, IInv, JobFacts
<1>2. TypeOK'
  <2>1. /\ toSerialize' \in [id : Nat, begin : Nat, end : Nat]
        /\ toTmpSerialize' \in SecEntry
    BY <1>1 DEF SecEntry
  <2>2. TypeOK
    BY DEF IInv
  <2>3. /\ fixed' \in BOOLEAN /\ useSecondary' \in BOOLEAN /\ opened' \in BOOLEAN
        /\ values' \in File /\ primary' \in File /\ secondary' \in File
        /\ index' \in Seq(Entry) /\ secIndex' \in Seq(SecEntry) /\ past' \subseteq Events
        /\ job' = job
    BY <1>1, <2>2 DEF TypeOK, filesVars
  <2>4. alive' \in BOOLEAN /\ named' \in BOOLEAN
    BY <1>1, Zenon
  <2>5. pending' \in Nat /\ starts' \in Nat
    BY <1>1, <2>2 DEF TypeOK
  <2> QED
    BY <2>1, <2>2, <2>3, <2>4, <2>5 DEF TypeOK
<1>3. NotAhead'
  <2>1. toSerialize'.end + pending' = 0 /\ Length(values)' = Length(values)
    BY <1>1 DEF Length, filesVars
  <2> QED
    BY <1>1, <2>1, LengthType DEF IInv, NotAhead, filesVars
<1>4. NextEntryIsDue'
  BY <1>1 DEF IInv, NextEntryIsDue
<1>5. /\ Accounts(primary, index, PrimaryWords)'
      /\ Accounts(secondary, secIndex, SecondaryWords)'
      /\ Tidy(primary)' /\ Tidy(secondary)'
      /\ EntriesDescribeRecords' /\ CountersAgree' /\ IndexesAgree' /\ JobFacts'
  BY <1>1 DEF IInv, Accounts, Tidy, EntriesDescribeRecords, CountersAgree, IndexesAgree,
     JobFacts, filesVars
<1> QED
  BY <1>1, <1>2, <1>3, <1>4, <1>5 DEF IInv

\* An entry handed to an index stream is accounted for, and is the last one.
LEMMA EntryWritten ==
    ASSUME NEW f \in File, NEW S, NEW entries \in Seq(S), NEW e \in S, NEW w \in {2, 3},
           Accounts(f, entries, w)
    PROVE  /\ Fwrite(f, w) \in File /\ Fwrite(f, w).torn = f.torn
           /\ Accounts(Fwrite(f, w), Append(entries, e), w)
           /\ Append(entries, e) \in Seq(S)
           /\ Len(Append(entries, e)) = Len(entries) + 1
           /\ \A k \in 1..Len(entries) : Append(entries, e)[k] = entries[k]
           /\ Append(entries, e)[Len(entries) + 1] = e
<1>1. /\ Fwrite(f, w) \in File /\ Length(Fwrite(f, w)) = Length(f) + w
      /\ Fwrite(f, w).disk >= f.disk /\ Fwrite(f, w).torn = f.torn
  BY FwriteAdds
<1>2. /\ Append(entries, e) \in Seq(S)
      /\ Len(Append(entries, e)) = Len(entries) + 1 /\ Len(entries) \in Nat
      /\ \A k \in 1..Len(entries) : Append(entries, e)[k] = entries[k]
      /\ Append(entries, e)[Len(entries) + 1] = e
  BY AppendProperties
<1> DEFINE g == Fwrite(f, w)
           n == Len(entries)
           m == Len(Append(entries, e))
<1>3. /\ f.disk \in Nat /\ f.buf \in Nat /\ f.torn \in Nat
      /\ g.disk \in Nat /\ g.buf \in Nat /\ g.torn = f.torn
      /\ g.disk >= f.disk /\ n \in Nat /\ m = n + 1 /\ f.torn <= f.disk
  BY <1>1, <1>2, BufAssumption DEF File, Accounts
<1>4. g.disk + g.buf = f.disk + f.buf + w /\ f.disk - f.torn + f.buf = w * n
  BY <1>1 DEF Length, Accounts
<1> HIDE DEF g, n, m
<1>5. g.torn <= g.disk
  BY <1>3
<1>6. g.disk - g.torn + g.buf = w * m
  <2>1. CASE w = 2
    <3>1. f.disk - f.torn + f.buf = 2 * n /\ g.disk + g.buf = f.disk + f.buf + 2
      BY <1>4, <2>1
    <3>2. g.disk - g.torn + g.buf = 2 * m
      BY <1>3, <3>1
    <3> QED
      BY <2>1, <3>2
  <2>2. CASE w = 3
    <3>1. f.disk - f.torn + f.buf = 3 * n /\ g.disk + g.buf = f.disk + f.buf + 3
      BY <1>4, <2>2
    <3>2. g.disk - g.torn + g.buf = 3 * m
      BY <1>3, <3>1
    <3> QED
      BY <2>2, <3>2
  <2> QED
    BY <2>1, <2>2
<1>7. Accounts(Fwrite(f, w), Append(entries, e), w)
  BY <1>5, <1>6 DEF Accounts, g, m
<1> QED
  BY <1>1, <1>2, <1>7

\* fwrite of the record: its words have no entry yet.
LEMMA WriteValueKeeps ==
    ASSUME IInv, NEW size \in Sizes, NEW prev \in {0, pending},
           NEW idPtr \in GivenIds \union {NoId}, WriteValue(size, prev, idPtr)
    PROVE  IInv'
<1>1. /\ alive /\ job.step = "idle" /\ opened
      /\ values' = Fwrite(values, size) /\ pending' = pending + size
      /\ job' = [step |-> "flush", size |-> size, prev |-> prev, idPtr |-> idPtr]
      /\ past \subseteq past' /\ past' \subseteq past \union {"drift", "ids"}
      /\ prev # pending => "drift" \in past'
      /\ idPtr # NoId => "ids" \in past'
      /\ UNCHANGED <<fixed, useSecondary, alive, opened, named, primary, secondary, index,
                     secIndex, memoryVars, starts>>
  BY DEF WriteValue, Idle, After
<1>2. /\ size \in Nat /\ size > 0 /\ values \in File /\ pending \in Nat /\ prev \in Nat
      /\ prev <= pending /\ idPtr \in Nat \union {NoId} /\ Length(values) \in Nat
      /\ toSerialize.end \in Nat
  BY SizesAssumption, IdsAssumption, LengthType DEF IInv, TypeOK
<1>3. /\ values' \in File /\ Length(values)' = Length(values) + size
      /\ values'.disk >= values.disk
  BY <1>1, <1>2, FwriteAdds DEF Length
<1>4. values.disk \in Nat /\ values'.disk \in Nat
  BY <1>2, <1>3 DEF File
<1>5. TypeOK'
  <2>1. past' \subseteq Events
    BY <1>1 DEF IInv, TypeOK, Events
  <2>2. /\ job' \in [step : {"idle", "flush", "primary", "secondary"}, size : Nat, prev : Nat,
                     idPtr : Nat \union {NoId}]
    BY <1>1, <1>2
  <2> QED BY <1>1, <1>2, <1>3, <2>1, <2>2 DEF IInv, TypeOK, memoryVars
<1>6. NotAhead'
  <2> SUFFICES ASSUME "reuse" \notin past' PROVE NotAhead!2'
    BY DEF NotAhead
  <2>1. "reuse" \notin past
    BY <1>1
  <2>2. ASSUME NEW k \in 1..Len(index) PROVE index[k].end <= values'.disk
    <3>1. index[k] \in Entry
      BY DEF IInv, TypeOK
    <3>2. index[k].end <= values.disk /\ index[k].end \in Nat
      BY <2>1, <3>1 DEF IInv, NotAhead, Entry
    <3> QED BY <1>3, <1>4, <3>2
  <2>3. toSerialize.end + (pending + size) <= Length(values) + size
    BY <1>1, <1>2, <2>1 DEF IInv, NotAhead
  <2> QED BY <1>1, <1>3, <2>2, <2>3 DEF memoryVars
<1>7. NextEntryIsDue'
  BY <1>1, <1>2, <1>3 DEF IInv, NextEntryIsDue, memoryVars
<1>8. JobFacts'
  <2>1. "drift" \notin past' => prev + size = pending + size
    BY <1>1
  <2>2. prev + size <= pending + size
    BY <1>2
  <2> QED BY <1>1, <2>1, <2>2 DEF JobFacts
<1>9. /\ Accounts(primary, index, PrimaryWords)'
      /\ Accounts(secondary, secIndex, SecondaryWords)'
      /\ Tidy(primary)' /\ Tidy(secondary)'
      /\ EntriesDescribeRecords' /\ CountersAgree' /\ IndexesAgree'
  BY <1>1 DEF IInv, Accounts, Tidy, EntriesDescribeRecords, CountersAgree, IndexesAgree,
     memoryVars
<1> QED
  BY <1>1, <1>5, <1>6, <1>7, <1>8, <1>9 DEF IInv

\* fflush: what entries may speak of from now on is on disk.
LEMMA FlushValueKeeps == IInv /\ FlushValue => IInv'
<1> SUFFICES ASSUME IInv, FlushValue PROVE IInv'
  OBVIOUS
<1>1. /\ alive /\ opened /\ job.step = "flush" /\ values' = Fflush(values)
      /\ pending' = (IF fixed THEN 0 ELSE pending)
      /\ UNCHANGED <<fixed, useSecondary, alive, opened, named, primary, secondary, index,
                     secIndex, memoryVars, past, starts>>
      /\ job' = (IF fixed THEN NoJob ELSE [job EXCEPT !.step = "primary"])
  BY DEF FlushValue, At, Proceed, After, IInv, JobFacts
<1>2. /\ values \in File /\ pending \in Nat /\ toSerialize.end \in Nat
      /\ job \in [step : {"idle", "flush", "primary", "secondary"}, size : Nat, prev : Nat,
                  idPtr : Nat \union {NoId}]
  BY LengthType DEF IInv, TypeOK
<1>3. /\ values' \in File /\ values'.disk = values.disk + values.buf /\ values'.buf = 0
  BY <1>1, <1>2, FlushEmpties
<1>4. values.disk \in Nat /\ values.buf \in Nat
  BY <1>2, BufAssumption DEF File
<1>5. Length(values)' = Length(values) /\ values.disk <= values'.disk /\ values'.disk \in Nat
  BY <1>3, <1>4 DEF Length
<1>6. pending' \in Nat /\ pending' <= pending /\ (~fixed => pending' = pending)
  BY <1>1, <1>2
<1>7. TypeOK'
  <2>1. /\ job' \in [step : {"idle", "flush", "primary", "secondary"}, size : Nat, prev : Nat,
                     idPtr : Nat \union {NoId}]
    BY <1>1, <1>2 DEF NoJob
  <2> QED BY <1>1, <1>3, <1>6, <2>1 DEF IInv, TypeOK, memoryVars
<1>8. NotAhead'
  <2> SUFFICES ASSUME "reuse" \notin past' PROVE NotAhead!2'
    BY DEF NotAhead
  <2>1. ASSUME NEW k \in 1..Len(index) PROVE index[k].end <= values'.disk
    <3>1. index[k] \in Entry
      BY DEF IInv, TypeOK
    <3>2. index[k].end <= values.disk /\ index[k].end \in Nat
      BY <1>1, <3>1 DEF IInv, NotAhead, Entry
    <3> QED BY <1>4, <1>5, <3>2
  <2>2. toSerialize.end + pending' <= Length(values)
    BY <1>1, <1>2, <1>6, LengthType DEF IInv, NotAhead
  <2> QED BY <1>1, <1>5, <2>1, <2>2 DEF memoryVars
<1>9. NextEntryIsDue'
  BY <1>1, <1>5, <1>6 DEF IInv, NextEntryIsDue, memoryVars
<1>10. JobFacts'
  <2>1. CASE fixed
    BY <1>1, <2>1 DEF JobFacts, NoJob
  <2>2. CASE ~fixed
    <3>1. /\ job'.step = "primary" /\ job'.size = job.size /\ job'.prev = job.prev
          /\ job'.idPtr = job.idPtr /\ pending' = pending
      BY <1>1, <1>2, <2>2
    <3> QED BY <1>1, <1>3, <2>2, <3>1 DEF IInv, JobFacts
  <2> QED BY <2>1, <2>2
<1>11. job'.step # "secondary"
  BY <1>1, <1>2 DEF NoJob
<1>12. /\ Accounts(primary, index, PrimaryWords)'
       /\ Accounts(secondary, secIndex, SecondaryWords)'
       /\ Tidy(primary)' /\ Tidy(secondary)'
       /\ EntriesDescribeRecords' /\ CountersAgree' /\ IndexesAgree'
  BY <1>1, <1>11 DEF IInv, Accounts, Tidy, EntriesDescribeRecords, CountersAgree,
     IndexesAgree, memoryVars
<1> QED
  BY <1>1, <1>7, <1>8, <1>9, <1>10, <1>12 DEF IInv

\* The primary entry covers the words of its record, which are on disk.
LEMMA WritePrimaryKeeps == IInv /\ WritePrimary => IInv'
<1> SUFFICES ASSUME IInv, WritePrimary PROVE IInv'
  OBVIOUS
<1> DEFINE entry == NextEntry(job.size, job.prev)
           e == [id |-> entry.id, begin |-> entry.begin, end |-> entry.end,
                 at |-> Length(values) - pending, size |-> pending]
<1>1. /\ alive /\ opened /\ job.step = "primary" /\ ~fixed /\ pending' = 0
      /\ toSerialize' = entry /\ primary' = Fwrite(primary, PrimaryWords)
      /\ index' = Append(index, e)
      /\ job' = (IF useSecondary THEN [job EXCEPT !.step = "secondary"] ELSE NoJob)
      /\ UNCHANGED <<fixed, useSecondary, alive, opened, named, values, secondary, secIndex,
                     toTmpSerialize, past, starts>>
  BY DEF WritePrimary, At, Proceed, After, IInv, JobFacts
<1>2. /\ values \in File /\ primary \in File /\ index \in Seq(Entry) /\ pending \in Nat
      /\ toSerialize \in [id : Nat, begin : Nat, end : Nat] /\ toTmpSerialize \in SecEntry
      /\ job \in [step : {"idle", "flush", "primary", "secondary"}, size : Nat, prev : Nat,
                  idPtr : Nat \union {NoId}]
      /\ Length(values) \in Nat
  BY LengthType DEF IInv, TypeOK
<1>3. /\ entry.id = toSerialize.id + 1 /\ entry.begin = toSerialize.end
      /\ entry.end = toSerialize.end + job.prev + job.size
      /\ entry \in [id : Nat, begin : Nat, end : Nat]
  BY <1>2 DEF NextEntry
<1>4. /\ e \in Entry /\ e.id = entry.id /\ e.begin = entry.begin /\ e.end = entry.end
      /\ e.at = Length(values) - pending /\ e.size = pending
  BY <1>2, <1>3 DEF Entry
<1> HIDE DEF entry, e
<1>5. /\ index' \in Seq(Entry) /\ Len(index') = Len(index) + 1 /\ Len(index) \in Nat
      /\ \A k \in 1..Len(index) : index'[k] = index[k]
      /\ index'[Len(index) + 1] = e
      /\ primary' \in File /\ primary'.torn = primary.torn
      /\ Accounts(primary', index', PrimaryWords)
  <2>1. Accounts(primary, index, 3) /\ PrimaryWords = 3
    BY DEF IInv, PrimaryWords
  <2> QED
    BY <1>1, <1>2, <1>4, <2>1, EntryWritten
<1>6. /\ job.prev + job.size <= pending
      /\ "drift" \notin past => job.prev + job.size = pending
      /\ values.disk = Length(values) /\ values.disk \in Nat
      /\ job.prev \in Nat /\ job.size \in Nat /\ toSerialize.end \in Nat
  BY <1>1, <1>2 DEF IInv, JobFacts, Length, File
<1>7. TypeOK'
  <2>1. /\ job' \in [step : {"idle", "flush", "primary", "secondary"}, size : Nat, prev : Nat,
                     idPtr : Nat \union {NoId}]
    BY <1>1, <1>2 DEF NoJob
  <2>2. toSerialize' \in [id : Nat, begin : Nat, end : Nat]
    BY <1>1, <1>3
  <2> QED BY <1>1, <1>5, <2>1, <2>2 DEF IInv, TypeOK
<1>8. NotAhead'
  <2> SUFFICES ASSUME "reuse" \notin past' PROVE NotAhead!2'
    BY DEF NotAhead
  <2>1. toSerialize.end + pending <= Length(values) /\ "reuse" \notin past
    BY <1>1 DEF IInv, NotAhead
  <2>2. entry.end <= Length(values) /\ entry.end \in Nat
    BY <1>2, <1>3, <1>6, <2>1
  <2>3. ASSUME NEW k \in 1..Len(index') PROVE index'[k].end <= values.disk
    <3>1. CASE k \in 1..Len(index)
      BY <1>5, <2>1, <3>1 DEF IInv, NotAhead
    <3>2. CASE k = Len(index) + 1
      BY <1>4, <1>5, <1>6, <2>2, <3>2
    <3> QED BY <1>5, <3>1, <3>2
  <2>4. Length(values)' = Length(values)
    BY <1>1 DEF Length
  <2>5. toSerialize'.end + 0 <= Length(values)
    BY <1>1, <2>2
  <2> QED BY <1>1, <2>3, <2>4, <2>5
<1>9. past \intersect {"restart", "drift", "reuse"} = {}
         => /\ toSerialize.end + pending = Length(values)
            /\ job.prev + job.size = pending
  BY <1>1, <1>6 DEF IInv, NextEntryIsDue
<1>10. NextEntryIsDue'
  <2> SUFFICES ASSUME past \intersect {"restart", "drift", "reuse"} = {}
               PROVE  toSerialize'.end + pending' = Length(values')
    BY <1>1 DEF NextEntryIsDue
  <2>1. entry.end = Length(values)
    BY <1>3, <1>6, <1>9
  <2> QED BY <1>1, <1>2, <2>1 DEF Length
<1>11. EntriesDescribeRecords'
  <2> SUFFICES ASSUME past \intersect {"restart", "drift", "reuse"} = {},
                      NEW k \in 1..Len(index')
               PROVE  index'[k].begin = index'[k].at
                      /\ index'[k].end = index'[k].at + index'[k].size
    BY <1>1 DEF EntriesDescribeRecords
  <2>1. CASE k \in 1..Len(index)
    BY <1>5, <2>1 DEF IInv, EntriesDescribeRecords
  <2>2. CASE k = Len(index) + 1
    <3>1. index'[k] = e
      BY <1>5, <2>2
    <3>2. /\ toSerialize.end + pending = Length(values) /\ job.prev + job.size = pending
          /\ toSerialize.end \in Nat /\ pending \in Nat /\ Length(values) \in Nat
          /\ job.prev \in Nat /\ job.size \in Nat
      BY <1>2, <1>6, <1>9
    <3>3. /\ e.begin = toSerialize.end /\ e.end = toSerialize.end + job.prev + job.size
          /\ e.at = Length(values) - pending /\ e.size = pending
      BY <1>3, <1>4
    <3>4. toSerialize.end = Length(values) - pending
      BY <3>2
    <3>5. toSerialize.end + job.prev + job.size = (Length(values) - pending) + pending
      BY <3>2
    <3>6. e.begin = e.at /\ e.end = e.at + e.size
      BY <3>3, <3>4, <3>5
    <3> QED BY <3>1, <3>6
  <2> QED BY <1>5, <2>1, <2>2
<1>12. useSecondary => job'.step = "secondary" /\ job'.idPtr = job.idPtr
  BY <1>1, <1>2
<1>13. ~useSecondary => job'.step = "idle" /\ job'.idPtr = NoId
  BY <1>1 DEF NoJob
<1>14. CountersAgree'
  <2> SUFFICES ASSUME useSecondary, "ids" \notin past
               PROVE  toSerialize'.id = toTmpSerialize.id + 1
    BY <1>1, <1>12 DEF CountersAgree
  <2>1. toSerialize.id = toTmpSerialize.id + 0
    BY <1>1 DEF IInv, CountersAgree
  <2> QED BY <1>1, <1>2, <1>3, <2>1 DEF SecEntry
<1>15. IndexesAgree'
  <2> SUFFICES ASSUME useSecondary, "crash" \notin past
               PROVE  /\ Len(index') = Len(secIndex) + 1
                      /\ \A k \in 1..Len(secIndex) : secIndex[k].offset = index'[k].begin
                      /\ "ids" \notin past =>
                           \A k \in 1..Len(secIndex) : secIndex[k].id = index'[k].id
    BY <1>1, <1>12 DEF IndexesAgree
  <2>1. /\ Len(index) = Len(secIndex) + 0
        /\ \A k \in 1..Len(secIndex) : secIndex[k].offset = index[k].begin
        /\ "ids" \notin past => \A k \in 1..Len(secIndex) : secIndex[k].id = index[k].id
    BY <1>1 DEF IInv, IndexesAgree
  <2>2. Len(secIndex) \in Nat
    BY DEF IInv, TypeOK
  <2> QED BY <1>5, <2>1, <2>2
<1>16. JobFacts'
  <2>1. CASE useSecondary
    <3>1. Len(index') \in Nat /\ Len(index') >= 1 /\ index'[Len(index')] = e
      BY <1>5
    <3>2. e.begin = toSerialize'.begin /\ e.id = toSerialize'.id
      BY <1>1, <1>4
    <3> QED BY <1>1, <1>12, <2>1, <3>1, <3>2 DEF IInv, JobFacts
  <2>2. CASE ~useSecondary
    BY <1>13, <2>2 DEF JobFacts
  <2> QED BY <2>1, <2>2
<1>17. Tidy(primary)' /\ Tidy(secondary)'
  BY <1>1, <1>5 DEF IInv, Tidy
<1>18. /\ Accounts(primary, index, PrimaryWords)'
       /\ Accounts(secondary, secIndex, SecondaryWords)'
  BY <1>1, <1>5 DEF IInv, Accounts, PrimaryWords, SecondaryWords
<1> QED
  BY <1>1, <1>7, <1>8, <1>10, <1>11, <1>14, <1>15, <1>16, <1>17, <1>18 DEF IInv

\* The secondary entry follows with the offset of the primary one.
LEMMA WriteSecondaryKeeps == IInv /\ WriteSecondary => IInv'
<1> SUFFICES ASSUME IInv, WriteSecondary PROVE IInv'
  OBVIOUS
<1> DEFINE sec == NextSecondary(job.idPtr)
<1>1. /\ alive /\ opened /\ job.step = "secondary" /\ useSecondary /\ job' = NoJob
      /\ toTmpSerialize' = sec /\ secondary' = Fwrite(secondary, SecondaryWords)
      /\ secIndex' = Append(secIndex, sec)
      /\ UNCHANGED <<fixed, useSecondary, alive, opened, named, values, primary, index,
                     toSerialize, pending, past, starts>>
  BY DEF WriteSecondary, At, Proceed, After, IInv, JobFacts
<1>2. /\ secondary \in File /\ secIndex \in Seq(SecEntry) /\ index \in Seq(Entry)
      /\ toSerialize \in [id : Nat, begin : Nat, end : Nat] /\ toTmpSerialize \in SecEntry
      /\ job.idPtr \in Nat \union {NoId}
  BY DEF IInv, TypeOK
<1>3. /\ sec.id = (IF job.idPtr = NoId THEN toTmpSerialize.id + 1 ELSE job.idPtr)
      /\ sec.offset = toSerialize.begin /\ sec \in SecEntry
  BY <1>2 DEF NextSecondary, SecEntry
<1> HIDE DEF sec
<1>4. /\ secIndex' \in Seq(SecEntry) /\ Len(secIndex') = Len(secIndex) + 1
      /\ Len(secIndex) \in Nat
      /\ \A k \in 1..Len(secIndex) : secIndex'[k] = secIndex[k]
      /\ secIndex'[Len(secIndex) + 1] = sec
      /\ secondary' \in File /\ secondary'.torn = secondary.torn
      /\ Accounts(secondary', secIndex', SecondaryWords)
  <2>1. Accounts(secondary, secIndex, 2) /\ SecondaryWords = 2
    BY DEF IInv, SecondaryWords
  <2> QED
    BY <1>1, <1>2, <1>3, <2>1, EntryWritten
<1>5. job'.step = "idle" /\ job'.idPtr = NoId
  BY <1>1 DEF NoJob
<1>6. TypeOK'
  <2>1. /\ job' \in [step : {"idle", "flush", "primary", "secondary"}, size : Nat, prev : Nat,
                     idPtr : Nat \union {NoId}]
    BY <1>1 DEF NoJob
  <2> QED BY <1>1, <1>3, <1>4, <2>1 DEF IInv, TypeOK
<1>7. NotAhead' /\ NextEntryIsDue' /\ EntriesDescribeRecords'
  BY <1>1 DEF IInv, NotAhead, NextEntryIsDue, EntriesDescribeRecords, Length
<1>8. CountersAgree'
  <2> SUFFICES ASSUME "ids" \notin past
               PROVE  toSerialize.id = sec.id
    BY <1>1, <1>2, <1>3, <1>5 DEF CountersAgree, SecEntry
  <2>1. job.idPtr = NoId /\ toSerialize.id = toTmpSerialize.id + 1
    BY <1>1 DEF IInv, JobFacts, CountersAgree
  <2> QED BY <1>3, <2>1
<1>9. IndexesAgree'
  <2> SUFFICES ASSUME "crash" \notin past
               PROVE  /\ Len(index) = Len(secIndex')
                      /\ \A k \in 1..Len(secIndex') : secIndex'[k].offset = index[k].begin
                      /\ "ids" \notin past =>
                           \A k \in 1..Len(secIndex') : secIndex'[k].id = index[k].id
    BY <1>1, <1>4, <1>5 DEF IndexesAgree
  <2>1. /\ Len(index) = Len(secIndex) + 1
        /\ \A k \in 1..Len(secIndex) : secIndex[k].offset = index[k].begin
        /\ "ids" \notin past => \A k \in 1..Len(secIndex) : secIndex[k].id = index[k].id
    BY <1>1 DEF IInv, IndexesAgree
  <2>2. /\ index[Len(index)].begin = toSerialize.begin
        /\ index[Len(index)].id = toSerialize.id
    BY <1>1 DEF IInv, JobFacts
  <2>3. "ids" \notin past => sec.id = toSerialize.id
    <3>1. "ids" \notin past => job.idPtr = NoId /\ toSerialize.id = toTmpSerialize.id + 1
      BY <1>1 DEF IInv, JobFacts, CountersAgree
    <3> QED BY <1>3, <3>1
  <2>4. ASSUME NEW k \in 1..Len(secIndex')
        PROVE  /\ secIndex'[k].offset = index[k].begin
               /\ "ids" \notin past => secIndex'[k].id = index[k].id
    <3>1. CASE k \in 1..Len(secIndex)
      BY <1>4, <2>1, <3>1
    <3>2. CASE k = Len(secIndex) + 1
      BY <1>3, <1>4, <2>1, <2>2, <2>3, <3>2
    <3> QED BY <1>4, <3>1, <3>2
  <2> QED BY <1>4, <2>1, <2>4
<1>10. JobFacts'
  BY <1>5 DEF JobFacts
<1>11. /\ Accounts(primary, index, PrimaryWords)'
       /\ Accounts(secondary, secIndex, SecondaryWords)'
       /\ Tidy(primary)' /\ Tidy(secondary)'
  BY <1>1, <1>4 DEF IInv, Accounts, PrimaryWords, SecondaryWords, Tidy
<1> QED
  BY <1>1, <1>6, <1>7, <1>8, <1>9, <1>10, <1>11 DEF IInv

LEMMA Inductive == IInv /\ [Next]_vars => IInv'
<1> SUFFICES ASSUME IInv, [Next]_vars PROVE IInv'
  OBVIOUS
<1>1. CASE Open
  BY <1>1, OpenKeeps
<1>2. CASE OpenFixed
  BY <1>2, OpenFixedKeeps
<1>3. CASE Close \/ Exit
  BY <1>3, CloseKeeps
<1>4. CASE Dounlink
  BY <1>4, DounlinkKeeps
<1>5. CASE Kill
  BY <1>5, KillKeeps
<1>6. CASE Start
  BY <1>6, StartKeeps
<1>7. CASE Write
  BY <1>7, WriteValueKeeps DEF Write
<1>8. CASE \E size \in Sizes : WriteNoIndex(size)
  BY <1>8, WriteNoIndexKeeps
<1>9. CASE FlushValue
  BY <1>9, FlushValueKeeps
<1>10. CASE WritePrimary
  BY <1>10, WritePrimaryKeeps
<1>11. CASE WriteSecondary
  BY <1>11, WriteSecondaryKeeps
<1>12. CASE DounlinkUnnamed \/ UNCHANGED vars
  <2>1. UNCHANGED vars
    BY <1>12 DEF DounlinkUnnamed
  <2> QED
    BY <2>1 DEF vars, filesVars, memoryVars, IInv, TypeOK, Accounts, Tidy, NotAhead,
       NextEntryIsDue, EntriesDescribeRecords, CountersAgree, IndexesAgree, JobFacts, Length
<1> QED
  BY <1>1, <1>2, <1>3, <1>4, <1>5, <1>6, <1>7, <1>8, <1>9, <1>10, <1>11, <1>12 DEF Next

-----------------------------------------------------------------------------
(* Theorems *)

\* The inductive invariant holds in every reachable state.
THEOREM Invariance == Spec => []IInv
<1>1. Init => IInv
  BY InitIInv
<1>2. IInv /\ [Next]_vars => IInv'
  BY Inductive
<1> QED
  BY <1>1, <1>2, PTL DEF Spec

\* Every variable keeps its type, and no stream of the inserter ever holds
\* more than its buffer, whatever the sizes of the records.
THEOREM TypeCorrect == Spec => []TypeOK
<1>1. IInv => TypeOK
  BY DEF IInv
<1> QED
  BY <1>1, Invariance, PTL

\* In every state between two calls that write or flush, hence wherever a
\* process is killed, no entry on disk speaks of values that are not on disk:
\* the fflush of risk_writeKeyAndValue_with_prev comes before the entry.
THEOREM NeverAhead == Spec => []IndexNeverAhead
<1>1. IInv => IndexNeverAhead
  <2> SUFFICES ASSUME IInv, "reuse" \notin past,
                      NEW k \in 1..Durable(primary, PrimaryWords)
               PROVE  index[k].end <= values.disk
    BY DEF IndexNeverAhead
  <2>1. Durable(primary, 3) \in 0..Len(index)
    BY KillTruncates DEF IInv, TypeOK, PrimaryWords
  <2>2. k \in 1..Len(index)
    BY <2>1 DEF PrimaryWords, IInv, TypeOK
  <2> QED
    BY <2>2 DEF IInv, NotAhead
<1> QED
  BY <1>1, Invariance, PTL

\* In the life of one process that covers its unindexed words, every entry
\* gives exactly the words of its record.
THEOREM EntriesDescribe == Spec => []EntriesDescribeRecords
<1>1. IInv => EntriesDescribeRecords
  BY DEF IInv
<1> QED
  BY <1>1, Invariance, PTL

\* Without a kill, the two indexes hold entries for the same records, but for
\* the record of a call between its two index writes.
THEOREM Agreement == Spec => []IndexesAgree
<1>1. IInv => IndexesAgree
  BY DEF IInv
<1> QED
  BY <1>1, Invariance, PTL

\* close() and the destructor leave every entry whole on disk.
THEOREM ClosedWhole == Spec => []ClosedIsWhole
<1>1. IInv => ClosedIsWhole
  <2> SUFFICES ASSUME IInv, "crash" \notin past, ~opened
               PROVE  /\ primary.disk = PrimaryWords * Len(index)
                      /\ secondary.disk = SecondaryWords * Len(secIndex)
    BY DEF ClosedIsWhole
  <2>1. /\ primary.torn = 0 /\ primary.buf = 0 /\ secondary.torn = 0 /\ secondary.buf = 0
        /\ primary.disk \in Nat /\ secondary.disk \in Nat
    BY DEF IInv, Tidy, TypeOK, File
  <2> QED
    BY <2>1 DEF IInv, Accounts, PrimaryWords, SecondaryWords
<1> QED
  BY <1>1, Invariance, PTL

\* A killed process loses no more entries than one buffer holds, and no
\* other step than dounlink loses any.
THEOREM OneBufferLost == Spec => CrashLosesOneBuffer
<1>1. IInv /\ [Next]_vars
        => [Len(index') < Len(index) /\ values' # Empty =>
              PrimaryWords * (Len(index) - Len(index')) < BufSize + PrimaryWords]_vars
  <2> SUFFICES ASSUME IInv, [Next]_vars, Len(index') < Len(index), values' # Empty
               PROVE  PrimaryWords * (Len(index) - Len(index')) < BufSize + PrimaryWords
    OBVIOUS
  <2>1. index \in Seq(Entry) /\ Len(index) \in Nat
    BY DEF IInv, TypeOK
  <2>2. index' # index
    BY <2>1
  <2>3. CASE Kill
    <3>1. index' = SubSeq(index, 1, Durable(primary, 3))
      BY <2>3 DEF Kill, PrimaryWords
    <3>2. /\ Durable(primary, 3) \in 0..Len(index)
          /\ 3 * (Len(index) - Durable(primary, 3)) < BufSize + 3
      BY KillTruncates DEF IInv, TypeOK, PrimaryWords
    <3>3. Len(index') = Durable(primary, 3)
      BY <2>1, <3>1, <3>2, SubSeqProperties
    <3> QED
      BY <3>2, <3>3 DEF PrimaryWords
  <2>4. CASE WritePrimary
    <3>1. PICK e : index' = Append(index, e)
      BY <2>4 DEF WritePrimary
    <3>2. Len(index') = Len(index) + 1
      BY <2>1, <3>1
    <3> QED
      BY <2>1, <3>2
  <2>5. CASE Dounlink
    BY <2>5 DEF Dounlink
  <2>6. CASE \/ Open \/ OpenFixed \/ Close \/ Exit \/ Start \/ DounlinkUnnamed
             \/ Write \/ FlushValue \/ WriteSecondary
             \/ (\E size \in Sizes : WriteNoIndex(size)) \/ UNCHANGED vars
    BY <2>2, <2>6 DEF Open, OpenFixed, Close, Exit, Start, DounlinkUnnamed, WriteNoIndex,
       Write, WriteValue, FlushValue, WriteSecondary, FlushAll, vars, filesVars
  <2> QED
    BY <2>3, <2>4, <2>5, <2>6 DEF Next
<1> QED
  BY <1>1, Invariance, PTL DEF Spec, CrashLosesOneBuffer

=============================================================================

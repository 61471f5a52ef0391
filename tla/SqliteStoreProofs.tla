-------------------------- MODULE SqliteStoreProofs --------------------------
(***************************************************************************)
(* The alarm store on both backends, for every number of threads, records, *)
(* queries and appends cut short.                                          *)
(*                                                                         *)
(* Locks says who can be in the middle of writing, in the database or in   *)
(* the file.  For the database Truth follows a record from append to its   *)
(* answer; that no two records are the same comes from their numbers (Ids).*)
(* For the file Ending says what the end of it looks like while a record   *)
(* is written, Clean what all of it looks like as long as no append was    *)
(* cut short, and Debt counts the records that are not lost yet but will   *)
(* be.  Last comes what a query returns, by induction over the rounds of   *)
(* its loop (FoundIn).                                                     *)
(***************************************************************************)
EXTENDS SqliteStore, FiniteSetTheorems, SequenceTheorems, WellFoundedInduction, TLAPS

\* The values of the variables; the answer, a sorted sequence, is left out.
Shapes == /\ file \in Seq(Line)
          /\ \A i \in 1 .. Len(file) : /\ Len(file[i].parts) > 0
                                       /\ i < Len(file) => file[i].ended
          /\ mutex \in Threads \cup {Free}
          /\ threads \in [Threads -> ThreadState]
          /\ counter \in 0 .. MaxRecords /\ cuts \in Nat
          /\ begun \subseteq AlarmRecord /\ finished \subseteq AlarmRecord
          /\ IsFiniteSet(begun)
          /\ db \in BOOLEAN /\ auditing \in BOOLEAN
          /\ rows \in Seq(AlarmRecord)
          /\ inserting \in Inserts \cup {NoInsert}
          /\ accepted \subseteq AlarmRecord /\ refused \subseteq AlarmRecord
          /\ acks \subseteq AlarmRecord

\* Thread t is somewhere in append.
Appending(t) == threads[t].at \in {"append", "open", "text", "newline"}

\* The mutex of the backend in use is held by the thread that writes through
\* it; the other backend is at rest.
Locks == /\ db => \A t \in Threads : ~Writing(t)
         /\ db => (mutex # Free <=> inserting.at = "write")
         /\ ~db => \A t \in Threads : Writing(t) <=> mutex = t
         /\ ~db => inserting = NoInsert
         /\ inserting # NoInsert => /\ threads[inserting.thread].at = "append"
                                    /\ threads[inserting.thread].record = inserting.record

\* No two records have the same number.
Ids == /\ \A r \in InTable \cup refused : r.id <= counter
       /\ \A t \in Threads : Appending(t) => threads[t].record.id <= counter
       /\ \A t, u \in Threads : Appending(t) /\ Appending(u) /\ t # u
                                => threads[t].record.id # threads[u].record.id

\* The append of thread t has tried its first insert.
Tried(t) == inserting.at = "copy" /\ inserting.thread = t

\* Before its insert a record is neither in the table nor refused; after it
\* the result that append has kept says which.
Truth == /\ AppendTruthful
         /\ \A t \in Threads : threads[t].at = "append" /\ ~Tried(t)
                               => threads[t].record \notin InTable \cup refused
         /\ inserting.at = "copy" => (inserting.ok <=> inserting.record \in InTable)

-----------------------------------------------------------------------------
\* The last line lacks its newline.
Dangling == file # <<>> /\ ~file[Len(file)].ended

\* Thread t has written some of its record.
Midway(t) == threads[t].at \in {"text", "newline"}

\* What is at the end of the file is the record being written.
Ending == \A t \in Threads : Midway(t) =>
            /\ Dangling
            /\ LET parts == file[Len(file)].parts
                   part == parts[Len(parts)]
               IN  part.record = threads[t].record /\ (part.whole <=> threads[t].at = "newline")

\* As long as no append was cut short, every line is one record, whole but for
\* the one being written, and nothing is missing from the file.
Clean == cuts = 0 =>
            /\ \A i \in 1 .. Len(file) : /\ Len(file[i].parts) = 1
                                         /\ file[i].ended => file[i].parts[1].whole
            /\ Dangling => \E t \in Threads : Midway(t)
            /\ finished \subseteq InFile

\* A query that has counted the invalid lines.
Counted == \A t \in Threads : threads[t].at = "query" /\ cuts = 0 =>
            /\ threads[t].invalid = 0
            /\ threads[t].before \subseteq (IF db THEN accepted ELSE finished)

\* The records that will be lost: the one being written, if it continues an
\* unfinished line; if such a line waits, the next one and the one in it.
Debt == IF ~Dangling THEN 0
        ELSE IF \E t \in Threads : Midway(t)
             THEN IF Len(file[Len(file)].parts) > 1 THEN 1 ELSE 0
             ELSE IF Parses(file[Len(file)]) THEN 2 ELSE 1

Accounted == Cardinality(Lost) + Debt <= 2 * cuts

Basis == Shapes /\ Locks /\ Ending

Ledger == Basis /\ Ids /\ Truth

FileInv == Basis /\ Accounted

QueryInv == Ledger /\ Clean /\ Counted /\ QueryUndisturbed

-----------------------------------------------------------------------------
(* What the steps do to the threads and to the file.                       *)

\* Where a thread is tells which fields its state has.
LEMMA ThreadShape ==
    ASSUME NEW c \in ThreadState
    PROVE  /\ c.at \in {"idle", "append", "open", "text", "newline", "query"}
           /\ c.at = "idle" => c = Idle
           /\ c.at \in {"append", "open", "text", "newline"}
              => c \in [at : {"append", "open", "text", "newline"}, record : AlarmRecord]
           /\ c.at = "query" => c \in [at : {"query"}, query : Queries, invalid : Nat,
                                       before : SUBSET AlarmRecord]
BY DEF ThreadState, Idle

\* One thread's state changes, the others' stay.
LEMMA ThreadUpdate ==
    ASSUME Shapes, NEW t \in Threads, NEW c \in ThreadState, threads' = [threads EXCEPT ![t] = c]
    PROVE  /\ threads' \in [Threads -> ThreadState]
           /\ threads'[t] = c
           /\ \A u \in Threads : u # t => threads'[u] = threads[u]
BY DEF Shapes

\* Idle is a state, and a thread in it neither appends nor queries.
LEMMA IdleShape == Idle \in ThreadState /\ Idle.at = "idle"
BY DEF ThreadState, Idle

\* A thread in append that goes on to another step of it keeps its record.
LEMMA GotoStep ==
    ASSUME Shapes, NEW t \in Threads, Appending(t),
           NEW a \in {"append", "open", "text", "newline"}, Goto(t, a)
    PROVE  /\ threads' \in [Threads -> ThreadState]
           /\ threads'[t].at = a
           /\ threads'[t].record = threads[t].record
           /\ \A u \in Threads : u # t => threads'[u] = threads[u]
<1>1. threads[t] \in [at : {"append", "open", "text", "newline"}, record : AlarmRecord]
  BY ThreadShape DEF Shapes, Appending
<1> DEFINE c == [threads[t] EXCEPT !.at = a]
<1>2. c \in [at : {"append", "open", "text", "newline"}, record : AlarmRecord]
      /\ c.at = a /\ c.record = threads[t].record
  BY <1>1
<1>3. c \in ThreadState
  BY <1>2 DEF ThreadState
<1>4. threads' = [threads EXCEPT ![t] = c]
  BY DEF Goto
<1> QED
  BY <1>2, <1>3, <1>4, ThreadUpdate

\* The number of invalid lines that a load reads is a number.
LEMMA InvalidCountType ==
    ASSUME Shapes, NEW n \in LinesRead
    PROVE  /\ InvalidLines(n) \in Nat
           /\ InvalidLines(n) = 0 <=> \A i \in 1 .. n : Parses(file[i])
<1> DEFINE B == {i \in 1 .. n : ~Parses(file[i])}
<1>1. IsFiniteSet(1 .. n)
  BY FS_Interval, LenProperties DEF Shapes, LinesRead
<1>2. IsFiniteSet(B)
  BY <1>1, FS_Subset
<1> QED
  BY <1>2, FS_CardinalityType, FS_EmptySet DEF InvalidLines

\* The fields of a line, and of its last part.
LEMMA LineShape ==
    ASSUME NEW l \in Line, Len(l.parts) > 0
    PROVE  /\ l.parts \in Seq(Part) /\ l.ended \in BOOLEAN
           /\ Len(l.parts) \in Nat
           /\ Len(l.parts) \in 1 .. Len(l.parts)
           /\ l.parts[Len(l.parts)] \in Part
<1>1. l.parts \in Seq(Part) /\ l.ended \in BOOLEAN
  BY DEF Line
<1> QED
  BY <1>1, LenProperties, ElementOfSeq

\* The part that is written is the last of the last line: of a new one, or of
\* the one that lacks its newline.
LEMMA AtEndStep ==
    ASSUME Shapes, NEW p \in Part, file' = AtEnd(p)
    PROVE  /\ file' \in Seq(Line) /\ Len(file') > 0
           /\ \A i \in 1 .. Len(file') : i < Len(file') => file'[i].ended
           /\ \A i \in 1 .. Len(file') : Len(file'[i].parts) > 0
           /\ ~file'[Len(file')].ended
           /\ LET ps == file'[Len(file')].parts IN ps[Len(ps)] = p
           /\ ~Dangling => /\ file' = Append(file, [parts |-> <<p>>, ended |-> FALSE])
                           /\ Len(file') = Len(file) + 1
                           /\ \A i \in 1 .. Len(file) : file'[i] = file[i]
                           /\ file'[Len(file')].parts = <<p>>
           /\ Dangling => /\ Len(file') = Len(file)
                          /\ \A i \in 1 .. Len(file) - 1 : file'[i] = file[i]
                          /\ Len(file'[Len(file')].parts) > 1
<1>1. file \in Seq(Line) /\ Len(file) \in Nat
  BY LenProperties DEF Shapes
<1>2. CASE ~Dangling
  <2> DEFINE l == [parts |-> <<p>>, ended |-> FALSE]
  <2>1. file' = Append(file, l)
    BY <1>2 DEF AtEnd, Last, Dangling
  <2>2. <<p>> \in Seq(Part) /\ Len(<<p>>) = 1 /\ <<p>>[1] = p
    OBVIOUS
  <2>3. l \in Line
    BY <2>2 DEF Line
  <2>4. l.parts = <<p>> /\ ~l.ended
    OBVIOUS
  <2>5. /\ file' \in Seq(Line) /\ Len(file') = Len(file) + 1
        /\ \A i \in 1 .. Len(file) : file'[i] = file[i]
        /\ file'[Len(file')] = l
    <3> HIDE DEF l
    <3> QED BY <1>1, <2>1, <2>3, AppendProperties
  <2>6. \A i \in 1 .. Len(file) : file[i].ended
    BY <1>1, <1>2 DEF Shapes, Dangling
  <2> QED
    BY <1>1, <1>2, <2>1, <2>2, <2>4, <2>5, <2>6 DEF Shapes
<1>3. CASE Dangling
  <2> DEFINE n == Len(file)
             ps == file[n].parts
             l == [file[n] EXCEPT !.parts = Append(ps, p)]
  <2>1. n \in 1 .. n
    BY <1>1, <1>3, EmptySeq DEF Dangling
  <2>2. file[n] \in Line /\ ps \in Seq(Part) /\ Len(ps) \in Nat /\ Len(ps) > 0
    <3>1. file[n] \in Line /\ Len(ps) > 0
      BY <1>1, <2>1, ElementOfSeq DEF Shapes
    <3> QED
      BY <3>1, LineShape
  <2>3. Append(ps, p) \in Seq(Part) /\ Len(Append(ps, p)) = Len(ps) + 1
        /\ Append(ps, p)[Len(ps) + 1] = p
    BY <2>2, AppendProperties
  <2>4. l \in Line /\ l.parts = Append(ps, p) /\ ~l.ended
    <3>1. ~file[n].ended
      BY <1>3 DEF Dangling
    <3> QED
      BY <2>2, <2>3, <3>1, Zenon DEF Line
  <2>5. file' = [file EXCEPT ![n] = l]
    BY <1>3 DEF AtEnd, Last, Dangling
  <2>6. file' \in Seq(Line) /\ Len(file') = n /\ file'[n] = l
        /\ \A i \in 1 .. n - 1 : file'[i] = file[i]
    <3> HIDE DEF l
    <3> QED BY <1>1, <2>1, <2>4, <2>5, ExceptSeq
  <2> QED
    <3> HIDE DEF l, ps
    <3>1. \A i \in 1 .. n - 1 : Len(file[i].parts) > 0 /\ file[i].ended
      BY <1>1 DEF Shapes
    <3>2. ~file'[Len(file')].ended /\ file'[Len(file')].parts = Append(ps, p)
      BY <2>4, <2>6
    <3>3. \A i \in 1 .. Len(file') : i < Len(file') => i \in 1 .. n - 1 /\ file'[i] = file[i]
      BY <1>1, <2>6
    <3>4. \A i \in 1 .. Len(file') : i < Len(file') => file'[i].ended /\ Len(file'[i].parts) > 0
      BY <3>1, <3>3
    <3>5. Len(file'[Len(file')].parts) = Len(ps) + 1 /\ Len(ps) + 1 > 1
      BY <2>2, <2>3, <3>2
    <3>6. \A i \in 1 .. Len(file') : Len(file'[i].parts) > 0
      BY <1>1, <2>6, <3>4, <3>5
    <3>7. LET qs == file'[Len(file')].parts IN qs[Len(qs)] = p
      BY <2>3, <3>2
    <3> QED
      BY <1>1, <1>3, <2>1, <2>6, <3>2, <3>4, <3>5, <3>6, <3>7
<1> QED
  BY <1>2, <1>3

\* The file with another last line.
WithLast(l) == [file EXCEPT ![Len(file)] = l]

\* The last line is replaced, by one that has parts.
LEMMA LastLineStep ==
    ASSUME Shapes, file # <<>>, NEW l \in Line, Len(l.parts) > 0,
           file' = WithLast(l)
    PROVE  /\ file' \in Seq(Line) /\ Len(file') = Len(file) /\ Len(file) \in 1 .. Len(file)
           /\ file'[Len(file)] = l
           /\ \A i \in 1 .. Len(file) : i # Len(file) => file'[i] = file[i]
           /\ \A i \in 1 .. Len(file') : /\ Len(file'[i].parts) > 0
                                         /\ i < Len(file') => file'[i].ended
<1>1. file \in Seq(Line) /\ Len(file) \in Nat
  BY LenProperties DEF Shapes
<1>2. Len(file) \in 1 .. Len(file)
  BY <1>1, EmptySeq
<1>3. /\ file' \in Seq(Line) /\ Len(file') = Len(file) /\ file'[Len(file)] = l
      /\ \A i \in 1 .. Len(file) : i # Len(file) => file'[i] = file[i]
  BY <1>1, <1>2, ExceptSeq DEF WithLast
<1>4. \A i \in 1 .. Len(file) : i < Len(file) => Len(file[i].parts) > 0 /\ file[i].ended
  BY DEF Shapes
<1>5. \A i \in 1 .. Len(file') : i < Len(file') => Len(file'[i].parts) > 0 /\ file'[i].ended
  BY <1>1, <1>3, <1>4
<1>6. \A i \in 1 .. Len(file') : /\ Len(file'[i].parts) > 0
                                 /\ i < Len(file') => file'[i].ended
  <2>1. SUFFICES ASSUME NEW i \in 1 .. Len(file')
                 PROVE  /\ Len(file'[i].parts) > 0
                        /\ i < Len(file') => file'[i].ended
    OBVIOUS
  <2>2. i < Len(file') \/ (~(i < Len(file')) /\ i = Len(file))
    BY <1>1, <1>3
  <2> QED
    BY <1>3, <1>5, <2>2
<1> QED
  BY <1>2, <1>3, <1>6

\* The last line, when there is one.
LEMMA LastLine ==
    ASSUME Shapes, file # <<>>
    PROVE  /\ Len(file) \in 1 .. Len(file)
           /\ file[Len(file)] \in Line /\ Len(file[Len(file)].parts) > 0
<1>1. file \in Seq(Line) /\ Len(file) \in Nat
  BY LenProperties DEF Shapes
<1>2. Len(file) \in 1 .. Len(file)
  BY <1>1, EmptySeq
<1> QED
  BY <1>1, <1>2, ElementOfSeq DEF Shapes

\* The rest of a text makes the last part of the last line whole.
LEMMA RestStep ==
    ASSUME Shapes, Dangling,
           file' = [file EXCEPT ![Len(file)].parts[Len(Last(file).parts)].whole = TRUE]
    PROVE  LET n == Len(file)
               ps == file[n].parts
               qs == file'[n].parts
           IN  /\ file' \in Seq(Line) /\ Len(file') = n
               /\ \A i \in 1 .. Len(file') : /\ Len(file'[i].parts) > 0
                                             /\ i < Len(file') => file'[i].ended
               /\ \A i \in 1 .. n : i # n => file'[i] = file[i]
               /\ ~file'[n].ended
               /\ Len(qs) = Len(ps)
               /\ qs[Len(qs)].record = ps[Len(ps)].record
               /\ qs[Len(qs)].whole
<1> DEFINE n == Len(file)
           ps == file[n].parts
           m == Len(ps)
           p == [ps[m] EXCEPT !.whole = TRUE]
           qs == [ps EXCEPT ![m] = p]
           l == [file[n] EXCEPT !.parts = qs]
<1>1. file # <<>> /\ ~file[n].ended
  BY DEF Dangling
<1>2. file[n] \in Line /\ Len(ps) > 0
  BY <1>1, LastLine
<1>3. ps \in Seq(Part) /\ m \in 1 .. m /\ ps[m] \in Part
  BY <1>2, LineShape
<1>4. p \in Part /\ p.record = ps[m].record /\ p.whole
  BY <1>3, Zenon DEF Part
<1>5. qs \in Seq(Part) /\ Len(qs) = m /\ qs[m] = p
  <2> HIDE DEF p, ps
  <2> QED BY <1>3, <1>4, ExceptSeq
<1>6. l \in Line /\ l.parts = qs /\ ~l.ended
  <2> HIDE DEF qs
  <2> QED BY <1>1, <1>2, <1>5, Zenon DEF Line
<1>7. file' = WithLast(l)
  BY DEF Last, WithLast
<1>8. Len(l.parts) > 0
  BY <1>2, <1>5, <1>6
<1>9. /\ file' \in Seq(Line) /\ Len(file') = n /\ file'[n] = l
      /\ \A i \in 1 .. n : i # n => file'[i] = file[i]
      /\ \A i \in 1 .. Len(file') : /\ Len(file'[i].parts) > 0
                                    /\ i < Len(file') => file'[i].ended
  <2> HIDE DEF l
  <2> QED BY <1>1, <1>6, <1>7, <1>8, LastLineStep
<1>10. file'[n].parts = qs /\ ~file'[n].ended
  BY <1>6, <1>9
<1> HIDE DEF qs, l, p
<1> QED
  BY <1>4, <1>5, <1>9, <1>10

\* The newline ends the last line.
LEMMA NewlineStep ==
    ASSUME Shapes, Dangling, file' = [file EXCEPT ![Len(file)].ended = TRUE]
    PROVE  LET n == Len(file)
           IN  /\ file' \in Seq(Line) /\ Len(file') = n /\ n \in 1 .. n
               /\ \A i \in 1 .. Len(file') : /\ Len(file'[i].parts) > 0
                                             /\ i < Len(file') => file'[i].ended
               /\ \A i \in 1 .. n : i # n => file'[i] = file[i]
               /\ file'[n].ended
               /\ file'[n].parts = file[n].parts
<1> DEFINE n == Len(file)
           l == [file[n] EXCEPT !.ended = TRUE]
<1>1. file # <<>>
  BY DEF Dangling
<1>2. file[n] \in Line /\ Len(file[n].parts) > 0
  BY <1>1, LastLine
<1>3. l \in Line /\ l.parts = file[n].parts /\ l.ended
  BY <1>2, Zenon DEF Line
<1>4. file' = WithLast(l)
  BY DEF WithLast
<1>5. /\ file' \in Seq(Line) /\ Len(file') = n /\ n \in 1 .. n /\ file'[n] = l
      /\ \A i \in 1 .. n : i # n => file'[i] = file[i]
      /\ \A i \in 1 .. Len(file') : /\ Len(file'[i].parts) > 0
                                    /\ i < Len(file') => file'[i].ended
  <2> HIDE DEF l
  <2> QED BY <1>1, <1>2, <1>3, <1>4, LastLineStep
<1>6. file'[n].parts = file[n].parts /\ file'[n].ended
  BY <1>3, <1>5
<1> HIDE DEF l
<1> QED
  BY <1>5, <1>6

-----------------------------------------------------------------------------
(* Steps that do not touch the file.                                       *)

\* Nothing happens to the file, to the history of it or to a thread that is
\* writing it.
Quiet == /\ UNCHANGED <<file, begun, finished, cuts>>
         /\ \A t \in Threads : /\ Writing(t)' <=> Writing(t)
                               /\ Writing(t) => threads'[t] = threads[t]

\* A thread that is not writing the file, before and after the step.
LEMMA QuietUpdate ==
    ASSUME Shapes, UNCHANGED <<file, begun, finished, cuts>>,
           NEW t \in Threads, NEW c \in ThreadState, threads' = [threads EXCEPT ![t] = c],
           c.at \in {"idle", "append", "query"}, ~Writing(t)
    PROVE  Quiet /\ threads' \in [Threads -> ThreadState] /\ threads'[t] = c
           /\ \A u \in Threads : u # t => threads'[u] = threads[u]
BY ThreadUpdate DEF Quiet, Writing

\* What a step of the database leaves alone.
LEMMA InsertShape ==
    ASSUME NEW i \in Inserts \cup {NoInsert}
    PROVE  /\ i.at \in {"none", "write", "copy"}
           /\ i # NoInsert <=> i.at \in {"write", "copy"}
           /\ i # NoInsert => /\ i \in Inserts
                              /\ i.thread \in Threads /\ i.record \in AlarmRecord
                              /\ i.ok \in BOOLEAN
BY DEF Inserts, NoInsert

\* A new record.
LEMMA MakeRecordBasis ==
    ASSUME Basis, NEW t \in Threads, NEW d \in Devices, NEW time \in Times, MakeRecord(t, d, time)
    PROVE  Quiet /\ Shapes' /\ Locks'
<1> DEFINE r == [id |-> counter + 1, device_id |-> d, timestamp |-> time]
           c == [at |-> "append", record |-> r]
<1>1. threads[t] = Idle /\ counter < MaxRecords /\ counter' = counter + 1
      /\ UNCHANGED <<file, mutex, begun, finished, cuts>> /\ UNCHANGED sqlite
      /\ threads' = [threads EXCEPT ![t] = c]
  BY DEF MakeRecord, AppendAlarm
<1>2. r \in AlarmRecord /\ counter' \in 0 .. MaxRecords
  BY <1>1, StoreConfig DEF Basis, Shapes, AlarmRecord
<1>3. c \in ThreadState /\ c.at = "append"
  BY <1>2 DEF ThreadState
<1>4. ~Writing(t) /\ threads[t].at # "append"
  BY <1>1 DEF Writing, Idle
<1>5. Quiet /\ threads' \in [Threads -> ThreadState] /\ threads'[t] = c
      /\ \A u \in Threads : u # t => threads'[u] = threads[u]
  <2> HIDE DEF c
  <2> QED BY <1>1, <1>3, <1>4, QuietUpdate DEF Basis
<1>6. Shapes'
  BY <1>1, <1>2, <1>5 DEF Basis, Shapes, sqlite
<1>7. Locks'
  <2>1. \A u \in Threads : Writing(u)' <=> Writing(u)
    BY <1>5 DEF Quiet
  <2>2. inserting # NoInsert => inserting.thread # t /\ inserting.thread \in Threads
    BY <1>4, InsertShape DEF Basis, Shapes, Locks
  <2> QED
    BY <1>1, <1>5, <2>1, <2>2 DEF Basis, Locks, sqlite
<1> QED
  BY <1>5, <1>6, <1>7

\* The insert takes the lock.
LEMMA InsertBasis ==
    ASSUME Basis, NEW t \in Threads, Insert(t)
    PROVE  Quiet /\ Shapes' /\ Locks'
<1>1. /\ db /\ threads[t].at = "append" /\ inserting = NoInsert /\ mutex' = t
      /\ inserting' = [at |-> "write", thread |-> t, record |-> threads[t].record, ok |-> FALSE]
      /\ UNCHANGED <<file, begun, finished, cuts, threads, counter, answer, db, rows, acks,
                     auditing, accepted, refused>>
  BY DEF Insert, jsonl
<1>2. threads[t].record \in AlarmRecord
  BY <1>1, ThreadShape DEF Basis, Shapes
<1>3. inserting' \in Inserts /\ inserting'.at = "write" /\ inserting'.thread = t
      /\ inserting'.record = threads[t].record
  BY <1>1, <1>2 DEF Inserts
<1>4. Quiet
  BY <1>1 DEF Quiet, Writing
<1>5. Shapes'
  BY <1>1, <1>3 DEF Basis, Shapes
<1>6. Locks'
  BY <1>1, <1>3, StoreConfig DEF Basis, Locks, Writing
<1> QED
  BY <1>4, <1>5, <1>6

\* Whatever follows the first insert, of a thread in append.
LEMMA AfterInsertBasis ==
    ASSUME Basis, NEW t \in Threads, NEW r \in AlarmRecord, NEW ok \in BOOLEAN,
           db, threads[t].at = "append", threads[t].record = r,
           inserting # NoInsert => inserting.thread = t,
           AfterInsert(t, r, ok) \/ Returns(t, r, ok), mutex' = Free,
           UNCHANGED <<file, begun, finished, cuts, counter, db, auditing>>,
           rows' \in Seq(AlarmRecord), acks' \subseteq AlarmRecord
    PROVE  Quiet /\ Shapes' /\ Locks'
<1>1. ~Writing(t)
  BY DEF Writing
<1>2. CASE Returns(t, r, ok)
  <2>1. /\ threads' = [threads EXCEPT ![t] = Idle] /\ inserting' = NoInsert
        /\ accepted' \subseteq accepted \cup {r} /\ refused' \subseteq refused \cup {r}
    BY <1>2 DEF Returns
  <2>2. Quiet /\ threads' \in [Threads -> ThreadState]
    BY <1>1, <2>1, QuietUpdate, IdleShape DEF Basis
  <2>3. Shapes'
    BY <2>1, <2>2 DEF Basis, Shapes
  <2>4. Locks'
    BY <2>1, <2>2 DEF Basis, Locks, Quiet, NoInsert
  <2> QED
    BY <2>2, <2>3, <2>4
<1>3. CASE /\ inserting' = [at |-> "copy", thread |-> t, record |-> r, ok |-> ok]
           /\ UNCHANGED <<threads, accepted, refused>>
  <2>1. inserting' \in Inserts /\ inserting'.at = "copy" /\ inserting'.thread = t
        /\ inserting'.record = r
    BY <1>3, Zenon DEF Inserts
  <2>2. Quiet
    BY <1>3 DEF Quiet, Writing
  <2>3. Shapes'
    BY <1>3, <2>1 DEF Basis, Shapes
  <2>4. Locks'
    BY <1>3, <2>1, <2>2 DEF Basis, Locks, Quiet
  <2> QED
    BY <2>2, <2>3, <2>4
<1> QED
  BY <1>2, <1>3 DEF AfterInsert

\* Failing, committing and copying an insert.
LEMMA InsertEndsBasis ==
    ASSUME Basis, \/ \E t \in Threads : InsertFails(t)
                  \/ \E ok \in BOOLEAN : Commit(ok) \/ Copy(ok)
    PROVE  Quiet /\ Shapes' /\ Locks'
<1>1. ASSUME NEW t \in Threads, InsertFails(t)
      PROVE  Quiet /\ Shapes' /\ Locks'
  <2>1. /\ db /\ threads[t].at = "append" /\ inserting = NoInsert /\ mutex = Free
        /\ AfterInsert(t, threads[t].record, FALSE)
        /\ UNCHANGED <<file, begun, finished, cuts, mutex, counter, db, rows, acks, auditing>>
    BY <1>1 DEF InsertFails, jsonl
  <2>2. threads[t].record \in AlarmRecord
    BY <2>1, ThreadShape DEF Basis, Shapes
  <2>3. rows' \in Seq(AlarmRecord) /\ acks' \subseteq AlarmRecord /\ mutex' = Free
    BY <2>1 DEF Basis, Shapes
  <2> QED
    BY <2>1, <2>2, <2>3, AfterInsertBasis
<1>2. ASSUME NEW ok \in BOOLEAN, Commit(ok)
      PROVE  Quiet /\ Shapes' /\ Locks'
  <2>1. /\ inserting.at = "write" /\ mutex' = Free
        /\ rows' = IF ok THEN Append(rows, inserting.record) ELSE rows
        /\ AfterInsert(inserting.thread, inserting.record, ok)
        /\ UNCHANGED <<file, begun, finished, cuts, counter, db, acks, auditing>>
    BY <1>2 DEF Commit, jsonl
  <2>2. inserting # NoInsert /\ inserting.thread \in Threads /\ inserting.record \in AlarmRecord
    BY <2>1, InsertShape DEF Basis, Shapes
  <2>3. db /\ threads[inserting.thread].at = "append"
        /\ threads[inserting.thread].record = inserting.record
    BY <2>2 DEF Basis, Locks, Shapes
  <2>4. rows' \in Seq(AlarmRecord) /\ acks' \subseteq AlarmRecord
    BY <2>1, <2>2, AppendProperties DEF Basis, Shapes
  <2> QED
    BY <2>1, <2>2, <2>3, <2>4, AfterInsertBasis
<1>3. ASSUME NEW ok \in BOOLEAN, Copy(ok)
      PROVE  Quiet /\ Shapes' /\ Locks'
  <2>1. /\ inserting.at = "copy" /\ mutex = Free
        /\ acks' = IF ok THEN acks \cup {inserting.record} ELSE acks
        /\ Returns(inserting.thread, inserting.record, inserting.ok)
        /\ UNCHANGED <<file, begun, finished, cuts, mutex, counter, db, rows, auditing>>
    BY <1>3 DEF Copy, jsonl, Result
  <2>2. inserting # NoInsert /\ inserting.thread \in Threads /\ inserting.record \in AlarmRecord
        /\ inserting.ok \in BOOLEAN
    BY <2>1, InsertShape DEF Basis, Shapes
  <2>3. db /\ threads[inserting.thread].at = "append"
        /\ threads[inserting.thread].record = inserting.record
    BY <2>2 DEF Basis, Locks, Shapes
  <2>4. rows' \in Seq(AlarmRecord) /\ acks' \subseteq AlarmRecord /\ mutex' = Free
    BY <2>1, <2>2 DEF Basis, Shapes
  <2> QED
    BY <2>1, <2>2, <2>3, <2>4, AfterInsertBasis
<1> QED
  BY <1>1, <1>2, <1>3

\* A query begins or ends, in the database or in the file.
Querying == \/ \E q \in Queries : \/ CountInvalidRows(q)
                                  \/ ~db /\ CountInvalid(q) /\ UNCHANGED sqlite
            \/ QueryRows
            \/ ~db /\ QueryJson /\ UNCHANGED sqlite

\* It moves the MCP thread, and nothing else.
LEMMA QueryMoves ==
    ASSUME Basis, Querying
    PROVE  /\ threads[Mcp].at \in {"idle", "query"}
           /\ UNCHANGED <<file, mutex, counter, begun, finished, cuts>> /\ UNCHANGED sqlite
           /\ \E c \in ThreadState : /\ threads' = [threads EXCEPT ![Mcp] = c]
                                     /\ c.at \in {"idle", "query"}
<1> DEFINE Moves(c) == threads' = [threads EXCEPT ![Mcp] = c] /\ c.at \in {"idle", "query"}
<1>0. /\ threads[Mcp].at \in {"idle", "query"}
      /\ UNCHANGED <<file, mutex, counter, begun, finished, cuts>> /\ UNCHANGED sqlite
  BY IdleShape DEF Querying, CountInvalidRows, CountInvalid, QueryRows, QueryJson, jsonl
<1>1. \E c \in ThreadState : Moves(c)
  <2>1. ASSUME NEW q \in Queries, NEW n \in Nat, NEW s \in SUBSET AlarmRecord,
               threads' = [threads EXCEPT ![Mcp] = [at |-> "query", query |-> q, invalid |-> n,
                                                    before |-> s]]
        PROVE  \E c \in ThreadState : Moves(c)
    <3>1. [at |-> "query", query |-> q, invalid |-> n, before |-> s] \in ThreadState
      BY DEF ThreadState
    <3>2. Moves([at |-> "query", query |-> q, invalid |-> n, before |-> s])
      BY <2>1
    <3> QED
      BY <3>1, <3>2
  <2>2. accepted \in SUBSET AlarmRecord /\ finished \in SUBSET AlarmRecord
    BY DEF Basis, Shapes
  <2>3. ASSUME NEW q \in Queries, CountInvalidRows(q) PROVE \E c \in ThreadState : Moves(c)
    <3>1. threads' = [threads EXCEPT ![Mcp] = [at |-> "query", query |-> q, invalid |-> 0,
                                               before |-> accepted]]
      BY <2>3 DEF CountInvalidRows
    <3>2. 0 \in Nat
      OBVIOUS
    <3> QED
      BY <2>1, <2>2, <3>1, <3>2
  <2>4. ASSUME NEW q \in Queries, CountInvalid(q) PROVE \E c \in ThreadState : Moves(c)
    <3>1. PICK n \in LinesRead :
             threads' = [threads EXCEPT ![Mcp] = [at |-> "query", query |-> q,
                                                  invalid |-> InvalidLines(n), before |-> finished]]
      BY <2>4 DEF CountInvalid
    <3>2. InvalidLines(n) \in Nat
      BY InvalidCountType DEF Basis
    <3> QED
      BY <2>1, <2>2, <3>1, <3>2
  <2>5. CASE QueryRows \/ QueryJson
    <3>1. Moves(Idle)
      BY <2>5, IdleShape DEF QueryRows, QueryJson
    <3> QED
      BY <3>1, IdleShape
  <2> QED
    BY <2>3, <2>4, <2>5 DEF Querying
<1> QED
  BY <1>0, <1>1

\* The basis, for queries.
LEMMA QueryBasis ==
    ASSUME Basis, Querying
    PROVE  Quiet /\ Shapes' /\ Locks'
<1>0. /\ threads[Mcp].at \in {"idle", "query"}
      /\ UNCHANGED <<file, mutex, counter, begun, finished, cuts>> /\ UNCHANGED sqlite
  BY QueryMoves
<1>1. PICK c \in ThreadState : threads' = [threads EXCEPT ![Mcp] = c] /\ c.at \in {"idle", "query"}
  BY QueryMoves
<1>2. ~Writing(Mcp) /\ Mcp \in Threads /\ threads[Mcp].at # "append"
  BY <1>0, StoreConfig DEF Writing
<1>3. Quiet /\ threads' \in [Threads -> ThreadState]
      /\ \A u \in Threads : u # Mcp => threads'[u] = threads[u]
  BY <1>0, <1>1, <1>2, QuietUpdate DEF Basis
<1>4. Shapes'
  BY <1>0, <1>3 DEF Basis, Shapes, sqlite
<1>5. inserting # NoInsert => inserting.thread # Mcp /\ inserting.thread \in Threads
  BY <1>2, InsertShape DEF Basis, Shapes, Locks
<1>6. Locks'
  BY <1>0, <1>3, <1>5 DEF Basis, Locks, Quiet, sqlite
<1> QED
  BY <1>3, <1>4, <1>6

\* The audit connection begins or ends, or nothing happens at all.
LEMMA AuditBasis ==
    ASSUME Basis, AuditBegins \/ AuditEnds \/ UNCHANGED storeVars
    PROVE  Quiet /\ Shapes' /\ Locks'
<1>1. /\ UNCHANGED <<file, mutex, threads, counter, begun, finished, cuts>>
      /\ UNCHANGED <<db, rows, acks, inserting, accepted, refused>>
      /\ auditing' \in BOOLEAN
  BY DEF AuditBegins, AuditEnds, storeVars, vars, sqlite, Basis, Shapes
<1> QED
  BY <1>1 DEF Basis, Shapes, Locks, Quiet, Writing

\* The file cannot be opened.
LEMMA OpenFailsBasis ==
    ASSUME Basis, NEW t \in Threads, OpenFails(t), UNCHANGED sqlite, ~db
    PROVE  Quiet /\ Shapes' /\ Locks'
<1>1. threads[t].at = "append" /\ threads' = [threads EXCEPT ![t] = Idle]
      /\ UNCHANGED <<file, mutex, counter, begun, finished, cuts>>
  BY DEF OpenFails
<1>2. ~Writing(t)
  BY <1>1 DEF Writing
<1>3. Quiet /\ threads' \in [Threads -> ThreadState]
  BY <1>1, <1>2, QuietUpdate, IdleShape DEF Basis
<1>4. Shapes'
  BY <1>1, <1>3 DEF Basis, Shapes, sqlite
<1>5. Locks'
  BY <1>1, <1>3 DEF Basis, Locks, Quiet, sqlite
<1> QED
  BY <1>3, <1>4, <1>5

\* A crash while the database is in use.
LEMMA RestartBasis ==
    ASSUME Basis, Restart
    PROVE  /\ Shapes' /\ Locks'
           /\ \A t \in Threads : threads'[t] = Idle
           /\ db => Quiet
           /\ UNCHANGED <<file, begun, finished, counter>>
           /\ rows' \in Seq(AlarmRecord)
<1>1. /\ threads' = [t \in Threads |-> Idle] /\ mutex' = Free /\ inserting' = NoInsert
      /\ auditing' = FALSE /\ db' \in BOOLEAN
      /\ UNCHANGED <<file, begun, finished, counter, accepted, refused>>
      /\ db => UNCHANGED cuts
  BY DEF Restart, Crash, jsonl
<1>2. cuts' \in Nat
  <2>1. CASE db
    BY <1>1, <2>1 DEF Basis, Shapes
  <2>2. CASE ~db
    BY <2>2 DEF Restart, Crash, Basis, Shapes
  <2> QED
    BY <2>1, <2>2
<1>3. rows' \in Seq(AlarmRecord) /\ acks' \subseteq AlarmRecord
  <2>1. inserting.at \in {"write", "copy"} => inserting.record \in AlarmRecord
    BY InsertShape DEF Basis, Shapes
  <2> QED
    BY <2>1, AppendProperties DEF Restart, Basis, Shapes
<1>4. \A t \in Threads : threads'[t] = Idle
  BY <1>1
<1>5. threads' \in [Threads -> ThreadState] /\ \A t \in Threads : ~Writing(t)'
  BY <1>1, IdleShape DEF Writing
<1>6. Shapes'
  BY <1>1, <1>2, <1>3, <1>5 DEF Basis, Shapes
<1>7. Locks'
  BY <1>1, <1>5, StoreConfig DEF Locks, NoInsert
<1>8. ASSUME db PROVE Quiet
  BY <1>1, <1>5, <1>8 DEF Basis, Locks, Quiet
<1> QED
  BY <1>1, <1>3, <1>4, <1>6, <1>7, <1>8

-----------------------------------------------------------------------------
(* Steps that write the file.                                              *)

\* The thread that writes the file holds the mutex, and no other thread writes.
LEMMA WriterAlone ==
    ASSUME Basis, NEW t \in Threads, Writing(t)
    PROVE  /\ ~db /\ mutex = t /\ inserting = NoInsert /\ Appending(t)
           /\ \A u \in Threads : u # t => ~Writing(u)
           /\ threads[t] \in ThreadState /\ threads[t].record \in AlarmRecord
<1>1. ~db /\ mutex = t /\ inserting = NoInsert /\ Appending(t)
  BY DEF Basis, Locks, Writing, Appending
<1>2. \A u \in Threads : u # t => ~Writing(u)
  BY <1>1 DEF Basis, Locks
<1>3. threads[t] \in ThreadState /\ threads[t].record \in AlarmRecord
  BY <1>1, ThreadShape DEF Basis, Shapes, Appending
<1> QED
  BY <1>1, <1>2, <1>3

\* A thread midway is writing.
LEMMA MidwayWrites == \A t \in Threads : Midway(t) => Writing(t)
BY DEF Midway, Writing

\* Opening the file.
LEMMA OpenBasis ==
    ASSUME Basis, NEW t \in Threads, Open(t), UNCHANGED sqlite, ~db
    PROVE  /\ Basis'
           /\ \A u \in Threads : ~Writing(u) /\ ~Midway(u)'
           /\ Writing(t)' /\ threads'[t].record = threads[t].record
           /\ threads[t].record \in AlarmRecord
<1>1. threads[t].at = "append" /\ mutex = Free /\ mutex' = t
      /\ begun' = begun \cup {threads[t].record} /\ Goto(t, "open")
      /\ UNCHANGED <<file, counter, finished, cuts, answer>>
  BY DEF Open, MayOpen
<1>2. \A u \in Threads : ~Writing(u)
  BY <1>1, StoreConfig DEF Basis, Locks
<1>3. threads' \in [Threads -> ThreadState] /\ threads'[t].at = "open"
      /\ threads'[t].record = threads[t].record
      /\ \A u \in Threads : u # t => threads'[u] = threads[u]
  BY <1>1, GotoStep DEF Basis, Appending
<1>4. threads[t].record \in AlarmRecord
  BY <1>1, ThreadShape DEF Basis, Shapes
<1>5. IsFiniteSet(begun')
  BY <1>1, FS_AddElement DEF Basis, Shapes
<1>6. Shapes'
  BY <1>1, <1>3, <1>4, <1>5 DEF Basis, Shapes, sqlite
<1>7. \A u \in Threads : Writing(u)' <=> u = t
  BY <1>2, <1>3 DEF Writing
<1>8. Locks'
  <2>1. ~db' /\ inserting' = NoInsert
    BY DEF Basis, Locks, sqlite
  <2> QED
    BY <1>1, <1>7, <2>1 DEF Locks
<1>9. \A u \in Threads : ~Midway(u)'
  BY <1>2, <1>3, MidwayWrites DEF Midway
<1> QED
  BY <1>2, <1>3, <1>4, <1>6, <1>7, <1>8, <1>9 DEF Basis, Ending

\* One thread goes on writing: if the file and its end are as they should be,
\* the rest of the invariant holds.
LEMMA WriteOnBasis ==
    ASSUME Basis, NEW t \in Threads, Writing(t), NEW a \in {"text", "newline"}, Goto(t, a),
           UNCHANGED sqlite, UNCHANGED <<mutex, counter, begun, finished, cuts, answer>>,
           file' \in Seq(Line),
           \A i \in 1 .. Len(file') : /\ Len(file'[i].parts) > 0
                                      /\ i < Len(file') => file'[i].ended,
           Dangling',
           LET qs == file'[Len(file')].parts
           IN  /\ qs[Len(qs)].record = threads[t].record
               /\ qs[Len(qs)].whole <=> a = "newline"
    PROVE  /\ Basis'
           /\ Midway(t)' /\ threads'[t].record = threads[t].record
           /\ \A u \in Threads : Writing(u)' <=> Writing(u)
<1>1. threads' \in [Threads -> ThreadState] /\ threads'[t].at = a
      /\ threads'[t].record = threads[t].record
      /\ \A u \in Threads : u # t => threads'[u] = threads[u]
  BY GotoStep, WriterAlone DEF Basis
<1>2. \A u \in Threads : Writing(u)' <=> Writing(u)
  BY <1>1 DEF Writing
<1>3. Shapes'
  BY <1>1 DEF Basis, Shapes, sqlite
<1>4. Locks'
  <2>1. ~db /\ inserting = NoInsert /\ mutex = t
    BY WriterAlone
  <2> QED
    BY <1>2, <2>1 DEF Basis, Locks, sqlite
<1>5. Midway(t)' /\ \A u \in Threads : u # t => ~Midway(u)'
  BY <1>1, <1>2, WriterAlone, MidwayWrites DEF Midway
<1>6. Ending'
  BY <1>1, <1>5 DEF Ending
<1> QED
  BY <1>1, <1>2, <1>3, <1>4, <1>5, <1>6 DEF Basis

\* Some of the text.
LEMMA WriteSomeBasis ==
    ASSUME Basis, NEW t \in Threads, WriteSome(t), UNCHANGED sqlite
    PROVE  /\ Basis' /\ Dangling'
           /\ Writing(t) /\ Midway(t)' /\ threads'[t].record = threads[t].record
           /\ \A u \in Threads : (Writing(u)' <=> Writing(u)) /\ ~Midway(u)
           /\ \E p \in Part : file' = AtEnd(p) /\ ~p.whole
<1> DEFINE p == [record |-> threads[t].record, whole |-> FALSE]
<1>1. /\ threads[t].at = "open" /\ Writing(t) /\ file' = AtEnd(p) /\ Goto(t, "text")
      /\ UNCHANGED <<mutex, counter, begun, finished, cuts, answer>>
  BY DEF WriteSome, Writing
<1>2. p \in Part /\ p.record = threads[t].record /\ ~p.whole
  BY <1>1, WriterAlone, Zenon DEF Part
<1>3. /\ file' \in Seq(Line) /\ Len(file') > 0
      /\ \A i \in 1 .. Len(file') : i < Len(file') => file'[i].ended
      /\ \A i \in 1 .. Len(file') : Len(file'[i].parts) > 0
      /\ ~file'[Len(file')].ended
      /\ LET ps == file'[Len(file')].parts IN ps[Len(ps)] = p
  <2> HIDE DEF p
  <2> QED BY <1>1, <1>2, AtEndStep DEF Basis
<1>4. file' # <<>>
  BY <1>3, EmptySeq
<1>5. Dangling'
  BY <1>3, <1>4 DEF Dangling
<1>6. LET qs == file'[Len(file')].parts
      IN  /\ qs[Len(qs)].record = threads[t].record
          /\ qs[Len(qs)].whole <=> "text" = "newline"
  BY <1>2, <1>3
<1>7. \A u \in Threads : ~Midway(u)
  BY <1>1, WriterAlone, MidwayWrites DEF Midway
<1>8. /\ Basis' /\ Midway(t)' /\ threads'[t].record = threads[t].record
      /\ \A u \in Threads : Writing(u)' <=> Writing(u)
  BY <1>1, <1>3, <1>5, <1>6, WriteOnBasis
<1> HIDE DEF p
<1> QED
  BY <1>1, <1>2, <1>5, <1>7, <1>8

\* The rest of the text.
LEMMA WriteRestBasis ==
    ASSUME Basis, NEW t \in Threads, WriteRest(t), UNCHANGED sqlite
    PROVE  /\ Basis' /\ Dangling /\ Dangling'
           /\ Midway(t) /\ Midway(t)' /\ threads'[t].record = threads[t].record
           /\ \A u \in Threads : Writing(u)' <=> Writing(u)
           /\ UNCHANGED <<begun, finished, cuts>>
           /\ Len(file') = Len(file)
           /\ \A i \in 1 .. Len(file) : i # Len(file) => file'[i] = file[i]
           /\ Len(file'[Len(file)].parts) = Len(file[Len(file)].parts)
<1>1. /\ threads[t].at = "text" /\ Writing(t) /\ Midway(t) /\ Goto(t, "newline")
      /\ file' = [file EXCEPT ![Len(file)].parts[Len(Last(file).parts)].whole = TRUE]
      /\ UNCHANGED <<mutex, counter, begun, finished, cuts, answer>>
  BY DEF WriteRest, Writing, Midway
<1>2. Dangling
  BY <1>1 DEF Basis, Ending
<1>3. LET ps == file[Len(file)].parts IN ps[Len(ps)].record = threads[t].record
  BY <1>1 DEF Basis, Ending
<1>4. /\ file' \in Seq(Line) /\ Len(file') = Len(file)
      /\ \A i \in 1 .. Len(file') : /\ Len(file'[i].parts) > 0
                                    /\ i < Len(file') => file'[i].ended
      /\ \A i \in 1 .. Len(file) : i # Len(file) => file'[i] = file[i]
      /\ ~file'[Len(file)].ended
      /\ LET ps == file[Len(file)].parts
             qs == file'[Len(file)].parts
         IN  /\ Len(qs) = Len(ps) /\ qs[Len(qs)].record = ps[Len(ps)].record /\ qs[Len(qs)].whole
  BY <1>1, <1>2, RestStep DEF Basis
<1>5. file' # <<>>
  BY <1>2, <1>4, EmptySeq DEF Dangling, Basis, Shapes
<1>6. Dangling'
  BY <1>4, <1>5 DEF Dangling
<1>7. LET qs == file'[Len(file')].parts
      IN  /\ qs[Len(qs)].record = threads[t].record
          /\ qs[Len(qs)].whole <=> "newline" = "newline"
  BY <1>3, <1>4
<1>8. /\ Basis' /\ Midway(t)' /\ threads'[t].record = threads[t].record
      /\ \A u \in Threads : Writing(u)' <=> Writing(u)
  BY <1>1, <1>4, <1>6, <1>7, WriteOnBasis
<1> QED
  BY <1>1, <1>2, <1>4, <1>6, <1>8

\* Thread t stops writing and nothing is left to say about the end of the file.
LEMMA WriterStops ==
    ASSUME Basis, NEW t \in Threads, Writing(t), threads' = [threads EXCEPT ![t] = Idle],
           mutex' = Free, UNCHANGED sqlite, UNCHANGED <<counter, begun>>,
           cuts' \in Nat, finished' \subseteq AlarmRecord, file' \in Seq(Line),
           \A i \in 1 .. Len(file') : /\ Len(file'[i].parts) > 0
                                      /\ i < Len(file') => file'[i].ended
    PROVE  Basis' /\ \A u \in Threads : ~Writing(u)' /\ ~Midway(u)'
<1>1. threads' \in [Threads -> ThreadState] /\ threads'[t] = Idle
      /\ \A u \in Threads : u # t => threads'[u] = threads[u]
  BY ThreadUpdate, IdleShape DEF Basis
<1>2. \A u \in Threads : ~Writing(u)'
  BY <1>1, WriterAlone, IdleShape DEF Writing
<1>3. \A u \in Threads : ~Midway(u)'
  BY <1>2 DEF Midway, Writing
<1>4. Shapes'
  BY <1>1 DEF Basis, Shapes, sqlite
<1>5. Locks'
  <2>1. ~db' /\ inserting' = NoInsert
    BY WriterAlone DEF sqlite
  <2> QED
    BY <1>2, <2>1, StoreConfig DEF Locks
<1> QED
  BY <1>2, <1>3, <1>4, <1>5 DEF Basis, Ending

\* The newline.
LEMMA WriteNewlineBasis ==
    ASSUME Basis, NEW t \in Threads, WriteNewline(t), UNCHANGED sqlite
    PROVE  /\ Basis' /\ Writing(t) /\ Midway(t) /\ Dangling /\ ~Dangling'
           /\ \A u \in Threads : ~Writing(u)' /\ ~Midway(u)'
           /\ finished' = finished \cup {threads[t].record} /\ UNCHANGED <<begun, cuts>>
           /\ LET n == Len(file)
                  ps == file[n].parts
              IN  /\ Len(file') = n /\ n \in 1 .. n
                  /\ \A i \in 1 .. n : i # n => file'[i] = file[i]
                  /\ file'[n].parts = ps
                  /\ ps[Len(ps)].record = threads[t].record /\ ps[Len(ps)].whole
<1>1. /\ threads[t].at = "newline" /\ Writing(t) /\ Midway(t)
      /\ file' = [file EXCEPT ![Len(file)].ended = TRUE] /\ mutex' = Free
      /\ finished' = finished \cup {threads[t].record} /\ threads' = [threads EXCEPT ![t] = Idle]
      /\ UNCHANGED <<counter, begun, cuts>>
  BY DEF WriteNewline, Writing, Midway
<1>2. Dangling
  BY <1>1 DEF Basis, Ending
<1>3. LET ps == file[Len(file)].parts
      IN  ps[Len(ps)].record = threads[t].record /\ ps[Len(ps)].whole
  BY <1>1 DEF Basis, Ending
<1>4. LET n == Len(file)
      IN  /\ file' \in Seq(Line) /\ Len(file') = n /\ n \in 1 .. n
          /\ \A i \in 1 .. Len(file') : /\ Len(file'[i].parts) > 0
                                        /\ i < Len(file') => file'[i].ended
          /\ \A i \in 1 .. n : i # n => file'[i] = file[i]
          /\ file'[n].ended
          /\ file'[n].parts = file[n].parts
  BY <1>1, <1>2, NewlineStep DEF Basis
<1>5. ~Dangling'
  BY <1>4 DEF Dangling
<1>6. cuts' \in Nat /\ finished' \subseteq AlarmRecord
  BY <1>1, WriterAlone DEF Basis, Shapes
<1>7. Basis' /\ \A u \in Threads : ~Writing(u)' /\ ~Midway(u)'
  BY <1>1, <1>4, <1>6, WriterStops
<1> QED
  BY <1>1, <1>2, <1>3, <1>4, <1>5, <1>7

\* The rest is not written.
LEMMA WriteFailsBasis ==
    ASSUME Basis, NEW t \in Threads, WriteFails(t), UNCHANGED sqlite
    PROVE  /\ Basis' /\ Writing(t)
           /\ \A u \in Threads : ~Writing(u)' /\ ~Midway(u)'
           /\ cuts' = cuts + 1 /\ UNCHANGED <<file, begun, finished>>
<1>1. /\ Writing(t) /\ cuts' = cuts + 1 /\ mutex' = Free
      /\ threads' = [threads EXCEPT ![t] = Idle] /\ UNCHANGED <<file, counter, begun, finished>>
  BY DEF WriteFails
<1>2. /\ cuts' \in Nat /\ finished' \subseteq AlarmRecord /\ file' \in Seq(Line)
      /\ \A i \in 1 .. Len(file') : /\ Len(file'[i].parts) > 0
                                    /\ i < Len(file') => file'[i].ended
  BY <1>1 DEF Basis, Shapes
<1>3. Basis' /\ \A u \in Threads : ~Writing(u)' /\ ~Midway(u)'
  BY <1>1, <1>2, WriterStops
<1> QED
  BY <1>1, <1>3

\* The steps that do not write the file, and the restart of a process that
\* could not open the database.
QuietAction == \/ \E t \in Threads : \/ \E d \in Devices, time \in Times : MakeRecord(t, d, time)
                                     \/ Insert(t) \/ InsertFails(t)
                                     \/ ~db /\ OpenFails(t) /\ UNCHANGED sqlite
               \/ \E ok \in BOOLEAN : Commit(ok) \/ Copy(ok)
               \/ Querying
               \/ AuditBegins \/ AuditEnds \/ UNCHANGED storeVars
               \/ db /\ Restart

\* Quiet steps keep what Basis says.
LEMMA QuietBasis ==
    ASSUME Basis, QuietAction
    PROVE  Quiet /\ Basis'
<1>1. Quiet /\ Shapes' /\ Locks'
  BY MakeRecordBasis, InsertBasis, InsertEndsBasis, QueryBasis, AuditBasis, OpenFailsBasis,
     RestartBasis DEF QuietAction
<1>2. Ending'
  <2>1. ASSUME NEW t \in Threads, Midway(t)'
        PROVE  Midway(t) /\ threads'[t] = threads[t]
    BY <1>1, <2>1 DEF Quiet, Writing, Midway
  <2> QED
    BY <1>1, <2>1 DEF Quiet, Basis, Ending, Dangling
<1> QED
  BY <1>1, <1>2 DEF Basis

\* Every step is a quiet one, one that writes the file, or a restart.
LEMMA Steps ==
    ASSUME [StoreNext]_storeVars
    PROVE  \/ QuietAction
           \/ /\ ~db /\ UNCHANGED sqlite
              /\ \E t \in Threads : \/ Open(t) \/ WriteSome(t) \/ WriteRest(t) \/ WriteNewline(t)
                                    \/ WriteFails(t)
           \/ ~db /\ Restart
BY DEF StoreNext, Fallback, QuietAction, Querying

\* The basis is an invariant.
LEMMA BasisStep ==
    ASSUME Basis, [StoreNext]_storeVars
    PROVE  Basis'
<1>1. CASE QuietAction
  BY <1>1, QuietBasis
<1>2. CASE Restart
  <2>1. Shapes' /\ Locks' /\ \A t \in Threads : threads'[t] = Idle
    BY <1>2, RestartBasis
  <2>2. Ending'
    BY <2>1, IdleShape DEF Ending, Midway
  <2> QED
    BY <2>1, <2>2 DEF Basis
<1> QED
  BY <1>1, <1>2, Steps, OpenBasis, WriteSomeBasis, WriteRestBasis, WriteNewlineBasis,
     WriteFailsBasis

\* It holds at first.
LEMMA BasisInit == StoreInit => Basis
<1> SUFFICES ASSUME StoreInit PROVE Basis
  OBVIOUS
<1>1. threads \in [Threads -> ThreadState] /\ \A t \in Threads : ~Writing(t) /\ ~Midway(t)
  BY IdleShape DEF StoreInit, Init, Writing, Midway
<1>2. Shapes
  <2>1. file = <<>> /\ Len(file) = 0 /\ file \in Seq(Line)
    BY EmptySeq DEF StoreInit, Init
  <2>2. rows \in Seq(AlarmRecord)
    BY EmptySeq DEF StoreInit
  <2>3. \A i \in 1 .. Len(file) : /\ Len(file[i].parts) > 0
                                  /\ i < Len(file) => file[i].ended
    BY <2>1
  <2>4. IsFiniteSet(begun)
    BY FS_EmptySet DEF StoreInit, Init
  <2>5. mutex \in Threads \cup {Free} /\ counter \in 0 .. MaxRecords /\ cuts \in Nat
    BY StoreConfig DEF StoreInit, Init
  <2>6. /\ begun \subseteq AlarmRecord /\ finished \subseteq AlarmRecord /\ acks \subseteq AlarmRecord
        /\ accepted \subseteq AlarmRecord /\ refused \subseteq AlarmRecord
    BY DEF StoreInit, Init
  <2>7. db \in BOOLEAN /\ auditing \in BOOLEAN /\ inserting \in Inserts \cup {NoInsert}
    BY DEF StoreInit
  <2> QED
    BY <1>1, <2>1, <2>2, <2>3, <2>4, <2>5, <2>6, <2>7 DEF Shapes
<1>3. Locks
  BY <1>1, StoreConfig DEF StoreInit, Init, Locks, NoInsert
<1> QED
  BY <1>1, <1>2, <1>3 DEF Basis, Ending

-----------------------------------------------------------------------------
(* What append's result is worth.                                          *)

\* The table after an insert.
LEMMA RowsAppend ==
    ASSUME Shapes, NEW r \in AlarmRecord, rows' = Append(rows, r)
    PROVE  InTable' = InTable \cup {r}
<1>1. /\ rows \in Seq(AlarmRecord) /\ Len(rows) \in Nat
      /\ DOMAIN rows = 1 .. Len(rows) /\ DOMAIN rows' = 1 .. (Len(rows) + 1)
      /\ \A i \in 1 .. Len(rows) : rows'[i] = rows[i]
      /\ rows'[Len(rows) + 1] = r
  BY AppendProperties, LenProperties DEF Shapes
<1>2. InTable = {rows[i] : i \in 1 .. Len(rows)}
      /\ InTable' = {rows'[i] : i \in 1 .. (Len(rows) + 1)}
  BY <1>1 DEF InTable, ToSet
<1>3. InTable \cup {r} \subseteq InTable'
  <2>1. InTable \subseteq InTable'
    BY <1>1, <1>2
  <2>2. r \in InTable'
    BY <1>1, <1>2
  <2> QED
    BY <2>1, <2>2
<1>4. InTable' \subseteq InTable \cup {r}
  BY <1>1, <1>2
<1> QED
  BY <1>3, <1>4

\* No thread comes into append or back to its beginning.
NoneBegins == \A t \in Threads :
    Appending(t)' => /\ Appending(t) /\ threads'[t].record = threads[t].record
                     /\ threads'[t].at = "append" => threads[t].at = "append"

\* Steps that leave the tables and the results alone.
LEMMA LedgerFrame ==
    ASSUME Ledger, NoneBegins, UNCHANGED <<rows, acks, accepted, refused, counter>>,
           unanswered \subseteq unanswered',
           inserting' = inserting \/ (inserting = NoInsert /\ inserting'.at = "write")
    PROVE  Ids' /\ Truth'
<1>1. InTable' = InTable
  BY DEF InTable
<1>2. Ids'
  BY <1>1 DEF Ledger, Ids, NoneBegins
<1>3. AppendTruthful'
  BY <1>1 DEF Ledger, Truth, AppendTruthful
<1>4. \A t \in Threads : Tried(t) => Tried(t)'
  BY DEF Tried, NoInsert
<1>5. \A t \in Threads : threads'[t].at = "append" /\ ~Tried(t)'
                         => threads'[t].record \notin InTable' \cup refused'
  BY <1>1, <1>4 DEF Ledger, Truth, NoneBegins, Appending
<1>6. inserting'.at = "copy" => (inserting'.ok <=> inserting'.record \in InTable')
  BY <1>1 DEF Ledger, Truth
<1> QED
  BY <1>2, <1>3, <1>5, <1>6 DEF Truth

\* The first insert of thread t is over, with result ok.
LEMMA LedgerInsert ==
    ASSUME Ledger, NEW t \in Threads, NEW ok \in BOOLEAN, NEW r, r = threads[t].record,
           threads[t].at = "append", inserting = NoInsert \/ inserting.at = "write",
           inserting # NoInsert => inserting.thread = t,
           AfterInsert(t, r, ok), InTable' = IF ok THEN InTable \cup {r} ELSE InTable,
           UNCHANGED <<acks, counter, unanswered>>
    PROVE  Ids' /\ Truth'
<1>1. r \notin InTable \cup refused /\ r.id <= counter
  <2>1. ~Tried(t)
    BY DEF Tried, NoInsert
  <2> QED
    BY <2>1 DEF Ledger, Truth, Ids, Appending
<1>2. \A u \in Threads : u # t => ~Tried(u) /\ ~Tried(u)'
  BY DEF Tried, AfterInsert, Returns, NoInsert
<1>3. \A u \in Threads : u # t /\ Appending(u) => threads[u].record # r
  BY DEF Ledger, Ids, Appending
<1>4. refused' \subseteq refused \cup {r} /\ refused \subseteq refused'
      /\ (ok => refused' = refused) /\ accepted' \subseteq accepted \cup {r}
      /\ (~ok => accepted' = accepted)
  BY DEF AfterInsert, Returns
<1>5. \A u \in Threads : u # t => threads'[u] = threads[u]
  BY ThreadUpdate, IdleShape DEF AfterInsert, Returns, Ledger, Basis
<1>6. threads'[t] = Idle \/ (threads'[t] = threads[t] /\ Tried(t)')
  BY ThreadUpdate, IdleShape DEF AfterInsert, Returns, Ledger, Basis, Tried
<1>7. Ids'
  <2>1. \A u \in Threads : Appending(u)' => Appending(u) /\ threads'[u].record = threads[u].record
    BY <1>5, <1>6, IdleShape DEF Appending
  <2>2. \A s \in InTable' \cup refused' : s.id <= counter
    BY <1>1, <1>4 DEF Ledger, Ids
  <2> QED
    BY <2>1, <2>2 DEF Ledger, Ids
<1>8. AppendTruthful'
  <2>1. accepted' \subseteq InTable'
    BY <1>4 DEF Ledger, Truth, AppendTruthful
  <2>2. refused' \cap InTable' = {}
    <3>1. CASE ok
      BY <1>1, <1>4, <3>1 DEF Ledger, Truth, AppendTruthful
    <3>2. CASE ~ok
      BY <1>1, <1>4, <3>2 DEF Ledger, Truth, AppendTruthful
    <3> QED
      BY <3>1, <3>2
  <2>3. acks' \subseteq InTable' \cup refused' \cup unanswered'
    BY <1>4 DEF Ledger, Truth, AppendTruthful
  <2> QED
    BY <2>1, <2>2, <2>3 DEF AppendTruthful
<1>9. ASSUME NEW u \in Threads, threads'[u].at = "append", ~Tried(u)'
      PROVE  threads'[u].record \notin InTable' \cup refused'
  <2>1. u # t
    BY <1>6, <1>9, IdleShape
  <2>2. Appending(u) /\ threads'[u] = threads[u] /\ ~Tried(u) /\ threads[u].at = "append"
    BY <1>2, <1>5, <1>9, <2>1 DEF Appending
  <2>3. threads[u].record \notin InTable \cup refused
    BY <2>2 DEF Ledger, Truth
  <2> QED
    BY <1>3, <1>4, <2>1, <2>2, <2>3
<1>10. inserting'.at = "copy" => (inserting'.ok <=> inserting'.record \in InTable')
  BY <1>1 DEF AfterInsert, Returns, NoInsert
<1> QED
  BY <1>7, <1>8, <1>9, <1>10 DEF Truth

\* A new record has a new number.
LEMMA LedgerMake ==
    ASSUME Ledger, NEW t \in Threads, NEW d \in Devices, NEW time \in Times, MakeRecord(t, d, time)
    PROVE  Ids' /\ Truth'
<1> DEFINE r == [id |-> counter + 1, device_id |-> d, timestamp |-> time]
           c == [at |-> "append", record |-> r]
<1>1. /\ threads[t] = Idle /\ counter < MaxRecords /\ counter' = counter + 1
      /\ UNCHANGED <<rows, acks, inserting, accepted, refused, unanswered>>
      /\ threads' = [threads EXCEPT ![t] = c]
  BY DEF MakeRecord, AppendAlarm, sqlite
<1>2. r \in AlarmRecord /\ r.id = counter + 1 /\ counter \in Nat
  BY <1>1, StoreConfig DEF Ledger, Basis, Shapes, AlarmRecord
<1>3. c \in ThreadState /\ c.at = "append" /\ c.record = r
  BY <1>2 DEF ThreadState
<1>4. threads'[t] = c /\ \A u \in Threads : u # t => threads'[u] = threads[u]
  <2> HIDE DEF c
  <2> QED BY <1>1, <1>3, ThreadUpdate DEF Ledger, Basis
<1>5. InTable' = InTable /\ InTable \subseteq AlarmRecord /\ refused \subseteq AlarmRecord
  BY <1>1, LenProperties DEF InTable, ToSet, Ledger, Basis, Shapes
<1>6. \A s \in AlarmRecord : s.id \in Nat
  BY DEF AlarmRecord
<1>7. \A u \in Threads : Appending(u) => threads[u].record.id \in Nat
  BY <1>6, ThreadShape DEF Ledger, Basis, Shapes, Appending
<1> HIDE DEF r, c
<1>8. \A u \in Threads : u # t => (Appending(u)' <=> Appending(u))
  BY <1>4 DEF Appending
<1>9. Ids'
  <2>1. \A s \in InTable' \cup refused' : s.id <= counter'
    BY <1>1, <1>2, <1>5, <1>6 DEF Ledger, Ids
  <2>2. \A u \in Threads : u # t /\ Appending(u)' => /\ threads'[u].record.id <= counter'
                                                     /\ threads'[u].record.id # counter + 1
    BY <1>1, <1>2, <1>4, <1>7, <1>8 DEF Ledger, Ids
  <2>3. threads'[t].record.id = counter + 1 /\ counter + 1 <= counter'
    BY <1>1, <1>2, <1>3, <1>4
  <2>4. \A u, v \in Threads : u # v /\ u # t /\ v # t /\ Appending(u)' /\ Appending(v)'
                              => threads'[u].record.id # threads'[v].record.id
    BY <1>4, <1>8 DEF Ledger, Ids
  <2> QED
    BY <2>1, <2>2, <2>3, <2>4 DEF Ids
<1>10. AppendTruthful'
  BY <1>1, <1>5 DEF Ledger, Truth, AppendTruthful
<1>11. ASSUME NEW u \in Threads, threads'[u].at = "append", ~Tried(u)'
       PROVE  threads'[u].record \notin InTable' \cup refused'
  <2>1. CASE u = t
    <3>1. \A s \in InTable \cup refused : s.id # counter + 1
      BY <1>2, <1>5, <1>6 DEF Ledger, Ids
    <3> QED
      BY <1>1, <1>2, <1>3, <1>4, <1>5, <2>1, <3>1
  <2>2. CASE u # t
    BY <1>1, <1>4, <1>5, <1>11, <2>2 DEF Ledger, Truth, Tried
  <2> QED
    BY <2>1, <2>2
<1>12. inserting'.at = "copy" => (inserting'.ok <=> inserting'.record \in InTable')
  BY <1>1, <1>5 DEF Ledger, Truth
<1> QED
  BY <1>9, <1>10, <1>11, <1>12 DEF Truth

\* The copy does not change what append returns.
LEMMA LedgerCopy ==
    ASSUME Ledger, NEW ok \in BOOLEAN, Copy(ok)
    PROVE  Ids' /\ Truth'
<1>1. PICK r, t : r = inserting.record /\ t = inserting.thread
  OBVIOUS
<1>2. /\ inserting.at = "copy"
      /\ acks' \subseteq acks \cup {r}
      /\ Returns(t, r, inserting.ok)
      /\ UNCHANGED <<counter, rows, unanswered>>
  BY <1>1 DEF Copy, Result
<1>3. inserting # NoInsert /\ t \in Threads /\ inserting.ok \in BOOLEAN
  BY <1>1, <1>2, InsertShape DEF Ledger, Basis, Shapes
<1>4. threads[t].at = "append" /\ threads[t].record = r
  BY <1>1, <1>3 DEF Ledger, Basis, Locks
<1>5. inserting.ok <=> r \in InTable
  BY <1>1, <1>2 DEF Ledger, Truth
<1>6. threads'[t] = Idle /\ \A u \in Threads : u # t => threads'[u] = threads[u]
  BY <1>2, <1>3, ThreadUpdate, IdleShape DEF Returns, Ledger, Basis
<1>7. /\ inserting' = NoInsert /\ InTable' = InTable
      /\ inserting.ok => accepted' = accepted \cup {r} /\ refused' = refused
      /\ ~inserting.ok => accepted' = accepted /\ refused' = refused \cup {r}
  BY <1>2 DEF Returns, InTable
<1>8. \A u \in Threads : Appending(u)' => u # t /\ Appending(u) /\ threads'[u] = threads[u]
  BY <1>6, IdleShape DEF Appending
<1>9. Ids'
  <2>1. r.id <= counter
    BY <1>3, <1>4 DEF Ledger, Ids, Appending
  <2> QED
    BY <1>2, <1>7, <1>8, <2>1 DEF Ledger, Ids
<1>10. AppendTruthful'
  <2>1. CASE inserting.ok
    BY <1>2, <1>5, <1>7, <2>1 DEF Ledger, Truth, AppendTruthful
  <2>2. CASE ~inserting.ok
    BY <1>2, <1>5, <1>7, <2>2 DEF Ledger, Truth, AppendTruthful
  <2> QED
    BY <2>1, <2>2
<1>11. ASSUME NEW u \in Threads, threads'[u].at = "append"
       PROVE  threads'[u].record \notin InTable' \cup refused'
  <2>1. u # t /\ Appending(u) /\ threads'[u] = threads[u]
    BY <1>8, <1>11 DEF Appending
  <2>2. ~Tried(u)
    BY <1>1, <2>1 DEF Tried
  <2>3. threads[u].record \notin InTable \cup refused /\ threads[u].record # r
    BY <1>3, <1>4, <1>11, <2>1, <2>2 DEF Ledger, Truth, Ids, Appending
  <2> QED
    BY <1>7, <2>1, <2>3
<1> QED
  BY <1>7, <1>9, <1>10, <1>11 DEF Truth, NoInsert

\* A crash commits what was on its way, or does not, and nobody is told.
LEMMA LedgerRestart ==
    ASSUME Ledger, Restart
    PROVE  Ids' /\ Truth'
<1>1. /\ inserting' = NoInsert /\ UNCHANGED <<accepted, refused>> /\ counter' = counter
      /\ unanswered' = unanswered \cup {threads[t].record : t \in {u \in Threads : threads[u].at = "append"}}
  BY DEF Restart, Crash
<1>2. \A t \in Threads : threads'[t] = Idle
  BY RestartBasis DEF Ledger
<1>3. PICK r : r = inserting.record
  OBVIOUS
<1>4. ASSUME inserting # NoInsert
      PROVE  /\ r \in AlarmRecord /\ r \in unanswered' /\ r.id <= counter
             /\ inserting.at = "write" => r \notin refused
  <2>1. inserting.thread \in Threads /\ r \in AlarmRecord
    BY <1>3, <1>4, InsertShape DEF Ledger, Basis, Shapes
  <2>2. threads[inserting.thread].at = "append" /\ threads[inserting.thread].record = r
    BY <1>3, <1>4 DEF Ledger, Basis, Locks
  <2>3. r.id <= counter
    BY <2>1, <2>2 DEF Ledger, Ids, Appending
  <2>4. inserting.at = "write" => r \notin refused
    BY <2>1, <2>2 DEF Ledger, Truth, Tried
  <2> QED
    BY <1>1, <2>1, <2>2, <2>3, <2>4
<1>5. \/ rows' = rows /\ acks' = acks
      \/ inserting.at = "write" /\ rows' = Append(rows, r) /\ acks' = acks
      \/ inserting.at = "copy" /\ rows' = rows /\ acks' = acks \cup {r}
  BY <1>3 DEF Restart
<1>6. \/ InTable' = InTable /\ acks' = acks
      \/ inserting # NoInsert /\ inserting.at = "write" /\ InTable' = InTable \cup {r} /\ acks' = acks
      \/ inserting # NoInsert /\ InTable' = InTable /\ acks' = acks \cup {r}
  <2>1. inserting.at \in {"write", "copy"} => inserting # NoInsert
    BY DEF NoInsert
  <2> QED
    BY <1>4, <1>5, <2>1, RowsAppend DEF InTable, Ledger, Basis
<1>7. Ids'
  BY <1>1, <1>2, <1>4, <1>6, IdleShape DEF Ledger, Ids, Appending
<1>8. AppendTruthful'
  BY <1>1, <1>4, <1>6 DEF Ledger, Truth, AppendTruthful
<1> QED
  BY <1>1, <1>2, <1>7, <1>8, IdleShape DEF Truth, NoInsert

\* The other steps leave the tables alone, and no append begins with them.
LEMMA LedgerOthers ==
    ASSUME Ledger,
           \/ \E t \in Threads : Insert(t) \/ (OpenFails(t) /\ UNCHANGED sqlite)
           \/ Querying
           \/ AuditBegins \/ AuditEnds \/ UNCHANGED storeVars
           \/ /\ UNCHANGED sqlite
              /\ \E t \in Threads : \/ Open(t) \/ WriteSome(t) \/ WriteRest(t) \/ WriteNewline(t)
                                    \/ WriteFails(t)
    PROVE  Ids' /\ Truth'
<1> DEFINE Same == /\ UNCHANGED <<rows, acks, accepted, refused, counter, unanswered>>
                   /\ inserting' = inserting \/ (inserting = NoInsert /\ inserting'.at = "write")
<1>1. ASSUME NEW t \in Threads, Insert(t)
      PROVE  NoneBegins /\ Same
  BY <1>1 DEF Insert, NoneBegins, Appending
<1>2. ASSUME NEW t \in Threads, UNCHANGED sqlite, OpenFails(t) \/ WriteNewline(t) \/ WriteFails(t)
      PROVE  NoneBegins /\ Same
  <2>1. threads' = [threads EXCEPT ![t] = Idle] /\ UNCHANGED counter
    BY <1>2 DEF OpenFails, WriteNewline, WriteFails
  <2>2. threads'[t] = Idle /\ \A u \in Threads : u # t => threads'[u] = threads[u]
    BY <2>1, ThreadUpdate, IdleShape DEF Ledger, Basis
  <2>3. NoneBegins
    BY <2>2, IdleShape DEF NoneBegins, Appending
  <2> QED
    BY <1>2, <2>1, <2>3 DEF sqlite
<1>3. ASSUME NEW t \in Threads, UNCHANGED sqlite, Open(t) \/ WriteSome(t) \/ WriteRest(t)
      PROVE  NoneBegins /\ Same
  <2>1. PICK a \in {"open", "text", "newline"} : Goto(t, a)
    BY <1>3 DEF Open, WriteSome, WriteRest
  <2>2. Appending(t) /\ UNCHANGED counter
    BY <1>3 DEF Open, WriteSome, WriteRest, Appending
  <2>3. threads'[t].at = a /\ threads'[t].record = threads[t].record
        /\ \A u \in Threads : u # t => threads'[u] = threads[u]
    BY <2>1, <2>2, GotoStep DEF Ledger, Basis
  <2>4. NoneBegins
    BY <2>2, <2>3 DEF NoneBegins, Appending
  <2> QED
    BY <1>3, <2>2, <2>4 DEF sqlite
<1>4. CASE Querying
  <2>1. PICK c \in ThreadState : threads' = [threads EXCEPT ![Mcp] = c] /\ c.at \in {"idle", "query"}
    BY <1>4, QueryMoves DEF Ledger
  <2>2. threads'[Mcp] = c /\ \A u \in Threads : u # Mcp => threads'[u] = threads[u]
    BY <2>1, ThreadUpdate, StoreConfig DEF Ledger, Basis
  <2>3. NoneBegins
    BY <2>1, <2>2 DEF NoneBegins, Appending
  <2>4. Same
    BY <1>4, QueryMoves DEF Ledger, sqlite
  <2> QED
    BY <2>3, <2>4, LedgerFrame
<1>5. CASE AuditBegins \/ AuditEnds \/ UNCHANGED storeVars
  <2>1. Same /\ UNCHANGED threads
    BY <1>5 DEF AuditBegins, AuditEnds, storeVars, vars, sqlite
  <2>2. NoneBegins
    BY <2>1 DEF NoneBegins, Appending
  <2> QED
    BY <2>1, <2>2, LedgerFrame
<1> QED
  BY <1>1, <1>2, <1>3, <1>4, <1>5, LedgerFrame

\* What append's result is worth is an invariant.
LEMMA LedgerStep ==
    ASSUME Ledger, [StoreNext]_storeVars
    PROVE  Ledger'
<1>1. Basis'
  BY BasisStep DEF Ledger
<1>2. ASSUME NEW t \in Threads, InsertFails(t)
      PROVE  Ids' /\ Truth'
  <2>1. /\ threads[t].at = "append" /\ inserting = NoInsert
        /\ AfterInsert(t, threads[t].record, FALSE)
        /\ UNCHANGED <<rows, acks, counter, unanswered>>
    BY <1>2 DEF InsertFails
  <2>2. InTable' = InTable
    BY <2>1 DEF InTable
  <2> QED
    BY <2>1, <2>2, LedgerInsert
<1>3. ASSUME NEW ok \in BOOLEAN, Commit(ok)
      PROVE  Ids' /\ Truth'
  <2>1. PICK r, t : r = inserting.record /\ t = inserting.thread
    OBVIOUS
  <2>2. /\ inserting.at = "write" /\ AfterInsert(t, r, ok)
        /\ rows' = IF ok THEN Append(rows, r) ELSE rows
        /\ UNCHANGED <<acks, counter, unanswered>>
    BY <1>3, <2>1 DEF Commit
  <2>3. inserting # NoInsert /\ t \in Threads /\ r \in AlarmRecord
    BY <2>1, <2>2, InsertShape DEF Ledger, Basis, Shapes
  <2>4. threads[t].at = "append" /\ threads[t].record = r
    BY <2>1, <2>3 DEF Ledger, Basis, Locks
  <2>5. InTable' = IF ok THEN InTable \cup {r} ELSE InTable
    <3>1. CASE ok
      BY <2>2, <2>3, <3>1, RowsAppend DEF Ledger, Basis
    <3>2. CASE ~ok
      BY <2>2, <3>2 DEF InTable
    <3> QED
      BY <3>1, <3>2
  <2> QED
    BY <2>1, <2>2, <2>3, <2>4, <2>5, LedgerInsert
<1> QED
  BY <1>1, <1>2, <1>3, Steps, LedgerMake, LedgerCopy, LedgerRestart, LedgerOthers
     DEF Ledger, QuietAction

\* append tells the truth: on the SQLite backend a record whose append returned
\* true stays in the table, one whose append returned false never is in it, and
\* an acknowledgement without its record is one whose client was told, or got
\* no answer, for every number of threads, failing inserts and crashes.
THEOREM AppendsTellTheTruth == StoreSpec => []AppendTruthful
<1>1. StoreInit => Ledger
  <2>1. ASSUME StoreInit PROVE Ids /\ Truth
    BY <2>1, IdleShape DEF StoreInit, Init, Ids, Truth, AppendTruthful, Appending, InTable, ToSet,
                           NoInsert
  <2> QED
    BY <2>1, BasisInit DEF Ledger
<1>2. Ledger /\ [StoreNext]_storeVars => Ledger'
  BY LedgerStep
<1>3. Ledger => AppendTruthful
  BY DEF Ledger, Truth
<1> QED
  BY <1>1, <1>2, <1>3, PTL DEF StoreSpec

-----------------------------------------------------------------------------
(* How much an interrupted append costs.                                   *)

\* The records that a line holds, one or none.
LEMMA Loaded ==
    /\ \A r : r \in InFile <=> \E i \in 1 .. Len(file) : Parses(file[i]) /\ file[i].parts[1].record = r
    /\ \A r : r \in InFile' <=> \E i \in 1 .. Len(file') : Parses(file'[i]) /\ file'[i].parts[1].record = r
BY DEF InFile, LoadLines, Parses

\* The lost records are finitely many; a larger set has more.
LEMMA LostCount ==
    ASSUME Shapes, Shapes'
    PROVE  /\ Cardinality(Lost) \in Nat /\ Cardinality(Lost') \in Nat
           /\ Lost' \subseteq Lost => Cardinality(Lost') <= Cardinality(Lost)
           /\ \A x : Lost' \subseteq Lost \cup {x} => Cardinality(Lost') <= Cardinality(Lost) + 1
<1>1. IsFiniteSet(Lost) /\ IsFiniteSet(Lost')
  <2>1. Lost \subseteq begun /\ Lost' \subseteq begun'
    BY DEF Lost
  <2>2. IsFiniteSet(begun) /\ IsFiniteSet(begun')
    BY DEF Shapes
  <2> QED
    BY <2>1, <2>2, FS_Subset
<1>2. Cardinality(Lost) \in Nat /\ Cardinality(Lost') \in Nat
  BY <1>1, FS_CardinalityType
<1>3. Lost' \subseteq Lost => Cardinality(Lost') <= Cardinality(Lost)
  BY <1>1, FS_Subset
<1>4. ASSUME NEW x, Lost' \subseteq Lost \cup {x}
      PROVE  Cardinality(Lost') <= Cardinality(Lost) + 1
  <2>1. /\ IsFiniteSet(Lost \cup {x}) /\ Cardinality(Lost \cup {x}) \in Nat
        /\ Cardinality(Lost \cup {x}) <= Cardinality(Lost) + 1
    <3>1. /\ IsFiniteSet(Lost \cup {x})
          /\ Cardinality(Lost \cup {x})
             = IF x \in Lost THEN Cardinality(Lost) ELSE Cardinality(Lost) + 1
      BY <1>1, FS_AddElement, Zenon
    <3> QED
      BY <1>2, <3>1
  <2>2. Cardinality(Lost') <= Cardinality(Lost \cup {x})
    BY <1>4, <2>1, FS_Subset
  <2> QED
    BY <1>2, <2>1, <2>2
<1> QED
  BY <1>2, <1>3, <1>4

\* The debt is at most two.
LEMMA DebtType == Debt \in 0 .. 2 /\ Debt' \in 0 .. 2
BY DEF Debt

\* Quiet steps change neither what is lost nor what will be.
LEMMA QuietAccount ==
    ASSUME Quiet
    PROVE  InFile' = InFile /\ Lost' = Lost /\ Debt' = Debt
<1>1. InFile' = InFile /\ begun' = begun
  BY DEF Quiet, InFile, LoadLines, Parses
<1>2. Lost' = Lost
  BY <1>1 DEF Quiet, Lost
<1>3. \A t \in Threads : Midway(t)' <=> Midway(t)
  BY DEF Quiet, Midway, Writing
<1>4. Dangling' <=> Dangling
  BY DEF Quiet, Dangling
<1>5. (\E t \in Threads : Midway(t)') <=> (\E t \in Threads : Midway(t))
  BY <1>3
<1>6. Debt' = Debt
  BY <1>4, <1>5 DEF Quiet, Debt, Parses
<1> QED
  BY <1>1, <1>2, <1>6

\* A thread whose record is whole on a line of its own is not lost.
LEMMA OwnLine ==
    ASSUME Basis, NEW t \in Threads, Midway(t)
    PROVE  /\ Dangling /\ Len(file) \in 1 .. Len(file) /\ Len(file[Len(file)].parts) \in Nat \ {0}
           /\ Parses(file[Len(file)]) <=> Len(file[Len(file)].parts) = 1 /\ threads[t].at = "newline"
           /\ Parses(file[Len(file)]) => threads[t].record \in InFile
<1>1. Dangling
  BY DEF Basis, Ending
<1>2. /\ Len(file) \in 1 .. Len(file) /\ Len(file[Len(file)].parts) \in Nat \ {0}
  BY <1>1, LastLine, LineShape DEF Basis, Dangling
<1>3. LET ps == file[Len(file)].parts
      IN  ps[Len(ps)].record = threads[t].record /\ (ps[Len(ps)].whole <=> threads[t].at = "newline")
  BY DEF Basis, Ending
<1>4. Parses(file[Len(file)]) <=> Len(file[Len(file)].parts) = 1 /\ threads[t].at = "newline"
  BY <1>3 DEF Parses
<1>5. Parses(file[Len(file)]) => threads[t].record \in InFile
  BY <1>2, <1>3, Loaded DEF Parses
<1> QED
  BY <1>1, <1>2, <1>4, <1>5

\* An append is cut short: two more records may be lost.
LEMMA CutAccount ==
    ASSUME Basis, Basis', Accounted, NEW t \in Threads, Writing(t), UNCHANGED <<file, begun>>,
           \A u \in Threads : ~Writing(u)' /\ ~Midway(u)', cuts' = cuts + 1
    PROVE  Accounted'
<1>1. PICK r : r = threads[t].record
  OBVIOUS
<1>2. InFile' = InFile /\ (Dangling' <=> Dangling)
      /\ (Parses(file'[Len(file')]) <=> Parses(file[Len(file)]))
  BY DEF InFile, LoadLines, Dangling, Parses
<1>3. Lost' \subseteq Lost \cup {r}
  BY <1>1, <1>2, WriterAlone DEF Lost
<1>4. r \in InFile => Lost' \subseteq Lost
  BY <1>2, <1>3 DEF Lost
<1>5. Debt' = IF ~Dangling THEN 0 ELSE IF Parses(file[Len(file)]) THEN 2 ELSE 1
  BY <1>2 DEF Debt
<1>6. /\ Cardinality(Lost) \in Nat /\ Cardinality(Lost') \in Nat /\ cuts \in Nat
      /\ Cardinality(Lost') <= Cardinality(Lost) + 1
      /\ r \in InFile => Cardinality(Lost') <= Cardinality(Lost)
  BY <1>3, <1>4, LostCount DEF Basis, Shapes
<1>7. CASE Midway(t)
  <2>1. Parses(file[Len(file)]) => r \in InFile
    BY <1>1, <1>7, OwnLine
  <2>2. Cardinality(Lost') + Debt' <= Cardinality(Lost) + 2
    BY <1>5, <1>6, <2>1
  <2> QED
    BY <1>6, <2>2, DebtType DEF Accounted
<1>8. CASE ~Midway(t)
  <2>1. \A u \in Threads : ~Midway(u)
    BY <1>8, WriterAlone, MidwayWrites
  <2>2. Debt' = Debt
    BY <1>5, <2>1 DEF Debt
  <2> QED
    BY <1>6, <2>2, DebtType DEF Accounted
<1> QED
  BY <1>7, <1>8

\* Opening the file loses nothing.
LEMMA OpenAccount ==
    ASSUME Basis, Accounted, NEW t \in Threads, Open(t), UNCHANGED sqlite, ~db
    PROVE  Accounted'
<1>1. /\ Basis' /\ \A u \in Threads : ~Writing(u) /\ ~Midway(u)'
      /\ Writing(t)' /\ threads'[t].record = threads[t].record
  BY OpenBasis
<1>2. UNCHANGED <<file, cuts>> /\ begun' = begun \cup {threads[t].record}
  BY DEF Open
<1>3. InFile' = InFile
  BY <1>2 DEF InFile, LoadLines, Parses
<1>4. Lost' \subseteq Lost
  BY <1>1, <1>2, <1>3 DEF Lost
<1>5. \A u \in Threads : ~Midway(u)
  BY <1>1, MidwayWrites
<1>6. Debt' = Debt
  BY <1>1, <1>2, <1>5 DEF Debt, Dangling, Parses
<1>7. Cardinality(Lost') <= Cardinality(Lost) /\ Cardinality(Lost) \in Nat
      /\ Cardinality(Lost') \in Nat /\ cuts \in Nat
  BY <1>1, <1>4, LostCount DEF Basis, Shapes
<1> QED
  BY <1>2, <1>6, <1>7, DebtType DEF Accounted

\* The first of the text begins a line, or spoils one.
LEMMA WriteSomeAccount ==
    ASSUME Basis, Accounted, NEW t \in Threads, WriteSome(t), UNCHANGED sqlite
    PROVE  Accounted'
<1>1. /\ Basis' /\ Dangling' /\ Writing(t) /\ Midway(t)' /\ threads'[t].record = threads[t].record
      /\ \A u \in Threads : (Writing(u)' <=> Writing(u)) /\ ~Midway(u)
  BY WriteSomeBasis
<1>2. PICK p \in Part : file' = AtEnd(p) /\ ~p.whole
  BY WriteSomeBasis
<1>3. UNCHANGED <<begun, cuts>>
  BY DEF WriteSome
<1>4. Debt' = IF Len(file'[Len(file')].parts) > 1 THEN 1 ELSE 0
  BY <1>1 DEF Debt
<1>5. \A r \in Lost' : r \in begun /\ r \notin InFile' /\ \A u \in Threads : Writing(u) => threads[u].record # r
  BY <1>1, <1>3, WriterAlone DEF Lost
<1>6. file \in Seq(Line) /\ Len(file) \in Nat /\ cuts \in Nat
  BY LenProperties DEF Basis, Shapes
<1>7. CASE ~Dangling
  <2>1. /\ Len(file') = Len(file) + 1
        /\ \A i \in 1 .. Len(file) : file'[i] = file[i]
        /\ file'[Len(file')].parts = <<p>>
    BY <1>2, <1>7, AtEndStep DEF Basis
  <2>2. InFile \subseteq InFile'
    BY <1>6, <2>1, Loaded
  <2>3. Lost' \subseteq Lost
    BY <1>5, <2>2 DEF Lost
  <2>4. Debt' = 0 /\ Debt = 0
    BY <1>4, <1>7, <2>1 DEF Debt
  <2>5. Cardinality(Lost') <= Cardinality(Lost) /\ Cardinality(Lost) \in Nat
        /\ Cardinality(Lost') \in Nat
    BY <1>1, <2>3, LostCount DEF Basis
  <2> QED
    BY <1>3, <1>6, <2>4, <2>5 DEF Accounted
<1>8. CASE Dangling
  <2>1. PICK n, x : n = Len(file) /\ x = file[n].parts[1].record
    OBVIOUS
  <2>2. /\ Len(file') = n
        /\ \A i \in 1 .. n - 1 : file'[i] = file[i]
        /\ Len(file'[n].parts) > 1
    BY <1>2, <1>8, <2>1, AtEndStep DEF Basis
  <2>3. InFile \subseteq InFile' \cup {x} /\ (~Parses(file[n]) => InFile \subseteq InFile')
    <3>1. SUFFICES ASSUME NEW r \in InFile
                   PROVE  r \in InFile' \/ (Parses(file[n]) /\ r = x)
      OBVIOUS
    <3>2. PICK i \in 1 .. Len(file) : Parses(file[i]) /\ file[i].parts[1].record = r
      BY Loaded
    <3>3. CASE i = n
      BY <2>1, <3>2, <3>3
    <3>4. CASE i # n
      <4>1. i \in 1 .. n - 1 /\ i \in 1 .. Len(file') /\ file'[i] = file[i]
        BY <1>6, <2>1, <2>2, <3>4
      <4> QED
        BY <3>2, <4>1, Loaded
    <3> QED
      BY <3>3, <3>4
  <2>4. Lost' \subseteq Lost \cup {x} /\ (~Parses(file[n]) => Lost' \subseteq Lost)
    BY <1>5, <2>3 DEF Lost
  <2>5. Debt' = 1 /\ Debt = IF Parses(file[n]) THEN 2 ELSE 1
    BY <1>1, <1>4, <1>8, <2>1, <2>2 DEF Debt
  <2>6. /\ Cardinality(Lost) \in Nat /\ Cardinality(Lost') \in Nat
        /\ Cardinality(Lost') <= Cardinality(Lost) + 1
        /\ ~Parses(file[n]) => Cardinality(Lost') <= Cardinality(Lost)
    BY <1>1, <2>4, LostCount DEF Basis
  <2> QED
    BY <1>3, <1>6, <2>5, <2>6 DEF Accounted
<1> QED
  BY <1>7, <1>8

\* The rest of the text loses nothing.
LEMMA WriteRestAccount ==
    ASSUME Basis, Accounted, NEW t \in Threads, WriteRest(t), UNCHANGED sqlite
    PROVE  Accounted'
<1>1. /\ Basis' /\ Dangling /\ Dangling' /\ Midway(t) /\ Midway(t)'
      /\ threads'[t].record = threads[t].record
      /\ \A u \in Threads : Writing(u)' <=> Writing(u)
      /\ UNCHANGED <<begun, cuts>> /\ Len(file') = Len(file)
      /\ \A i \in 1 .. Len(file) : i # Len(file) => file'[i] = file[i]
      /\ Len(file'[Len(file)].parts) = Len(file[Len(file)].parts)
  BY WriteRestBasis
<1>2. Debt' = Debt
  BY <1>1 DEF Debt
<1>3. ~Parses(file[Len(file)])
  BY <1>1, OwnLine DEF WriteRest
<1>4. InFile \subseteq InFile'
  BY <1>1, <1>3, Loaded
<1>5. Lost' \subseteq Lost
  BY <1>1, <1>4, WriterAlone, MidwayWrites DEF Lost
<1>6. /\ Cardinality(Lost) \in Nat /\ Cardinality(Lost') \in Nat
      /\ Cardinality(Lost') <= Cardinality(Lost) /\ cuts \in Nat
  BY <1>1, <1>5, LostCount DEF Basis, Shapes
<1> QED
  BY <1>1, <1>2, <1>6, DebtType DEF Accounted

\* A line that parses goes on to do so when it is ended.
LEMMA NewlineLoads ==
    ASSUME Basis, NEW t \in Threads, WriteNewline(t), UNCHANGED sqlite
    PROVE  InFile' = InFile
<1>1. LET n == Len(file)
      IN  /\ Len(file') = n
          /\ \A i \in 1 .. n : i # n => file'[i] = file[i]
          /\ file'[n].parts = file[n].parts
  BY WriteNewlineBasis
<1>2. \A i \in 1 .. Len(file) : file'[i].parts = file[i].parts
  BY <1>1
<1>3. \A r : r \in InFile' <=> r \in InFile
  BY <1>1, <1>2, Loaded DEF Parses
<1> QED
  BY <1>3

\* The newline pays what is owed for the line.
LEMMA WriteNewlineAccount ==
    ASSUME Basis, Accounted, NEW t \in Threads, WriteNewline(t), UNCHANGED sqlite
    PROVE  Accounted'
<1>1. /\ Basis' /\ Writing(t) /\ Midway(t) /\ Dangling /\ ~Dangling'
      /\ \A u \in Threads : ~Writing(u)' /\ UNCHANGED <<begun, cuts>>
  BY WriteNewlineBasis
<1>2. PICK r : r = threads[t].record
  OBVIOUS
<1>3. Lost' \subseteq Lost \cup {r} /\ (r \in InFile => Lost' \subseteq Lost)
  BY <1>1, <1>2, WriterAlone, NewlineLoads DEF Lost
<1>4. Debt' = 0 /\ Debt = IF Len(file[Len(file)].parts) > 1 THEN 1 ELSE 0
  BY <1>1 DEF Debt
<1>5. Len(file[Len(file)].parts) \in Nat /\ (~(Len(file[Len(file)].parts) > 1) => r \in InFile)
  <2>1. PICK k : k = Len(file[Len(file)].parts)
    OBVIOUS
  <2>2. k \in Nat \ {0} /\ (k = 1 => r \in InFile)
    <3>1. threads[t].at = "newline"
      BY DEF WriteNewline
    <3>2. k \in Nat \ {0} /\ (Parses(file[Len(file)]) <=> k = 1 /\ threads[t].at = "newline")
          /\ (Parses(file[Len(file)]) => r \in InFile)
      BY <1>1, <1>2, <2>1, OwnLine, Zenon
    <3> QED
      BY <3>1, <3>2
  <2>3. k \in Nat /\ (k > 1 \/ k = 1)
    BY <2>2
  <2> QED
    BY <2>1, <2>2, <2>3, Zenon
<1>6. /\ Cardinality(Lost) \in Nat /\ Cardinality(Lost') \in Nat /\ cuts \in Nat
      /\ Cardinality(Lost') <= Cardinality(Lost) + 1
      /\ r \in InFile => Cardinality(Lost') <= Cardinality(Lost)
  BY <1>1, <1>3, LostCount DEF Basis, Shapes
<1> QED
  BY <1>1, <1>4, <1>5, <1>6 DEF Accounted

\* A crash costs no more than the append it cuts short.
LEMMA RestartAccount ==
    ASSUME Basis, Accounted, Restart, ~db
    PROVE  Accounted'
<1>1. Basis'
  BY BasisStep DEF StoreNext
<1>2. Crash
  BY DEF Restart
<1>3. \A u \in Threads : ~Writing(u)' /\ ~Midway(u)'
  BY RestartBasis, IdleShape DEF Writing, Midway
<1>4. CASE mutex = Free
  <2>1. Quiet /\ UNCHANGED cuts
    BY <1>2, <1>3, <1>4, StoreConfig DEF Crash, Quiet, Basis, Locks
  <2> QED
    BY <2>1, QuietAccount DEF Accounted
<1>5. CASE mutex # Free
  <2>1. mutex \in Threads /\ Writing(mutex)
    BY <1>5 DEF Basis, Shapes, Locks
  <2>2. UNCHANGED <<file, begun>> /\ cuts' = cuts + 1
    BY <1>2, <1>5 DEF Crash
  <2> QED
    BY <1>1, <1>3, <2>1, <2>2, CutAccount
<1> QED
  BY <1>4, <1>5

\* Every append to the file that is cut short, by a failing write or by a crash,
\* costs at most two of the alarms that were to be in it, for every number of
\* threads, records and interruptions, also when some of the processes had a
\* database and left the file alone: what is lost and what is owed never
\* exceeds it.
THEOREM LossIsBounded == StoreSpec => []LossBounded
<1>1. StoreInit => FileInv
  <2>1. ASSUME StoreInit PROVE Lost = {} /\ Debt = 0 /\ cuts = 0
    BY <2>1 DEF StoreInit, Init, Lost, Debt, Dangling
  <2> QED
    BY <2>1, BasisInit, FS_EmptySet DEF FileInv, Accounted
<1>2. FileInv /\ [StoreNext]_storeVars => FileInv'
  <2>1. SUFFICES ASSUME FileInv, [StoreNext]_storeVars PROVE Accounted'
    BY BasisStep DEF FileInv
  <2>2. Basis /\ Accounted /\ Basis'
    BY <2>1, BasisStep DEF FileInv
  <2>3. CASE QuietAction
    <3>1. Quiet /\ UNCHANGED cuts
      BY <2>2, <2>3, QuietBasis DEF Quiet
    <3> QED
      BY <2>2, <3>1, QuietAccount DEF Accounted
  <2>4. ASSUME NEW t \in Threads, WriteFails(t), UNCHANGED sqlite PROVE Accounted'
    BY <2>2, <2>4, WriteFailsBasis, CutAccount
  <2> QED
    BY <2>1, <2>2, <2>3, <2>4, Steps, OpenAccount, WriteSomeAccount, WriteRestAccount,
       WriteNewlineAccount, RestartAccount
<1>3. FileInv => LossBounded
  <2>1. ASSUME FileInv PROVE LossBounded
    <3>1. Cardinality(Lost) \in Nat
      <4>1. Lost \subseteq begun /\ IsFiniteSet(begun)
        BY <2>1 DEF FileInv, Basis, Shapes, Lost
      <4> QED
        BY <4>1, FS_Subset, FS_CardinalityType
    <3> QED
      BY <2>1, <3>1, DebtType DEF FileInv, Accounted, LossBounded, Basis, Shapes
  <2> QED
    BY <2>1
<1> QED
  BY <1>1, <1>2, <1>3, PTL DEF StoreSpec

-----------------------------------------------------------------------------
(* What a query finds as long as no append is cut short.                   *)

\* A file that nobody writes is whole, line by line.
LEMMA CleanRests ==
    ASSUME Basis, Clean, cuts = 0, \A t \in Threads : ~Midway(t)
    PROVE  ~Dangling /\ \A i \in 1 .. Len(file) : Parses(file[i])
<1>1. ~Dangling
  BY DEF Clean
<1>2. \A i \in 1 .. Len(file) : file[i].ended
  <2>1. file \in Seq(Line) /\ Len(file) \in Nat
    BY LenProperties DEF Basis, Shapes
  <2>2. \A i \in 1 .. Len(file) : i < Len(file) => file[i].ended
    BY DEF Basis, Shapes
  <2>3. \A i \in 1 .. Len(file) : i < Len(file) \/ (i = Len(file) /\ file # <<>>)
    BY <2>1, EmptySeq
  <2> QED
    BY <1>1, <2>2, <2>3 DEF Dangling
<1> QED
  BY <1>1, <1>2 DEF Clean, Parses

\* As long as no append is cut short, the file stays as it should be.
LEMMA CleanStep ==
    ASSUME Basis, Clean, [StoreNext]_storeVars
    PROVE  Clean'
<1>0. Basis' /\ cuts \in Nat /\ file \in Seq(Line) /\ Len(file) \in Nat
  BY BasisStep, LenProperties DEF Basis, Shapes
<1>1. CASE QuietAction
  <2>1. Quiet /\ InFile' = InFile
    BY <1>1, QuietBasis, QuietAccount
  <2>2. \A t \in Threads : Midway(t) => Midway(t)'
    BY <2>1 DEF Quiet, Midway, Writing
  <2> QED
    BY <2>1, <2>2 DEF Quiet, Clean, Dangling
<1>2. ASSUME NEW t \in Threads, Open(t), UNCHANGED sqlite, ~db PROVE Clean'
  <2>1. UNCHANGED <<file, finished, cuts>> /\ \A u \in Threads : ~Midway(u)
    BY <1>2, OpenBasis, MidwayWrites DEF Open
  <2>2. InFile' = InFile /\ (Dangling' <=> Dangling)
    BY <2>1 DEF InFile, LoadLines, Parses, Dangling
  <2> QED
    BY <2>1, <2>2, CleanRests DEF Clean
<1>3. ASSUME NEW t \in Threads, WriteSome(t), UNCHANGED sqlite PROVE Clean'
  <2>1. SUFFICES ASSUME cuts' = 0 PROVE Clean'
    BY DEF Clean
  <2>2. UNCHANGED <<finished, cuts>> /\ Midway(t)' /\ \A u \in Threads : ~Midway(u)
    BY <1>3, WriteSomeBasis DEF WriteSome
  <2>3. ~Dangling /\ \A i \in 1 .. Len(file) : Len(file[i].parts) = 1 /\ (file[i].ended => file[i].parts[1].whole)
    BY <2>1, <2>2, CleanRests DEF Clean
  <2>4. PICK p \in Part : file' = AtEnd(p)
    BY <1>3, WriteSomeBasis
  <2>5. /\ Len(file') = Len(file) + 1 /\ file'[Len(file')].parts = <<p>>
        /\ \A i \in 1 .. Len(file) : file'[i] = file[i]
        /\ ~file'[Len(file')].ended
    BY <2>3, <2>4, AtEndStep DEF Basis
  <2>6. InFile \subseteq InFile'
    BY <1>0, <2>5, Loaded
  <2>7. ASSUME NEW i \in 1 .. Len(file')
        PROVE  Len(file'[i].parts) = 1 /\ (file'[i].ended => file'[i].parts[1].whole)
    <3>1. CASE i \in 1 .. Len(file)
      BY <2>3, <2>5, <3>1
    <3>2. CASE i = Len(file')
      BY <2>5, <3>2
    <3> QED
      BY <1>0, <2>5, <3>1, <3>2
  <2>8. finished' \subseteq InFile'
    BY <2>1, <2>2, <2>6 DEF Clean
  <2> QED
    BY <2>2, <2>7, <2>8 DEF Clean
<1>4. ASSUME NEW t \in Threads, WriteRest(t), UNCHANGED sqlite PROVE Clean'
  <2>1. SUFFICES ASSUME cuts' = 0 PROVE Clean'
    BY DEF Clean
  <2>2. /\ Dangling /\ Dangling' /\ Midway(t) /\ Midway(t)' /\ UNCHANGED <<finished, cuts>>
        /\ Len(file') = Len(file)
        /\ \A i \in 1 .. Len(file) : i # Len(file) => file'[i] = file[i]
        /\ Len(file'[Len(file)].parts) = Len(file[Len(file)].parts)
    BY <1>4, WriteRestBasis
  <2>3. ~Parses(file[Len(file)])
    BY <1>4, <2>2, OwnLine DEF WriteRest
  <2>4. InFile \subseteq InFile'
    BY <2>2, <2>3, Loaded
  <2>5. ~file'[Len(file')].ended
    BY <2>2 DEF Dangling
  <2>6. ASSUME NEW i \in 1 .. Len(file')
        PROVE  Len(file'[i].parts) = 1 /\ (file'[i].ended => file'[i].parts[1].whole)
    <3>1. CASE i # Len(file)
      BY <2>1, <2>2, <3>1 DEF Clean
    <3>2. CASE i = Len(file)
      BY <2>1, <2>2, <2>5, <3>2 DEF Clean
    <3> QED
      BY <3>1, <3>2
  <2>7. finished' \subseteq InFile'
    BY <2>1, <2>2, <2>4 DEF Clean
  <2> QED
    BY <2>2, <2>6, <2>7 DEF Clean
<1>5. ASSUME NEW t \in Threads, WriteNewline(t), UNCHANGED sqlite PROVE Clean'
  <2>1. SUFFICES ASSUME cuts' = 0 PROVE Clean'
    BY DEF Clean
  <2>2. PICK n, ps : n = Len(file) /\ ps = file[n].parts
    OBVIOUS
  <2>3. /\ Midway(t) /\ ~Dangling' /\ finished' = finished \cup {threads[t].record}
        /\ UNCHANGED cuts /\ Len(file') = n /\ n \in 1 .. n
        /\ \A i \in 1 .. n : i # n => file'[i] = file[i]
        /\ file'[n].parts = ps /\ ps[Len(ps)].record = threads[t].record /\ ps[Len(ps)].whole
    BY <1>5, <2>2, WriteNewlineBasis
  <2>4. Len(ps) = 1
    BY <2>1, <2>2, <2>3 DEF Clean
  <2>5. threads[t].record \in InFile
    BY <2>2, <2>3, <2>4, Loaded DEF Parses
  <2>6. finished' \subseteq InFile'
    BY <1>5, <2>1, <2>3, <2>5, NewlineLoads DEF Clean
  <2>7. ASSUME NEW i \in 1 .. Len(file')
        PROVE  Len(file'[i].parts) = 1 /\ (file'[i].ended => file'[i].parts[1].whole)
    <3>1. CASE i # n
      BY <2>1, <2>2, <2>3, <3>1 DEF Clean
    <3>2. CASE i = n
      BY <2>3, <2>4, <3>2
    <3> QED
      BY <3>1, <3>2
  <2> QED
    BY <2>3, <2>6, <2>7 DEF Clean
<1>6. ASSUME NEW t \in Threads, WriteFails(t) PROVE Clean'
  BY <1>0, <1>6 DEF WriteFails, Clean
<1>7. CASE ~db /\ Restart
  <2>1. CASE mutex = Free
    <3>1. UNCHANGED <<file, finished, cuts>> /\ \A t \in Threads : ~Midway(t)
      BY <1>7, <2>1, StoreConfig, MidwayWrites DEF Restart, Crash, Basis, Locks
    <3>2. InFile' = InFile /\ (Dangling' <=> Dangling)
      BY <3>1 DEF InFile, LoadLines, Parses, Dangling
    <3> QED
      BY <3>1, <3>2, CleanRests DEF Clean
  <2>2. CASE mutex # Free
    BY <1>0, <1>7, <2>2 DEF Restart, Crash, Clean
  <2> QED
    BY <2>1, <2>2
<1> QED
  BY <1>1, <1>2, <1>3, <1>4, <1>5, <1>6, <1>7, Steps

\* The other steps begin no query, and leave what a query has seen.
LEMMA OtherSteps ==
    ASSUME Basis, StoreNext, ~Querying
    PROVE  /\ answer' \in {answer, NoAnswer}
           /\ \A t \in Threads : threads'[t].at = "query" => threads'[t] = threads[t] /\ db' = db
           /\ accepted \subseteq accepted' /\ finished \subseteq finished'
           /\ cuts' = 0 => cuts = 0
<1> DEFINE NoQuery == \A t \in Threads : threads'[t].at = "query" => threads'[t] = threads[t] /\ db' = db
           Kept == /\ answer' \in {answer, NoAnswer}
                   /\ accepted \subseteq accepted' /\ finished \subseteq finished'
                   /\ cuts' = 0 => cuts = 0
<1>0. cuts \in Nat
  BY DEF Basis, Shapes
<1>1. ASSUME NEW t \in Threads, NEW c \in ThreadState, threads' = [threads EXCEPT ![t] = c],
             c.at # "query", db' = db
      PROVE  NoQuery
  BY <1>1, ThreadUpdate DEF Basis
<1>2. ASSUME NEW t \in Threads, threads' = [threads EXCEPT ![t] = Idle], db' = db
      PROVE  NoQuery
  BY <1>1, <1>2, IdleShape
<1>3. ASSUME NEW t \in Threads, NEW d \in Devices, NEW time \in Times, MakeRecord(t, d, time)
      PROVE  NoQuery /\ Kept
  <2> DEFINE r == [id |-> counter + 1, device_id |-> d, timestamp |-> time]
             c == [at |-> "append", record |-> r]
  <2>1. /\ counter < MaxRecords /\ threads' = [threads EXCEPT ![t] = c]
        /\ UNCHANGED <<finished, cuts>> /\ UNCHANGED sqlite /\ answer' \in {answer, NoAnswer}
    BY <1>3 DEF MakeRecord, AppendAlarm
  <2>2. r \in AlarmRecord
    BY <2>1, StoreConfig DEF Basis, Shapes, AlarmRecord
  <2>3. c \in ThreadState /\ c.at # "query"
    BY <2>2 DEF ThreadState
  <2> HIDE DEF c
  <2>4. NoQuery
    BY <1>1, <2>1, <2>3 DEF sqlite
  <2> QED
    BY <2>1, <2>4 DEF sqlite
<1>4. ASSUME NEW t \in Threads, NEW r, NEW ok \in BOOLEAN,
             AfterInsert(t, r, ok) \/ Returns(t, r, ok),
             UNCHANGED <<db, finished, cuts, answer>>
      PROVE  NoQuery /\ Kept
  <2>1. NoQuery
    BY <1>2, <1>4 DEF AfterInsert, Returns
  <2>2. accepted \subseteq accepted'
    BY <1>4 DEF AfterInsert, Returns
  <2> QED
    BY <1>4, <2>1, <2>2
<1>5. ASSUME NEW t \in Threads, Insert(t) \/ InsertFails(t)
      PROVE  NoQuery /\ Kept
  <2>1. CASE Insert(t)
    BY <2>1 DEF Insert, jsonl
  <2>2. CASE InsertFails(t)
    BY <1>4, <2>2 DEF InsertFails, jsonl
  <2> QED
    BY <1>5, <2>1, <2>2
<1>6. ASSUME NEW ok \in BOOLEAN, Commit(ok) \/ Copy(ok)
      PROVE  NoQuery /\ Kept
  <2>1. inserting.thread \in Threads /\ inserting.ok \in BOOLEAN
    BY <1>6, InsertShape DEF Commit, Copy, Basis, Shapes
  <2>2. CASE Commit(ok)
    BY <1>4, <2>1, <2>2 DEF Commit, jsonl
  <2>3. CASE Copy(ok)
    BY <1>4, <2>1, <2>3 DEF Copy, Result, jsonl
  <2> QED
    BY <1>6, <2>2, <2>3
<1>7. CASE AuditBegins \/ AuditEnds
  BY <1>7 DEF AuditBegins, AuditEnds, vars
<1>8. CASE Restart
  <2>1. NoQuery
    BY <1>8, RestartBasis, IdleShape
  <2>2. answer' = NoAnswer /\ UNCHANGED <<accepted, finished>> /\ cuts' \in {cuts, cuts + 1}
    BY <1>8 DEF Restart, Crash, jsonl
  <2> QED
    BY <1>0, <2>1, <2>2
<1>9. ASSUME NEW t \in Threads, UNCHANGED sqlite,
             OpenFails(t) \/ WriteNewline(t) \/ WriteFails(t)
      PROVE  NoQuery /\ Kept
  <2>1. /\ threads' = [threads EXCEPT ![t] = Idle] /\ UNCHANGED <<db, accepted, answer>>
        /\ finished \subseteq finished' /\ cuts' \in {cuts, cuts + 1}
    BY <1>9 DEF OpenFails, WriteNewline, WriteFails, sqlite
  <2>2. NoQuery
    BY <1>2, <2>1
  <2>3. Kept
    BY <1>0, <2>1
  <2> QED
    BY <2>2, <2>3
<1>10. ASSUME NEW t \in Threads, UNCHANGED sqlite, Open(t) \/ WriteSome(t) \/ WriteRest(t)
       PROVE  NoQuery /\ Kept
  <2>1. PICK a \in {"open", "text", "newline"} : Goto(t, a)
    BY <1>10 DEF Open, WriteSome, WriteRest
  <2>2. Appending(t) /\ UNCHANGED <<db, accepted, answer, finished, cuts>>
    BY <1>10 DEF Open, WriteSome, WriteRest, Appending, sqlite
  <2>3. threads'[t].at = a /\ \A u \in Threads : u # t => threads'[u] = threads[u]
    BY <2>1, <2>2, GotoStep DEF Basis
  <2> QED
    BY <2>2, <2>3
<1> QED
  BY <1>3, <1>5, <1>6, <1>7, <1>8, <1>9, <1>10 DEF StoreNext, Fallback, Querying

\* A load that fails has read less than there is, one that does not has it all.
LEMMA RowsLoaded ==
    ASSUME Shapes
    PROVE  /\ LoadRows(Len(rows)) = InTable
           /\ \A n \in RowsRead : LoadRows(n) \subseteq InTable
<1>1. Len(rows) \in Nat /\ DOMAIN rows = 1 .. Len(rows)
  BY LenProperties DEF Shapes
<1> QED
  BY <1>1 DEF LoadRows, RowsRead, InTable, ToSet

\* The same for the file.
LEMMA LinesLoaded ==
    ASSUME Shapes
    PROVE  \A n \in LinesRead : LoadLines(n) \subseteq InFile
<1>1. \A n \in LinesRead : 1 .. n \subseteq 1 .. Len(file)
  BY LenProperties DEF Shapes, LinesRead
<1> QED
  BY <1>1 DEF LoadLines, InFile

\* A query that begins counts no invalid lines.
LEMMA CountStep ==
    ASSUME QueryInv, NEW q \in Queries,
           CountInvalidRows(q) \/ (~db /\ CountInvalid(q) /\ UNCHANGED sqlite)
    PROVE  Counted' /\ QueryUndisturbed'
<1>1. Basis /\ Clean /\ Counted
  BY DEF QueryInv, Ledger
<1>2. PICK n \in Nat, s \in SUBSET AlarmRecord :
         /\ threads' = [threads EXCEPT ![Mcp] = [at |-> "query", query |-> q, invalid |-> n, before |-> s]]
         /\ cuts = 0 => n = 0
         /\ s = (IF db THEN accepted ELSE finished)
  <2>0. accepted \in SUBSET AlarmRecord /\ finished \in SUBSET AlarmRecord
    BY <1>1 DEF Basis, Shapes
  <2>1. CASE CountInvalidRows(q)
    BY <2>0, <2>1 DEF CountInvalidRows
  <2>2. CASE ~db /\ CountInvalid(q)
    <3>1. PICK n \in LinesRead :
             threads' = [threads EXCEPT ![Mcp] = [at |-> "query", query |-> q,
                                                  invalid |-> InvalidLines(n), before |-> finished]]
      BY <2>2 DEF CountInvalid
    <3>2. InvalidLines(n) \in Nat
      BY <1>1, InvalidCountType DEF Basis
    <3>3. cuts = 0 => InvalidLines(n) = 0
      <4>1. \A t \in Threads : ~Midway(t)
        BY <1>1, <2>2, StoreConfig, MidwayWrites DEF CountInvalid, MayLoad, Basis, Locks
      <4>2. 1 .. n \subseteq 1 .. Len(file)
        BY <1>1, LenProperties DEF Basis, Shapes, LinesRead
      <4> QED
        BY <1>1, <4>1, <4>2, CleanRests, InvalidCountType DEF Basis
    <3> QED
      BY <2>0, <2>2, <3>1, <3>2, <3>3
  <2> QED
    BY <2>1, <2>2
<1>3. UNCHANGED <<db, accepted, finished, cuts>> /\ answer' = NoAnswer
  BY DEF CountInvalidRows, CountInvalid, jsonl, sqlite
<1> DEFINE c == [at |-> "query", query |-> q, invalid |-> n, before |-> s]
<1>4. c \in ThreadState /\ c.invalid = n /\ c.before = s
  BY DEF ThreadState
<1>5. threads'[Mcp] = c /\ \A u \in Threads : u # Mcp => threads'[u] = threads[u]
  <2>1. threads' = [threads EXCEPT ![Mcp] = c]
    BY <1>2
  <2> HIDE DEF c
  <2> QED
    BY <1>1, <1>4, <2>1, ThreadUpdate, StoreConfig DEF Basis
<1> HIDE DEF c
<1>6. Counted'
  BY <1>1, <1>2, <1>3, <1>4, <1>5 DEF Counted
<1>7. QueryUndisturbed'
  BY <1>3 DEF QueryUndisturbed
<1> QED
  BY <1>6, <1>7

\* A query that ends finds what it has to.
LEMMA AnswerStep ==
    ASSUME QueryInv, QueryRows \/ (~db /\ QueryJson /\ UNCHANGED sqlite)
    PROVE  Counted' /\ QueryUndisturbed'
<1>1. Basis /\ Clean /\ Counted /\ accepted \subseteq InTable /\ Mcp \in Threads
  BY StoreConfig DEF QueryInv, Ledger, Truth, AppendTruthful
<1>2. /\ threads[Mcp].at = "query" /\ threads' = [threads EXCEPT ![Mcp] = Idle]
      /\ UNCHANGED <<db, accepted, finished, cuts>>
  BY DEF QueryRows, QueryJson, jsonl, sqlite
<1>3. threads'[Mcp] = Idle /\ \A u \in Threads : u # Mcp => threads'[u] = threads[u]
  BY <1>1, <1>2, ThreadUpdate, IdleShape DEF Basis
<1>4. Counted'
  BY <1>1, <1>2, <1>3, IdleShape DEF Counted
<1>5. /\ answer'.invalid = threads[Mcp].invalid /\ answer'.before = threads[Mcp].before
      /\ answer'.complete => answer'.loaded = IF db THEN InTable ELSE InFile
  <2>1. CASE QueryRows
    <3>1. PICK n \in RowsRead : Answers(LoadRows(n), n = Len(rows))
      BY <2>1 DEF QueryRows
    <3>2. LoadRows(Len(rows)) = InTable
      BY <1>1, RowsLoaded DEF Basis
    <3>3. db
      BY <2>1 DEF QueryRows
    <3>4. PICK s, q : answer' = [query |-> q, invalid |-> threads[Mcp].invalid,
                                 before |-> threads[Mcp].before, loaded |-> LoadRows(n),
                                 complete |-> (n = Len(rows)), alarms |-> Query(s, q)]
      BY <3>1 DEF Answers
    <3> QED
      BY <3>2, <3>3, <3>4
  <2>2. CASE ~db /\ QueryJson
    <3>1. PICK n \in LinesRead : Answers(LoadLines(n), n = Len(file))
      BY <2>2 DEF QueryJson
    <3>2. PICK s, q : answer' = [query |-> q, invalid |-> threads[Mcp].invalid,
                                 before |-> threads[Mcp].before, loaded |-> LoadLines(n),
                                 complete |-> (n = Len(file)), alarms |-> Query(s, q)]
      BY <3>1 DEF Answers
    <3> QED
      BY <2>2, <3>2 DEF InFile
  <2> QED
    BY <2>1, <2>2
<1>6. ASSUME cuts = 0
      PROVE  threads[Mcp].invalid = 0 /\ threads[Mcp].before \subseteq (IF db THEN InTable ELSE InFile)
  BY <1>1, <1>2, <1>6 DEF Counted, Clean
<1>7. QueryUndisturbed'
  BY <1>2, <1>5, <1>6 DEF QueryUndisturbed
<1> QED
  BY <1>4, <1>7

\* As long as no append is cut short, a query reports no invalid record, however
\* much its loads get, and finds every alarm whose append had ended when it
\* began if its second load got everything; for every number of threads,
\* records and queries.
THEOREM QueriesAreUndisturbed == StoreSpec => []QueryUndisturbed
<1>1. StoreInit => QueryInv
  <2>1. ASSUME StoreInit PROVE Ids /\ Truth
    BY <2>1, IdleShape DEF StoreInit, Init, Ids, Truth, AppendTruthful, Appending, InTable, ToSet,
                           NoInsert
  <2>2. ASSUME StoreInit PROVE Clean /\ Counted /\ QueryUndisturbed
    <3>1. file = <<>> /\ Len(file) = 0 /\ finished = {} /\ answer = NoAnswer
          /\ \A t \in Threads : threads[t] = Idle
      BY <2>2, EmptySeq DEF StoreInit, Init
    <3>2. Clean
      BY <3>1 DEF Clean, Dangling
    <3>3. Counted /\ QueryUndisturbed
      BY <3>1, IdleShape DEF Counted, QueryUndisturbed
    <3> QED
      BY <3>2, <3>3
  <2> QED
    BY <2>1, <2>2, BasisInit DEF QueryInv, Ledger
<1>2. QueryInv /\ [StoreNext]_storeVars => QueryInv'
  <2> SUFFICES ASSUME QueryInv, [StoreNext]_storeVars PROVE QueryInv'
    OBVIOUS
  <2>1. Ledger' /\ Clean'
    BY LedgerStep, CleanStep DEF QueryInv, Ledger
  <2>2. CASE UNCHANGED storeVars
    <3>1. UNCHANGED <<threads, cuts, db, accepted, finished, answer>>
      BY <2>2 DEF storeVars, vars, sqlite
    <3>2. Counted' /\ QueryUndisturbed'
      BY <3>1 DEF QueryInv, Counted, QueryUndisturbed
    <3> QED
      BY <2>1, <3>2 DEF QueryInv
  <2>3. CASE Querying
    BY <2>1, <2>3, CountStep, AnswerStep DEF Querying, QueryInv
  <2>4. CASE StoreNext /\ ~Querying
    <3>1. /\ answer' \in {answer, NoAnswer}
          /\ \A t \in Threads : threads'[t].at = "query" => threads'[t] = threads[t] /\ db' = db
          /\ accepted \subseteq accepted' /\ finished \subseteq finished'
          /\ cuts' = 0 => cuts = 0
      BY <2>4, OtherSteps DEF QueryInv, Ledger
    <3>2. Counted'
      BY <3>1 DEF QueryInv, Counted
    <3>3. QueryUndisturbed'
      BY <3>1 DEF QueryInv, QueryUndisturbed
    <3> QED
      BY <2>1, <3>2, <3>3 DEF QueryInv
  <2> QED
    BY <2>2, <2>3, <2>4
<1>3. QueryInv => QueryUndisturbed
  BY DEF QueryInv
<1> QED
  BY <1>1, <1>2, <1>3, PTL DEF StoreSpec

-----------------------------------------------------------------------------
(* What a query returns.                                                   *)

\* A set of natural numbers has a least element.
LEMMA Least ==
    ASSUME NEW T \in SUBSET Nat, T # {}
    PROVE  \E x \in T : \A y \in T : x <= y
<1> DEFINE R == OpToRel(<, Nat)
<1>1. IsWellFoundedOn(R, Nat)
  BY NatLessThanWellFounded
<1>2. \A x, y \in Nat : <<y, x>> \in R <=> y < x
  BY DEF OpToRel
<1>3. \E x \in T : \A y \in T : ~(<<y, x>> \in R)
  <2> HIDE DEF R
  <2> QED BY <1>1, WFMin
<1>4. \E x \in T : \A y \in T : ~(y < x)
  <2> HIDE DEF R
  <2> QED BY <1>2, <1>3, Zenon
<1> QED
  BY <1>4

\* One round of the loop of query, from the results of the rounds before.
Round(result, order, q, n) ==
    IF n = 0 THEN <<>>
    ELSE IF Matches(q, order[n]) /\ Len(result[n - 1]) < q.limit
         THEN Append(result[n - 1], order[n])
         ELSE result[n - 1]

\* result holds what the first m rounds give.
Rounds(result, order, q, m) == result = [n \in 0 .. m |-> Round(result, order, q, n)]

\* However many rounds the loop makes, they give something.
LEMMA RoundsExist ==
    ASSUME NEW order, NEW q, NEW m \in Nat
    PROVE  \E f : Rounds(f, order, q, m)
<1> DEFINE T == {n \in Nat : ~\E f : Rounds(f, order, q, n)}
<1>1. SUFFICES ASSUME T # {} PROVE FALSE
  OBVIOUS
<1>2. PICK n \in T : \A k \in T : n <= k
  BY <1>1, Least
<1>3. CASE n = 0
  <2> DEFINE f == [k \in 0 .. 0 |-> <<>>]
  <2>1. Rounds(f, order, q, 0)
    BY DEF Rounds, Round
  <2> QED
    BY <1>2, <1>3, <2>1
<1>4. CASE n # 0
  <2>1. n - 1 \in Nat /\ n - 1 \notin T
    BY <1>2, <1>4
  <2>2. PICK f : Rounds(f, order, q, n - 1)
    BY <2>1
  <2> DEFINE g == [k \in 0 .. n |-> IF k < n THEN f[k] ELSE Round(f, order, q, k)]
  <2>3. ASSUME NEW k \in 0 .. n
        PROVE  g[k] = Round(g, order, q, k)
    <3>1. k = 0 \/ (k - 1 \in 0 .. n /\ k - 1 < n /\ g[k - 1] = f[k - 1])
      BY <1>2
    <3>2. Round(g, order, q, k) = Round(f, order, q, k)
      <4> HIDE DEF g
      <4> QED BY <3>1 DEF Round
    <3>3. CASE k < n
      <4>1. k \in 0 .. n - 1
        BY <1>2, <3>3
      <4>2. f[k] = Round(f, order, q, k)
        BY <2>2, <4>1 DEF Rounds
      <4> QED
        BY <3>2, <3>3, <4>2
    <3> QED
      BY <3>2, <3>3
  <2>4. Rounds(g, order, q, n)
    <3>1. g = [k \in 0 .. n |-> g[k]]
      OBVIOUS
    <3> HIDE DEF g
    <3> QED
      BY <2>3, <3>1 DEF Rounds
  <2> HIDE DEF g
  <2> QED
    BY <1>2, <2>4
<1> QED
  BY <1>3, <1>4

\* Collect is what the last round gives.
LEMMA CollectRounds ==
    ASSUME NEW order, NEW q, Len(order) \in Nat
    PROVE  \E f : Rounds(f, order, q, Len(order)) /\ Collect(order, q) = f[Len(order)]
<1>1. PICK f : Rounds(f, order, q, Len(order))
  BY RoundsExist
<1> DEFINE g == CHOOSE result : result = [n \in 0 .. Len(order) |->
                    IF n = 0 THEN <<>>
                    ELSE IF Matches(q, order[n]) /\ Len(result[n - 1]) < q.limit
                         THEN Append(result[n - 1], order[n])
                         ELSE result[n - 1]]
<1>2. Collect(order, q) = g[Len(order)]
  BY DEF Collect
<1>3. Rounds(g, order, q, Len(order))
  <2>1. f = [n \in 0 .. Len(order) |->
                IF n = 0 THEN <<>>
                ELSE IF Matches(q, order[n]) /\ Len(f[n - 1]) < q.limit
                     THEN Append(f[n - 1], order[n])
                     ELSE f[n - 1]]
    BY <1>1 DEF Rounds, Round
  <2>2. g = [n \in 0 .. Len(order) |->
                IF n = 0 THEN <<>>
                ELSE IF Matches(q, order[n]) /\ Len(g[n - 1]) < q.limit
                     THEN Append(g[n - 1], order[n])
                     ELSE g[n - 1]]
    BY <2>1, Zenon
  <2> HIDE DEF g
  <2> QED
    BY <2>2 DEF Rounds, Round
<1> HIDE DEF g
<1> QED
  BY <1>2, <1>3

\* The records of a sequence differ, and none is older than one after it.
NewestFirst(order) == \A i, j \in 1 .. Len(order) : i < j =>
                        order[i] # order[j] /\ order[i].timestamp >= order[j].timestamp

\* What n rounds have found: matching records, newest first, and all of them
\* unless the limit has been reached with records that are no older.
FoundIn(c, order, q, n) ==
    /\ c \in Seq(AlarmRecord) /\ Len(c) <= q.limit
    /\ \A i \in 1 .. Len(c) : \E k \in 1 .. n : c[i] = order[k] /\ Matches(q, order[k])
    /\ NewestFirst(c)
    /\ \A k \in 1 .. n : Matches(q, order[k]) =>
          \/ \E i \in 1 .. Len(c) : c[i] = order[k]
          \/ /\ Len(c) = q.limit
             /\ \A i \in 1 .. Len(c) : c[i].timestamp >= order[k].timestamp

\* A round that finds a record adds it behind those that are no older.
LEMMA RoundFinds ==
    ASSUME NEW order \in Seq(AlarmRecord), NewestFirst(order), NEW q, q.limit \in Nat,
           NEW n \in Nat, n + 1 <= Len(order), NEW c, FoundIn(c, order, q, n),
           Matches(q, order[n + 1]), Len(c) < q.limit
    PROVE  FoundIn(Append(c, order[n + 1]), order, q, n + 1)
<1> DEFINE r == order[n + 1]
           e == Append(c, r)
<1>1. Len(order) \in Nat /\ n + 1 \in 1 .. Len(order) /\ r \in AlarmRecord
  BY LenProperties, ElementOfSeq
<1>2. c \in Seq(AlarmRecord) /\ Len(c) \in Nat
  BY LenProperties DEF FoundIn
<1>3. /\ e \in Seq(AlarmRecord) /\ Len(e) = Len(c) + 1 /\ e[Len(c) + 1] = r
      /\ \A i \in 1 .. Len(c) : e[i] = c[i]
  <2> HIDE DEF r
  <2> QED BY <1>1, <1>2, AppendProperties
<1>4. \A i \in 1 .. Len(c) : c[i] # r /\ c[i].timestamp >= r.timestamp
  <2>1. SUFFICES ASSUME NEW i \in 1 .. Len(c) PROVE c[i] # r /\ c[i].timestamp >= r.timestamp
    OBVIOUS
  <2>2. PICK k \in 1 .. n : c[i] = order[k]
    BY DEF FoundIn
  <2>3. k \in 1 .. Len(order) /\ k < n + 1
    BY <1>1
  <2> QED
    BY <1>1, <2>2, <2>3 DEF NewestFirst
<1> HIDE DEF r, e
<1>5. e \in Seq(AlarmRecord) /\ Len(e) <= q.limit
  BY <1>2, <1>3
<1>6. \A i \in 1 .. Len(e) : \E k \in 1 .. n + 1 : e[i] = order[k] /\ Matches(q, order[k])
  <2>1. SUFFICES ASSUME NEW i \in 1 .. Len(e)
                 PROVE  \E k \in 1 .. n + 1 : e[i] = order[k] /\ Matches(q, order[k])
    OBVIOUS
  <2>2. CASE i \in 1 .. Len(c)
    <3>1. PICK k \in 1 .. n : c[i] = order[k] /\ Matches(q, order[k])
      BY <2>2 DEF FoundIn
    <3>2. k \in 1 .. n + 1
      OBVIOUS
    <3> QED
      BY <1>3, <2>2, <3>1, <3>2
  <2>3. CASE i = Len(c) + 1
    <3>1. n + 1 \in 1 .. n + 1
      OBVIOUS
    <3> QED
      BY <1>3, <2>3, <3>1 DEF r
  <2> QED
    BY <1>2, <1>3, <2>2, <2>3
<1>7. NewestFirst(e)
  <2>1. SUFFICES ASSUME NEW i \in 1 .. Len(e), NEW j \in 1 .. Len(e), i < j
                 PROVE  e[i] # e[j] /\ e[i].timestamp >= e[j].timestamp
    BY DEF NewestFirst
  <2>2. i \in 1 .. Len(c) /\ (j \in 1 .. Len(c) \/ j = Len(c) + 1)
    BY <1>2, <1>3, <2>1
  <2>3. CASE j \in 1 .. Len(c)
    BY <1>3, <2>1, <2>2, <2>3 DEF FoundIn, NewestFirst
  <2>4. CASE j = Len(c) + 1
    BY <1>3, <1>4, <2>2, <2>4
  <2> QED
    BY <2>2, <2>3, <2>4
<1>8. \A k \in 1 .. n + 1 : Matches(q, order[k]) => \E i \in 1 .. Len(e) : e[i] = order[k]
  <2>1. SUFFICES ASSUME NEW k \in 1 .. n + 1, Matches(q, order[k])
                 PROVE  \E i \in 1 .. Len(e) : e[i] = order[k]
    OBVIOUS
  <2>2. CASE k \in 1 .. n
    <3>1. PICK i \in 1 .. Len(c) : c[i] = order[k]
      BY <1>2, <2>1, <2>2 DEF FoundIn
    <3>2. i \in 1 .. Len(e)
      BY <1>2, <1>3
    <3> QED
      BY <1>3, <3>1, <3>2
  <2>3. CASE k = n + 1
    <3>1. Len(c) + 1 \in 1 .. Len(e)
      BY <1>2, <1>3
    <3> QED
      BY <1>3, <2>3, <3>1 DEF r
  <2> QED
    BY <2>2, <2>3
<1>9. FoundIn(e, order, q, n + 1)
  BY <1>5, <1>6, <1>7, <1>8 DEF FoundIn
<1> QED
  BY <1>9 DEF e, r

\* A round that finds none, because the record does not match or the limit has
\* been reached.
LEMMA RoundPasses ==
    ASSUME NEW order \in Seq(AlarmRecord), NewestFirst(order), NEW q, q.limit \in Nat,
           NEW n \in Nat, n + 1 <= Len(order), NEW c, FoundIn(c, order, q, n),
           ~(Matches(q, order[n + 1]) /\ Len(c) < q.limit)
    PROVE  FoundIn(c, order, q, n + 1)
<1>1. Len(order) \in Nat /\ n + 1 \in 1 .. Len(order)
  BY LenProperties
<1>2. Len(c) \in Nat /\ Len(c) <= q.limit
  BY LenProperties DEF FoundIn
<1>3. ASSUME NEW i \in 1 .. Len(c)
      PROVE  /\ \E k \in 1 .. n + 1 : c[i] = order[k] /\ Matches(q, order[k])
             /\ c[i].timestamp >= order[n + 1].timestamp
  <2>1. PICK k \in 1 .. n : c[i] = order[k] /\ Matches(q, order[k])
    BY DEF FoundIn
  <2>2. k \in 1 .. n + 1 /\ k \in 1 .. Len(order) /\ k < n + 1
    BY <1>1
  <2>3. order[k].timestamp >= order[n + 1].timestamp
    BY <1>1, <2>2 DEF NewestFirst
  <2> QED
    BY <2>1, <2>2, <2>3
<1>4. ASSUME NEW k \in 1 .. n + 1, Matches(q, order[k])
      PROVE  \/ \E i \in 1 .. Len(c) : c[i] = order[k]
             \/ /\ Len(c) = q.limit
                /\ \A i \in 1 .. Len(c) : c[i].timestamp >= order[k].timestamp
  <2>1. CASE k \in 1 .. n
    BY <1>4, <2>1 DEF FoundIn
  <2>2. CASE k = n + 1
    <3>1. Len(c) = q.limit
      BY <1>2, <1>4, <2>2
    <3> QED
      BY <1>3, <2>2, <3>1
  <2> QED
    BY <2>1, <2>2
<1> QED
  BY <1>3, <1>4 DEF FoundIn

\* So does the loop as a whole.
LEMMA CollectFinds ==
    ASSUME NEW order \in Seq(AlarmRecord), NewestFirst(order), NEW q, q.limit \in Nat
    PROVE  FoundIn(Collect(order, q), order, q, Len(order))
<1>1. Len(order) \in Nat
  BY LenProperties
<1>2. PICK f : Rounds(f, order, q, Len(order)) /\ Collect(order, q) = f[Len(order)]
  BY <1>1, CollectRounds
<1>3. \A n \in 0 .. Len(order) : f[n] = Round(f, order, q, n)
  BY <1>2 DEF Rounds
<1> DEFINE T == {n \in 0 .. Len(order) : ~FoundIn(f[n], order, q, n)}
<1>4. T = {}
  <2>1. SUFFICES ASSUME T # {} PROVE FALSE
    OBVIOUS
  <2>2. T \in SUBSET Nat
    OBVIOUS
  <2>3. PICK n \in T : \A k \in T : n <= k
    <3> HIDE DEF T
    <3> QED BY <2>1, <2>2, Least
  <2>4. CASE n = 0
    <3>1. f[0] = <<>>
      BY <1>1, <1>3 DEF Round
    <3>2. FoundIn(f[0], order, q, 0)
      BY <3>1 DEF FoundIn, NewestFirst
    <3> QED
      BY <2>3, <2>4, <3>2
  <2>5. CASE n # 0
    <3> DEFINE m == n - 1
    <3>1. m \in Nat /\ m \in 0 .. Len(order) /\ m + 1 = n /\ m + 1 <= Len(order) /\ m \notin T
      BY <1>1, <2>3, <2>5
    <3>2. FoundIn(f[m], order, q, m)
      BY <3>1
    <3>3. f[m + 1] = IF Matches(q, order[m + 1]) /\ Len(f[m]) < q.limit
                     THEN Append(f[m], order[m + 1]) ELSE f[m]
      BY <1>3, <2>3, <2>5, <3>1 DEF Round
    <3>4. FoundIn(f[m + 1], order, q, m + 1)
      <4> HIDE DEF m
      <4> QED BY <3>1, <3>2, <3>3, RoundFinds, RoundPasses
    <3> QED
      BY <2>3, <3>1, <3>4
  <2> QED
    BY <2>4, <2>5
<1> QED
  BY <1>1, <1>2, <1>4

\* Sorting orders any two records, not only neighbours, and loses none.
LEMMA SortedShape ==
    ASSUME NEW S \in SUBSET AlarmRecord, IsFiniteSet(S), NEW s \in SortedOrders(S)
    PROVE  /\ s \in Seq(AlarmRecord) /\ Len(s) = Cardinality(S) /\ Cardinality(S) \in Nat
           /\ \A r \in S : \E i \in 1 .. Len(s) : s[i] = r
           /\ \A i \in 1 .. Len(s) : s[i] \in S
           /\ \A i, j \in 1 .. Len(s) : i < j => /\ s[i] # s[j]
                                                 /\ s[i].timestamp <= s[j].timestamp
<1> DEFINE D == 1 .. Cardinality(S)
<1>1. Cardinality(S) \in Nat /\ IsFiniteSet(D) /\ Cardinality(D) = Cardinality(S)
  BY FS_CardinalityType, FS_Interval
<1>2. /\ s \in [D -> S]
      /\ \A i, j \in D : i # j => s[i] # s[j]
      /\ \A i \in 1 .. Len(s) - 1 : s[i].timestamp <= s[i + 1].timestamp
  BY DEF SortedOrders, SetToSeqs
<1>3. s \in Seq(AlarmRecord) /\ Len(s) = Cardinality(S)
  BY <1>1, <1>2
<1>4. \A r \in S : \E i \in D : s[i] = r
  <2>1. s \in Injection(D, S)
    BY <1>2 DEF Injection, IsInjective
  <2>2. s \in Surjection(D, S)
    <3> HIDE DEF D
    <3> QED BY <1>1, <2>1, FS_Injection, Zenon
  <2> QED
    BY <2>2 DEF Surjection
<1>5. \A i \in D : s[i] \in S /\ s[i].timestamp \in Nat
  <2>1. \A r \in AlarmRecord : r.timestamp \in Nat
    BY StoreConfig DEF AlarmRecord
  <2> QED
    BY <1>2, <2>1
<1>6. ASSUME NEW i \in D, NEW j \in D, i < j
      PROVE  s[i].timestamp <= s[j].timestamp
  <2> DEFINE T == {k \in i .. Cardinality(S) : ~(s[i].timestamp <= s[k].timestamp)}
  <2>1. SUFFICES ASSUME T # {} PROVE FALSE
    BY <1>1, <1>6
  <2>2. T \in SUBSET Nat
    BY <1>1
  <2>3. PICK k \in T : \A l \in T : k <= l
    <3> HIDE DEF T
    <3> QED BY <2>1, <2>2, Least
  <2>4. k # i /\ k \in i .. Cardinality(S)
    BY <1>5, <2>3
  <2> DEFINE m == k - 1
  <2>5. m \in i .. Cardinality(S) /\ m \in 1 .. Len(s) - 1 /\ m + 1 = k /\ ~(k <= m)
        /\ m \in D /\ k \in D
    BY <1>1, <1>3, <2>4
  <2>6. m \notin T
    <3> HIDE DEF T, m
    <3> QED BY <2>3, <2>5
  <2>7. s[i].timestamp <= s[m].timestamp
    BY <2>5, <2>6
  <2>8. s[m].timestamp <= s[k].timestamp
    <3> HIDE DEF m
    <3> QED BY <1>2, <2>5
  <2>9. ~(s[i].timestamp <= s[k].timestamp)
    BY <2>3
  <2> HIDE DEF m
  <2> QED
    BY <1>5, <2>5, <2>7, <2>8, <2>9
<1> QED
  BY <1>1, <1>2, <1>3, <1>4, <1>5, <1>6

\* The order in which query walks.
LEMMA ReverseShape ==
    ASSUME NEW S \in SUBSET AlarmRecord, IsFiniteSet(S), NEW s \in SortedOrders(S)
    PROVE  LET w == Reverse(s)
           IN  /\ w \in Seq(AlarmRecord) /\ NewestFirst(w)
               /\ \A r \in S : \E i \in 1 .. Len(w) : w[i] = r
               /\ \A i \in 1 .. Len(w) : w[i] \in S
<1> DEFINE n == Len(s)
           w == Reverse(s)
<1>1. /\ s \in Seq(AlarmRecord) /\ n \in Nat
      /\ \A r \in S : \E i \in 1 .. n : s[i] = r
      /\ \A i \in 1 .. n : s[i] \in S
      /\ \A i, j \in 1 .. n : i < j => s[i] # s[j] /\ s[i].timestamp <= s[j].timestamp
  BY SortedShape
<1>2. w = [i \in 1 .. n |-> s[(n - i) + 1]]
  BY DEF Reverse
<1>3. \A i \in 1 .. n : (n - i) + 1 \in 1 .. n
  BY <1>1
<1>4. w \in [1 .. n -> AlarmRecord] /\ \A i \in 1 .. n : w[i] = s[(n - i) + 1] /\ w[i] \in S
  BY <1>1, <1>2, <1>3
<1>5. w \in Seq(AlarmRecord) /\ Len(w) = n
  <2> HIDE DEF w
  <2> QED BY <1>1, <1>2, <1>4
<1>6. ASSUME NEW r \in S
      PROVE  \E i \in 1 .. n : w[i] = r
  <2>1. PICK k \in 1 .. n : s[k] = r
    BY <1>1
  <2>2. (n - k) + 1 \in 1 .. n /\ (n - ((n - k) + 1)) + 1 = k
    BY <1>1
  <2> QED
    BY <1>4, <2>1, <2>2
<1>7. NewestFirst(w)
  <2>1. SUFFICES ASSUME NEW i \in 1 .. n, NEW j \in 1 .. n, i < j
                 PROVE  w[i] # w[j] /\ w[i].timestamp >= w[j].timestamp
    BY <1>5 DEF NewestFirst
  <2> DEFINE k == (n - i) + 1
             l == (n - j) + 1
  <2>2. k \in 1 .. n /\ l \in 1 .. n /\ l < k
    BY <1>1, <2>1
  <2>3. s[l] # s[k] /\ s[l].timestamp <= s[k].timestamp
    <3> HIDE DEF k, l
    <3> QED BY <1>1, <2>2
  <2>4. w[i] = s[k] /\ w[j] = s[l]
    BY <1>4
  <2>5. s[l].timestamp \in Nat /\ s[k].timestamp \in Nat
    <3>1. s[l] \in AlarmRecord /\ s[k] \in AlarmRecord
      <4> HIDE DEF k, l
      <4> QED BY <1>1, <2>2
    <3> QED
      BY <3>1, StoreConfig DEF AlarmRecord
  <2> HIDE DEF k, l
  <2> QED
    BY <2>3, <2>4, <2>5
<1> QED
  BY <1>4, <1>5, <1>6, <1>7

\* An answer as NewestAnswered wants it.
NewestGiven(given, q, S) ==
    LET matching == {r \in S : Matches(q, r)}
    IN  /\ Len(given) = Cardinality(ToSet(given))
        /\ ToSet(given) \subseteq matching
        /\ Len(given) = Smaller(q.limit, Cardinality(matching))
        /\ \A i \in 1 .. Len(given) :
              /\ \A j \in i .. Len(given) : given[i].timestamp >= given[j].timestamp
              /\ \A r \in matching \ ToSet(given) : given[i].timestamp >= r.timestamp

\* A sequence without repetition has as many elements as places.
LEMMA PlacesCount ==
    ASSUME NEW c \in Seq(AlarmRecord), \A i, j \in 1 .. Len(c) : i < j => c[i] # c[j]
    PROVE  /\ IsFiniteSet(ToSet(c)) /\ Cardinality(ToSet(c)) = Len(c)
           /\ ToSet(c) = {c[i] : i \in 1 .. Len(c)}
<1> DEFINE D == 1 .. Len(c)
<1>1. Len(c) \in Nat /\ c \in [D -> AlarmRecord] /\ DOMAIN c = D
  BY LenProperties
<1>2. ToSet(c) = {c[i] : i \in D}
  BY <1>1 DEF ToSet
<1>3. \A i, j \in D : i # j => c[i] # c[j]
  <2>1. SUFFICES ASSUME NEW i \in D, NEW j \in D, i # j PROVE c[i] # c[j]
    OBVIOUS
  <2>2. i < j \/ j < i
    BY <1>1, <2>1
  <2> QED
    BY <2>2
<1>4. c \in Bijection(D, ToSet(c))
  <2>1. c \in [D -> ToSet(c)]
    BY <1>1, <1>2
  <2> QED
    BY <1>2, <1>3, <2>1 DEF Bijection, Injection, Surjection, IsInjective
<1>5. IsFiniteSet(D) /\ Cardinality(D) = Len(c)
  BY <1>1, FS_Interval
<1>6. ExistsBijection(D, ToSet(c))
  BY <1>4 DEF ExistsBijection
<1> QED
  <2> HIDE DEF D
  <2> QED BY <1>2, <1>5, <1>6, FS_Bijection DEF D

\* What query returns.
LEMMA QueryGives ==
    ASSUME NEW S \in SUBSET AlarmRecord, IsFiniteSet(S), NEW s \in SortedOrders(S),
           NEW q \in Queries
    PROVE  NewestGiven(Query(s, q), q, S)
<1> DEFINE w == Reverse(s)
           c == Collect(w, q)
           M == {r \in S : Matches(q, r)}
<1>1. /\ w \in Seq(AlarmRecord) /\ NewestFirst(w)
      /\ \A r \in S : \E i \in 1 .. Len(w) : w[i] = r
      /\ \A i \in 1 .. Len(w) : w[i] \in S
  BY ReverseShape
<1>2. q.limit \in Nat /\ q.limit > 0
  BY StoreConfig
<1>3. FoundIn(c, w, q, Len(w))
  <2> HIDE DEF w
  <2> QED BY <1>1, <1>2, CollectFinds
<1>4. c \in Seq(AlarmRecord) /\ Len(c) \in Nat /\ Len(c) <= q.limit /\ NewestFirst(c)
  BY <1>3, LenProperties DEF FoundIn
<1> HIDE DEF w, c
<1>5. IsFiniteSet(ToSet(c)) /\ Cardinality(ToSet(c)) = Len(c) /\ ToSet(c) = {c[i] : i \in 1 .. Len(c)}
  BY <1>4, PlacesCount DEF NewestFirst
<1>6. ToSet(c) \subseteq M
  <2>1. SUFFICES ASSUME NEW i \in 1 .. Len(c) PROVE c[i] \in M
    BY <1>5
  <2>2. PICK k \in 1 .. Len(w) : c[i] = w[k] /\ Matches(q, w[k])
    BY <1>3 DEF FoundIn
  <2> QED
    BY <1>1, <2>2
<1>7. ASSUME NEW r \in M \ ToSet(c)
      PROVE  Len(c) = q.limit /\ \A i \in 1 .. Len(c) : c[i].timestamp >= r.timestamp
  <2>1. PICK k \in 1 .. Len(w) : w[k] = r
    BY <1>1
  <2>2. Matches(q, w[k]) /\ ~\E i \in 1 .. Len(c) : c[i] = w[k]
    BY <1>5, <1>7, <2>1
  <2> QED
    BY <1>3, <2>1, <2>2 DEF FoundIn
<1>8. Len(c) = Smaller(q.limit, Cardinality(M))
  <2>1. IsFiniteSet(M) /\ Cardinality(M) \in Nat /\ Len(c) <= Cardinality(M)
    <3>1. M \in SUBSET S
      OBVIOUS
    <3>2. IsFiniteSet(M)
      BY <3>1, FS_Subset
    <3>3. Cardinality(ToSet(c)) <= Cardinality(M)
      BY <1>6, <3>2, FS_Subset
    <3> HIDE DEF M
    <3> QED
      BY <1>5, <3>2, <3>3, FS_CardinalityType
  <2>2. CASE M \subseteq ToSet(c)
    <3>1. M = ToSet(c)
      BY <1>6, <2>2
    <3>2. Cardinality(M) = Len(c)
      BY <1>5, <3>1, Zenon
    <3> HIDE DEF M
    <3> QED
      BY <1>2, <1>4, <3>2 DEF Smaller
  <2>3. CASE ~(M \subseteq ToSet(c))
    <3>1. Len(c) = q.limit
      BY <1>7, <2>3
    <3> QED
      BY <1>2, <2>1, <3>1 DEF Smaller
  <2> QED
    BY <2>2, <2>3
<1>9. ASSUME NEW i \in 1 .. Len(c), NEW j \in i .. Len(c)
      PROVE  c[i].timestamp >= c[j].timestamp
  <2>1. i = j \/ (i < j /\ j \in 1 .. Len(c))
    BY <1>4
  <2>2. c[i].timestamp \in Nat
    <3>1. c[i] \in AlarmRecord
      BY <1>4, ElementOfSeq
    <3> QED
      BY <3>1, StoreConfig DEF AlarmRecord
  <2> QED
    BY <1>4, <2>1, <2>2 DEF NewestFirst
<1>10. NewestGiven(c, q, S)
  BY <1>5, <1>6, <1>7, <1>8, <1>9 DEF NewestGiven
<1> QED
  BY <1>10 DEF Query, c, w

\* The records that the file and the table hold are finitely many.
LEMMA LoadsFinite ==
    ASSUME Shapes
    PROVE  /\ InFile \in SUBSET AlarmRecord /\ IsFiniteSet(InFile)
           /\ InTable \in SUBSET AlarmRecord /\ IsFiniteSet(InTable)
<1>1. InFile \in SUBSET AlarmRecord /\ IsFiniteSet(InFile)
  <2> DEFINE D == 1 .. Len(file)
             f == [i \in D |-> file[i].parts[1].record]
             B == {i \in D : Parses(file[i])}
             g == [i \in B |-> f[i]]
  <2>1. IsFiniteSet(D) /\ B \in SUBSET D
    BY FS_Interval, LenProperties DEF Shapes
  <2>2. IsFiniteSet(B)
    BY <2>1, FS_Subset
  <2>3. g \in Surjection(B, InFile)
    <3>1. InFile = {f[i] : i \in B}
      BY DEF InFile, LoadLines
    <3> QED
      BY <3>1 DEF Surjection
  <2>4. IsFiniteSet(InFile)
    <3> HIDE DEF B, g
    <3> QED BY <2>2, <2>3, FS_Surjection
  <2>5. \A i \in B : f[i] \in AlarmRecord
    <3>1. SUFFICES ASSUME NEW i \in B PROVE file[i].parts[1].record \in AlarmRecord
      OBVIOUS
    <3>2. file[i] \in Line /\ Len(file[i].parts) = 1
      BY ElementOfSeq DEF Shapes, Parses
    <3>3. file[i].parts \in Seq(Part)
      BY <3>2 DEF Line
    <3>4. file[i].parts[1] \in Part
      BY <3>2, <3>3, ElementOfSeq
    <3> QED
      BY <3>4 DEF Part
  <2> QED
    BY <2>4, <2>5 DEF InFile, LoadLines
<1>2. InTable \in SUBSET AlarmRecord /\ IsFiniteSet(InTable)
  <2> DEFINE D == 1 .. Len(rows)
  <2>1. rows \in Seq(AlarmRecord) /\ Len(rows) \in Nat /\ DOMAIN rows = D
    BY LenProperties DEF Shapes
  <2>2. InTable = {rows[i] : i \in D} /\ \A i \in D : rows[i] \in AlarmRecord
    BY <2>1, ElementOfSeq DEF InTable, ToSet
  <2>3. rows \in Surjection(D, InTable)
    <3>1. rows \in [D -> InTable]
      BY <2>1, <2>2
    <3> QED
      BY <2>2, <3>1 DEF Surjection
  <2>4. IsFiniteSet(D)
    BY <2>1, FS_Interval
  <2> HIDE DEF D
  <2> QED
    BY <2>2, <2>3, <2>4, FS_Surjection
<1> QED
  BY <1>1, <1>2

\* A query answers with the newest of the records that match it, newest first:
\* as many as there are up to the limit, and none that is left out is newer
\* than one that is not; for every number of records, devices and queries.
THEOREM NewestAreAnswered == StoreSpec => []NewestAnswered
<1>1. StoreInit => Ledger /\ NewestAnswered
  <2>1. ASSUME StoreInit PROVE Ids /\ Truth
    BY <2>1, IdleShape DEF StoreInit, Init, Ids, Truth, AppendTruthful, Appending, InTable, ToSet,
                           NoInsert
  <2> QED
    BY <2>1, BasisInit DEF Ledger, StoreInit, Init, NewestAnswered
<1>2. Ledger /\ NewestAnswered /\ [StoreNext]_storeVars => (Ledger /\ NewestAnswered)'
  <2> SUFFICES ASSUME Ledger, NewestAnswered, [StoreNext]_storeVars
               PROVE  (Ledger /\ NewestAnswered)'
    OBVIOUS
  <2>1. Ledger'
    BY LedgerStep
  <2>2. CASE answer' \in {answer, NoAnswer}
    BY <2>1, <2>2 DEF NewestAnswered
  <2>3. CASE QueryRows \/ (~db /\ QueryJson)
    <3>1. Shapes /\ Mcp \in Threads /\ threads[Mcp].at = "query"
      BY <2>3, StoreConfig DEF Ledger, Basis, QueryRows, QueryJson
    <3>2. threads[Mcp].query \in Queries
      BY <3>1, ThreadShape DEF Shapes
    <3>3. PICK S : /\ S \subseteq InTable \/ S \subseteq InFile
                   /\ \E complete \in BOOLEAN : Answers(S, complete)
      <4>1. CASE QueryRows
        BY <3>1, <4>1, RowsLoaded DEF QueryRows
      <4>2. CASE ~db /\ QueryJson
        BY <3>1, <4>2, LinesLoaded DEF QueryJson
      <4> QED
        BY <2>3, <4>1, <4>2
    <3>4. PICK s \in SortedOrders(S), complete \in BOOLEAN :
             answer' = [query |-> threads[Mcp].query, invalid |-> threads[Mcp].invalid,
                        before |-> threads[Mcp].before, loaded |-> S, complete |-> complete,
                        alarms |-> Query(s, threads[Mcp].query)]
      BY <3>3 DEF Answers
    <3>5. NewestGiven(Query(s, threads[Mcp].query), threads[Mcp].query, S)
      <4>1. S \in SUBSET AlarmRecord /\ IsFiniteSet(S)
        BY <3>1, <3>3, LoadsFinite, FS_Subset
      <4> QED
        BY <3>2, <4>1, QueryGives
    <3>6. NewestGiven(answer'.alarms, answer'.query, answer'.loaded)
      BY <3>4, <3>5
    <3>7. NewestAnswered'
      BY <3>6 DEF NewestGiven, NewestAnswered
    <3> QED
      BY <2>1, <3>7
  <2>4. CASE UNCHANGED storeVars
    BY <2>2, <2>4 DEF storeVars, vars
  <2>5. CASE StoreNext /\ Querying /\ ~(QueryRows \/ (~db /\ QueryJson))
    BY <2>2, <2>5 DEF Querying, CountInvalidRows, CountInvalid
  <2>6. CASE StoreNext /\ ~Querying
    BY <2>2, <2>6, OtherSteps DEF Ledger
  <2> QED
    BY <2>3, <2>4, <2>5, <2>6
<1> QED
  BY <1>1, <1>2, PTL DEF StoreSpec
=============================================================================

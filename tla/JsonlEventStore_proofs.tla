------------------------- MODULE JsonlEventStore_proofs -------------------------
(***************************************************************************)
(* For any number of processes, threads, events and kills: what the local  *)
(* store's file holds.                                                     *)
(***************************************************************************)
EXTENDS JsonlEventStore, TLAPS

Piece == [id : Events, whole : BOOLEAN, by : Processes, raised : BOOLEAN]

Line == Seq(Piece) \ {<<>>}

TypeOK ==
  /\ file \in Seq(Line)
  /\ terminated \in BOOLEAN
  /\ terminated = FALSE => file # <<>>
  /\ seen \in [Processes -> (SUBSET Events) \cup {NoIndex}]
  /\ holder \in [Processes -> Threads \cup {NoThread}]
  /\ pc \in [Threads -> {"idle", "write", "written"}]
  /\ event \in [Threads -> Events]
  /\ told \subseteq Events
  /\ kills \in Nat
  /\ \A t \in Threads : pc[t] # "idle" => seen[ProcessOf[t]] # NoIndex

\* A thread between the steps of append holds its instance's lock.
Locked == \A t \in Threads : pc[t] # "idle" => holder[ProcessOf[t]] = t

\* What it is about to write is not in the instance's index.
NotSeen ==
  \A t \in Threads :
    pc[t] = "write" => event[t] \notin seen[ProcessOf[t]]

\* An instance that has an index has what it wrote in it, but for the line it
\* has just written and those whose write raised.
Indexed ==
  \A i \in DOMAIN file :
    LET p == file[i][1].by
        e == file[i][1].id
    IN  Parses(file[i]) /\ ~file[i][1].raised /\ seen[p] # NoIndex =>
          \/ e \in seen[p]
          \/ \E t \in Threads : pc[t] = "written" /\ ProcessOf[t] = p /\ event[t] = e

OnceInv == TypeOK /\ Locked /\ NotSeen /\ Indexed /\ WrittenOncePerProcess

-----------------------------------------------------------------------------
(* The write.                                                              *)

LEMMA AppendOne ==
  ASSUME NEW S, NEW s \in Seq(S), NEW v \in S
  PROVE  /\ Append(s, v) \in Seq(S) /\ Len(Append(s, v)) = Len(s) + 1 /\ Len(s) \in Nat
         /\ Append(s, v)[Len(s) + 1] = v /\ Append(s, v) # <<>>
         /\ \A i \in DOMAIN s : i \in 1..Len(s) /\ Append(s, v)[i] = s[i]
  OBVIOUS

LEMMA ReplaceLast ==
  ASSUME NEW S, NEW s \in Seq(S), s # <<>>, NEW v \in S
  PROVE  /\ [s EXCEPT ![Len(s)] = v] \in Seq(S) /\ Len([s EXCEPT ![Len(s)] = v]) = Len(s)
         /\ Len(s) \in Nat \ {0} /\ [s EXCEPT ![Len(s)] = v] # <<>>
         /\ [s EXCEPT ![Len(s)] = v][Len(s)] = v
         /\ \A i \in DOMAIN s : i # Len(s) => [s EXCEPT ![Len(s)] = v][i] = s[i]
  OBVIOUS

\* A piece is written on a line of its own.
LEMMA WriteOwnLine ==
  ASSUME TypeOK, NEW piece \in Piece, NEW newline \in BOOLEAN, WritePiece(piece, newline), terminated
  PROVE  /\ file' \in Seq(Line) /\ file' # <<>> /\ terminated' = newline
         /\ Len(file') = Len(file) + 1 /\ file'[Len(file')] = <<piece>> /\ Len(file) \in Nat
         /\ \A i \in DOMAIN file : i \in 1..Len(file) /\ file'[i] = file[i]
<1>1. file' = Append(file, <<piece>>) /\ terminated' = newline
  BY DEF WritePiece
<1>2. <<piece>> \in Line
  BY DEF Line
<1>3. file \in Seq(Line)
  BY DEF TypeOK, Line
<1> QED
  BY <1>1, <1>2, <1>3, AppendOne

\* Or it makes the last line one that does not parse.
LEMMA WriteTornLine ==
  ASSUME TypeOK, NEW piece \in Piece, NEW newline \in BOOLEAN, WritePiece(piece, newline), ~terminated
  PROVE  /\ file' \in Seq(Line) /\ file' # <<>> /\ terminated' = newline
         /\ Len(file') = Len(file) /\ Len(file) \in Nat \ {0} /\ Len(file'[Len(file)]) # 1
         /\ \A i \in DOMAIN file : i # Len(file) => file'[i] = file[i]
<1> DEFINE n == Len(file)
           line == Append(file[n], piece)
<1>1. file \in Seq(Line) /\ file # <<>>
  BY DEF TypeOK, Line
<1>2. file[n] \in Line
  BY <1>1
<1>3. line \in Line /\ Len(line) # 1
  <2>1. file[n] \in Seq(Piece) /\ Len(file[n]) > 0
    BY <1>2 DEF Line
  <2>2. line \in Seq(Piece) /\ Len(line) = Len(file[n]) + 1 /\ line # <<>> /\ Len(file[n]) \in Nat
    BY <2>1, AppendOne
  <2> QED
    BY <2>1, <2>2 DEF Line
<1>4. file' = [file EXCEPT ![n] = line] /\ terminated' = newline
  BY DEF WritePiece
<1> HIDE DEF line
<1> QED
  BY <1>1, <1>3, <1>4, ReplaceLast

LEMMA WriteEffect ==
  ASSUME TypeOK, NEW piece \in Piece, NEW newline \in BOOLEAN, WritePiece(piece, newline)
  PROVE  /\ file' \in Seq(Line) /\ file' # <<>> /\ terminated' = newline
         /\ \A i \in DOMAIN file' : Parses(file'[i]) =>
              \/ i \in DOMAIN file /\ file'[i] = file[i]
              \/ i = Len(file') /\ i \notin DOMAIN file /\ file'[i] = <<piece>>
<1>0. file \in Seq(Line)
  BY DEF TypeOK
<1>1. CASE terminated
  <2>1. /\ file' \in Seq(Line) /\ file' # <<>> /\ terminated' = newline
        /\ Len(file') = Len(file) + 1 /\ file'[Len(file')] = <<piece>> /\ Len(file) \in Nat
        /\ \A i \in DOMAIN file : file'[i] = file[i]
    BY <1>1, WriteOwnLine
  <2>2. DOMAIN file = 1..Len(file) /\ DOMAIN file' = 1..Len(file')
    BY <1>0, <2>1
  <2> QED
    BY <2>1, <2>2
<1>2. CASE ~terminated
  <2>1. /\ file' \in Seq(Line) /\ file' # <<>> /\ terminated' = newline
        /\ Len(file') = Len(file) /\ Len(file'[Len(file)]) # 1
        /\ \A i \in DOMAIN file : i # Len(file) => file'[i] = file[i]
    BY <1>2, WriteTornLine
  <2>2. DOMAIN file = DOMAIN file'
    BY <1>0, <2>1
  <2>3. ~Parses(file'[Len(file)])
    BY <2>1 DEF Parses
  <2> QED
    BY <2>1, <2>2, <2>3
<1> QED
  BY <1>1, <1>2

\* A thread about to write writes what no line of its process holds, but for
\* the lines whose write raised.
LEMMA NewToProcess ==
  ASSUME TypeOK, Locked, NotSeen, Indexed, NEW t \in Threads, pc[t] = "write",
         NEW i \in DOMAIN file, Parses(file[i]), ~file[i][1].raised,
         file[i][1].by = ProcessOf[t]
  PROVE  file[i][1].id # event[t]
<1>1. seen[ProcessOf[t]] # NoIndex /\ event[t] \notin seen[ProcessOf[t]]
  BY DEF TypeOK, NotSeen
<1>2. ASSUME NEW u \in Threads, pc[u] = "written", ProcessOf[u] = ProcessOf[t] PROVE FALSE
  BY <1>2 DEF Locked
<1> QED
  BY <1>1, <1>2 DEF Indexed

LEMMA WriteOnce ==
  ASSUME OnceInv, NEW t \in Threads, pc[t] = "write", NEW piece \in Piece,
         piece.id = event[t], piece.by = ProcessOf[t], NEW newline \in BOOLEAN,
         WritePiece(piece, newline)
  PROVE  WrittenOncePerProcess'
<1> SUFFICES ASSUME NEW i \in DOMAIN file', NEW j \in DOMAIN file',
                    i < j, Parses(file'[i]), Parses(file'[j]),
                    file'[i][1].id = file'[j][1].id, file'[i][1].by = file'[j][1].by
             PROVE  file'[i][1].raised
  BY DEF WrittenOncePerProcess, Parses
<1> DEFINE Old(k) == k \in DOMAIN file /\ file'[k] = file[k]
           New(k) == k = Len(file') /\ k \notin DOMAIN file /\ file'[k] = <<piece>>
<1>1. (Old(i) \/ New(i)) /\ (Old(j) \/ New(j))
  BY WriteEffect DEF OnceInv
<1>2. \A k \in DOMAIN file : Parses(file[k]) /\ ~file[k][1].raised /\ file[k][1].by = ProcessOf[t]
        => file[k][1].id # event[t]
  BY NewToProcess DEF OnceInv
<1>3. <<piece>>[1] = piece
  OBVIOUS
<1>4. CASE Old(i) /\ Old(j)
  BY <1>4 DEF OnceInv, WrittenOncePerProcess
<1>5. CASE Old(i) /\ New(j)
  BY <1>2, <1>3, <1>5
<1>6. ~New(i)
  <2>1. file' \in Seq(Line)
    BY WriteEffect DEF OnceInv
  <2> QED
    BY <2>1
<1> QED
  BY <1>1, <1>4, <1>5, <1>6

LEMMA ReadIdsTyped ==
  ASSUME TypeOK
  PROVE  ReadIds \subseteq Events
<1> SUFFICES ASSUME NEW i \in DOMAIN file, Parses(file[i]) PROVE file[i][1].id \in Events
  BY DEF ReadIds
<1>1. file[i] \in Line
  BY DEF TypeOK
<1>2. file[i][1] \in Piece
  BY <1>1 DEF Line, Parses
<1> QED
  BY <1>2 DEF Piece

\* The piece a thread writes.
LEMMA PieceTyped ==
  ASSUME TypeOK, NEW t \in Threads, NEW whole \in BOOLEAN, NEW raised \in BOOLEAN
  PROVE  Written(t, whole, raised) \in Piece
  BY JsonlAssumption DEF TypeOK, Piece, Written

\* What a write that raises leaves: nothing, or a piece marked as raised.
LEMMA FailEffect ==
  ASSUME TypeOK, NEW t \in Threads, WriteFails(t)
  PROVE  \/ UNCHANGED <<file, terminated>>
         \/ \E piece \in Piece, newline \in BOOLEAN :
              /\ piece.id = event[t] /\ piece.by = ProcessOf[t] /\ piece.raised
              /\ newline => piece.whole
              /\ WritePiece(piece, newline)
<1>1. ASSUME NEW whole \in BOOLEAN, NEW newline \in BOOLEAN, newline => whole,
             WritePiece(Written(t, whole, TRUE), newline)
      PROVE  \E piece \in Piece, n \in BOOLEAN :
               /\ piece.id = event[t] /\ piece.by = ProcessOf[t] /\ piece.raised
               /\ n => piece.whole
               /\ WritePiece(piece, n)
  <2> DEFINE piece == Written(t, whole, TRUE)
  <2>1. piece \in Piece
    BY PieceTyped
  <2>2. piece.id = event[t] /\ piece.by = ProcessOf[t] /\ piece.raised = TRUE /\ piece.whole = whole
    BY DEF Written
  <2>3. WritePiece(piece, newline)
    BY <1>1
  <2> HIDE DEF piece
  <2> QED
    BY <1>1, <2>1, <2>2, <2>3
<1> QED
  BY <1>1 DEF WriteFails

-----------------------------------------------------------------------------
LEMMA OnceInit == Init => OnceInv
<1> SUFFICES ASSUME Init PROVE OnceInv
  OBVIOUS
<1>1. event \in [Threads -> Events]
  BY JsonlAssumption DEF Init
<1>2. file \in Seq(Line) /\ file = <<>> /\ DOMAIN file = {}
  BY DEF Init
<1>3. TypeOK
  BY <1>1, <1>2 DEF Init, TypeOK
<1> QED
  BY <1>2, <1>3 DEF Init, OnceInv, Locked, NotSeen, Indexed, WrittenOncePerProcess

LEMMA RestartTyped ==
  ASSUME TypeOK, NEW p \in Processes, Restarted(p)
  PROVE  /\ seen' \in [Processes -> (SUBSET Events) \cup {NoIndex}]
         /\ holder' \in [Processes -> Threads \cup {NoThread}]
         /\ pc' \in [Threads -> {"idle", "write", "written"}]
         /\ event' \in [Threads -> Events] /\ told' \subseteq Events /\ kills' \in Nat
         /\ \A t \in Threads : pc'[t] # "idle" => seen'[ProcessOf[t]] # NoIndex
  BY JsonlAssumption DEF Restarted, TypeOK

LEMMA TypeStep == TypeOK /\ [Next]_vars => TypeOK'
<1> SUFFICES ASSUME TypeOK, [Next]_vars PROVE TypeOK'
  OBVIOUS
<1>1. ASSUME NEW t \in Threads, NEW e \in Events, Lookup(t, e) PROVE TypeOK'
  <2>1. ReadIds \subseteq Events
    BY ReadIdsTyped
  <2> QED
    BY <1>1, <2>1, JsonlAssumption DEF Lookup, TypeOK
<1>2. ASSUME NEW t \in Threads, WriteLine(t) PROVE TypeOK'
  <2> DEFINE piece == Written(t, TRUE, FALSE)
  <2>1. piece \in Piece /\ WritePiece(piece, TRUE)
    BY <1>2, PieceTyped DEF WriteLine
  <2>2. file' \in Seq(Line) /\ file' # <<>> /\ terminated' = TRUE
    BY <2>1, WriteEffect
  <2> QED
    BY <1>2, <2>2 DEF WriteLine, TypeOK
<1>3. ASSUME NEW t \in Threads, Return(t) PROVE TypeOK'
  <2>1. seen' \in [Processes -> (SUBSET Events) \cup {NoIndex}]
    BY <1>3, JsonlAssumption DEF Return, TypeOK
  <2> QED
    BY <1>3, <2>1, JsonlAssumption DEF Return, Idle, TypeOK
<1>4. ASSUME NEW t \in Threads, NEW cut \in Cuts, KillInWrite(t, cut) PROVE TypeOK'
  <2> DEFINE piece == Written(t, cut = "unterminated", FALSE)
  <2>1. piece \in Piece /\ WritePiece(piece, FALSE)
    BY <1>4, PieceTyped DEF KillInWrite
  <2>2. file' \in Seq(Line) /\ file' # <<>> /\ terminated' = FALSE
    BY <2>1, WriteEffect
  <2>3. ProcessOf[t] \in Processes /\ Restarted(ProcessOf[t])
    BY <1>4, JsonlAssumption DEF KillInWrite
  <2> QED
    BY <2>2, <2>3, RestartTyped DEF TypeOK
<1>5. ASSUME NEW p \in Processes, Kill(p) PROVE TypeOK'
  BY <1>5, RestartTyped DEF Kill, TypeOK
<1>6. ASSUME NEW t \in Threads, WriteFails(t) PROVE TypeOK'
  <2>1. file' \in Seq(Line) /\ terminated' \in BOOLEAN /\ (terminated' = FALSE => file' # <<>>)
    <3>1. CASE UNCHANGED <<file, terminated>>
      BY <3>1 DEF TypeOK
    <3>2. ASSUME NEW piece \in Piece, NEW newline \in BOOLEAN, WritePiece(piece, newline)
          PROVE  file' \in Seq(Line) /\ file' # <<>> /\ terminated' = newline
      BY <3>2, WriteEffect
    <3> QED
      BY <1>6, <3>1, <3>2, FailEffect
  <2> QED
    BY <1>6, <2>1, JsonlAssumption DEF WriteFails, Idle, TypeOK
<1>7. CASE UNCHANGED vars
  BY <1>7 DEF vars, TypeOK
<1> QED
  BY <1>1, <1>2, <1>3, <1>4, <1>5, <1>6, <1>7 DEF Next

LEMMA LockedStep == TypeOK /\ Locked /\ [Next]_vars => Locked'
<1> SUFFICES ASSUME TypeOK, Locked, [Next]_vars PROVE Locked'
  OBVIOUS
<1> USE JsonlAssumption DEF TypeOK, Locked
<1>1. ASSUME NEW t \in Threads, NEW e \in Events, Lookup(t, e) PROVE Locked'
  <2>1. CASE UNCHANGED <<holder, pc>>
    BY <2>1
  <2>2. CASE /\ holder[ProcessOf[t]] = NoThread
             /\ holder' = [holder EXCEPT ![ProcessOf[t]] = t]
             /\ pc' = [pc EXCEPT ![t] = "write"]
    BY <2>2
  <2> QED
    BY <1>1, <2>1, <2>2 DEF Lookup
<1>2. ASSUME NEW t \in Threads, WriteLine(t) PROVE Locked'
  BY <1>2 DEF WriteLine
<1>3. ASSUME NEW t \in Threads, Return(t) PROVE Locked'
  BY <1>3 DEF Return, Idle
<1>4. ASSUME NEW p \in Processes, Restarted(p) PROVE Locked'
  BY <1>4 DEF Restarted
<1>5. CASE UNCHANGED vars
  BY <1>5 DEF vars
<1>6. ASSUME NEW t \in Threads, WriteFails(t) PROVE Locked'
  BY <1>6 DEF WriteFails, Idle
<1> QED
  BY <1>1, <1>2, <1>3, <1>4, <1>5, <1>6 DEF Next, Kill, KillInWrite

LEMMA NotSeenStep == TypeOK /\ Locked /\ NotSeen /\ [Next]_vars => NotSeen'
<1> SUFFICES ASSUME TypeOK, Locked, NotSeen, [Next]_vars PROVE NotSeen'
  OBVIOUS
<1> USE JsonlAssumption DEF TypeOK, Locked, NotSeen
<1>1. ASSUME NEW t \in Threads, NEW e \in Events, Lookup(t, e) PROVE NotSeen'
  <2> DEFINE p == ProcessOf[t]
             index == IF seen[p] = NoIndex THEN ReadIds ELSE seen[p]
  <2>1. seen' = [seen EXCEPT ![p] = index] /\ holder[p] = NoThread /\ pc[t] = "idle"
    BY <1>1 DEF Lookup
  <2>2. \A u \in Threads : pc[u] = "write" => ProcessOf[u] # p
    BY <2>1
  <2>3. CASE e \in index
    BY <1>1, <2>1, <2>2, <2>3 DEF Lookup
  <2>4. CASE e \notin index
    <3>1. pc' = [pc EXCEPT ![t] = "write"] /\ event' = [event EXCEPT ![t] = e]
      BY <1>1, <2>4 DEF Lookup
    <3> HIDE DEF index
    <3> QED
      BY <2>1, <2>2, <2>4, <3>1
  <2> QED
    BY <2>3, <2>4
<1>2. ASSUME NEW t \in Threads, WriteLine(t) PROVE NotSeen'
  BY <1>2 DEF WriteLine
<1>3. ASSUME NEW t \in Threads, Return(t) PROVE NotSeen'
  BY <1>3 DEF Return, Idle
<1>4. ASSUME NEW p \in Processes, Restarted(p) PROVE NotSeen'
  BY <1>4 DEF Restarted
<1>5. CASE UNCHANGED vars
  BY <1>5 DEF vars
<1>6. ASSUME NEW t \in Threads, WriteFails(t) PROVE NotSeen'
  BY <1>6 DEF WriteFails, Idle
<1> QED
  BY <1>1, <1>2, <1>3, <1>4, <1>5, <1>6 DEF Next, Kill, KillInWrite

LEMMA IndexedStep ==
  TypeOK /\ Locked /\ Indexed /\ [Next]_vars => Indexed'
<1> SUFFICES ASSUME TypeOK, Locked, Indexed, [Next]_vars PROVE Indexed'
  OBVIOUS
<1> DEFINE Holds(i, p, e) ==
             Parses(file[i]) /\ ~file[i][1].raised /\ file[i][1].by = p /\ file[i][1].id = e
           Covered(p, e) ==
             seen[p] # NoIndex =>
               \/ e \in seen[p]
               \/ \E t \in Threads : pc[t] = "written" /\ ProcessOf[t] = p /\ event[t] = e
<1>0. \A i \in DOMAIN file : \A p, e : Holds(i, p, e) => Covered(p, e) /\ p \in Processes
  <2> SUFFICES ASSUME NEW i \in DOMAIN file, Parses(file[i])
               PROVE  /\ ~file[i][1].raised => Covered(file[i][1].by, file[i][1].id)
                      /\ file[i][1].by \in Processes
    OBVIOUS
  <2>1. file[i] \in Line
    BY DEF TypeOK
  <2>2. file[i][1] \in Piece
    BY <2>1 DEF Line, Parses
  <2> QED
    BY <2>2 DEF Indexed, Piece
<1>1. ASSUME NEW t \in Threads, NEW e \in Events, Lookup(t, e) PROVE Indexed'
  <2> SUFFICES ASSUME NEW i \in DOMAIN file, NEW p, NEW d, Holds(i, p, d)
               PROVE  Covered(p, d)'
    BY <1>1 DEF Lookup, Indexed, Parses
  <2>1. d \in ReadIds
    BY DEF ReadIds
  <2>2. Covered(p, d) /\ p \in Processes
    BY <1>0
  <2>3. /\ pc[t] = "idle"
        /\ \/ pc' = pc /\ event' = event
           \/ pc' = [pc EXCEPT ![t] = "write"] /\ event' = [event EXCEPT ![t] = e]
    BY <1>1 DEF Lookup
  <2>4. \A u \in Threads : pc[u] = "written" => pc'[u] = "written" /\ event'[u] = event[u]
    BY <2>3 DEF TypeOK
  <2>5. seen'[p] = IF p = ProcessOf[t] /\ seen[p] = NoIndex THEN ReadIds ELSE seen[p]
    BY <1>1, <2>2 DEF Lookup, TypeOK
  <2> QED
    BY <2>1, <2>2, <2>4, <2>5
<1>2. ASSUME NEW t \in Threads, WriteLine(t) PROVE Indexed'
  <2> DEFINE piece == Written(t, TRUE, FALSE)
  <2>1. piece \in Piece /\ WritePiece(piece, TRUE)
    BY <1>2, PieceTyped DEF WriteLine
  <2>2. /\ pc[t] = "write" /\ pc' = [pc EXCEPT ![t] = "written"]
        /\ seen' = seen /\ event' = event
    BY <1>2 DEF WriteLine
  <2>3. \A p, e : Covered(p, e) => Covered(p, e)'
    BY <2>2 DEF TypeOK
  <2>4. /\ pc'[t] = "written" /\ event'[t] = event[t]
    BY <2>2 DEF TypeOK
  <2>4a. ASSUME NEW p, NEW e, p = ProcessOf[t] /\ e = event[t] PROVE Covered(p, e)'
    BY <2>4, <2>4a
  <2> SUFFICES ASSUME NEW i \in DOMAIN file', NEW p, NEW e, Holds(i, p, e)'
               PROVE  Covered(p, e)'
    BY DEF Indexed, Parses
  <2>5. CASE i \in DOMAIN file /\ file'[i] = file[i]
    <3>1. Holds(i, p, e)
      BY <2>5 DEF Parses
    <3> QED
      BY <1>0, <2>3, <2>5, <3>1
  <2>6. CASE file'[i] = <<piece>>
    <3>1. file'[i][1].by = p /\ file'[i][1].id = e
      OBVIOUS
    <3>2. file'[i][1] = piece
      BY <2>6
    <3>3. piece.by = ProcessOf[t] /\ piece.id = event[t]
      BY DEF Written
    <3>4. p = ProcessOf[t] /\ e = event[t]
      <4> HIDE DEF piece, Covered
      <4> QED
        BY <3>1, <3>2, <3>3
    <3> QED
      BY <2>4a, <3>4
  <2> QED
    BY <2>1, <2>5, <2>6, WriteEffect
<1>3. ASSUME NEW t \in Threads, Return(t) PROVE Indexed'
  <2> SUFFICES ASSUME NEW i \in DOMAIN file, NEW p, NEW e, Holds(i, p, e)
               PROVE  Covered(p, e)'
    BY <1>3 DEF Return, Indexed, Parses
  <2>1. Covered(p, e) /\ p \in Processes
    BY <1>0
  <2>2. /\ seen' = [seen EXCEPT ![ProcessOf[t]] = seen[ProcessOf[t]] \cup {event[t]}]
        /\ pc' = [pc EXCEPT ![t] = "idle"] /\ event' = event /\ pc[t] = "written"
    BY <1>3 DEF Return, Idle
  <2>3. seen[ProcessOf[t]] # NoIndex
    BY <2>2 DEF TypeOK
  <2>4. CASE p = ProcessOf[t]
    <3>1. ASSUME NEW u \in Threads, pc[u] = "written", ProcessOf[u] = p PROVE u = t
      BY <2>2, <2>4, <3>1 DEF Locked
    <3> QED
      BY <2>1, <2>2, <2>3, <2>4, <3>1 DEF TypeOK
  <2>5. CASE p # ProcessOf[t]
    BY <2>1, <2>2, <2>5 DEF TypeOK
  <2> QED
    BY <2>4, <2>5
<1>4. ASSUME NEW q \in Processes, Restarted(q) PROVE \A p \in Processes : \A e : Covered(p, e) => Covered(p, e)'
  BY <1>4 DEF Restarted, TypeOK
<1>5. ASSUME NEW t \in Threads, NEW cut \in Cuts, KillInWrite(t, cut) PROVE Indexed'
  <2> DEFINE piece == Written(t, cut = "unterminated", FALSE)
  <2>1. piece \in Piece /\ WritePiece(piece, FALSE) /\ Restarted(ProcessOf[t]) /\ ProcessOf[t] \in Processes
    BY <1>5, PieceTyped, JsonlAssumption DEF KillInWrite
  <2>2. seen'[ProcessOf[t]] = NoIndex
    BY <2>1 DEF Restarted, TypeOK
  <2> SUFFICES ASSUME NEW i \in DOMAIN file', NEW p, NEW e, Holds(i, p, e)'
               PROVE  Covered(p, e)'
    BY DEF Indexed, Parses
  <2>3. CASE i \in DOMAIN file /\ file'[i] = file[i]
    <3>1. Holds(i, p, e)
      BY <2>3 DEF Parses
    <3>2. Covered(p, e) /\ p \in Processes
      BY <1>0, <2>3, <3>1
    <3> QED
      BY <1>4, <2>1, <3>2
  <2>4. CASE file'[i] = <<piece>>
    <3>1. p = ProcessOf[t]
      BY <2>4 DEF Written
    <3> QED
      BY <2>2, <3>1
  <2> QED
    BY <2>1, <2>3, <2>4, WriteEffect
<1>6. ASSUME NEW q \in Processes, Kill(q) PROVE Indexed'
  <2>1. UNCHANGED file /\ Restarted(q)
    BY <1>6 DEF Kill
  <2> SUFFICES ASSUME NEW i \in DOMAIN file, NEW p, NEW e, Holds(i, p, e)
               PROVE  Covered(p, e)'
    BY <2>1 DEF Indexed, Parses
  <2> QED
    BY <1>0, <1>4, <2>1
<1>7. ASSUME NEW t \in Threads, WriteFails(t) PROVE Indexed'
  <2>1. /\ pc[t] = "write" /\ pc' = [pc EXCEPT ![t] = "idle"]
        /\ seen' = seen /\ event' = event
    BY <1>7 DEF WriteFails, Idle
  <2>2. \A p, e : Covered(p, e) => Covered(p, e)'
    BY <2>1 DEF TypeOK
  <2> SUFFICES ASSUME NEW i \in DOMAIN file', NEW p, NEW e, Holds(i, p, e)'
               PROVE  Covered(p, e)'
    BY DEF Indexed, Parses
  <2>3. i \in DOMAIN file /\ file'[i] = file[i]
    <3>1. CASE UNCHANGED file
      BY <3>1
    <3>2. ASSUME NEW piece \in Piece, NEW newline \in BOOLEAN, piece.raised, WritePiece(piece, newline)
          PROVE  i \in DOMAIN file /\ file'[i] = file[i]
      <4>1. \/ i \in DOMAIN file /\ file'[i] = file[i]
            \/ file'[i] = <<piece>>
        BY <3>2, WriteEffect
      <4>2. ~file'[i][1].raised
        OBVIOUS
      <4>3. file'[i] # <<piece>>
        BY <3>2, <4>2
      <4> QED
        BY <4>1, <4>3
    <3> QED
      BY <1>7, <3>1, <3>2, FailEffect
  <2>4. Holds(i, p, e)
    BY <2>3 DEF Parses
  <2> QED
    BY <1>0, <2>2, <2>3, <2>4
<1>8. CASE UNCHANGED vars
  BY <1>8 DEF vars, Indexed, Parses
<1> QED
  BY <1>1, <1>2, <1>3, <1>5, <1>6, <1>7, <1>8 DEF Next

LEMMA OnceStep == OnceInv /\ [Next]_vars => OnceInv'
<1> SUFFICES ASSUME OnceInv, [Next]_vars PROVE WrittenOncePerProcess'
  BY TypeStep, LockedStep, NotSeenStep, IndexedStep DEF OnceInv
<1>1. CASE UNCHANGED file
  BY <1>1 DEF OnceInv, WrittenOncePerProcess, Parses
<1>2. ASSUME NEW t \in Threads, WriteLine(t) PROVE WrittenOncePerProcess'
  <2> DEFINE piece == Written(t, TRUE, FALSE)
  <2>1. piece \in Piece /\ WritePiece(piece, TRUE) /\ pc[t] = "write"
    BY <1>2, PieceTyped DEF WriteLine, OnceInv
  <2> QED
    BY <2>1, WriteOnce DEF Written
<1>3. ASSUME NEW t \in Threads, NEW cut \in Cuts, KillInWrite(t, cut) PROVE WrittenOncePerProcess'
  <2> DEFINE piece == Written(t, cut = "unterminated", FALSE)
  <2>1. piece \in Piece /\ WritePiece(piece, FALSE) /\ pc[t] = "write"
    BY <1>3, PieceTyped DEF KillInWrite, OnceInv
  <2> QED
    BY <2>1, WriteOnce DEF Written
<1>4. ASSUME NEW t \in Threads, WriteFails(t) PROVE WrittenOncePerProcess'
  <2>1. pc[t] = "write"
    BY <1>4 DEF WriteFails
  <2> QED
    BY <1>1, <1>4, <2>1, FailEffect, WriteOnce DEF OnceInv
<1>5. \/ UNCHANGED file
      \/ \E t \in Threads :
           WriteLine(t) \/ WriteFails(t) \/ \E cut \in Cuts : KillInWrite(t, cut)
  BY DEF Next, Lookup, Return, Kill, vars
<1> QED
  BY <1>1, <1>2, <1>3, <1>4, <1>5

\* A process, restarts included, never writes an event again that it or an
\* earlier incarnation of it has written, unless that write raised, however
\* many threads share it (JsonlEventStore.append: check and write under one
\* lock, the id indexed only after a write that did not raise).
THEOREM OncePerProcess == Spec => []WrittenOncePerProcess
<1>1. OnceInv => WrittenOncePerProcess
  BY DEF OnceInv
<1> QED
  BY <1>1, OnceInit, OnceStep, PTL DEF Spec

-----------------------------------------------------------------------------
(* As long as nothing was written after a torn line, only the last line    *)
(* may fail to parse, and whatever an instance has indexed or written can  *)
(* be read.                                                                *)

GlueInv ==
  Unglued(file) =>
    /\ \A i \in DOMAIN file : terminated \/ i < Len(file) => Parses(file[i])
    /\ \A p \in Processes : seen[p] # NoIndex => seen[p] \subseteq ReadIds
    /\ \A t \in Threads : pc[t] = "written" => event[t] \in ReadIds

\* A write that leaves no glued line was appended to a log that reads whole.
LEMMA UngluedWrite ==
  ASSUME TypeOK, GlueInv, NEW piece \in Piece, NEW newline \in BOOLEAN,
         newline => piece.whole, WritePiece(piece, newline), Unglued(file')
  PROVE  /\ Unglued(file)
         /\ \A i \in DOMAIN file' : terminated' \/ i < Len(file') => Parses(file'[i])
         /\ ReadIds' = IF piece.whole THEN ReadIds \cup {piece.id} ELSE ReadIds
<1>0. file \in Seq(Line)
  BY DEF TypeOK
<1>1. terminated
  <2>1. ASSUME ~terminated PROVE FALSE
    <3>1. /\ file' \in Seq(Line) /\ Len(file') = Len(file) /\ Len(file) \in Nat \ {0}
          /\ Len(file'[Len(file)]) # 1
      BY <2>1, WriteTornLine
    <3> QED
      BY <3>1 DEF Unglued
  <2> QED
    BY <2>1
<1>2. /\ file' \in Seq(Line) /\ terminated' = newline /\ Len(file') = Len(file) + 1
      /\ file'[Len(file')] = <<piece>> /\ Len(file) \in Nat
      /\ \A i \in DOMAIN file : file'[i] = file[i]
  BY <1>1, WriteOwnLine
<1>3. DOMAIN file = 1..Len(file) /\ DOMAIN file' = 1..Len(file')
  BY <1>0, <1>2
<1>4. Unglued(file)
  BY <1>2, <1>3 DEF Unglued
<1>5. \A i \in DOMAIN file : Parses(file[i]) /\ Parses(file'[i])
  BY <1>1, <1>2, <1>4 DEF GlueInv
<1>6. Parses(file'[Len(file')]) <=> piece.whole
  <2>1. Parses(<<piece>>) <=> piece.whole
    BY DEF Parses
  <2> QED
    BY <1>2, <2>1
<1>7. file'[Len(file')][1].id = piece.id
  BY <1>2
<1>8. \A i \in DOMAIN file' : i \in DOMAIN file \/ i = Len(file')
  BY <1>2, <1>3
<1>9. DOMAIN file \subseteq DOMAIN file' /\ Len(file') \in DOMAIN file'
  BY <1>2, <1>3
<1>10. \A i \in DOMAIN file : file'[i][1].id = file[i][1].id
  BY <1>2
<1>11. ReadIds' = IF piece.whole THEN ReadIds \cup {piece.id} ELSE ReadIds
  BY <1>5, <1>6, <1>7, <1>8, <1>9, <1>10 DEF ReadIds
<1>12. ASSUME NEW i \in DOMAIN file', terminated' \/ i < Len(file') PROVE Parses(file'[i])
  <2>1. CASE i \in DOMAIN file
    BY <1>5, <2>1
  <2>2. CASE i = Len(file')
    <3>1. terminated' /\ newline
      BY <1>2, <1>12, <2>2
    <3> QED
      BY <1>6, <2>2, <3>1
  <2> QED
    BY <1>8, <2>1, <2>2
<1> QED
  BY <1>4, <1>11, <1>12

LEMMA GlueInit == Init => GlueInv
  BY DEF Init, GlueInv, Unglued

LEMMA GlueStep == TypeOK /\ GlueInv /\ [Next]_vars => GlueInv'
<1> SUFFICES ASSUME TypeOK, GlueInv, [Next]_vars, Unglued(file') PROVE GlueInv'
  BY DEF GlueInv
<1> USE DEF GlueInv
<1>1. ASSUME NEW t \in Threads, NEW e \in Events, Lookup(t, e) PROVE GlueInv'
  <2>1. UNCHANGED <<file, terminated>> /\ ReadIds' = ReadIds
    BY <1>1 DEF Lookup, ReadIds, Parses
  <2>2. \A p \in Processes : seen'[p] = seen[p] \/ seen'[p] = ReadIds
    BY <1>1 DEF Lookup, TypeOK
  <2>3. \A u \in Threads : pc'[u] = "written" => pc[u] = "written" /\ event'[u] = event[u]
    BY <1>1 DEF Lookup, TypeOK
  <2> QED
    BY <2>1, <2>2, <2>3 DEF Unglued, Parses
<1>2. ASSUME NEW t \in Threads, WriteLine(t) PROVE GlueInv'
  <2> DEFINE piece == Written(t, TRUE, FALSE)
  <2>1. piece \in Piece /\ WritePiece(piece, TRUE)
    BY <1>2, PieceTyped DEF WriteLine
  <2>2. /\ Unglued(file) /\ ReadIds' = ReadIds \cup {event[t]}
        /\ \A i \in DOMAIN file' : terminated' \/ i < Len(file') => Parses(file'[i])
    BY <2>1, UngluedWrite DEF Written
  <2>3. seen' = seen /\ event' = event /\ pc' = [pc EXCEPT ![t] = "written"]
    BY <1>2 DEF WriteLine
  <2> QED
    BY <2>2, <2>3 DEF TypeOK, Parses
<1>3. ASSUME NEW t \in Threads, Return(t) PROVE GlueInv'
  <2>1. UNCHANGED <<file, terminated, event>> /\ ReadIds' = ReadIds /\ pc[t] = "written"
    BY <1>3 DEF Return, ReadIds, Parses
  <2>2. \A u \in Threads : pc'[u] = "written" => pc[u] = "written"
    BY <1>3 DEF Return, Idle, TypeOK
  <2>3. seen' = [seen EXCEPT ![ProcessOf[t]] = seen[ProcessOf[t]] \cup {event[t]}]
    BY <1>3 DEF Return
  <2>4. seen[ProcessOf[t]] # NoIndex /\ ProcessOf[t] \in Processes
    BY <2>1, JsonlAssumption DEF TypeOK
  <2> QED
    BY <2>1, <2>2, <2>3, <2>4 DEF Unglued, Parses, TypeOK
<1>4. ASSUME NEW p \in Processes, Restarted(p)
      PROVE  /\ \A q \in Processes : seen'[q] = seen[q] \/ seen'[q] = NoIndex
             /\ \A u \in Threads : pc'[u] = "written" => pc[u] = "written" /\ event'[u] = event[u]
  BY <1>4 DEF Restarted, TypeOK
<1>5. ASSUME NEW t \in Threads, NEW cut \in Cuts, KillInWrite(t, cut) PROVE GlueInv'
  <2> DEFINE piece == Written(t, cut = "unterminated", FALSE)
  <2>1. piece \in Piece /\ WritePiece(piece, FALSE) /\ Restarted(ProcessOf[t]) /\ ProcessOf[t] \in Processes
    BY <1>5, PieceTyped, JsonlAssumption DEF KillInWrite
  <2>2. /\ Unglued(file) /\ ReadIds \subseteq ReadIds'
        /\ \A i \in DOMAIN file' : terminated' \/ i < Len(file') => Parses(file'[i])
    BY <2>1, UngluedWrite
  <2> QED
    BY <1>4, <2>1, <2>2 DEF Parses
<1>6. ASSUME NEW p \in Processes, Kill(p) PROVE GlueInv'
  <2>1. UNCHANGED <<file, terminated>> /\ ReadIds' = ReadIds /\ Restarted(p)
    BY <1>6 DEF Kill, ReadIds, Parses
  <2> QED
    BY <1>4, <2>1 DEF Unglued, Parses
<1>7. ASSUME NEW t \in Threads, WriteFails(t) PROVE GlueInv'
  <2>1. /\ seen' = seen /\ event' = event
        /\ \A u \in Threads : pc'[u] = "written" => pc[u] = "written"
    BY <1>7 DEF WriteFails, Idle, TypeOK
  <2>2. CASE UNCHANGED <<file, terminated>>
    <3>1. ReadIds' = ReadIds
      BY <2>2 DEF ReadIds, Parses
    <3> QED
      BY <2>1, <2>2, <3>1 DEF Unglued, Parses
  <2>3. ASSUME NEW piece \in Piece, NEW newline \in BOOLEAN, newline => piece.whole,
               WritePiece(piece, newline)
        PROVE  GlueInv'
    <3>1. /\ Unglued(file) /\ ReadIds \subseteq ReadIds'
          /\ \A i \in DOMAIN file' : terminated' \/ i < Len(file') => Parses(file'[i])
      BY <2>3, UngluedWrite
    <3> QED
      BY <2>1, <3>1 DEF Parses
  <2> QED
    BY <1>7, <2>2, <2>3, FailEffect
<1>8. CASE UNCHANGED vars
  BY <1>8 DEF vars, Unglued, Parses, ReadIds
<1> QED
  BY <1>1, <1>2, <1>3, <1>5, <1>6, <1>7, <1>8 DEF Next

\* One step, while the file reads whole.
LEMMA LogStep ==
  TypeOK /\ GlueInv /\ GlueInv' /\ [Next]_vars =>
    [Unglued(file') => ~ReadRaises' /\ [Log!Next]_<<ReadIds, told>>]_vars
<1> SUFFICES ASSUME TypeOK, GlueInv, GlueInv', Next, Unglued(file')
             PROVE  ~ReadRaises' /\ [Log!Next]_<<ReadIds, told>>
  OBVIOUS
<1>0. ~ReadRaises'
  <2>1. file' \in Seq(Line)
    BY TypeStep DEF TypeOK
  <2> QED
    BY <2>1 DEF GlueInv, ReadRaises
<1>1. ASSUME NEW t \in Threads, NEW e \in Events, Lookup(t, e) PROVE [Log!Next]_<<ReadIds, told>>
  <2>1. UNCHANGED file /\ ReadIds' = ReadIds
    BY <1>1 DEF Lookup, ReadIds, Parses
  <2>2. CASE told' = told
    BY <2>1, <2>2
  <2>3. CASE told' # told
    <3>1. /\ told' = told \cup {e}
          /\ e \in IF seen[ProcessOf[t]] = NoIndex THEN ReadIds ELSE seen[ProcessOf[t]]
      BY <1>1, <2>3 DEF Lookup
    <3>2. e \in ReadIds
      BY <2>1, <3>1, JsonlAssumption DEF GlueInv
    <3> QED
      BY <2>1, <3>1, <3>2 DEF Log!Next, Log!Answer
  <2> QED
    BY <2>2, <2>3
<1>2. ASSUME NEW t \in Threads, WriteLine(t) PROVE [Log!Next]_<<ReadIds, told>>
  <2> DEFINE piece == Written(t, TRUE, FALSE)
  <2>1. piece \in Piece /\ WritePiece(piece, TRUE) /\ told' = told /\ event[t] \in Events
    BY <1>2, PieceTyped DEF WriteLine, TypeOK
  <2>2. ReadIds' = ReadIds \cup {event[t]}
    BY <2>1, UngluedWrite DEF Written
  <2> QED
    BY <2>1, <2>2 DEF Log!Next, Log!Write
<1>3. ASSUME NEW t \in Threads, Return(t) PROVE [Log!Next]_<<ReadIds, told>>
  <2>1. /\ UNCHANGED file /\ ReadIds' = ReadIds
        /\ pc[t] = "written" /\ told' = told \cup {event[t]}
    BY <1>3 DEF Return, ReadIds, Parses
  <2>2. event[t] \in ReadIds /\ event[t] \in Events
    BY <2>1 DEF GlueInv, TypeOK
  <2> QED
    BY <2>1, <2>2 DEF Log!Next, Log!Answer
<1>4. ASSUME NEW t \in Threads, NEW cut \in Cuts, KillInWrite(t, cut) PROVE [Log!Next]_<<ReadIds, told>>
  <2> DEFINE piece == Written(t, cut = "unterminated", FALSE)
  <2>1. /\ piece \in Piece /\ WritePiece(piece, FALSE) /\ told' = told /\ event[t] \in Events
    BY <1>4, PieceTyped DEF KillInWrite, Restarted, TypeOK
  <2>2. ReadIds' = ReadIds \/ ReadIds' = ReadIds \cup {event[t]}
    BY <2>1, UngluedWrite DEF Written
  <2> QED
    BY <2>1, <2>2 DEF Log!Next, Log!Write
<1>5. ASSUME NEW p \in Processes, Kill(p) PROVE [Log!Next]_<<ReadIds, told>>
  BY <1>5 DEF Kill, Restarted, ReadIds, Parses
<1>6. ASSUME NEW t \in Threads, WriteFails(t) PROVE [Log!Next]_<<ReadIds, told>>
  <2>1. told' = told /\ event[t] \in Events
    BY <1>6 DEF WriteFails, TypeOK
  <2>2. ReadIds' = ReadIds \/ ReadIds' = ReadIds \cup {event[t]}
    <3>1. CASE UNCHANGED <<file, terminated>>
      BY <3>1 DEF ReadIds, Parses
    <3>2. ASSUME NEW piece \in Piece, NEW newline \in BOOLEAN, newline => piece.whole,
                 piece.id = event[t], WritePiece(piece, newline)
          PROVE  ReadIds' = ReadIds \/ ReadIds' = ReadIds \cup {event[t]}
      BY <3>2, UngluedWrite
    <3> QED
      BY <1>6, <3>1, <3>2, FailEffect
  <2> QED
    BY <2>1, <2>2 DEF Log!Next, Log!Write
<1> QED
  BY <1>0, <1>1, <1>2, <1>3, <1>4, <1>5, <1>6 DEF Next

\* However many instances share the file, wherever they are killed and whatever
\* a write that raises leaves, the file implements the append-only log (fold/store.py, EventStore) until the
\* first line written after a torn one.
THEOREM AppendOnlyUntilGlued == Spec => LogUntilGlued
<1>1. Init => TypeOK /\ GlueInv
  BY OnceInit, GlueInit DEF OnceInv
<1>2. TypeOK /\ GlueInv /\ [Next]_vars => (TypeOK /\ GlueInv)'
  BY TypeStep, GlueStep
<1>3. TypeOK /\ GlueInv /\ (TypeOK /\ GlueInv)' /\ [Next]_vars =>
        [Unglued(file') => ~ReadRaises' /\ [Log!Next]_<<ReadIds, told>>]_vars
  BY LogStep
<1> QED
  BY <1>1, <1>2, <1>3, PTL DEF Spec, LogUntilGlued
=============================================================================

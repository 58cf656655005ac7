------------------------ MODULE SerialBackendProofs ------------------------
(***************************************************************************)
(* Proofs about the serial backend, for responses, buffers, limits and     *)
(* pauses of any size and either serial device.                            *)
(***************************************************************************)
EXTENDS SerialBackend, SequenceTheorems, TLAPS

(***************************************************************************)
(* The inductive invariant, in parts.                                      *)
(***************************************************************************)

Bit == {0, 1}
IoStates == {"free", "sent", "replied"}

\* The program counters between SendIO() and the return of serial_cmd_read.
Waits == {"wait", "got", "abort", "timeout"}

\* TypeOK with the variables it leaves open.
Types ==
  /\ serial_name \in {"fuji", "stock"}
  /\ open \in Bit /\ channel_error \in Bit /\ serial_failure_status \in Bit
  /\ serial_hidden_overrun \in Bit /\ io_Status \in Bit /\ sig_serial \in Bit
  /\ sig_timer \in Bit /\ latch \in Bit /\ begun \in Bit /\ owed \in Bit
  /\ misuse \in Bit
  /\ pc \in {"idle", "openquery", "openfail", "flush", "write", "read",
             "peek", "map", "leftover", "drain", "slice", "end", "wait", "got",
             "abort", "timeout"}
  /\ reader \in {"-", "open", "flush", "byte", "peek", "leftover", "drain"}
  /\ session_result \in {"-", "OK", "IO", "INVALID", "TIMEOUT"}
  /\ result \in {"-", "OK", "TRANSPORT", "INVALID", "TIMEOUT"}
  /\ serial_io \in IoStates /\ timer_io \in IoStates
  /\ need \in Nat /\ quiet \in 0..MaxQuiet
  /\ read_buf \in Seq(Nat) /\ data \in Seq(Nat) /\ ring \in Seq(Nat)
  /\ line \in Seq(Nat) /\ got \in Seq(Nat)

\* The counters of session_flush_until_idle stay within their limits.
DrainBooks ==
  /\ drain \in [empty : 0..DrainIdle, waited : 0..DrainCap,
                steps : 0..DrainSteps]
  /\ pc # "end" => drain.steps < DrainSteps

\* Who has the two requests, and what a read that is over has brought.
ReadBooks ==
  /\ pc \notin Waits =>
       /\ serial_io = "free" /\ timer_io = "free"
       /\ reader = "-" /\ data = <<>> /\ io_Status = 0
  /\ pc \in Waits => reader # "-"
  /\ pc = "wait" => serial_io # "free" /\ timer_io # "free"
  /\ pc = "got" => serial_io = "replied"
  /\ pc = "timeout" => serial_io = "free" /\ data = <<>>
  /\ serial_io = "sent" => data = <<>> /\ io_Status = 0
  /\ serial_io = "replied" => Len(data) = need
  /\ reader = "byte" => need <= ReadBuf
  /\ pc # "idle" => open = 1
  /\ Len(read_buf) <= ReadBuf
  /\ misuse = 0

\* Before the request is written, and while its response is read.
Sending   == pc \in {"flush", "write"} \/ reader = "flush"
Receiving == pc = "read" \/ (reader = "byte" /\ pc # "timeout")

\* Bytes of an earlier response only.
AllStale(s) == \A i \in 1..Len(s) : s[i] = 0

\* Bytes of an earlier response, then the response from its first byte on.
Follows(s, k) == \A i \in 1..Len(s) : s[i] = IF i <= k THEN 0 ELSE i - k
Clean(s) == \E k \in Nat : Follows(s, k)

\* What has been taken out of the serial device for the session, and all that
\* is there for it.
Handed == got \o (read_buf \o (IF reader = "byte" THEN data ELSE <<>>))
Stream == Handed \o (ring \o line)

\* No overrun has been noted, reported by a read, or seen as an error.
NoneNoted ==
  serial_hidden_overrun = 0 /\ channel_error = 0 /\ io_Status = 0

\* The session has the response, without a hole.
Complete ==
  \E k \in 0..Len(got) :
    got = [i \in 1..(k + ResponseLen) |-> IF i <= k THEN 0 ELSE i - k]

\* The bytes on their way from the line to the session.
StreamBooks ==
  /\ Sending =>
       got = <<>> /\ read_buf = <<>> /\ AllStale(ring) /\ AllStale(line)
  /\ reader = "byte" => read_buf = <<>>
  /\ Receiving /\ NoneNoted => Clean(Handed)
  /\ Receiving /\ NoneNoted /\ latch = 0 => Clean(Stream)

\* Which results go with a complete response.
ResultBooks ==
  /\ Sending \/ pc \in {"read", "peek"} \/ reader \in {"byte", "peek"} =>
       session_result # "OK"
  /\ (/\ pc = "map" /\ session_result = "OK" /\ serial_hidden_overrun = 0)
       => Complete
  /\ result = "OK" => pc = "end" /\ Complete

-----------------------------------------------------------------------------
(* Sequences.                                                              *)

\* What a CMD_READ of n bytes takes out of the ring, and what it leaves.
LEMMA SplitTypes ==
  ASSUME NEW s \in Seq(Nat), NEW n \in Nat, n <= Len(s)
  PROVE  /\ SubSeq(s, 1, n) \in Seq(Nat) /\ Len(SubSeq(s, 1, n)) = n
         /\ SubSeq(s, n + 1, Len(s)) \in Seq(Nat)
         /\ Len(SubSeq(s, n + 1, Len(s))) = Len(s) - n
         /\ \A i \in 1..n : SubSeq(s, 1, n)[i] = s[i]
         /\ \A i \in 1..(Len(s) - n) : SubSeq(s, n + 1, Len(s))[i] = s[n + i]
<1>1. Len(s) \in Nat
  OBVIOUS
<1>2. QED BY <1>1

\* The two parts of a ring are the ring.
LEMMA SplitJoins ==
  ASSUME NEW s \in Seq(Nat), NEW n \in Nat, n <= Len(s)
  PROVE  SubSeq(s, 1, n) \o SubSeq(s, n + 1, Len(s)) = s
<1>1. /\ 1 \in 1..(Len(s) + 1) /\ n \in (1 - 1)..Len(s) /\ Len(s) \in n..Len(s)
  OBVIOUS
<1>2. QED BY <1>1, ConcatAdjacentSubSeq, SubSeqFull

\* What is left of an earlier response.
LEMMA StaleTypes ==
  ASSUME NEW s \in Seq(Nat)
  PROVE  Stale(s) \in Seq(Nat) /\ AllStale(Stale(s))
  BY DEF Stale, AllStale

-----------------------------------------------------------------------------
(* The two requests.                                                       *)

\* The constants without the times.
LEMMA Limits ==
  /\ ResponseLen \in Nat /\ ResponseLen > 0
  /\ ReadBuf \in Nat \ {0} /\ DrainSteps \in Nat /\ DrainSteps > 0
  /\ DrainIdle \in Nat /\ DrainCap \in Nat /\ MaxQuiet \in Nat /\ MaxLine \in Nat
  BY ConstantsAssumption

\* AtMost never asks for more than the buffer holds, nor for nothing.
LEMMA AtMostBooks ==
  ASSUME NEW n \in Nat, n > 0, NEW max \in Nat \ {0}
  PROVE  AtMost(n, max) \in Nat /\ AtMost(n, max) > 0 /\ AtMost(n, max) <= max
  BY DEF AtMost

\* Advertised counts are numbers.
LEMMA AdvertisedTypes ==
  ASSUME Types, NEW n \in Advertised
  PROVE  n \in Nat
  BY DEF Types, Advertised

\* SendIO() of a read and its timer, when both requests are free.
LEMMA SendReadBooks ==
  ASSUME Types, ReadBooks, pc \notin Waits, NEW n \in Nat, NEW for,
         SendRead(n, for)
  PROVE  /\ pc' = "wait" /\ reader' = for /\ need' = n
         /\ timer_io' = "sent" /\ misuse' = 0
         /\ sig_serial' \in Bit /\ io_Status' \in Bit
         /\ data' \in Seq(Nat) /\ ring' \in Seq(Nat)
         /\ UNCHANGED <<sig_timer, latch, line, begun, quiet>>
         /\ \/ serial_io' = "replied" /\ Len(data') = n
               /\ io_Status' = latch /\ ring = data' \o ring'
            \/ /\ serial_io' = "sent" /\ data' = <<>> /\ io_Status' = 0
               /\ UNCHANGED ring
<1>1. /\ serial_io = "free" /\ timer_io = "free" /\ data = <<>>
      /\ io_Status = 0 /\ misuse = 0
  BY DEF ReadBooks
<1>2. /\ pc' = "wait" /\ reader' = for /\ need' = n
      /\ timer_io' = "sent" /\ misuse' = 0
      /\ UNCHANGED <<sig_timer, latch, line, begun, quiet>>
  BY <1>1 DEF SendRead
<1>3. ring \in Seq(Nat) /\ latch \in Bit /\ sig_serial \in Bit /\ Len(ring) \in Nat
  BY DEF Types
<1>4. CASE serial_name = "fuji" /\ Len(ring) >= n
  <2>1. /\ serial_io' = "replied" /\ sig_serial' = 1 /\ io_Status' = latch
        /\ data' = SubSeq(ring, 1, n)
        /\ ring' = SubSeq(ring, n + 1, Len(ring))
    BY <1>4 DEF SendRead
  <2>2. /\ data' \in Seq(Nat) /\ ring' \in Seq(Nat) /\ Len(data') = n
        /\ data' \o ring' = ring
    BY <1>3, <1>4, <2>1, SplitTypes, SplitJoins
  <2>3. QED BY <1>2, <1>3, <2>1, <2>2 DEF Bit
<1>5. CASE ~(serial_name = "fuji" /\ Len(ring) >= n)
  <2>1. serial_io' = "sent" /\ UNCHANGED <<sig_serial, io_Status, data, ring>>
    BY <1>5 DEF SendRead
  <2>2. data' \in Seq(Nat)
    BY <1>1, <2>1, EmptySeq
  <2>3. QED BY <1>1, <1>2, <1>3, <2>1, <2>2 DEF Bit
<1>6. QED BY <1>4, <1>5

\* What the steps that ask the serial device leave as it is.
Kept == UNCHANGED <<serial_name, open, read_buf, result, got, owed>>
Noted ==
  /\ channel_error' \in Bit /\ serial_failure_status' \in Bit
  /\ serial_hidden_overrun' \in Bit
  /\ session_result' \in {"-", "OK", "IO", "INVALID", "TIMEOUT"}

\* Everything but the bytes: well typed, the drain within its limits, and the
\* two requests with one owner each.
Books == Types /\ DrainBooks /\ ReadBooks

\* A step that sends a read keeps the books.
LEMMA SendReadKeeps ==
  ASSUME Books, pc \notin Waits, pc \notin {"idle", "end"}, NEW n \in Nat,
         NEW for \in {"open", "flush", "byte", "peek", "leftover", "drain"},
         for = "byte" => n <= ReadBuf,
         SendRead(n, for), Kept, Noted, UNCHANGED drain
  PROVE  Books'
<1>1. /\ pc' = "wait" /\ reader' = for /\ need' = n
      /\ timer_io' = "sent" /\ misuse' = 0
      /\ sig_serial' \in Bit /\ io_Status' \in Bit
      /\ data' \in Seq(Nat) /\ ring' \in Seq(Nat)
      /\ UNCHANGED <<sig_timer, latch, line, begun, quiet>>
      /\ \/ serial_io' = "replied" /\ Len(data') = n
         \/ serial_io' = "sent" /\ data' = <<>> /\ io_Status' = 0
  BY SendReadBooks DEF Books
<1>2. Types'
  BY <1>1 DEF Books, Types, Kept, Noted, IoStates, Bit
<1>3. DrainBooks'
  BY <1>1 DEF Books, DrainBooks, Waits
<1>4. ReadBooks'
  BY <1>1 DEF Books, ReadBooks, Kept, Waits
<1>5. QED BY <1>2, <1>3, <1>4 DEF Books

\* So does one that sends none.
LEMMA NoReadKeeps ==
  ASSUME Books, pc \notin Waits, pc' \notin Waits, NoRead, Kept, Noted,
         pc' \in {"idle", "write", "read", "peek", "map", "drain", "end", "slice"},
         UNCHANGED drain, pc \notin {"idle", "end"}
  PROVE  Books'
<1>1. UNCHANGED <<reader, need, serial_io, timer_io, data, io_Status, sig_serial,
                  sig_timer, ring, latch, line, begun, quiet, misuse>>
  BY DEF NoRead, ioVars, lineVars
<1>2. Types'
  BY <1>1 DEF Books, Types, Kept, Noted
<1>3. DrainBooks'
  BY <1>1 DEF Books, DrainBooks, Waits
<1>4. ReadBooks'
  BY <1>1 DEF Books, ReadBooks, Kept
<1>5. QED BY <1>2, <1>3, <1>4 DEF Books

\* The return of serial_cmd_read and what its caller does with the code.
LEMMA ReturnsKeeps ==
  ASSUME Books, pc \in {"got", "timeout"}, NEW rc \in {"OK", "IO", "TIMEOUT"},
         rc = "TIMEOUT" \/ pc = "got", Returns(rc),
         serial_io' = "free", timer_io' = "free", sig_serial' \in Bit,
         sig_timer' \in Bit, UNCHANGED misuse
  PROVE  Books'
<1> USE Limits
<1>1. /\ reader # "-" /\ Len(read_buf) <= ReadBuf /\ misuse = 0
      /\ reader = "byte" => need <= ReadBuf
      /\ pc = "got" => Len(data) = need
      /\ open = 1
  BY DEF Books, ReadBooks, Waits
<1>2. /\ UNCHANGED <<serial_name, open, result, ring, latch, line, begun, quiet,
                      got, owed>>
      /\ data' = <<>> /\ io_Status' = 0 /\ need' = 0 /\ reader' = "-"
  BY DEF Returns, lineVars
<1>3. pc' \in {"peek", "read", "flush", "write", "drain", "end", "map", "idle",
                "openfail"}
  BY DEF Returns, AfterFlush
<1>4. channel_error' \in Bit /\ serial_failure_status' \in Bit
      /\ serial_hidden_overrun' \in Bit
  BY DEF Returns, Books, Types, Bit
<1>5. session_result' \in {"-", "OK", "IO", "INVALID", "TIMEOUT"}
  BY DEF Returns, Books, Types
<1>6. read_buf' \in Seq(Nat) /\ Len(read_buf') <= ReadBuf
  <2>1. read_buf' = IF reader = "byte" /\ rc = "OK" THEN data ELSE <<>>
    BY DEF Returns
  <2>2. <<>> \in Seq(Nat) /\ Len(<<>>) = 0 /\ data \in Seq(Nat)
    BY EmptySeq DEF Books, Types
  <2>3. QED BY <1>1, <2>1, <2>2
<1>7. Types'
  <2>1. data' \in Seq(Nat)
    BY <1>2, EmptySeq
  <2>2. QED BY <1>2, <1>3, <1>4, <1>5, <1>6, <2>1 DEF Books, Types, Bit, IoStates
<1>8. ReadBooks'
  BY <1>1, <1>2, <1>3, <1>6 DEF ReadBooks, Waits
<1>9. DrainBooks'
  <2>1. /\ drain \in [empty : 0..DrainIdle, waited : 0..DrainCap,
                       steps : 0..DrainSteps]
        /\ drain.steps < DrainSteps
    BY DEF Books, DrainBooks
  <2>2. CASE reader = "drain" /\ rc = "OK"
    <3>1. /\ drain' = [empty |-> 0, waited |-> drain.waited, steps |-> drain.steps + 1]
          /\ pc' = IF drain.steps + 1 < DrainSteps THEN "drain" ELSE "end"
      BY <2>2 DEF Returns, DrainedOne
    <3>2. QED BY <2>1, <3>1 DEF DrainBooks
  <2>3. CASE ~(reader = "drain" /\ rc = "OK")
    BY <2>1, <2>3 DEF Returns, DrainBooks
  <2>4. QED BY <2>2, <2>3
<1>10. QED BY <1>7, <1>8, <1>9 DEF Books


\* Every reachable state of the backend is well typed, the drain keeps within
\* its limits, and no request is sent while it is outstanding.
THEOREM BackendBooks == Spec => []Books
<1> USE Limits
<1>1. Init => Books
  BY DEF Init, Books, Types, DrainBooks, ReadBooks, Bit, IoStates, NoDrain, Waits
<1>2. Books /\ [Next]_vars => Books'
  <2> SUFFICES ASSUME Books, [Next]_vars PROVE Books'
    OBVIOUS
  <2> USE DEF ioVars, lineVars, errVars, Bit, IoStates, Waits
  <2>1. CASE UNCHANGED vars
    BY <2>1 DEF vars, Books, Types, DrainBooks, ReadBooks
  <2>2. CASE ReadWait
    BY <2>2 DEF ReadWait, Books, Types, DrainBooks, ReadBooks
  <2>3. CASE ReadAbort
    BY <2>3, EmptySeq DEF ReadAbort, Books, Types, DrainBooks, ReadBooks
  <2>4. CASE ReadTimedOut
    <3>1. /\ pc = "timeout" /\ Returns("TIMEOUT") /\ timer_io' = "free"
          /\ serial_io' = serial_io /\ sig_timer' \in {0, sig_timer}
          /\ UNCHANGED <<sig_serial, misuse>>
      BY <2>4 DEF ReadTimedOut
    <3>2. /\ serial_io' = "free" /\ sig_timer' \in Bit /\ sig_serial' \in Bit
      BY <3>1 DEF Books, Types, ReadBooks
    <3>3. QED BY <3>1, <3>2, ReturnsKeeps
  <2>5. CASE ReadGot
    <3>1. /\ pc = "got" /\ (Returns("OK") \/ Returns("IO"))
          /\ serial_io' = "free" /\ timer_io' = "free"
          /\ sig_timer' = IF timer_io = "sent" THEN 1 ELSE sig_timer
          /\ UNCHANGED <<sig_serial, misuse>>
      BY <2>5 DEF ReadGot
    <3>2. sig_timer' \in Bit /\ sig_serial' \in Bit
      BY <3>1 DEF Books, Types
    <3>3. QED BY <3>1, <3>2, ReturnsKeeps
  <2>6. CASE OpenQuery
    <3>1. Kept /\ Noted /\ UNCHANGED drain /\ pc = "openquery"
      BY <2>6 DEF OpenQuery, Kept, Noted, Books, Types
    <3>2. CASE SendRead(1, "open")
      BY <3>1, <3>2, SendReadKeeps
    <3>3. CASE pc' = "idle" /\ NoRead
      BY <3>1, <3>3, NoReadKeeps
    <3>4. QED BY <2>6, <3>2, <3>3 DEF OpenQuery
  <2>7. CASE OpenFails
    BY <2>7, EmptySeq DEF OpenFails, Closed, Books, Types, DrainBooks,
       ReadBooks
  <2>8. CASE Flush
    <3>1. Kept /\ Noted /\ UNCHANGED drain /\ pc = "flush"
      BY <2>8 DEF Flush, Kept, Noted, Books, Types, QueryFails
    <3>2. CASE pc' = "write" /\ NoRead
      BY <3>1, <3>2, NoReadKeeps
    <3>3. CASE SendRead(1, "flush")
      BY <3>1, <3>3, SendReadKeeps
    <3>4. ASSUME NEW n \in Advertised, n > 0, SendRead(AtMost(n, ReadBuf), "flush")
          PROVE  Books'
      <4>1. AtMost(n, ReadBuf) \in Nat
        BY <3>4, AdvertisedTypes, AtMostBooks DEF Books
      <4>2. QED BY <3>1, <3>4, <4>1, SendReadKeeps
    <3>5. QED BY <2>8, <3>2, <3>3, <3>4 DEF Flush
  <2>9. CASE Write
    <3>1. line' \in Seq(Nat)
      <4>1. line \in Seq(Nat) /\ [i \in 1..ResponseLen |-> i] \in Seq(Nat)
        BY DEF Books, Types
      <4>2. line \o [i \in 1..ResponseLen |-> i] \in Seq(Nat)
        BY <4>1, ConcatProperties
      <4>3. QED BY <2>9, <4>1, <4>2 DEF Write
    <3>0. ring' \in Seq(Nat) /\ latch' \in {0, 1}
      BY <2>9, EmptySeq DEF Write, Cleared, Books, Types
    <3>2. /\ pc = "write" /\ pc' \in {"read", "map"}
          /\ session_result' = session_result \/ session_result' = "IO"
          /\ quiet' = 0 \/ quiet' = quiet
          /\ channel_error' = 1 \/ channel_error' = channel_error
          /\ \/ serial_failure_status' = 1
             \/ serial_failure_status' = serial_failure_status
          /\ UNCHANGED <<serial_name, open, reader, need, read_buf,
                         serial_hidden_overrun, result, drain, ioVars, begun,
                         got, owed, misuse>>
      BY <2>9 DEF Write
    <3>3. Types'
      BY <3>0, <3>1, <3>2, SMTT(40) DEF Books, Types
    <3>4. DrainBooks'
      BY <3>2 DEF Books, DrainBooks
    <3>5. ReadBooks'
      BY <3>2 DEF Books, ReadBooks
    <3>6. QED BY <3>3, <3>4, <3>5 DEF Books
  <2>10. CASE SessionByte
    <3>1. /\ pc = "read" /\ read_buf # <<>>
          /\ got' = Append(got, Head(read_buf)) /\ read_buf' = Tail(read_buf)
          /\ pc' \in {"read", "map"}
          /\ session_result' \in {"OK", "IO", "INVALID", session_result}
          /\ UNCHANGED <<serial_name, open, reader, need, channel_error,
                         serial_failure_status, serial_hidden_overrun, result,
                         drain, ioVars, lineVars, misuse, owed>>
      BY <2>10 DEF SessionByte
    <3>2. read_buf \in Seq(Nat) /\ got \in Seq(Nat) /\ Len(read_buf) <= ReadBuf
      BY DEF Books, Types, ReadBooks
    <3>3. /\ Head(read_buf) \in Nat /\ Tail(read_buf) \in Seq(Nat)
          /\ Len(Tail(read_buf)) = Len(read_buf) - 1 /\ Len(read_buf) \in Nat
      BY <3>1, <3>2, HeadTailProperties
    <3>4. got' \in Seq(Nat) /\ read_buf' \in Seq(Nat) /\ Len(read_buf') <= ReadBuf
      BY <3>1, <3>2, <3>3
    <3>5. Types'
      BY <3>1, <3>4, SMTT(40) DEF Books, Types
    <3>6. DrainBooks'
      BY <3>1 DEF Books, DrainBooks
    <3>7. ReadBooks'
      BY <3>1, <3>4 DEF Books, ReadBooks
    <3>8. QED BY <3>5, <3>6, <3>7 DEF Books
  <2>11. CASE SessionBlocked
    BY <2>11 DEF SessionBlocked, Books, Types, DrainBooks, ReadBooks
  <2>12. CASE ReadByte
    <3>1. Kept /\ Noted /\ UNCHANGED drain /\ pc = "read"
      BY <2>12 DEF ReadByte, Kept, Noted, Books, Types, QueryFails, NoteOverrun
    <3>2. CASE pc' = "peek" /\ NoRead
      BY <3>1, <3>2, NoReadKeeps
    <3>3. CASE UNCHANGED pc /\ NoRead
      BY <3>1, <3>3, NoReadKeeps
    <3>4. ASSUME NEW n \in Advertised, n > 0, SendRead(AtMost(n, ReadBuf), "byte")
          PROVE  Books'
      <4>1. AtMost(n, ReadBuf) \in Nat /\ AtMost(n, ReadBuf) <= ReadBuf
        BY <3>4, AdvertisedTypes, AtMostBooks DEF Books
      <4>2. QED BY <3>1, <3>4, <4>1, SendReadKeeps
    <3>5. QED BY <2>12, <3>2, <3>3, <3>4 DEF ReadByte
  <2>13. CASE Peek
    <3>1. Kept /\ UNCHANGED <<drain, channel_error, session_result>> /\ pc = "peek"
      BY <2>13 DEF Peek, Kept
    <3>2. serial_hidden_overrun' \in Bit /\ serial_failure_status' \in Bit
      <4>1. /\ serial_hidden_overrun' = serial_hidden_overrun
               \/ serial_hidden_overrun' = 1
            /\ serial_failure_status' = serial_failure_status
               \/ serial_failure_status' = 1
        BY <2>13 DEF Peek, NoteOverrun
      <4>2. QED BY <4>1 DEF Books, Types
    <3>3. Noted /\ Len(ring) \in Nat
      BY <3>1, <3>2 DEF Noted, Books, Types
    <3>4. CASE pc' = "map" /\ NoRead
      BY <3>1, <3>3, <3>4, NoReadKeeps
    <3>5. CASE SendRead(Len(ring), "peek")
      BY <3>1, <3>3, <3>5, SendReadKeeps
    <3>6. QED BY <2>13, <3>4, <3>5 DEF Peek
  <2>14. CASE MapResult
    BY <2>14, EmptySeq DEF MapResult, Outcome, Books, Types, DrainBooks,
       ReadBooks
  <2>15. CASE CaptureLeftover
    <3>1. /\ Kept /\ Noted /\ UNCHANGED drain /\ pc = "leftover"
          /\ Len(ring) \in Nat
      BY <2>15 DEF CaptureLeftover, Kept, Noted, Books, Types
    <3>2. CASE pc' = "drain" /\ NoRead
      BY <3>1, <3>2, NoReadKeeps
    <3>3. CASE SendRead(Len(ring), "leftover")
      BY <3>1, <3>3, SendReadKeeps
    <3>4. QED BY <2>15, <3>2, <3>3 DEF CaptureLeftover
  <2>16. CASE Drain
    <3>1. Kept /\ Noted /\ pc = "drain"
      BY <2>16 DEF Drain, Kept, Noted, Books, Types, QueryFails
    <3>2. CASE pc' = "end" /\ NoRead /\ UNCHANGED drain
      BY <3>1, <3>2, NoReadKeeps
    <3>3. CASE SendRead(1, "drain") /\ UNCHANGED drain
      BY <3>1, <3>3, SendReadKeeps
    <3>4. ASSUME NEW n \in Advertised, n > 0, UNCHANGED drain,
                 SendRead(AtMost(n, ReadBuf), "drain")
          PROVE  Books'
      <4>1. AtMost(n, ReadBuf) \in Nat
        BY <3>4, AdvertisedTypes, AtMostBooks DEF Books
      <4>2. QED BY <3>1, <3>4, <4>1, SendReadKeeps
    <3>5. CASE /\ pc' = "slice" /\ NoRead /\ ~DrainDone
               /\ drain' = [empty |-> drain.empty + 1,
                            waited |-> drain.waited + 1, steps |-> drain.steps]
      <4>1. DrainBooks'
        <5>1. /\ drain \in [empty : 0..DrainIdle, waited : 0..DrainCap,
                             steps : 0..DrainSteps]
              /\ drain.steps < DrainSteps
          BY <3>1 DEF Books, DrainBooks
        <5>2. drain' = [empty |-> drain.empty + 1, waited |-> drain.waited + 1,
                            steps |-> drain.steps]
          BY <3>5
        <5>3. drain.empty < DrainIdle /\ drain.waited < DrainCap
          BY <3>5, <5>1 DEF DrainDone
        <5>4. QED BY <5>1, <5>2, <5>3 DEF DrainBooks
      <4>2. Types' /\ ReadBooks'
        BY <3>1, <3>5 DEF Books, Types, ReadBooks, NoRead, Kept, Noted
      <4>3. QED BY <4>1, <4>2 DEF Books
    <3>6. CASE QueryFails /\ pc' = "end" /\ NoRead /\ UNCHANGED drain
      BY <3>2, <3>6
    <3>7. ASSUME NEW n \in Advertised,
                 IF latch = 1 THEN SendRead(1, "drain") /\ UNCHANGED drain
                 ELSE IF n > 0
                 THEN SendRead(AtMost(n, ReadBuf), "drain") /\ UNCHANGED drain
                 ELSE IF DrainDone THEN pc' = "end" /\ NoRead /\ UNCHANGED drain
                 ELSE /\ pc' = "slice" /\ NoRead
                      /\ drain' = [empty |-> drain.empty + 1,
                                   waited |-> drain.waited + 1,
                                   steps |-> drain.steps]
          PROVE  Books'
      BY <3>2, <3>3, <3>4, <3>5, <3>7
    <3>8. QED BY <2>16, <3>6, <3>7 DEF Drain
  <2>17. CASE Slice
    BY <2>17 DEF Slice, Books, Types, DrainBooks, ReadBooks
  <2>18. CASE Return
    <3>1. <<>> \in Seq(Nat) /\ Len(<<>>) = 0
      BY EmptySeq
    <3>2. CASE Closed
      BY <2>18, <3>1, <3>2 DEF Return, Closed, NoDrain, Books, Types, DrainBooks,
         ReadBooks
    <3>3. CASE /\ Cleared
               /\ UNCHANGED <<open, read_buf, channel_error,
                              serial_failure_status, ioVars>>
      <4>1. ring' \in Seq(Nat) /\ latch' \in {0, 1}
        BY <3>1, <3>3 DEF Cleared, Books, Types
      <4>2. QED
        BY <2>18, <3>1, <3>3, <4>1
           DEF Return, NoDrain, Books, Types, DrainBooks, ReadBooks
    <3>4. QED BY <2>18, <3>2, <3>3 DEF Return
  <2>19. CASE Poll
    BY <2>19 DEF Poll, NoteOverrun, Books, Types, DrainBooks, ReadBooks
  <2>20. CASE Arrive
    <3>1. /\ line # <<>> /\ line' = Tail(line) /\ quiet' = 0
          /\ begun' = IF Len(line) > 1 THEN 1 ELSE 0
      BY <2>20 DEF Arrive
    <3>2. line \in Seq(Nat) /\ ring \in Seq(Nat) /\ latch \in Bit
      BY DEF Books, Types
    <3>3. Head(line) \in Nat /\ line' \in Seq(Nat)
      BY <3>1, <3>2, HeadTailProperties
    <3>4. Append(ring, Head(line)) \in Seq(Nat) /\ begun' \in Bit
      BY <3>1, <3>2, <3>3
    <3>5. UNCHANGED <<serial_name, open, pc, reader, need, read_buf, errVars, drain,
                      got, owed, misuse>>
      BY <2>20 DEF Arrive
    <3>6. CASE UNCHANGED <<ring, ioVars>> /\ latch' \in Bit
      BY <3>1, <3>3, <3>4, <3>5, <3>6 DEF Books, Types, DrainBooks, ReadBooks
    <3>7. CASE ring' = Append(ring, Head(line)) /\ UNCHANGED <<latch, ioVars>>
      BY <3>1, <3>3, <3>4, <3>5, <3>7 DEF Books, Types, DrainBooks, ReadBooks
    <3>8. CASE /\ serial_io = "sent" /\ Len(Append(ring, Head(line))) >= need
               /\ serial_io' = "replied" /\ sig_serial' = 1
               /\ data' = SubSeq(Append(ring, Head(line)), 1, need)
               /\ ring' = Left(Append(ring, Head(line)))
               /\ io_Status' = latch /\ UNCHANGED <<latch, timer_io, sig_timer>>
      <4> DEFINE now == Append(ring, Head(line))
      <4>1. need \in Nat /\ now \in Seq(Nat) /\ need <= Len(now)
        BY <3>4, <3>8 DEF Books, Types
      <4>2. /\ data' \in Seq(Nat) /\ ring' \in Seq(Nat) /\ Len(data') = need
        <5>1. data' = SubSeq(now, 1, need) /\ ring' = SubSeq(now, need + 1, Len(now))
          BY <3>8 DEF Left
        <5> HIDE DEF now
        <5>2. QED BY <4>1, <5>1, SplitTypes
      <4>3. pc \in {"wait", "abort"}
        BY <3>8 DEF Books, Types, ReadBooks
      <4>4. /\ serial_io' = "replied" /\ sig_serial' = 1 /\ io_Status' = latch
            /\ UNCHANGED <<latch, timer_io, sig_timer>>
        BY <3>8
      <4>5. Types'
        BY <3>1, <3>2, <3>3, <3>4, <3>5, <4>2, <4>4 DEF Books, Types
      <4>6. DrainBooks'
        BY <3>5 DEF Books, DrainBooks
      <4>7. ReadBooks'
        BY <3>5, <4>2, <4>3, <4>4 DEF Books, ReadBooks
      <4>8. QED BY <4>5, <4>6, <4>7 DEF Books
    <3>9. QED BY <2>20, <3>2, <3>6, <3>7, <3>8 DEF Arrive
  <2>21. CASE StockCompletes
    <3>1. need \in Nat /\ need <= Len(ring) /\ ring \in Seq(Nat) /\ Len(ring) \in Nat
      BY <2>21 DEF StockCompletes, Books, Types
    <3>2. /\ data' \in Seq(Nat) /\ ring' \in Seq(Nat) /\ Len(data') = need
      BY <2>21, <3>1, SplitTypes DEF StockCompletes, Taken, Left
    <3>3. pc \in {"wait", "abort"}
      BY <2>21 DEF StockCompletes, Books, Types, ReadBooks
    <3>4. QED BY <2>21, <3>2, <3>3 DEF StockCompletes, Books, Types, DrainBooks,
                 ReadBooks
  <2>22. CASE TimerFires
    BY <2>22 DEF TimerFires, Books, Types, DrainBooks, ReadBooks
  <2>23. CASE Backend_open
    BY <2>23, EmptySeq DEF Backend_open, Books, Types, DrainBooks, ReadBooks
  <2>24. CASE Exchange
    BY <2>24, StaleTypes, EmptySeq DEF Exchange, NoDrain, Books, Types,
       DrainBooks, ReadBooks
  <2>25. ASSUME NEW name \in {"fuji", "stock"}, Backend_close(name)
         PROVE  Books'
    BY <2>25, EmptySeq DEF Backend_close, Closed, Books, Types, DrainBooks,
       ReadBooks
  <2>26. QED
    BY <2>1, <2>2, <2>3, <2>4, <2>5, <2>6, <2>7, <2>8, <2>9, <2>10, <2>11,
       <2>12, <2>13, <2>14, <2>15, <2>16, <2>17, <2>18, <2>19, <2>20, <2>21,
       <2>22, <2>23, <2>24, <2>25 DEF Next, Task
<1>3. QED BY <1>1, <1>2, PTL DEF Spec

\* TypeOK, for all constants.
THEOREM BackendTypes == Spec => []TypeOK
<1>1. Books => TypeOK
  BY DEF Books, Types, DrainBooks, ReadBooks, TypeOK, Bit, IoStates
<1>2. QED BY <1>1, BackendBooks, PTL

\* RequestsAreOwned: whichever of read, timer and abort comes first, neither
\* request is sent again and no device closed while it is outstanding.
THEOREM RequestsOwned == Spec => []RequestsAreOwned
<1>1. Books => RequestsAreOwned
  BY DEF Books, ReadBooks, RequestsAreOwned
<1>2. QED BY <1>1, BackendBooks, PTL

-----------------------------------------------------------------------------
(* The bytes on their way.                                                 *)

\* A byte that goes from the front of one sequence to the end of the one
\* before it changes nothing.
LEMMA HeadMoves ==
  ASSUME NEW g \in Seq(Nat), NEW r \in Seq(Nat), r # <<>>
  PROVE  Append(g, Head(r)) \o Tail(r) = g \o r
<1> DEFINE a == Append(g, Head(r))
           t == Tail(r)
<1>1. /\ Head(r) \in Nat /\ t \in Seq(Nat) /\ Len(t) = Len(r) - 1
      /\ \A i \in 1..Len(t) : t[i] = r[i + 1]
      /\ Head(r) = r[1] /\ Len(r) \in Nat /\ Len(r) > 0
  BY HeadTailProperties, EmptySeq
<1>2. /\ a \in Seq(Nat) /\ Len(a) = Len(g) + 1 /\ Len(g) \in Nat
      /\ \A i \in 1..Len(g) : a[i] = g[i]
      /\ a[Len(g) + 1] = r[1]
  BY <1>1, AppendProperties
<1> HIDE DEF a, t
<1>3. /\ a \o t \in Seq(Nat) /\ Len(a \o t) = Len(a) + Len(t)
      /\ \A i \in 1..(Len(a) + Len(t)) :
           (a \o t)[i] = IF i <= Len(a) THEN a[i] ELSE t[i - Len(a)]
  BY <1>1, <1>2, ConcatProperties
<1>4. /\ g \o r \in Seq(Nat) /\ Len(g \o r) = Len(g) + Len(r)
      /\ \A i \in 1..(Len(g) + Len(r)) :
           (g \o r)[i] = IF i <= Len(g) THEN g[i] ELSE r[i - Len(g)]
  BY ConcatProperties
<1>5. Len(a \o t) = Len(g \o r)
  BY <1>1, <1>2, <1>3, <1>4
<1>6. ASSUME NEW i \in 1..Len(a \o t)
      PROVE  (a \o t)[i] = (g \o r)[i]
  <2>1. i \in 1..(Len(a) + Len(t)) /\ i \in 1..(Len(g) + Len(r))
    BY <1>3, <1>4, <1>5
  <2>2. CASE i <= Len(g)
    BY <1>1, <1>2, <1>3, <1>4, <2>1, <2>2
  <2>3. CASE i = Len(g) + 1
    BY <1>1, <1>2, <1>3, <1>4, <2>1, <2>3
  <2>4. CASE i > Len(g) + 1
    <3>1. i - Len(a) \in 1..Len(t) /\ (i - Len(a)) + 1 = i - Len(g)
      BY <1>1, <1>2, <2>1, <2>4
    <3>2. t[i - Len(a)] = r[i - Len(g)]
      BY <1>1, <3>1
    <3>3. (a \o t)[i] = t[i - Len(a)]
      BY <1>2, <1>3, <2>1, <2>4, SMTT(40)
    <3>4. (g \o r)[i] = r[i - Len(g)]
      BY <1>2, <1>4, <2>1, <2>4
    <3>5. QED BY <3>2, <3>3, <3>4
  <2>5. QED BY <1>2, <2>1, <2>2, <2>3, <2>4
<1>7. a \o t = g \o r
  BY <1>3, <1>4, <1>5, <1>6, SeqEqual
<1>8. QED BY <1>7 DEF a, t

\* What the session has of a stream without a hole has none.
LEMMA CleanPrefix ==
  ASSUME NEW s \in Seq(Nat), NEW t \in Seq(Nat), Clean(s \o t)
  PROVE  Clean(s)
<1>1. PICK k \in Nat : Follows(s \o t, k)
  BY DEF Clean
<1>2. Len(s) \in Nat /\ Len(t) \in Nat
  OBVIOUS
<1>3. \A i \in 1..Len(s) : i \in 1..Len(s \o t) /\ (s \o t)[i] = s[i]
  BY <1>2, ConcatProperties
<1>4. Follows(s, k)
  BY <1>1, <1>3 DEF Follows
<1>5. QED BY <1>4 DEF Clean

\* Leftovers alone have no hole.
LEMMA StaleClean ==
  ASSUME NEW s \in Seq(Nat), AllStale(s)
  PROVE  Clean(s)
<1>1. Follows(s, Len(s)) /\ Len(s) \in Nat
  BY DEF AllStale, Follows
<1>2. QED BY <1>1 DEF Clean

\* Leftovers after leftovers are leftovers, and so are the parts of leftovers.
LEMMA StaleJoins ==
  ASSUME NEW s \in Seq(Nat), NEW t \in Seq(Nat), AllStale(s), AllStale(t)
  PROVE  AllStale(s \o t)
<1>1. Len(s) \in Nat /\ Len(t) \in Nat
  OBVIOUS
<1>2. /\ Len(s \o t) = Len(s) + Len(t)
      /\ \A i \in 1..(Len(s) + Len(t)) :
           (s \o t)[i] = IF i <= Len(s) THEN s[i] ELSE t[i - Len(s)]
  BY ConcatProperties
<1>3. ASSUME NEW i \in 1..(Len(s) + Len(t)) PROVE (s \o t)[i] = 0
  <2>1. CASE i <= Len(s)
    BY <1>1, <1>2, <2>1 DEF AllStale
  <2>2. CASE ~(i <= Len(s))
    <3>1. i - Len(s) \in 1..Len(t)
      BY <1>1, <2>2
    <3>2. QED BY <1>2, <2>2, <3>1 DEF AllStale
  <2>3. QED BY <2>1, <2>2
<1>4. QED BY <1>2, <1>3 DEF AllStale

\* The other way round.
LEMMA StaleParts ==
  ASSUME NEW s \in Seq(Nat), NEW t \in Seq(Nat), AllStale(s \o t)
  PROVE  AllStale(s) /\ AllStale(t)
<1>1. Len(s) \in Nat /\ Len(t) \in Nat
  OBVIOUS
<1>2. /\ Len(s \o t) = Len(s) + Len(t)
      /\ \A i \in 1..(Len(s) + Len(t)) :
           (s \o t)[i] = IF i <= Len(s) THEN s[i] ELSE t[i - Len(s)]
  BY ConcatProperties
<1>3. ASSUME NEW i \in 1..Len(t) PROVE t[i] = 0
  <2>1. /\ Len(s) + i \in 1..(Len(s) + Len(t)) /\ ~(Len(s) + i <= Len(s))
        /\ (Len(s) + i) - Len(s) = i
    BY <1>1
  <2>2. (s \o t)[Len(s) + i] = t[i]
    BY <1>2, <2>1
  <2>3. QED BY <1>2, <2>1, <2>2 DEF AllStale
<1>4. ASSUME NEW i \in 1..Len(s) PROVE s[i] = 0
  <2>1. i \in 1..(Len(s) + Len(t)) /\ i <= Len(s)
    BY <1>1
  <2>2. QED BY <1>2, <2>1 DEF AllStale
<1>5. QED BY <1>3, <1>4 DEF AllStale

\* A response after leftovers has no hole.
LEMMA ResponseClean ==
  ASSUME NEW s \in Seq(Nat), AllStale(s)
  PROVE  Clean(s \o [i \in 1..ResponseLen |-> i])
<1> DEFINE t == [i \in 1..ResponseLen |-> i]
<1>1. ResponseLen \in Nat /\ Len(s) \in Nat
  BY ConstantsAssumption
<1>2. t \in Seq(Nat) /\ Len(t) = ResponseLen /\ \A i \in 1..Len(t) : t[i] = i
  BY <1>1
<1> HIDE DEF t
<1>3. /\ Len(s \o t) = Len(s) + Len(t)
      /\ \A i \in 1..(Len(s) + Len(t)) :
           (s \o t)[i] = IF i <= Len(s) THEN s[i] ELSE t[i - Len(s)]
  BY <1>2, ConcatProperties
<1>4. ASSUME NEW i \in 1..(Len(s) + Len(t))
      PROVE  (s \o t)[i] = IF i <= Len(s) THEN 0 ELSE i - Len(s)
  <2>1. CASE i <= Len(s)
    BY <1>1, <1>3, <2>1 DEF AllStale
  <2>2. CASE ~(i <= Len(s))
    <3>1. i - Len(s) \in 1..Len(t)
      BY <1>1, <1>2, <2>2
    <3>2. QED BY <1>2, <1>3, <2>2, <3>1
  <2>3. QED BY <2>1, <2>2
<1>5. Follows(s \o t, Len(s))
  BY <1>3, <1>4 DEF Follows
<1>6. QED BY <1>1, <1>5 DEF Clean, t

\* A stream without a hole that ends with the last byte of the response is
\* leftovers and the response.
LEMMA LastByte ==
  ASSUME NEW g \in Seq(Nat), Clean(Append(g, ResponseLen))
  PROVE  \E k \in 0..Len(Append(g, ResponseLen)) :
           Append(g, ResponseLen)
             = [i \in 1..(k + ResponseLen) |-> IF i <= k THEN 0 ELSE i - k]
<1> DEFINE a == Append(g, ResponseLen)
<1>1. ResponseLen \in Nat /\ ResponseLen > 0
  BY ConstantsAssumption
<1>2. /\ a \in Seq(Nat) /\ Len(a) = Len(g) + 1 /\ Len(g) \in Nat
      /\ a[Len(g) + 1] = ResponseLen
  BY <1>1, AppendProperties
<1>3. PICK k \in Nat : Follows(a, k)
  BY DEF Clean
<1> HIDE DEF a
<1>4. Len(a) = k + ResponseLen
  <2>1. Len(a) \in 1..Len(a) /\ a[Len(a)] = ResponseLen
    BY <1>2
  <2>2. a[Len(a)] = IF Len(a) <= k THEN 0 ELSE Len(a) - k
    BY <1>3, <2>1 DEF Follows
  <2>3. QED BY <1>1, <1>2, <2>1, <2>2
<1> DEFINE b == [i \in 1..(k + ResponseLen) |-> IF i <= k THEN 0 ELSE i - k]
<1>5. b \in Seq(Nat) /\ Len(b) = k + ResponseLen
  <2>1. \A i \in 1..(k + ResponseLen) : (IF i <= k THEN 0 ELSE i - k) \in Nat
    BY <1>1
  <2>2. QED BY <1>1, <2>1
<1>6. \A i \in 1..Len(a) : a[i] = b[i]
  BY <1>3, <1>4 DEF Follows
<1> HIDE DEF b
<1>7. a = b
  BY <1>2, <1>4, <1>5, <1>6, SeqEqual
<1>8. k \in 0..Len(a)
  BY <1>1, <1>4
<1>9. QED BY <1>7, <1>8 DEF a, b

\* Concatenation is associative, for sequences of bytes.
LEMMA Joined ==
  ASSUME NEW s \in Seq(Nat), NEW t \in Seq(Nat), NEW u \in Seq(Nat)
  PROVE  (s \o t) \o u = s \o (t \o u)
  BY ConcatAssociative

\* The stream with the bytes of a read between the session and the ring.
LEMMA StreamParts ==
  ASSUME NEW g \in Seq(Nat), NEW d \in Seq(Nat)
  PROVE  /\ g \o (<<>> \o d) = g \o d /\ g \o (d \o <<>>) = g \o d
         /\ g \o (<<>> \o <<>>) = g
         /\ g \o d \in Seq(Nat)
<1>1. <<>> \in Seq(Nat)
  BY EmptySeq
<1>2. <<>> \o d = d /\ d \o <<>> = d /\ g \o <<>> = g /\ <<>> \o <<>> = <<>>
  BY <1>1, ConcatEmptySeq
<1>3. g \o d \in Seq(Nat)
  BY ConcatProperties
<1>4. QED BY <1>2, <1>3

\* The same with concatenation as an operator of its own.
Cat(s, t) == s \o t

\* Joined, with it.
LEMMA CatJoined ==
  ASSUME NEW s \in Seq(Nat), NEW t \in Seq(Nat), NEW u \in Seq(Nat)
  PROVE  Cat(Cat(s, t), u) = Cat(s, Cat(t, u))
<1>1. (s \o t) \o u = s \o (t \o u)
  BY Joined
<1>2. QED BY <1>1 DEF Cat

\* Bytes that go from the ring into a read stay where they are in the stream.
LEMMA CatMoves ==
  ASSUME NEW g \in Seq(Nat), NEW d \in Seq(Nat), NEW r \in Seq(Nat),
         NEW l \in Seq(Nat)
  PROVE  Cat(Cat(g, d), Cat(r, l)) = Cat(g, Cat(Cat(d, r), l))
<1>1. r \o l \in Seq(Nat)
  BY ConcatProperties
<1>2. (g \o d) \o (r \o l) = g \o (d \o (r \o l))
  BY <1>1, Joined
<1>3. (d \o r) \o l = d \o (r \o l)
  BY Joined
<1>4. QED BY <1>2, <1>3 DEF Cat

-----------------------------------------------------------------------------
(* Reads.                                                                  *)

\* A step after which the session neither flushes nor reads.
LEMMA NotReading ==
  ASSUME pc' \notin {"flush", "write", "read"}, reader' \notin {"flush", "byte"}
  PROVE  StreamBooks'
  BY DEF StreamBooks, Sending, Receiving

\* A read is completed: it takes the first of the bytes that are there, and
\* reports the overrun.
LEMMA Replies ==
  ASSUME Books, StreamBooks, serial_io = "sent",
         data' \in Seq(Nat), ring' \in Seq(Nat), line' \in Seq(Nat),
         Cat(data', Cat(ring', line')) = Cat(ring, line), io_Status' = latch,
         UNCHANGED <<pc, reader, read_buf, channel_error, serial_hidden_overrun,
                     got>>
  PROVE  StreamBooks'
<1>1. /\ ring \in Seq(Nat) /\ line \in Seq(Nat) /\ got \in Seq(Nat)
      /\ <<>> \in Seq(Nat)
  BY EmptySeq DEF Books, Types
<1>2. data = <<>> /\ io_Status = 0
  BY DEF Books, ReadBooks
<1>3. Cat(ring', line') \in Seq(Nat)
  BY ConcatProperties DEF Cat
<1>4. Sending' =>
        got' = <<>> /\ read_buf' = <<>> /\ AllStale(ring') /\ AllStale(line')
  <2> SUFFICES ASSUME Sending'
               PROVE  got' = <<>> /\ read_buf' = <<>> /\ AllStale(ring')
                      /\ AllStale(line')
    OBVIOUS
  <2>1. Sending
    BY DEF Sending
  <2>2. got = <<>> /\ read_buf = <<>> /\ AllStale(ring) /\ AllStale(line)
    BY <2>1 DEF StreamBooks
  <2>3. AllStale(Cat(data', Cat(ring', line')))
    BY <1>1, <2>2, StaleJoins DEF Cat
  <2>4. AllStale(Cat(ring', line'))
    BY <1>3, <2>3, StaleParts DEF Cat
  <2>5. AllStale(ring') /\ AllStale(line')
    BY <2>4, StaleParts DEF Cat
  <2>6. QED BY <2>2, <2>5
<1>5. ASSUME Receiving', NoneNoted'
      PROVE  Clean(Handed') /\ Clean(Stream')
  <2>1. Receiving /\ NoneNoted /\ latch = 0
    BY <1>2, <1>5 DEF Receiving, NoneNoted
  <2>2. reader = "byte" /\ read_buf = <<>>
    BY <2>1 DEF Receiving, Books, ReadBooks, Waits, StreamBooks
  <2>3. Stream = Cat(got, Cat(ring, line))
    <3>1. Handed = got \o (<<>> \o <<>>)
      BY <1>2, <2>2 DEF Handed
    <3>2. Handed = got
      BY <1>1, <3>1, StreamParts
    <3>3. QED BY <3>2 DEF Stream, Cat
  <2>4. Handed' = Cat(got, data') /\ Stream' = Cat(Cat(got, data'), Cat(ring', line'))
    <3>1. Handed' = got \o (<<>> \o data')
      BY <2>2 DEF Handed
    <3>2. Handed' = got \o data'
      BY <1>1, <3>1, StreamParts
    <3>3. QED BY <3>2 DEF Stream, Cat
  <2>5. Stream' = Stream
    BY <1>1, <1>3, <2>3, <2>4, CatJoined
  <2>6. Clean(Stream')
    BY <2>1, <2>5 DEF StreamBooks
  <2>7. Clean(Handed')
    <3>1. Cat(got, data') \in Seq(Nat)
      BY <1>1, ConcatProperties DEF Cat
    <3>2. Clean(Cat(got, data') \o Cat(ring', line'))
      BY <2>4, <2>6 DEF Cat
    <3>3. QED BY <1>3, <2>4, <3>1, <3>2, CleanPrefix
  <2>8. QED BY <2>6, <2>7
<1>6. QED BY <1>4, <1>5 DEF StreamBooks

\* SendIO() of a read before the request: it takes leftovers only.
LEMMA FlushReads ==
  ASSUME Books, StreamBooks, pc = "flush", NEW n \in Nat, SendRead(n, "flush"),
         UNCHANGED <<got, read_buf>>
  PROVE  StreamBooks'
<1>1. got = <<>> /\ read_buf = <<>> /\ AllStale(ring) /\ AllStale(line)
  BY DEF StreamBooks, Sending
<1>2. /\ data' \in Seq(Nat) /\ ring' \in Seq(Nat) /\ UNCHANGED line
      /\ ring = data' \o ring' \/ UNCHANGED ring
      /\ pc' = "wait" /\ reader' = "flush"
  BY SendReadBooks DEF Books, Waits
<1>3. AllStale(ring')
  BY <1>1, <1>2, StaleParts
<1>4. QED BY <1>1, <1>2, <1>3 DEF StreamBooks, Receiving

\* SendIO() of a read of the response: what it brings at once continues what
\* the session has.
LEMMA ByteReads ==
  ASSUME Books, StreamBooks, pc = "read", read_buf = <<>>, NEW n \in Nat,
         SendRead(n, "byte"), NoteOverrun, UNCHANGED <<got, read_buf, channel_error>>
  PROVE  StreamBooks'
<1>1. /\ ring \in Seq(Nat) /\ line \in Seq(Nat) /\ got \in Seq(Nat)
      /\ <<>> \in Seq(Nat)
  BY EmptySeq DEF Books, Types
<1>2. reader = "-" /\ io_Status = 0 /\ latch \in {0, 1}
  BY DEF Books, Types, ReadBooks, Waits, Bit
<1>3. /\ data' \in Seq(Nat) /\ ring' \in Seq(Nat) /\ UNCHANGED line
      /\ ring = data' \o ring' \/ (UNCHANGED ring /\ data' = <<>>)
      /\ pc' = "wait" /\ reader' = "byte"
  BY SendReadBooks DEF Books, Waits
<1>4. ring = data' \o ring'
  BY <1>1, <1>3, ConcatEmptySeq
<1>5. ASSUME NoneNoted'
      PROVE  Clean(Handed') /\ Clean(Stream')
  <2>1. NoneNoted /\ latch = 0
    BY <1>2, <1>5 DEF NoneNoted, NoteOverrun
  <2>2. Handed = got /\ Stream = got \o ((data' \o ring') \o line)
    <3>1. Handed = got \o (<<>> \o <<>>)
      BY <1>2 DEF Handed
    <3>2. QED BY <1>1, <1>4, <3>1, StreamParts DEF Stream
  <2>3. Handed' = got \o data' /\ Stream' = (got \o data') \o (ring' \o line)
    <3>1. Handed' = got \o (<<>> \o data')
      BY <1>3 DEF Handed
    <3>2. Handed' = got \o data'
      BY <1>1, <1>3, <3>1, StreamParts
    <3>3. QED BY <1>3, <3>2 DEF Stream
  <2>4. Stream' = Stream
    <3>1. /\ Stream' = Cat(Cat(got, data'), Cat(ring', line))
          /\ Stream = Cat(got, Cat(Cat(data', ring'), line))
      BY <2>2, <2>3 DEF Cat
    <3>2. QED BY <1>1, <1>3, <3>1, CatMoves
  <2>5. Clean(Stream')
    BY <2>1, <2>4 DEF StreamBooks, Receiving
  <2>6. got \o data' \in Seq(Nat) /\ ring' \o line \in Seq(Nat)
    BY <1>1, <1>3, ConcatProperties
  <2>7. Clean(Handed')
    BY <2>3, <2>5, <2>6, CleanPrefix
  <2>8. QED BY <2>5, <2>7
<1>6. QED BY <1>3, <1>5 DEF StreamBooks, Sending

\* Before the request is written only bytes of earlier responses are about;
\* after that, as long as no overrun was noted, the bytes taken out of the
\* serial device continue without a hole, and so does all that is still in it
\* while no overrun is latched.
THEOREM BackendStream == Spec => []StreamBooks
<1>1. Init => StreamBooks
  BY DEF Init, StreamBooks, Sending, Receiving
<1>2. Books /\ StreamBooks /\ [Next]_vars => StreamBooks'
  <2> SUFFICES ASSUME Books, StreamBooks, [Next]_vars PROVE StreamBooks'
    OBVIOUS
  <2> USE DEF ioVars, lineVars, errVars, Bit, IoStates, Waits
  <2>1. CASE UNCHANGED vars
    BY <2>1 DEF vars, Books, Types, ReadBooks, StreamBooks, Sending,
       Receiving, NoneNoted, Handed, Stream
  <2>2. CASE ReadWait
    BY <2>2 DEF ReadWait, Books, Types, ReadBooks, StreamBooks, Sending,
       Receiving, NoneNoted, Handed, Stream
  <2>3. CASE ReadAbort
    BY <2>3 DEF ReadAbort, Books, Types, ReadBooks, StreamBooks, Sending,
       Receiving, NoneNoted, Handed, Stream
  <2>4. CASE ReadTimedOut
    BY <2>4 DEF ReadTimedOut, Returns, DrainedOne, AfterFlush, Books, Types,
       ReadBooks, StreamBooks, Sending, Receiving, NoneNoted, Handed, Stream
  <2>5. CASE ReadGot
    <3>1. /\ pc = "got" /\ (Returns("OK") \/ Returns("IO"))
          /\ data \in Seq(Nat) /\ got \in Seq(Nat)
      BY <2>5 DEF ReadGot, Books, Types
    <3>2. /\ UNCHANGED <<got, ring, line, latch>>
          /\ data' = <<>> /\ io_Status' = 0 /\ reader' = "-"
      BY <3>1 DEF Returns
    <3>3. CASE reader = "byte" /\ Returns("OK")
      <4>1. /\ pc' = "read" /\ read_buf = <<>> /\ read_buf' = data
            /\ channel_error' = channel_error
            /\ serial_hidden_overrun'
                 = IF io_Status = 1 THEN 1 ELSE serial_hidden_overrun
        BY <3>3 DEF Returns, StreamBooks
      <4>2. NoneNoted' => NoneNoted
        BY <4>1 DEF NoneNoted, Books, Types
      <4>3. Handed' = Handed /\ Stream' = Stream
        <5>1. Handed = got \o (<<>> \o data) /\ Handed' = got \o (data \o <<>>)
          BY <3>2, <3>3, <4>1 DEF Handed
        <5>2. Handed' = Handed
          BY <3>1, <5>1, StreamParts
        <5>3. QED BY <3>2, <5>2 DEF Stream
      <4>4. Receiving
        BY <3>1, <3>3 DEF Receiving
      <4>5. ~Sending' /\ reader' # "byte"
        BY <3>2, <4>1 DEF Sending
      <4>6. QED BY <3>2, <4>2, <4>3, <4>4, <4>5 DEF StreamBooks
    <3>4. CASE reader = "byte" /\ Returns("IO")
      BY <3>2, <3>4 DEF Returns, StreamBooks, NoneNoted, Sending
    <3>5. CASE reader = "flush"
      <4>1. Sending /\ pc' \in {"flush", "write"} /\ read_buf' = <<>>
        BY <3>1, <3>5 DEF Sending, Returns, AfterFlush
      <4>2. QED BY <3>2, <4>1 DEF StreamBooks, Receiving
    <3>6. CASE reader \notin {"byte", "flush"}
      <4>1. pc' \notin {"flush", "write", "read"}
        BY <3>1, <3>6 DEF Returns, Books, ReadBooks
      <4>2. QED BY <3>2, <4>1, NotReading
    <3>7. QED BY <3>1, <3>3, <3>4, <3>5, <3>6
  <2>6. CASE OpenQuery
    <3>1. pc' \notin {"flush", "write", "read"} /\ reader' \notin {"flush", "byte"}
      BY <2>6 DEF OpenQuery, SendRead, NoRead, Books, ReadBooks
    <3>2. QED BY <3>1, NotReading
  <2>7. CASE OpenFails
    BY <2>7 DEF OpenFails, Closed, Books, Types, ReadBooks, StreamBooks,
       Sending, Receiving, NoneNoted, Handed, Stream
  <2>8. CASE Flush
    <3>1. pc = "flush" /\ UNCHANGED <<got, read_buf>>
      BY <2>8 DEF Flush
    <3>2. CASE SendRead(1, "flush")
      BY <3>1, <3>2, FlushReads
    <3>3. ASSUME NEW n \in Advertised, n > 0, SendRead(AtMost(n, ReadBuf), "flush")
          PROVE  StreamBooks'
      <4>1. AtMost(n, ReadBuf) \in Nat
        BY <3>3, Limits, AdvertisedTypes, AtMostBooks DEF Books
      <4>2. QED BY <3>1, <3>3, <4>1, FlushReads
    <3>4. CASE NoRead /\ pc' = "write"
      BY <3>1, <3>4 DEF NoRead, StreamBooks, Sending, Receiving, Books, ReadBooks
    <3>5. QED BY <2>8, <3>2, <3>3, <3>4 DEF Flush
  <2>9. CASE Write
    <3>1. /\ pc = "write" /\ reader = "-" /\ data = <<>>
          /\ got = <<>> /\ read_buf = <<>> /\ AllStale(ring) /\ AllStale(line)
      BY <2>9 DEF Write, StreamBooks, Sending, Books, ReadBooks
    <3>2. UNCHANGED <<reader, got, read_buf, data>>
      BY <2>9 DEF Write
    <3>0. ring' \in Seq(Nat) /\ AllStale(ring')
      <4>1. ring' = ring \/ ring' = <<>>
        BY <2>9 DEF Write, Cleared
      <4>2. CASE ring' = ring
        BY <3>1, <4>2 DEF AllStale, Books, Types
      <4>3. CASE ring' = <<>>
        <5>1. <<>> \in Seq(Nat) /\ AllStale(<<>>)
          BY EmptySeq DEF AllStale
        <5>2. QED BY <4>3, <5>1 DEF AllStale
      <4>4. QED BY <4>1, <4>2, <4>3
    <3>3. CASE pc' = "map"
      BY <3>1, <3>2, <3>3, NotReading
    <3>4. CASE /\ pc' = "read"
               /\ line' \in {line, line \o [i \in 1..ResponseLen |-> i]}
      <4> DEFINE resp == [i \in 1..ResponseLen |-> i]
      <4>1. /\ ring' \in Seq(Nat) /\ line \in Seq(Nat) /\ resp \in Seq(Nat)
            /\ <<>> \in Seq(Nat) /\ ring' \o line \in Seq(Nat)
        BY <3>0, Limits, EmptySeq, ConcatProperties DEF Books, Types
      <4>2. AllStale(ring' \o line)
        BY <3>0, <3>1, <4>1, StaleJoins
      <4>3. Clean(ring' \o line) /\ Clean((ring' \o line) \o resp)
        BY <4>1, <4>2, StaleClean, ResponseClean
      <4>4. line' \in {line, line \o resp}
        BY <3>4
      <4> HIDE DEF resp
      <4>5. (ring' \o line) \o resp = ring' \o (line \o resp)
        BY <4>1, ConcatAssociative, SMTT(40)
      <4>6. Clean(ring' \o line') /\ ring' \o line' \in Seq(Nat)
        <5>1. line' \in Seq(Nat)
          BY <4>1, <4>4, ConcatProperties
        <5>2. QED BY <4>1, <4>3, <4>4, <4>5, <5>1, ConcatProperties
      <4>7. Handed' = <<>>
        <5>1. Handed' = <<>> \o (<<>> \o <<>>)
          BY <3>1, <3>2 DEF Handed
        <5>2. QED BY <4>1, <5>1, StreamParts
      <4>8. Stream' = ring' \o line'
        BY <3>2, <4>6, <4>7, ConcatEmptySeq DEF Stream
      <4>9. Clean(<<>>)
        <5>1. AllStale(<<>>)
          BY EmptySeq DEF AllStale
        <5>2. QED BY <4>1, <5>1, StaleClean
      <4>10. ~Sending' /\ reader' # "byte"
        BY <3>1, <3>2, <3>4 DEF Sending
      <4>11. QED BY <4>6, <4>7, <4>8, <4>9, <4>10 DEF StreamBooks
    <3>5. QED BY <2>9, <3>3, <3>4 DEF Write
  <2>10. CASE SessionByte
    <3>1. /\ pc = "read" /\ read_buf # <<>>
          /\ got' = Append(got, Head(read_buf)) /\ read_buf' = Tail(read_buf)
          /\ pc' \in {"read", "map"} /\ reader = "-"
          /\ UNCHANGED <<reader, channel_error, serial_hidden_overrun, ring, line,
                         latch, io_Status>>
      BY <2>10 DEF SessionByte, Books, ReadBooks
    <3>2. read_buf \in Seq(Nat) /\ got \in Seq(Nat) /\ <<>> \in Seq(Nat)
      BY EmptySeq DEF Books, Types
    <3>3. Handed = got \o read_buf
      <4>1. Handed = got \o (read_buf \o <<>>)
        BY <3>1 DEF Handed
      <4>2. QED BY <3>2, <4>1, StreamParts
    <3>4. Handed' = Append(got, Head(read_buf)) \o Tail(read_buf)
      <4>1. Handed' = Append(got, Head(read_buf)) \o (Tail(read_buf) \o <<>>)
        BY <3>1 DEF Handed
      <4>2. Tail(read_buf) \in Seq(Nat)
        BY <3>1, <3>2, HeadTailProperties
      <4>3. QED BY <4>1, <4>2, ConcatEmptySeq
    <3>5. Handed' = Handed
      BY <3>1, <3>2, <3>3, <3>4, HeadMoves
    <3>6. Stream' = Stream
      BY <3>1, <3>5 DEF Stream
    <3>7. Receiving /\ ~Sending'
      BY <3>1 DEF Receiving, Sending
    <3>8. QED BY <3>1, <3>5, <3>6, <3>7 DEF StreamBooks, NoneNoted
  <2>11. CASE SessionBlocked
    BY <2>11 DEF SessionBlocked, Books, Types, ReadBooks, StreamBooks,
       Sending, Receiving, NoneNoted, Handed, Stream
  <2>12. CASE ReadByte
    <3>1. /\ pc = "read" /\ read_buf = <<>> /\ UNCHANGED <<got, read_buf>>
      BY <2>12 DEF ReadByte
    <3>2. ASSUME NEW n \in Advertised, n > 0, SendRead(AtMost(n, ReadBuf), "byte"),
                 NoteOverrun, UNCHANGED channel_error
          PROVE  StreamBooks'
      <4>1. AtMost(n, ReadBuf) \in Nat
        BY <3>2, Limits, AdvertisedTypes, AtMostBooks DEF Books
      <4>2. QED BY <3>1, <3>2, <4>1, ByteReads
    <3>3. CASE NoRead /\ pc' = "peek"
      <4>1. reader' \notin {"flush", "byte"}
        BY <3>1, <3>3 DEF NoRead, Books, ReadBooks
      <4>2. QED BY <3>3, <4>1, NotReading
    <3>4. CASE QueryFails /\ NoRead /\ UNCHANGED pc
      BY <3>1, <3>4 DEF QueryFails, NoRead, StreamBooks, NoneNoted, Sending
    <3>5. QED BY <2>12, <3>2, <3>3, <3>4 DEF ReadByte
  <2>13. CASE Peek
    <3>1. pc' \notin {"flush", "write", "read"} /\ reader' \notin {"flush", "byte"}
      BY <2>13 DEF Peek, SendRead, NoRead, Books, ReadBooks
    <3>2. QED BY <3>1, NotReading
  <2>14. CASE MapResult
    BY <2>14 DEF MapResult, Outcome, Books, Types, ReadBooks, StreamBooks,
       Sending, Receiving, NoneNoted, Handed, Stream
  <2>15. CASE CaptureLeftover
    <3>1. pc' \notin {"flush", "write", "read"} /\ reader' \notin {"flush", "byte"}
      BY <2>15 DEF CaptureLeftover, SendRead, NoRead, Books, ReadBooks
    <3>2. QED BY <3>1, NotReading
  <2>16. CASE Drain
    <3>1. pc' \notin {"flush", "write", "read"} /\ reader' \notin {"flush", "byte"}
      BY <2>16 DEF Drain, SendRead, NoRead, Books, ReadBooks, QueryFails
    <3>2. QED BY <3>1, NotReading
  <2>17. CASE Slice
    BY <2>17 DEF Slice, Books, Types, ReadBooks, StreamBooks, Sending,
       Receiving, NoneNoted, Handed, Stream
  <2>18. CASE Return
    BY <2>18 DEF Return, Closed, NoDrain, Books, Types, ReadBooks,
       StreamBooks, Sending, Receiving, NoneNoted, Handed, Stream
  <2>19. CASE Poll
    BY <2>19 DEF Poll, NoteOverrun, Books, Types, ReadBooks, StreamBooks,
       Sending, Receiving, NoneNoted, Handed, Stream
  <2>20. CASE Arrive
    <3>1. /\ line # <<>> /\ line' = Tail(line)
          /\ UNCHANGED <<pc, reader, read_buf, channel_error,
                         serial_hidden_overrun, got>>
      BY <2>20 DEF Arrive
    <3>2. /\ line \in Seq(Nat) /\ ring \in Seq(Nat) /\ latch \in Bit
          /\ Len(ring) \in Nat
      BY DEF Books, Types
    <3>3. Head(line) \in Nat /\ Tail(line) \in Seq(Nat)
      BY <3>1, <3>2, HeadTailProperties
    <3> DEFINE now == Append(ring, Head(line))
    <3>4. now \in Seq(Nat) /\ now \o Tail(line) = ring \o line
      BY <3>1, <3>2, <3>3, AppendProperties, HeadMoves
    <3>5. Sending => AllStale(now) /\ AllStale(Tail(line))
      <4> HIDE DEF now
      <4>1. Sending => AllStale(ring \o line)
        BY <3>2, StaleJoins DEF StreamBooks
      <4>2. QED BY <3>3, <3>4, <4>1, StaleParts
    <3>6. CASE UNCHANGED <<ring, ioVars>> /\ latch' = 1
      <4>1. Handed' = Handed
        BY <3>1, <3>6 DEF Handed
      <4>2. QED BY <3>1, <3>5, <3>6, <4>1 DEF StreamBooks, Sending, Receiving, NoneNoted
    <3>7. CASE ring' = now /\ UNCHANGED <<latch, ioVars>>
      <4>1. Handed' = Handed
        BY <3>1, <3>7 DEF Handed
      <4>2. Stream' = Stream
        BY <3>1, <3>4, <3>7, <4>1 DEF Stream
      <4> HIDE DEF now
      <4>3. QED BY <3>1, <3>5, <3>7, <4>1, <4>2 DEF StreamBooks, Sending, Receiving,
                   NoneNoted
    <3>8. CASE /\ serial_io = "sent" /\ Len(now) >= need
               /\ data' = SubSeq(now, 1, need) /\ ring' = Left(now)
               /\ io_Status' = latch
      <4>1. need <= Len(now) /\ ring' = SubSeq(now, need + 1, Len(now))
        BY <3>4, <3>8 DEF Left, Books, Types
      <4>2. need \in Nat /\ Cat(now, Tail(line)) = Cat(ring, line)
        BY <3>4 DEF Cat, Books, Types
      <4> HIDE DEF now
      <4>3. data' \in Seq(Nat) /\ ring' \in Seq(Nat) /\ Cat(data', ring') = now
        BY <3>4, <3>8, <4>1, <4>2, SplitTypes, SplitJoins DEF Cat
      <4>4. Cat(data', Cat(ring', Tail(line))) = Cat(Cat(data', ring'), Tail(line))
        BY <3>3, <4>3, CatJoined
      <4>5. Cat(data', Cat(ring', line')) = Cat(ring, line)
        BY <3>1, <4>2, <4>3, <4>4
      <4>6. QED BY <3>1, <3>3, <3>8, <4>3, <4>5, Replies
    <3>9. CASE open = 0
      <4>1. pc' = "idle" /\ reader' = "-"
        BY <3>1, <3>9 DEF Books, ReadBooks
      <4>2. QED BY <4>1, NotReading
    <3>10. QED BY <2>20, <3>6, <3>7, <3>8, <3>9 DEF Arrive
  <2>21. CASE StockCompletes
    <3>1. /\ serial_io = "sent" /\ need <= Len(ring) /\ data' = SubSeq(ring, 1, need)
          /\ ring' = SubSeq(ring, need + 1, Len(ring)) /\ line' = line
          /\ io_Status' = latch
          /\ UNCHANGED <<pc, reader, read_buf, channel_error,
                         serial_hidden_overrun, got>>
      BY <2>21 DEF StockCompletes, Taken, Left, Books, Types
    <3>2. ring \in Seq(Nat) /\ line \in Seq(Nat) /\ need \in Nat
      BY DEF Books, Types
    <3>3. data' \in Seq(Nat) /\ ring' \in Seq(Nat) /\ Cat(data', ring') = ring
      BY <3>1, <3>2, SplitTypes, SplitJoins DEF Cat
    <3>4. Cat(data', Cat(ring', line')) = Cat(ring, line)
      <4>1. Cat(data', Cat(ring', line)) = Cat(Cat(data', ring'), line)
        BY <3>2, <3>3, CatJoined
      <4>2. QED BY <3>1, <3>3, <4>1
    <3>5. QED BY <3>1, <3>2, <3>3, <3>4, Replies
  <2>22. CASE TimerFires
    BY <2>22 DEF TimerFires, Books, Types, ReadBooks, StreamBooks, Sending,
       Receiving, NoneNoted, Handed, Stream
  <2>23. CASE Backend_open
    BY <2>23 DEF Backend_open, Books, Types, ReadBooks, StreamBooks, Sending,
       Receiving, NoneNoted, Handed, Stream
  <2>24. CASE Exchange
    <3>1. /\ pc' = "flush" /\ reader' = "-" /\ got' = <<>> /\ read_buf' = <<>>
          /\ line' = Stale(line) /\ ring' = Stale(ring)
      BY <2>24 DEF Exchange, Books, ReadBooks
    <3>2. AllStale(line') /\ AllStale(ring')
      BY <3>1, StaleTypes DEF Books, Types
    <3>3. QED BY <3>1, <3>2 DEF StreamBooks, Receiving
  <2>25. ASSUME NEW name \in {"fuji", "stock"}, Backend_close(name)
         PROVE  StreamBooks'
    BY <2>25 DEF Backend_close, Closed, Books, Types, ReadBooks, StreamBooks,
       Sending, Receiving, NoneNoted, Handed, Stream
  <2>26. QED
    BY <2>1, <2>2, <2>3, <2>4, <2>5, <2>6, <2>7, <2>8, <2>9, <2>10, <2>11,
       <2>12, <2>13, <2>14, <2>15, <2>16, <2>17, <2>18, <2>19, <2>20, <2>21,
       <2>22, <2>23, <2>24, <2>25 DEF Next, Task
<1>3. QED BY <1>1, <1>2, BackendBooks, PTL DEF Spec

\* Success is what the session reports, and it reports it with its response
\* complete or with the overrun noted.
THEOREM BackendResults == Spec => []ResultBooks
<1>1. Init => ResultBooks
  BY DEF Init, ResultBooks, Sending
<1>2. Books /\ StreamBooks /\ ResultBooks /\ [Next]_vars => ResultBooks'
  <2> SUFFICES ASSUME Books, StreamBooks, ResultBooks, [Next]_vars
               PROVE  ResultBooks'
    OBVIOUS
  <2> USE DEF ioVars, lineVars, errVars, Bit, IoStates, Waits
  <2>1. CASE UNCHANGED vars
    BY <2>1 DEF vars, SendRead, Books, ReadBooks, ResultBooks, Sending,
       Complete
  <2>2. CASE ReadWait
    BY <2>2 DEF ReadWait, SendRead, Books, ReadBooks, ResultBooks, Sending,
       Complete
  <2>3. CASE ReadAbort
    BY <2>3 DEF ReadAbort, SendRead, Books, ReadBooks, ResultBooks, Sending,
       Complete
  <2>4. CASE ReadTimedOut
    BY <2>4 DEF ReadTimedOut, Returns, DrainedOne, AfterFlush, SendRead,
       Books, ReadBooks, ResultBooks, Sending, Complete
  <2>5. CASE ReadGot
    BY <2>5 DEF ReadGot, Returns, DrainedOne, AfterFlush, SendRead, Books,
       ReadBooks, ResultBooks, Sending, Complete
  <2>6. CASE OpenQuery
    BY <2>6 DEF OpenQuery, NoRead, SendRead, Books, ReadBooks, ResultBooks,
       Sending, Complete
  <2>7. CASE OpenFails
    BY <2>7 DEF OpenFails, Closed, SendRead, Books, ReadBooks, ResultBooks,
       Sending, Complete
  <2>8. CASE Flush
    BY <2>8 DEF Flush, NoRead, QueryFails, SendRead, Books, ReadBooks,
       ResultBooks, Sending, Complete
  <2>9. CASE Write
    BY <2>9 DEF Write, SendRead, Books, ReadBooks, ResultBooks, Sending,
       Complete
  <2>10. CASE SessionByte
    <3>1. /\ pc = "read" /\ read_buf # <<>> /\ channel_error = 0 /\ reader = "-"
          /\ io_Status = 0
          /\ got' = Append(got, Head(read_buf)) /\ session_result # "OK"
          /\ UNCHANGED <<serial_hidden_overrun, result, reader>>
          /\ result # "OK"
          /\ \/ /\ Head(read_buf) = ResponseLen
                /\ session_result' = "OK" /\ pc' = "map"
             \/ pc' = "read" /\ session_result' = session_result
             \/ pc' = "map" /\ session_result' # "OK"
      BY <2>10 DEF SessionByte, Books, ReadBooks, ResultBooks
    <3>2. CASE /\ Head(read_buf) = ResponseLen /\ session_result' = "OK"
               /\ pc' = "map" /\ serial_hidden_overrun' = 0
      <4>1. Clean(Handed)
        BY <3>1, <3>2 DEF StreamBooks, Receiving, NoneNoted
      <4>2. /\ read_buf \in Seq(Nat) /\ got \in Seq(Nat) /\ <<>> \in Seq(Nat)
            /\ ResponseLen \in Nat
        BY EmptySeq, ConstantsAssumption DEF Books, Types
      <4>3. Handed = got \o read_buf
        <5>1. Handed = got \o (read_buf \o <<>>)
          BY <3>1 DEF Handed
        <5>2. QED BY <4>2, <5>1, StreamParts
      <4>4. Append(got, Head(read_buf)) \o Tail(read_buf) = got \o read_buf
        BY <3>1, <4>2, HeadMoves
      <4>5. Clean(Append(got, Head(read_buf)) \o Tail(read_buf))
        BY <4>1, <4>3, <4>4
      <4>6. Head(read_buf) \in Nat /\ Tail(read_buf) \in Seq(Nat)
        BY <3>1, <4>2, HeadTailProperties
      <4>7. Append(got, Head(read_buf)) \in Seq(Nat)
        BY <4>2, <4>6, AppendProperties
      <4>8. Clean(Append(got, Head(read_buf)))
        BY <4>5, <4>6, <4>7, CleanPrefix
      <4>9. got' = Append(got, ResponseLen) /\ Clean(Append(got, ResponseLen))
        BY <3>1, <3>2, <4>8
      <4>10. Complete'
        BY <4>2, <4>9, LastByte DEF Complete
      <4>11. QED BY <3>1, <3>2, <4>10 DEF ResultBooks, Sending
    <3>3. QED BY <3>1, <3>2 DEF ResultBooks, Sending
  <2>11. CASE SessionBlocked
    BY <2>11 DEF SessionBlocked, SendRead, Books, ReadBooks, ResultBooks,
       Sending, Complete
  <2>12. CASE ReadByte
    BY <2>12 DEF ReadByte, NoRead, QueryFails, NoteOverrun, SendRead, Books,
       ReadBooks, ResultBooks, Sending, Complete
  <2>13. CASE Peek
    BY <2>13 DEF Peek, NoRead, NoteOverrun, SendRead, Books, ReadBooks,
       ResultBooks, Sending, Complete
  <2>14. CASE MapResult
    <3>1. /\ pc = "map" /\ reader = "-" /\ reader' = "-"
          /\ pc' \in {"end", "leftover", "drain"} /\ got' = got
          /\ result' = "OK" => pc' = "end"
      BY <2>14 DEF MapResult, Books, ReadBooks
    <3>2. result' = "OK" => session_result = "OK" /\ serial_hidden_overrun = 0
      BY <2>14 DEF MapResult, Outcome, Books, Types
    <3>3. Complete' = Complete
      BY <3>1 DEF Complete
    <3>4. QED BY <3>1, <3>2, <3>3 DEF ResultBooks, Sending
  <2>15. CASE CaptureLeftover
    BY <2>15 DEF CaptureLeftover, NoRead, SendRead, Books, ReadBooks,
       ResultBooks, Sending, Complete
  <2>16. CASE Drain
    BY <2>16 DEF Drain, NoRead, QueryFails, SendRead, Books, ReadBooks,
       ResultBooks, Sending, Complete
  <2>17. CASE Slice
    BY <2>17 DEF Slice, SendRead, Books, ReadBooks, ResultBooks, Sending,
       Complete
  <2>18. CASE Return
    BY <2>18 DEF Return, Closed, NoDrain, SendRead, Books, ReadBooks,
       ResultBooks, Sending, Complete
  <2>19. CASE Poll
    BY <2>19 DEF Poll, NoteOverrun, SendRead, Books, ReadBooks, ResultBooks,
       Sending, Complete
  <2>20. CASE Arrive
    BY <2>20 DEF Arrive, SendRead, Books, ReadBooks, ResultBooks, Sending,
       Complete
  <2>21. CASE StockCompletes
    BY <2>21 DEF StockCompletes, SendRead, Books, ReadBooks, ResultBooks,
       Sending, Complete
  <2>22. CASE TimerFires
    BY <2>22 DEF TimerFires, SendRead, Books, ReadBooks, ResultBooks,
       Sending, Complete
  <2>23. CASE Backend_open
    BY <2>23 DEF Backend_open, SendRead, Books, ReadBooks, ResultBooks,
       Sending, Complete
  <2>24. CASE Exchange
    BY <2>24 DEF Exchange, NoDrain, SendRead, Books, ReadBooks, ResultBooks,
       Sending, Complete
  <2>25. ASSUME NEW name \in {"fuji", "stock"}, Backend_close(name)
         PROVE  ResultBooks'
    BY <2>25 DEF Backend_close, Closed, SendRead, Books, ReadBooks,
       ResultBooks, Sending, Complete
  <2>26. QED
    BY <2>1, <2>2, <2>3, <2>4, <2>5, <2>6, <2>7, <2>8, <2>9, <2>10, <2>11,
       <2>12, <2>13, <2>14, <2>15, <2>16, <2>17, <2>18, <2>19, <2>20, <2>21,
       <2>22, <2>23, <2>24, <2>25 DEF Next, Task
<1>3. QED BY <1>1, <1>2, BackendBooks, BackendStream, PTL DEF Spec

\* LossIsReported: an exchange reports success only with its response complete,
\* whatever bytes were lost on the way and whichever serial device lost them.
THEOREM LossReported == Spec => []LossIsReported
<1>1. ResultBooks => LossIsReported
  BY DEF ResultBooks, LossIsReported, Complete
<1>2. QED BY <1>1, BackendResults, PTL

\* After a failed exchange, until its drain ends.
Draining ==
  pc \in {"leftover", "drain", "slice"} \/ reader \in {"leftover", "drain"}

\* The bytes in the serial device and on the line.
Size == Len(ring) + Len(line)

\* With the bytes of a read that is not yet over.
Amount == Len(data) + Size

Most == MaxLine + 2 * ResponseLen

\* What can be there at most: what was on the line when session_flush found
\* nothing, and one response; a failed flush can leave one more.
SizeBooks ==
  /\ Len(line) <= MaxLine /\ Size <= Most
  /\ \/ pc \in {"idle", "openquery", "openfail", "flush"}
     \/ reader \in {"open", "flush"}
     \/ (Draining \/ pc = "end") /\ result \notin {"TRANSPORT", "TIMEOUT"}
     =>
     Size <= MaxLine + ResponseLen
  /\ pc = "write" =>
       \/ Size <= MaxLine
       \/ channel_error = 1 /\ Size <= MaxLine + ResponseLen
  /\ (pc \in {"read", "peek", "map"} \/ reader \in {"byte", "peek"})
       /\ channel_error = 0 => Size <= MaxLine + ResponseLen

\* A drain makes no more reads than there were bytes.
StepsBooks ==
  /\ reader = "drain" => need > 0
  /\ ~Draining /\ pc # "end" => drain = NoDrain
  /\ pc = "leftover" \/ reader = "leftover" => drain = NoDrain
  /\ Draining \/ pc = "end" => drain.steps + Amount <= Most

\* A response that was on its way when the exchange failed is not on the line
\* and to come only: it arrives until its last byte.
OwedBooks ==
  /\ owed = 1 => Draining \/ pc = "end"
  /\ owed = 1 /\ line # <<>> => begun = 1
  /\ owed = 1 /\ timer_io = "replied" => line = <<>>

\* The turn of the drain that is waiting for its slice.
Turn == IF pc = "slice" THEN 1 ELSE 0

\* The pauses in what has arrived when l bytes have not.
Span(l) == MaxQuiet * (MaxLine - l)

\* While it arrives the drain has waited no longer than its pauses; and what
\* the drain has seen of the last one, with nothing in the device, is no longer
\* than that pause.
PauseBooks ==
  owed = 1 /\ Draining /\ line # <<>> =>
    /\ drain.waited <= Span(Len(line)) + quiet + Turn
    /\ ring = <<>> /\ latch = 0 /\ reader = "-" => drain.empty <= quiet + Turn

\* LeftoverDrained, with all of the response gone.
LeftBooks ==
  (/\ pc = "end" /\ result # "OK" /\ owed = 1
   /\ serial_name = "fuji" \/ channel_error = 0
   /\ drain.steps < DrainSteps) => line = <<>>

-----------------------------------------------------------------------------
(* Lengths.                                                                *)

\* A read that is sent moves bytes from the ring to the request.
LEMMA SendReadSizes ==
  ASSUME Books, pc \notin Waits, NEW n \in Nat, NEW for, SendRead(n, for)
  PROVE  /\ Len(data') + Len(ring') = Len(ring) /\ UNCHANGED line
         /\ Len(data') \in Nat /\ Len(ring') \in Nat
<1>1. /\ ring \in Seq(Nat) /\ data' \in Seq(Nat) /\ ring' \in Seq(Nat)
      /\ UNCHANGED line
      /\ ring = data' \o ring' \/ (data' = <<>> /\ UNCHANGED ring)
  BY SendReadBooks DEF Books, Types
<1>2. CASE ring = data' \o ring'
  BY <1>1, <1>2, ConcatProperties
<1>3. CASE data' = <<>> /\ UNCHANGED ring
  BY <1>1, <1>3, EmptySeq
<1>4. QED BY <1>1, <1>2, <1>3

Shrunk == Len(line') <= Len(line) /\ Size' <= Size /\ Amount' <= Amount

\* Bytes come from the line and go to the session or are lost: only a write
\* brings new ones.
LEMMA OnlyWritesAdd ==
  ASSUME Books, [Next]_vars, ~Write
  PROVE  Shrunk
<1> USE DEF ioVars, lineVars, errVars, Bit, IoStates, Waits
<1>1. /\ Len(ring) \in Nat /\ Len(line) \in Nat /\ Len(data) \in Nat
  BY DEF Books, Types
<1>2. QED
  <2>1. CASE UNCHANGED vars
    BY <2>1, <1>1 DEF vars, Shrunk, Amount, Size
  <2>2. CASE ReadWait
    BY <2>2, <1>1 DEF ReadWait, Shrunk, Amount, Size
  <2>3. CASE ReadAbort
    BY <2>3, <1>1, EmptySeq DEF ReadAbort, Shrunk, Amount, Size
  <2>4. CASE ReadTimedOut
    BY <2>4, <1>1, EmptySeq DEF ReadTimedOut, Returns, DrainedOne,
       AfterFlush, Shrunk, Amount, Size
  <2>5. CASE ReadGot
    BY <2>5, <1>1, EmptySeq DEF ReadGot, Returns, DrainedOne, AfterFlush,
       Shrunk, Amount, Size
  <2>6. CASE OpenQuery
    <3>1. /\ Len(data') + Len(ring') = Len(ring) /\ UNCHANGED line
          /\ Len(data') \in Nat
          \/ UNCHANGED <<ring, line, data>>
      BY <2>6, <1>1, SendReadSizes, AdvertisedTypes, AtMostBooks, Limits
         DEF OpenQuery, NoRead, Books, Types
    <3>2. QED BY <1>1, <3>1 DEF Shrunk, Amount, Size
  <2>7. CASE OpenFails
    BY <2>7, <1>1, EmptySeq DEF OpenFails, Closed, Shrunk, Amount, Size
  <2>8. CASE Flush
    <3>1. /\ Len(data') + Len(ring') = Len(ring) /\ UNCHANGED line
          /\ Len(data') \in Nat
          \/ UNCHANGED <<ring, line, data>>
      BY <2>8, <1>1, SendReadSizes, AdvertisedTypes, AtMostBooks, Limits
         DEF Flush, NoRead, Books, Types
    <3>2. QED BY <1>1, <3>1 DEF Shrunk, Amount, Size
  <2>9. CASE Write
    BY <2>9, <1>1 DEF Write, Shrunk, Amount, Size
  <2>10. CASE SessionByte
    BY <2>10, <1>1 DEF SessionByte, Shrunk, Amount, Size
  <2>11. CASE SessionBlocked
    BY <2>11, <1>1 DEF SessionBlocked, Shrunk, Amount, Size
  <2>12. CASE ReadByte
    <3>1. /\ Len(data') + Len(ring') = Len(ring) /\ UNCHANGED line
          /\ Len(data') \in Nat
          \/ UNCHANGED <<ring, line, data>>
      BY <2>12, <1>1, SendReadSizes, AdvertisedTypes, AtMostBooks, Limits
         DEF ReadByte, NoRead, Books, Types
    <3>2. QED BY <1>1, <3>1 DEF Shrunk, Amount, Size
  <2>13. CASE Peek
    <3>1. CASE SendRead(Len(ring), "peek")
      <4>1. /\ Len(data') + Len(ring') = Len(ring) /\ UNCHANGED line
            /\ Len(data') \in Nat
        BY <2>13, <1>1, <3>1, SendReadSizes DEF Peek
      <4>2. QED BY <1>1, <4>1 DEF Shrunk, Amount, Size
    <3>2. CASE NoRead
      BY <1>1, <3>2 DEF NoRead, Shrunk, Amount, Size
    <3>3. QED BY <2>13, <3>1, <3>2 DEF Peek
  <2>14. CASE MapResult
    BY <2>14, <1>1 DEF MapResult, Outcome, Shrunk, Amount, Size
  <2>15. CASE CaptureLeftover
    <3>1. CASE SendRead(Len(ring), "leftover")
      <4>1. /\ Len(data') + Len(ring') = Len(ring) /\ UNCHANGED line
            /\ Len(data') \in Nat
        BY <2>15, <1>1, <3>1, SendReadSizes DEF CaptureLeftover
      <4>2. QED BY <1>1, <4>1 DEF Shrunk, Amount, Size
    <3>2. CASE NoRead
      BY <1>1, <3>2 DEF NoRead, Shrunk, Amount, Size
    <3>3. QED BY <2>15, <3>1, <3>2 DEF CaptureLeftover
  <2>16. CASE Drain
    <3>1. /\ Len(data') + Len(ring') = Len(ring) /\ UNCHANGED line
          /\ Len(data') \in Nat
          \/ UNCHANGED <<ring, line, data>>
      BY <2>16, <1>1, SendReadSizes, AdvertisedTypes, AtMostBooks, Limits
         DEF Drain, NoRead, Books, Types
    <3>2. QED BY <1>1, <3>1 DEF Shrunk, Amount, Size
  <2>17. CASE Slice
    BY <2>17, <1>1 DEF Slice, Shrunk, Amount, Size
  <2>18. CASE Return
    <3>1. /\ UNCHANGED line
          /\ ring' = <<>> \/ ring' = ring
          /\ data' = <<>> \/ data' = data
      BY <2>18 DEF Return, Closed, Cleared
    <3>2. Len(ring') \in {0, Len(ring)} /\ Len(data') \in {0, Len(data)}
      BY <3>1, EmptySeq
    <3>3. QED BY <1>1, <3>1, <3>2 DEF Shrunk, Amount, Size
  <2>19. CASE Poll
    BY <2>19, <1>1 DEF Poll, NoteOverrun, Shrunk, Amount, Size
  <2>20. CASE Arrive
    <3>1. line # <<>> /\ line' = Tail(line) /\ line \in Seq(Nat) /\ ring \in Seq(Nat)
      BY <2>20 DEF Arrive, Books, Types
    <3>2. Len(line') = Len(line) - 1 /\ Len(line) > 0 /\ Head(line) \in Nat
      BY <3>1, HeadTailProperties, EmptySeq
    <3> DEFINE now == Append(ring, Head(line))
    <3>3. now \in Seq(Nat) /\ Len(now) = Len(ring) + 1
      BY <3>1, <3>2, AppendProperties
    <3>4. CASE ring' = ring /\ data' = data
      BY <1>1, <3>2, <3>4 DEF Shrunk, Amount, Size
    <3>5. CASE ring' = now /\ data' = data
      <4>1. Len(ring') = Len(ring) + 1
        BY <3>3, <3>5
      <4>2. QED BY <1>1, <3>2, <3>5, <4>1 DEF Shrunk, Amount, Size
    <3>6. CASE /\ Len(now) >= need /\ data' = SubSeq(now, 1, need)
               /\ ring' = Left(now)
      <4>1. /\ need \in Nat /\ need <= Len(now)
            /\ ring' = SubSeq(now, need + 1, Len(now))
        BY <1>1, <3>3, <3>6 DEF Left, Books, Types
      <4> HIDE DEF now
      <4>2. Len(data') = need /\ Len(ring') = Len(now) - need
        BY <3>3, <3>6, <4>1, SplitTypes
      <4>3. QED BY <1>1, <3>2, <3>3, <4>1, <4>2 DEF Shrunk, Amount, Size
    <3>7. QED BY <2>20, <3>4, <3>5, <3>6 DEF Arrive
  <2>21. CASE StockCompletes
    <3>1. Len(data') + Len(ring') = Len(ring) /\ line' = line /\ Len(data') \in Nat
      <4>1. /\ ring \in Seq(Nat) /\ need \in Nat /\ need <= Len(ring)
            /\ data' = SubSeq(ring, 1, need)
            /\ ring' = SubSeq(ring, need + 1, Len(ring)) /\ line' = line
        BY <2>21 DEF StockCompletes, Taken, Left, Books, Types
      <4>2. Len(data') = need /\ Len(ring') = Len(ring) - need
        BY <4>1, SplitTypes
      <4>3. need \in Nat /\ line' = line
        BY <4>1
      <4>4. QED BY <1>1, <4>2, <4>3
    <3>2. QED BY <1>1, <3>1 DEF Shrunk, Amount, Size
  <2>22. CASE TimerFires
    BY <2>22, <1>1 DEF TimerFires, Shrunk, Amount, Size
  <2>23. CASE Backend_open
    BY <2>23, <1>1, EmptySeq DEF Backend_open, Shrunk, Amount, Size
  <2>24. CASE Exchange
    <3>1. /\ Len(line') = Len(line) /\ Len(ring') = Len(ring) /\ data' = data
      BY <2>24 DEF Exchange, Stale, Books, Types
    <3>2. QED BY <1>1, <3>1 DEF Shrunk, Amount, Size
  <2>25. ASSUME NEW name \in {"fuji", "stock"}, Backend_close(name)
         PROVE  Shrunk
    BY <2>25, <1>1, EmptySeq DEF Backend_close, Closed, Shrunk, Amount, Size
  <2>26. QED
    BY <2>1, <2>2, <2>3, <2>4, <2>5, <2>6, <2>7, <2>8, <2>9, <2>10, <2>11,
       <2>12, <2>13, <2>14, <2>15, <2>16, <2>17, <2>18, <2>19, <2>20, <2>21,
       <2>22, <2>23, <2>24, <2>25 DEF Next, Task

-----------------------------------------------------------------------------
(* What a drain has to do.                                                 *)

\* session_flush and the drains bound what can be in the serial device and on
\* the line, over any number of exchanges.
THEOREM BackendSizes == Spec => []SizeBooks
<1> USE Limits
<1>1. Init => SizeBooks
  BY EmptySeq DEF Init, SizeBooks, Size, Draining, Most
<1>2. Books /\ SizeBooks /\ Books' /\ [Next]_vars => SizeBooks'
  <2> SUFFICES ASSUME Books, SizeBooks, Books', [Next]_vars
               PROVE  SizeBooks'
    OBVIOUS
  <2> USE DEF ioVars, lineVars, errVars, Bit, IoStates, Waits
  <2>1. /\ Len(ring) \in Nat /\ Len(line) \in Nat /\ Len(ring') \in Nat
        /\ Len(line') \in Nat /\ Size \in Nat /\ Size' \in Nat
        /\ ResponseLen \in Nat /\ MaxLine \in Nat /\ Most \in Nat
        /\ MaxLine + ResponseLen <= Most
        /\ (MaxLine + ResponseLen) + ResponseLen = Most
    <3>1. ring \in Seq(Nat) /\ line \in Seq(Nat)
      BY DEF Books, Types
    <3>2. ring' \in Seq(Nat) /\ line' \in Seq(Nat)
      BY DEF Books, Types
    <3>3. /\ Len(ring) \in Nat /\ Len(line) \in Nat /\ Len(ring') \in Nat
          /\ Len(line') \in Nat
      BY <3>1, <3>2, LenProperties
    <3>4. QED BY <3>3 DEF Size, Most
  <2>2. CASE Write
    <3>0. Len(ring') <= Len(ring)
      BY <2>1, <2>2, EmptySeq DEF Write, Cleared
    <3>1. /\ pc = "write" /\ reader = "-" /\ UNCHANGED reader
          /\ \/ /\ pc' = "read" /\ UNCHANGED channel_error
                /\ line' \in {line, line \o [i \in 1..ResponseLen |-> i]}
                /\ Len(line') <= MaxLine
             \/ pc' = "map" /\ channel_error' = 1 /\ UNCHANGED line
      BY <2>2 DEF Write, Books, ReadBooks
    <3>2. Len(line') <= Len(line) + ResponseLen /\ Len(line') <= MaxLine
      <4>1. /\ line \in Seq(Nat) /\ [i \in 1..ResponseLen |-> i] \in Seq(Nat)
            /\ Len([i \in 1..ResponseLen |-> i]) = ResponseLen
        BY <2>1 DEF Books, Types
      <4>2. Len(line \o [i \in 1..ResponseLen |-> i]) = Len(line) + ResponseLen
        BY <4>1, ConcatProperties
      <4>3. Len(line) <= MaxLine
        BY DEF SizeBooks
      <4>4. QED BY <2>1, <3>1, <4>2, <4>3
    <3>3. Size' <= Size + ResponseLen
      BY <2>1, <3>0, <3>1, <3>2 DEF Size
    <3>4. Size <= MaxLine \/ (channel_error = 1 /\ Size <= MaxLine + ResponseLen)
      BY <3>1 DEF SizeBooks
    <3>5. channel_error' = 0 => channel_error = 0
      BY <3>1 DEF Books, Types
    <3>6. QED BY <2>1, <3>1, <3>2, <3>3, <3>4, <3>5 DEF SizeBooks, Draining
  <2>3. SUFFICES ASSUME ~Write PROVE SizeBooks'
    BY <2>2
  <2>4. Len(line') <= Len(line) /\ Size' <= Size
    BY <2>3, OnlyWritesAdd DEF Shrunk
  <2>5. CASE UNCHANGED vars
    <3>1. UNCHANGED <<pc, reader, result, channel_error>>
      BY <2>5 DEF vars
    <3>2. QED BY <2>1, <2>4, <3>1 DEF SizeBooks, Draining
  <2>6. CASE ReadWait
    <3>1. pc \in Waits /\ pc' \in Waits /\ UNCHANGED <<reader, result, channel_error>>
      BY <2>6 DEF ReadWait
    <3>2. QED BY <2>1, <2>4, <3>1 DEF SizeBooks, Draining
  <2>7. CASE ReadAbort
    <3>1. pc \in Waits /\ pc' \in Waits /\ UNCHANGED <<reader, result, channel_error>>
      BY <2>7 DEF ReadAbort
    <3>2. QED BY <2>1, <2>4, <3>1 DEF SizeBooks, Draining
  <2>8. CASE ReadTimedOut
    <3>1. /\ pc \in {"got", "timeout"} /\ reader' = "-" /\ UNCHANGED result
          /\ channel_error' \in {channel_error, 1}
          /\ \/ reader = "byte" /\ pc' \in {"peek", "read"}
             \/ reader = "flush" /\ pc' = "flush"
             \/ reader = "flush" /\ pc' = "write" /\ channel_error' = 1
             \/ reader = "drain" /\ pc' \in {"drain", "end"}
             \/ reader = "peek" /\ pc' = "map"
             \/ reader = "leftover" /\ pc' = "drain"
             \/ reader = "open" /\ pc' \in {"idle", "openfail"}
      BY <2>8 DEF ReadTimedOut, Returns, AfterFlush, Books, Types, ReadBooks
    <3>2. channel_error \in {0, 1}
      BY DEF Books, Types
    <3>3. QED BY <2>1, <2>4, <3>1, <3>2 DEF SizeBooks, Draining
  <2>9. CASE ReadGot
    <3>1. /\ pc \in {"got", "timeout"} /\ reader' = "-" /\ UNCHANGED result
          /\ channel_error' \in {channel_error, 1}
          /\ \/ reader = "byte" /\ pc' \in {"peek", "read"}
             \/ reader = "flush" /\ pc' = "flush"
             \/ reader = "flush" /\ pc' = "write" /\ channel_error' = 1
             \/ reader = "drain" /\ pc' \in {"drain", "end"}
             \/ reader = "peek" /\ pc' = "map"
             \/ reader = "leftover" /\ pc' = "drain"
             \/ reader = "open" /\ pc' \in {"idle", "openfail"}
      BY <2>9 DEF ReadGot, Returns, AfterFlush, Books, Types, ReadBooks
    <3>2. channel_error \in {0, 1}
      BY DEF Books, Types
    <3>3. QED BY <2>1, <2>4, <3>1, <3>2 DEF SizeBooks, Draining
  <2>10. CASE OpenQuery
    <3>1. /\ pc = "openquery" /\ reader' \in {"-", "open"}
          /\ pc' = "idle" \/ (pc' = "wait" /\ reader' = "open")
      BY <2>10 DEF OpenQuery, SendRead, NoRead, QueryFails, Closed, Books,
         ReadBooks
    <3>2. QED BY <2>1, <2>4, <3>1 DEF SizeBooks, Draining
  <2>11. CASE OpenFails
    <3>1. /\ pc = "openfail" /\ pc' = "idle" /\ reader' = "-"
      BY <2>11 DEF OpenFails, Books, ReadBooks
    <3>2. QED BY <2>1, <2>4, <3>1 DEF SizeBooks, Draining
  <2>12. CASE Flush
    <3>1. pc = "flush" /\ reader = "-"
      BY <2>12 DEF Flush, Books, ReadBooks
    <3>2. CASE pc' = "wait" /\ reader' = "flush"
      BY <2>1, <2>4, <3>1, <3>2 DEF SizeBooks, Draining
    <3>3. CASE /\ NoRead /\ pc' = "write"
               /\ \/ 0 \in Advertised
                  \/ channel_error' = 1
      <4>1. UNCHANGED <<ring, line, reader>>
        BY <3>3 DEF NoRead
      <4>2. 0 \in Advertised => Len(ring) = 0
        BY <2>1 DEF Advertised
      <4>3. Size' <= MaxLine \/ channel_error' = 1
        BY <2>1, <3>3, <4>1, <4>2 DEF Size, SizeBooks
      <4>4. Size' <= MaxLine + ResponseLen /\ Len(line') <= MaxLine
        BY <2>1, <2>4, <3>1 DEF SizeBooks
      <4>5. QED BY <2>1, <3>1, <3>3, <4>1, <4>3, <4>4 DEF SizeBooks, Draining
    <3>4. ASSUME NEW n \in Advertised,
                 IF latch = 1 THEN SendRead(1, "flush")
                 ELSE IF n > 0 THEN SendRead(AtMost(n, ReadBuf), "flush")
                 ELSE pc' = "write" /\ NoRead
          PROVE  SizeBooks'
      <4>1. n \in Nat
        BY AdvertisedTypes DEF Books
      <4>2. QED BY <3>2, <3>3, <3>4, <4>1 DEF SendRead
    <3>5. QED BY <2>12, <3>3, <3>4 DEF Flush, QueryFails
  <2>13. CASE SessionByte
    <3>1. /\ pc = "read" /\ reader' = "-" /\ pc' \in {"read", "map"}
          /\ UNCHANGED channel_error
      BY <2>13 DEF SessionByte, SendRead, NoRead, QueryFails, Closed, Books,
         ReadBooks
    <3>2. QED BY <2>1, <2>4, <3>1 DEF SizeBooks, Draining
  <2>14. CASE SessionBlocked
    <3>1. /\ pc = "read" /\ reader' = "-" /\ pc' = "peek"
          /\ UNCHANGED channel_error
      BY <2>14 DEF SessionBlocked, SendRead, NoRead, QueryFails, Closed, Books,
         ReadBooks
    <3>2. QED BY <2>1, <2>4, <3>1 DEF SizeBooks, Draining
  <2>15. CASE ReadByte
    <3>1. /\ pc = "read" /\ reader' \in {"-", "byte"}
          /\ pc' \in {"read", "peek"} \/ (pc' = "wait" /\ reader' = "byte")
          /\ channel_error' \in {channel_error, 1}
      BY <2>15 DEF ReadByte, SendRead, NoRead, QueryFails, Closed, Books,
         ReadBooks
    <3>2. channel_error \in {0, 1}
      BY DEF Books, Types
    <3>3. QED BY <2>1, <2>4, <3>1, <3>2 DEF SizeBooks, Draining
  <2>16. CASE Peek
    <3>1. /\ pc = "peek" /\ reader' \in {"-", "peek"} /\ UNCHANGED channel_error
          /\ pc' = "map" \/ (pc' = "wait" /\ reader' = "peek")
      BY <2>16 DEF Peek, SendRead, NoRead, Books, ReadBooks
    <3>2. QED BY <2>1, <2>4, <3>1 DEF SizeBooks, Draining
  <2>17. CASE MapResult
    <3>1. /\ pc = "map" /\ pc' \in {"end", "leftover", "drain"} /\ reader' = "-"
          /\ result' \notin {"TRANSPORT", "TIMEOUT"} => channel_error = 0
      BY <2>17 DEF MapResult, Outcome, Books, ReadBooks, Types
    <3>2. result' \notin {"TRANSPORT", "TIMEOUT"} => Size' <= MaxLine + ResponseLen
      BY <2>1, <2>4, <3>1 DEF SizeBooks
    <3>3. Size' <= Most /\ Len(line') <= MaxLine
      BY <2>1, <2>4 DEF SizeBooks
    <3>4. QED BY <3>1, <3>2, <3>3 DEF SizeBooks, Draining
  <2>18. CASE CaptureLeftover
    <3>1. /\ pc = "leftover" /\ reader' \in {"-", "leftover"}
          /\ UNCHANGED result /\ pc' \in {"drain", "wait"}
          /\ pc' = "drain" \/ reader' = "leftover"
      BY <2>18 DEF CaptureLeftover, SendRead, NoRead, QueryFails, Closed, Books,
         ReadBooks
    <3>2. QED BY <2>1, <2>4, <3>1 DEF SizeBooks, Draining
  <2>19. CASE Drain
    <3>1. /\ pc = "drain" /\ pc' \in {"slice", "end", "wait"}
          /\ reader' \in {"-", "drain"} /\ UNCHANGED result
      BY <2>19 DEF Drain, SendRead, NoRead, QueryFails, Books, ReadBooks
    <3>2. QED BY <2>1, <2>4, <3>1 DEF SizeBooks, Draining
  <2>20. CASE Slice
    <3>1. pc = "slice" /\ pc' = "drain" /\ reader = "-" /\ UNCHANGED <<reader, result>>
      BY <2>20 DEF Slice, Books, ReadBooks
    <3>2. QED BY <2>1, <2>4, <3>1 DEF SizeBooks, Draining
  <2>21. CASE Return
    <3>1. pc = "end" /\ pc' = "idle" /\ reader' = "-" /\ Len(line') <= MaxLine
      BY <2>21, <2>1, <2>4 DEF Return, Books, ReadBooks, SizeBooks
    <3>2. Size' <= MaxLine + ResponseLen
      <4>1. CASE result \in {"TRANSPORT", "TIMEOUT"}
        <5>1. Len(ring') = 0
          BY <2>21, <4>1, EmptySeq DEF Return, Closed
        <5>2. QED BY <2>1, <3>1, <5>1 DEF Size
      <4>2. CASE result \notin {"TRANSPORT", "TIMEOUT"}
        BY <2>1, <2>4, <3>1, <4>2 DEF SizeBooks
      <4>3. QED BY <4>1, <4>2
    <3>3. QED BY <2>1, <3>1, <3>2 DEF SizeBooks, Draining
  <2>22. CASE Poll
    <3>1. UNCHANGED <<pc, reader, result, channel_error>>
      BY <2>22 DEF Poll
    <3>2. QED BY <2>1, <2>4, <3>1 DEF SizeBooks, Draining
  <2>23. CASE Arrive
    <3>1. UNCHANGED <<pc, reader, result, channel_error>>
      BY <2>23 DEF Arrive
    <3>2. QED BY <2>1, <2>4, <3>1 DEF SizeBooks, Draining
  <2>24. CASE StockCompletes
    <3>1. UNCHANGED <<pc, reader, result, channel_error>>
      BY <2>24 DEF StockCompletes
    <3>2. QED BY <2>1, <2>4, <3>1 DEF SizeBooks, Draining
  <2>25. CASE TimerFires
    <3>1. UNCHANGED <<pc, reader, result, channel_error>>
      BY <2>25 DEF TimerFires
    <3>2. QED BY <2>1, <2>4, <3>1 DEF SizeBooks, Draining
  <2>26. CASE Backend_open
    <3>1. /\ pc = "idle" /\ reader' = "-" /\ pc' = "openquery"
      BY <2>26 DEF Backend_open, SendRead, NoRead, QueryFails, Closed, Books,
         ReadBooks
    <3>2. QED BY <2>1, <2>4, <3>1 DEF SizeBooks, Draining
  <2>27. CASE Exchange
    <3>1. /\ pc = "idle" /\ reader' = "-" /\ pc' = "flush"
      BY <2>27 DEF Exchange, SendRead, NoRead, QueryFails, Closed, Books,
         ReadBooks
    <3>2. QED BY <2>1, <2>4, <3>1 DEF SizeBooks, Draining
  <2>28. ASSUME NEW name \in {"fuji", "stock"}, Backend_close(name)
         PROVE  SizeBooks'
    <3>1. /\ pc = "idle" /\ reader' = "-" /\ pc' = "idle"
      BY <2>28 DEF Backend_close, SendRead, NoRead, QueryFails, Closed, Books,
         ReadBooks
    <3>2. QED BY <2>1, <2>4, <3>1 DEF SizeBooks, Draining
  <2>29. QED
    BY <2>5, <2>6, <2>7, <2>8, <2>9, <2>10, <2>11, <2>12, <2>13, <2>14,
       <2>15, <2>16, <2>17, <2>18, <2>19, <2>20, <2>21, <2>22, <2>23, <2>24,
       <2>25, <2>26, <2>27, <2>28, <2>3 DEF Next, Task
<1>3. QED BY <1>1, <1>2, BackendBooks, PTL DEF Spec

\* Every read of a drain takes a byte that was there.
THEOREM BackendSteps == Spec => []StepsBooks
<1>1. Init => StepsBooks
  BY DEF Init, StepsBooks, Draining, NoDrain
<1>2. Books /\ SizeBooks /\ StepsBooks /\ Books' /\ [Next]_vars => StepsBooks'
  <2> SUFFICES ASSUME Books, SizeBooks, StepsBooks, Books', [Next]_vars
               PROVE  StepsBooks'
    OBVIOUS
  <2> USE DEF ioVars, lineVars, errVars, Bit, IoStates, Waits
  <2>1. /\ Len(data) \in Nat /\ Len(data') \in Nat /\ Size \in Nat /\ Size' \in Nat
        /\ Amount \in Nat /\ Amount' \in Nat /\ Most \in Nat
        /\ drain.steps \in Nat /\ drain'.steps \in Nat
    <3>1. ring \in Seq(Nat) /\ line \in Seq(Nat) /\ data \in Seq(Nat)
      BY DEF Books, Types
    <3>2. ring' \in Seq(Nat) /\ line' \in Seq(Nat) /\ data' \in Seq(Nat)
      BY DEF Books, Types
    <3>3. /\ Len(ring) \in Nat /\ Len(line) \in Nat /\ Len(data) \in Nat
          /\ Len(ring') \in Nat /\ Len(line') \in Nat /\ Len(data') \in Nat
      BY <3>1, <3>2, LenProperties
    <3>4. drain.steps \in Nat
      BY Limits DEF Books, DrainBooks
    <3>5. drain'.steps \in Nat
      BY Limits DEF Books, DrainBooks
    <3>6. Size \in Nat /\ Size' \in Nat
      BY <3>3 DEF Size
    <3>7. Amount \in Nat /\ Amount' \in Nat
      BY <3>3, <3>6 DEF Amount
    <3>8. Most \in Nat
      BY Limits DEF Most
    <3>9. QED BY <3>3, <3>4, <3>5, <3>6, <3>7, <3>8
  <2>2. CASE Write
    <3>1. /\ pc \in {"write"} /\ pc' \in {"read", "map"} /\ reader = "-"
          /\ reader' \in {"-"} /\ UNCHANGED drain
      BY <2>2 DEF Write, SendRead, NoRead, Books, ReadBooks
    <3>2. QED BY <3>1 DEF StepsBooks, Draining
  <2>3. SUFFICES ASSUME ~Write PROVE StepsBooks'
    BY <2>2
  <2>4. Amount' <= Amount
    BY <2>3, OnlyWritesAdd DEF Shrunk
  <2>5. CASE UNCHANGED vars
    <3>1. UNCHANGED <<pc, reader, need, drain>>
      BY <2>5 DEF vars
    <3>2. QED BY <2>1, <2>4, <3>1 DEF StepsBooks, Draining
  <2>6. CASE ReadWait
    <3>1. pc \in Waits /\ pc' \in Waits /\ UNCHANGED <<reader, need, drain>>
      BY <2>6 DEF ReadWait
    <3>2. QED BY <2>1, <2>4, <3>1 DEF StepsBooks, Draining
  <2>7. CASE ReadAbort
    <3>1. pc \in Waits /\ pc' \in Waits /\ UNCHANGED <<reader, need, drain>>
      BY <2>7 DEF ReadAbort
    <3>2. QED BY <2>1, <2>4, <3>1 DEF StepsBooks, Draining
  <2>8. CASE ReadTimedOut
    <3>1. /\ pc \in {"got", "timeout"} /\ reader' = "-"
          /\ Len(data') = 0 /\ Size' = Size
          /\ reader = "drain" /\ pc = "got" => Len(data) > 0
      BY <2>8, <2>1, EmptySeq DEF ReadTimedOut, Returns, Size, Books, ReadBooks, StepsBooks
    <3>2. CASE reader = "drain" /\ Returns("OK") /\ pc = "got"
      <4>1. /\ drain' = [empty |-> 0, waited |-> drain.waited, steps |-> drain.steps + 1]
            /\ pc' \in {"drain", "end"}
        BY <3>2 DEF Returns, DrainedOne
      <4>2. drain.steps + Amount <= Most
        BY <3>2 DEF StepsBooks, Draining
      <4>3. drain'.steps = drain.steps + 1
        BY <4>1
      <4>4. Amount' + 1 <= Amount
        BY <2>1, <3>1, <3>2 DEF Amount
      <4>5. drain'.steps + Amount' <= Most
        <5> DEFINE k == drain.steps
                   k1 == drain'.steps
                   a == Amount
                   a1 == Amount'
        <5>1. /\ k \in Nat /\ k1 \in Nat /\ a \in Nat /\ a1 \in Nat /\ Most \in Nat
              /\ k + a <= Most /\ k1 = k + 1 /\ a1 + 1 <= a
          BY <2>1, <4>2, <4>3, <4>4
        <5> HIDE DEF k, k1, a, a1
        <5>2. k1 + a1 <= Most
          BY <5>1
        <5>3. QED BY <5>2 DEF k1, a1
      <4>6. QED BY <3>1, <4>1, <4>5 DEF StepsBooks, Draining
    <3>3. CASE /\ drain' = drain
               /\ \/ reader = "drain" /\ pc' = "end"
                  \/ /\ reader \in {"open", "flush", "byte", "peek"}
                     /\ pc' \in {"read", "flush", "write", "peek", "map", "idle",
                                 "openfail"}
                  \/ reader = "leftover" /\ pc' = "drain"
      BY <2>1, <2>4, <3>1, <3>3 DEF StepsBooks, Draining
    <3>4. QED BY <2>8, <3>1, <3>2, <3>3 DEF ReadTimedOut, Returns, AfterFlush, Books, Types, ReadBooks
  <2>9. CASE ReadGot
    <3>1. /\ pc \in {"got", "timeout"} /\ reader' = "-"
          /\ Len(data') = 0 /\ Size' = Size
          /\ reader = "drain" /\ pc = "got" => Len(data) > 0
      BY <2>9, <2>1, EmptySeq DEF ReadGot, Returns, Size, Books, ReadBooks, StepsBooks
    <3>2. CASE reader = "drain" /\ Returns("OK") /\ pc = "got"
      <4>1. /\ drain' = [empty |-> 0, waited |-> drain.waited, steps |-> drain.steps + 1]
            /\ pc' \in {"drain", "end"}
        BY <3>2 DEF Returns, DrainedOne
      <4>2. drain.steps + Amount <= Most
        BY <3>2 DEF StepsBooks, Draining
      <4>3. drain'.steps = drain.steps + 1
        BY <4>1
      <4>4. Amount' + 1 <= Amount
        BY <2>1, <3>1, <3>2 DEF Amount
      <4>5. drain'.steps + Amount' <= Most
        <5> DEFINE k == drain.steps
                   k1 == drain'.steps
                   a == Amount
                   a1 == Amount'
        <5>1. /\ k \in Nat /\ k1 \in Nat /\ a \in Nat /\ a1 \in Nat /\ Most \in Nat
              /\ k + a <= Most /\ k1 = k + 1 /\ a1 + 1 <= a
          BY <2>1, <4>2, <4>3, <4>4
        <5> HIDE DEF k, k1, a, a1
        <5>2. k1 + a1 <= Most
          BY <5>1
        <5>3. QED BY <5>2 DEF k1, a1
      <4>6. QED BY <3>1, <4>1, <4>5 DEF StepsBooks, Draining
    <3>3. CASE /\ drain' = drain
               /\ \/ reader = "drain" /\ pc' = "end"
                  \/ /\ reader \in {"open", "flush", "byte", "peek"}
                     /\ pc' \in {"read", "flush", "write", "peek", "map", "idle",
                                 "openfail"}
                  \/ reader = "leftover" /\ pc' = "drain"
      BY <2>1, <2>4, <3>1, <3>3 DEF StepsBooks, Draining
    <3>4. QED BY <2>9, <3>1, <3>2, <3>3 DEF ReadGot, Returns, AfterFlush, Books, Types, ReadBooks
  <2>10. CASE OpenQuery
    <3>1. /\ pc \in {"openquery"} /\ pc' \in {"idle", "wait"} /\ reader = "-"
          /\ reader' \in {"-", "open"} /\ UNCHANGED drain
      BY <2>10 DEF OpenQuery, SendRead, NoRead, Books, ReadBooks
    <3>2. QED BY <2>1, <2>4, <3>1 DEF StepsBooks, Draining
  <2>11. CASE OpenFails
    <3>1. /\ pc \in {"openfail"} /\ pc' \in {"idle"} /\ reader = "-"
          /\ reader' \in {"-"} /\ UNCHANGED drain
      BY <2>11 DEF OpenFails, Closed, SendRead, NoRead, Books, ReadBooks
    <3>2. QED BY <2>1, <2>4, <3>1 DEF StepsBooks, Draining
  <2>12. CASE Flush
    <3>1. /\ pc \in {"flush"} /\ pc' \in {"write", "wait"} /\ reader = "-"
          /\ reader' \in {"-", "flush"} /\ UNCHANGED drain
      BY <2>12 DEF Flush, QueryFails, SendRead, NoRead, Books, ReadBooks
    <3>2. QED BY <2>1, <2>4, <3>1 DEF StepsBooks, Draining
  <2>13. CASE SessionByte
    <3>1. /\ pc \in {"read"} /\ pc' \in {"read", "map"} /\ reader = "-"
          /\ reader' \in {"-"} /\ UNCHANGED drain
      BY <2>13 DEF SessionByte, SendRead, NoRead, Books, ReadBooks
    <3>2. QED BY <2>1, <2>4, <3>1 DEF StepsBooks, Draining
  <2>14. CASE SessionBlocked
    <3>1. /\ pc \in {"read"} /\ pc' \in {"peek"} /\ reader = "-"
          /\ reader' \in {"-"} /\ UNCHANGED drain
      BY <2>14 DEF SessionBlocked, SendRead, NoRead, Books, ReadBooks
    <3>2. QED BY <2>1, <2>4, <3>1 DEF StepsBooks, Draining
  <2>15. CASE ReadByte
    <3>1. /\ pc \in {"read"} /\ pc' \in {"read", "peek", "wait"} /\ reader = "-"
          /\ reader' \in {"-", "byte"} /\ UNCHANGED drain
      BY <2>15 DEF ReadByte, QueryFails, SendRead, NoRead, Books, ReadBooks
    <3>2. QED BY <2>1, <2>4, <3>1 DEF StepsBooks, Draining
  <2>16. CASE Peek
    <3>1. /\ pc \in {"peek"} /\ pc' \in {"map", "wait"} /\ reader = "-"
          /\ reader' \in {"-", "peek"} /\ UNCHANGED drain
      BY <2>16 DEF Peek, SendRead, NoRead, Books, ReadBooks
    <3>2. QED BY <2>1, <2>4, <3>1 DEF StepsBooks, Draining
  <2>17. CASE MapResult
    <3>1. /\ pc = "map" /\ reader = "-" /\ reader' = "-" /\ data = <<>>
          /\ pc' \in {"end", "leftover", "drain"} /\ UNCHANGED <<drain, data>>
          /\ UNCHANGED <<ring, line>>
      BY <2>17 DEF MapResult, Books, ReadBooks
    <3>2. drain = NoDrain
      BY <3>1 DEF StepsBooks, Draining
    <3>3. Size <= Most /\ Len(data') = 0 /\ Size' = Size
      BY <3>1, EmptySeq DEF SizeBooks, Size
    <3>4. drain'.steps = 0 /\ drain'.steps + Amount' <= Most
      BY <2>1, <3>1, <3>2, <3>3 DEF NoDrain, Amount
    <3>5. QED BY <3>1, <3>2, <3>4 DEF StepsBooks
  <2>18. CASE CaptureLeftover
    <3>1. /\ pc = "leftover" /\ reader' \in {"-", "leftover"}
          /\ pc' \in {"drain", "wait"} /\ UNCHANGED drain
      BY <2>18 DEF CaptureLeftover, SendRead, NoRead, Books, ReadBooks
    <3>2. QED BY <2>1, <2>4, <3>1 DEF StepsBooks, Draining
  <2>19. CASE Drain
    <3>1. pc = "drain" /\ reader = "-" /\ Draining
      BY <2>19 DEF Drain, Books, ReadBooks, Draining
    <3>2. drain.steps + Amount' <= Most
      BY <2>1, <2>4, <3>1 DEF StepsBooks
    <3>3. drain'.steps = drain.steps
      BY <2>19 DEF Drain
    <3>4. \/ pc' \in {"slice", "end"} /\ reader' = "-"
          \/ pc' = "wait" /\ reader' = "drain" /\ need' > 0
      <4>1. ASSUME NEW n \in Advertised, n > 0
            PROVE  AtMost(n, ReadBuf) > 0
        BY <4>1, Limits, AdvertisedTypes, AtMostBooks DEF Books
      <4>2. 1 > 0
        OBVIOUS
      <4>3. QED BY <2>19, <3>1, <4>1, <4>2 DEF Drain, SendRead, NoRead, QueryFails
    <3>5. QED BY <3>2, <3>3, <3>4 DEF StepsBooks, Draining
  <2>20. CASE Slice
    <3>1. pc = "slice" /\ pc' = "drain" /\ reader = "-" /\ UNCHANGED <<reader, drain>>
      BY <2>20 DEF Slice, Books, ReadBooks
    <3>2. QED BY <2>1, <2>4, <3>1 DEF StepsBooks, Draining
  <2>21. CASE Return
    <3>1. pc' = "idle" /\ reader' = "-" /\ drain' = NoDrain
      BY <2>21 DEF Return, Closed, Books, ReadBooks
    <3>2. QED BY <2>1, <2>4, <3>1 DEF StepsBooks, Draining
  <2>22. CASE Poll
    <3>1. UNCHANGED <<pc, reader, need, drain>>
      BY <2>22 DEF Poll
    <3>2. QED BY <2>1, <2>4, <3>1 DEF StepsBooks, Draining
  <2>23. CASE Arrive
    <3>1. UNCHANGED <<pc, reader, need, drain>>
      BY <2>23 DEF Arrive
    <3>2. QED BY <2>1, <2>4, <3>1 DEF StepsBooks, Draining
  <2>24. CASE StockCompletes
    <3>1. UNCHANGED <<pc, reader, need, drain>>
      BY <2>24 DEF StockCompletes
    <3>2. QED BY <2>1, <2>4, <3>1 DEF StepsBooks, Draining
  <2>25. CASE TimerFires
    <3>1. UNCHANGED <<pc, reader, need, drain>>
      BY <2>25 DEF TimerFires
    <3>2. QED BY <2>1, <2>4, <3>1 DEF StepsBooks, Draining
  <2>26. CASE Backend_open
    <3>1. /\ pc \in {"idle"} /\ pc' \in {"openquery"} /\ reader = "-"
          /\ reader' \in {"-"} /\ UNCHANGED drain
      BY <2>26 DEF Backend_open, SendRead, NoRead, Books, ReadBooks
    <3>2. QED BY <2>1, <2>4, <3>1 DEF StepsBooks, Draining
  <2>27. CASE Exchange
    <3>1. pc' = "flush" /\ reader' = "-" /\ drain' = NoDrain
      BY <2>27 DEF Exchange, Books, ReadBooks
    <3>2. QED BY <2>1, <2>4, <3>1 DEF StepsBooks, Draining
  <2>28. ASSUME NEW name \in {"fuji", "stock"}, Backend_close(name)
         PROVE  StepsBooks'
    <3>1. /\ pc \in {"idle"} /\ pc' \in {"idle"} /\ reader = "-"
          /\ reader' \in {"-"} /\ UNCHANGED drain
      BY <2>28 DEF Backend_close, Closed, SendRead, NoRead, Books, ReadBooks
    <3>2. QED BY <2>1, <2>4, <3>1 DEF StepsBooks, Draining
  <2>29. QED
    BY <2>5, <2>6, <2>7, <2>8, <2>9, <2>10, <2>11, <2>12, <2>13, <2>14,
       <2>15, <2>16, <2>17, <2>18, <2>19, <2>20, <2>21, <2>22, <2>23, <2>24,
       <2>25, <2>26, <2>27, <2>28, <2>3 DEF Next, Task
<1>3. QED BY <1>1, <1>2, BackendBooks, BackendSizes, PTL DEF Spec

\* A response that was arriving when its exchange failed keeps arriving, and
\* no timer of the drain fires before its last byte.
THEOREM BackendOwed == Spec => []OwedBooks
<1>1. Init => OwedBooks
  BY DEF Init, OwedBooks, Draining
<1>2. Books /\ OwedBooks /\ Books' /\ [Next]_vars => OwedBooks'
  <2> SUFFICES ASSUME Books, OwedBooks, Books', [Next]_vars
               PROVE  OwedBooks'
    OBVIOUS
  <2> USE DEF ioVars, lineVars, errVars, Bit, IoStates, Waits
  <2>1. CASE UNCHANGED vars
    <3>1. UNCHANGED <<pc, reader, owed, line, begun, timer_io>>
      BY <2>1 DEF vars
    <3>2. QED BY <3>1 DEF OwedBooks, Draining
  <2>2. CASE ReadWait
    <3>1. /\ pc \in Waits /\ pc' \in Waits
          /\ UNCHANGED <<reader, owed, line, begun, timer_io>>
      BY <2>2 DEF ReadWait
    <3>2. QED BY <3>1 DEF OwedBooks, Draining
  <2>3. CASE ReadAbort
    <3>1. /\ pc \in Waits /\ pc' \in Waits
          /\ UNCHANGED <<reader, owed, line, begun, timer_io>>
      BY <2>3 DEF ReadAbort
    <3>2. QED BY <3>1 DEF OwedBooks, Draining
  <2>4. CASE ReadTimedOut
    <3>1. /\ pc \in {"got", "timeout"} /\ UNCHANGED <<owed, line, begun>>
          /\ reader \in {"drain", "leftover"} => pc' \in {"drain", "end"}
          /\ timer_io' # "replied"
      BY <2>4 DEF ReadTimedOut, Returns, Books, ReadBooks
    <3>2. QED BY <3>1 DEF OwedBooks, Draining
  <2>5. CASE ReadGot
    <3>1. /\ pc \in {"got", "timeout"} /\ UNCHANGED <<owed, line, begun>>
          /\ reader \in {"drain", "leftover"} => pc' \in {"drain", "end"}
          /\ timer_io' # "replied"
      BY <2>5 DEF ReadGot, Returns, Books, ReadBooks
    <3>2. QED BY <3>1 DEF OwedBooks, Draining
  <2>6. CASE OpenQuery
    <3>1. owed' = 0 \/ (UNCHANGED owed /\ ~Draining /\ pc # "end")
      BY <2>6 DEF OpenQuery, Draining, SendRead, NoRead, QueryFails, Closed,
         Books, ReadBooks
    <3>2. QED BY <3>1 DEF OwedBooks
  <2>7. CASE OpenFails
    <3>1. owed' = 0 \/ (UNCHANGED owed /\ ~Draining /\ pc # "end")
      BY <2>7 DEF OpenFails, Draining, SendRead, NoRead, QueryFails, Closed,
         Books, ReadBooks
    <3>2. QED BY <3>1 DEF OwedBooks
  <2>8. CASE Flush
    <3>1. owed' = 0 \/ (UNCHANGED owed /\ ~Draining /\ pc # "end")
      BY <2>8 DEF Flush, Draining, SendRead, NoRead, QueryFails, Closed, Books,
         ReadBooks
    <3>2. QED BY <3>1 DEF OwedBooks
  <2>9. CASE Write
    <3>1. owed' = 0 \/ (UNCHANGED owed /\ ~Draining /\ pc # "end")
      BY <2>9 DEF Write, Draining, SendRead, NoRead, QueryFails, Closed, Books,
         ReadBooks
    <3>2. QED BY <3>1 DEF OwedBooks
  <2>10. CASE SessionByte
    <3>1. owed' = 0 \/ (UNCHANGED owed /\ ~Draining /\ pc # "end")
      BY <2>10 DEF SessionByte, Draining, SendRead, NoRead, QueryFails, Closed,
         Books, ReadBooks
    <3>2. QED BY <3>1 DEF OwedBooks
  <2>11. CASE SessionBlocked
    <3>1. owed' = 0 \/ (UNCHANGED owed /\ ~Draining /\ pc # "end")
      BY <2>11 DEF SessionBlocked, Draining, SendRead, NoRead, QueryFails,
         Closed, Books, ReadBooks
    <3>2. QED BY <3>1 DEF OwedBooks
  <2>12. CASE ReadByte
    <3>1. owed' = 0 \/ (UNCHANGED owed /\ ~Draining /\ pc # "end")
      BY <2>12 DEF ReadByte, Draining, SendRead, NoRead, QueryFails, Closed,
         Books, ReadBooks
    <3>2. QED BY <3>1 DEF OwedBooks
  <2>13. CASE Peek
    <3>1. owed' = 0 \/ (UNCHANGED owed /\ ~Draining /\ pc # "end")
      BY <2>13 DEF Peek, Draining, SendRead, NoRead, QueryFails, Closed, Books,
         ReadBooks
    <3>2. QED BY <3>1 DEF OwedBooks
  <2>14. CASE MapResult
    <3>1. /\ pc' \in {"end", "leftover", "drain"} /\ timer_io' = "free"
          /\ owed' = 1 => begun = 1 /\ line # <<>>
          /\ UNCHANGED <<begun, line>>
      BY <2>14 DEF MapResult, Flowing, Books, ReadBooks
    <3>2. QED BY <3>1 DEF OwedBooks, Draining
  <2>15. CASE CaptureLeftover
    <3>1. /\ pc \in {"drain", "leftover"} /\ UNCHANGED <<owed, line, begun>>
          /\ pc' \in {"drain", "slice", "end"} \/ reader' \in {"drain", "leftover"}
          /\ timer_io' # "replied"
      BY <2>15 DEF CaptureLeftover, SendRead, NoRead, QueryFails, Closed, Books,
         ReadBooks
    <3>2. QED BY <3>1 DEF OwedBooks, Draining
  <2>16. CASE Drain
    <3>1. /\ pc \in {"drain", "leftover"} /\ UNCHANGED <<owed, line, begun>>
          /\ pc' \in {"drain", "slice", "end"} \/ reader' \in {"drain", "leftover"}
          /\ timer_io' # "replied"
      BY <2>16 DEF Drain, SendRead, NoRead, QueryFails, Closed, Books, ReadBooks
    <3>2. QED BY <3>1 DEF OwedBooks, Draining
  <2>17. CASE Slice
    <3>1. pc = "slice" /\ pc' = "drain" /\ UNCHANGED <<reader, owed, line, begun, timer_io>>
      BY <2>17 DEF Slice
    <3>2. QED BY <3>1 DEF OwedBooks, Draining
  <2>18. CASE Return
    <3>1. owed' = 0 \/ (UNCHANGED owed /\ ~Draining /\ pc # "end")
      BY <2>18 DEF Return, Draining, SendRead, NoRead, QueryFails, Closed, Books,
         ReadBooks
    <3>2. QED BY <3>1 DEF OwedBooks
  <2>19. CASE Poll
    <3>1. owed' = 0 \/ (UNCHANGED owed /\ ~Draining /\ pc # "end")
      BY <2>19 DEF Poll, Draining, SendRead, NoRead, QueryFails, Closed, Books,
         ReadBooks
    <3>2. QED BY <3>1 DEF OwedBooks
  <2>20. CASE Arrive
    <3>1. /\ line # <<>> /\ line' = Tail(line) /\ UNCHANGED <<pc, reader, owed, timer_io>>
          /\ begun' = IF Len(line) > 1 THEN 1 ELSE 0
      BY <2>20 DEF Arrive
    <3>2. line' # <<>> => begun' = 1
      <4>1. line \in Seq(Nat) /\ Len(line) \in Nat
        BY DEF Books, Types
      <4>2. Len(line') = Len(line) - 1 /\ line' \in Seq(Nat)
        BY <3>1, <4>1, HeadTailProperties
      <4>3. line' # <<>> => Len(line') > 0
        BY <4>2, EmptySeq
      <4>4. QED BY <3>1, <4>1, <4>2, <4>3
    <3>3. QED BY <3>1, <3>2 DEF OwedBooks, Draining
  <2>21. CASE StockCompletes
    <3>1. UNCHANGED <<pc, reader, owed, line, begun, timer_io>>
      BY <2>21 DEF StockCompletes
    <3>2. QED BY <3>1 DEF OwedBooks, Draining
  <2>22. CASE TimerFires
    <3>1. UNCHANGED <<pc, reader, owed, line, begun>> /\ ~(begun = 1 /\ line # <<>>)
      BY <2>22 DEF TimerFires, Flowing
    <3>2. QED BY <3>1 DEF OwedBooks, Draining
  <2>23. CASE Backend_open
    <3>1. owed' = 0 \/ (UNCHANGED owed /\ ~Draining /\ pc # "end")
      BY <2>23 DEF Backend_open, Draining, SendRead, NoRead, QueryFails, Closed,
         Books, ReadBooks
    <3>2. QED BY <3>1 DEF OwedBooks
  <2>24. CASE Exchange
    <3>1. owed' = 0 \/ (UNCHANGED owed /\ ~Draining /\ pc # "end")
      BY <2>24 DEF Exchange, Draining, SendRead, NoRead, QueryFails, Closed,
         Books, ReadBooks
    <3>2. QED BY <3>1 DEF OwedBooks
  <2>25. ASSUME NEW name \in {"fuji", "stock"}, Backend_close(name)
         PROVE  OwedBooks'
    <3>1. owed' = 0 \/ (UNCHANGED owed /\ ~Draining /\ pc # "end")
      BY <2>25 DEF Backend_close, Draining, SendRead, NoRead, QueryFails, Closed,
         Books, ReadBooks
    <3>2. QED BY <3>1 DEF OwedBooks
  <2>26. QED
    BY <2>1, <2>2, <2>3, <2>4, <2>5, <2>6, <2>7, <2>8, <2>9, <2>10, <2>11,
       <2>12, <2>13, <2>14, <2>15, <2>16, <2>17, <2>18, <2>19, <2>20, <2>21,
       <2>22, <2>23, <2>24, <2>25 DEF Next, Task
<1>3. QED BY <1>1, <1>2, BackendBooks, PTL DEF Spec

\* One more byte means one more pause, and there is time for all of them.
LEMMA Spans ==
  ASSUME NEW l \in Nat, l > 0, l <= MaxLine
  PROVE  /\ Span(l) \in Nat /\ Span(l - 1) = Span(l) + MaxQuiet
         /\ Span(l) + MaxQuiet < DrainCap
<1>1. MaxLine - l \in Nat /\ MaxQuiet \in Nat /\ MaxLine \in Nat /\ DrainCap \in Nat
      /\ MaxQuiet * MaxLine < DrainCap
  BY ConstantsAssumption
<1>2. Span(l) \in Nat
  BY <1>1 DEF Span
<1>3. MaxLine - (l - 1) = (MaxLine - l) + 1
  BY <1>1
<1>4. Span(l - 1) = Span(l) + MaxQuiet
  <2>1. \A x, y \in Nat : x * (y + 1) = x * y + x
    OBVIOUS
  <2>2. QED BY <1>1, <1>3, <2>1 DEF Span
<1>5. Span(l) + MaxQuiet <= MaxQuiet * MaxLine
  <2>1. \A x, y, z \in Nat : y + 1 <= z => x * y + x <= x * z
    <3>1. \A x, y, z \in Nat : y + 1 <= z => z = (y + 1) + (z - (y + 1))
      OBVIOUS
    <3>2. \A x, y, w \in Nat : x * ((y + 1) + w) = (x * y + x) + x * w
      OBVIOUS
    <3>3. \A x, w \in Nat : x * w \in Nat
      OBVIOUS
    <3>4. SUFFICES ASSUME NEW x \in Nat, NEW y \in Nat, NEW z \in Nat, y + 1 <= z
                   PROVE  x * y + x <= x * z
      OBVIOUS
    <3> DEFINE w == z - (y + 1)
    <3>5. w \in Nat /\ z = (y + 1) + w
      BY <3>4
    <3> HIDE DEF w
    <3>6. x * z = (x * y + x) + x * w /\ x * w \in Nat /\ x * y \in Nat
      BY <3>2, <3>3, <3>5
    <3>7. QED BY <3>6
  <2>2. (MaxLine - l) + 1 <= MaxLine
    BY <1>1
  <2>3. QED BY <1>1, <2>1, <2>2 DEF Span
<1>6. Span(l) + MaxQuiet < DrainCap
  <2>1. Span(l) + MaxQuiet \in Nat /\ MaxQuiet * MaxLine \in Nat
    BY <1>1, <1>2
  <2>2. QED BY <1>1, <1>5, <2>1
<1>7. QED BY <1>2, <1>4, <1>6

\* While a response arrives the drain's clocks count its pauses and no more:
\* waited_ms all of them, empty_ms the last one.
THEOREM BackendPauses == Spec => []PauseBooks
<1>1. Init => PauseBooks
  BY DEF Init, PauseBooks
<1>2. Books /\ SizeBooks /\ StepsBooks /\ OwedBooks /\ PauseBooks /\ Books' /\ SizeBooks' /\ [Next]_vars => PauseBooks'
  <2> SUFFICES ASSUME Books, SizeBooks, StepsBooks, OwedBooks, PauseBooks, Books', SizeBooks', [Next]_vars
               PROVE  PauseBooks'
    OBVIOUS
  <2> USE DEF ioVars, lineVars, errVars, Bit, IoStates, Waits
  <2>1. /\ quiet \in Nat /\ quiet <= MaxQuiet /\ MaxQuiet \in Nat /\ quiet' \in Nat
        /\ Turn \in Nat /\ Turn' \in Nat
        /\ drain.empty \in Nat /\ drain.waited \in Nat
    <3>1. drain.empty \in Nat /\ drain.waited \in Nat
      BY ConstantsAssumption DEF Books, DrainBooks
    <3>2. /\ quiet \in Nat /\ quiet <= MaxQuiet /\ MaxQuiet \in Nat /\ quiet' \in Nat
      BY ConstantsAssumption DEF Books, Types
    <3>3. QED BY <3>1, <3>2 DEF Turn
  <2>2. line # <<>> => Span(Len(line)) \in Nat
    <3>1. line # <<>> => Len(line) \in Nat /\ Len(line) > 0 /\ Len(line) <= MaxLine
      BY EmptySeq DEF Books, Types, SizeBooks
    <3>2. QED BY <3>1, Spans
  <2>3. line' # <<>> => Span(Len(line')) \in Nat
    <3>1. line' # <<>> =>
            Len(line') \in Nat /\ Len(line') > 0 /\ Len(line') <= MaxLine
      BY EmptySeq DEF Books, Types, SizeBooks
    <3>2. QED BY <3>1, Spans
  <2>4. CASE UNCHANGED vars
    <3>1. UNCHANGED <<pc, reader, owed, line, drain, quiet, ring, latch>>
      BY <2>4 DEF vars
    <3>2. QED BY <2>1, <3>1 DEF PauseBooks, Draining, Turn
  <2>5. CASE ReadWait
    <3>1. /\ pc \in Waits /\ pc' \in Waits /\ reader # "-"
          /\ UNCHANGED <<reader, owed, line, drain, quiet>>
      BY <2>5 DEF ReadWait, Books, ReadBooks
    <3>2. QED BY <2>1, <3>1 DEF PauseBooks, Draining, Turn
  <2>6. CASE ReadAbort
    <3>1. /\ pc \in Waits /\ pc' \in Waits /\ reader # "-"
          /\ UNCHANGED <<reader, owed, line, drain, quiet>>
      BY <2>6 DEF ReadAbort, Books, ReadBooks
    <3>2. QED BY <2>1, <3>1 DEF PauseBooks, Draining, Turn
  <2>7. CASE ReadTimedOut
    <3>1. /\ pc \in {"got", "timeout"} /\ UNCHANGED <<owed, quiet, line>> /\ reader' = "-"
          /\ pc' # "slice"
      BY <2>7 DEF ReadTimedOut, Returns, AfterFlush
    <3>2. CASE reader = "leftover" /\ pc' = "drain" /\ UNCHANGED drain
      <4>1. drain' = NoDrain
        BY <3>2 DEF StepsBooks
      <4>2. drain'.waited = 0 /\ drain'.empty = 0
        BY <4>1 DEF NoDrain
      <4>3. QED BY <2>1, <2>2, <2>3, <3>1, <4>2 DEF PauseBooks, Turn
    <3>3. CASE reader = "drain" /\ drain' = DrainedOne
      <4>1. drain'.waited = drain.waited /\ drain'.empty = 0
        BY <3>3 DEF DrainedOne
      <4>2. QED BY <2>1, <2>2, <2>3, <3>1, <3>3, <4>1 DEF PauseBooks, Draining, Turn
    <3>4. CASE pc' \notin {"leftover", "drain", "slice"}
      BY <3>1, <3>4 DEF PauseBooks, Draining
    <3>5. QED BY <2>7, <3>2, <3>3, <3>4 DEF ReadTimedOut, Returns, AfterFlush, Books, ReadBooks, Types
  <2>8. CASE ReadGot
    <3>1. /\ pc \in {"got", "timeout"} /\ UNCHANGED <<owed, quiet, line>> /\ reader' = "-"
          /\ pc' # "slice"
      BY <2>8 DEF ReadGot, Returns, AfterFlush
    <3>2. CASE reader = "leftover" /\ pc' = "drain" /\ UNCHANGED drain
      <4>1. drain' = NoDrain
        BY <3>2 DEF StepsBooks
      <4>2. drain'.waited = 0 /\ drain'.empty = 0
        BY <4>1 DEF NoDrain
      <4>3. QED BY <2>1, <2>2, <2>3, <3>1, <4>2 DEF PauseBooks, Turn
    <3>3. CASE reader = "drain" /\ drain' = DrainedOne
      <4>1. drain'.waited = drain.waited /\ drain'.empty = 0
        BY <3>3 DEF DrainedOne
      <4>2. QED BY <2>1, <2>2, <2>3, <3>1, <3>3, <4>1 DEF PauseBooks, Draining, Turn
    <3>4. CASE pc' \notin {"leftover", "drain", "slice"}
      BY <3>1, <3>4 DEF PauseBooks, Draining
    <3>5. QED BY <2>8, <3>2, <3>3, <3>4 DEF ReadGot, Returns, AfterFlush, Books, ReadBooks, Types
  <2>9. CASE OpenQuery
    <3>1. ~Draining'
      BY <2>9 DEF OpenQuery, Draining, SendRead, NoRead, QueryFails, Closed,
         Books, ReadBooks
    <3>2. QED BY <3>1 DEF PauseBooks
  <2>10. CASE OpenFails
    <3>1. ~Draining'
      BY <2>10 DEF OpenFails, Draining, SendRead, NoRead, QueryFails, Closed,
         Books, ReadBooks
    <3>2. QED BY <3>1 DEF PauseBooks
  <2>11. CASE Flush
    <3>1. ~Draining'
      BY <2>11 DEF Flush, Draining, SendRead, NoRead, QueryFails, Closed, Books,
         ReadBooks
    <3>2. QED BY <3>1 DEF PauseBooks
  <2>12. CASE Write
    <3>1. ~Draining'
      BY <2>12 DEF Write, Draining, SendRead, NoRead, QueryFails, Closed, Books,
         ReadBooks
    <3>2. QED BY <3>1 DEF PauseBooks
  <2>13. CASE SessionByte
    <3>1. ~Draining'
      BY <2>13 DEF SessionByte, Draining, SendRead, NoRead, QueryFails, Closed,
         Books, ReadBooks
    <3>2. QED BY <3>1 DEF PauseBooks
  <2>14. CASE SessionBlocked
    <3>1. ~Draining'
      BY <2>14 DEF SessionBlocked, Draining, SendRead, NoRead, QueryFails,
         Closed, Books, ReadBooks
    <3>2. QED BY <3>1 DEF PauseBooks
  <2>15. CASE ReadByte
    <3>1. ~Draining'
      BY <2>15 DEF ReadByte, Draining, SendRead, NoRead, QueryFails, Closed,
         Books, ReadBooks
    <3>2. QED BY <3>1 DEF PauseBooks
  <2>16. CASE Peek
    <3>1. ~Draining'
      BY <2>16 DEF Peek, Draining, SendRead, NoRead, QueryFails, Closed, Books,
         ReadBooks
    <3>2. QED BY <3>1 DEF PauseBooks
  <2>17. CASE MapResult
    <3>1. /\ pc = "map" /\ reader = "-" /\ UNCHANGED <<drain, quiet, line>>
          /\ pc' \in {"end", "leftover", "drain"}
      BY <2>17 DEF MapResult, Books, ReadBooks
    <3>2. drain = NoDrain
      BY <3>1 DEF StepsBooks, Draining
    <3>3. drain'.waited = 0 /\ drain'.empty = 0
      BY <3>1, <3>2 DEF NoDrain
    <3>4. QED BY <2>1, <2>2, <2>3, <3>1, <3>3 DEF PauseBooks, Turn
  <2>18. CASE CaptureLeftover
    <3>1. /\ pc = "leftover" /\ UNCHANGED <<drain, quiet, line>>
          /\ pc' \in {"drain", "wait"}
      BY <2>18 DEF CaptureLeftover, SendRead, NoRead
    <3>2. drain = NoDrain
      BY <3>1 DEF StepsBooks
    <3>3. drain'.waited = 0 /\ drain'.empty = 0
      BY <3>1, <3>2 DEF NoDrain
    <3>4. QED BY <2>1, <2>2, <2>3, <3>1, <3>3 DEF PauseBooks, Turn
  <2>19. CASE Drain
    <3>1. /\ pc = "drain" /\ reader = "-" /\ UNCHANGED <<owed, line, quiet, latch>>
      BY <2>19 DEF Drain, SendRead, NoRead, Books, ReadBooks
    <3>2. CASE /\ reader' = "drain" /\ pc' = "wait" /\ UNCHANGED drain
      BY <2>1, <3>1, <3>2 DEF PauseBooks, Draining, Turn
    <3>3. CASE pc' = "end" /\ reader' = "-"
      BY <3>3 DEF PauseBooks, Draining
    <3>4. CASE /\ pc' = "slice" /\ NoRead
               /\ drain' = [empty |-> drain.empty + 1,
                            waited |-> drain.waited + 1, steps |-> drain.steps]
      <4>1. drain'.empty = drain.empty + 1 /\ drain'.waited = drain.waited + 1
        BY <3>4
      <4>2. UNCHANGED <<ring, reader>>
        BY <3>4 DEF NoRead
      <4>3. QED BY <2>1, <2>2, <3>1, <3>4, <4>1, <4>2 DEF PauseBooks, Draining, Turn
    <3>5. QED BY <2>19, <3>1, <3>2, <3>3, <3>4 DEF Drain, SendRead, NoRead, QueryFails
  <2>20. CASE Slice
    <3>1. /\ pc = "slice" /\ pc' = "drain" /\ UNCHANGED <<reader, owed, line, drain,
                                                         ring, latch>>
          /\ quiet' = IF begun = 1 /\ line # <<>> THEN quiet + 1 ELSE quiet
      BY <2>20 DEF Slice, Flowing
    <3>2. owed = 1 /\ line # <<>> => quiet' = quiet + 1
      BY <3>1 DEF OwedBooks
    <3>3. QED BY <2>1, <2>2, <3>1, <3>2 DEF PauseBooks, Draining, Turn
  <2>21. CASE Return
    <3>1. ~Draining'
      BY <2>21 DEF Return, Draining, SendRead, NoRead, QueryFails, Closed, Books,
         ReadBooks
    <3>2. QED BY <3>1 DEF PauseBooks
  <2>22. CASE Poll
    <3>1. ~Draining'
      BY <2>22 DEF Poll, Draining, SendRead, NoRead, QueryFails, Closed, Books,
         ReadBooks
    <3>2. QED BY <3>1 DEF PauseBooks
  <2>23. CASE Arrive
    <3>1. /\ line # <<>> /\ line' = Tail(line) /\ quiet' = 0
          /\ UNCHANGED <<pc, reader, owed, drain>>
      BY <2>23 DEF Arrive
    <3>2. /\ line \in Seq(Nat) /\ ring \in Seq(Nat) /\ Len(line) <= MaxLine
      BY DEF Books, Types, SizeBooks
    <3>3. /\ Len(line) \in Nat /\ Len(line) > 0 /\ Len(line') = Len(line) - 1
          /\ Head(line) \in Nat
      BY <3>1, <3>2, HeadTailProperties, EmptySeq
    <3>4. Span(Len(line')) = Span(Len(line)) + MaxQuiet
      BY <3>2, <3>3, Spans
    <3>5. Draining /\ reader = "-" => ring' # <<>> \/ latch' = 1
      <4>1. Draining /\ reader = "-" => open = 1 /\ serial_io = "free"
        BY DEF Books, ReadBooks, Draining
      <4>2. Append(ring, Head(line)) # <<>>
        BY <3>2, <3>3, AppendProperties
      <4>3. QED BY <2>23, <4>1, <4>2 DEF Arrive
    <3>6. owed = 1 /\ Draining => drain'.waited <= Span(Len(line')) + quiet' + Turn'
      <4>1. Turn' = Turn
        BY <3>1 DEF Turn
      <4>2. owed = 1 /\ Draining => drain.waited <= Span(Len(line)) + quiet + Turn
        BY <3>1 DEF PauseBooks
      <4> DEFINE sp == Span(Len(line))
                 s1 == Span(Len(line'))
                 wt == drain.waited
      <4>3. s1 = sp + MaxQuiet /\ quiet' = 0 /\ drain'.waited = wt
        BY <3>1, <3>4
      <4>4. sp \in Nat /\ wt \in Nat /\ MaxQuiet \in Nat /\ quiet \in Nat
            /\ Turn \in Nat /\ quiet <= MaxQuiet
        BY <2>1, <2>2, <3>1
      <4> HIDE DEF sp, s1, wt
      <4>5. owed = 1 /\ Draining => wt <= s1 + quiet' + Turn'
        BY <4>1, <4>2, <4>3, <4>4 DEF sp, s1, wt
      <4>6. QED BY <4>3, <4>5 DEF s1
    <3>7. Draining' => Draining
      BY <3>1 DEF Draining
    <3>8. QED BY <3>1, <3>5, <3>6, <3>7 DEF PauseBooks
  <2>24. CASE StockCompletes
    <3>1. /\ reader # "-"
          /\ UNCHANGED <<pc, reader, owed, line, drain, quiet>>
      BY <2>24 DEF StockCompletes, Books, ReadBooks
    <3>2. QED BY <2>1, <3>1 DEF PauseBooks, Draining, Turn
  <2>25. CASE TimerFires
    <3>1. UNCHANGED <<pc, reader, owed, line, drain, quiet, ring, latch>>
      BY <2>25 DEF TimerFires
    <3>2. QED BY <2>1, <3>1 DEF PauseBooks, Draining, Turn
  <2>26. CASE Backend_open
    <3>1. ~Draining'
      BY <2>26 DEF Backend_open, Draining, SendRead, NoRead, QueryFails, Closed,
         Books, ReadBooks
    <3>2. QED BY <3>1 DEF PauseBooks
  <2>27. CASE Exchange
    <3>1. ~Draining'
      BY <2>27 DEF Exchange, Draining, SendRead, NoRead, QueryFails, Closed,
         Books, ReadBooks
    <3>2. QED BY <3>1 DEF PauseBooks
  <2>28. ASSUME NEW name \in {"fuji", "stock"}, Backend_close(name)
         PROVE  PauseBooks'
    <3>1. ~Draining'
      BY <2>28 DEF Backend_close, Draining, SendRead, NoRead, QueryFails, Closed,
         Books, ReadBooks
    <3>2. QED BY <3>1 DEF PauseBooks
  <2>29. QED
    BY <2>4, <2>5, <2>6, <2>7, <2>8, <2>9, <2>10, <2>11, <2>12, <2>13, <2>14,
       <2>15, <2>16, <2>17, <2>18, <2>19, <2>20, <2>21, <2>22, <2>23, <2>24,
       <2>25, <2>26, <2>27, <2>28 DEF Next, Task
<1>3. QED BY <1>1, <1>2, BackendBooks, BackendSizes, BackendSteps, BackendOwed, PTL DEF Spec

\* When the drain of a failed exchange ends by itself, nothing is left of a
\* response that was arriving.
THEOREM BackendLeftovers == Spec => []LeftBooks
<1>1. Init => LeftBooks
  BY DEF Init, LeftBooks
<1>2. Books /\ SizeBooks /\ StepsBooks /\ OwedBooks /\ PauseBooks /\ LeftBooks /\ Books' /\ [Next]_vars => LeftBooks'
  <2> SUFFICES ASSUME Books, SizeBooks, StepsBooks, OwedBooks, PauseBooks, LeftBooks, Books', [Next]_vars
               PROVE  LeftBooks'
    OBVIOUS
  <2> USE DEF ioVars, lineVars, errVars, Bit, IoStates, Waits
  <2>1. CASE UNCHANGED vars
    <3>1. UNCHANGED <<pc, result, owed, serial_name, channel_error, line, drain>>
      BY <2>1 DEF vars
    <3>2. QED BY <3>1 DEF LeftBooks
  <2>2. CASE ReadWait
    <3>1. pc' # "end"
      BY <2>2 DEF ReadWait
    <3>2. QED BY <3>1 DEF LeftBooks
  <2>3. CASE ReadAbort
    <3>1. pc' # "end"
      BY <2>3 DEF ReadAbort
    <3>2. QED BY <3>1 DEF LeftBooks
  <2>4. CASE ReadTimedOut
    <3>1. timer_io = "replied" /\ UNCHANGED <<line, owed>>
      BY <2>4 DEF ReadTimedOut, Returns
    <3>2. owed' = 1 => line' = <<>>
      BY <3>1 DEF OwedBooks
    <3>3. QED BY <3>2 DEF LeftBooks
  <2>5. CASE ReadGot
    <3>1. pc = "got" /\ (Returns("OK") \/ (Returns("IO") /\ serial_name = "stock"))
          /\ reader' = "-" /\ UNCHANGED serial_name
      BY <2>5 DEF ReadGot, Returns
    <3>2. CASE pc' # "end"
      BY <3>2 DEF LeftBooks
    <3>3. CASE pc' = "end" /\ Returns("OK")
      <4>1. reader = "drain" /\ ~(drain.steps + 1 < DrainSteps)
        BY <3>3 DEF Returns, AfterFlush, DrainedOne, Books, ReadBooks
      <4>2. drain'.steps = drain.steps + 1
        BY <3>3, <4>1 DEF Returns, DrainedOne
      <4>3. QED BY <4>1, <4>2 DEF LeftBooks
    <3>4. CASE pc' = "end" /\ Returns("IO") /\ serial_name = "stock"
      <4>1. channel_error' = 1
        BY <3>4 DEF Returns, AfterFlush, Books, ReadBooks, Types
      <4>2. QED BY <3>1, <3>4, <4>1 DEF LeftBooks
    <3>5. QED BY <3>1, <3>2, <3>3, <3>4
  <2>6. CASE OpenQuery
    <3>1. pc' # "end"
      BY <2>6 DEF OpenQuery, SendRead, NoRead, QueryFails, Closed, Books,
         ReadBooks
    <3>2. QED BY <3>1 DEF LeftBooks
  <2>7. CASE OpenFails
    <3>1. pc' # "end"
      BY <2>7 DEF OpenFails, SendRead, NoRead, QueryFails, Closed, Books,
         ReadBooks
    <3>2. QED BY <3>1 DEF LeftBooks
  <2>8. CASE Flush
    <3>1. pc' # "end"
      BY <2>8 DEF Flush, SendRead, NoRead, QueryFails, Closed, Books, ReadBooks
    <3>2. QED BY <3>1 DEF LeftBooks
  <2>9. CASE Write
    <3>1. pc' # "end"
      BY <2>9 DEF Write, SendRead, NoRead, QueryFails, Closed, Books, ReadBooks
    <3>2. QED BY <3>1 DEF LeftBooks
  <2>10. CASE SessionByte
    <3>1. pc' # "end"
      BY <2>10 DEF SessionByte
    <3>2. QED BY <3>1 DEF LeftBooks
  <2>11. CASE SessionBlocked
    <3>1. pc' # "end"
      BY <2>11 DEF SessionBlocked, SendRead, NoRead, QueryFails, Closed, Books,
         ReadBooks
    <3>2. QED BY <3>1 DEF LeftBooks
  <2>12. CASE ReadByte
    <3>1. pc' # "end"
      BY <2>12 DEF ReadByte, SendRead, NoRead, QueryFails, Closed, Books,
         ReadBooks
    <3>2. QED BY <3>1 DEF LeftBooks
  <2>13. CASE Peek
    <3>1. pc' # "end"
      BY <2>13 DEF Peek, SendRead, NoRead, QueryFails, Closed, Books, ReadBooks
    <3>2. QED BY <3>1 DEF LeftBooks
  <2>14. CASE MapResult
    <3>1. pc' = "end" => result' = "OK"
      BY <2>14 DEF MapResult
    <3>2. QED BY <3>1 DEF LeftBooks
  <2>15. CASE CaptureLeftover
    <3>1. pc' # "end"
      BY <2>15 DEF CaptureLeftover, SendRead, NoRead, QueryFails, Closed, Books,
         ReadBooks
    <3>2. QED BY <3>1 DEF LeftBooks
  <2>16. CASE Drain
    <3>1. /\ pc = "drain" /\ reader = "-"
          /\ UNCHANGED <<owed, line, serial_name>>
      BY <2>16 DEF Drain, SendRead, NoRead, Books, ReadBooks
    <3>2. CASE QueryFails
      BY <3>1, <3>2 DEF QueryFails, LeftBooks
    <3>3. CASE pc' # "end"
      BY <3>3 DEF LeftBooks
    <3>4. CASE /\ DrainDone /\ Len(ring) = 0 /\ latch = 0
      <4>1. owed = 1 => line = <<>>
        <5>1. SUFFICES ASSUME owed = 1, line # <<>> PROVE FALSE
          OBVIOUS
        <5>2. ring = <<>> /\ Turn = 0
          BY <3>1, <3>4, EmptySeq DEF Books, Types, Turn
        <5>3. /\ drain.waited <= Span(Len(line)) + quiet + Turn
              /\ drain.empty <= quiet + Turn
          BY <3>1, <3>4, <5>1, <5>2 DEF PauseBooks, Draining
        <5>4. Len(line) \in Nat /\ Len(line) > 0 /\ Len(line) <= MaxLine
          BY <5>1, EmptySeq DEF Books, Types, SizeBooks
        <5>5. Span(Len(line)) \in Nat /\ Span(Len(line)) + MaxQuiet < DrainCap
          BY <5>4, Spans
        <5>6. /\ quiet \in Nat /\ quiet <= MaxQuiet /\ MaxQuiet \in Nat
              /\ MaxQuiet < DrainIdle /\ DrainIdle \in Nat /\ DrainCap \in Nat
              /\ drain.empty \in Nat /\ drain.waited \in Nat
          BY ConstantsAssumption DEF Books, Types, DrainBooks
        <5>7. ~(drain.empty >= DrainIdle)
          BY <5>2, <5>3, <5>6
        <5> DEFINE sp == Span(Len(line))
        <5>8. ~(drain.waited >= DrainCap)
          <6>1. sp \in Nat /\ sp + MaxQuiet < DrainCap /\ drain.waited <= sp + quiet + 0
            BY <5>2, <5>3, <5>5
          <6> HIDE DEF sp
          <6>2. QED BY <5>6, <6>1
        <5>9. QED BY <3>4, <5>7, <5>8 DEF DrainDone
      <4>2. QED BY <3>1, <4>1 DEF LeftBooks
    <3>5. Len(ring) \in Nat
      BY DEF Books, Types
    <3>6. ASSUME NEW n \in Advertised, ~(latch = 1), ~(n > 0)
          PROVE  Len(ring) = 0 /\ latch = 0
      BY <3>5, <3>6 DEF Advertised, Books, Types
    <3>7. QED BY <2>16, <3>2, <3>3, <3>4, <3>6 DEF Drain, SendRead
  <2>17. CASE Slice
    <3>1. pc' # "end"
      BY <2>17 DEF Slice
    <3>2. QED BY <3>1 DEF LeftBooks
  <2>18. CASE Return
    <3>1. pc' # "end"
      BY <2>18 DEF Return, SendRead, NoRead, QueryFails, Closed, Books, ReadBooks
    <3>2. QED BY <3>1 DEF LeftBooks
  <2>19. CASE Poll
    <3>1. UNCHANGED <<pc, result, owed, serial_name, channel_error, line, drain>>
      BY <2>19 DEF Poll
    <3>2. QED BY <3>1 DEF LeftBooks
  <2>20. CASE Arrive
    <3>1. line # <<>> /\ UNCHANGED <<pc, result, owed, serial_name, channel_error, drain>>
      BY <2>20 DEF Arrive
    <3>2. QED BY <3>1 DEF LeftBooks
  <2>21. CASE StockCompletes
    <3>1. UNCHANGED <<pc, result, owed, serial_name, channel_error, line, drain>>
      BY <2>21 DEF StockCompletes
    <3>2. QED BY <3>1 DEF LeftBooks
  <2>22. CASE TimerFires
    <3>1. UNCHANGED <<pc, result, owed, serial_name, channel_error, line, drain>>
      BY <2>22 DEF TimerFires
    <3>2. QED BY <3>1 DEF LeftBooks
  <2>23. CASE Backend_open
    <3>1. pc' # "end"
      BY <2>23 DEF Backend_open, SendRead, NoRead, QueryFails, Closed, Books,
         ReadBooks
    <3>2. QED BY <3>1 DEF LeftBooks
  <2>24. CASE Exchange
    <3>1. pc' # "end"
      BY <2>24 DEF Exchange, SendRead, NoRead, QueryFails, Closed, Books,
         ReadBooks
    <3>2. QED BY <3>1 DEF LeftBooks
  <2>25. ASSUME NEW name \in {"fuji", "stock"}, Backend_close(name)
         PROVE  LeftBooks'
    <3>1. pc' # "end"
      BY <2>25 DEF Backend_close
    <3>2. QED BY <3>1 DEF LeftBooks
  <2>26. QED
    BY <2>1, <2>2, <2>3, <2>4, <2>5, <2>6, <2>7, <2>8, <2>9, <2>10, <2>11,
       <2>12, <2>13, <2>14, <2>15, <2>16, <2>17, <2>18, <2>19, <2>20, <2>21,
       <2>22, <2>23, <2>24, <2>25 DEF Next, Task
<1>3. QED BY <1>1, <1>2, BackendBooks, BackendSizes, BackendSteps, BackendOwed,
             BackendPauses, PTL DEF Spec

\* LeftoverDrained: the drain does not return in a pause of the response it is
\* there for, by its idle time or its cap; the one thing that can end it early
\* is the limit on its reads.
THEOREM LeftoverGone == Spec => []LeftoverDrained
<1>1. LeftBooks => LeftoverDrained
  BY DEF LeftBooks, LeftoverDrained, Flowing
<1>2. QED BY <1>1, BackendLeftovers, PTL

\* ... and that limit ends it only where it is not above what can be on its
\* way: a drain makes no more reads than a full line and two responses have
\* bytes, one for each while an overrun stays latched.
THEOREM DrainReads == Spec => [](drain.steps <= MaxLine + 2 * ResponseLen)
<1>1. Books /\ StepsBooks => drain.steps <= MaxLine + 2 * ResponseLen
  <2> SUFFICES ASSUME Books, StepsBooks PROVE drain.steps <= Most
    BY DEF Most
  <2>1. /\ Amount \in Nat /\ Most \in Nat
    <3>1. ring \in Seq(Nat) /\ line \in Seq(Nat) /\ data \in Seq(Nat)
      BY DEF Books, Types
    <3>2. Len(ring) \in Nat /\ Len(line) \in Nat /\ Len(data) \in Nat
      BY <3>1, LenProperties
    <3>3. Amount \in Nat
      BY <3>2 DEF Amount, Size
    <3>4. QED BY <3>3, Limits DEF Most
  <2>2. drain.steps \in Nat
    BY Limits DEF Books, DrainBooks
  <2>3. CASE Draining \/ pc = "end"
    <3>1. drain.steps + Amount <= Most
      BY <2>3 DEF StepsBooks
    <3>2. QED BY <2>1, <2>2, <3>1
  <2>4. CASE ~Draining /\ pc # "end"
    <3>1. drain.steps = 0
      BY <2>4 DEF StepsBooks, NoDrain
    <3>2. QED BY <2>1, <3>1
  <2>5. QED BY <2>3, <2>4
<1>2. QED BY <1>1, BackendBooks, BackendSteps, PTL
=============================================================================

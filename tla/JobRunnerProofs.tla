--------------------------- MODULE JobRunnerProofs ---------------------------
(***************************************************************************)
(* Proofs about run_job of worker.py (module JobRunner), for every upload  *)
(* interval, timeout, pipe size, script length, PATCH delay and set of     *)
(* exit codes.                                                             *)
(***************************************************************************)
EXTENDS JobRunner, SequenceTheorems, TLAPS

\* The types of the variables the final status depends on.
StatusTyped ==
    /\ rpc \in RunnerPcs
    /\ alive \in BOOLEAN
    /\ timeout \in BOOLEAN
    /\ exitCode \in ExitCodes \cup {NoCode}
    /\ status \in {"none", "succeded", "failed", "timedout"}

(***************************************************************************)
(* How the child ended, as the loop knows it: the flag is set only by the  *)
(* kill, which ends the loop; once the loop is over the child is dead; a   *)
(* child that died without the kill exited with one of its exit codes; the *)
(* status is still unwritten until run_job returns.                        *)
(***************************************************************************)
ChildEnded ==
    /\ timeout => rpc \in {"report", "done"}
    /\ rpc \in {"report", "done"} => ~alive
    /\ ~alive /\ ~timeout => exitCode \in ExitCodes
    /\ rpc # "done" => status = "none"

IInv == StatusTyped /\ ChildEnded /\ ReportMatchesChild

-----------------------------------------------------------------------------
LEMMA IInvInit == Init => IInv
  BY DEF Init, IInv, StatusTyped, RunnerPcs, ChildEnded, ReportMatchesChild

\* The upload steps lead from the loop to the loop.
LEMMA NextUploadPc == \A from \in RunnerPcs : NextUpload(from) \in {"out_sent", "err_sent", "poll"}
  BY DEF NextUpload

LEMMA IInvStep == IInv /\ [Next]_vars => IInv'
  <1> SUFFICES ASSUME IInv, [Next]_vars PROVE IInv'
    OBVIOUS
  <1> USE DEF IInv, StatusTyped, RunnerPcs, ChildEnded, ReportMatchesChild
  <1>1. CASE Start
    BY <1>1 DEF Start, ChildVars
  <1>2. CASE SelectRead
    BY <1>2 DEF SelectRead
  <1>3. CASE CheckUpload
    BY <1>3, NextUploadPc DEF CheckUpload, ChildVars
  <1>4. CASE PatchDone
    BY <1>4, NextUploadPc DEF PatchDone, ChildVars
  <1>5. CASE PollExit
    BY <1>5 DEF PollExit, ChildVars
  <1>6. CASE Kill
    BY <1>6 DEF Kill
  <1>7. CASE Report
    <2>1. rpc = "report" /\ ~alive
      BY <1>7 DEF Report
    <2>2. ~timeout => exitCode \in ExitCodes
      BY <2>1
    <2>3. NoCode \notin ExitCodes
      BY ConstantsAssumption DEF NoCode
    <2>4. QED
      BY <1>7, <2>1, <2>2, <2>3 DEF Report, ChildVars
  <1>8. CASE ChildWrite
    BY <1>8 DEF ChildWrite
  <1>9. CASE ChildExit
    BY <1>9 DEF ChildExit
  <1>10. CASE Tick
    BY <1>10 DEF Tick, ChildVars
  <1>11. CASE UNCHANGED vars
    BY <1>11 DEF vars
  <1>12. QED
    BY <1>1, <1>2, <1>3, <1>4, <1>5, <1>6, <1>7, <1>8, <1>9, <1>10, <1>11
       DEF Next, RunnerStep

(***************************************************************************)
(* When run_job returns, the child is dead and the status it PATCHed says  *)
(* how the child ended: timedout exactly when the loop killed it (also     *)
(* when the child exited between poll() and kill()), succeded only after   *)
(* an exit with 0 and failed only after an exit with another code, for any *)
(* timing of the child, the uploads and the clock.                         *)
(***************************************************************************)
THEOREM StatusMatchesChild == Spec => []ReportMatchesChild
  <1>1. Spec => []IInv
    BY IInvInit, IInvStep, PTL DEF Spec
  <1>2. QED
    BY <1>1, PTL DEF IInv
-----------------------------------------------------------------------------
(* Types *)

\* A script is a sequence of at most MaxLines streams.
LEMMA ScriptIsSeq == ASSUME NEW sc \in Scripts PROVE sc \in Seq(Streams) /\ Len(sc) \in 0..MaxLines
  <1>1. PICK n \in 0..MaxLines : sc \in [1..n -> Streams]
    BY DEF Scripts
  <1>2. n \in Nat
    BY ConstantsAssumption
  <1>3. QED
    BY <1>1, <1>2

\* get_timestamp() is a second of the clock.
LEMMA TimestampNat == ASSUME NEW t \in Nat PROVE t \div Sec \in Nat
  BY ConstantsAssumption

LEMMA TypeInit == Init => TypeOK
  <1> SUFFICES ASSUME Init PROVE TypeOK
    OBVIOUS
  <1>1. script \in Scripts /\ Len(script) \in 0..MaxLines
    BY ScriptIsSeq DEF Init
  <1>2. -(UploadSec * Sec) \in Int
    BY ConstantsAssumption
  <1>3. /\ pipe \in [Streams -> Seq(1..MaxLines)]
        /\ buf \in [Streams -> Seq(0..MaxLines)]
    BY DEF Init
  <1>4. \A s \in Streams : /\ DOMAIN logs[s] \subseteq Nat
                           /\ \A k \in DOMAIN logs[s] : logs[s][k] \in Seq(0..MaxLines)
    BY DEF Init
  <1>9. DOMAIN logs = Streams
    BY DEF Init
  <1>5. exitCode \in ExitCodes \cup {NoCode} /\ emitted \in 0..Len(script)
    BY <1>1 DEF Init
  <1>6. lastUpload \in Int /\ now \in Nat /\ {tstart, stamp, selStart, sentAt, sentKey} \subseteq Nat
    BY <1>2 DEF Init
  <1>7. rpc \in RunnerPcs /\ alive \in BOOLEAN /\ timeout \in BOOLEAN
        /\ status \in {"none", "succeded", "failed", "timedout"}
    BY DEF Init, RunnerPcs
  <1>8. QED
    BY <1>1, <1>3, <1>4, <1>5, <1>6, <1>7, <1>9 DEF TypeOK

LEMMA TypeStep == TypeOK /\ [Next]_vars => TypeOK'
  <1> SUFFICES ASSUME TypeOK, [Next]_vars PROVE TypeOK'
    OBVIOUS
  <1> USE DEF TypeOK, RunnerPcs
  <1>0. Len(script) \in 0..MaxLines /\ script \in Seq(Streams)
    BY ScriptIsSeq
  <1>1. CASE Start
    BY <1>1 DEF Start, ChildVars
  <1>2. CASE SelectRead
    <2>1. \A s \in Streams : pipe[s] # <<>> => Head(pipe[s]) \in 1..MaxLines /\ Tail(pipe[s]) \in Seq(1..MaxLines)
      BY HeadTailProperties
    <2>2. ASSUME NEW s \in Streams PROVE buf'[s] \in Seq(0..MaxLines)
      <3>1. CASE pipe[s] # <<>>
        BY <1>2, <2>1, <3>1 DEF SelectRead
      <3>2. CASE pipe[s] = <<>> /\ ~alive
        BY <1>2, <3>2, ConstantsAssumption DEF SelectRead, Eof
      <3>3. CASE pipe[s] = <<>> /\ alive
        BY <1>2, <3>3 DEF SelectRead
      <3>4. QED
        BY <3>1, <3>2, <3>3
    <2>3. pipe' \in [Streams -> Seq(1..MaxLines)]
      BY <1>2, <2>1 DEF SelectRead
    <2>4. buf' \in [Streams -> Seq(0..MaxLines)]
      BY <1>2, <2>2 DEF SelectRead
    <2>5. QED
      BY <1>2, <2>3, <2>4 DEF SelectRead
  <1>3. CASE CheckUpload
    <2>1. GetTimestamp \in Nat
      BY TimestampNat DEF GetTimestamp
    <2>2. NextUpload("check") \in RunnerPcs
      BY DEF NextUpload
    <2>3. [s \in Streams |-> <<>>] \in [Streams -> Seq(0..MaxLines)]
      OBVIOUS
    <2>4. CASE stamp - lastUpload >= UploadSec * Sec
      <3>1. buf' \in [Streams -> Seq(0..MaxLines)]
        BY <1>3, <2>3, <2>4 DEF CheckUpload
      <3>2. lastUpload' \in Int /\ rpc' \in RunnerPcs /\ {sentKey', sentAt'} \subseteq Nat
        BY <1>3, <2>1, <2>2, <2>4 DEF CheckUpload
      <3>3. QED
        BY <1>3, <3>1, <3>2 DEF CheckUpload, ChildVars
    <2>5. CASE ~(stamp - lastUpload >= UploadSec * Sec)
      BY <1>3, <2>5 DEF CheckUpload, ChildVars
    <2>6. QED
      BY <2>4, <2>5
  <1>4. CASE PatchDone
    <2>1. GetTimestamp \in Nat
      BY TimestampNat DEF GetTimestamp
    <2> DEFINE s == IF rpc = "out_sent" THEN "stdout" ELSE "stderr"
    <2>2. s \in Streams /\ logs' = PatchLog(s, sentKey, buf[s])
      BY <1>4 DEF PatchDone, Streams
    <2>3. \A t \in Streams : /\ DOMAIN logs'[t] \subseteq Nat
                             /\ \A k \in DOMAIN logs'[t] : logs'[t][k] \in Seq(0..MaxLines)
      BY <2>2 DEF PatchLog
    <2>4. DOMAIN logs' = Streams
      BY <2>2 DEF PatchLog
    <2>5. QED
      BY <1>4, <2>1, <2>3, <2>4 DEF PatchDone, ChildVars, NextUpload
  <1>5. CASE PollExit
    BY <1>5 DEF PollExit, ChildVars
  <1>6. CASE Kill
    BY <1>6 DEF Kill
  <1>7. CASE Report
    BY <1>7 DEF Report, ChildVars
  <1>8. CASE ChildWrite
    <2> DEFINE s == script[emitted + 1]
    <2>0. emitted \in Nat /\ emitted < Len(script)
      BY <1>8, <1>0 DEF ChildWrite
    <2>1. s \in Streams /\ emitted + 1 \in 1..MaxLines
      BY <2>0, <1>0, ConstantsAssumption
    <2>2. pipe' = [pipe EXCEPT ![s] = Append(@, emitted + 1)]
      BY <1>8 DEF ChildWrite
    <2>3. QED
      BY <1>8, <2>1, <2>2 DEF ChildWrite
  <1>9. CASE ChildExit
    BY <1>9 DEF ChildExit
  <1>10. CASE Tick
    BY <1>10 DEF Tick, ChildVars
  <1>11. CASE UNCHANGED vars
    BY <1>11 DEF vars
  <1>12. QED
    BY <1>1, <1>2, <1>3, <1>4, <1>5, <1>6, <1>7, <1>8, <1>9, <1>10, <1>11
       DEF Next, RunnerStep

(***************************************************************************)
(* run_job's variables keep their types: the pipes hold line numbers, the  *)
(* buffers and the log chunks line numbers and EOF reads, and the log      *)
(* keys are seconds of the clock, for every value of the constants.        *)
(***************************************************************************)
THEOREM RunnerTypeCorrect == Spec => []TypeOK
  BY TypeInit, TypeStep, PTL DEF Spec

-----------------------------------------------------------------------------
(* The order of the log *)

\* The lines of q come in increasing order.
Ordered(q) == \A i, j \in 1..Len(q) : i < j /\ q[i] # Eof /\ q[j] # Eof => q[i] < q[j]

\* The reads of q carry lines of stream s only, in increasing order.
OrderedIn(q, s) == LinesOf(q) \subseteq Written(s) /\ Ordered(q)

\* Every line of p comes before every line of q.
Before(p, q) == \A x \in LinesOf(p), y \in LinesOf(q) : x < y

\* The buffer of s that is still to be uploaded: stdout's has landed once
\* the stderr PATCH is in flight, but is only cleared after it.
Unsent(s) == IF s = "stdout" /\ rpc = "err_sent" THEN <<>> ELSE buf[s]

(***************************************************************************)
(* Lines flow from the child to the pipe, to the buffer, to the log, each  *)
(* stage holding lines of its stream in order, and every line of an       *)
(* earlier stage after every line of a later one.                          *)
(***************************************************************************)
StreamFlow(s) ==
    /\ OrderedIn(pipe[s], s)
    /\ OrderedIn(buf[s], s)
    /\ Before(buf[s], pipe[s])
    /\ \A k \in DOMAIN logs[s] : Before(logs[s][k], Unsent(s)) /\ Before(logs[s][k], pipe[s])

LinesFlow == \A s \in Streams : StreamFlow(s)

\* No chunk is keyed after the PATCH being built, which is keyed by the clock.
KeysBehind ==
    /\ sentKey <= now \div Sec
    /\ \A s \in Streams : \A k \in DOMAIN logs[s] : k <= sentKey

LogInv == TypeOK /\ LinesFlow /\ KeysBehind /\ LogIsOrderedSubsequence

LEMMA LinesEmpty == LinesOf(<<>>) = {}
  BY DEF LinesOf

\* A read appended adds its line, unless it is the '' of an EOF.
LEMMA LinesAppend ==
  ASSUME NEW q \in Seq(Int), NEW x \in Int
  PROVE  LinesOf(Append(q, x)) = LinesOf(q) \cup (IF x = Eof THEN {} ELSE {x})
  BY DEF LinesOf

\* Reading the head of a pipe moves its line out of the rest.
LEMMA LinesTail ==
  ASSUME NEW q \in Seq(Int), q # <<>>
  PROVE  /\ LinesOf(q) = LinesOf(Tail(q)) \cup (IF Head(q) = Eof THEN {} ELSE {Head(q)})
         /\ \A i \in 1..Len(Tail(q)) : Tail(q)[i] = q[i + 1]
  BY HeadTailProperties DEF LinesOf

\* An ordered sequence stays ordered when a later line is appended.
LEMMA OrderedAppend ==
  ASSUME NEW q \in Seq(Int), NEW x \in Int, NEW W,
         LinesOf(q) \subseteq W,
         Ordered(q),
         x # Eof => x \in W /\ \A y \in LinesOf(q) : y < x
  PROVE  LinesOf(Append(q, x)) \subseteq W /\ Ordered(Append(q, x))
  <1>1. LinesOf(Append(q, x)) \subseteq W
    BY LinesAppend
  <1>2. \A i \in 1..Len(q) : q[i] # Eof => q[i] \in LinesOf(q)
    BY DEF LinesOf
  <1>3. QED
    BY <1>1, <1>2 DEF Ordered

\* A read that is not an EOF is one of the lines of its sequence.
LEMMA InLines ==
  ASSUME NEW q, NEW i \in 1..Len(q), q[i] # Eof PROVE q[i] \in LinesOf(q)
  BY DEF LinesOf

(***************************************************************************)
(* A PATCH of a chunk c under key K keeps the log in order when no chunk   *)
(* is keyed after K and every other chunk's lines come before c's: the     *)
(* chunk K held before, if any, is replaced.                               *)
(***************************************************************************)
LEMMA PatchInOrder ==
  ASSUME NEW L, NEW K \in Int, NEW c \in Seq(Int), NEW W, NEW N,
         \A k \in DOMAIN L : k \in Int /\ L[k] \in Seq(Int),
         InOrder(L, W),
         \A k \in DOMAIN L : k <= K,
         LinesOf(c) \subseteq W, Ordered(c),
         \A k \in DOMAIN L : k # K => Before(L[k], c),
         DOMAIN N = DOMAIN L \cup {K}, N[K] = c,
         \A k \in DOMAIN L : k # K => N[k] = L[k]
  PROVE  InOrder(N, W)
  <1>1. \A k \in DOMAIN N : LinesOf(N[k]) \subseteq W
    BY DEF InOrder
  <1>2. ASSUME NEW k1 \in DOMAIN N, NEW k2 \in DOMAIN N,
               NEW i \in 1..Len(N[k1]), NEW j \in 1..Len(N[k2]),
               k1 < k2 \/ (k1 = k2 /\ i < j), N[k1][i] # Eof, N[k2][j] # Eof
        PROVE  N[k1][i] < N[k2][j]
    <2>1. CASE k1 # K /\ k2 # K
      BY <1>2, <2>1 DEF InOrder
    <2>2. CASE k1 = K /\ k2 = K
      BY <1>2, <2>2 DEF Ordered
    <2>3. CASE k1 # K /\ k2 = K
      <3>1. N[k1][i] \in LinesOf(L[k1]) /\ N[k2][j] \in LinesOf(c)
        BY <1>2, <2>3, InLines
      <3>2. QED
        BY <1>2, <2>3, <3>1 DEF Before
    <2>4. CASE k1 = K /\ k2 # K
      BY <1>2, <2>4
    <2>5. QED
      BY <2>1, <2>2, <2>3, <2>4
  <1>3. QED
    BY <1>1, <1>2 DEF InOrder

\* The second of the clock never goes back.
LEMMA DivMonotone ==
  ASSUME NEW a \in Nat, NEW b \in Nat, a <= b PROVE a \div Sec <= b \div Sec
  BY ConstantsAssumption

LEMMA LogInvInit == Init => LogInv
  <1> SUFFICES ASSUME Init PROVE LogInv
    OBVIOUS
  <1>1. TypeOK
    BY TypeInit
  <1>2. 0 \div Sec = 0
    BY ConstantsAssumption
  <1>3. QED
    BY <1>1, <1>2, LinesEmpty
       DEF Init, LogInv, LinesFlow, StreamFlow, KeysBehind, LogIsOrderedSubsequence, InOrder, OrderedIn,
           Ordered, Before, Unsent

\* The rest of an ordered pipe is ordered, and after its head.
LEMMA OrderedTail ==
  ASSUME NEW q \in Seq(Int), q # <<>>, NEW W,
         LinesOf(q) \subseteq W, Ordered(q)
  PROVE  /\ LinesOf(Tail(q)) \subseteq W
         /\ Ordered(Tail(q))
         /\ Head(q) # Eof => \A y \in LinesOf(Tail(q)) : Head(q) < y
  <1>1. /\ Len(Tail(q)) = Len(q) - 1
        /\ \A i \in 1..Len(Tail(q)) : Tail(q)[i] = q[i + 1]
        /\ Head(q) = q[1]
    BY HeadTailProperties
  <1>2. LinesOf(Tail(q)) \subseteq LinesOf(q)
    BY LinesTail
  <1>3. QED
    BY <1>1, <1>2 DEF LinesOf, Ordered

\* A log in order stays in order when more lines count as written.
LEMMA InOrderMono ==
  ASSUME NEW L, NEW W, NEW V, W \subseteq V, InOrder(L, W) PROVE InOrder(L, V)
  BY DEF InOrder

\* Steps that move no line and leave the clock alone.
LEMMA LogStepQuiet ==
  ASSUME LogInv, TypeOK',
         Start \/ PollExit \/ Kill \/ Report \/ ChildExit \/ UNCHANGED vars
  PROVE  LogInv'
  <1>1. /\ UNCHANGED <<pipe, buf, logs, emitted, script, sentKey, now>>
        /\ rpc' = "err_sent" <=> rpc = "err_sent"
    BY DEF Start, PollExit, Kill, Report, ChildExit, vars, ChildVars, LogInv, TypeOK
  <1>2. \A s \in Streams : Unsent(s)' = Unsent(s) /\ Written(s)' = Written(s)
    BY <1>1 DEF Unsent, Written
  <1>3. QED
    BY <1>1, <1>2 DEF LogInv, LinesFlow, StreamFlow, OrderedIn, KeysBehind,
                      LogIsOrderedSubsequence

\* The clock advances: the keys fall further behind it.
LEMMA LogStepTick == ASSUME LogInv, TypeOK', Tick PROVE LogInv'
  <1>1. /\ UNCHANGED <<pipe, buf, logs, emitted, script, sentKey, rpc>>
        /\ now' = now + 1 /\ now \in Nat
    BY DEF Tick, ChildVars, LogInv, TypeOK
  <1>2. now \div Sec <= now' \div Sec
    BY <1>1, DivMonotone
  <1>3. \A s \in Streams : Unsent(s)' = Unsent(s) /\ Written(s)' = Written(s)
    BY <1>1 DEF Unsent, Written
  <1>4. sentKey' <= now' \div Sec
    <2>1. sentKey <= now \div Sec /\ sentKey' = sentKey
      BY <1>1 DEF LogInv, KeysBehind
    <2>2. now \div Sec \in Nat /\ now' \div Sec \in Nat /\ sentKey \in Nat
      BY <1>1, TimestampNat DEF LogInv, TypeOK
    <2>3. QED
      BY <2>1, <1>2, <2>2
  <1>5. QED
    BY <1>1, <1>3, <1>4 DEF LogInv, LinesFlow, StreamFlow, OrderedIn, KeysBehind,
                            LogIsOrderedSubsequence

\* The pipes, the buffers and the chunks are sequences of integers.
LEMMA ReadsAreInts ==
  ASSUME TypeOK
  PROVE  \A s \in Streams : /\ pipe[s] \in Seq(Int) /\ buf[s] \in Seq(Int)
                           /\ \A k \in DOMAIN logs[s] : k \in Int /\ logs[s][k] \in Seq(Int)
  <1>1. ASSUME NEW q \in Seq(0..MaxLines) PROVE q \in Seq(Int)
    BY ConstantsAssumption
  <1>2. ASSUME NEW q \in Seq(1..MaxLines) PROVE q \in Seq(Int)
    BY ConstantsAssumption
  <1>3. QED
    BY <1>1, <1>2 DEF TypeOK

\* The child writes line emitted + 1, after every line written so far.
LEMMA LogStepWrite == ASSUME LogInv, TypeOK', ChildWrite PROVE LogInv'
  <1> DEFINE w == script[emitted + 1]
             n == emitted + 1
  <1> USE DEF w, n
  <1>0. Len(script) \in 0..MaxLines /\ script \in Seq(Streams) /\ emitted \in Nat
    BY ScriptIsSeq DEF LogInv, TypeOK
  <1>1. /\ w \in Streams /\ n \in Nat /\ emitted' = n
        /\ pipe' = [pipe EXCEPT ![w] = Append(@, n)]
        /\ UNCHANGED <<buf, logs, script, sentKey, now, rpc>>
    BY <1>0 DEF ChildWrite, LogInv, TypeOK
  <1>2. \A s \in Streams : Written(s)' = Written(s) \cup (IF s = w THEN {n} ELSE {})
    <2> SUFFICES ASSUME NEW s \in Streams
                 PROVE  {i \in 1..n : script[i] = s}
                          = {i \in 1..emitted : script[i] = s} \cup (IF s = w THEN {n} ELSE {})
      BY <1>1 DEF Written
    <2>1. emitted \in Nat
      BY <1>0 DEF LogInv, TypeOK
    <2>2. QED
      BY <2>1
  <1>3. \A s \in Streams : \A x \in Written(s) : x < n
    BY <1>0 DEF Written
  <1>4. \A s \in Streams : Unsent(s)' = Unsent(s)
    BY <1>1 DEF Unsent
  <1>5. ASSUME NEW s \in Streams PROVE StreamFlow(s)'
    <2>1. StreamFlow(s) /\ pipe[s] \in Seq(Int) /\ buf[s] \in Seq(Int)
      BY ReadsAreInts DEF LogInv, LinesFlow
    <2>2. OrderedIn(buf[s], s)'
      BY <1>1, <1>2, <2>1 DEF StreamFlow, OrderedIn
    <2>3. CASE s # w
      <3>1. pipe'[s] = pipe[s]
        BY <1>1, <2>3
      <3>2. QED
        BY <1>1, <1>2, <1>4, <2>1, <2>2, <3>1 DEF StreamFlow, OrderedIn
    <2>4. CASE s = w
      <3>1. pipe'[s] = Append(pipe[s], n)
        BY <1>1, <2>4 DEF LogInv, TypeOK
      <3>2. LinesOf(pipe'[s]) = LinesOf(pipe[s]) \cup {n}
        BY <1>0, <3>1, <2>1, LinesAppend DEF Eof
      <3>3. \A x \in LinesOf(pipe[s]) \cup LinesOf(buf[s]) : x < n
        BY <1>3, <2>1 DEF StreamFlow, OrderedIn
      <3>4. \A k \in DOMAIN logs[s] : \A x \in LinesOf(logs[s][k]) : x < n
        BY <1>3 DEF LogInv, LogIsOrderedSubsequence, InOrder
      <3>5. OrderedIn(pipe[s], s)'
        <4>1. n \in Written(s)'
          BY <1>2, <2>4
        <4>2. LinesOf(pipe[s]) \subseteq Written(s)'
          BY <1>2, <2>1 DEF StreamFlow, OrderedIn
        <4>3. n # Eof => n \in Written(s)' /\ \A y \in LinesOf(pipe[s]) : y < n
          BY <3>3, <4>1
        <4>4. Ordered(pipe[s]) /\ n \in Int
          BY <1>1, <2>1 DEF StreamFlow, OrderedIn
        <4>5. LinesOf(Append(pipe[s], n)) \subseteq Written(s)' /\ Ordered(Append(pipe[s], n))
          BY <2>1, <4>2, <4>3, <4>4, OrderedAppend
        <4>6. QED
          BY <3>1, <4>5 DEF OrderedIn
      <3>6. QED
        BY <1>1, <1>4, <2>1, <2>2, <3>2, <3>3, <3>4, <3>5 DEF StreamFlow, Before
    <2>5. QED
      BY <2>3, <2>4
  <1>6. KeysBehind'
    BY <1>1 DEF LogInv, KeysBehind
  <1>7. LogIsOrderedSubsequence'
    <2>1. \A s \in Streams : Written(s) \subseteq Written(s)'
      BY <1>2
    <2>2. QED
      BY <1>1, <2>1, InOrderMono DEF LogInv, LogIsOrderedSubsequence
  <1>8. QED
    BY <1>5, <1>6, <1>7 DEF LogInv, LinesFlow

\* One readline() per readable pipe moves the head of the pipe to the buffer.
LEMMA LogStepRead == ASSUME LogInv, TypeOK', SelectRead PROVE LogInv'
  <1>1. /\ rpc = "select" /\ rpc' = "check"
        /\ UNCHANGED <<logs, emitted, script, sentKey, now, alive>>
    BY DEF SelectRead
  <1>2. \A s \in Streams : Unsent(s) = buf[s] /\ Unsent(s)' = buf'[s] /\ Written(s)' = Written(s)
    BY <1>1 DEF Unsent, Written
  <1>3. ASSUME NEW s \in Streams PROVE StreamFlow(s)'
    <2>1. /\ StreamFlow(s) /\ pipe[s] \in Seq(Int) /\ buf[s] \in Seq(Int)
          /\ \A k \in DOMAIN logs[s] : logs[s][k] \in Seq(Int)
      BY ReadsAreInts DEF LogInv, LinesFlow
    <2>2. CASE pipe[s] # <<>>
      <3> DEFINE h == Head(pipe[s])
      <3> USE DEF h
      <3>0. pipe[s] \in Seq(1..MaxLines)
        BY DEF LogInv, TypeOK
      <3>a. h \in 1..MaxLines
        BY <2>2, <3>0, HeadTailProperties
      <3>b. buf'[s] = Append(buf[s], h) /\ pipe'[s] = Tail(pipe[s])
        BY <2>2 DEF SelectRead
      <3>1. /\ buf'[s] = Append(buf[s], h) /\ pipe'[s] = Tail(pipe[s])
            /\ h \in 1..MaxLines /\ Tail(pipe[s]) \in Seq(Int)
        BY <2>1, <2>2, <3>a, <3>b, HeadTailProperties
      <3>2. LinesOf(pipe[s]) = LinesOf(Tail(pipe[s])) \cup {h}
        BY <2>1, <2>2, <3>1, LinesTail DEF Eof
      <3>3. LinesOf(buf'[s]) = LinesOf(buf[s]) \cup {h}
        BY <2>1, <3>1, LinesAppend DEF Eof
      <3>4. /\ LinesOf(Tail(pipe[s])) \subseteq Written(s)
            /\ Ordered(Tail(pipe[s]))
            /\ \A y \in LinesOf(Tail(pipe[s])) : h < y
        BY <2>1, <2>2, <3>1, OrderedTail DEF StreamFlow, OrderedIn, Eof
      <3>c. h \in Written(s) /\ \A y \in LinesOf(buf[s]) : y < h
        BY <2>1, <3>2 DEF StreamFlow, OrderedIn, Before
      <3>5. LinesOf(buf'[s]) \subseteq Written(s) /\ Ordered(buf'[s])
        <4>1. LinesOf(buf[s]) \subseteq Written(s) /\ Ordered(buf[s])
          BY <2>1 DEF StreamFlow, OrderedIn
        <4>2. h \in Int
          BY <3>a
        <4>3. QED
          BY <2>1, <3>1, <3>c, <4>1, <4>2, OrderedAppend
      <3>6. OrderedIn(pipe[s], s)' /\ OrderedIn(buf[s], s)'
        BY <1>2, <3>1, <3>4, <3>5 DEF OrderedIn
      <3>7. Before(buf[s], pipe[s])'
        BY <2>1, <3>1, <3>2, <3>3, <3>4 DEF StreamFlow, Before
      <3>8. \A k \in DOMAIN logs'[s] : Before(logs'[s][k], Unsent(s)') /\ Before(logs'[s][k], pipe'[s])
        BY <1>1, <1>2, <2>1, <3>1, <3>2, <3>3 DEF StreamFlow, Before
      <3>9. QED
        BY <3>6, <3>7, <3>8 DEF StreamFlow
    <2>3. CASE pipe[s] = <<>> /\ ~alive
      <3>1. buf'[s] = Append(buf[s], Eof) /\ pipe'[s] = pipe[s]
        BY <2>3 DEF SelectRead
      <3>2. LinesOf(buf'[s]) = LinesOf(buf[s])
        <4>1. Eof \in Int
          BY DEF Eof
        <4>2. LinesOf(Append(buf[s], Eof)) = LinesOf(buf[s]) \cup (IF Eof = Eof THEN {} ELSE {Eof})
          BY <2>1, <4>1, LinesAppend
        <4>3. QED
          BY <3>1, <4>2
      <3>4. Ordered(buf'[s])
        <4>1. LinesOf(buf[s]) \subseteq Written(s) /\ Ordered(buf[s])
          BY <2>1 DEF StreamFlow, OrderedIn
        <4>2. Eof \in Int
          BY DEF Eof
        <4>3. QED
          BY <2>1, <3>1, <4>1, <4>2, OrderedAppend
      <3>3. QED
        BY <1>1, <1>2, <2>1, <3>1, <3>2, <3>4 DEF StreamFlow, OrderedIn, Before
    <2>4. CASE pipe[s] = <<>> /\ alive
      <3>1. buf'[s] = buf[s] /\ pipe'[s] = pipe[s]
        BY <2>4 DEF SelectRead
      <3>2. QED
        BY <1>1, <1>2, <2>1, <3>1 DEF StreamFlow, OrderedIn, Before
    <2>5. QED
      BY <2>2, <2>3, <2>4
  <1>4. QED
    BY <1>1, <1>2, <1>3 DEF LogInv, LinesFlow, KeysBehind, LogIsOrderedSubsequence

\* An empty buffer is ordered and comes before and after anything.
LEMMA EmptyReads == Ordered(<<>>) /\ \A q : Before(q, <<>>) /\ Before(<<>>, q)
  BY LinesEmpty DEF Ordered, Before

\* The upload check keys the next PATCH by the clock and may clear the buffers.
LEMMA LogStepCheck == ASSUME LogInv, TypeOK', CheckUpload PROVE LogInv'
  <1>1. /\ rpc = "check"
        /\ UNCHANGED <<pipe, logs, emitted, script, now>>
        /\ sentKey' = sentKey \/ sentKey' = now \div Sec
        /\ \A s \in Streams : buf'[s] = buf[s] \/ buf'[s] = <<>>
    <2>1. CASE stamp - lastUpload >= UploadSec * Sec
      <3>1. sentKey' = now \div Sec /\ UNCHANGED <<pipe, logs, emitted, script, now>>
        BY <2>1 DEF CheckUpload, GetTimestamp, ChildVars
      <3>2. buf' = buf \/ buf' = [t \in Streams |-> <<>>]
        BY <2>1 DEF CheckUpload
      <3>3. QED
        BY <3>1, <3>2 DEF CheckUpload
    <2>2. CASE ~(stamp - lastUpload >= UploadSec * Sec)
      BY <2>2 DEF CheckUpload, ChildVars
    <2>3. QED
      BY <2>1, <2>2
  <1>2. \A s \in Streams : /\ Unsent(s) = buf[s]
                           /\ Unsent(s)' = buf'[s] \/ Unsent(s)' = <<>>
                           /\ Written(s)' = Written(s)
    BY <1>1 DEF Unsent, Written
  <1>3. ASSUME NEW s \in Streams PROVE StreamFlow(s)'
    <2>1. StreamFlow(s)
      BY DEF LogInv, LinesFlow
    <2>2. CASE buf'[s] = buf[s]
      BY <1>1, <1>2, <2>1, <2>2, EmptyReads DEF StreamFlow, OrderedIn
    <2>3. CASE buf'[s] = <<>>
      BY <1>1, <1>2, <2>1, <2>3, EmptyReads, LinesEmpty DEF StreamFlow, OrderedIn
    <2>4. QED
      BY <1>1, <2>2, <2>3
  <1>4. KeysBehind'
    <2>1. sentKey <= now \div Sec /\ \A t \in Streams : \A k \in DOMAIN logs[t] : k <= sentKey
      BY DEF LogInv, KeysBehind
    <2>2. now \div Sec \in Nat /\ sentKey \in Nat /\ now \in Nat
      BY TimestampNat DEF LogInv, TypeOK
    <2>3. \A t \in Streams : DOMAIN logs[t] \subseteq Nat
      BY DEF LogInv, TypeOK
    <2>4. QED
      BY <1>1, <2>1, <2>2, <2>3 DEF KeysBehind
  <1>5. QED
    BY <1>1, <1>2, <1>3, <1>4 DEF LogInv, LinesFlow, LogIsOrderedSubsequence

(***************************************************************************)
(* A log PATCH lands: the buffer of its stream becomes the chunk keyed by  *)
(* the PATCH's second, after every chunk already stored, and is no longer  *)
(* unsent; the other buffer is left alone or cleared.                      *)
(***************************************************************************)
LEMMA LogStepPatch == ASSUME LogInv, TypeOK', PatchDone PROVE LogInv'
  <1> PICK sv \in Streams : sv = IF rpc = "out_sent" THEN "stdout" ELSE "stderr"
    BY DEF Streams
  <1>1. /\ rpc \in {"out_sent", "err_sent"} /\ sv \in Streams
        /\ logs' = PatchLog(sv, sentKey, buf[sv])
        /\ UNCHANGED <<pipe, emitted, script, now>>
        /\ sentKey' = now \div Sec
        /\ \A t \in Streams : buf'[t] = buf[t] \/ buf'[t] = <<>>
    BY DEF PatchDone, GetTimestamp, ChildVars, Streams
  <1>2. /\ Unsent(sv) = buf[sv]
        /\ Unsent(sv)' = <<>>
        /\ \A t \in Streams : Unsent(t)' = Unsent(t) \/ Unsent(t)' = <<>>
        /\ \A t \in Streams : Written(t)' = Written(t)
    <2>1. \A t \in Streams : Written(t)' = Written(t)
      BY <1>1 DEF Written
    <2>2. CASE rpc = "out_sent" /\ buf["stderr"] # <<>>
      <3>1. rpc' = "err_sent" /\ buf' = buf
        BY <2>2 DEF PatchDone, NextUpload
      <3>2. QED
        BY <2>1, <2>2, <3>1 DEF Unsent, Streams
    <2>3. CASE rpc = "out_sent" /\ buf["stderr"] = <<>>
      <3>1. rpc' = "poll" /\ buf' = [t \in Streams |-> <<>>]
        BY <2>3 DEF PatchDone, NextUpload
      <3>2. QED
        BY <2>1, <2>3, <3>1 DEF Unsent, Streams
    <2>4. CASE rpc = "err_sent"
      <3>1. rpc' = "poll" /\ buf' = [t \in Streams |-> <<>>]
        BY <2>4 DEF PatchDone, NextUpload
      <3>2. QED
        BY <2>1, <2>4, <3>1 DEF Unsent, Streams
    <2>5. QED
      BY <1>1, <2>2, <2>3, <2>4
  <1>3. /\ DOMAIN logs'[sv] = DOMAIN logs[sv] \cup {sentKey}
        /\ logs'[sv][sentKey] = buf[sv]
        /\ \A k \in DOMAIN logs[sv] : k # sentKey => logs'[sv][k] = logs[sv][k]
        /\ \A t \in Streams : t # sv => logs'[t] = logs[t]
    <2>1. DOMAIN logs = Streams
      BY DEF LogInv, TypeOK
    <2>2. QED
      BY <1>1, <2>1 DEF PatchLog
  <1>4. ASSUME NEW t \in Streams PROVE StreamFlow(t)'
    <2>1. StreamFlow(t)
      BY DEF LogInv, LinesFlow
    <2>2. OrderedIn(pipe[t], t)' /\ OrderedIn(buf[t], t)' /\ Before(buf[t], pipe[t])'
      BY <1>1, <1>2, <2>1, EmptyReads, LinesEmpty DEF StreamFlow, OrderedIn
    <2>3. CASE t = sv
      <3>1. \A k \in DOMAIN logs'[t] : Before(logs'[t][k], pipe'[t])
        BY <1>1, <1>3, <2>1, <2>3 DEF StreamFlow
      <3>2. \A k \in DOMAIN logs'[t] : Before(logs'[t][k], Unsent(t)')
        <4>1. Unsent(t)' = <<>>
          BY <1>2, <2>3
        <4>2. QED
          BY <4>1, EmptyReads
      <3>3. QED
        BY <2>2, <3>1, <3>2 DEF StreamFlow
    <2>4. CASE t # sv
      BY <1>1, <1>2, <1>3, <2>1, <2>2, <2>4, EmptyReads DEF StreamFlow
    <2>5. QED
      BY <2>3, <2>4
  <1>5. LogIsOrderedSubsequence'
    <2>1. InOrder(logs'[sv], Written(sv))
      <3>0. TypeOK
        BY DEF LogInv
      <3>1. /\ \A k \in DOMAIN logs[sv] : k \in Int /\ logs[sv][k] \in Seq(Int)
            /\ buf[sv] \in Seq(Int) /\ sentKey \in Int
        BY <1>1, <3>0, ReadsAreInts DEF TypeOK
      <3>2. InOrder(logs[sv], Written(sv)) /\ \A k \in DOMAIN logs[sv] : k <= sentKey
        BY <1>1 DEF LogInv, LogIsOrderedSubsequence, KeysBehind
      <3>3. LinesOf(buf[sv]) \subseteq Written(sv) /\ Ordered(buf[sv])
            /\ \A k \in DOMAIN logs[sv] : Before(logs[sv][k], buf[sv])
        BY <1>1, <1>2 DEF LogInv, LinesFlow, StreamFlow, OrderedIn
      <3>4. \A k \in DOMAIN logs[sv] : k # sentKey => Before(logs[sv][k], buf[sv])
        BY <3>3
      <3>5. ASSUME NEW L, NEW N, NEW c, NEW K, NEW W,
                   L = logs[sv], N = logs'[sv], c = buf[sv], K = sentKey, W = Written(sv)
            PROVE  InOrder(N, W)
        <4>1. K \in Int /\ c \in Seq(Int) /\ \A k \in DOMAIN L : k \in Int /\ L[k] \in Seq(Int)
          BY <3>1, <3>5
        <4>2. InOrder(L, W) /\ \A k \in DOMAIN L : k <= K
          BY <3>2, <3>5
        <4>3. LinesOf(c) \subseteq W /\ Ordered(c)
          BY <3>3, <3>5
        <4>4. \A k \in DOMAIN L : k # K => Before(L[k], c)
          BY <3>4, <3>5
        <4>5. DOMAIN N = DOMAIN L \cup {K} /\ N[K] = c
              /\ \A k \in DOMAIN L : k # K => N[k] = L[k]
          BY <1>3, <3>5
        <4>6. QED
          BY <4>1, <4>2, <4>3, <4>4, <4>5, PatchInOrder
      <3>6. QED
        BY <3>5
    <2>2. \A t \in Streams : t # sv => InOrder(logs'[t], Written(t))
      BY <1>3 DEF LogInv, LogIsOrderedSubsequence
    <2>3. QED
      BY <1>1, <1>2, <2>1, <2>2 DEF LogIsOrderedSubsequence
  <1>6. KeysBehind'
    <2>1. sentKey <= now \div Sec /\ \A t \in Streams : \A k \in DOMAIN logs[t] : k <= sentKey
      BY DEF LogInv, KeysBehind
    <2>2. now \div Sec \in Nat /\ sentKey \in Nat
      BY TimestampNat DEF LogInv, TypeOK
    <2>3. \A t \in Streams : DOMAIN logs'[t] \subseteq DOMAIN logs[t] \cup {sentKey}
      BY <1>3
    <2>4. \A t \in Streams : DOMAIN logs[t] \subseteq Nat
      BY DEF LogInv, TypeOK
    <2>5. QED
      BY <1>1, <2>1, <2>2, <2>3, <2>4 DEF KeysBehind
  <1>7. QED
    BY <1>4, <1>5, <1>6 DEF LogInv, LinesFlow

\* Every step of run_job, of the child and of the clock keeps LogInv.
LEMMA LogInvStep == LogInv /\ [Next]_vars => LogInv'
  <1> SUFFICES ASSUME LogInv, [Next]_vars PROVE LogInv'
    OBVIOUS
  <1>1. TypeOK'
    BY TypeStep DEF LogInv
  <1>2. CASE Start \/ PollExit \/ Kill \/ Report \/ ChildExit \/ UNCHANGED vars
    BY <1>1, <1>2, LogStepQuiet
  <1>3. CASE Tick
    BY <1>1, <1>3, LogStepTick
  <1>4. CASE ChildWrite
    BY <1>1, <1>4, LogStepWrite
  <1>5. CASE SelectRead
    BY <1>1, <1>5, LogStepRead
  <1>6. CASE CheckUpload
    BY <1>1, <1>6, LogStepCheck
  <1>7. CASE PatchDone
    BY <1>1, <1>7, LogStepPatch
  <1>8. QED
    BY <1>2, <1>3, <1>4, <1>5, <1>6, <1>7 DEF Next, RunnerStep

(***************************************************************************)
(* What run_job patches into job.logs is, for each stream, the lines the   *)
(* child wrote to it, each at most once and in the order written, across   *)
(* the chunks taken in the order of their keys: whatever the interleaving  *)
(* of the child's writes, the select() reads, the clock and the uploads,   *)
(* and for every value of the constants.                                   *)
(***************************************************************************)
THEOREM LogInOrder == Spec => []LogIsOrderedSubsequence
  <1>1. LogInv => LogIsOrderedSubsequence
    BY DEF LogInv
  <1>2. QED
    BY <1>1, LogInvInit, LogInvStep, PTL DEF Spec

-----------------------------------------------------------------------------
(* Refinement of JobStatus *)

LEMMA InitMaps == Init => Abstract!Init
  BY DEF Init, Abstract!Init, ChildState

\* Every step of run_job and of its child is a step of JobStatus or leaves it unchanged.
LEMMA StepMaps == IInv /\ [Next]_vars => [Abstract!Next]_Abstract!avars
  <1> SUFFICES ASSUME IInv, [Next]_vars PROVE [Abstract!Next]_Abstract!avars
    OBVIOUS
  <1> USE DEF IInv, StatusTyped, ChildEnded
  <1>1. CASE Kill
    <2>1. rpc = "kill" /\ ~timeout /\ status = "none"
      BY <1>1 DEF Kill
    <2>2. ChildState # "killed" /\ ChildState' = "killed"
      BY <1>1, <2>1 DEF Kill, ChildState
    <2>3. QED
      BY <1>1, <2>1, <2>2 DEF Kill, Abstract!Next, Abstract!Kill
  <1>2. CASE Report
    <2>1. rpc = "report" /\ ~alive /\ status = "none"
      BY <1>2 DEF Report
    <2>2. ChildState # "running" /\ ChildState' = ChildState
      BY <1>2, <2>1 DEF Report, ChildState, ChildVars
    <2>3. status' = Abstract!Outcome
      BY <1>2, <2>1 DEF Report, ChildState, Abstract!Outcome
    <2>4. QED
      BY <1>2, <2>1, <2>2, <2>3 DEF Report, ChildVars, Abstract!Next, Abstract!Report
  <1>3. CASE ChildExit
    <2>1. alive /\ ~timeout
      BY <1>3 DEF ChildExit
    <2>2. ChildState = "running" /\ ChildState' = "exited"
      BY <1>3, <2>1 DEF ChildExit, ChildState
    <2>3. QED
      BY <1>3, <2>2 DEF ChildExit, Abstract!Next, Abstract!Exit
  <1>4. CASE Start \/ SelectRead \/ CheckUpload \/ PatchDone \/ PollExit \/ ChildWrite
                \/ Tick \/ UNCHANGED vars
    BY <1>4 DEF Start, SelectRead, CheckUpload, PatchDone, PollExit, ChildWrite, Tick,
                ChildVars, vars, Abstract!avars, ChildState
  <1>5. QED
    BY <1>1, <1>2, <1>3, <1>4 DEF Next, RunnerStep

(***************************************************************************)
(* run_job implements JobStatus, for every timing and every value of the   *)
(* constants: the status at /jobs/<cl>/<ps> is written once, only after    *)
(* the child exited or was killed, and says which.  That the run ends,    *)
(* the abstract fairness, is RunnerTerminates, left to TLC.                *)
(***************************************************************************)
THEOREM RunJobRefinesJobStatus == Spec => Abstract!Spec
  <1>1. Spec => []IInv
    BY IInvInit, IInvStep, PTL DEF Spec
  <1>2. QED
    BY <1>1, InitMaps, StepMaps, PTL DEF Spec, Abstract!Spec
=============================================================================

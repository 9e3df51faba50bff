------------------------------ MODULE JobRunner ------------------------------
(***************************************************************************)
(* run_job of worker-container/worker.py: the supervision loop around one  *)
(* docker run child.  Each wakeup select()s on the child's two pipes for   *)
(* at most one second, reads one line from every readable pipe, uploads    *)
(* the line buffers to /logs/<cl>/<ps>/<stream> when LOGS_UPLOAD_SEC have  *)
(* passed (one PATCH per non-empty buffer, keyed by get_timestamp()),      *)
(* then breaks if the child has exited, or kills it and breaks if          *)
(* JOB_TIMEOUT_SEC have passed.  Finally it PATCHes /jobs/<cl>/<ps>.       *)
(*                                                                         *)
(* Time is a clock of Sec ticks per second.  The runner's local steps take *)
(* no time; time passes while it waits in select() and while a PATCH is   *)
(* in flight (at most MaxPatchTicks).  The child is the environment: it    *)
(* writes the lines of its script, one line per write, into pipes of      *)
(* PipeCap lines, and then may exit with any code or hang.  Line i of the  *)
(* script is the number i; Eof stands for the '' readline() returns at    *)
(* end of file.  A log chunk, '\n'.join(buffer), is kept as the reads it   *)
(* joins, in order: an Eof read is an empty line of the text.              *)
(***************************************************************************)
EXTENDS Integers, Sequences

CONSTANTS
    Sec,            \* clock ticks per second
    UploadSec,      \* LOGS_UPLOAD_SEC
    TimeoutSec,     \* JOB_TIMEOUT_SEC
    PipeCap,        \* lines a pipe holds before the child's write blocks
    MaxLines,       \* bound on the length of the child's script
    MaxPatchTicks,  \* bound on the ticks one PATCH request may take
    ExitCodes       \* exit codes the child may end with

ASSUME ConstantsAssumption ==
    /\ Sec \in Nat \ {0}
    /\ UploadSec \in Nat \ {0}
    /\ TimeoutSec \in Nat
    /\ PipeCap \in Nat \ {0}
    /\ MaxLines \in Nat
    /\ MaxPatchTicks \in Nat
    /\ ExitCodes \subseteq Int /\ 0 \in ExitCodes /\ -1 \notin ExitCodes

Streams == {"stdout", "stderr"}
Eof == 0
\* proc.returncode while the child runs (None); no exit code is -1.
NoCode == -1

\* The scripts a child may follow: which stream each of its lines goes to.
Scripts == UNION {[1..n -> Streams] : n \in 0..MaxLines}

VARIABLES
    now,         \* the wall clock, in ticks
    script,      \* the lines the child writes, in order
    emitted,     \* how many lines of the script the child has written
    pipe,        \* pipe[s]: lines written to s and not yet read
    alive,       \* the docker run process has not exited or been killed
    exitCode,    \* its return code once it exited
    rpc,         \* where run_job is
    tstart,      \* tstart = time.time()
    lastUpload,  \* last_upload
    stamp,       \* now = time.time() of the current wakeup
    selStart,    \* when the current select() began
    sentAt,      \* when the PATCH in flight was sent
    sentKey,     \* the get_timestamp() of the PATCH in flight
    buf,         \* proc_stdout / proc_stderr
    timeout,     \* the timeout flag
    status,      \* /jobs/<cl>/<ps>: the terminal status, or "none"
    logs         \* logs[s]: /logs/<cl>/<ps>/<s>, a function from second to chunk

vars == <<now, script, emitted, pipe, alive, exitCode, rpc, tstart, lastUpload,
          stamp, selStart, sentAt, sentKey, buf, timeout, status, logs>>

RunnerPcs == {"start", "select", "check", "out_sent", "err_sent", "poll",
              "kill", "report", "done"}

TypeOK ==
    /\ now \in Nat
    /\ script \in Scripts
    /\ emitted \in 0..Len(script)
    /\ pipe \in [Streams -> Seq(1..MaxLines)]
    /\ alive \in BOOLEAN
    /\ exitCode \in ExitCodes \cup {NoCode}
    /\ rpc \in RunnerPcs
    /\ {tstart, stamp, selStart, sentAt, sentKey} \subseteq Nat
    /\ lastUpload \in Int
    /\ buf \in [Streams -> Seq(0..MaxLines)]
    /\ timeout \in BOOLEAN
    /\ status \in {"none", "succeded", "failed", "timedout"}
    /\ DOMAIN logs = Streams
    /\ \A s \in Streams : /\ DOMAIN logs[s] \subseteq Nat
                          /\ \A k \in DOMAIN logs[s] : logs[s][k] \in Seq(0..MaxLines)

(***************************************************************************)
(* Before run_job: the child has not started and nothing is logged.        *)
(* last_upload = 0 is the epoch, so the first wakeup always uploads.       *)
(***************************************************************************)
Init ==
    /\ now = 0
    /\ script \in Scripts
    /\ emitted = 0
    /\ pipe = [s \in Streams |-> <<>>]
    /\ alive = TRUE
    /\ exitCode = NoCode
    /\ rpc = "start"
    /\ tstart = 0 /\ stamp = 0 /\ selStart = 0 /\ sentAt = 0 /\ sentKey = 0
    /\ lastUpload = -(UploadSec * Sec)
    /\ buf = [s \in Streams |-> <<>>]
    /\ timeout = FALSE
    /\ status = "none"
    /\ logs = [s \in Streams |-> <<>>]

ChildVars == <<script, emitted, pipe, alive, exitCode>>

\* get_timestamp(): the UTC time formatted to the second.
GetTimestamp == now \div Sec

\* A pipe select() reports readable: it holds a line, or it is at EOF.
Readable(s) == pipe[s] # <<>> \/ ~alive

\* fb_patch('/logs/.../<s>.json', {key: chunk}): merge one child into the node.
PatchLog(s, key, chunk) ==
    [logs EXCEPT ![s] = [k \in DOMAIN logs[s] \cup {key} |->
                           IF k = key THEN chunk ELSE logs[s][k]]]

(***************************************************************************)
(* docker rm -f, then Popen(docker run ...); tstart = time.time().          *)
(***************************************************************************)
Start ==
    /\ rpc = "start"
    /\ rpc' = "select"
    /\ tstart' = now
    /\ selStart' = now
    /\ UNCHANGED <<now, ChildVars, lastUpload, stamp, sentAt, sentKey, buf,
                   timeout, status, logs>>

\* Mutant: select() without its one-second timeout.
SelectReadNoTimeout ==
    /\ rpc = "select"
    /\ \E s \in Streams : Readable(s)
    /\ buf' = [s \in Streams |->
                 IF pipe[s] # <<>> THEN Append(buf[s], Head(pipe[s]))
                 ELSE IF ~alive THEN Append(buf[s], Eof) ELSE buf[s]]
    /\ pipe' = [s \in Streams |-> IF pipe[s] # <<>> THEN Tail(pipe[s]) ELSE pipe[s]]
    /\ stamp' = now
    /\ rpc' = "check"
    /\ UNCHANGED <<now, script, emitted, alive, exitCode, tstart, lastUpload,
                   selStart, sentAt, sentKey, timeout, status, logs>>

(***************************************************************************)
(* select.select(fds, [], [], 1) returns when a pipe is readable or the    *)
(* second is over; readline() takes one line from each readable pipe (''  *)
(* at EOF); now = time.time().                                              *)
(***************************************************************************)
SelectRead ==
    /\ rpc = "select"
    /\ (\E s \in Streams : Readable(s)) \/ now >= selStart + Sec
    /\ buf' = [s \in Streams |->
                 IF pipe[s] # <<>> THEN Append(buf[s], Head(pipe[s]))
                 ELSE IF ~alive THEN Append(buf[s], Eof) ELSE buf[s]]
    /\ pipe' = [s \in Streams |-> IF pipe[s] # <<>> THEN Tail(pipe[s]) ELSE pipe[s]]
    /\ stamp' = now
    /\ rpc' = "check"
    /\ UNCHANGED <<now, script, emitted, alive, exitCode, tstart, lastUpload,
                   selStart, sentAt, sentKey, timeout, status, logs>>

\* Where the upload goes after `from`: the next non-empty buffer to PATCH, or poll.
NextUpload(from) ==
    IF from = "check" /\ buf["stdout"] # <<>> THEN "out_sent"
    ELSE IF from # "err_sent" /\ buf["stderr"] # <<>> THEN "err_sent"
    ELSE "poll"

(***************************************************************************)
(* if now - last_upload >= LOGS_UPLOAD_SEC: last_upload = now and the      *)
(* PATCH of stdout is sent, if its buffer is not empty.                    *)
(***************************************************************************)
CheckUpload ==
    /\ rpc = "check"
    /\ IF stamp - lastUpload >= UploadSec * Sec
         THEN /\ lastUpload' = stamp
              /\ rpc' = NextUpload("check")
              /\ sentKey' = GetTimestamp
              /\ sentAt' = now
              /\ buf' = IF NextUpload("check") = "poll"
                          THEN [s \in Streams |-> <<>>] ELSE buf
         ELSE /\ rpc' = "poll"
              /\ UNCHANGED <<lastUpload, sentKey, sentAt, buf>>
    /\ UNCHANGED <<now, ChildVars, tstart, stamp, selStart, timeout, status, logs>>

\* Mutant: the buffers are not cleared after an upload.
PatchDoneNoClear ==
    /\ rpc \in {"out_sent", "err_sent"}
    /\ LET s == IF rpc = "out_sent" THEN "stdout" ELSE "stderr"
       IN  logs' = PatchLog(s, sentKey, buf[s])
    /\ rpc' = NextUpload(rpc)
    /\ sentKey' = GetTimestamp
    /\ sentAt' = now
    /\ UNCHANGED <<now, ChildVars, tstart, lastUpload, stamp, selStart, timeout,
                   status, buf>>

(***************************************************************************)
(* A log PATCH lands; the next one (stderr) is sent, or both buffers are   *)
(* cleared: proc_stdout = []; proc_stderr = [].                            *)
(***************************************************************************)
PatchDone ==
    /\ rpc \in {"out_sent", "err_sent"}
    /\ LET s == IF rpc = "out_sent" THEN "stdout" ELSE "stderr"
       IN  logs' = PatchLog(s, sentKey, buf[s])
    /\ rpc' = NextUpload(rpc)
    /\ sentKey' = GetTimestamp
    /\ sentAt' = now
    /\ buf' = IF NextUpload(rpc) = "poll" THEN [s \in Streams |-> <<>>] ELSE buf
    /\ UNCHANGED <<now, ChildVars, tstart, lastUpload, stamp, selStart, timeout,
                   status>>

(***************************************************************************)
(* if proc.poll() is not None: break; if now - tstart > JOB_TIMEOUT_SEC,   *)
(* with the now of this wakeup, the kill follows; otherwise the next       *)
(* select().                                                                *)
(***************************************************************************)
PollExit ==
    /\ rpc = "poll"
    /\ \/ /\ ~alive
          /\ rpc' = "report"
          /\ UNCHANGED selStart
       \/ /\ alive
          /\ stamp - tstart > TimeoutSec * Sec
          /\ rpc' = "kill"
          /\ UNCHANGED selStart
       \/ /\ alive
          /\ stamp - tstart <= TimeoutSec * Sec
          /\ rpc' = "select"
          /\ selStart' = now
    /\ UNCHANGED <<now, ChildVars, tstart, lastUpload, stamp, sentAt, sentKey,
                   buf, timeout, status, logs>>

\* Mutant: the kill without timeout = True.
KillNoFlag ==
    /\ rpc = "kill"
    /\ alive' = FALSE
    /\ rpc' = "report"
    /\ UNCHANGED <<now, script, emitted, pipe, exitCode, tstart, lastUpload,
                   stamp, selStart, sentAt, sentKey, buf, status, logs, timeout>>

\* proc.kill(); timeout = True; break.  The child may have exited since poll().
Kill ==
    /\ rpc = "kill"
    /\ alive' = FALSE
    /\ timeout' = TRUE
    /\ rpc' = "report"
    /\ UNCHANGED <<now, script, emitted, pipe, exitCode, tstart, lastUpload,
                   stamp, selStart, sentAt, sentKey, buf, status, logs>>

\* Mutant: 'succeeded' written here while copy.py keeps writing 'succeded'.
ReportMisspelt ==
    /\ rpc = "report"
    /\ status' = IF timeout THEN "timedout"
                 ELSE IF exitCode = 0 THEN "succeeded" ELSE "failed"
    /\ rpc' = "done"
    /\ UNCHANGED <<now, ChildVars, tstart, lastUpload, stamp, selStart, sentAt,
                   sentKey, buf, timeout, logs>>

(***************************************************************************)
(* The status of the run: timedout if killed, succeded if the return code  *)
(* is 0, failed otherwise; fb_patch('/jobs/<cl>/<ps>.json', ...).           *)
(***************************************************************************)
Report ==
    /\ rpc = "report"
    /\ status' = IF timeout THEN "timedout"
                 ELSE IF exitCode = 0 THEN "succeded" ELSE "failed"
    /\ rpc' = "done"
    /\ UNCHANGED <<now, ChildVars, tstart, lastUpload, stamp, selStart, sentAt,
                   sentKey, buf, timeout, logs>>

\* The child writes its next line; the write blocks while the pipe is full.
ChildWrite ==
    /\ alive
    /\ emitted < Len(script)
    /\ LET s == script[emitted + 1]
       IN  /\ Len(pipe[s]) < PipeCap
           /\ pipe' = [pipe EXCEPT ![s] = Append(@, emitted + 1)]
    /\ emitted' = emitted + 1
    /\ UNCHANGED <<now, script, alive, exitCode, rpc, tstart, lastUpload, stamp,
                   selStart, sentAt, sentKey, buf, timeout, status, logs>>

\* The child exits once its script is written (or never: it may hang).
ChildExit ==
    /\ alive
    /\ rpc # "start"
    /\ emitted = Len(script)
    /\ alive' = FALSE
    /\ exitCode' \in ExitCodes
    /\ UNCHANGED <<now, script, emitted, pipe, rpc, tstart, lastUpload, stamp,
                   selStart, sentAt, sentKey, buf, timeout, status, logs>>

\* Time passes while run_job waits: in an idle select() or on a PATCH.
Tick ==
    /\ \/ /\ rpc = "select"
          /\ \A s \in Streams : ~Readable(s)
          /\ now < selStart + Sec
       \/ /\ rpc \in {"out_sent", "err_sent"}
          /\ now < sentAt + MaxPatchTicks
    /\ now' = now + 1
    /\ UNCHANGED <<ChildVars, rpc, tstart, lastUpload, stamp, selStart, sentAt,
                   sentKey, buf, timeout, status, logs>>

RunnerStep ==
    Start \/ SelectRead \/ CheckUpload \/ PatchDone \/ PollExit \/ Kill \/ Report

Next == RunnerStep \/ ChildWrite \/ ChildExit \/ Tick

(***************************************************************************)
(* The runner is one process that never stops while it can move; time     *)
(* passes; a child with a line to write gets to write it.  The child is    *)
(* not bound to exit: a hanging job is what the timeout is for.            *)
(***************************************************************************)
Spec == Init /\ [][Next]_vars
FairSpec == Spec /\ WF_vars(RunnerStep) /\ WF_vars(Tick) /\ WF_vars(ChildWrite)

-----------------------------------------------------------------------------
(* Properties *)

\* The lines of stream s the child wrote, in order.
Written(s) == {i \in 1..emitted : script[i] = s}

\* The lines a sequence of reads carries: every read but the '' of an EOF.
LinesOf(q) == {q[i] : i \in {j \in 1..Len(q) : q[j] # Eof}}

\* The chunks of a log L, read in key order, carry lines of W, increasing.
InOrder(L, W) ==
    /\ \A k \in DOMAIN L : LinesOf(L[k]) \subseteq W
    /\ \A k1, k2 \in DOMAIN L :
         \A i \in 1..Len(L[k1]), j \in 1..Len(L[k2]) :
            /\ k1 < k2 \/ (k1 = k2 /\ i < j)
            /\ L[k1][i] # Eof
            /\ L[k2][j] # Eof
            => L[k1][i] < L[k2][j]

\* The text of /logs/.../<s>: the chunks concatenated in timestamp order.
LogText(s) ==
    LET keys == DOMAIN logs[s]
        top == IF keys = {} THEN 0 ELSE CHOOSE k \in keys : \A k2 \in keys : k2 <= k
        upto[n \in 0..top + 1] ==
            IF n = 0 THEN <<>>
            ELSE upto[n - 1] \o (IF n - 1 \in keys THEN logs[s][n - 1] ELSE <<>>)
    IN  upto[top + 1]

(***************************************************************************)
(* The log of each stream is the child's output on it, in order, with no   *)
(* line twice and no line of the other stream: the buffers are cleared     *)
(* after an upload and the chunks' timestamps follow the clock.  A line   *)
(* of the text is a position <<k, i>>, read i of the chunk keyed k, and    *)
(* the text reads them in the order of k, then i.                          *)
(***************************************************************************)
LogIsOrderedSubsequence == \A s \in Streams : InOrder(logs[s], Written(s))

(***************************************************************************)
(* When run_job returns, the child is no longer running, and the status    *)
(* it reported says how the child ended: timedout exactly when the loop    *)
(* killed it, succeded only after an exit with 0, failed only after an     *)
(* exit with another code.                                                 *)
(***************************************************************************)
ReportMatchesChild ==
    rpc = "done" =>
        /\ ~alive
        /\ (status = "timedout") = timeout
        /\ status = "succeded" => exitCode = 0
        /\ status = "failed" => exitCode \notin {0, NoCode}

(***************************************************************************)
(* Spec 8: run_job never blocks for ever; it returns even when the child   *)
(* hangs with its pipes open.                                              *)
(***************************************************************************)
RunnerTerminates == <>(rpc = "done")

(***************************************************************************)
(* Spec 8: log flushes are additive; when run_job returns, each stream's   *)
(* log holds every line the child wrote to it.                             *)
(***************************************************************************)
AllOutputLogged ==
    rpc = "done" =>
        \A s \in Streams : LinesOf(LogText(s)) = Written(s)

(***************************************************************************)
(* Spec 3 and 5: log chunks of a stream are keyed by their flush time and  *)
(* never race, so a PATCH never replaces a chunk already stored.          *)
(***************************************************************************)
ChunkNeverOverwritten ==
    [][\A s \in Streams : \A k \in DOMAIN logs[s] :
          k \in DOMAIN logs'[s] /\ logs'[s][k] = logs[s][k]]_logs
(***************************************************************************)
(* The abstract run: the child runs while alive; once dead it was killed   *)
(* if the timeout flag is set, and exited otherwise.                       *)
(***************************************************************************)
ChildState ==
    IF timeout THEN "killed" ELSE IF alive THEN "running" ELSE "exited"

Abstract == INSTANCE JobStatus WITH child <- ChildState, code <- exitCode
=============================================================================

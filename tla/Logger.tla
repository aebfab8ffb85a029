-------------------------------- MODULE Logger --------------------------------
(***************************************************************************)
(* The log of dns-proxy (internal/logging/logger.go).  A goroutine that    *)
(* calls package log takes that package's output lock (outMu, external),   *)
(* and inside it logWriter.Write takes mu.  monitorAndRotate holds mu      *)
(* while it changes files, and calls package log from there.  The error    *)
(* logs of the HTTPS servers pass tlsErrorFilter (httpserver/server.go),   *)
(* which leaves handshake errors to a goroutine; main flushes the log when *)
(* it shuts down.                                                          *)
(*                                                                         *)
(* A line is a number.  What matters of the bufio.Writer is how many lines *)
(* it holds back and that the first failed flush makes it drop every later *)
(* line.  Package log formats a line in a pooled buffer that is free again *)
(* when the call returns.                                                  *)
(***************************************************************************)
EXTENDS Naturals, Sequences

CONSTANTS
    Goroutines,   \* goroutines that log; main is not one of them
    Buffers,      \* the buffers of package log's pool
    BufSize,      \* lines the bufio.Writer holds
    MaxLines,     \* bound: no goroutine but main logs another line after this many
    MaxDay,       \* bound: midnights
    StdoutFaults, \* whether standard output may fail
    Nil

Procs == Goroutines \cup {"main"}

ASSUME LoggerAssumption ==
    /\ "main" \notin Goroutines /\ "rotator" \notin Goroutines
    /\ Nil \notin Procs /\ Nil # "rotator" /\ Nil \notin Buffers
    /\ BufSize \in Nat \ {0} /\ MaxLines \in Nat /\ MaxDay \in Nat
    /\ StdoutFaults \in BOOLEAN

VARIABLES
    on,        \* logging.Init opened a file; otherwise lines go to stderr only
    outMu,     \* owner of the output lock of package log
    mu,        \* owner of mu
    disk,      \* lines in the log files
    buf,       \* lines in the bufio.Writer
    failed,    \* the sticky error of the bufio.Writer
    today,     \* the date
    fileDay,   \* the date in the name of logFile
    call,      \* call[p]: where p is in a call of package log
    text,      \* text[b]: the line in buffer b
    held,      \* held[p]: the buffer of p's call
    own,       \* history: own[p]: the line that p's call formatted
    late,      \* late[b]: goroutines of tlsErrorFilter that still have to write b
    rpc, rday, \* monitorAndRotate: where it is, the date it took
    mpc,       \* main: "run", shutting down, or "exit"
    lines,     \* lines formatted so far
    accepted,  \* history: lines that reached the bufio.Writer, in order
    dropped,   \* history: lines it dropped because of its error
    returned,  \* history: lines whose call has returned, standard output having
               \* taken them, and handshake errors, which do not go there
    handshake, \* history: lines that are handshake errors
    overwritten, \* history: lines replaced in a buffer that was still to be written
    atFlush    \* history: accepted when main called Flush

writerVars == <<disk, buf, failed, accepted, dropped>>
callVars   == <<call, text, held, own, late, lines, returned, handshake, overwritten>>
rotateVars == <<fileDay, rpc, rday>>
vars == <<on, outMu, mu, writerVars, today, callVars, rotateVars, mpc, atFlush>>

Elements(s) == {s[i] : i \in DOMAIN s}

\* logging.Init succeeded, or could not make the directory or the file.
Init ==
    /\ on \in BOOLEAN
    /\ outMu = Nil /\ mu = Nil
    /\ disk = <<>> /\ buf = <<>> /\ failed = FALSE
    /\ today = 0 /\ fileDay = 0
    /\ call = [p \in Procs |-> "none"]
    /\ text = [b \in Buffers |-> 0]
    /\ held = [p \in Procs |-> Nil] /\ own = [p \in Procs |-> 0]
    /\ late = [b \in Buffers |-> 0]
    /\ rpc = "wait" /\ rday = 0
    /\ mpc = "run"
    /\ lines = 0
    /\ accepted = <<>> /\ dropped = {} /\ atFlush = <<>>
    /\ returned = {} /\ handshake = {} /\ overwritten = {}

Alive == mpc # "exit"

-----------------------------------------------------------------------------
(***************************************************************************)
(* The bufio.Writer; its callers hold mu.                                  *)
(***************************************************************************)

\* Flush of the lines in `pending': all reach the file, or the disk is
\* full after some of them and the error stays.
FlushOutcomes(pending) ==
    IF failed THEN {[n |-> 0, bad |-> TRUE]}
    ELSE {[n |-> Len(pending), bad |-> FALSE]}
         \cup {[n |-> k, bad |-> TRUE] : k \in 0 .. (Len(pending) - 1)}

\* writer.Write(line): a full buffer is flushed first, unless the writer has failed.
WriteLine(line) ==
    /\ accepted' = Append(accepted, line)
    /\ \/ /\ ~failed /\ Len(buf) < BufSize
          /\ buf' = Append(buf, line)
          /\ UNCHANGED <<disk, failed, dropped>>
       \/ /\ failed \/ Len(buf) = BufSize
          /\ \E o \in FlushOutcomes(buf) :
                /\ disk' = disk \o SubSeq(buf, 1, o.n)
                /\ failed' = o.bad
                /\ buf' = IF o.bad THEN SubSeq(buf, o.n + 1, Len(buf)) ELSE <<line>>
                /\ dropped' = IF o.bad THEN dropped \cup {line} ELSE dropped

-----------------------------------------------------------------------------
(***************************************************************************)
(* Calls of package log.                                                   *)
(***************************************************************************)

\* A new line is formatted in buffer b of the pool, which no call holds.
FormatIn(b) ==
    /\ b \notin {held[q] : q \in Procs}
    /\ text' = [text EXCEPT ![b] = lines + 1]
    /\ overwritten' = IF late[b] > 0 THEN overwritten \cup {text[b]} ELSE overwritten
    /\ lines' = lines + 1

\* log.Printf or log.Println: the line and its buffer are p's until the call
\* returns.
Format(p, where) ==
    /\ \E b \in Buffers : FormatIn(b) /\ held' = [held EXCEPT ![p] = b]
    /\ own' = [own EXCEPT ![p] = lines + 1]
    /\ call' = [call EXCEPT ![p] = where]

\* A goroutine of the program logs, or an HTTPS server logs an error that is
\* not about a handshake: tlsErrorFilter then writes to logWriter itself,
\* without the output lock.
Call(p) ==
    /\ Alive /\ call[p] = "none" /\ lines < MaxLines
    /\ \E where \in {"lockOut", "direct"} : Format(p, where)
    /\ UNCHANGED <<on, outMu, mu, writerVars, today, late, returned, handshake, rotateVars, mpc, atFlush>>

LockOut(p) ==
    /\ Alive /\ call[p] = "lockOut" /\ outMu = Nil
    /\ outMu' = p
    /\ call' = [call EXCEPT ![p] = "write"]
    /\ UNCHANGED <<on, mu, writerVars, today, text, held, own, late, lines,
                   returned, handshake, overwritten, rotateVars, mpc, atFlush>>

\* What main does once its call has returned.
AfterCall(p) == mpc' = IF p # "main" THEN mpc
                       ELSE IF mpc = "shutting" THEN "shutdown" ELSE "exit"

\* Mutant: tlsErrorFilter leaves every line to a goroutine.
WriteHandedOver(p) ==
    /\ Alive
    /\ call[p] \in {"write", "direct"}
    /\ late' = [late EXCEPT ![held[p]] = @ + 1]
    /\ outMu' = IF call[p] = "write" THEN Nil ELSE outMu
    /\ returned' = returned \cup {own[p]}
    /\ call' = [call EXCEPT ![p] = "none"]
    /\ held' = [held EXCEPT ![p] = Nil] /\ own' = [own EXCEPT ![p] = 0]
    /\ AfterCall(p)
    /\ UNCHANGED <<on, mu, writerVars, today, text, lines, handshake, overwritten,
                   rotateVars, atFlush>>

\* The call gives up the output lock and its buffer and returns.
EndCall(p) ==
    /\ outMu' = IF call[p] = "write" THEN Nil ELSE outMu
    /\ call' = [call EXCEPT ![p] = "none"]
    /\ held' = [held EXCEPT ![p] = Nil] /\ own' = [own EXCEPT ![p] = 0]
    /\ AfterCall(p)

\* io.MultiWriter: os.Stdout took the line, then logWriter.Write under mu.
\* Without a log file package log writes to stderr only.
Write(p) ==
    /\ Alive
    /\ call[p] \in {"write", "direct"}
    /\ \/ on /\ mu = Nil /\ WriteLine(text[held[p]])
       \/ ~on /\ UNCHANGED writerVars
    /\ returned' = returned \cup {own[p]}
    /\ EndCall(p)
    /\ UNCHANGED <<on, mu, today, text, late, lines, handshake, overwritten,
                   rotateVars, atFlush>>

\* os.Stdout fails: io.MultiWriter does not go on to logWriter.
StdoutFails(p) ==
    /\ Alive /\ StdoutFaults /\ on
    /\ call[p] \in {"write", "direct"}
    /\ EndCall(p)
    /\ UNCHANGED <<on, mu, writerVars, today, text, late, lines, returned, handshake,
                   overwritten, rotateVars, atFlush>>

\* A handshake error: `go logging.WriteToFile(p)' and the call returns, so
\* the buffer is free although the goroutine still refers to it.
TlsError ==
    /\ Alive /\ lines < MaxLines
    /\ \E b \in Buffers : FormatIn(b) /\ late' = [late EXCEPT ![b] = @ + 1]
    /\ returned' = returned \cup {lines + 1}
    /\ handshake' = handshake \cup {lines + 1}
    /\ UNCHANGED <<on, outMu, mu, writerVars, today, call, held, own, rotateVars,
                   mpc, atFlush>>

\* WriteToFile: the line is whatever the buffer holds by now.
WriteToFile(b) ==
    /\ Alive /\ late[b] > 0 /\ mu = Nil
    /\ late' = [late EXCEPT ![b] = @ - 1]
    /\ IF on THEN WriteLine(text[b]) ELSE UNCHANGED writerVars
    /\ UNCHANGED <<on, outMu, mu, today, call, text, held, own, lines, returned,
                   handshake, overwritten, rotateVars, mpc, atFlush>>

-----------------------------------------------------------------------------
(***************************************************************************)
(* monitorAndRotate, every ten minutes.                                    *)
(***************************************************************************)

NextDay ==
    /\ Alive /\ today < MaxDay
    /\ today' = today + 1
    /\ UNCHANGED <<on, outMu, mu, writerVars, callVars, rotateVars, mpc, atFlush>>

\* The date is taken before mu.
Tick ==
    /\ Alive /\ on /\ rpc = "wait"
    /\ rday' = today /\ rpc' = "lock"
    /\ UNCHANGED <<on, outMu, mu, writerVars, today, callVars, fileDay, mpc, atFlush>>

LockMu ==
    /\ Alive /\ rpc = "lock" /\ mu = Nil
    /\ mu' = "rotator" /\ rpc' = "compare"
    /\ UNCHANGED <<on, outMu, writerVars, today, callVars, fileDay, rday, mpc, atFlush>>

\* Mutant: the early `continue' forgets mu.Unlock().
SameDayKeepsLock ==
    /\ Alive /\ rpc = "compare" /\ fileDay = rday
    /\ rpc' = "wait"
    /\ UNCHANGED <<on, outMu, mu, writerVars, today, callVars, fileDay, rday, mpc, atFlush>>

SameDay ==
    /\ Alive /\ rpc = "compare" /\ fileDay = rday
    /\ mu' = Nil /\ rpc' = "wait"
    /\ UNCHANGED <<on, outMu, writerVars, today, callVars, fileDay, rday, mpc, atFlush>>

\* Mutant: the new writer replaces one that was not flushed.
RotateWithoutFlush ==
    /\ Alive /\ rpc = "compare" /\ fileDay # rday
    /\ fileDay' = rday /\ buf' = <<>> /\ failed' = FALSE
    /\ rpc' = "setOutput"
    /\ UNCHANGED <<on, outMu, mu, disk, accepted, dropped, today, callVars, rday, mpc, atFlush>>

\* Mutant: the old writer, with its error, is used for the new file.
RotateKeepsError ==
    /\ Alive /\ rpc = "compare" /\ fileDay # rday
    /\ \E o \in FlushOutcomes(buf) :
          /\ disk' = disk \o SubSeq(buf, 1, o.n)
          /\ dropped' = dropped \cup Elements(SubSeq(buf, o.n + 1, Len(buf)))
          /\ failed' = o.bad
    /\ buf' = <<>> /\ fileDay' = rday
    /\ rpc' = "setOutput"
    /\ UNCHANGED <<on, outMu, mu, accepted, today, callVars, rday, mpc, atFlush>>

\* Flush and close the old file, then open the new one and make a writer.
Rotate ==
    /\ Alive /\ rpc = "compare" /\ fileDay # rday
    /\ \E o \in FlushOutcomes(buf) :
          /\ disk' = disk \o SubSeq(buf, 1, o.n)
          /\ dropped' = dropped \cup Elements(SubSeq(buf, o.n + 1, Len(buf)))
    /\ buf' = <<>> /\ failed' = FALSE /\ fileDay' = rday
    /\ rpc' = "setOutput"
    /\ UNCHANGED <<on, outMu, mu, accepted, today, callVars, rday, mpc, atFlush>>

\* log.SetOutput takes the output lock while mu is held.
SetOutput ==
    /\ Alive /\ rpc = "setOutput" /\ outMu = Nil
    /\ mu' = Nil /\ rpc' = "wait"
    /\ UNCHANGED <<on, outMu, writerVars, today, callVars, fileDay, rday, mpc, atFlush>>

\* The new file cannot be opened.
RotateFails ==
    /\ Alive /\ rpc = "compare" /\ fileDay # rday
    /\ \E o \in FlushOutcomes(buf) :
          /\ disk' = disk \o SubSeq(buf, 1, o.n)
          /\ buf' = SubSeq(buf, o.n + 1, Len(buf))
          /\ failed' = o.bad
    /\ rpc' = "report"
    /\ UNCHANGED <<on, outMu, mu, accepted, dropped, today, fileDay, callVars, rday,
                   mpc, atFlush>>

\* log.Printf("rotate log file failed") takes the output lock; inside it,
\* logWriter.Write waits for mu, which the same goroutine holds, so there is
\* no step from "reportWrite" to the mu.Unlock() that follows.
Report ==
    /\ Alive /\ rpc = "report" /\ outMu = Nil
    /\ outMu' = "rotator" /\ rpc' = "reportWrite"
    /\ UNCHANGED <<on, mu, writerVars, today, callVars, fileDay, rday, mpc, atFlush>>

-----------------------------------------------------------------------------
(***************************************************************************)
(* main: a signal, "shutting down...", the servers, Flush, "stopped.".     *)
(***************************************************************************)

SigTerm ==
    /\ mpc = "run"
    /\ mpc' = "shutting"
    /\ Format("main", "lockOut")
    /\ UNCHANGED <<on, outMu, mu, writerVars, today, late, returned, handshake, rotateVars, atFlush>>

\* Mutant: Flush only syncs the file.
FlushSyncs ==
    /\ mpc = "shutdown" /\ mu = Nil
    /\ atFlush' = accepted
    /\ UNCHANGED writerVars
    /\ mpc' = "stopping"
    /\ Format("main", "lockOut")
    /\ UNCHANGED <<on, outMu, mu, today, late, returned, handshake, rotateVars>>

\* Mutant: Flush does not unlock mu.
FlushKeepsLock ==
    /\ mpc = "shutdown" /\ mu = Nil
    /\ mu' = "main"
    /\ atFlush' = accepted
    /\ disk' = disk \o buf /\ buf' = <<>>
    /\ mpc' = "stopping"
    /\ Format("main", "lockOut")
    /\ UNCHANGED <<on, outMu, failed, accepted, dropped, today, late, returned, handshake, rotateVars>>

\* The servers are shut down; logging.Flush; then the last line is logged.
Flush ==
    /\ mpc = "shutdown" /\ mu = Nil
    /\ atFlush' = accepted
    /\ \E o \in FlushOutcomes(buf) :
          /\ disk' = disk \o SubSeq(buf, 1, o.n)
          /\ buf' = SubSeq(buf, o.n + 1, Len(buf))
          /\ failed' = o.bad
    /\ mpc' = "stopping"
    /\ Format("main", "lockOut")
    /\ UNCHANGED <<on, outMu, mu, accepted, dropped, today, late, returned, handshake, rotateVars>>

-----------------------------------------------------------------------------

LogCall(p) == LockOut(p) \/ Write(p)
Rotation   == LockMu \/ SameDay \/ Rotate \/ RotateFails \/ SetOutput \/ Report

Next ==
    \/ \E p \in Goroutines : Call(p)
    \/ \E p \in Procs : LogCall(p) \/ StdoutFails(p)
    \/ TlsError \/ \E b \in Buffers : WriteToFile(b)
    \/ NextDay \/ Tick \/ Rotation
    \/ SigTerm \/ Flush

Spec == Init /\ [][Next]_vars

\* Goroutines run, and Go's mutexes hand over to a waiter that starves.
\* Nothing makes lines, midnights, handshake errors, signals or errors
\* of standard output happen.
Fairness ==
    /\ \A p \in Procs : SF_vars(LogCall(p))
    /\ SF_vars(Rotation)
    /\ SF_vars(Flush)

FairSpec == Spec /\ Fairness

-----------------------------------------------------------------------------
(***************************************************************************)
(* Properties.                                                             *)
(***************************************************************************)

\* Every variable keeps its type, and a call has a buffer.
TypeOK ==
    /\ on \in BOOLEAN /\ failed \in BOOLEAN
    /\ outMu \in Procs \cup {"rotator", Nil} /\ mu \in {"rotator", Nil}
    /\ disk \in Seq(Nat) /\ buf \in Seq(Nat) /\ accepted \in Seq(Nat) /\ atFlush \in Seq(Nat)
    /\ Len(buf) <= BufSize
    /\ today \in Nat /\ fileDay \in Nat /\ rday \in Nat /\ lines \in Nat
    /\ dropped \subseteq Nat /\ returned \subseteq Nat
    /\ handshake \subseteq Nat /\ overwritten \subseteq Nat
    /\ call \in [Procs -> {"none", "lockOut", "write", "direct"}]
    /\ text \in [Buffers -> Nat] /\ late \in [Buffers -> Nat]
    /\ held \in [Procs -> Buffers \cup {Nil}] /\ own \in [Procs -> Nat]
    /\ \A p \in Procs : call[p] # "none" => held[p] # Nil
    /\ rpc \in {"wait", "lock", "compare", "setOutput", "report", "reportWrite"}
    /\ mpc \in {"run", "shutting", "shutdown", "stopping", "exit"}

\* No line disappears between package log and the files, through any mix of
\* rotations, full buffers and failed writes: the files and the writer hold
\* the accepted lines in the order they were accepted, and only a failed
\* write makes any of them missing.
LinesKept ==
    /\ dropped = {} => accepted = disk \o buf
    /\ Elements(accepted) = Elements(disk) \cup Elements(buf) \cup dropped

\* Some goroutine of tlsErrorFilter will still write line n.
Pending(n) == \E b \in Buffers : late[b] > 0 /\ text[b] = n

\* Whatever the goroutines of tlsErrorFilter write from buffers that are used
\* again meanwhile, a line whose own call has returned reached the writer; but
\* for handshake errors, whose call returns first: those are still to be
\* written, or were lost when their buffer was used for another line.  No
\* other line is.
OnlyReusedLinesLost ==
    on => \A n \in returned :
             \/ n \in Elements(accepted)
             \/ n \in handshake /\ (Pending(n) \/ n \in overwritten)

\* After main's Flush everything accepted before it is in the files, unless
\* a write failed.
ShutdownSaves ==
    mpc \in {"stopping", "exit"} /\ ~failed /\ dropped = {} =>
        Len(atFlush) <= Len(disk) /\ SubSeq(disk, 1, Len(atFlush)) = atFlush

\* The rotation and a log call wait for each other, or the rotation for itself.
Wedged ==
    \/ rpc \in {"setOutput", "report"} /\ outMu # Nil
    \/ rpc = "reportWrite"

\* A rotation that holds mu and wants the output lock is the only way for
\* logging to stop: every call returns unless that has happened.
CallsReturnUnlessWedged ==
    \A p \in Procs : call[p] # "none" ~> call[p] = "none" \/ Wedged \/ ~Alive

\* A signal ends the process, unless the log is wedged: main itself logs.
SignalEndsProcess == mpc = "shutting" ~> mpc = "exit" \/ Wedged

\* The error path of the rotation reports the failure, unlocks mu and goes
\* on: a log call always returns.
LogCallsReturn == \A p \in Procs : call[p] # "none" ~> call[p] = "none" \/ ~Alive

-----------------------------------------------------------------------------
(***************************************************************************)
(* The inductive invariant behind the safety properties.                   *)
(***************************************************************************)

\* A writer that has failed still has what it could not write, so that the
\* rotation that replaces it drops something.
FailInv == failed => buf # <<>>

\* main logs only the two lines of its shutdown.
MainInv == call["main"] # "none" => mpc \in {"shutting", "stopping"}

\* A call has a buffer to itself, and its line stays there, whatever the
\* goroutines of tlsErrorFilter were promised of that buffer.
BufferInv ==
    \A p \in Procs :
        /\ call[p] # "none" => text[held[p]] = own[p]
        /\ \A q \in Procs : held[p] = held[q] /\ held[p] # Nil => p = q

\* All of it, with the properties it is for.
IndInv ==
    /\ TypeOK /\ FailInv /\ MainInv /\ BufferInv
    /\ LinesKept /\ OnlyReusedLinesLost /\ ShutdownSaves

=============================================================================

------------------------------ MODULE Progress ------------------------------
(***************************************************************************)
(* What Codarr hears of a running ffmpeg (ffmpeg/runner.go, progress.go,   *)
(* job/execute.go runEncode).  One goroutine parses the reports on stdout  *)
(* and passes each block on to a throttle, which stores at most one every  *)
(* FlushInterval; another copies stderr into a ring of lines.  The run is  *)
(* over when both streams have ended and ffmpeg has been waited for; what  *)
(* the throttle still holds is stored last.                                *)
(***************************************************************************)
EXTENDS Integers, Sequences

CONSTANTS
    Total,          \* the length of the source, as the job knows it
    Interval,       \* FlushInterval, in ticks
    RingSize,       \* StderrTailLines
    NotANumber,     \* ffmpeg's N/A
    Never,
    MaxBlocks, MaxLines, MaxTicks   \* bounds on what ffmpeg writes, and on time

ASSUME ProgressAssumption ==
    /\ Total \in Nat /\ Interval \in Nat /\ RingSize \in Nat \ {0}
    /\ NotANumber \notin Nat /\ Never \notin Nat
    /\ MaxBlocks \in Nat /\ MaxLines \in Nat /\ MaxTicks \in Nat

VARIABLES
    ffmpeg,     \* running or gone; the time it last wrote and last reported; its
                \* blocks and lines, and whether either is unfinished
    stdout,     \* lines written and not yet parsed
    stderr,     \* pieces of lines written and not yet copied
    parser,     \* the block being read and the last one read
    throttle,   \* the block held, whether it is still to be stored, the last store
    ring,       \* the last lines and the unfinished one
    run,        \* how far the run is and what it returns
    stored,     \* the percentage in the job's row, whether the last store failed,
                \* and whether one came too soon
    ticks

progressVars == <<ffmpeg, stdout, stderr, parser, throttle, ring, run, stored, ticks>>

LineOf(key, value) == [key |-> key, value |-> value]
Percent(out) == IF Total = 0 THEN 0
                ELSE IF out >= Total THEN 100 ELSE (out * 100) \div Total

-----------------------------------------------------------------------------
(* ffmpeg. *)

KeepRunner == UNCHANGED <<parser, throttle, ring, run, stored, ticks>>

\* A block begins with the time reached, if there is one.
WriteTime ==
    /\ ffmpeg.up /\ ~ffmpeg.inBlock /\ ffmpeg.blocks < MaxBlocks /\ Len(stdout) < 2
    /\ \E v \in {ffmpeg.time + 1, NotANumber} :
          /\ stdout' = Append(stdout, LineOf("out_time_us", v))
          /\ ffmpeg' = [ffmpeg EXCEPT !.inBlock = TRUE, !.time = IF v = NotANumber THEN @ ELSE v]
    /\ KeepRunner /\ UNCHANGED stderr

WriteBlock ==
    /\ ffmpeg.up /\ ffmpeg.inBlock /\ Len(stdout) < 2
    /\ stdout' = Append(stdout, LineOf("progress", 0))
    /\ ffmpeg' = [ffmpeg EXCEPT !.inBlock = FALSE, !.said = ffmpeg.time, !.blocks = @ + 1]
    /\ KeepRunner /\ UNCHANGED stderr

WriteText ==
    /\ ffmpeg.up /\ ~ffmpeg.inLine /\ ffmpeg.lines < MaxLines /\ Len(stderr) < 2
    /\ stderr' = Append(stderr, "text")
    /\ ffmpeg' = [ffmpeg EXCEPT !.inLine = TRUE]
    /\ KeepRunner /\ UNCHANGED stdout

WriteNewline ==
    /\ ffmpeg.up /\ ffmpeg.inLine /\ Len(stderr) < 2
    /\ stderr' = Append(stderr, "newline")
    /\ ffmpeg' = [ffmpeg EXCEPT !.inLine = FALSE, !.lines = @ + 1]
    /\ KeepRunner /\ UNCHANGED stdout

\* It ends, fails or is terminated, perhaps within a line of its reports.
Exits ==
    /\ ffmpeg.up
    /\ \/ UNCHANGED stdout
       \/ stdout' = Append(stdout, LineOf("out_time_us", 0))
       \/ stdout' = Append(stdout, LineOf("out_t", NotANumber))
    /\ ffmpeg' = [ffmpeg EXCEPT !.up = FALSE]
    /\ KeepRunner /\ UNCHANGED stderr

-----------------------------------------------------------------------------
(* The runner. *)

KeepFFmpeg == UNCHANGED <<ffmpeg, ticks>>

\* The sink writes the row, which may fail.
Store(out) ==
    \E failed \in BOOLEAN :
       stored' = [pct |-> IF failed THEN stored.pct ELSE Percent(out), failed |-> failed,
                  hasty |-> stored.hasty \/ /\ throttle.last # Never
                                            /\ ticks - throttle.last < Interval
                                            /\ run.at = "parsing"]

\* Update: the first block is stored at once.
Update(out) ==
    IF throttle.last # Never /\ ticks - throttle.last < Interval
    THEN /\ throttle' = [throttle EXCEPT !.latest = out, !.pending = TRUE]
         /\ UNCHANGED stored
    ELSE /\ throttle' = [latest |-> out, pending |-> FALSE, last |-> ticks]
         /\ Store(out)

\* A block is passed on as it ends; a value that is not a number changes nothing.
ParseLine ==
    /\ run.at = "parsing" /\ stdout # <<>>
    /\ stdout' = Tail(stdout)
    /\ LET line == Head(stdout)
       IN  \/ /\ line.key = "progress"
              /\ parser' = [parser EXCEPT !.last = parser.current]
              /\ Update(parser.current)
           \/ /\ line.key = "out_time_us"
              /\ parser' = [parser EXCEPT !.current = IF line.value = NotANumber THEN @ ELSE line.value]
              /\ UNCHANGED <<throttle, stored>>
           \/ /\ line.key \notin {"progress", "out_time_us"}
              /\ UNCHANGED <<parser, throttle, stored>>
    /\ KeepFFmpeg /\ UNCHANGED <<stderr, ring, run>>

ParseEnds ==
    /\ run.at = "parsing" /\ stdout = <<>> /\ ~ffmpeg.up
    /\ run' = [run EXCEPT !.at = "waiting", !.finalOut = parser.last]
    /\ KeepFFmpeg /\ UNCHANGED <<stdout, stderr, parser, throttle, ring, stored>>

\* The ring of lines: every line is its number here.
Push(r, line) ==
    LET next == (r.next + 1) % RingSize
    IN  [buf |-> [r.buf EXCEPT ![r.next] = line], next |-> next,
         full |-> r.full \/ next = 0, tail |-> 0]

CopyStderr ==
    /\ stderr # <<>>
    /\ stderr' = Tail(stderr)
    /\ ring' = IF Head(stderr) = "newline" THEN Push(ring, ring.tail)
               ELSE [ring EXCEPT !.tail =
                       1 + (IF ring.next = 0 /\ ~ring.full THEN 0
                            ELSE ring.buf[(ring.next + RingSize - 1) % RingSize])]
    /\ KeepFFmpeg /\ UNCHANGED <<stdout, parser, throttle, run, stored>>

\* Oldest first, with the unfinished line.
Lines(r) ==
    LET At(i) == r.buf[i % RingSize]
        kept == IF r.full THEN [k \in 1..RingSize |-> At(r.next + k - 1)]
                ELSE [k \in 1..r.next |-> At(k - 1)]
    IN  IF r.tail = 0 THEN kept ELSE Append(kept, r.tail)

\* The tail read as stdout ends, before Wait.
TailAtOnce ==
    /\ run.at = "waiting"
    /\ run' = [run EXCEPT !.at = "flush", !.tail = Lines(ring)]
    /\ KeepFFmpeg /\ UNCHANGED <<stdout, stderr, parser, throttle, ring, stored>>

\* Wait returns when stderr has been copied; only then is the tail read.
WaitEnds ==
    /\ run.at = "waiting" /\ ~ffmpeg.up /\ stderr = <<>>
    /\ run' = [run EXCEPT !.at = "flush", !.tail = Lines(ring)]
    /\ KeepFFmpeg /\ UNCHANGED <<stdout, stderr, parser, throttle, ring, stored>>

\* The deferred Flush of runEncode.
Flush ==
    /\ run.at = "flush"
    /\ run' = [run EXCEPT !.at = "over"]
    /\ IF throttle.pending
       THEN Store(throttle.latest) /\ throttle' = [throttle EXCEPT !.pending = FALSE, !.last = ticks]
       ELSE UNCHANGED <<throttle, stored>>
    /\ KeepFFmpeg /\ UNCHANGED <<stdout, stderr, parser, ring>>

TimePasses ==
    /\ ticks < MaxTicks /\ ticks' = ticks + 1
    /\ UNCHANGED <<ffmpeg, stdout, stderr, parser, throttle, ring, run, stored>>

-----------------------------------------------------------------------------

ProgressInit ==
    /\ ffmpeg = [up |-> TRUE, time |-> 0, said |-> 0, blocks |-> 0, inBlock |-> FALSE,
                 lines |-> 0, inLine |-> FALSE]
    /\ stdout = <<>> /\ stderr = <<>>
    /\ parser = [current |-> 0, last |-> 0]
    /\ throttle = [latest |-> 0, pending |-> FALSE, last |-> Never]
    /\ ring = [buf |-> [i \in 0..(RingSize - 1) |-> 0], next |-> 0, full |-> FALSE, tail |-> 0]
    /\ run = [at |-> "parsing", finalOut |-> 0, tail |-> <<>>]
    /\ stored = [pct |-> 0, failed |-> FALSE, hasty |-> FALSE]
    /\ ticks = 0

ProgressNext ==
    \/ WriteTime \/ WriteBlock \/ WriteText \/ WriteNewline \/ Exits
    \/ ParseLine \/ ParseEnds \/ CopyStderr \/ WaitEnds \/ Flush
    \/ TimePasses

ProgressSpec == ProgressInit /\ [][ProgressNext]_progressVars

-----------------------------------------------------------------------------

Times == 0..MaxBlocks

ProgressTypeOK ==
    /\ ffmpeg \in [up : BOOLEAN, time : Times, said : Times, blocks : 0..MaxBlocks,
                   inBlock : BOOLEAN, lines : 0..MaxLines, inLine : BOOLEAN]
    /\ parser \in [current : Times, last : Times]
    /\ throttle \in [latest : Times, pending : BOOLEAN, last : (0..MaxTicks) \union {Never}]
    /\ run.at \in {"parsing", "waiting", "flush", "over"} /\ run.finalOut \in Times
    /\ stored \in [pct : 0..100, failed : BOOLEAN, hasty : BOOLEAN]
    /\ ticks \in 0..MaxTicks

\* The last lines of those written, and the one that was not finished.
LastLines ==
    LET first == IF ffmpeg.lines > RingSize THEN ffmpeg.lines - RingSize ELSE 0
        last == ffmpeg.lines + (IF ffmpeg.inLine THEN 1 ELSE 0)
    IN  [k \in 1..(last - first) |-> first + k]

\* When a run is over, however ffmpeg ended, its result has the time of the last
\* whole report, by which an old container's length is verified, and the last lines
\* of stderr in their order; the row shows the last report unless the store failed;
\* and the row was not written more often than every FlushInterval but at the end.
NothingIsLost ==
    /\ run.at = "over" =>
          /\ run.finalOut = ffmpeg.said
          /\ run.tail = LastLines
          /\ ffmpeg.blocks > 0 /\ ~stored.failed => stored.pct = Percent(ffmpeg.said)
    /\ ~stored.hasty
=============================================================================

----------------------------- MODULE FlightRec -----------------------------
(***************************************************************************)
(* The flight recorder of kernel/trace/flightrec.c: a ring of the last     *)
(* TraceBufSize events, and a table of spans in which a begin is paired    *)
(* with its end.  The job scheduler brackets every step with a span and    *)
(* then reads the step's duration back out of the ring.                    *)
(*                                                                         *)
(* An event keeps its type, its job and step (one Tag) and its extra word; *)
(* sealing clears a signature field and is left out.  Every user of a span *)
(* is a caller, which works on one tag.  The recorder runs in one context. *)
(***************************************************************************)
EXTENDS Integers, Sequences, FiniteSets

CONSTANTS TraceBufSize,    \* TRACE_BUF_SIZE, a power of two
          MaxSpans,        \* MAX_ACTIVE_SPANS
          Callers,         \* users of spans; a caller is its own tag
          MaxHead,         \* bound on the number of events
          MaxNow           \* bound on the clock

ASSUME FlightRecAssumption ==
  /\ TraceBufSize \in Nat \ {0} /\ MaxSpans \in Nat
  /\ MaxHead \in Nat /\ MaxNow \in Nat

VARIABLES buf,       \* the ring
          head,      \* events logged since flightrec_init
          spans,     \* the span table
          handle,    \* what flightrec_begin_span gave a caller: 0 is invalid
          now,       \* the cycle counter, in microseconds
          began,     \* history: when each caller's last span began
          logged     \* history: every event that was logged

recVars == <<buf, head, spans, handle, now, began, logged>>

Slot == 1 .. MaxSpans
Outside == 0 - 1                       \* a caller outside a span
NoEvent == [type |-> "none", tag |-> "none", extra |-> 0]
Event(t, j, x) == [type |-> t, tag |-> j, extra |-> x]
Inactive == [active |-> FALSE, tag |-> "none", start |-> 0]

\* flightrec_log: fill the entry at head, then advance head.
Record(e) ==
  /\ head < MaxHead
  /\ buf' = [buf EXCEPT ![head % TraceBufSize] = e]
  /\ head' = head + 1
  /\ logged' = Append(logged, e)

\* flightrec_init, which logs the boot event.
RecInit ==
  LET boot == Event("BOOT", "none", 0) IN
  /\ buf = [i \in 0 .. (TraceBufSize - 1) |-> IF i = 0 THEN boot ELSE NoEvent]
  /\ head = 1
  /\ spans = [s \in Slot |-> Inactive]
  /\ handle = [c \in Callers |-> Outside]
  /\ now = 0
  /\ began = [c \in Callers |-> 0]
  /\ logged = <<boot>>

-----------------------------------------------------------------------------
\* flightrec_begin_span: the first free slot, or a violation event and the
\* invalid handle when there is none.
FreeSlots == {s \in Slot : ~spans[s].active}

BeginSpan(c) ==
  /\ handle[c] = Outside
  /\ IF FreeSlots = {}
     THEN /\ Record(Event("VIOLATION", c, 0))
          /\ handle' = [handle EXCEPT ![c] = 0]
          /\ UNCHANGED spans
     ELSE LET s == CHOOSE x \in FreeSlots : \A y \in FreeSlots : x <= y IN
          /\ spans' = [spans EXCEPT ![s] = [active |-> TRUE, tag |-> c, start |-> now]]
          /\ Record(Event("STEP_START", c, 0))
          /\ handle' = [handle EXCEPT ![c] = s]
  /\ began' = [began EXCEPT ![c] = now]
  /\ UNCHANGED now

\* flightrec_end_span: nothing for a handle that names no active slot.
EndsSpan(h) == h \in Slot /\ spans[h].active
EndSpan(c) ==
  LET h == handle[c] IN
  /\ h # Outside
  /\ IF EndsSpan(h)
     THEN /\ Record(Event("STEP_END", spans[h].tag, now - spans[h].start))
          /\ spans' = [spans EXCEPT ![h].active = FALSE]
     ELSE UNCHANGED <<buf, head, logged, spans>>
  /\ handle' = [handle EXCEPT ![c] = Outside]
  /\ UNCHANGED <<now, began>>

\* Any other component logs an event about a job.
LogOther(c) ==
  /\ Record(Event("BUDGET_EXCEED", c, 0))
  /\ UNCHANGED <<spans, handle, now, began>>

Passes ==
  /\ now < MaxNow
  /\ now' = now + 1
  /\ UNCHANGED <<buf, head, spans, handle, began, logged>>

RecNext ==
  \/ \E c \in Callers : BeginSpan(c) \/ EndSpan(c) \/ LogOther(c)
  \/ Passes

RecSpec == RecInit /\ [][RecNext]_recVars

-----------------------------------------------------------------------------
(* The readers of the ring                                                 *)

Kept == IF head > TraceBufSize THEN TraceBufSize ELSE head

\* Mutant: the readers start at the first entry of the array.
Oldest_First == 0

Oldest == IF head > TraceBufSize THEN head - TraceBufSize ELSE 0

\* flightrec_seal_hash and flightrec_dump_console: what they walk over.
Chronicle == [i \in 1 .. Kept |-> buf[(Oldest + i - 1) % TraceBufSize]]

\* Mutant: the scan finds the oldest matching entry.
LastDuration_Oldest(c) ==
  LET at == {i \in 1 .. Kept : Chronicle[i].type = "STEP_END" /\ Chronicle[i].tag = c}
  IN IF at = {} THEN 0 ELSE Chronicle[CHOOSE i \in at : \A k \in at : i <= k].extra

\* flightrec_last_duration: the newest matching STEP_END, scanning backwards;
\* 0 when the ring has none.
LastDuration(c) ==
  LET at == {i \in 0 .. (Kept - 1) :
               LET e == buf[(head - 1 - i) % TraceBufSize]
               IN e.type = "STEP_END" /\ e.tag = c}
  IN IF at = {} THEN 0
     ELSE buf[(head - 1 - (CHOOSE i \in at : \A k \in at : i <= k)) % TraceBufSize].extra

\* flightrec_get_job_stats: steps, their total time and the violations.
JobStats(c) ==
  LET mine == {i \in 0 .. (Kept - 1) : buf[(Oldest + i) % TraceBufSize].tag = c}
      ends == {i \in mine : buf[(Oldest + i) % TraceBufSize].type = "STEP_END"}
      sum[i \in 0 .. Kept] == IF i = 0 THEN 0 ELSE sum[i-1] +
        IF i - 1 \in ends THEN buf[(Oldest + i - 1) % TraceBufSize].extra ELSE 0
  IN [steps |-> Cardinality(ends), cpu |-> sum[Kept],
      violations |-> Cardinality({i \in mine : buf[(Oldest + i) % TraceBufSize].type
                                     \in {"VIOLATION", "BUDGET_EXCEED"}})]

-----------------------------------------------------------------------------
(* What the recorder promises                                              *)

Recent == SubSeq(logged, Len(logged) - Kept + 1, Len(logged))
Mine(c, types) ==
  {i \in 1 .. Len(Recent) : Recent[i].tag = c /\ Recent[i].type \in types}

\* After any number of laps the ring, read from the oldest entry, is exactly
\* the last TraceBufSize events in the order they were logged; this is what
\* the seal hash of an episode record covers.
RingIsRecent == Chronicle = Recent

\* The duration the scheduler charges for a step is that of its own span: a
\* caller that ends a valid span finds now - began as its last duration, also
\* when spans of other callers began and ended meanwhile.
DurationIsOwn == [][\A c \in Callers :
  handle[c] \in Slot /\ handle'[c] = Outside => LastDuration(c)' = now - began[c]]_recVars

\* A job's statistics count exactly its events among the recent ones.
StatsMatch == \A c \in Callers :
  /\ JobStats(c).steps = Cardinality(Mine(c, {"STEP_END"}))
  /\ JobStats(c).violations = Cardinality(Mine(c, {"VIOLATION", "BUDGET_EXCEED"}))

\* The recorder is true to what was logged, entry by entry and in its sums.
RecorderTrue == RingIsRecent /\ StatsMatch

=============================================================================

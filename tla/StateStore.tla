------------------------------- MODULE StateStore ------------------------------
(***************************************************************************)
(* ExecutionStateStore (core/execution_state_store.py): one JSON line per   *)
(* event, appended to a file and read back from its end in chunks.  A       *)
(* process that dies in append leaves a part of a line; the next append     *)
(* goes on from there.  A record is two bytes, its head and its body, and   *)
(* an end of line; append writes them in order and can stop after any.  The *)
(* dashboard that reads is a process of its own: events are appended while  *)
(* it reads.                                                                *)
(***************************************************************************)
EXTENDS Naturals, Sequences, SequencesExt, FiniteSets

CONSTANTS
  ChunkSize,   \* chunk_size, in bytes
  MaxEvents,   \* bound on the appends
  MaxCrashes   \* bound on the crashes

StoreAssumption ==
  /\ ChunkSize \in Nat \ {0}
  /\ MaxEvents \in Nat /\ MaxCrashes \in Nat

VARIABLES
  file,     \* the bytes of the file
  writing,  \* the bytes append has still to write
  events,   \* appends started; the number is the event's identity
  done,     \* the events whose append returned
  crashes,
  reads,    \* list_recent: "idle", "loop", or "read" when it has returned
  limit,    \* n
  size,     \* file_size
  known,    \* the events that were done when the file was opened
  pos, carry, lines  \* pos, carry, raw_lines

storeVars == <<file, writing, events, done, crashes>>
readVars  == <<reads, limit, size, known, pos, carry, lines>>
vars      == <<storeVars, readVars>>

Eol     == [event |-> 0, part |-> "eol"]
Line(e) == <<[event |-> e, part |-> "head"], [event |-> e, part |-> "body"]>>

\* (A fault: the line is written without its end.)
BytesUnended(e) == Line(e)
Bytes(e)        == Append(Line(e), Eol)

Init ==
  /\ file = <<>> /\ writing = <<>>
  /\ events = 0 /\ done = {}
  /\ crashes = 0
  /\ reads = "idle" /\ limit = 1 /\ size = 0 /\ known = {}
  /\ pos = 0 /\ carry = <<>> /\ lines = <<>>

BeginAppend ==
  /\ writing = <<>>
  /\ events < MaxEvents
  /\ events' = events + 1
  /\ writing' = Bytes(events + 1)
  /\ UNCHANGED <<file, done, crashes, readVars>>

WriteByte ==
  /\ writing # <<>>
  /\ file' = Append(file, Head(writing))
  /\ writing' = Tail(writing)
  /\ done' = IF Len(writing) = 1 THEN done \cup {events} ELSE done
  /\ UNCHANGED <<events, crashes, readVars>>

\* The process dies in append and is started again.
Crash ==
  /\ writing # <<>>
  /\ crashes < MaxCrashes
  /\ crashes' = crashes + 1
  /\ writing' = <<>>
  /\ UNCHANGED <<file, events, done, readVars>>

---------------------------------------------------------------------------
(* list_recent: the file from its end, chunk by chunk. *)

\* bytes.split(b"\n"): the pieces between the ends of lines, the first and the
\* last of them included.
Split(pieces, b) ==
  IF b = Eol THEN Append(pieces, <<>>)
  ELSE [pieces EXCEPT ![Len(pieces)] = Append(@, b)]

Pieces(bytes) ==
  LET split[k \in 0..Len(bytes)] ==
        IF k = 0 THEN <<<<>>>> ELSE Split(split[k - 1], bytes[k])
  IN split[Len(bytes)]

NonEmpty(pieces) ==
  LET kept[k \in 0..Len(pieces)] ==
        IF k = 0 THEN <<>>
        ELSE IF pieces[k] = <<>> THEN kept[k - 1] ELSE Append(kept[k - 1], pieces[k])
  IN kept[Len(pieces)]

LastOf(s, n) == IF Len(s) <= n THEN s ELSE SubSeq(s, Len(s) - n + 1, Len(s))

OpenRead ==
  /\ reads # "loop" /\ reads' = "loop"
  /\ limit' \in 1..(MaxEvents + 1)
  /\ size' = Len(file) /\ known' = done
  /\ pos' = Len(file) /\ carry' = <<>> /\ lines' = <<>>
  /\ UNCHANGED storeVars

\* The loop runs while bytes and room for lines are left.
Unread == pos > 0 /\ Len(lines) < limit

\* One iteration: the chunk before pos, joined with the carried piece, gives complete
\* lines, and a new piece to carry.  (The fault: what was carried is dropped.)
CarryDropped(chunk) == chunk
Carried(chunk)      == chunk \o carry

ReadChunk ==
  /\ reads = "loop" /\ Unread
  /\ pos' = IF pos > ChunkSize THEN pos - ChunkSize ELSE 0
  /\ LET pieces == Pieces(Carried(SubSeq(file, pos' + 1, pos)))
     IN /\ carry' = Head(pieces)
        /\ lines' = LastOf(NonEmpty(Tail(pieces)), limit - Len(lines)) \o lines
  /\ UNCHANGED <<storeVars, reads, limit, size, known>>

\* What is carried at the end is the file's first line.
EndRead ==
  /\ reads = "loop" /\ ~Unread /\ reads' = "read"
  /\ lines' = IF carry # <<>> /\ Len(lines) < limit THEN <<carry>> \o lines ELSE lines
  /\ UNCHANGED <<storeVars, limit, size, known, pos, carry>>

\* The records of the lines: a line that is not one whole record is skipped
\* (json.JSONDecodeError).
ListRecent == {e \in 1..MaxEvents : Line(e) \in ToSet(lines)}

Next == BeginAppend \/ WriteByte \/ Crash \/ OpenRead \/ ReadChunk \/ EndRead

Spec == Init /\ [][Next]_vars

---------------------------------------------------------------------------
Byte == [event : Nat, part : {"head", "body", "eol"}]

\* The file has what the reader counts on, and what is being written is the rest of the
\* last event.
TypeOK ==
  /\ file \in Seq(Byte) /\ events \in 0..MaxEvents /\ done \subseteq 1..events
  /\ \E k \in 0..Len(Bytes(events)) : writing = SubSeq(Bytes(events), k + 1, Len(Bytes(events)))
  /\ crashes \in 0..MaxCrashes
  /\ reads \in {"idle", "loop", "read"} /\ limit \in Nat \ {0}
  /\ pos <= size /\ pos \in Nat /\ size \in 0..Len(file)
  /\ known \subseteq done
  /\ carry \in Seq(Byte) /\ lines \in Seq(Seq(Byte)) /\ Len(lines) <= limit

Opened == SubSeq(file, 1, size)

\* Reading backwards in chunks gives the last lines of the file as it was when it was
\* opened, wherever the chunks cut it, whatever a crash left in it and whatever is
\* appended meanwhile.
TailIsWholeRead ==
  reads = "read" => lines = LastOf(NonEmpty(Pieces(Opened)), limit)

\* A crash costs at most one event whose append returned: a read that its limit does
\* not cut short has all the others.
LossBoundedByCrashes ==
  reads = "read" /\ Len(lines) < limit => Cardinality(known \ ListRecent) <= crashes
================================================================================

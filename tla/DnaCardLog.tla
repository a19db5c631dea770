------------------------------- MODULE DnaCardLog -------------------------------
(***************************************************************************)
(* DNALoggingSystem (logging/dna_card_logger.py), one object that several   *)
(* threads log their C1/C2 cycles with.  Its lock covers the counters and   *)
(* the appends.  log_c2_card also rewrites the card file and the block      *)
(* file, without it: read all, open for writing, which empties the file,    *)
(* and write what was read at its beginning when the file is closed, over   *)
(* whatever the others have put there.                                      *)
(***************************************************************************)
EXTENDS Naturals, Sequences, SequencesExt, FiniteSetsExt

CONSTANTS
  Thread,     \* the threads that log
  CardBlock,  \* the block numbers
  MaxCards    \* bound on the cycles numbered

LogAssumption == IsFiniteSet(Thread) /\ MaxCards \in Nat

VARIABLES
  counter,     \* _global_cycle_number
  cardFile, pairFile, blockFile,  \* the lines of the three files
  doing,       \* the step of each thread's call
  card,        \* its cycle: opportunity and block
  buffer,      \* the lines it is to write back
  overlapped   \* two calls have been under way at once

vars == <<counter, cardFile, pairFile, blockFile, doing, card, buffer, overlapped>>

\* What is left of a line whose beginning was overwritten.
Torn   == [torn |-> TRUE]
NoCard == [opp |-> 0, block |-> 0]

Init ==
  /\ counter = 0
  /\ cardFile = <<>> /\ pairFile = <<>> /\ blockFile = <<>>
  /\ doing = [t \in Thread |-> "idle"]
  /\ card = [t \in Thread |-> NoCard]
  /\ buffer = [t \in Thread |-> <<>>]
  /\ overlapped = FALSE

Goto(t, step) == doing' = [doing EXCEPT ![t] = step]

\* log_c1_card: the numbers, each under the lock, then the line.
LogC1(t) ==
  /\ doing[t] = "idle" /\ counter < MaxCards
  /\ Goto(t, "c1")
  /\ counter' = counter + 1
  /\ \E b \in CardBlock : card' = [card EXCEPT ![t] = [opp |-> counter', block |-> b]]
  /\ overlapped' = (overlapped \/ \E u \in Thread : doing[u] # "idle")
  /\ UNCHANGED <<cardFile, pairFile, blockFile, buffer>>

Line(role, t) == [torn |-> FALSE, role |-> role, opp |-> card[t].opp]

AppendCard(t) ==
  /\ \/ doing[t] = "c1" /\ Goto(t, "c2") /\ cardFile' = Append(cardFile, Line("C1", t))
     \/ doing[t] = "c2" /\ Goto(t, "read") /\ cardFile' = Append(cardFile, Line("C2", t))
  /\ UNCHANGED <<counter, pairFile, blockFile, card, buffer, overlapped>>

\* A line that json cannot parse raises, and the call ends there.
Raises(t, file) ==
  /\ Torn \in ToSet(file)
  /\ Goto(t, "idle") /\ card' = [card EXCEPT ![t] = NoCard]
  /\ UNCHANGED <<counter, cardFile, pairFile, blockFile, buffer, overlapped>>

\* _update_c1_profit: without the card nothing is written.
ReadCards(t) ==
  /\ doing[t] = "read"
  /\ \/ Raises(t, cardFile)
     \/ /\ Torn \notin ToSet(cardFile)
        /\ Goto(t, IF Line("C1", t) \in ToSet(cardFile) THEN "truncate" ELSE "pair")
        /\ buffer' = [buffer EXCEPT ![t] = cardFile]
        /\ UNCHANGED <<counter, cardFile, pairFile, blockFile, card, overlapped>>

TruncateCards(t) ==
  /\ doing[t] = "truncate" /\ Goto(t, "write")
  /\ cardFile' = <<>>
  /\ UNCHANGED <<counter, pairFile, blockFile, card, buffer, overlapped>>

\* The files that writing `lines` at the beginning of `file` may leave: the lines
\* are about as long as each other, so that the end of the last one written falls
\* on the end of a line of the file or inside one.
Overwritten(lines, file) ==
  LET n == Len(lines)
      Behind(k) == SubSeq(file, k + 1, Len(file))
      tails == {Behind(n)} \cup {<<Torn>> \o Behind(k) : k \in (n .. n + 1) \cap (0..Len(file))}
  IN {lines \o tail : tail \in tails}

WriteCards(t) ==
  /\ doing[t] = "write" /\ Goto(t, "pair")
  /\ cardFile' \in Overwritten(buffer[t], cardFile)
  /\ buffer' = [buffer EXCEPT ![t] = <<>>]
  /\ UNCHANGED <<counter, pairFile, blockFile, card, overlapped>>

LogCyclePair(t) ==
  /\ doing[t] = "pair" /\ Goto(t, "readBlocks")
  /\ pairFile' = Append(pairFile, card[t])
  /\ UNCHANGED <<counter, cardFile, blockFile, card, buffer, overlapped>>

\* _update_block_cycle: the last record of the block is the one that counts, and
\* it goes to the end.
Record(b, n) == [torn |-> FALSE, block |-> b, total |-> n]
Of(b, file) == {n \in DOMAIN file : file[n].block = b}
TotalIn(b, file) == IF Of(b, file) = {} THEN 0 ELSE file[Max(Of(b, file))].total

\* The records of the other blocks, in their order.
Others(b, file) ==
  LET kept[n \in 0..Len(file)] ==
        IF n = 0 THEN <<>>
        ELSE IF file[n].block = b THEN kept[n - 1] ELSE Append(kept[n - 1], file[n])
  IN kept[Len(file)]

\* (A fault: the other blocks' cycles are counted as well.)
CountedAll(b, file) == Append(Others(b, file), Record(b, Len(file) + TotalIn(b, file) + 1))
Counted(b, file)    == Append(Others(b, file), Record(b, TotalIn(b, file) + 1))

ReadBlocks(t) ==
  /\ doing[t] = "readBlocks"
  /\ \/ Raises(t, blockFile)
     \/ /\ Torn \notin ToSet(blockFile)
        /\ Goto(t, "truncateBlocks")
        /\ buffer' = [buffer EXCEPT ![t] = Counted(card[t].block, blockFile)]
        /\ UNCHANGED <<counter, cardFile, pairFile, blockFile, card, overlapped>>

TruncateBlocks(t) ==
  /\ doing[t] = "truncateBlocks" /\ Goto(t, "writeBlocks")
  /\ blockFile' = <<>>
  /\ UNCHANGED <<counter, cardFile, pairFile, card, buffer, overlapped>>

WriteBlocks(t) ==
  /\ doing[t] = "writeBlocks" /\ Goto(t, "idle")
  /\ blockFile' \in Overwritten(buffer[t], blockFile)
  /\ buffer' = [buffer EXCEPT ![t] = <<>>] /\ card' = [card EXCEPT ![t] = NoCard]
  /\ UNCHANGED <<counter, cardFile, pairFile, overlapped>>

Next ==
  \E t \in Thread :
    \/ LogC1(t) \/ AppendCard(t)
    \/ ReadCards(t) \/ TruncateCards(t) \/ WriteCards(t)
    \/ LogCyclePair(t)
    \/ ReadBlocks(t) \/ TruncateBlocks(t) \/ WriteBlocks(t)

Spec == Init /\ [][Next]_vars

---------------------------------------------------------------------------
CardLine  == {Torn} \cup [torn : {FALSE}, role : {"C1", "C2"}, opp : Nat]
BlockLine == {Torn} \cup [torn : {FALSE}, block : CardBlock, total : Nat]
Cycle     == [opp : Nat, block : CardBlock]

\* Whatever is torn in a file, what a thread is about to write back are whole lines.
TypeOK ==
  /\ counter \in Nat /\ overlapped \in BOOLEAN
  /\ cardFile \in Seq(CardLine) /\ pairFile \in Seq(Cycle) /\ blockFile \in Seq(BlockLine)
  /\ doing \in [Thread -> {"idle", "c1", "c2", "read", "truncate", "write", "pair",
                           "readBlocks", "truncateBlocks", "writeBlocks"}]
  /\ DOMAIN card = Thread /\ DOMAIN buffer = Thread
  /\ \A t \in Thread :
       /\ doing[t] # "idle" => card[t] \in Cycle
       /\ doing[t] \in {"truncate", "write"} => buffer[t] \in Seq(CardLine \ {Torn})
       /\ doing[t] \in {"truncateBlocks", "writeBlocks"} => buffer[t] \in Seq(BlockLine \ {Torn})

Quiet == \A t \in Thread : doing[t] = "idle"
PairsOf(b) == Quantify(DOMAIN pairFile, LAMBDA n : pairFile[n].block = b)

\* A block is never credited with more cycles than it has pairs, whatever the
\* threads lose of each other's rewrites, and a logger used by one thread at a time
\* has them all.
BlockTotals ==
  /\ \A r \in ToSet(blockFile) \ {Torn} : r.total <= PairsOf(r.block)
  /\ Quiet /\ ~overlapped => \A b \in CardBlock : TotalIn(b, blockFile) = PairsOf(b)

\* What the class says, "thread-safe": when every call has returned, the cards of a
\* pair are in the card file.
CardsOfPairs ==
  Quiet => \A n \in DOMAIN pairFile, role \in {"C1", "C2"} :
    \E c \in ToSet(cardFile) \ {Torn} : c.role = role /\ c.opp = pairFile[n].opp
================================================================================

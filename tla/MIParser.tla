------------------------------ MODULE MIParser ------------------------------
(***************************************************************************)
(* The progressive parser of GDB/MI output, src/server/gdb/mi_parser.py:   *)
(* feed() buffers what arrives in pieces of any size, and as long as the   *)
(* buffer has a complete line cuts it off and parses it.  _parse_line is a *)
(* parameter here; MIGrammar says what it does.                            *)
(*                                                                         *)
(* The names of the specification have a prefix, so that the module can be *)
(* extended together with others.                                          *)
(***************************************************************************)
EXTENDS Naturals, Sequences, SequencesExt

CONSTANTS
    ParseLine(_),    \* _parse_line: the sequence of the record of a line, or of none
    ParseRaises(_),  \* whether _parse_line raises for a line
    Writings,  \* bound: what may be written, a set of sequences of lines, see MPInit
    MaxChunk   \* bound: how many tokens arrive at once

Newline == "\n"
CarriageReturn == "\r"

\* A line ends with its only newline and is a record or is none.
IsLine(line) ==
    /\ line.text \in Seq(STRING) /\ line.text # <<>>
    /\ \A i \in DOMAIN line.text : line.text[i] = Newline <=> i = Len(line.text)
    /\ line.records = <<>> \/ line.records = <<Head(line.records)>>

ASSUME ParserAssumption ==
    /\ MaxChunk \in Nat \ {0}
    /\ \A w \in Writings : w = [i \in 1..Len(w) |-> w[i]] /\ Len(w) \in Nat
    /\ \A w \in Writings : \A i \in DOMAIN w : IsLine(w[i])

VARIABLES
    written,   \* what was written: the lines, in order
    stream,    \* the text that the parser has not been fed yet
    buffer,    \* MIParser._buffer
    feeding,   \* whether a call of feed() is in its loop
    found,     \* records, the list of the call
    records,   \* the records that feed() has returned
    raised     \* whether a call of feed() raised

mpVars == <<written, stream, buffer, feeding, found, records, raised>>

\* The first n sequences of parts in a row, for each n.
Joined(parts) ==
    LET upto[n \in 0..Len(parts)] == IF n = 0 THEN <<>> ELSE upto[n - 1] \o parts[n]
    IN  upto

\* The text of the first n lines, for each n.
Text == Joined([i \in DOMAIN written |-> written[i].text])

-----------------------------------------------------------------------------
(* feed() *)

\* rstrip("\r")
Stripped(s) ==
    LET n == CHOOSE n \in 0..Len(s) :
                 /\ n = 0 \/ s[n] # CarriageReturn
                 /\ \A i \in (n + 1)..Len(s) : s[i] = CarriageReturn
    IN  SubSeq(s, 1, n)

\* Where the first line in the buffer ends, and the line.
LineEnd ==
    CHOOSE i \in DOMAIN buffer :
        buffer[i] = Newline /\ \A j \in 1..(i - 1) : buffer[j] # Newline

FirstLine == Stripped(SubSeq(buffer, 1, LineEnd - 1))

HasLine == Newline \in ToSet(buffer)

\* A line has the text that GDB or the target writes, with its newline, and the
\* records that it is by the MI grammar.
MPInit ==
    /\ written \in Writings
    /\ stream = Text[Len(written)]
    /\ buffer = <<>>
    /\ feeding = FALSE
    /\ found = <<>>
    /\ records = <<>>
    /\ raised = FALSE

\* The next n tokens arrive, and feed() is called with them.
Feed(n) ==
    /\ ~feeding /\ ~raised
    /\ n <= Len(stream)
    /\ buffer' = buffer \o SubSeq(stream, 1, n)
    /\ stream' = SubSeq(stream, n + 1, Len(stream))
    /\ feeding' = TRUE
    /\ found' = <<>>
    /\ UNCHANGED <<written, records, raised>>

\* An empty line is skipped.
RecordsIn(line) == IF line = <<>> THEN <<>> ELSE ParseLine(line)

\* The loop cuts off a line and appends its record.
ParsesLine ==
    /\ feeding /\ HasLine
    /\ ~ParseRaises(FirstLine)
    /\ buffer' = SubSeq(buffer, LineEnd + 1, Len(buffer))
    /\ found' = found \o RecordsIn(FirstLine)
    /\ UNCHANGED <<written, stream, feeding, records, raised>>

\* The exception leaves feed(); the line is gone, and what the call had found.
LineRaises ==
    /\ feeding /\ HasLine
    /\ ParseRaises(FirstLine)
    /\ buffer' = SubSeq(buffer, LineEnd + 1, Len(buffer))
    /\ raised' = TRUE
    /\ feeding' = FALSE
    /\ found' = <<>>
    /\ UNCHANGED <<written, stream, records>>

\* Mutant: feed() looks for one complete line and returns.
FeedReturnsEarly ==
    /\ feeding /\ (found # <<>> \/ ~HasLine)
    /\ feeding' = FALSE
    /\ records' = records \o found
    /\ found' = <<>>
    /\ UNCHANGED <<written, stream, buffer, raised>>

FeedReturns ==
    /\ feeding /\ ~HasLine
    /\ feeding' = FALSE
    /\ records' = records \o found
    /\ found' = <<>>
    /\ UNCHANGED <<written, stream, buffer, raised>>

\* The reader loop ends with the output of GDB or with an exception of feed().
Ended == ~feeding /\ (stream = <<>> \/ raised) /\ UNCHANGED mpVars

MPNext ==
    \/ \E n \in 1..MaxChunk : Feed(n)
    \/ ParsesLine \/ LineRaises \/ FeedReturns \/ Ended

MPSpec == MPInit /\ [][MPNext]_mpVars

-----------------------------------------------------------------------------

\* The records of the first n lines, for each n.
Expected == Joined([i \in DOMAIN written |-> written[i].records])

\* However the text is cut into pieces, feed() has returned exactly the
\* records of the lines that have ended, in order and with every value of
\* every nesting, and the buffer holds what has come of the next line: all
\* variables have the only value that they may have.
RecordsOfLines ==
    ~feeding /\ ~raised =>
        \E n \in 0..Len(written) :
            /\ records = Expected[n]
            /\ Text[n] \o (buffer \o stream) = Text[Len(written)]
            /\ ~HasLine

\* A line that is not a record never stops the parser: the source says of
\* such a line "Unrecognised line -- target stdout via semihosting or similar".
NeverRaises == ~raised

\* _parse_line returns for each line by itself the records that it is.
LinesParse ==
    \A w \in Writings : \A i \in DOMAIN w :
        LET line == Stripped(Front(w[i].text))
        IN  ParseRaises(line) \/ RecordsIn(line) = w[i].records

=============================================================================

------------------------------ MODULE Scanners ------------------------------
(***************************************************************************)
(* The scanners: they turn a byte stream that arrives in chunks into       *)
(* messages.  Where the chunks end is an accident of the transport, so the *)
(* messages must not depend on it.  Text is a sequence of one-letter       *)
(* strings over a small alphabet for each kind of scanner; "n", "r", "_"   *)
(* and "q" stand for newline, carriage return, blank and the double quote. *)
(***************************************************************************)
EXTENDS Naturals, Sequences, SequencesExt

CONSTANTS
    ScannerKinds,  \* the kinds that are looked at
    MaxText,       \* bound: length of the stream
    MaxBuffer,     \* lines, re_match: max_buffer_size
    ChunkSize,     \* chunker: size
    Unit,          \* the transport's chunks are multiples of this many symbols
    Header,        \* csv: parse_header_row
    Continue       \* csv: continue_on_error

Alphabet ==
    [lines |-> {"x", "r", "n"}, chunker |-> {"x", "y"}, to_the_end |-> {"x"},
     json_documents |-> {"[", "]", "1", ",", "_", "q"}, json_array |-> {"[", "]", "1", ",", "_", "q"},
     csv |-> {"x", "q", "n", "c"}, re_match |-> {"x", "m"}, skip_bom |-> {"F", "E", "0", "U"},
     decompress |-> {"x", "n", "!"}, tar |-> {"H", "L", "0", "1"}]

\* What a call of feed() or finish() does: the scanner's state afterwards, the
\* messages it returns, and whether it threw, which loses those of the call.
Returns(st, out) == [st |-> st, out |-> out, threw |-> FALSE]
Throws(st)       == [st |-> st, out |-> <<>>, threw |-> TRUE]

Fresh == [buf |-> <<>>, pending |-> FALSE, opened |-> FALSE, fields |-> 0]

Prefix(s, n) == SubSeq(s, 1, n)
After(s, n)  == SubSeq(s, n + 1, Len(s))
FirstIn(s, set, from) ==
    LET at == {i \in from .. Len(s) : s[i] \in set}
    IN  IF at = {} THEN 0 ELSE CHOOSE i \in at : \A j \in at : i <= j
-----------------------------------------------------------------------------
\* lines: every complete line, with the default delimiter's CRLF tolerated; both
\* a complete token and what is left at the end are measured.
RECURSIVE LinesFeed(_, _)
LinesFeed(buf, out) ==
    LET nl    == FirstIn(buf, {"n"}, 1)
        token == IF nl > 1 /\ buf[nl - 1] = "r" THEN Prefix(buf, nl - 2) ELSE Prefix(buf, nl - 1)
        st    == [Fresh EXCEPT !.buf = buf]
    IN  CASE nl = 0 /\ Len(buf) < MaxBuffer           -> Returns(st, out)
          [] nl > 0 /\ Len(token) < MaxBuffer         -> LinesFeed(After(buf, nl), Append(out, token))
          [] OTHER                                    -> Throws(st)

\* The rest, if any, is a message: of lines, chunker and to_the_end, which always
\* has one.
Rest(k, st) ==
    Returns([st EXCEPT !.buf = <<>>], IF st.buf # <<>> \/ k = "to_the_end" THEN <<st.buf>> ELSE <<>>)

ChunkerFeed(buf) ==
    LET n == Len(buf) \div ChunkSize
    IN  Returns([Fresh EXCEPT !.buf = After(buf, n * ChunkSize)],
                [i \in 1 .. n |-> SubSeq(buf, (i - 1) * ChunkSize + 1, i * ChunkSize)])
-----------------------------------------------------------------------------
Trim(s) == LET ink == {i \in DOMAIN s : s[i] # "_"}
           IN  IF ink = {} THEN <<>>
               ELSE SubSeq(s, CHOOSE i \in ink : \A j \in ink : i <= j,
                              CHOOSE i \in ink : \A j \in ink : i >= j)

\* External: whether parse_json takes the text; arrays stand for objects too.
RECURSIVE ValidJson(_)
ValidJson(s) ==
    LET t == Trim(s) IN
    /\ t # <<>>
    /\ \/ \A i \in DOMAIN t : t[i] = "1"
       \/ Len(t) > 1 /\ t[1] = "q" /\ FirstIn(t, {"q"}, 2) = Len(t)
       \/ /\ Len(t) > 1 /\ t[1] = "[" /\ Last(t) = "]"
          /\ LET in == SubSeq(t, 2, Len(t) - 1) IN
             \/ Trim(in) = <<>> \/ ValidJson(in)
             \/ \E i \in DOMAIN in : in[i] = "," /\ ValidJson(Prefix(in, i - 1))
                                     /\ ValidJson(<<"[">> \o After(in, i) \o <<"]">>)
                                     /\ Trim(After(in, i)) # <<>>

\* end_of_json_value from position j: depth and strings decide where the value
\* that starts at i ends; 0 when it is not complete.
RECURSIVE JsonEnd(_, _, _, _, _)
JsonEnd(s, i, j, depth, str) ==
    IF j > Len(s) THEN 0
    ELSE IF str THEN JsonEnd(s, i, j + 1, depth, s[j] # "q")
    ELSE IF s[j] = "q" THEN JsonEnd(s, i, j + 1, depth, TRUE)
    ELSE IF depth = 0 /\ j > i /\ s[j] \in {",", "]", "_"} THEN j
    ELSE IF s[j] = "[" THEN JsonEnd(s, i, j + 1, depth + 1, FALSE)
    ELSE IF s[j] = "]" THEN CASE depth = 0 -> 0
                              [] depth = 1 -> j + 1
                              [] OTHER     -> JsonEnd(s, i, j + 1, depth - 1, FALSE)
    ELSE JsonEnd(s, i, j + 1, depth, FALSE)

EndOfJsonValue(s, i) ==
    LET from == CHOOSE p \in i .. Len(s) + 1 : /\ p = Len(s) + 1 \/ s[p] # "_"
                                               /\ \A q \in i .. p - 1 : s[q] = "_"
    IN  IF from > Len(s) THEN 0 ELSE JsonEnd(s, from, from, 0, FALSE)

Ink(s) == SelectSeq(s, LAMBDA c : c # "_")

\* At the end of the stream a held failure is raised, unless messages go first.
Held(st, out, end) ==
    IF end /\ st.pending /\ out = <<>> THEN Throws([st EXCEPT !.pending = FALSE])
    ELSE Returns(st, out)

\* json_documents: values one after another.  A value that is not valid is
\* reported by the next call, after the ones before it were handed over.
RECURSIVE Documents(_, _, _)
Documents(buf, out, end) ==
    LET at    == EndOfJsonValue(buf, 1)
        blank == Trim(buf) = <<>>
        cut   == Trim(buf)[1] \in {"[", "q"}
        stop  == IF at > 0 THEN at ELSE Len(buf) + 1
        span  == Trim(Prefix(buf, stop - 1))
        here  == [Fresh EXCEPT !.buf = buf]
        fails == Held([here EXCEPT !.pending = TRUE], out, end)
    IN  CASE at = 0 /\ (blank \/ ~end)         -> Returns(here, out)
          [] at = 0 /\ ~blank /\ end /\ cut    -> fails
          [] OTHER -> IF ValidJson(span) THEN Documents(After(buf, stop - 1), Append(out, Ink(span)), end)
                      ELSE fails

\* json_array: the elements of arrays one after another.
RECURSIVE Elements(_, _, _, _)
Elements(buf, opened, out, end) ==
    LET t     == IF Trim(buf) = <<>> THEN <<>> ELSE After(buf, FirstIn(buf, Alphabet.json_array \ {"_"}, 1) - 1)
        at    == EndOfJsonValue(t, 1)
        stop  == IF at > 0 THEN at ELSE Len(t) + 1
        span  == Trim(Prefix(t, stop - 1))
        here  == [Fresh EXCEPT !.buf = t, !.opened = opened]
        fails == Held([here EXCEPT !.pending = TRUE], out, end)
    IN  IF t = <<>> THEN Returns(here, out)
        ELSE IF ~opened THEN IF t[1] = "[" THEN Elements(Tail(t), TRUE, out, end) ELSE fails
        ELSE IF t[1] = "," THEN Elements(Tail(t), TRUE, out, end)
        ELSE IF t[1] = "]" THEN Elements(Tail(t), FALSE, out, end)
        ELSE IF at = 0 /\ ~end THEN Returns(here, out)
        ELSE IF at = 0 /\ t[1] \in {"[", "q"} THEN fails
        ELSE IF ValidJson(span) THEN Elements(After(t, stop - 1), TRUE, Append(out, Ink(span)), end)
        ELSE fails

\* A slip: a failure is thrown with the elements before it in hand.
ThrowAtOnce(k, st, end) ==
    LET r == IF k = "json_documents" THEN Documents(st.buf, <<>>, end) ELSE Elements(st.buf, st.opened, <<>>, end)
    IN  IF r.st.pending THEN Throws(r.st) ELSE r

JsonDrain(k, st, end) ==
    IF st.pending THEN Throws([st EXCEPT !.pending = FALSE])
    ELSE IF k = "json_documents" THEN Documents(st.buf, <<>>, end)
    ELSE LET r == Elements(st.buf, st.opened, <<>>, end)
         IN  IF end /\ r.st.opened /\ r.out = <<>> THEN Throws(r.st) ELSE r
-----------------------------------------------------------------------------
\* read_csv_record from position i: [next, fields, bad], next 0 when the record may
\* still grow.
RECURSIVE CsvRecord(_, _, _, _, _, _, _)
CsvRecord(s, i, fields, field, quoted, started, end) ==
    LET row == Append(fields, field) IN
    IF i > Len(s) THEN
        IF ~end THEN [next |-> 0, row |-> <<>>, bad |-> FALSE]
        ELSE [next |-> i, row |-> row, bad |-> quoted]
    ELSE IF quoted THEN
        IF s[i] = "q" /\ i < Len(s) /\ s[i + 1] = "q"
        THEN CsvRecord(s, i + 2, fields, Append(field, "q"), TRUE, TRUE, end)
        ELSE CsvRecord(s, i + 1, fields, IF s[i] = "q" THEN field ELSE Append(field, s[i]), s[i] # "q", TRUE, end)
    ELSE IF s[i] = "q" THEN
        IF started THEN [next |-> i, row |-> <<>>, bad |-> TRUE]
        ELSE CsvRecord(s, i + 1, fields, field, TRUE, TRUE, end)
    ELSE IF s[i] = "c" THEN CsvRecord(s, i + 1, row, <<>>, FALSE, FALSE, end)
    ELSE IF s[i] = "n" THEN [next |-> i + 1, row |-> row, bad |-> FALSE]
    ELSE CsvRecord(s, i + 1, fields, Append(field, s[i]), FALSE, TRUE, end)

CsvError == <<"error">>

\* row_to_message: blank rows are none, the first row is the header, and the first
\* count of fields is everybody's.  A row with another count is a failure that is
\* held back, or under continue_on_error a message that carries the error.
CsvRow(st, row) ==
    LET first == st.fields = 0
        set   == [st EXCEPT !.fields = IF first THEN Len(row) ELSE @]
    IN  CASE row = <<<<>>>>                              -> Returns(st, <<>>)
          [] row # <<<<>>>> /\ first /\ Header           -> Returns(set, <<>>)
          [] row # <<<<>>>> /\ (first => ~Header) /\ Len(row) = set.fields -> Returns(set, <<row>>)
          [] OTHER -> IF Continue THEN Returns(set, <<row, CsvError>>)
                      ELSE Returns([set EXCEPT !.pending = TRUE], <<>>)

\* csv: a record that reaches the end of what is held may still grow.  A record
\* the reader refuses is thrown, or under continue_on_error stands for all the
\* rest of what is held.
RECURSIVE CsvDrain(_, _, _)
CsvDrain(st, out, end) ==
    LET buf  == st.buf
        r    == CsvRecord(buf, 1, <<>>, <<>>, FALSE, FALSE, end)
        next == IF r.bad THEN Len(buf) + 1 ELSE r.next
        row  == IF r.bad THEN Returns(st, <<CsvError>>) ELSE CsvRow(st, r.row)
    IN  IF buf = <<>> \/ st.pending THEN Returns(st, out)
        ELSE IF r.bad /\ ~Continue THEN Throws(st)
        ELSE IF next = 0 \/ (next > Len(buf) /\ ~end) THEN Returns(st, out)
        ELSE CsvDrain([row.st EXCEPT !.buf = After(buf, next - 1)], out \o row.out, end)

Csv(st, end) ==
    LET r == CsvDrain(st, <<>>, end)
    IN  IF st.pending \/ (end /\ r.st.pending) THEN Throws([r.st EXCEPT !.pending = FALSE]) ELSE r
-----------------------------------------------------------------------------
\* re_match with a pattern of one letter: a message runs from one match to the
\* next, and what comes before the first is a message too.
RECURSIVE ReMatch(_, _, _)
ReMatch(buf, out, end) ==
    LET one     == FirstIn(buf, {"m"}, 1)
        two     == IF one = 0 THEN 0 ELSE FirstIn(buf, {"m"}, one + 1)
        advance == IF one > 1 THEN one - 1 ELSE IF two > 0 THEN two - 1 ELSE Len(buf)
        here    == [Fresh EXCEPT !.buf = buf]
        final   == IF Len(buf) >= MaxBuffer THEN Throws(here) ELSE Returns(here, out)
    IN  IF buf = <<>> \/ (two = 0 /\ ~end) THEN final
        ELSE IF advance >= MaxBuffer THEN Throws(here)
        ELSE ReMatch(After(buf, advance), Append(out, Prefix(buf, advance)), end)

\* skip_bom into to_the_end: one mark is taken off the front, the longest that is
\* there, and nothing is decided while what is there could still become a mark.
\* The three bytes of the UTF-8 mark are one letter here.
Marks == <<<<"0", "0", "E", "F">>, <<"F", "E", "0", "0">>, <<"U", "U", "U">>, <<"E", "F">>, <<"F", "E">>>>

Undecided(head) ==
    Len(head) < 4 /\ \E i \in DOMAIN Marks : Len(head) < Len(Marks[i]) /\ IsPrefix(head, Marks[i])

StripOneMark(head) ==
    LET hits == {i \in DOMAIN Marks : IsPrefix(Marks[i], head)}
    IN  IF hits = {} THEN head ELSE After(head, Len(Marks[CHOOSE i \in hits : \A j \in hits : i <= j]))

SkipBom(st, end) ==
    LET head == IF st.opened THEN st.buf ELSE StripOneMark(st.buf) IN
    IF end THEN Returns(Fresh, <<head>>)
    ELSE IF ~st.opened /\ Undecided(st.buf) THEN Returns(st, <<>>)
    ELSE Returns([st EXCEPT !.buf = head, !.opened = TRUE], <<>>)

\* decompress into lines: nothing comes out before the end, and a stream with a
\* "!" does not decompress.
DecompressFinish(st) ==
    LET r == LinesFeed(st.buf, <<>>)
    IN  IF Contains(st.buf, "!") \/ r.threw THEN Throws(Fresh)
        ELSE Returns(Fresh, r.out \o Rest("lines", r.st).out)

\* tar, in blocks of two letters: a header block of a type and a size of zero or
\* one, then the data in whole blocks.  An L entry names the member after it, and
\* a zero block ends the archive.
RECURSIVE TarDrain(_, _)
TarDrain(st, out) ==
    LET buf == st.buf
        size == IF buf[2] = "1" THEN 1 ELSE 0
        rest == After(buf, IF 2 + 2 * size > Len(buf) THEN Len(buf) ELSE 2 + 2 * size)
    IN  IF Len(buf) < 2 THEN Returns(st, out)
        ELSE IF Prefix(buf, 2) = <<"0", "0">> THEN Returns([st EXCEPT !.buf = <<>>], out)
        ELSE IF buf[1] \notin {"H", "L"} \/ buf[2] \notin {"0", "1"} THEN Throws(st)
        ELSE IF Len(buf) < 2 + size THEN Returns(st, out)
        ELSE TarDrain([st EXCEPT !.buf = rest, !.opened = (buf[1] = "L")],
                      IF buf[1] = "L" THEN out
                      ELSE Append(out, <<IF st.opened THEN "long" ELSE "short">> \o SubSeq(buf, 3, 2 + size)))

TarFinish(st) ==
    LET r == TarDrain(st, <<>>)
    IN  IF ~r.threw /\ \E i \in DOMAIN r.st.buf : r.st.buf[i] # "0" THEN Throws(r.st) ELSE r
-----------------------------------------------------------------------------
Holding(st, chunk) == [st EXCEPT !.buf = @ \o chunk]

Feed(k, st, chunk) ==
    LET more == Holding(st, chunk) IN
    CASE k = "lines"          -> LinesFeed(more.buf, <<>>)
      [] k = "chunker"        -> ChunkerFeed(more.buf)
      [] k \in {"to_the_end", "decompress"} -> Returns(more, <<>>)
      [] k \in {"json_documents", "json_array"} -> JsonDrain(k, more, FALSE)
      [] k = "csv"            -> Csv(more, FALSE)
      [] k = "re_match"       -> ReMatch(more.buf, <<>>, FALSE)
      [] k = "skip_bom"       -> SkipBom(more, FALSE)
      [] k = "tar"            -> TarDrain(more, <<>>)

Finish(k, st) ==
    CASE k \in {"lines", "chunker", "to_the_end"} -> Rest(k, st)
      [] k \in {"json_documents", "json_array"} -> JsonDrain(k, st, TRUE)
      [] k = "csv"      -> Csv(st, TRUE)
      [] k = "re_match" -> ReMatch(st.buf, <<>>, TRUE)
      [] k = "skip_bom" -> SkipBom(st, TRUE)
      [] k = "decompress" -> DecompressFinish(st)
      [] k = "tar"      -> TarFinish(st)
-----------------------------------------------------------------------------
VARIABLES
    kind, text,
    fed,       \* how much of the text has been fed
    scanner,   \* the scanner's state
    out,       \* messages handed over
    phase      \* "feeding", "done", or "failed"

scanVars == <<kind, text, fed, scanner, out, phase>>

Init ==
    /\ kind \in ScannerKinds
    /\ text \in UNION {[1 .. n -> Alphabet[kind]] : n \in 0 .. MaxText}
    /\ fed = 0 /\ scanner = Fresh /\ out = <<>> /\ phase = "feeding"

Applied(r, after) ==
    /\ scanner' = r.st /\ out' = out \o r.out /\ phase' = IF r.threw THEN "failed" ELSE after
    /\ UNCHANGED <<kind, text>>

\* A chunk arrives; the last one may be short.
FeedChunk(n) ==
    /\ phase = "feeding" /\ fed + n <= Len(text) /\ fed' = fed + n
    /\ n % Unit = 0 \/ fed + n = Len(text)
    /\ Applied(Feed(kind, scanner, SubSeq(text, fed + 1, fed + n)), "feeding")

\* The stream ends.
FinishAll ==
    /\ phase = "feeding" /\ fed = Len(text) /\ UNCHANGED fed
    /\ Applied(Finish(kind, scanner), "done")

Next == FinishAll \/ \E n \in 1 .. MaxText : FeedChunk(n)

Spec == Init /\ [][Next]_scanVars
-----------------------------------------------------------------------------
\* What becomes of the text when it arrives in one piece.
Whole ==
    LET r == IF text = <<>> THEN Returns(Fresh, <<>>) ELSE Feed(kind, Fresh, text)
        f == Finish(kind, r.st)
    IN  IF r.threw THEN [out |-> r.out, phase |-> "failed"]
        ELSE [out |-> r.out \o f.out, phase |-> IF f.threw THEN "failed" ELSE "done"]

\* The csv reader refuses a record of the text.
RECURSIVE CsvRefused(_)
CsvRefused(s) ==
    LET r == CsvRecord(s, 1, <<>>, <<>>, FALSE, FALSE, TRUE)
    IN  s # <<>> /\ (r.bad \/ CsvRefused(After(s, r.next - 1)))

\* A well-formed archive: entries, their data padded to a block, and the end mark.
RECURSIVE IsArchive(_)
IsArchive(s) ==
    \/ s = <<"0", "0">>
    \/ /\ Len(s) > 2 /\ s[1] \in {"H", "L"}
       /\ \/ s[2] = "0" /\ IsArchive(After(s, 2))
          \/ s[2] = "1" /\ Len(s) > 4 /\ s[4] = "0" /\ IsArchive(After(s, 4))

\* The messages of a stream, and whether it is refused, do not depend on where
\* its chunks end (feed() and finish() of every scanner); csv is excused where
\* its reader refuses a record, which loses the rows before it in that chunk.
\* The texts are shorter than max_buffer_size: what overflows does depend on the
\* chunks, a "r" at the end of one or a second match that is still to come.
ChunkingInvisible ==
    phase \in {"done", "failed"} =>
        \/ kind = "csv" /\ CsvRefused(text)
        \/ Whole = [out |-> out, phase |-> phase]

\* tar_scanner: every entry of a well-formed archive becomes a message, wherever
\* the chunks end -- which a chunk that ends inside the padding disproves, so it
\* is checked for transports whose chunks are whole blocks.
EveryEntryIsRead == kind = "tar" /\ IsArchive(text) => ChunkingInvisible
=============================================================================

----------------------------- MODULE Resources -----------------------------
(***************************************************************************)
(* Functions that hold memory and files while any of their steps may fail: *)
(* data frames (abs_df.c), whole files (abs_fs.c, and read_file and        *)
(* fopen_safe of abs.c), the http client (abs.c) and the terminal plot     *)
(* (abs_plot.c).  A call is given the set of its steps that fail; blocks   *)
(* counts what malloc has returned and nothing has freed.                  *)
(***************************************************************************)
EXTENDS Text

CONSTANTS
    CellMax,               \* characters of a printed cell, 255
    HostMax, PathMax       \* characters of a host and of a path, 255 and 1023

Null == <<"NULL">>
Prefix(s, n) == SubSeq(s, 1, IF n < Len(s) THEN n ELSE Len(s))
One(failing, step) == IF step \in failing THEN 0 ELSE 1

----------------------------------------------------------------------------
(* Data frames.  A column has a name, a type and its cells; a name or a    *)
(* cell whose copy failed is Null.                                         *)

\* Steps of a call that may fail: the column, its name, its array, the list of
\* columns; lost are the strings whose copy failed.
DfCreate(rows) == [rows |-> rows, cols |-> <<>>, blocks |-> 1, leaked |-> 0]

StringBlocks(col) == IF col.type = "string" THEN Cardinality({i \in DOMAIN col.cells : col.cells[i] # Null}) ELSE 0
ColBlocks(col) == 2 + (IF col.name = Null THEN 0 ELSE 1) + StringBlocks(col)

\* abs_df_new_col and the copies: a column that gets no array is given back.
DfNewCol(name, type, values, failing, lost) ==
    [name |-> IF "name" \in failing THEN Null ELSE name, type |-> type,
     cells |-> [i \in DOMAIN values |-> IF type = "string" /\ i \in lost THEN Null ELSE values[i]]]
DfPushCol(df, col, failing) ==
    IF "list" \in failing THEN [df EXCEPT !.leaked = @ + ColBlocks(col)]
    ELSE [df EXCEPT !.cols = Append(@, col), !.blocks = @ + (IF df.cols = <<>> THEN 1 ELSE 0)]
DfAddCol(df, name, type, values, failing, lost) ==
    LET col == DfNewCol(name, type, values, failing, lost)
        strings == IF type = "string" THEN df.rows - Cardinality(lost \cap 1..df.rows) ELSE 0
    IN IF failing \cap {"column", "array"} # {} THEN df
       ELSE DfPushCol([df EXCEPT !.blocks = @ + 2 + One(failing, "name") + strings], col, failing)

\* abs_df_free: the blocks that are left.
\* Bug: the strings of a column are not freed.
Freed_bug(col) == ColBlocks(col) - StringBlocks(col)
Freed(col) == ColBlocks(col)
DfFree(df) ==
    FoldLeft(LAMBDA n, col : n - Freed(col), df.blocks - 1 - (IF df.cols = <<>> THEN 0 ELSE 1), df.cols)

\* abs_df_print: the table's lines, with strlen(NULL) for a name without copy;
\* a cell is cut to the buffer it is printed into, and nothing is printed without
\* room for the widths.
Crash == <<"crash">>
CellText(cell) == IF cell = Null THEN <<>> ELSE Prefix(cell, CellMax)
\* Bug: the name of a column does not count for its width.
Lengths_bug(col) == {Len(CellText(col.cells[i])) : i \in DOMAIN col.cells}
Lengths(col) == {Len(col.name)} \cup {Len(CellText(col.cells[i])) : i \in DOMAIN col.cells}
ColWidth(col) == Max(Lengths(col) \cup {IF col.type = "double" THEN 7 ELSE 0})
Pad(text, width) == text \o [i \in 1..(IF Len(text) < width THEN width - Len(text) ELSE 0) |-> " "]
DfLine(df, cells) ==
    <<"|", " ">> \o FlattenSeq([c \in DOMAIN df.cols |-> Pad(cells[c], ColWidth(df.cols[c])) \o <<" ", "|", " ">>])
DfRule(df) ==
    FlattenSeq([c \in DOMAIN df.cols |-> <<"+">> \o [i \in 1..ColWidth(df.cols[c]) + 2 |-> "-"]]) \o <<"+">>
DfPrint(df, room) ==
    IF df.cols = <<>> \/ ~room THEN <<>>
    ELSE IF \E c \in DOMAIN df.cols : df.cols[c].name = Null THEN Crash
    ELSE <<DfLine(df, [c \in DOMAIN df.cols |-> df.cols[c].name]), DfRule(df)>>
         \o [r \in 1..df.rows |-> DfLine(df, [c \in DOMAIN df.cols |-> CellText(df.cols[c].cells[r])])]

----------------------------------------------------------------------------
(* Whole files.  Another process may write the file between the steps: a   *)
(* read is given what the file holds when its size is taken and when it is *)
(* read.  A result has the code, the data, and the handles and blocks that *)
(* are still held.                                                         *)

Result(rc, data, handles, blocks) == [rc |-> rc, data |-> data, handles |-> handles, blocks |-> blocks]

\* abs_fs_read_file
\* Bug: a short read is not noticed.
ReadWhole_bug(held, n) == n >= 0
ReadWhole(held, n) == Len(held) >= n
FsReadFile(sized, held, failing) ==
    LET n == Len(sized)
    IN IF failing \cap {"open", "seek", "tell", "alloc"} # {} THEN Result(-1, <<>>, 0, 0)
       ELSE IF n > 0 /\ ("read" \in failing \/ ~ReadWhole(held, n)) THEN Result(-1, <<>>, 0, 0)
       ELSE Result(0, Prefix(held, n), 0, 1)

\* abs_fs_write_file: what is in the file after it; a failing fwrite or fclose
\* has written some of the data.
FsWriteFile(old, data, failing, written) ==
    IF "open" \in failing THEN [rc |-> -1, file |-> old]
    ELSE IF failing \cap {"write", "close"} # {} /\ data # <<>> THEN [rc |-> -1, file |-> Prefix(data, written)]
    ELSE [rc |-> IF "close" \in failing THEN -1 ELSE 0, file |-> data]

\* read_file: the file stays open, a short read is what there was, and the
\* string that is made of it ends at its first NUL.
ToNul(s) == IF Contains(s, "nul") THEN Prefix(s, Min({i \in DOMAIN s : s[i] = "nul"}) - 1) ELSE s
ReadFile(sized, held, failing) ==
    IF failing \cap {"seek", "tell", "alloc"} # {} THEN Result(-1, <<>>, 1, 0)
    ELSE Result(0, ToNul(Prefix(held, Len(sized))), 1, 0)

\* fopen_safe: a file without an object is closed again.
FopenSafe(failing) == IF failing \cap {"open", "object"} # {} THEN Result(-1, <<>>, 0, 0) ELSE Result(0, <<>>, 1, 0)

----------------------------------------------------------------------------
(* http_get.  recv may cut the answer anywhere; a piece that the buffer    *)
(* has no room for is lost, and of each piece counts what is before a NUL. *)

\* Bug: the slashes of the scheme end the host.
HostStart_bug(url) == 1
HostStart(url) == LET at == Strstr(url, <<":", "/", "/">>) IN IF at = 0 THEN 1 ELSE at + 3
HttpTarget(url) ==
    LET p == Onward(url, HostStart(url))  slash == Strstr(p, <<"/">>)
    IN [host |-> Prefix(IF slash = 0 THEN p ELSE SubSeq(p, 1, slash - 1), HostMax),
        path |-> IF slash = 0 THEN <<"/">> ELSE Prefix(Onward(p, slash), PathMax)]

BlankLine == <<"cr", "lf", "cr", "lf">>
HttpGet(url, failing, pieces, lost) ==
    LET resp == FlattenSeq([i \in DOMAIN pieces |-> IF i \in lost THEN <<>> ELSE ToNul(pieces[i])])
        at == Strstr(resp, BlankLine)
    IN IF HttpTarget(url).host = <<>> \/ failing \cap {"socket", "lookup", "connect"} # {} THEN Result(-1, <<>>, 0, 0)
       ELSE Result(0, IF at = 0 THEN resp ELSE Onward(resp, at + 4), 0, 0)

----------------------------------------------------------------------------
(* abs_plot_ascii: the row of each point, from the bottom.  The code also   *)
(* clamps it, which only rounding errors of doubles could need.            *)

PlotRows(y, height) ==
    LET h == IF height <= 0 THEN 10 ELSE height
        top == Max(Range(y))  bottom == Min(Range(y))
        low == IF top = bottom THEN bottom - 1 ELSE bottom
        span == IF top = bottom THEN 2 ELSE top - bottom
    IN [i \in DOMAIN y |-> (2 * (y[i] - low) * (h - 1) + span) \div (2 * span)]
=============================================================================

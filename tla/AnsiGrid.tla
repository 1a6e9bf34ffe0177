------------------------------- MODULE AnsiGrid -------------------------------
(***************************************************************************)
(* Screens with attributes: the text constructors of                       *)
(* crates/termproof/src/terminal/attributed.rs. A text is a sequence of    *)
(* lines, a line a sequence of characters; a line is laid out into cells   *)
(* one character or escape sequence at a time, and the SGR state goes on   *)
(* from line to line.                                                      *)
(*                                                                         *)
(* Of the characters that are no digits a few stand for their kind: "a"    *)
(* and "m" are letters, "w" is a wide letter, "n" a combining mark, "t" a  *)
(* tab, "E" the escape character.                                          *)
(***************************************************************************)
EXTENDS Naturals, Sequences, SequencesExt

CONSTANTS
  Columns, Rows,
  TabStop    \* distance of the tab stops

ASSUME GridAssumption == Columns \in Nat /\ Rows \in Nat /\ TabStop \in Nat \ {0}

VARIABLES
  interpret,  \* attributed_screen_from_ansi_text, or from_text
  text,       \* the lines, each a sequence of pieces: characters and what they mean
  rest,       \* the characters that are left of the current line
  attrs,      \* AnsiAttrs
  cells,      \* of the current line
  grid,       \* AttributedScreen.rows
  content,    \* history: the characters put on the grid, and their line
  whole       \* history: every line was read to its end

gridVars == <<interpret, text, rest, attrs, cells, grid, content, whole>>

Digits == <<"0", "1", "2", "3", "4", "5", "6", "7", "8", "9">>
IsLetter(c) == c \in {"a", "m", "w"}
CellWidth(c) == IF c = "w" THEN 2 ELSE 1

Flags == {"bold", "dim", "italic", "underline", "strikethrough", "reverse"}
Channels == {"fg", "bg"}
Default == <<"default">>
Plain == [x \in Flags \cup Channels |-> IF x \in Flags THEN FALSE ELSE Default]

\* With it, as history, how many characters of the line were left when it was made.
Cell(chars, width) == [text |-> chars, width |-> width, attrs |-> attrs, left |-> Len(rest)]

LinesToRead == IF Len(text) < Rows THEN Len(text) ELSE Rows   \* .take(rows)
CharsOf(line) == FlattenSeq([i \in 1..Len(line) |-> line[i].chars])
CharsOfLine(k) == IF k <= LinesToRead THEN CharsOf(text[k]) ELSE <<>>

GridInit(pieces) ==
  /\ interpret \in BOOLEAN
  /\ text = pieces /\ rest = CharsOfLine(1)
  /\ attrs = Plain /\ cells = <<>> /\ grid = <<>>
  /\ content = <<>> /\ whole = TRUE

-----------------------------------------------------------------------------
(* SGR.                                                                    *)

\* The sixteen named colours, and those of the table of 256, whose first sixteen differ.
Palette(i) == <<"palette", i>>
Xterm(i) == <<"xterm", i>>
Rgb(r, g, b) == <<"rgb", r, g, b>>

\* parse_sgr_params: what does not parse as a number is left out, and nothing at all is 0.
Number(p) == FoldLeft(LAMBDA n, d : 10 * n + (CHOOSE v \in 0..9 : Digits[v + 1] = d), 0, p)
IsParam(p) == p # <<>> /\ (\A i \in 1..Len(p) : p[i] \in ToSet(Digits)) /\ Number(p) < 65536
Split(chars) ==
  LET ends == {i \in 1..Len(chars) : chars[i] \in {";", ":"}} \cup {Len(chars) + 1}
      starts == {0} \cup (ends \ {Len(chars) + 1})
      From(e) == Max({s \in starts : s < e})
  IN  [k \in 1..Cardinality(ends) |->
         LET e == SetToSortSeq(ends, <)[k] IN SubSeq(chars, From(e) + 1, e - 1)]
ParseSgrParams(chars) ==
  LET params == SelectSeq(Split(chars), IsParam)
  IN  IF params = <<>> THEN <<0>> ELSE [k \in 1..Len(params) |-> Number(params[k])]

\* A code as a function from the attributes it sets to their values.
SetsTo(names, value) == [x \in names |-> value]
BasicSgr(code) ==
  CASE code \in 30..37 -> SetsTo({"fg"}, Palette(code - 30))
    [] code \in 90..97 -> SetsTo({"fg"}, Palette(code - 82))
    [] code \in 40..47 -> SetsTo({"bg"}, Palette(code - 40))
    [] code \in 100..107 -> SetsTo({"bg"}, Palette(code - 92))
    [] code = 0 -> Plain
    [] code = 1 -> SetsTo({"bold"}, TRUE)
    [] code = 2 -> SetsTo({"dim"}, TRUE)
    [] code = 3 -> SetsTo({"italic"}, TRUE)
    [] code = 4 -> SetsTo({"underline"}, TRUE)
    [] code = 7 -> SetsTo({"reverse"}, TRUE)
    [] code = 9 -> SetsTo({"strikethrough"}, TRUE)
    [] code = 22 -> SetsTo({"bold", "dim"}, FALSE)
    [] code = 23 -> SetsTo({"italic"}, FALSE)
    [] code = 24 -> SetsTo({"underline"}, FALSE)
    [] code = 27 -> SetsTo({"reverse"}, FALSE)
    [] code = 29 -> SetsTo({"strikethrough"}, FALSE)
    [] code = 39 -> SetsTo({"fg"}, Default)
    [] code = 49 -> SetsTo({"bg"}, Default)
    [] OTHER -> <<>>

Updated(as, sets) == [x \in DOMAIN as |-> IF x \in DOMAIN sets THEN sets[x] ELSE as[x]]

Byte(n) == IF n > 255 THEN 255 ELSE n
Indexed(n) == IF n < 256 THEN Xterm(n) ELSE Default

\* apply_extended_color: how many parameters after the code at i belong to it, and the
\* colour they name, if any.
Extended(ps, i) ==
  LET left == Len(ps) - i IN
  IF left = 0 THEN [takes |-> 0, sets |-> <<>>]
  ELSE LET channel == IF ps[i] = 38 THEN {"fg"} ELSE {"bg"} IN
    IF ps[i + 1] = 5 /\ left >= 2
      THEN [takes |-> 2, sets |-> SetsTo(channel, Indexed(ps[i + 2]))]
    ELSE IF ps[i + 1] = 2 /\ left >= 4
      THEN [takes |-> 4,
            sets |-> SetsTo(channel, Rgb(Byte(ps[i + 2]), Byte(ps[i + 3]), Byte(ps[i + 4])))]
    ELSE [takes |-> left, sets |-> <<>>]

\* Faulty: of a colour that is cut short only the first parameter.
UnitOrMode(ps, i) ==
  IF ps[i] \notin {38, 48} THEN [takes |-> 0, sets |-> BasicSgr(ps[i])]
  ELSE IF Extended(ps, i).sets # <<>> THEN Extended(ps, i) ELSE [takes |-> 0, sets |-> <<>>]

Unit(ps, i) ==
  IF ps[i] \in {38, 48} THEN Extended(ps, i) ELSE [takes |-> 0, sets |-> BasicSgr(ps[i])]

\* apply_sgr: one unit after the other, each at its first parameter.
ApplySgr(ps, as) ==
  LET read[i \in 0..Len(ps)] ==
        IF i = 0 THEN [upto |-> 0, attrs |-> as]
        ELSE IF i <= read[i - 1].upto THEN read[i - 1]
        ELSE [upto |-> i + Unit(ps, i).takes,
              attrs |-> Updated(read[i - 1].attrs, Unit(ps, i).sets)]
  IN  read[Len(ps)].attrs

-----------------------------------------------------------------------------
(* One character or one escape sequence.                                   *)

Reading == Len(grid) < LinesToRead
More == Reading /\ rest # <<>> /\ Len(cells) < Columns

Drop(n) == rest' = SubSeq(rest, n + 1, Len(rest))
Put(new) == cells' = cells \o new /\ UNCHANGED attrs
Keep == content' = Append(content, [line |-> Len(grid) + 1, char |-> Head(rest)])

IsEscape == interpret /\ Head(rest) = "E"

\* push_char: a tab runs to the next stop or to the edge.
Tab ==
  /\ More /\ Head(rest) = "t"
  /\ LET stop == (Len(cells) \div TabStop + 1) * TabStop
         target == IF stop < Columns THEN stop ELSE Columns
     IN  Put([i \in 1..target - Len(cells) |-> Cell(<<>>, 1)])
  /\ Drop(1)
  /\ UNCHANGED <<interpret, text, grid, content, whole>>

\* A mark joins the cell before it.
Mark ==
  /\ More /\ Head(rest) = "n" /\ cells # <<>>
  /\ cells' = [cells EXCEPT ![Len(cells)].text = Append(@, "n")]
  /\ Keep /\ Drop(1)
  /\ UNCHANGED <<interpret, text, attrs, grid, whole>>

\* A wide glyph is followed by a filler, unless it is in the last column.
Glyph ==
  /\ More /\ ~IsEscape /\ Head(rest) # "t" /\ (Head(rest) = "n" => cells = <<>>)
  /\ LET width == CellWidth(Head(rest))
         filler == width = 2 /\ Len(cells) + 1 < Columns
     IN  Put(<<Cell(<<Head(rest)>>, width)>> \o (IF filler THEN <<Cell(<<>>, 0)>> ELSE <<>>))
  /\ Keep /\ Drop(1)
  /\ UNCHANGED <<interpret, text, grid, whole>>

\* consume_ansi_sequence: from "E[" to the next letter on the line.
Finals == {i \in 3..Len(rest) : IsLetter(rest[i])}
IsSequence == Len(rest) > 2 /\ rest[2] = "[" /\ Finals # {}

Sgr ==
  /\ More /\ IsEscape /\ IsSequence /\ rest[Min(Finals)] = "m"
  /\ attrs' = ApplySgr(ParseSgrParams(SubSeq(rest, 3, Min(Finals) - 1)), attrs)
  /\ Drop(Min(Finals))
  /\ UNCHANGED <<interpret, text, cells, grid, content, whole>>

OtherSequence ==
  /\ More /\ IsEscape /\ IsSequence /\ rest[Min(Finals)] # "m"
  /\ Drop(Min(Finals))
  /\ UNCHANGED <<interpret, text, attrs, cells, grid, content, whole>>

\* An escape that starts no sequence is left out, and what follows it is content.
BareEscape ==
  /\ More /\ IsEscape /\ ~IsSequence
  /\ Drop(1)
  /\ UNCHANGED <<interpret, text, attrs, cells, grid, content, whole>>

\* At its end or at the last column, whatever is left of it.
LineEnds ==
  /\ Reading /\ ~More
  /\ grid' = Append(grid, cells) /\ cells' = <<>>
  /\ rest' = CharsOfLine(Len(grid) + 2) /\ whole' = (whole /\ rest = <<>>)
  /\ UNCHANGED <<interpret, text, attrs, content>>

GridStep == Tab \/ Mark \/ Glyph \/ Sgr \/ OtherSequence \/ BareEscape \/ LineEnds

-----------------------------------------------------------------------------
(* What is read off a grid.                                                *)

\* text_lines, without its trimming: the text of a row, a blank cell as <<>>.
TextOf(row) ==
  FlattenSeq([i \in 1..Len(row) |-> IF row[i].width > 0 THEN row[i].text ELSE <<>>])

\* cell_colors, of names: the default background is the page's.
Resolved(c, default) == IF c = Default THEN <<default>> ELSE c
CellColors(cell) ==
  LET fg == Resolved(cell.attrs.fg, "page ink")  bg == Resolved(cell.attrs.bg, "page")
  IN  IF cell.attrs.reverse THEN [fg |-> bg, bg |-> fg] ELSE [fg |-> fg, bg |-> bg]

\* printable: escapes and tabs are control characters.
Printable(chars) == SelectSeq(chars, LAMBDA c : c \notin {"E", "t"})

\* screen_svg of one row: what is painted behind its cells, and the glyphs.
Seen(row) == {i \in 1..Len(row) : row[i].width > 0}
Backgrounds(row) ==
  {[column |-> i, width |-> row[i].width, fill |-> CellColors(row[i]).bg] :
     i \in {j \in Seen(row) : CellColors(row[j]).bg # <<"page">>}}
Glyphs(row) ==
  {[column |-> i, width |-> row[i].width, text |-> Printable(row[i].text),
    fill |-> CellColors(row[i]).fg, look |-> [f \in Flags \ {"reverse"} |-> row[i].attrs[f]]] :
     i \in {j \in Seen(row) : Printable(row[j].text) # <<>>}}

Laid(row) ==
  /\ Len(row) <= Columns
  /\ \A i \in 1..Len(row) :
       /\ row[i].width = 0 => i > 1 /\ row[i - 1].width = 2
       /\ row[i].width = 2 => i = Columns \/ (i < Len(row) /\ row[i + 1].width = 0)

ContentOf(line) ==
  FlattenSeq([i \in 1..Len(content) |->
                IF content[i].line = line THEN <<content[i].char>> ELSE <<>>])

\* The marks whose cell is the filler behind a wide glyph: no text shows them.
AfterWide(chars) ==
  {i \in 1..Len(chars) : chars[i] = "n" /\ \E j \in 1..(i - 1) :
     chars[j] = "w" /\ \A k \in (j + 1)..i : chars[k] = "n"}

\* However tabs, marks, escapes and wide glyphs follow on each other, the text read off
\* the grid is what was put on it, in order, and no two glyphs of its picture overlap.
GridIsLaidOut ==
  \A l \in 1..Len(grid) :
    /\ Laid(grid[l])
    /\ AfterWide(ContentOf(l)) = {} => TextOf(grid[l]) = ContentOf(l)
    /\ \A g, h \in Glyphs(grid[l]) : g.column < h.column => g.column + g.width <= h.column

\* Each attribute as the last of the settings has it that sets it.
Latest(settings, as) ==
  [x \in DOMAIN as |->
     LET setting == {i \in 1..Len(settings) : x \in DOMAIN settings[i]}
     IN  IF setting = {} THEN as[x] ELSE settings[Max(setting)][x]]

SetsOf(line) == [i \in 1..Len(line) |-> line[i].sets]
Meant(k) == Latest(FlattenSeq([i \in 1..k |-> SetsOf(text[i])]), Plain)

\* At the start of a line the attributes are those the text has asked for so far, also
\* where a sequence was cut short or a line before was left in colours.
AttrsFollowText ==
  interpret /\ whole /\ cells = <<>> /\ rest = CharsOfLine(Len(grid) + 1) =>
    attrs = Meant(Len(grid))

\* The first i pieces are begun, and no other, when so many characters are left.
Begun(i, line, left) ==
  /\ Len(CharsOf(SubSeq(line, i + 1, Len(line)))) <= left
  /\ i > 0 => left < Len(CharsOf(SubSeq(line, i, Len(line))))

CellFollowsText(cell) ==
  /\ ~interpret => cell.attrs = Plain
  /\ interpret /\ whole =>
       LET line == text[Len(grid) + 1] IN
       \E i \in 0..Len(line) :
         /\ Begun(i, line, cell.left)
         /\ cell.attrs = Latest(SetsOf(SubSeq(line, 1, i)), Meant(Len(grid)))

\* Each cell of the line that is being laid out, blanks and fillers with the glyphs, has
\* the attributes that the lines before and the pieces before it on its line have asked
\* for, and those only; in a text that is not interpreted it has none.
CellsFollowText == \A n \in 1..Len(cells) : CellFollowsText(cells[n])

\* All three: each row has what was put on its line, in order, in columns of its own and in
\* the colours it was written in.
GridShowsText == GridIsLaidOut /\ AttrsFollowText /\ CellsFollowText

=============================================================================

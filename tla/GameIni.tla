------------------------------ MODULE GameIni ------------------------------
(***************************************************************************)
(* The INI documents of game/ini.rs: GameIni::load, get, set and save.      *)
(*                                                                          *)
(* A line of the file is a header, a key with its value, or anything else   *)
(* (a comment, a blank, an unknown line), and the text of a name or value   *)
(* is a model value.  The document keeps two things that must agree: the    *)
(* lines, which save writes, and the index, which get reads.                *)
(***************************************************************************)
EXTENDS Naturals, Sequences, FiniteSets, SequencesExt

CONSTANTS
  Sections, Keys,  \* the names a caller may pass, in every spelling
  Lower,           \* to_lowercase of every name
  Values,
  Texts,           \* what the file may hold when the program first sees it
  MaxSets,         \* bound: calls of set
  Top              \* the section of the lines before the first header

VARIABLES
  text,    \* the file
  lines,   \* GameIni.raw_lines; a key line knows its section
  index,   \* GameIni.sections
  loaded,  \* there is a document
  sets

iniVars == <<text, lines, index, loaded, sets>>

Header(s) == [kind |-> "section", name |-> s]
Line(k, v) == [kind |-> "key", name |-> k, value |-> v]
Within(line, s) == [kind |-> "key", name |-> line.name, value |-> line.value, in |-> s]

HeadersTo(t, i) == {j \in 1 .. i : t[j].kind = "section"}

\* The section a line is in: the one of the last header up to it.
SectionAt(t, i) ==
  IF HeadersTo(t, i) = {} THEN Top ELSE Lower[t[Max(HeadersTo(t, i))].name]

KeyLines(t) == {i \in DOMAIN t : t[i].kind = "key"}

\* parse: of two lines with the same key in the same section the index has the last.
RawLines(t) ==
  [i \in DOMAIN t |-> IF i \in KeyLines(t) THEN Within(t[i], SectionAt(t, i)) ELSE t[i]]

Place(t, i) == <<SectionAt(t, i), Lower[t[i].name]>>

IndexOf(t) ==
  [p \in {Place(t, i) : i \in KeyLines(t)} |->
     t[Max({i \in KeyLines(t) : Place(t, i) = p})].value]

IniInit ==
  /\ text \in Texts
  /\ lines = <<>> /\ index = <<>> /\ loaded = FALSE /\ sets = 0

Load ==
  /\ lines' = RawLines(text) /\ index' = IndexOf(text) /\ loaded' = TRUE
  /\ UNCHANGED <<text, sets>>

Hits(s, k) ==
  {i \in KeyLines(lines) : lines[i].in = s /\ Lower[lines[i].name] = k}
Heads(s) == {i \in DOMAIN lines : lines[i].kind = "section" /\ Lower[lines[i].name] = s}

\* Mutant of LastLineOfSection: the next header ends nothing.
LastLineOfFile(s) == Len(lines)

\* The line before the first one of another section, counted from the first header.
LastLineOfSection(s) ==
  LET others == {i \in DOMAIN lines :
                   /\ i > Min(Heads(s))
                   /\ \/ lines[i].kind = "section" /\ i \notin Heads(s)
                      \/ lines[i].kind = "key" /\ lines[i].in # s}
  IN IF others = {} THEN Len(lines) ELSE Min(others) - 1

\* The first line with the key takes the value, or a new line ends the section, or
\* a new section ends the file.
WithKey(section, key, v) ==
  LET s == Lower[section]
      hits == Hits(s, Lower[key])
      line == Within(Line(key, v), s)
  IN IF hits # {} THEN [lines EXCEPT ![Min(hits)].value = v]
     ELSE IF Heads(s) # {} THEN InsertAt(lines, LastLineOfSection(s) + 1, line)
     ELSE lines \o <<Header(section), line>>

SetKey ==
  /\ loaded /\ sets < MaxSets
  /\ sets' = sets + 1
  /\ \E s \in Sections, k \in Keys, v \in Values :
       /\ lines' = WithKey(s, k, v)
       /\ index' = [p \in DOMAIN index \cup {<<Lower[s], Lower[k]>>} |->
                      IF p = <<Lower[s], Lower[k]>> THEN v ELSE index[p]]
  /\ UNCHANGED <<text, loaded>>

\* What save_to writes.
Written ==
  [i \in DOMAIN lines |-> IF i \in KeyLines(lines) THEN Line(lines[i].name, lines[i].value)
                          ELSE lines[i]]

Save ==
  /\ loaded /\ text' = Written
  /\ UNCHANGED <<lines, index, loaded, sets>>

\* The file is cut off before it is written, here at the end of some line; after an
\* error the document is still there, after a crash it is not.
SaveStops ==
  /\ loaded
  /\ \E n \in 0 .. Len(lines) - 1 : text' = SubSeq(Written, 1, n)
  /\ \/ UNCHANGED <<lines, index, loaded>>
     \/ lines' = <<>> /\ index' = <<>> /\ loaded' = FALSE
  /\ UNCHANGED sets

IniNext == Load \/ SetKey \/ Save \/ SaveStops

-----------------------------------------------------------------------------
NoKeyTwice ==
  \A i, j \in KeyLines(lines) : Place(lines, i) = Place(lines, j) => i = j

\* What get answers is what the next load of the saved file will answer, for every
\* key and through any number of sets, unless the file came with a key twice: set
\* changes the first of its lines and parse takes the last.
SetSticks == loaded /\ NoKeyTwice => IndexOf(Written) = index

\* The lines that are not of the key, numbered.
Others(t, s, k) ==
  {i \in DOMAIN t : ~ (t[i].kind = "key" /\ t[i].in = s /\ Lower[t[i].name] = k)}
Number(at, i) == Cardinality({j \in at : j <= i})
Rest(t, s, k) == {<<Number(Others(t, s, k), i), t[i]>> : i \in Others(t, s, k)}

\* A set leaves every comment, every blank and every other key where it was: it
\* touches lines of its own key alone, and may add a header at the end.
OthersStayStep ==
  sets' # sets =>
    \E section \in Sections, key \in Keys :
      LET s == Lower[section]
          k == Lower[key]
          next == Cardinality(Others(lines, s, k)) + 1
      IN Rest(lines', s, k) \in {Rest(lines, s, k),
                                 Rest(lines, s, k) \cup {<<next, Header(section)>>}}
=============================================================================
